-------------------------------- MODULE Query --------------------------------
(***************************************************************************)
(* A SELECT statement from its text to its rows: parse_sql, build_plan,    *)
(* do_execute with render_soql, on one object of Salesforce.               *)
(*                                                                         *)
(* What the application means is a record of the statement's parts; it is  *)
(* spelled out as tokens, parsed, planned, and executed with parameters    *)
(* and SQL_ATTR_MAX_ROWS.  What Salesforce answers to a SOQL query is      *)
(* external, as is the order of rows that a query leaves open.             *)
(***************************************************************************)
EXTENDS SqlParser, WhereFold, SequencesExt

CONSTANTS
    Statements,     \* what applications mean: see Spelling
    Fields,         \* the columns in the order of the object's describe
    Table,          \* the object's rows, a function from Columns each
    Bindings,       \* values of the markers
    RowLimits       \* values of SQL_ATTR_MAX_ROWS

ASSUME QueryConstants ==
    /\ Columns \subseteq STRING \ {NoName} /\ "Id" \in Columns /\ \A c \in Columns : IsName(c)
    /\ Fields \in Seq(Columns)
    /\ "T" \in STRING /\ IsName("T")
    /\ IsFiniteSet(Table) /\ \A row \in Table, c \in Columns : row[c] \in Int \cup {Null}
    /\ RowLimits \subseteq Nat

VARIABLES
    meant,      \* the statement that the application means
    stage,      \* whether it was prepared, and whether it was executed since
    plan,       \* the plan, or Refused
    params, max_rows,
    answer      \* the rows of the last execution

vars == <<meant, stage, plan, params, max_rows, answer>>

------------------------------------------------------------------------------
(* A statement in tokens.  Its condition is a sequence of tokens already. *)

NumeralOf(n) == CHOOSE t \in DOMAIN Numerals : Numerals[t] = n
NoRows == <<>>

Clause(here, tokens) == IF here THEN tokens ELSE <<>>

SpelledShown(w) ==
    CASE w.kind = "Star" -> <<"*">>
      [] w.kind = "CountStar" -> <<"COUNT", "(", "*", ")">>
      [] w.kind = "Column" -> <<w.column>>
      [] OTHER -> <<IF w.lit = Null THEN "NULL" ELSE NumeralOf(w.lit)>>
SpelledItem(i) == SpelledShown(i.what) \o Clause(i.alias # NoName, <<"AS", i.alias>>)

SpelledKey(k) ==
    <<IF k.ordinal > 0 THEN NumeralOf(k.ordinal) ELSE k.name>> \o Clause(k.desc, <<"DESC">>)
    \o Clause(k.nulls # NoName, <<"NULLS", k.nulls>>)

Commas(parts) ==
    LET joined[k \in 1 .. Len(parts)] == IF k = 1 THEN parts[1] ELSE joined[k - 1] \o <<",">> \o parts[k]
    IN  joined[Len(parts)]

\* The styles of a limit: TOP n, TOP (n), LIMIT n OFFSET m, OFFSET m ROWS FETCH FIRST n ROWS ONLY.
Limited(m, style) == m.limit # NoLimit /\ m.style = style
Limit(m) == <<NumeralOf(m.limit)>>

\* What stands before the condition and behind it.
Opening(m) ==
    <<"SELECT">>
    \o Clause(Limited(m, "top"), <<"TOP">> \o Limit(m))
    \o Clause(Limited(m, "top()"), <<"TOP", "(">> \o Limit(m) \o <<")">>)
    \o Commas([i \in DOMAIN m.items |-> SpelledItem(m.items[i])])
    \o Clause(m.from, <<"FROM", "T">>)
    \o Clause(m.where # <<>>, <<"WHERE">>)

Closing(m) ==
    Clause(m.order_by # <<>>, <<"ORDER", "BY">> \o Commas([i \in DOMAIN m.order_by |-> SpelledKey(m.order_by[i])]))
    \o Clause(Limited(m, "limit"), <<"LIMIT">> \o Limit(m))
    \o Clause(m.offset # NoLimit, <<"OFFSET", NumeralOf(m.offset)>>)
    \o Clause(m.offset # NoLimit /\ m.style = "fetch", <<"ROWS">>)
    \o Clause(Limited(m, "fetch"), <<"FETCH", "FIRST">> \o Limit(m) \o <<"ROWS", "ONLY">>)

Spelling(m) == Opening(m) \o m.where \o Closing(m)

\* What a statement can be: its condition has no word in it that begins another clause, and no more
\* junctions and negations than a tree can have.
Written == {Numerals[t] : t \in DOMAIN Numerals}
ClauseWords == {"GROUP", "HAVING", "ORDER", "LIMIT", "OFFSET", "FETCH", ";", "end"}
Connectives == {"AND", "OR", "NOT", "BETWEEN"}

IsSequence(q) == Len(q) \in Nat /\ q = [i \in 1 .. Len(q) |-> q[i]]

IsItem(i) ==
    /\ i = Item(i.what, i.alias) /\ i.alias \in STRING /\ IsWord(i.alias)
    /\ \/ i.what \in {Star, CountStar}
       \/ i.what.kind = "Column" /\ i.what = Column(i.what.column) /\ i.what.column \in STRING /\ IsName(i.what.column)
       \/ i.what.kind = "Literal" /\ i.what = Literal(i.what.lit) /\ i.what.lit \in Written \cup {Null}

IsKey(k) ==
    /\ k = [ordinal |-> k.ordinal, name |-> k.name, desc |-> k.desc, nulls |-> k.nulls]
    /\ IF k.ordinal = 0 THEN k.name \in STRING /\ IsName(k.name) ELSE k.ordinal \in Written /\ k.name = NoName
    /\ k.desc \in BOOLEAN /\ k.nulls \in {NoName, "FIRST", "LAST"}

Markers(w) == Cardinality({i \in DOMAIN w : w[i] = "param"})

IsStatement(m) ==
    /\ IsSequence(m.items) /\ m.items # <<>> /\ \A i \in DOMAIN m.items : IsItem(m.items[i])
    /\ m.from \in BOOLEAN
    /\ m.where \in Seq(STRING \ ClauseWords)
    /\ IsSequence(m.order_by) /\ \A i \in DOMAIN m.order_by : IsKey(m.order_by[i])
    /\ {m.limit, m.offset} \subseteq Written \cup {NoLimit}
    /\ m.style \in {"top", "top()", "limit", "fetch"}
    /\ Cardinality({i \in DOMAIN Spelling(m) : Spelling(m)[i] \in Connectives}) <= Deepest

ASSUME StatementsAssumption == \A m \in Statements : IsStatement(m)
ASSUME BindingsAssumption ==
    \A m \in Statements, binding \in Bindings :
        \A i \in 0 .. Markers(m.where) - 1 : binding[i] \in Int \cup {Null}

------------------------------------------------------------------------------
(* build_plan *)

Refused == [kind |-> "Refused"]

\* A column of the result: its name, and the field of the record or the constant it shows.
FieldColumn(f, name) == [kind |-> "Field", name |-> name, field |-> f]
ConstColumn(v, name) == [kind |-> "Const", name |-> name, const |-> v]
CountColumn(name) == [kind |-> "Count", name |-> name]
IsField(c) == c.kind = "Field"

NameOr(alias, name) == IF alias = NoName THEN name ELSE alias

ColumnsOfItem(i) ==
    CASE i.what.kind = "Star" -> [k \in DOMAIN Fields |-> FieldColumn(Fields[k], Fields[k])]
      [] i.what.kind = "Column" -> <<FieldColumn(i.what.column, NameOr(i.alias, i.what.column))>>
      [] i.what.kind = "Literal" -> <<ConstColumn(i.what.lit, NameOr(i.alias, "EXPR"))>>
      [] OTHER -> <<CountColumn(NameOr(i.alias, "EXPR"))>>

PlanColumns(st) == FlattenSeq([i \in DOMAIN st.items |-> ColumnsOfItem(st.items[i])])

\* A field is asked for once.
add_field(fields, c) ==
    IF IsField(c) /\ ~\E i \in DOMAIN fields : fields[i] = c.field THEN Append(fields, c.field) ELSE fields

SoqlFields(columns) ==
    LET fields[k \in 0 .. Len(columns)] == IF k = 0 THEN <<>> ELSE add_field(fields[k - 1], columns[k])
    IN  IF fields[Len(columns)] = <<>> THEN <<"Id">> ELSE fields[Len(columns)]

\* A key of ORDER BY: the field of the column with that number or that name, or else the field.
KeyField(columns, k) ==
    LET named == {i \in DOMAIN columns : IsField(columns[i]) /\ columns[i].name = k.name}
    IN  IF k.ordinal > 0
          THEN IF k.ordinal \in DOMAIN columns /\ IsField(columns[k.ordinal]) THEN columns[k.ordinal].field ELSE NoName
        ELSE IF named # {} THEN columns[Min(named)].field
        ELSE IF k.name \in Columns THEN k.name ELSE NoName

\* A statement that was parsed, without FROM: only literals.
ConstantPlan(st, markers) ==
    IF st.where # NoWhere \/ markers > 0 \/ \E i \in DOMAIN st.items : st.items[i].what.kind # "Literal"
      THEN Refused
    ELSE [kind |-> "Constant", columns |-> PlanColumns(st)]

HasCount(st) == \E i \in DOMAIN st.items : st.items[i].what.kind = "CountStar"

Keys(st, columns) ==
    IF HasCount(st) THEN <<>>
    ELSE [i \in DOMAIN st.order_by |->
            [field |-> KeyField(columns, st.order_by[i]), desc |-> st.order_by[i].desc,
             nulls |-> st.order_by[i].nulls]]

\* The plan of a query with its columns, its condition and its keys.
SoqlPlan(st, markers, columns, frag, keys) ==
    IF \/ \E i \in DOMAIN columns : IsField(columns[i]) /\ columns[i].field \notin Columns
       \/ HasCount(st) /\ Len(st.items) # 1
       \/ frag = Rejected
       \/ \E i \in DOMAIN keys : keys[i].field = NoName
      THEN Refused
    ELSE [kind |-> IF HasCount(st) THEN "Count" ELSE "Soql", columns |-> columns, fields |-> SoqlFields(columns),
          where |-> frag, always_empty |-> frag = const_frag(FALSE), order_by |-> keys,
          limit |-> st.limit, offset |-> st.offset, param_count |-> markers,
          slots |-> IF st.where = NoWhere THEN NoSlots ELSE SlotsOf(st.where)]

Planned(st, markers) ==
    IF st.from
      THEN SoqlPlan(st, markers, PlanColumns(st),
                    IF st.where = NoWhere THEN const_frag(TRUE) ELSE render[st.where], Keys(st, PlanColumns(st)))
    ELSE ConstantPlan(st, markers)

IfParsed(r) == IF r.ok THEN Planned(r.v, r.n) ELSE Refused
build_plan(s) == IfParsed(parse(s))

------------------------------------------------------------------------------
(* Salesforce *)

\* Whether row x comes before row y in the order of the keys.  Nulls come first unless the key says
\* last.  Rows that the keys leave equal keep the order of the table.
Before(x, y, keys) ==
    LET less(k) ==
            LET a == x[k.field]
                b == y[k.field]
            IN  IF Null \in {a, b} THEN a # b /\ (a = Null) = (k.nulls # "LAST")
                ELSE IF k.desc THEN a > b ELSE a < b
        same(k) == x[k.field] = y[k.field]
    IN  \/ \E i \in DOMAIN keys : less(keys[i]) /\ \A j \in 1 .. i - 1 : same(keys[j])
        \/ x.Id < y.Id /\ \A i \in DOMAIN keys : same(keys[i])

\* Of some rows, the one that n others precede.
Nth(rows, n, keys) == CHOOSE row \in rows : Cardinality({x \in rows : Before(x, row, keys)}) = n

Skipped(offset) == IF offset = NoLimit THEN 0 ELSE offset

\* How many of n rows are behind the offset and within the limit.
Height(n, offset, limit) == Min({Max({0, n - Skipped(offset)})} \cup ({limit} \ {NoLimit}))

\* The records that answer a query, or none for a field that is asked for twice.
Records(soql, binding) ==
    LET rows == {row \in Table : Selects(soql.where, row, binding)}
    IN  IF ~IsInjective(soql.fields) THEN <<>>
        ELSE [n \in 1 .. Height(Cardinality(rows), soql.offset, soql.limit) |->
                 Restrict(Nth(rows, Skipped(soql.offset) + n - 1, soql.order_by), ToSet(soql.fields))]

------------------------------------------------------------------------------
(* do_execute *)

\* render_soql: the smaller of the statement's limit and SQL_ATTR_MAX_ROWS, where 0 is none.
RowLimit(limit, rows) ==
    IF rows > 0 /\ (limit = NoLimit \/ rows < limit) THEN rows ELSE limit

render_soql(rows) ==
    [fields |-> plan.fields, where |-> plan.where, order_by |-> plan.order_by,
     limit |-> RowLimit(plan.limit, rows), offset |-> plan.offset]

\* The values of a row of the result.
RowOf(record, count) ==
    [i \in DOMAIN plan.columns |->
        LET c == plan.columns[i]
        IN  IF IsField(c) THEN record[c.field] ELSE IF c.kind = "Const" THEN c.const ELSE count]

Rows(binding, rows) ==
    IF plan.kind = "Constant" THEN <<RowOf(<<>>, 0)>>
    ELSE IF plan.always_empty THEN NoRows
    ELSE LET records == Records(render_soql(rows), binding)
         IN  IF plan.kind = "Count" THEN <<RowOf(<<>>, Len(records))>>
             ELSE [i \in DOMAIN records |-> RowOf(records[i], 0)]

Prepare ==
    /\ plan' = build_plan(Spelling(meant))
    /\ stage' = "prepared"
    /\ answer' = NoRows
    /\ UNCHANGED <<meant, params, max_rows>>

Execute(binding, rows) ==
    /\ stage # "allocated" /\ plan # Refused
    /\ stage' = "executed"
    /\ params' = binding
    /\ max_rows' = rows
    /\ answer' = Rows(binding, rows)
    /\ UNCHANGED <<meant, plan>>

Init ==
    /\ meant \in Statements
    /\ stage = "allocated"
    /\ plan = Refused
    /\ params = <<>> /\ max_rows = 0
    /\ answer = NoRows

Next ==
    \/ Prepare
    \/ \E binding \in Bindings, rows \in RowLimits : Execute(binding, rows)

Spec == Init /\ [][Next]_vars

------------------------------------------------------------------------------
(* What the statement means *)

Planning == stage = "prepared"
Executed == stage = "executed"
Readings ==
    IF meant.where = <<>> THEN {}
    ELSE Conditions(Spelling(meant), Len(Opening(meant)) + 1, Len(Opening(meant)) + Len(meant.where))
Condition == IF meant.where = <<>> THEN NoWhere ELSE CHOOSE e \in Readings : TRUE

\* The columns of the result, each with its name.
Output ==
    LET of(i) == IF i.what = Star THEN [k \in DOMAIN Fields |-> Item(Column(Fields[k]), Fields[k])]
                 ELSE IF IsColumn(i.what) /\ i.alias = NoName THEN <<Item(i.what, i.what.column)>> ELSE <<i>>
    IN  FlattenSeq([i \in DOMAIN meant.items |-> of(meant.items[i])])

\* The columns that a key of ORDER BY may mean: a number, a name in the result, or else one of the object.
Keyed(k) ==
    LET fits(i) == IsColumn(Output[i].what) /\ IF k.ordinal > 0 THEN i = k.ordinal ELSE Output[i].alias = k.name
        found == {i \in DOMAIN Output : fits(i)}
    IN  IF found # {} THEN {Output[Min(found)].what.column} ELSE {k.name} \cap Columns

Counts == \E i \in DOMAIN meant.items : meant.items[i].what = CountStar

\* A statement that the driver takes (README.md:149-171).
Acceptable ==
    /\ meant.where # <<>> => meant.from /\ Readings # {} /\ Supported(Condition)
    /\ IF meant.from
         THEN /\ \A i \in DOMAIN Output : IsColumn(Output[i].what) => resolves(Output[i].what)
              /\ IF Counts THEN Len(meant.items) = 1
                 ELSE \A i \in DOMAIN meant.order_by : Keyed(meant.order_by[i]) # {}
       ELSE \A i \in DOMAIN meant.items : meant.items[i].what.kind = "Literal"

\* The rows that a condition is true of.
Matches(e) == {row \in Table : e = NoWhere \/ Meaning(e, row, params) = "true"}

KeysMeant ==
    [i \in DOMAIN meant.order_by |->
        LET k == meant.order_by[i]
        IN  [field |-> CHOOSE c \in Keyed(k) : TRUE, desc |-> k.desc, nulls |-> k.nulls]]

Shown(row) ==
    [i \in DOMAIN Output |-> IF IsColumn(Output[i].what) THEN row[Output[i].what.column] ELSE Output[i].what.lit]

\* The smaller of the statement's limit and SQL_ATTR_MAX_ROWS, where 0 is none.
LimitMeant ==
    LET limits == {meant.limit, IF max_rows = 0 THEN NoLimit ELSE max_rows} \ {NoLimit}
    IN  IF limits = {} THEN NoLimit ELSE Min(limits)

\* The answer shows these rows, as the statement says, or counts them.
Answers(rows) ==
    LET all == Cardinality(rows)
        height == Height(all, meant.offset, LimitMeant)
    IN  IF Counts THEN plan.always_empty \/ height < all \/ answer = <<<<all>>>>
        ELSE answer = [n \in 1 .. height |-> Shown(Nth(rows, Skipped(meant.offset) + n - 1, KeysMeant))]

\* A reading of the statement is the one that was meant.
IsMeant(r) ==
    /\ r.ok /\ r.v.from = meant.from
    /\ r.v.items = meant.items
    /\ IF meant.where = <<>> THEN r.v.where = NoWhere ELSE Readings = {r.v.where}
    /\ r.v.order_by = meant.order_by
    /\ r.v.limit = meant.limit /\ r.v.offset = meant.offset
    /\ r.n = Markers(meant.where)

------------------------------------------------------------------------------
(* Properties *)

\* The parser finds the statement that was meant, and of its condition the one tree that the grammar
\* gives it: NOT before AND before OR, the AND of a BETWEEN apart, markers numbered as they are written
\* (sql_parser.cpp:310-391).
ParsesWhatIsMeant ==
    Planning /\ (meant.where = <<>> \/ Readings # {}) => IsMeant(parse(Spelling(meant)))

\* What the driver does not support is refused when it is prepared, and nothing else is, also where
\* folding would remove the part that is not supported (README.md:169, sql_plan.cpp:291-402).
RejectsUnsupported == Planning => ((plan = Refused) <=> ~Acceptable)

\* Each marker has one slot, with the column it is compared with, also when the condition it stands in
\* is folded away: SQLDescribeParam and the values of the others rely on it (sql_plan.cpp:110-120, :399).
EveryMarkerHasSlot ==
    plan # Refused /\ plan.kind # "Constant" =>
        /\ DOMAIN plan.slots = 0 .. plan.param_count - 1
        /\ \A i \in DOMAIN plan.slots : plan.slots[i] \in ComparedWith(Condition, i)

\* The answer is what the statement means: the rows of which the condition is true, in the order of the
\* keys, from the offset on, as many as the smaller of the two limits allows, each shown as the select
\* list says; or their number.  Not promised: a condition with an unknown constant under a NOT, and
\* a count that is limited or whose condition is folded to false.
AnswersTheQuery ==
    LET e == Condition
    IN  Executed =>
          IF ~meant.from THEN answer = <<Shown(<<>>)>>
          ELSE (e # NoWhere /\ UnknownUnderNot(e)) \/ Answers(Matches(e))

\* A row for which the condition is unknown is not returned (sql_plan.cpp:87).
UnknownIsNotTrue ==
    Executed => \A row \in Table :
                    Meaning(Condition, row, params) = "unknown" => Shown(row) \notin ToSet(answer)
==============================================================================
