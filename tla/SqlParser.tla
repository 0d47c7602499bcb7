------------------------------ MODULE SqlParser ------------------------------
(***************************************************************************)
(* The recursive descent of sql_parser.cpp, on sequences of tokens, and    *)
(* next to it the conditions of the documented grammar as a definition of  *)
(* which trees a span of tokens can be read as (README.md:149).            *)
(*                                                                         *)
(* A token is a string.  Keywords, names and the marker of a parameter     *)
(* ("param") are words; numerals have a value.  A name stands for a path   *)
(* of one part.  Literals of other types parse as numbers do.              *)
(*                                                                         *)
(* A loop of the parser goes round once for each separator and a nested    *)
(* call once for each NOT or parenthesis, neither more often than there    *)
(* are tokens: both are functions of a number of rounds or levels.         *)
(***************************************************************************)
EXTENDS Condition, FiniteSets

CONSTANT Numerals     \* [token -> number]

Comparisons == {"=", "!=", "<>", "<", "<=", ">", ">="}
Arithmetic == {"+", "-", "*", "/"}
Punctuation == Comparisons \cup Arithmetic \cup {"(", ")", ",", ".", ";", "end", "param"}
Symbols == Punctuation \cup DOMAIN Numerals
Comma == ","

Reserved == {"SELECT", "FROM", "WHERE", "ORDER", "GROUP", "HAVING", "LIMIT", "OFFSET", "FETCH", "UNION",
    "JOIN", "INNER", "LEFT", "RIGHT", "FULL", "CROSS", "ON", "AND", "OR", "NOT", "AS", "BY", "ASC", "DESC",
    "NULLS", "IN", "LIKE", "IS", "NULL", "BETWEEN", "TOP", "DISTINCT", "EXCEPT", "INTERSECT", "ROWS",
    "ROW", "ONLY", "ESCAPE"}
OtherKeywords == {"COUNT", "EXISTS", "FIRST", "NEXT", "LAST"}

ASSUME ParserConstants ==
    \A t \in DOMAIN Numerals :
        t \in STRING /\ Numerals[t] \in Nat /\ t \notin Punctuation \cup Reserved \cup OtherKeywords
ASSUME WordsAssumption == Punctuation \cup Reserved \cup OtherKeywords \subseteq STRING

------------------------------------------------------------------------------
(* The parser: p is the next token, n the markers so far, v what was read *)

Between(a, negated, lo, hi) ==
    LET both == And(Compare(a, ">=", lo), Compare(a, "<=", hi)) IN IF negated THEN Not(both) ELSE both

Negatable(op) == IF op = "<>" THEN "!=" ELSE op

tok(s, p) == IF p \in DOMAIN s THEN s[p] ELSE "end"
IsWord(t) == t \notin Symbols
IsName(t) == IsWord(t) /\ t \notin Reserved

Error == [ok |-> FALSE, p |-> 0, n |-> 0, v |-> <<>>]
Read(p, n, v) == [ok |-> TRUE, p |-> p, n |-> n, v |-> v]

\* What was read, made into something else.
Made(r, v) == IF r.ok THEN Read(r.p, r.n, v) ELSE Error

\* The next token, if the reading so far succeeded and it is the one expected.
Expect(s, r, t) == IF r.ok /\ tok(s, r.p) = t THEN Read(r.p + 1, r.n, r.v) ELSE Error
Skip(s, r, t) == IF r.ok /\ tok(s, r.p) = t THEN Read(r.p + 1, r.n, r.v) ELSE r
Unless(s, r, ts) == IF r.ok /\ tok(s, r.p) \in ts THEN Error ELSE r

is_literal_start(s, p) ==
    \/ tok(s, p) \in DOMAIN Numerals \cup {"NULL"}
    \/ tok(s, p) \in {"-", "+"} /\ tok(s, p + 1) \in DOMAIN Numerals

parse_literal(s, p, n) ==
    IF tok(s, p) = "NULL" THEN Read(p + 1, n, Literal(Null))
    ELSE IF tok(s, p) = "-" THEN Read(p + 2, n, Literal(-Numerals[tok(s, p + 1)]))
    ELSE IF tok(s, p) = "+" THEN Read(p + 2, n, Literal(Numerals[tok(s, p + 1)]))
    ELSE Read(p + 1, n, Literal(Numerals[tok(s, p)]))

\* Any word that is not called is a column, reserved or not, except SELECT.
parse_operand(s, p, n) ==
    Unless(s, IF tok(s, p) = "param" THEN Read(p + 1, n + 1, Param(n))
              ELSE IF is_literal_start(s, p) THEN parse_literal(s, p, n)
              ELSE IF IsWord(tok(s, p)) /\ tok(s, p) # "SELECT" /\ tok(s, p + 1) # "("
                THEN Read(p + 1, n, Column(tok(s, p)))
              ELSE Error, {"+", "-", "*"})

\* Operands separated by commas, after so many commas.
OneOperand(o) == Made(o, <<o.v>>)
WithOperand(l, o) == Made(o, Append(l, o.v))
ListFirst(s, p, n) == OneOperand(parse_operand(s, p, n))
ListStep(s, l) ==
    IF l.ok /\ tok(s, l.p) = Comma THEN WithOperand(l.v, parse_operand(s, l.p + 1, l.n)) ELSE l
ListRounds(s, p, n) ==
    LET round[k \in 0 .. Len(s)] == IF k = 0 THEN ListFirst(s, p, n) ELSE ListStep(s, round[k - 1])
    IN  round

parse_list(s, p, n) ==
    IF tok(s, p) = "(" THEN Expect(s, ListRounds(s, p + 1, n)[Len(s)], ")") ELSE Error

\* The upper end of a BETWEEN, behind its lower end.
parse_upper(s, a, neg, lo) ==
    LET hi == parse_operand(s, lo.p, lo.n)
    IN  IF lo.ok THEN Made(hi, Between(a.v, neg, lo.v, hi.v)) ELSE Error

\* What follows the first operand a of a predicate and the NOT behind it, if there is one.
WithIn(a, neg, l) == Made(l, In(a, neg, l.v))
WithLike(a, neg, b) == Made(b, Like(a, neg, b.v))
parse_negatable(s, a, neg, q) ==
    CASE tok(s, q) = "IN" -> WithIn(a.v, neg, parse_list(s, q + 1, a.n))
      [] tok(s, q) = "LIKE" -> WithLike(a.v, neg, Unless(s, parse_operand(s, q + 1, a.n), {"ESCAPE"}))
      [] tok(s, q) = "BETWEEN" -> parse_upper(s, a, neg, Expect(s, parse_operand(s, q + 1, a.n), "AND"))
      [] OTHER -> Error

\* What follows the first operand a of a predicate.
WithCompare(a, op, b) == Made(b, Compare(a, Negatable(op), b.v))
parse_rest(s, a) ==
    LET negated == tok(s, a.p + 1) = "NOT"
    IN  IF ~a.ok THEN Error
        ELSE IF tok(s, a.p) \in Comparisons THEN WithCompare(a.v, tok(s, a.p), parse_operand(s, a.p + 1, a.n))
        ELSE IF tok(s, a.p) = "IS"
          THEN Expect(s, Read(a.p + (IF negated THEN 2 ELSE 1), a.n, IsNull(a.v, negated)), "NULL")
        ELSE IF tok(s, a.p) = "NOT" THEN parse_negatable(s, a, TRUE, a.p + 1)
        ELSE parse_negatable(s, a, FALSE, a.p)

\* below has the results of the calls that are nested in this one.
parse_predicate(s, below, p, n) ==
    IF tok(s, p) = "EXISTS" THEN Error
    ELSE IF tok(s, p) = "("
      THEN IF tok(s, p + 1) = "SELECT" THEN Error ELSE Expect(s, below[<<"or", p + 1, n>>], ")")
    ELSE parse_rest(s, parse_operand(s, p, n))

\* (mutant) NOT takes everything behind it.
parse_not_far(s, below, p, n) ==
    LET e == below[<<"or", p + 1, n>>]
    IN  IF tok(s, p) = "NOT" THEN Made(e, Not(e.v)) ELSE parse_predicate(s, below, p, n)

parse_not(s, below, p, n) ==
    LET e == below[<<"not", p + 1, n>>]
    IN  IF tok(s, p) = "NOT" THEN Made(e, Not(e.v)) ELSE parse_predicate(s, below, p, n)

WithAnd(l, r) == Made(r, And(l, r.v))
AndStep(s, below, l) ==
    IF l.ok /\ tok(s, l.p) = "AND" THEN WithAnd(l.v, parse_not(s, below, l.p + 1, l.n)) ELSE l
AndRounds(s, below, p, n) ==
    LET round[k \in 0 .. Len(s)] == IF k = 0 THEN parse_not(s, below, p, n) ELSE AndStep(s, below, round[k - 1])
    IN  round
parse_and(s, below, p, n) == AndRounds(s, below, p, n)[Len(s)]

WithOr(l, r) == Made(r, Or(l, r.v))
OrStep(s, below, l) ==
    IF l.ok /\ tok(s, l.p) = "OR" THEN WithOr(l.v, parse_and(s, below, l.p + 1, l.n)) ELSE l
OrRounds(s, below, p, n) ==
    LET round[k \in 0 .. Len(s)] == IF k = 0 THEN parse_and(s, below, p, n) ELSE OrStep(s, below, round[k - 1])
    IN  round
parse_or(s, below, p, n) == OrRounds(s, below, p, n)[Len(s)]

\* The results of all calls, given those of the calls in them, and with so many levels of calls.
Calls == {"not", "or"} \X Nat \X Nat
Calling(s, below) ==
    [c \in Calls |-> IF c[1] = "not" THEN parse_not(s, below, c[2], c[3]) ELSE parse_or(s, below, c[2], c[3])]
Nested(s) ==
    LET nested[d \in 0 .. Len(s)] == IF d = 0 THEN [c \in Calls |-> Error] ELSE Calling(s, nested[d - 1])
    IN  nested

parse_condition(s, p, n) == parse_or(s, Nested(s)[Len(s)], p, n)

------------------------------------------------------------------------------
(* Statements: a clause takes the statement so far and returns it with its own part *)

NoLimit == -1
NoName == ""
NoWhere == [kind |-> "None"]
Item(what, alias) == [what |-> what, alias |-> alias]
Star == [kind |-> "Star"]
CountStar == [kind |-> "CountStar"]

EmptyStmt == [items |-> <<>>, from |-> FALSE, where |-> NoWhere, order_by |-> <<>>,
              limit |-> NoLimit, offset |-> NoLimit]

\* A number into a field of the statement.
parse_int(s, r, field) ==
    IF r.ok /\ tok(s, r.p) \in DOMAIN Numerals
      THEN Read(r.p + 1, r.n, [r.v EXCEPT ![field] = Numerals[tok(s, r.p)]])
    ELSE Error

TopClause(s, r) ==
    IF tok(s, r.p) # "TOP" THEN r
    ELSE IF tok(s, r.p + 1) = "(" THEN Expect(s, parse_int(s, Read(r.p + 2, r.n, r.v), "limit"), ")")
    ELSE parse_int(s, Read(r.p + 1, r.n, r.v), "limit")

\* What one item of the select list shows.
parse_shown(s, p) ==
    IF tok(s, p) = "*" THEN Read(p + 1, 0, Star)
    ELSE IF tok(s, p) = "COUNT" /\ tok(s, p + 1) = "("
      THEN IF tok(s, p + 2) = "*" /\ tok(s, p + 3) = ")" THEN Read(p + 4, 0, CountStar) ELSE Error
    ELSE IF is_literal_start(s, p)
      THEN parse_literal(s, p, 0)
    ELSE IF IsWord(tok(s, p)) /\ tok(s, p + 1) # "(" THEN Read(p + 1, 0, Column(tok(s, p)))
    ELSE Error

\* The item with its alias.
parse_item(s, p) ==
    LET i == parse_shown(s, p)
        as == IF tok(s, i.p) = "AS" THEN 1 ELSE 0
        alias == tok(s, i.p + as)
    IN  IF ~i.ok \/ tok(s, i.p) \in Arithmetic \/ (as = 1 /\ ~IsWord(alias)) THEN Error
        ELSE IF as = 1 \/ IsName(alias) THEN Read(i.p + as + 1, 0, Item(i.v, alias))
        ELSE Read(i.p, 0, Item(i.v, NoName))

WithItem(r, i) ==
    IF r.ok /\ i.ok THEN Read(i.p, r.n, [r.v EXCEPT !.items = Append(r.v.items, i.v)]) ELSE Error

ItemRounds(s, r) ==
    LET round[k \in 0 .. Len(s)] ==
            IF k = 0 THEN WithItem(r, parse_item(s, r.p))
            ELSE LET l == round[k - 1]
                 IN  IF l.ok /\ tok(s, l.p) = Comma THEN WithItem(l, parse_item(s, l.p + 1)) ELSE l
    IN  round
ItemsClause(s, r) == ItemRounds(s, r)[Len(s)]

Joins == {",", "JOIN", "INNER", "LEFT", "RIGHT", "FULL", "CROSS"}

\* The object and its alias.  A subquery or a join is refused.
FromClause(s, r) ==
    LET q == r.p + 2
        as == IF tok(s, q) = "AS" THEN 1 ELSE 0
        end == IF as = 1 \/ IsName(tok(s, q)) THEN q + as + 1 ELSE q
    IN  IF ~r.ok \/ tok(s, r.p) # "FROM" THEN r
        ELSE IF \/ ~IsWord(tok(s, r.p + 1))
                \/ as = 1 /\ ~IsWord(tok(s, q + 1))
                \/ tok(s, q) \in Joins \/ tok(s, end) \in Joins
          THEN Error
        ELSE Read(end, r.n, [r.v EXCEPT !.from = TRUE])

\* GROUP BY and HAVING, which stand behind it, are refused.
WithWhere(r, e) == IF e.ok THEN Read(e.p, e.n, [r.v EXCEPT !.where = e.v]) ELSE Error
WhereClause(s, r) ==
    Unless(s, IF r.ok /\ tok(s, r.p) = "WHERE" THEN WithWhere(r, parse_condition(s, r.p + 1, r.n)) ELSE r,
           {"GROUP", "HAVING"})

\* One key of ORDER BY.
parse_key(s, p) ==
    LET key == tok(s, p)
        way == tok(s, p + 1)
        q == p + (IF way \in {"ASC", "DESC"} THEN 2 ELSE 1)
        nulls == IF tok(s, q) = "NULLS" THEN tok(s, q + 1) ELSE NoName
        item == [ordinal |-> IF key \in DOMAIN Numerals THEN Numerals[key] ELSE 0,
                 name |-> IF key \in DOMAIN Numerals THEN NoName ELSE key, desc |-> way = "DESC", nulls |-> nulls]
    IN  IF ~(IsWord(key) \/ key \in DOMAIN Numerals) \/ nulls \notin {NoName, "FIRST", "LAST"} THEN Error
        ELSE Read(IF nulls = NoName THEN q ELSE q + 2, 0, item)

WithKey(r, k) ==
    IF r.ok /\ k.ok THEN Read(k.p, r.n, [r.v EXCEPT !.order_by = Append(r.v.order_by, k.v)]) ELSE Error

KeyRounds(s, r) ==
    LET round[k \in 0 .. Len(s)] ==
            IF k = 0 THEN WithKey(r, parse_key(s, r.p))
            ELSE LET l == round[k - 1]
                 IN  IF l.ok /\ tok(s, l.p) = Comma THEN WithKey(l, parse_key(s, l.p + 1)) ELSE l
    IN  round

OrderClause(s, r) ==
    IF ~r.ok \/ tok(s, r.p) # "ORDER" THEN r
    ELSE IF tok(s, r.p + 1) # "BY" THEN Error
    ELSE KeyRounds(s, Read(r.p + 2, r.n, r.v))[Len(s)]

LimitClause(s, r) ==
    LET l == parse_int(s, Read(r.p + 1, r.n, r.v), "limit")
    IN  IF ~r.ok \/ tok(s, r.p) # "LIMIT" THEN r
        ELSE IF l.ok /\ tok(s, l.p) = "OFFSET" THEN parse_int(s, Read(l.p + 1, l.n, l.v), "offset") ELSE l

OffsetClause(s, r) ==
    LET o == parse_int(s, Read(r.p + 1, r.n, r.v), "offset")
    IN  IF ~r.ok \/ tok(s, r.p) # "OFFSET" THEN r
        ELSE IF o.ok /\ tok(s, o.p) \in {"ROWS", "ROW"} THEN Read(o.p + 1, o.n, o.v) ELSE o

FetchClause(s, r) ==
    LET l == parse_int(s, Read(r.p + 2, r.n, r.v), "limit")
    IN  IF ~r.ok \/ tok(s, r.p) # "FETCH" THEN r
        ELSE IF l.ok /\ tok(s, r.p + 1) \in {"FIRST", "NEXT"} /\ tok(s, l.p) \in {"ROWS", "ROW"}
          THEN Expect(s, Read(l.p + 1, l.n, l.v), "ONLY")
        ELSE Error

\* What stands before the condition and behind it, each from what was read before.
select_clauses(s, r) == FromClause(s, ItemsClause(s, TopClause(s, r)))
last_clauses(s, r) == FetchClause(s, OffsetClause(s, LimitClause(s, OrderClause(s, r))))

\* parse_sql: v is the statement and n its number of markers.
parse(s) ==
    IF tok(s, 1) # "SELECT" \/ tok(s, 2) = "DISTINCT" THEN Error
    ELSE Expect(s, Skip(s, last_clauses(s, WhereClause(s, select_clauses(s, Read(2, 0, EmptyStmt)))), ";"), "end")

------------------------------------------------------------------------------
(* The documented grammar: all trees that tokens i .. j can be read as *)

\* Markers are numbered by their place in the text.
Marker(s, i) == Cardinality({k \in 1 .. i - 1 : s[k] = "param"})

Operands(s, i, j) ==
    IF i = j THEN (IF s[i] = "param" THEN {Param(Marker(s, i))}
                   ELSE IF s[i] = "NULL" THEN {Literal(Null)}
                   ELSE IF s[i] \in DOMAIN Numerals THEN {Literal(Numerals[s[i]])}
                   ELSE IF IsName(s[i]) THEN {Column(s[i])} ELSE {})
    ELSE IF j = i + 1 /\ s[j] \in DOMAIN Numerals
      THEN (IF s[i] = "-" THEN {Literal(-Numerals[s[j]])}
            ELSE IF s[i] = "+" THEN {Literal(Numerals[s[j]])} ELSE {})
    ELSE {}

Places(s, t, i, j) == {k \in i .. j : s[k] = t}

\* The ranges that stand behind BETWEEN, at i .. j.
Betweens(s, a, negated, i, j) ==
    UNION {{Between(a, negated, lo, hi) : lo \in Operands(s, i, k - 1), hi \in Operands(s, k + 1, j)} :
             k \in Places(s, "AND", i, j)}

\* What can stand from the word at q on, behind the operand a and a NOT if there is one, given the
\* lists of each span.
Negatables(s, lists, a, negated, q, j) ==
    IF q <= j /\ s[q] = "LIKE" THEN {Like(a, negated, b) : b \in Operands(s, q + 1, j)}
    ELSE IF q < j /\ s[q] = "IN" /\ s[q + 1] = "(" /\ s[j] = ")"
      THEN {In(a, negated, l) : l \in lists[<<"list", q + 2, j - 1>>]}
    ELSE IF q <= j /\ s[q] = "BETWEEN" THEN Betweens(s, a, negated, q + 1, j)
    ELSE {}

\* The predicates that begin with the operand a, which ends before token i.
Predicates(s, lists, a, i, j) ==
    (IF i <= j /\ s[i] \in Comparisons THEN {Compare(a, Negatable(s[i]), b) : b \in Operands(s, i + 1, j)} ELSE {})
    \cup (IF j = i + 1 /\ s[i] = "IS" /\ s[j] = "NULL" THEN {IsNull(a, FALSE)} ELSE {})
    \cup (IF j = i + 2 /\ s[i] = "IS" /\ s[i + 1] = "NOT" /\ s[j] = "NULL" THEN {IsNull(a, TRUE)} ELSE {})
    \cup Negatables(s, lists, a, FALSE, i, j)
    \cup (IF i <= j /\ s[i] = "NOT" THEN Negatables(s, lists, a, TRUE, i + 1, j) ELSE {})

\* OR binds loosest, then AND, then NOT; AND, OR and the commas of a list group to the left.
Longer(lists, operands) == {Append(l, o) : l \in lists, o \in operands}
Lists(s, reads, i, j) ==
    {<<o>> : o \in Operands(s, i, j)}
    \cup UNION {Longer(reads[<<"list", i, k - 1>>], Operands(s, k + 1, j)) : k \in Places(s, ",", i, j)}

Disjunctions(s, reads, i, j) ==
    reads[<<"and", i, j>>]
    \cup UNION {{Or(l, r) : l \in reads[<<"or", i, k - 1>>], r \in reads[<<"and", k + 1, j>>]} : k \in Places(s, "OR", i, j)}

Conjunctions(s, reads, i, j) ==
    reads[<<"not", i, j>>]
    \cup UNION {{And(l, r) : l \in reads[<<"and", i, k - 1>>], r \in reads[<<"not", k + 1, j>>]} : k \in Places(s, "AND", i, j)}

Negations(s, reads, i, j) ==
    (IF i <= j /\ s[i] = "NOT" THEN {Not(e) : e \in reads[<<"not", i + 1, j>>]} ELSE {})
    \cup (IF i < j /\ s[i] = "(" /\ s[j] = ")" THEN reads[<<"or", i + 1, j - 1>>] ELSE {})
    \cup UNION {UNION {Predicates(s, reads, a, k + 1, j) : a \in Operands(s, i, k)} :
                  k \in {x \in {i, i + 1} : x <= j /\ s[i] # "EXISTS"}}

\* The readings of each span.
Spans(s) == {"list", "not", "and", "or"} \X (1 .. Len(s) + 1) \X (0 .. Len(s))
Grammar(s) ==
    LET reads[c \in Spans(s)] ==
            CASE c[1] = "list" -> Lists(s, reads, c[2], c[3])
              [] c[1] = "not" -> Negations(s, reads, c[2], c[3])
              [] c[1] = "and" -> Conjunctions(s, reads, c[2], c[3])
              [] c[1] = "or" -> Disjunctions(s, reads, c[2], c[3])
    IN  reads

Conditions(s, i, j) == Grammar(s)[<<"or", i, j>>]
==============================================================================
