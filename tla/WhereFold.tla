------------------------------ MODULE WhereFold ------------------------------
(***************************************************************************)
(* From a WHERE clause to SOQL: render of sql_plan.cpp.  SOQL has no       *)
(* constants, so conditions without a column are folded away.  A SOQL text *)
(* is the tree it spells, and a parameter in it is its slot.               *)
(*                                                                         *)
(* What Salesforce does with the text is external: it is taken to evaluate *)
(* its conditions on a row as SQL does, in three truth values.             *)
(***************************************************************************)
EXTENDS Condition

CONSTANT Columns   \* the columns of the object

------------------------------------------------------------------------------
(* Fragments *)

resolves(o) == IsColumn(o) /\ o.column \in Columns

const_frag(v) == [is_const |-> TRUE, value |-> v]
text_frag(t) == [is_const |-> FALSE, text |-> t]

\* An exception: the statement is refused.
Rejected == [is_const |-> FALSE, text |-> [kind |-> "42000"]]

\* A comparison of two values.  A LIKE pattern stands for a value it matches.
Holds(x, op, y) ==
    CASE op \in {"=", "LIKE"} -> x = y [] op = "!=" -> x # y [] op = "<" -> x < y
      [] op = "<=" -> x <= y [] op = ">" -> x > y [] op = ">=" -> x >= y

\* A comparison with NULL is unknown, which is folded to false.
fold_compare(x, op, y) == x # Null /\ y # Null /\ Holds(x, op, y)

\* (mutant) Turns the operator round but forgets that it may be an equality too.
flip_strict(op) == CASE op \in {"<", "<="} -> ">" [] op \in {">", ">="} -> "<" [] OTHER -> op

flip(op) ==
    CASE op = "<" -> ">" [] op = ">" -> "<" [] op = "<=" -> ">=" [] op = ">=" -> "<=" [] OTHER -> op

\* Compare, once a column if there is one stands on the left.
RenderCompare(a, op, b) ==
    IF ~IsColumn(a)
      THEN IF "Param" \in {a.kind, b.kind} THEN Rejected
           ELSE const_frag(fold_compare(a.lit, op, b.lit))
    ELSE IF ~resolves(a) THEN Rejected
    ELSE IF IsNullLiteral(b)
      THEN IF op \in {"=", "!="} THEN text_frag(IsNull(a, op = "!=")) ELSE const_frag(FALSE)
    ELSE IF IsColumn(b) THEN Rejected
    ELSE text_frag(Compare(a, op, b))

\* (mutant) The other side is not looked at once a constant has decided.
Junction_short(is_and, l, r) ==
    IF l.is_const /\ l.value # is_and THEN l
    ELSE IF l = Rejected \/ r = Rejected THEN Rejected
    ELSE IF l.is_const THEN r
    ELSE IF r.is_const THEN (IF r.value = is_and THEN l ELSE r)
    ELSE text_frag(IF is_and THEN And(l.text, r.text) ELSE Or(l.text, r.text))

\* And and Or of two fragments: a constant decides or disappears.
Junction(is_and, l, r) ==
    IF l = Rejected \/ r = Rejected THEN Rejected
    ELSE IF l.is_const /\ r.is_const
      THEN const_frag(IF is_and THEN l.value /\ r.value ELSE l.value \/ r.value)
    ELSE IF l.is_const THEN (IF l.value = is_and THEN r ELSE l)
    ELSE IF r.is_const THEN (IF r.value = is_and THEN l ELSE r)
    ELSE text_frag(IF is_and THEN And(l.text, r.text) ELSE Or(l.text, r.text))

Negation(f) ==
    IF f = Rejected THEN Rejected
    ELSE IF f.is_const THEN const_frag(~f.value)
    ELSE text_frag(Not(f.text))

\* A condition of one predicate.
RenderPredicate(e) ==
    CASE e.kind = "Compare" ->
           IF ~IsColumn(e.a) /\ IsColumn(e.b) THEN RenderCompare(e.b, flip(e.op), e.a)
           ELSE RenderCompare(e.a, e.op, e.b)
      [] e.kind = "IsNull" ->
           IF IsColumn(e.a) THEN (IF resolves(e.a) THEN text_frag(e) ELSE Rejected)
           ELSE IF e.a.kind = "Param" THEN Rejected
           ELSE const_frag(IsNullLiteral(e.a) # e.negated)
      [] e.kind = "Like" -> IF ~resolves(e.a) \/ IsColumn(e.b) THEN Rejected ELSE text_frag(e)
      [] e.kind = "In" ->
           IF ~resolves(e.a) \/ \E i \in DOMAIN e.list : IsColumn(e.list[i]) THEN Rejected
           ELSE text_frag(e)

render[e \in Expr] ==
    CASE e.kind \in {"And", "Or"} -> Junction(e.kind = "And", render[e.left], render[e.right])
      [] e.kind = "Not" -> Negation(render[e.left])
      [] OTHER -> RenderPredicate(e)

------------------------------------------------------------------------------
(* The slots of parameters: a function from their numbers to columns *)

NoSlots == <<>>

\* What value_part puts into ctx.params for an operand that is compared with a column.
value_part(o, column) == IF o.kind = "Param" THEN [i \in {o.index} |-> column] ELSE NoSlots

PredicateSlots(e) ==
    CASE e.kind = "Compare" /\ IsColumn(e.a) -> value_part(e.b, e.a.column)
      [] e.kind = "Compare" /\ ~IsColumn(e.a) /\ IsColumn(e.b) -> value_part(e.a, e.b.column)
      [] e.kind = "Like" /\ IsColumn(e.a) -> value_part(e.b, e.a.column)
      [] e.kind = "In" /\ IsColumn(e.a) ->
           LET markers == {k \in DOMAIN e.list : e.list[k].kind = "Param"}
           IN  [i \in {e.list[k].index : k \in markers} |-> e.a.column]
      [] OTHER -> NoSlots

\* The slots of two sides, of which the right one is rendered later.
Overwritten(first, later) ==
    [i \in DOMAIN first \cup DOMAIN later |-> IF i \in DOMAIN later THEN later[i] ELSE first[i]]

\* (mutant) The slots of a side that a constant decides are dropped with it.
SlotsOf_kept(e) ==
    LET slots[x \in Expr] ==
            CASE x.kind \in {"And", "Or"} ->
                   IF render[x.left].is_const \/ render[x.right].is_const THEN NoSlots
                   ELSE Overwritten(slots[x.left], slots[x.right])
              [] x.kind = "Not" -> slots[x.left]
              [] OTHER -> PredicateSlots(x)
    IN  slots[e]

\* The slots of an accepted condition.  A marker that is compared twice, as that of a BETWEEN,
\* has the slot of the second comparison.
SlotsOf(e) ==
    LET slots[x \in Expr] ==
            CASE x.kind \in {"And", "Or"} -> Overwritten(slots[x.left], slots[x.right])
              [] x.kind = "Not" -> slots[x.left]
              [] OTHER -> PredicateSlots(x)
    IN  slots[e]

------------------------------------------------------------------------------
(* What a condition says of a row, in SQL's three truth values *)

Truth(b) == IF b THEN "true" ELSE "false"
Not3(t) == CASE t = "true" -> "false" [] t = "false" -> "true" [] OTHER -> "unknown"
And3(s, t) ==
    IF "false" \in {s, t} THEN "false" ELSE IF "unknown" \in {s, t} THEN "unknown" ELSE "true"
Or3(s, t) == Not3(And3(Not3(s), Not3(t)))
Negated3(negated, t) == IF negated THEN Not3(t) ELSE t

Compare3(x, op, y) == IF Null \in {x, y} THEN "unknown" ELSE Truth(Holds(x, op, y))

ValueOf(o, row, binding) ==
    CASE o.kind = "Column" -> row[o.column]
      [] o.kind = "Literal" -> o.lit
      [] o.kind = "Param" -> binding[o.index]

\* Whether x is one of some values: as the OR of its comparisons with them.
In3(x, values) ==
    LET equal == {Compare3(x, "=", y) : y \in values}
    IN  IF "true" \in equal THEN "true" ELSE IF "unknown" \in equal THEN "unknown" ELSE "false"

\* A column compared with NULL for equality means IS NULL in this dialect whether the NULL is
\* written or bound (tests/test_query.py:292).
PredicateMeaning(e, row, binding) ==
    LET x == ValueOf(e.a, row, binding)
        y == ValueOf(e.b, row, binding)
        nulltest == \/ IsColumn(e.a) /\ ~IsColumn(e.b) /\ y = Null
                    \/ IsColumn(e.b) /\ ~IsColumn(e.a) /\ x = Null
    IN  CASE e.kind = "Compare" -> IF e.op \in {"=", "!="} /\ nulltest THEN Truth((x = y) = (e.op = "="))
                                   ELSE Compare3(x, e.op, y)
          [] e.kind = "Like" -> Negated3(e.negated, Compare3(x, "LIKE", y))
          [] e.kind = "IsNull" -> Truth((x = Null) # e.negated)
          [] e.kind = "In" -> Negated3(e.negated, In3(x, {ValueOf(e.list[i], row, binding) : i \in DOMAIN e.list}))

Meaning(e, row, binding) ==
    LET meaning[x \in Expr] ==
            CASE x.kind = "And" -> And3(meaning[x.left], meaning[x.right])
              [] x.kind = "Or" -> Or3(meaning[x.left], meaning[x.right])
              [] x.kind = "Not" -> Not3(meaning[x.left])
              [] OTHER -> PredicateMeaning(x, row, binding)
    IN  meaning[e]

\* Whether Salesforce, or a constant in its place, selects a row.
Selects(frag, row, binding) ==
    IF frag.is_const THEN frag.value ELSE Meaning(frag.text, row, binding) = "true"

------------------------------------------------------------------------------
(* What can be asked for *)

\* The predicates of a condition, and those that stand under a NOT.
PredicatesOf(e) ==
    LET predicates[x \in Expr] ==
            CASE x.kind \in {"And", "Or"} -> predicates[x.left] \cup predicates[x.right]
              [] x.kind = "Not" -> predicates[x.left]
              [] OTHER -> {x}
    IN  predicates[e]

UnderNot(e) ==
    LET under[x \in Expr] ==
            CASE x.kind \in {"And", "Or"} -> under[x.left] \cup under[x.right]
              [] x.kind = "Not" -> PredicatesOf(x.left)
              [] OTHER -> {}
    IN  under[e]

\* Whether SOQL can say it, of columns that the object has.
PredicateSupported(e) ==
    CASE e.kind = "Compare" ->
           \/ e.a.kind = "Literal" /\ e.b.kind = "Literal"
           \/ resolves(e.a) /\ ~IsColumn(e.b)
           \/ resolves(e.b) /\ ~IsColumn(e.a)
      [] e.kind = "IsNull" -> resolves(e.a) \/ e.a.kind = "Literal"
      [] e.kind = "Like" -> resolves(e.a) /\ ~IsColumn(e.b)
      [] e.kind = "In" -> resolves(e.a) /\ \A i \in DOMAIN e.list : ~IsColumn(e.list[i])

Supported(e) == \A p \in PredicatesOf(e) : PredicateSupported(p)

\* Whether a comparison in it is unknown whatever the row, and whether one stands under a NOT.
PredicateUnknown(e) ==
    /\ e.kind = "Compare"
    /\ IsNullLiteral(e.a) \/ IsNullLiteral(e.b)
    /\ e.op \in {"=", "!="} => ~(IsColumn(e.a) \/ IsColumn(e.b))
HasUnknown(e) == \E p \in PredicatesOf(e) : PredicateUnknown(p)
UnknownUnderNot(e) == \E p \in UnderNot(e) : PredicateUnknown(p)

\* The markers in it, and the columns that each is compared with.
OperandsOf(p) ==
    {p.a} \cup (CASE p.kind \in {"Compare", "Like"} -> {p.b} [] p.kind = "In" -> {p.list[i] : i \in DOMAIN p.list}
                  [] OTHER -> {})
MarkersIn(p) == {o.index : o \in {x \in OperandsOf(p) : x.kind = "Param"}}
ColumnsIn(p) == {o.column : o \in {x \in OperandsOf(p) : IsColumn(x)}}
MarkersOf(e) == UNION {MarkersIn(p) : p \in PredicatesOf(e)}
ComparedWith(e, i) == UNION {ColumnsIn(p) : p \in {x \in PredicatesOf(e) : i \in MarkersIn(x)}}
==============================================================================
