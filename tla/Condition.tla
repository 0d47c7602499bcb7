------------------------------- MODULE Condition -------------------------------
(***************************************************************************)
(* The tree of a WHERE condition: Operand and Expr of sql.h.  The parser   *)
(* makes it, the planner renders it, and a SOQL condition is read as one.  *)
(***************************************************************************)
EXTENDS Integers, Sequences

CONSTANTS
    Null,        \* the null literal and the null value
    Deepest      \* how many junctions and negations stand above a predicate at most

ASSUME DeepestAssumption == Deepest \in Nat

Column(c) == [kind |-> "Column", column |-> c]
Literal(v) == [kind |-> "Literal", lit |-> v]
Param(i) == [kind |-> "Param", index |-> i]

Compare(a, op, b) == [kind |-> "Compare", op |-> op, a |-> a, b |-> b]
Not(e) == [kind |-> "Not", left |-> e]
And(l, r) == [kind |-> "And", left |-> l, right |-> r]
Or(l, r) == [kind |-> "Or", left |-> l, right |-> r]
In(a, negated, list) == [kind |-> "In", negated |-> negated, a |-> a, list |-> list]
Like(a, negated, b) == [kind |-> "Like", negated |-> negated, a |-> a, b |-> b]
IsNull(a, negated) == [kind |-> "IsNull", negated |-> negated, a |-> a]

IsColumn(o) == o.kind = "Column"
IsNullLiteral(o) == o.kind = "Literal" /\ o.lit = Null

------------------------------------------------------------------------------
(* All of them.  Values are numbers and NULL. *)

Operators == {"=", "!=", "<", "<=", ">", ">="}
Operand ==
    [kind : {"Column"}, column : STRING] \cup [kind : {"Literal"}, lit : Int \cup {Null}]
    \cup [kind : {"Param"}, index : Nat]

Predicate ==
    [kind : {"Compare"}, op : Operators, a : Operand, b : Operand]
    \cup [kind : {"In"}, negated : BOOLEAN, a : Operand, list : Seq(Operand)]
    \cup [kind : {"Like"}, negated : BOOLEAN, a : Operand, b : Operand]
    \cup [kind : {"IsNull"}, negated : BOOLEAN, a : Operand]

\* A predicate, or the trees of some set under a junction or a negation.
Above(trees) ==
    Predicate \cup [kind : {"And", "Or"}, left : trees, right : trees] \cup [kind : {"Not"}, left : trees]

\* The trees of each depth.
Trees[n \in 0 .. Deepest] == IF n = 0 THEN Predicate ELSE Above(Trees[n - 1])
Expr == Trees[Deepest]
==============================================================================
