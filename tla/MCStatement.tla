----------------------------- MODULE MCStatement -----------------------------
(* Instances of Statement for TLC. *)
EXTENDS Statement

CONSTANTS rows, marked, count, one, none   \* SQL texts, one for each kind of plan

MCQueries == {rows, marked, count, one, none}

MCKind == [q \in MCQueries |->
    CASE q \in {rows, marked} -> "soql"
      [] q = count -> "count"
      [] q = one -> "constant"
      [] q = none -> "empty"]

\* The text `marked` has one parameter marker.
MCParamCount == [q \in MCQueries |-> IF q = marked THEN 1 ELSE 0]
==============================================================================
