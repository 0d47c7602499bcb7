------------------------------ MODULE MCHandles ------------------------------
(* Instances of Handles for TLC. *)
EXTENDS Handles, TLC

\* Threads, connections and statements are interchangeable.
Symmetry == Permutations(Threads) \cup Permutations(Conns) \cup Permutations(Stmts)
==============================================================================
