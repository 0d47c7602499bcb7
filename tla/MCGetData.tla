------------------------------ MODULE MCGetData ------------------------------
(* Instances of GetData for TLC. *)
EXTENDS GetData

\* Every value of at most two characters, and some longer ones.
MCValues == UNION {[1 .. n -> 1 .. 4] : n \in 0 .. 2} \cup {<<1, 4, 4>>, <<4, 2, 3>>, <<3, 1, 4>>}

MCTypes == Texts \cup {"FIXED"}
==============================================================================
