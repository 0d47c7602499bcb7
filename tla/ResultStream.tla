----------------------------- MODULE ResultStream -----------------------------
(***************************************************************************)
(* What a statement promises about the rows of an open result, without     *)
(* pages, requests or cancellation: a forward-only stream of total rows.   *)
(* A fetch shows a window onto the rows that follow the ones taken before, *)
(* in order.  A fetch that fails shows nothing, marks the stream broken,   *)
(* and may have taken rows with it.                                        *)
(***************************************************************************)
EXTENDS Integers, Sequences

VARIABLES
    open,    \* there is a result
    total,   \* how many rows it has
    taken,   \* how many of them are behind the stream's position
    window,  \* the rows the application can read now
    broken   \* a fetch on this result has failed

vars == <<open, total, taken, window, broken>>

Closed == open = FALSE /\ total = 0 /\ taken = 0 /\ window = <<>> /\ broken = FALSE

Init == Closed

\* A result replaces the one before.
Open ==
    /\ open' = TRUE
    /\ total' \in Nat
    /\ taken' = 0
    /\ window' = <<>>
    /\ broken' = FALSE

Close == Closed'

\* A fetch starts: the rows of the one before are no longer current.
Begin == open /\ window' = <<>> /\ UNCHANGED <<open, total, taken, broken>>

\* A fetch ends with the next k rows.
Deliver(k) ==
    /\ open
    /\ k > 0 /\ taken + k <= total
    /\ window' = [i \in 1 .. k |-> taken + i]
    /\ taken' = taken + k
    /\ UNCHANGED <<open, total, broken>>

\* A fetch fails and takes k rows with it.
Fail(k) ==
    /\ open
    /\ taken + k <= total
    /\ window' = <<>>
    /\ taken' = taken + k
    /\ broken' = TRUE
    /\ UNCHANGED <<open, total>>

Next ==
    \/ Open \/ Close \/ Begin
    \/ \E k \in 0 .. total : Deliver(k) \/ Fail(k)

Spec == Init /\ [][Next]_vars
==============================================================================
