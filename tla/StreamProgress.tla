--------------------------- MODULE StreamProgress ---------------------------
(***************************************************************************)
(* What the indexer promises to whoever feeds it the stream, with no       *)
(* calls, counters, index or process in it: the events taken in have no    *)
(* gap and none is taken back, and the persisted row names an event with   *)
(* nothing missing before it.  A crash is not seen from here.              *)
(***************************************************************************)
EXTENDS Integers

CONSTANTS
    LastSeq,        \* the stream's last sequence number
    Ordered         \* whether the row may only move on

VARIABLES taken, row

Init == taken = {} /\ row = -1

\* Everything up to q has been taken in now.
Take(q) ==
    /\ taken' = taken \union 0..q
    /\ UNCHANGED row

\* The row names q.
Save(q) ==
    /\ 0..q \subseteq taken
    /\ Ordered => row <= q
    /\ row' = q
    /\ UNCHANGED taken

Next == \E q \in 0..LastSeq : Take(q) \/ Save(q)

Spec == Init /\ [][Next]_<<taken, row>>
=============================================================================
