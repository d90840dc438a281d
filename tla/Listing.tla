------------------------------ MODULE Listing -------------------------------
(***************************************************************************)
(* Lists that are sorted and filtered, by what comes of it.                *)
(***************************************************************************)
EXTENDS Integers, Sequences, FiniteSets

\* External: the elements of S in the order of R, a set of pairs.  Each stands
\* behind as many as come before it.
Listed(S, R) ==
    [k \in 1..Cardinality(S) |->
        CHOOSE x \in S : Cardinality({y \in S : <<y, x>> \in R}) = k - 1]

\* External: what a list has at some of its places.
At(list, places) ==
    [k \in 1..Cardinality(places) |->
        list[CHOOSE p \in places : Cardinality({q \in places : q < p}) = k - 1]]
=============================================================================
