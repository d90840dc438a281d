---------------------------- MODULE MCLifecycle -----------------------------
(* Instances of Lifecycle for TLC: one post, since no handler reads another *)
(* post's record, and interchangeable people.                               *)
EXTENDS Lifecycle, TLC

DidSymmetry == Permutations(Dids)
=============================================================================
