---------------------------- MODULE MCModeration ----------------------------
(* Instances of Moderation for TLC; subjects are interchangeable.           *)
EXTENDS Moderation, TLC

SubjectSymmetry == Permutations(Subjects)
=============================================================================
