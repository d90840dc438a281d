----------------------------- MODULE MCIndexer -----------------------------
(***************************************************************************)
(* A small instance of Indexer.                                            *)
(***************************************************************************)
EXTENDS Indexer, TLC

Symmetric == Permutations(Uris) \union Permutations(Calls)
=============================================================================
