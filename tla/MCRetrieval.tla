---------------------------- MODULE MCRetrieval ----------------------------
(* Model-checking instance of Retrieval.                                   *)
EXTENDS Retrieval, TLC

Symmetry == Permutations(Docs) \cup Permutations(Namespaces)
=============================================================================
