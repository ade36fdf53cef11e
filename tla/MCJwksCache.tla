---------------------------- MODULE MCJwksCache ----------------------------
(* Model-checking instance of JwksCache: the threads and the key names are *)
(* interchangeable.                                                        *)
EXTENDS JwksCache, TLC

Symmetry == Permutations(Threads) \cup Permutations(Kids)
=============================================================================
