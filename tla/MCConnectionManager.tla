------------------------- MODULE MCConnectionManager -------------------------
(* Instances of ConnectionManager for TLC.                                 *)
EXTENDS ConnectionManager, TLC

Interchangeable == Permutations(Pools) \cup Permutations(Threads)
=============================================================================
