-------------------------- MODULE MCConnectionPool --------------------------
(* Instances of ConnectionPool for TLC.                                    *)
EXTENDS ConnectionPool, TLC

Interchangeable == Permutations(Connections) \cup Permutations(Sessions)
=============================================================================
