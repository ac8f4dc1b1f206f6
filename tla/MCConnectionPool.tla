-------------------------- MODULE MCConnectionPool --------------------------
(***************************************************************************)
(* Model checking of ConnectionPool; threads, backends and descriptors are *)
(* interchangeable.                                                        *)
(***************************************************************************)
EXTENDS ConnectionPool, TLC

PoolSymmetry == Permutations(Threads) \cup Permutations(Keys) \cup Permutations(Sockets)
=============================================================================
