--------------------------- MODULE MCLoadBalancer ---------------------------
(***************************************************************************)
(* Model checking of LoadBalancer; threads are interchangeable.            *)
(***************************************************************************)
EXTENDS LoadBalancer, TLC

ThreadSymmetry == Permutations(Threads)
=============================================================================
