---------------------------- MODULE MCForwarding ----------------------------
(***************************************************************************)
(* Model checking of Forwarding: two worker threads that share one backend *)
(* and its only breaker, and one worker thread with a choice of two.       *)
(***************************************************************************)
EXTENDS FailFast

CONSTANTS w1, w2

Deployed(threads, n, s) == [threads |-> threads, size |-> n, strategy |-> s]

MCDeployments == {Deployed({w1, w2}, 1, "round_robin")}
  \cup {Deployed({w1}, 2, s) : s \in {"round_robin", "least_connections"}}
LeastConnections == {Deployed({w1}, 2, "least_connections")}
=============================================================================
