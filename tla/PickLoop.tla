------------------------------ MODULE PickLoop ------------------------------
(***************************************************************************)
(* The loops of LoadBalancer::pickRoundRobin and pickLeastConnections,     *)
(* include/routing/LoadBalancer.hpp. An iteration of either makes two      *)
(* atomic accesses, and other threads may run between them, so each access *)
(* is a function of the loop's locals and of what it reads.                *)
(*                                                                         *)
(* rrCounter_ only matters modulo the number of backends and is kept that  *)
(* way; it would take 2^64 picks for its overflow to matter.               *)
(***************************************************************************)
EXTENDS Integers

CONSTANT N   \* the largest backends_.size(); Config.cpp rejects an empty group

ASSUME BalancerAssumption == N \in Nat \ {0}

Backends == 0 .. N - 1
None == -1

\* The locals: i of n iterations are over, at is the backend whose turn it is,
\* best and conns are those of pickLeastConnections.
Idle == [status |-> "idle", n |-> 0, i |-> 0, at |-> 0, best |-> None, conns |-> -1]
NewScan(size) == [Idle EXCEPT !.status = "scanning", !.n = size]

\* Mutant: the loop stops one backend short.
MutNextShort(sc) ==
  [sc EXCEPT !.i = @ + 1, !.status = IF sc.i + 2 >= sc.n THEN "done" ELSE "scanning"]

NextIteration(sc) ==
  [sc EXCEPT !.i = @ + 1, !.status = IF sc.i + 1 = sc.n THEN "done" ELSE "scanning"]

\* pickRoundRobin, line 54: fetch_add returned counter, modulo n.
TakeTurn(sc, counter) == [sc EXCEPT !.status = "looking", !.at = counter]

\* Line 55.
LookAtTurn(sc, up) ==
  IF up[sc.at]
  THEN [sc EXCEPT !.status = "done", !.best = sc.at]
  ELSE NextIteration(sc)

\* pickLeastConnections, line 64.
CheckHealth(sc, up) ==
  IF up[sc.i] THEN [sc EXCEPT !.status = "looking"] ELSE NextIteration(sc)

\* Mutant: of several least loaded backends the last one wins.
MutCompareLast(sc, act) ==
  IF sc.best = None \/ act[sc.i] <= sc.conns
  THEN NextIteration([sc EXCEPT !.best = sc.i, !.conns = act[sc.i]])
  ELSE NextIteration(sc)

\* Lines 65-69.
CompareLoad(sc, act) ==
  IF sc.best = None \/ act[sc.i] < sc.conns
  THEN NextIteration([sc EXCEPT !.best = sc.i, !.conns = act[sc.i]])
  ELSE NextIteration(sc)
=============================================================================
