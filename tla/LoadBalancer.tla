---------------------------- MODULE LoadBalancer ----------------------------
(***************************************************************************)
(* LoadBalancer, include/routing/LoadBalancer.hpp: threads that pick a     *)
(* backend without a lock while others pick, dispatch and finish and the   *)
(* health checker writes. PickLoop has the loops; each of the two atomic   *)
(* accesses of an iteration is a step here.                                *)
(***************************************************************************)
EXTENDS PickLoop

CONSTANT Threads   \* worker threads

VARIABLES
  strategy, \* strategy_, fixed when the group is built
  healthy,  \* Backend::healthy, written by the health checker
  active,   \* Backend::activeConnections
  rr,       \* rrCounter_, modulo N
  scan,     \* the locals of each thread's pick()
  using,    \* the backend a thread has a request on, or None
  start,    \* history: rr when the thread's pick() began
  quiet,    \* history: threads during whose pick() nothing else moved
  alone,    \* history: threads during whose pick() no other took a turn
  sure      \* history: backends healthy ever since the thread's pick() began

history == <<start, quiet, alone, sure>>
vars == <<strategy, healthy, active, rr, scan, using, history>>

-----------------------------------------------------------------------------
Init ==
  /\ strategy \in {"round_robin", "least_connections"}
  /\ healthy = [b \in Backends |-> TRUE]
  /\ active = [b \in Backends |-> 0]
  /\ rr = 0
  /\ scan = [t \in Threads |-> Idle]
  /\ using = [t \in Threads |-> None]
  /\ start = [t \in Threads |-> 0]
  /\ quiet = {}
  /\ alone = {}
  /\ sure = [t \in Threads |-> {}]

BeginPick(t) ==
  /\ scan[t].status = "idle"
  /\ using[t] = None
  /\ scan' = [scan EXCEPT ![t] = NewScan(N)]
  /\ start' = [start EXCEPT ![t] = rr]
  /\ quiet' = quiet \cup {t}
  /\ alone' = alone \cup {t}
  /\ sure' = [sure EXCEPT ![t] = {b \in Backends : healthy[b]}]
  /\ UNCHANGED <<strategy, healthy, active, rr, using>>

PickRoundRobin(t) ==
  /\ strategy = "round_robin"
  /\ \/ /\ scan[t].status = "scanning"
        /\ scan' = [scan EXCEPT ![t] = TakeTurn(@, rr)]
        /\ rr' = (rr + 1) % N
        /\ quiet' = quiet \cap {t}
        /\ alone' = alone \cap {t}
     \/ /\ scan[t].status = "looking"
        /\ scan' = [scan EXCEPT ![t] = LookAtTurn(@, healthy)]
        /\ UNCHANGED <<rr, quiet, alone>>
  /\ UNCHANGED <<strategy, healthy, active, using, start, sure>>

PickLeastConnections(t) ==
  /\ strategy = "least_connections"
  /\ \/ /\ scan[t].status = "scanning"
        /\ scan' = [scan EXCEPT ![t] = CheckHealth(@, healthy)]
     \/ /\ scan[t].status = "looking"
        /\ scan' = [scan EXCEPT ![t] = CompareLoad(@, active)]
  /\ UNCHANGED <<strategy, healthy, active, rr, using, history>>

\* forwardWithResilience, line 474: the request goes to the picked backend.
Dispatch(t) ==
  /\ scan[t].status = "done"
  /\ scan[t].best # None
  /\ active' = [active EXCEPT ![scan[t].best] = @ + 1]
  /\ using' = [using EXCEPT ![t] = scan[t].best]
  /\ scan' = [scan EXCEPT ![t] = Idle]
  /\ quiet' = {}
  /\ UNCHANGED <<strategy, healthy, rr, alone, start, sure>>

\* No backend (line 466), or its breaker refused the request (line 469).
Abandon(t) ==
  /\ scan[t].status = "done"
  /\ scan' = [scan EXCEPT ![t] = Idle]
  /\ UNCHANGED <<strategy, healthy, active, rr, using, history>>

\* Line 483.
Finish(t) ==
  /\ using[t] # None
  /\ active' = [active EXCEPT ![using[t]] = @ - 1]
  /\ using' = [using EXCEPT ![t] = None]
  /\ quiet' = {}
  /\ UNCHANGED <<strategy, healthy, rr, scan, alone, start, sure>>

\* HealthChecker::run stores the result of a probe.
SetHealth(b) ==
  /\ healthy' = [healthy EXCEPT ![b] = ~@]
  /\ quiet' = {}
  /\ sure' = [t \in Threads |-> sure[t] \ {b}]
  /\ UNCHANGED <<strategy, active, rr, scan, using, alone, start>>

Next ==
  \/ \E t \in Threads :
       \/ BeginPick(t) \/ PickRoundRobin(t) \/ PickLeastConnections(t)
       \/ Dispatch(t) \/ Abandon(t) \/ Finish(t)
  \/ \E b \in Backends : SetHealth(b)

Spec == Init /\ [][Next]_vars

-----------------------------------------------------------------------------
Decides(t) == scan[t].status \in {"scanning", "looking"} /\ scan'[t].status = "done"

\* The backend each strategy is meant to return, from the state of the group
\* and, for round robin, the counter when the pick began.
Reference(from) ==
  LET up == {b \in Backends : healthy[b]}
      Distance(b) == (b - from) % N
      First(b) == IF strategy = "round_robin"
                  THEN \A c \in up : Distance(b) <= Distance(c)
                  ELSE \A c \in up : active[b] < active[c] \/ (active[b] = active[c] /\ b <= c)
  IN  IF up = {} THEN None ELSE CHOOSE b \in up : First(b)

\* A pick during which no other thread picks, dispatches or finishes and no
\* backend changes health returns what its strategy promises: the next
\* healthy backend in turn, or the first of the least loaded healthy ones.
QuietPickIsReference ==
  [][\A t \in Threads : Decides(t) /\ t \in quiet => scan'[t].best = Reference(start[t])]_vars

\* A pick during which no other thread takes a turn, so any pick of least
\* connections, comes back empty only if no backend was healthy for as long as
\* it ran, whatever health and load do meanwhile.
LonePickFindsHealthy ==
  [][\A t \in Threads :
       Decides(t) /\ t \in alone /\ scan'[t].best = None => sure[t] = {}]_vars

\* pickRoundRobin, line 57: "return nullptr; // all unhealthy". The same with
\* other threads picking: they share rrCounter_, so one pick's turns may all
\* fall on the same backends.
EmptyMeansUnhealthy ==
  [][\A t \in Threads : Decides(t) /\ scan'[t].best = None => sure[t] = {}]_vars
=============================================================================
