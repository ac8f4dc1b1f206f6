-------------------------- MODULE LifecycleProofs ---------------------------
(***************************************************************************)
(* For any number of worker threads: run() returns with nothing left       *)
(* running, and a handler on top of the thread in run(), of a worker or of *)
(* the metrics thread never makes join() throw.                            *)
(***************************************************************************)
EXTENDS Lifecycle, TLAPS

Unassigned == {"start", "hcStart", "hcCreate", "hcAssign"}
Spawning == {"spawnMetrics", "log", "logging", "spawn"}
Stopping == {"hcClear", "hcNotify", "hcJoinable", "hcJoin", "hcJoining"}
WoundUp == Stopping \cup {"closeAll", "done", "crashed"}

ControlType ==
  /\ host \in {"other", "runner", "health"} \cup Pollers
  /\ gwRunning \in BOOLEAN
  /\ pc \in [Callers -> Unassigned \cup Spawning \cup WoundUp]
  /\ pc["stopper"] \in {"start", "done", "crashed"} \cup Stopping
  /\ thread \in {"none", "joinable", "joined"}
  /\ poller \in [Pollers -> {"none", "log", "logging", "failed", "failing", "polling", "exited"}]

\* thread_ is assigned once, joined by one caller, and joined only when the
\* thread it stands for is over.
ThreadHandle ==
  /\ thread = "none" <=> pc["runner"] \in Unassigned
  /\ health = "none" <=> pc["runner"] \in Unassigned \ {"hcAssign"}
  /\ thread = "joined" => health = "exited"
  /\ \A p \in Callers : pc[p] = "hcJoin" => thread # "none"
  /\ \A p \in Callers : pc[p] = "hcJoining" => thread = "joinable"
  /\ pc["runner"] = "hcJoining" => pc["stopper"] # "hcJoining"

\* The pollers are over when run() goes on. Only a stop() ends a worker, and
\* one in a handler on top of a poller is over before the poller is.
PollersEnd ==
  /\ pc["runner"] \in WoundUp => \A q \in Pollers : poller[q] = "exited"
  /\ pc["runner"] \in {"closeAll", "done"} => thread = "joined"
  /\ \A q \in Workers : poller[q] = "exited" => pc["stopper"] # "start"
  /\ \A q \in Workers : poller[q] \notin {"failed", "failing"}
  /\ \A q \in Workers : pc["runner"] \in Unassigned \cup (Spawning \ {"spawn"}) => poller[q] = "none"
  /\ pc["runner"] \in Unassigned \cup {"spawnMetrics"} => poller["metrics"] = "none"
  /\ \A q \in Pollers : host = q /\ poller[q] = "exited" => pc["stopper"] \in {"start", "done"}
  /\ pc["stopper"] = "start" => (gwRunning <=> pc["runner"] # "start")

\* A handler on top of run() or of a poller is over before run() joins anything.
HandlerFirst ==
  ~Collides =>
    /\ pc["runner"] \in WoundUp => pc["stopper"] = "done"
    /\ \A p \in Callers : pc[p] \in {"hcJoin", "hcJoining"} => thread = "joinable"
    /\ \A p \in Callers : pc[p] # "crashed"

LifecycleInv == ControlType /\ ThreadHandle /\ PollersEnd /\ HandlerFirst

-----------------------------------------------------------------------------
\* HealthChecker::stop, by either caller.
LEMMA HcStopKeeps ==
  ASSUME LifecycleInv, NEW p \in Callers, HcStop(p), p = "runner" => Free("runner")
  PROVE  LifecycleInv'
<1> USE LifecycleAssumption DEF LifecycleInv, Pollers, Callers, Collides, Unassigned, Spawning, Stopping, WoundUp, Goto, Free, AfterHcStop
<1>1. CASE HcClearRunning(p)
  <2>1. ControlType'
    BY <1>1 DEF HcClearRunning, ControlType, ThreadHandle, PollersEnd, HandlerFirst
  <2>2. ThreadHandle'
    BY <1>1 DEF HcClearRunning, ControlType, ThreadHandle, PollersEnd, HandlerFirst
  <2>3. PollersEnd'
    BY <1>1 DEF HcClearRunning, ControlType, ThreadHandle, PollersEnd, HandlerFirst
  <2>4. HandlerFirst'
    BY <1>1 DEF HcClearRunning, ControlType, ThreadHandle, PollersEnd, HandlerFirst
  <2>5. QED
    BY <2>1, <2>2, <2>3, <2>4
<1>2. CASE HcNotify(p)
  <2>1. ControlType'
    BY <1>2 DEF HcNotify, ControlType, ThreadHandle, PollersEnd, HandlerFirst
  <2>2. ThreadHandle'
    BY <1>2 DEF HcNotify, ControlType, ThreadHandle, PollersEnd, HandlerFirst
  <2>3. PollersEnd'
    BY <1>2 DEF HcNotify, ControlType, ThreadHandle, PollersEnd, HandlerFirst
  <2>4. HandlerFirst'
    BY <1>2 DEF HcNotify, ControlType, ThreadHandle, PollersEnd, HandlerFirst
  <2>5. QED
    BY <2>1, <2>2, <2>3, <2>4
<1>3. CASE HcJoinable(p)
  <2>1. ControlType'
    BY <1>3 DEF HcJoinable, ControlType, ThreadHandle, PollersEnd, HandlerFirst
  <2>2. ThreadHandle'
    BY <1>3 DEF HcJoinable, ControlType, ThreadHandle, PollersEnd, HandlerFirst
  <2>3. PollersEnd'
    BY <1>3 DEF HcJoinable, ControlType, ThreadHandle, PollersEnd, HandlerFirst
  <2>4. HandlerFirst'
    BY <1>3 DEF HcJoinable, ControlType, ThreadHandle, PollersEnd, HandlerFirst
  <2>5. QED
    BY <2>1, <2>2, <2>3, <2>4
<1>4. CASE HcJoin(p)
  <2>1. ControlType'
    BY <1>4 DEF HcJoin, ControlType, ThreadHandle, PollersEnd, HandlerFirst
  <2>2. ThreadHandle'
    BY <1>4 DEF HcJoin, ControlType, ThreadHandle, PollersEnd, HandlerFirst
  <2>3. PollersEnd'
    BY <1>4 DEF HcJoin, ControlType, ThreadHandle, PollersEnd, HandlerFirst
  <2>4. HandlerFirst'
    BY <1>4 DEF HcJoin, ControlType, ThreadHandle, PollersEnd, HandlerFirst
  <2>5. QED
    BY <2>1, <2>2, <2>3, <2>4
<1>5. CASE HcJoined(p)
  <2>1. ControlType'
    BY <1>5 DEF HcJoined, ControlType, ThreadHandle, PollersEnd, HandlerFirst
  <2>2. ThreadHandle'
    BY <1>5 DEF HcJoined, ControlType, ThreadHandle, PollersEnd, HandlerFirst
  <2>3. PollersEnd'
    BY <1>5 DEF HcJoined, ControlType, ThreadHandle, PollersEnd, HandlerFirst
  <2>4. HandlerFirst'
    BY <1>5 DEF HcJoined, ControlType, ThreadHandle, PollersEnd, HandlerFirst
  <2>5. QED
    BY <2>1, <2>2, <2>3, <2>4
<1>6. QED
  BY <1>1, <1>2, <1>3, <1>4, <1>5 DEF HcStop

\* run(), apart from its call of HealthChecker::stop.
LEMMA RunnerKeeps ==
  ASSUME LifecycleInv, Free("runner"),
         \/ SetRunning \/ HcStart \/ HcCreate \/ HcAssign \/ SpawnMetrics \/ RunnerLog \/ RunnerLogged
         \/ SpawnWorker \/ Join \/ CloseAll
  PROVE  LifecycleInv'
<1> USE LifecycleAssumption DEF LifecycleInv, Pollers, Callers, Collides, Unassigned, Spawning, Stopping, WoundUp, Goto, PollerTo, Lock, Unlock, logVars, Free
<1>1. CASE SetRunning
  <2>1. ControlType'
    BY <1>1 DEF SetRunning, ControlType, ThreadHandle, PollersEnd, HandlerFirst
  <2>2. ThreadHandle'
    BY <1>1 DEF SetRunning, ControlType, ThreadHandle, PollersEnd, HandlerFirst
  <2>3. PollersEnd'
    BY <1>1 DEF SetRunning, ControlType, ThreadHandle, PollersEnd, HandlerFirst
  <2>4. HandlerFirst'
    BY <1>1 DEF SetRunning, ControlType, ThreadHandle, PollersEnd, HandlerFirst
  <2>5. QED
    BY <2>1, <2>2, <2>3, <2>4
<1>2. CASE HcStart
  <2>1. ControlType'
    BY <1>2 DEF HcStart, ControlType, ThreadHandle, PollersEnd, HandlerFirst
  <2>2. ThreadHandle'
    BY <1>2 DEF HcStart, ControlType, ThreadHandle, PollersEnd, HandlerFirst
  <2>3. PollersEnd'
    BY <1>2 DEF HcStart, ControlType, ThreadHandle, PollersEnd, HandlerFirst
  <2>4. HandlerFirst'
    BY <1>2 DEF HcStart, ControlType, ThreadHandle, PollersEnd, HandlerFirst
  <2>5. QED
    BY <2>1, <2>2, <2>3, <2>4
<1>3. CASE HcCreate
  <2>1. ControlType'
    BY <1>3 DEF HcCreate, ControlType, ThreadHandle, PollersEnd, HandlerFirst
  <2>2. ThreadHandle'
    BY <1>3 DEF HcCreate, ControlType, ThreadHandle, PollersEnd, HandlerFirst
  <2>3. PollersEnd'
    BY <1>3 DEF HcCreate, ControlType, ThreadHandle, PollersEnd, HandlerFirst
  <2>4. HandlerFirst'
    BY <1>3 DEF HcCreate, ControlType, ThreadHandle, PollersEnd, HandlerFirst
  <2>5. QED
    BY <2>1, <2>2, <2>3, <2>4
<1>4. CASE HcAssign
  <2>1. ControlType'
    BY <1>4 DEF HcAssign, ControlType, ThreadHandle, PollersEnd, HandlerFirst
  <2>2. ThreadHandle'
    BY <1>4 DEF HcAssign, ControlType, ThreadHandle, PollersEnd, HandlerFirst
  <2>3. PollersEnd'
    BY <1>4 DEF HcAssign, ControlType, ThreadHandle, PollersEnd, HandlerFirst
  <2>4. HandlerFirst'
    BY <1>4 DEF HcAssign, ControlType, ThreadHandle, PollersEnd, HandlerFirst
  <2>5. QED
    BY <2>1, <2>2, <2>3, <2>4
<1>5. CASE SpawnMetrics
  <2>1. ControlType'
    BY <1>5 DEF SpawnMetrics, ControlType, ThreadHandle, PollersEnd, HandlerFirst
  <2>2. ThreadHandle'
    BY <1>5 DEF SpawnMetrics, ControlType, ThreadHandle, PollersEnd, HandlerFirst
  <2>3. PollersEnd'
    BY <1>5 DEF SpawnMetrics, ControlType, ThreadHandle, PollersEnd, HandlerFirst
  <2>4. HandlerFirst'
    BY <1>5 DEF SpawnMetrics, ControlType, ThreadHandle, PollersEnd, HandlerFirst
  <2>5. QED
    BY <2>1, <2>2, <2>3, <2>4
<1>6. CASE RunnerLog
  <2>1. ControlType'
    BY <1>6 DEF RunnerLog, ControlType, ThreadHandle, PollersEnd, HandlerFirst
  <2>2. ThreadHandle'
    BY <1>6 DEF RunnerLog, ControlType, ThreadHandle, PollersEnd, HandlerFirst
  <2>3. PollersEnd'
    BY <1>6 DEF RunnerLog, ControlType, ThreadHandle, PollersEnd, HandlerFirst
  <2>4. HandlerFirst'
    BY <1>6 DEF RunnerLog, ControlType, ThreadHandle, PollersEnd, HandlerFirst
  <2>5. QED
    BY <2>1, <2>2, <2>3, <2>4
<1>7. CASE RunnerLogged
  <2>1. ControlType'
    BY <1>7 DEF RunnerLogged, ControlType, ThreadHandle, PollersEnd, HandlerFirst
  <2>2. ThreadHandle'
    BY <1>7 DEF RunnerLogged, ControlType, ThreadHandle, PollersEnd, HandlerFirst
  <2>3. PollersEnd'
    BY <1>7 DEF RunnerLogged, ControlType, ThreadHandle, PollersEnd, HandlerFirst
  <2>4. HandlerFirst'
    BY <1>7 DEF RunnerLogged, ControlType, ThreadHandle, PollersEnd, HandlerFirst
  <2>5. QED
    BY <2>1, <2>2, <2>3, <2>4
<1>8. CASE SpawnWorker
  <2>1. ControlType'
    BY <1>8 DEF SpawnWorker, ControlType, ThreadHandle, PollersEnd, HandlerFirst
  <2>2. ThreadHandle'
    BY <1>8 DEF SpawnWorker, ControlType, ThreadHandle, PollersEnd, HandlerFirst
  <2>3. PollersEnd'
    BY <1>8 DEF SpawnWorker, ControlType, ThreadHandle, PollersEnd, HandlerFirst
  <2>4. HandlerFirst'
    BY <1>8 DEF SpawnWorker, ControlType, ThreadHandle, PollersEnd, HandlerFirst
  <2>5. QED
    BY <2>1, <2>2, <2>3, <2>4
<1>9. CASE Join
  <2>1. ControlType'
    BY <1>9 DEF Join, ControlType, ThreadHandle, PollersEnd, HandlerFirst
  <2>2. ThreadHandle'
    BY <1>9 DEF Join, ControlType, ThreadHandle, PollersEnd, HandlerFirst
  <2>3. PollersEnd'
    BY <1>9 DEF Join, ControlType, ThreadHandle, PollersEnd, HandlerFirst
  <2>4. HandlerFirst'
    BY <1>9 DEF Join, ControlType, ThreadHandle, PollersEnd, HandlerFirst
  <2>5. QED
    BY <2>1, <2>2, <2>3, <2>4
<1>10. CASE CloseAll
  <2>1. ControlType'
    BY <1>10 DEF CloseAll, ControlType, ThreadHandle, PollersEnd, HandlerFirst
  <2>2. ThreadHandle'
    BY <1>10 DEF CloseAll, ControlType, ThreadHandle, PollersEnd, HandlerFirst
  <2>3. PollersEnd'
    BY <1>10 DEF CloseAll, ControlType, ThreadHandle, PollersEnd, HandlerFirst
  <2>4. HandlerFirst'
    BY <1>10 DEF CloseAll, ControlType, ThreadHandle, PollersEnd, HandlerFirst
  <2>5. QED
    BY <2>1, <2>2, <2>3, <2>4
<1>11. QED
  BY <1>1, <1>2, <1>3, <1>4, <1>5, <1>6, <1>7, <1>8, <1>9, <1>10

\* The handler is entered, and the health thread steps.
LEMMA OthersKeep ==
  ASSUME LifecycleInv, BeginStop \/ HealthRun \/ SpuriousWakeup
  PROVE  LifecycleInv'
<1> USE LifecycleAssumption DEF LifecycleInv, Pollers, Callers, Collides, Unassigned, Spawning, Stopping, WoundUp, Goto, PollerTo, Lock, Unlock, logVars
<1>1. CASE BeginStop
  <2>1. ControlType'
    BY Zenon, <1>1 DEF BeginStop, ControlType, ThreadHandle, PollersEnd, HandlerFirst
  <2>2. ThreadHandle'
    BY <1>1 DEF BeginStop, ControlType, ThreadHandle, PollersEnd, HandlerFirst
  <2>3. PollersEnd'
    BY <1>1 DEF BeginStop, ControlType, ThreadHandle, PollersEnd, HandlerFirst
  <2>4. HandlerFirst'
    BY <1>1 DEF BeginStop, ControlType, ThreadHandle, PollersEnd, HandlerFirst
  <2>5. QED
    BY <2>1, <2>2, <2>3, <2>4
<1>2. CASE HealthRun \/ SpuriousWakeup
  <2>1. /\ health # "none" /\ health' # "none"
        /\ health # "exited"
        /\ UNCHANGED <<host, gwRunning, thread, pc, poller>>
    BY <1>2 DEF HealthRun, HealthLoop, HealthProbe, HealthLog, HealthLogged, HealthProbed, HealthPredicate,
                HealthBlock, IntervalElapses, SpuriousWakeup
  <2>2. ControlType' /\ PollersEnd' /\ HandlerFirst'
    BY <2>1 DEF ControlType, PollersEnd, HandlerFirst
  <2>3. ThreadHandle'
    BY <2>1 DEF ThreadHandle
  <2>4. QED
    BY <2>2, <2>3
<1>3. QED
  BY <1>1, <1>2

\* A worker or the metrics thread steps: it has been created, and it ends only
\* after a stop() or, as the metrics thread, by a failure.
LEMMA PollerKeeps ==
  ASSUME LifecycleInv, NEW q \in Pollers, Free(q),
         PollerLog(q) \/ PollerLogged(q) \/ Poll(q) \/ (q = "metrics" /\ MetricsFails)
  PROVE  LifecycleInv'
<1> USE LifecycleAssumption DEF LifecycleInv, Pollers, Callers, Collides, Unassigned, Spawning, Stopping, WoundUp, Goto, PollerTo, Lock, Unlock, logVars
<1> DEFINE next == poller'[q]
<1>1. /\ poller[q] \notin {"none", "exited"}
      /\ next \in {"log", "logging", "failed", "failing", "polling", "exited"}
      /\ poller' = [poller EXCEPT ![q] = next]
      /\ UNCHANGED <<host, gwRunning, thread, pc, health>>
  BY DEF PollerLog, PollerLogged, Poll, MetricsFails, ControlType
<1>2. q \in Workers => /\ next = "exited" => ~gwRunning
                       /\ next \notin {"failed", "failing"}
  BY DEF PollerLog, PollerLogged, Poll, MetricsFails, ControlType, PollersEnd
<1>3. \A r \in Pollers : poller'[r] = IF r = q THEN next ELSE poller[r]
  BY <1>1 DEF ControlType
<1> HIDE DEF next
<1>4. ControlType'
  BY <1>1 DEF ControlType
<1>5. ThreadHandle' /\ HandlerFirst'
  BY <1>1 DEF ThreadHandle, HandlerFirst
<1>6. PollersEnd'
  <2>1. pc["runner"] \notin WoundUp \cup Unassigned \cup {"spawnMetrics"}
    BY <1>1 DEF PollersEnd
  <2>2. q \in Workers => pc["runner"] = "spawn"
    BY <1>1, <2>1 DEF PollersEnd, ControlType
  <2>3. host = q /\ next = "exited" => pc["stopper"] \in {"start", "done"}
    BY DEF Free
  <2>4. q \in Workers /\ next = "exited" => pc["stopper"] # "start"
    BY <1>2, <2>1 DEF PollersEnd
  <2>5. QED
    BY <1>1, <1>2, <1>3, <2>1, <2>2, <2>3, <2>4 DEF PollersEnd
<1>7. QED
  BY <1>4, <1>5, <1>6

\* Every step keeps the invariant.
LEMMA LifecycleStep ==
  ASSUME LifecycleInv, [Next]_vars
  PROVE  LifecycleInv'
<1>1. CASE Runner
  <2>1. CASE HcStop("runner")
    BY <1>1, <2>1, HcStopKeeps DEF Runner, Callers
  <2>2. CASE ~HcStop("runner")
    BY <1>1, <2>2, RunnerKeeps DEF Runner
  <2>3. QED
    BY <2>1, <2>2
<1>2. CASE HcStop("stopper")
  BY <1>2, HcStopKeeps DEF Callers
<1>3. CASE BeginStop \/ (Free("health") /\ (HealthRun \/ SpuriousWakeup))
  BY <1>3, OthersKeep
<1>4. CASE \E q \in Pollers : PollerRun(q)
  BY <1>4, PollerKeeps DEF PollerRun
<1>5. CASE Free("metrics") /\ MetricsFails
  BY <1>5, PollerKeeps DEF Pollers
<1>6. CASE UNCHANGED vars
  BY <1>6 DEF vars, LifecycleInv, ControlType, ThreadHandle, PollersEnd, HandlerFirst, Collides
<1>7. QED
  BY <1>1, <1>2, <1>3, <1>4, <1>5, <1>6 DEF Next, Ended

\* The invariant holds in every reachable state.
LEMMA LifecycleHolds == Spec => []LifecycleInv
<1>1. Init => LifecycleInv
  BY Zenon, LifecycleAssumption DEF Init, LifecycleInv, Pollers, Callers, Unassigned, Spawning, Stopping, WoundUp, ControlType, ThreadHandle, PollersEnd, HandlerFirst
<1>2. QED
  BY <1>1, LifecycleStep, PTL DEF Spec

\* For any number of workers: when Gateway::run returns, the health thread has
\* been joined and every worker and the metrics thread have ended.
THEOREM RunReturnsQuiescent == Spec => []ReturnsQuiescent
<1>1. LifecycleInv => ReturnsQuiescent
  BY DEF LifecycleInv, ThreadHandle, PollersEnd, WoundUp, ReturnsQuiescent
<1>2. QED
  BY <1>1, LifecycleHolds, PTL

\* For any number of workers: when the signal handler runs on the thread that
\* is in run(), on a worker or on the metrics thread, the two calls of
\* HealthChecker::stop never join twice.
THEOREM SignalJoinsOnce == Spec => []HandlerJoinsOnce
<1>1. LifecycleInv => HandlerJoinsOnce
  BY DEF LifecycleInv, HandlerFirst, HandlerJoinsOnce
<1>2. QED
  BY <1>1, LifecycleHolds, PTL
=============================================================================
