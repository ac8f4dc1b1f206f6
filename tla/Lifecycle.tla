----------------------------- MODULE Lifecycle ------------------------------
(***************************************************************************)
(* Starting and stopping: Gateway::run and Gateway::stop                   *)
(* (src/core/Gateway.cpp), HealthChecker::start, stop and run              *)
(* (src/network/HealthChecker.cpp), the Logger's mutex                     *)
(* (include/observability/Logger.hpp) and the signal handler of main.cpp.  *)
(*                                                                         *)
(* One thread is in run(); stop() is called once, by a thread of its own   *)
(* as in the integration tests, or by a signal handler on top of one of    *)
(* the gateway's threads, which then waits for it. Of what the threads do  *)
(* there is when they look at a flag and when they log.                    *)
(***************************************************************************)
EXTENDS Integers, FiniteSets

CONSTANTS
  Workers,   \* the worker threads
  Backends   \* how many backends the health checker probes

\* workerThreads is at least 1, see Config.
ASSUME LifecycleAssumption ==
  /\ Workers # {}
  /\ Workers \cap {"other", "runner", "health", "metrics", "nobody"} = {}
  /\ Backends \in Nat

\* The threads that look at running_ again and again.
Pollers == Workers \cup {"metrics"}

VARIABLES
  host,        \* where stop() runs: "other", or on top of "runner", "health" or a poller
  gwRunning,   \* Gateway::running_
  hcRunning,   \* HealthChecker::running_
  thread,      \* HealthChecker::thread_
  pc,          \* where "runner" is in run() and "stopper" in stop()
  health,      \* where the health-check thread is in HealthChecker::run
  left,        \* the backends it has still to probe in this round
  poller,      \* where each worker and the metrics thread is
  logger,      \* who holds Logger::mu_
  interrupted  \* history: the handler interrupted a thread that held it

vars == <<host, gwRunning, hcRunning, thread, pc, health, left, poller, logger, interrupted>>
logVars == <<logger, interrupted>>

Callers == {"runner", "stopper"}

Init ==
  /\ host \in {"other", "runner", "health"} \cup Pollers
  /\ gwRunning = FALSE
  /\ hcRunning = FALSE
  /\ thread = "none"
  /\ pc = [p \in Callers |-> "start"]
  /\ health = "none"
  /\ left = 0
  /\ poller = [q \in Pollers |-> "none"]
  /\ logger = "nobody"
  /\ interrupted = FALSE

Goto(p, l) == pc' = [pc EXCEPT ![p] = l]
PollerTo(q, l) == poller' = [poller EXCEPT ![q] = l]

\* A thread runs unless a handler is on top of it.
Free(x) == host = x => pc["stopper"] \in {"start", "done"}

\* Logger::log holds mu_ while it writes the line.
Lock(x) == logger = "nobody" /\ logger' = x /\ UNCHANGED interrupted
Unlock == logger' = "nobody" /\ UNCHANGED interrupted

-----------------------------------------------------------------------------
(* HealthChecker::stop, called by run() and by stop().                     *)

HcClearRunning(p) ==
  /\ pc[p] = "hcClear"
  /\ hcRunning' = FALSE
  /\ Goto(p, "hcNotify")
  /\ UNCHANGED <<host, gwRunning, thread, health, left, poller, logVars>>

HcNotify(p) ==
  /\ pc[p] = "hcNotify"
  /\ health' = IF health = "blocked" THEN "woken" ELSE health
  /\ Goto(p, "hcJoinable")
  /\ UNCHANGED <<host, gwRunning, hcRunning, thread, left, poller, logVars>>

AfterHcStop(p) == Goto(p, IF p = "runner" THEN "closeAll" ELSE "done")

\* Mutant: join() without asking joinable().
MutJoinAlways(p) ==
  /\ pc[p] = "hcJoinable"
  /\ Goto(p, "hcJoin")
  /\ UNCHANGED <<host, gwRunning, hcRunning, thread, health, left, poller, logVars>>

HcJoinable(p) ==
  /\ pc[p] = "hcJoinable"
  /\ IF thread = "joinable" THEN Goto(p, "hcJoin") ELSE AfterHcStop(p)
  /\ UNCHANGED <<host, gwRunning, hcRunning, thread, health, left, poller, logVars>>

\* join() throws for the thread it is called on (EDEADLK), for a thread another
\* caller is joining or has joined (EINVAL), and waits otherwise.
HcJoin(p) ==
  /\ pc[p] = "hcJoin"
  /\ Goto(p, IF \/ p = "stopper" /\ host = "health"
                \/ \E o \in Callers : pc[o] = "hcJoining"
                \/ thread = "joined"
             THEN "crashed" ELSE "hcJoining")
  /\ UNCHANGED <<host, gwRunning, hcRunning, thread, health, left, poller, logVars>>

HcJoined(p) ==
  /\ pc[p] = "hcJoining"
  /\ health = "exited"
  /\ thread' = "joined"
  /\ AfterHcStop(p)
  /\ UNCHANGED <<host, gwRunning, hcRunning, health, left, poller, logVars>>

HcStop(p) == HcClearRunning(p) \/ HcNotify(p) \/ HcJoinable(p) \/ HcJoin(p) \/ HcJoined(p)

-----------------------------------------------------------------------------
(* Gateway::run                                                            *)

SetRunning ==
  /\ pc["runner"] = "start"
  /\ gwRunning' = TRUE
  /\ Goto("runner", "hcStart")
  /\ UNCHANGED <<host, hcRunning, thread, health, left, poller, logVars>>

HcStart ==
  /\ pc["runner"] = "hcStart"
  /\ hcRunning' = TRUE
  /\ Goto("runner", "hcCreate")
  /\ UNCHANGED <<host, gwRunning, thread, health, left, poller, logVars>>

HcCreate ==
  /\ pc["runner"] = "hcCreate"
  /\ health' = "loop"
  /\ Goto("runner", "hcAssign")
  /\ UNCHANGED <<host, gwRunning, hcRunning, thread, left, poller, logVars>>

HcAssign ==
  /\ pc["runner"] = "hcAssign"
  /\ thread' = "joinable"
  /\ Goto("runner", "spawnMetrics")
  /\ UNCHANGED <<host, gwRunning, hcRunning, health, left, poller, logVars>>

SpawnMetrics ==
  /\ pc["runner"] = "spawnMetrics"
  /\ PollerTo("metrics", "log")
  /\ Goto("runner", "log")
  /\ UNCHANGED <<host, gwRunning, hcRunning, thread, health, left, logVars>>

RunnerLog ==
  /\ pc["runner"] = "log"
  /\ Lock("runner")
  /\ Goto("runner", "logging")
  /\ UNCHANGED <<host, gwRunning, hcRunning, thread, health, left, poller>>

RunnerLogged ==
  /\ pc["runner"] = "logging"
  /\ Unlock
  /\ Goto("runner", "spawn")
  /\ UNCHANGED <<host, gwRunning, hcRunning, thread, health, left, poller>>

SpawnWorker ==
  /\ pc["runner"] = "spawn"
  /\ \E q \in Workers : poller[q] = "none" /\ PollerTo(q, "log")
  /\ UNCHANGED <<host, gwRunning, hcRunning, thread, pc, health, left, logVars>>

\* Mutant: run() goes on as soon as one worker is over.
MutJoinOne ==
  /\ pc["runner"] = "spawn"
  /\ \A q \in Workers : poller[q] # "none"
  /\ \E q \in Workers : poller[q] = "exited"
  /\ Goto("runner", "hcClear")
  /\ UNCHANGED <<host, gwRunning, hcRunning, thread, health, left, poller, logVars>>

Join ==
  /\ pc["runner"] = "spawn"
  /\ \A q \in Pollers : poller[q] = "exited"
  /\ Goto("runner", "hcClear")
  /\ UNCHANGED <<host, gwRunning, hcRunning, thread, health, left, poller, logVars>>

\* pool_.closeAll() takes a mutex nobody holds for long; see ConnectionPool.
CloseAll ==
  /\ pc["runner"] = "closeAll"
  /\ Goto("runner", "done")
  /\ UNCHANGED <<host, gwRunning, hcRunning, thread, health, left, poller, logVars>>

Runner ==
  /\ Free("runner")
  /\ \/ SetRunning \/ HcStart \/ HcCreate \/ HcAssign \/ SpawnMetrics \/ RunnerLog \/ RunnerLogged
     \/ SpawnWorker \/ Join \/ HcStop("runner") \/ CloseAll

-----------------------------------------------------------------------------
(* Gateway::stop                                                           *)

\* A handler can only be on top of a thread that exists.
BeginStop ==
  /\ pc["stopper"] = "start"
  /\ host = "health" => health \notin {"none", "exited"}
  /\ host = "runner" => pc["runner"] # "done"
  /\ host \in Pollers => poller[host] \notin {"none", "exited"}
  /\ gwRunning' = FALSE
  /\ interrupted' = (logger = host)
  /\ Goto("stopper", IF gwRunning THEN "hcClear" ELSE "done")
  /\ UNCHANGED <<host, hcRunning, thread, health, left, poller, logger>>

-----------------------------------------------------------------------------
(* HealthChecker::run and the pollers                                      *)

\* Mutant: the loop goes on for ever.
MutLoopForever ==
  /\ health = "loop"
  /\ health' = "probing"
  /\ left' = Backends
  /\ UNCHANGED <<host, gwRunning, hcRunning, thread, pc, poller, logVars>>

HealthLoop ==
  /\ health = "loop"
  /\ health' = IF hcRunning THEN "probing" ELSE "exited"
  /\ left' = Backends
  /\ UNCHANGED <<host, gwRunning, hcRunning, thread, pc, poller, logVars>>

\* The next backend is probed; a change of its health is logged.
HealthProbe ==
  /\ health = "probing"
  /\ left > 0
  /\ left' = left - 1
  /\ health' \in {"probing", "log"}
  /\ UNCHANGED <<host, gwRunning, hcRunning, thread, pc, poller, logVars>>

HealthLog ==
  /\ health = "log"
  /\ Lock("health")
  /\ health' = "logging"
  /\ UNCHANGED <<host, gwRunning, hcRunning, thread, pc, left, poller>>

HealthLogged ==
  /\ health = "logging"
  /\ Unlock
  /\ health' = "probing"
  /\ UNCHANGED <<host, gwRunning, hcRunning, thread, pc, left, poller>>

\* All backends are probed and cvMu_ is taken.
HealthProbed ==
  /\ health = "probing"
  /\ left = 0
  /\ health' = "locked"
  /\ UNCHANGED <<host, gwRunning, hcRunning, thread, pc, left, poller, logVars>>

\* wait_for evaluates its predicate with cvMu_ held, before it first blocks
\* and whenever it is woken.
HealthPredicate ==
  /\ health \in {"locked", "woken"}
  /\ health' = IF hcRunning THEN "blocking" ELSE "loop"
  /\ UNCHANGED <<host, gwRunning, hcRunning, thread, pc, left, poller, logVars>>

HealthBlock ==
  /\ health = "blocking"
  /\ health' = "blocked"
  /\ UNCHANGED <<host, gwRunning, hcRunning, thread, pc, left, poller, logVars>>

SpuriousWakeup ==
  /\ health = "blocked"
  /\ health' = "woken"
  /\ UNCHANGED <<host, gwRunning, hcRunning, thread, pc, left, poller, logVars>>

IntervalElapses ==
  /\ health = "blocked"
  /\ health' = "loop"
  /\ UNCHANGED <<host, gwRunning, hcRunning, thread, pc, left, poller, logVars>>

HealthRun ==
  \/ HealthLoop \/ HealthProbe \/ HealthLog \/ HealthLogged \/ HealthProbed
  \/ HealthPredicate \/ HealthBlock \/ IntervalElapses

\* A worker logs its start and every request, the metrics thread its start or
\* that it could not open its port, which ends it.
PollerLog(q) ==
  /\ poller[q] \in {"log", "failed"}
  /\ Lock(q)
  /\ PollerTo(q, IF poller[q] = "log" THEN "logging" ELSE "failing")
  /\ UNCHANGED <<host, gwRunning, hcRunning, thread, pc, health, left>>

PollerLogged(q) ==
  /\ poller[q] \in {"logging", "failing"}
  /\ Unlock
  /\ PollerTo(q, IF poller[q] = "logging" THEN "polling" ELSE "exited")
  /\ UNCHANGED <<host, gwRunning, hcRunning, thread, pc, health, left>>

MetricsFails ==
  /\ poller["metrics"] = "log"
  /\ PollerTo("metrics", "failed")
  /\ UNCHANGED <<host, gwRunning, hcRunning, thread, pc, health, left, logVars>>

\* Worker::run and runMetricsServer look at running_ at least every 200 ms. In
\* between a worker may handle a request, the first thing of which is to log.
Poll(q) ==
  /\ poller[q] = "polling"
  /\ \/ gwRunning /\ q \in Workers /\ PollerTo(q, "log")
     \/ ~gwRunning /\ PollerTo(q, "exited")
  /\ UNCHANGED <<host, gwRunning, hcRunning, thread, pc, health, left, logVars>>

PollerRun(q) == Free(q) /\ (PollerLog(q) \/ PollerLogged(q) \/ Poll(q))

\* The process is over once both callers are done or an exception has escaped,
\* and it hangs if the handler joins a thread that waits for the mutex held by
\* the thread below the handler.
Ended ==
  /\ \/ \A p \in Callers : pc[p] = "done"
     \/ \E p \in Callers : pc[p] = "crashed"
     \/ interrupted /\ pc["stopper"] = "hcJoining" /\ health = "log"
  /\ UNCHANGED vars

Next ==
  \/ Runner
  \/ BeginStop
  \/ HcStop("stopper")
  \/ Free("health") /\ (HealthRun \/ SpuriousWakeup)
  \/ \E q \in Pollers : PollerRun(q)
  \/ Free("metrics") /\ MetricsFails
  \/ Ended

Spec == Init /\ [][Next]_vars

\* The operating system runs every thread, and one that waits for the Logger's
\* mutex gets it if it is free again and again; stop() may never be called.
FairSpec ==
  /\ Spec
  /\ WF_vars(Runner) /\ SF_vars(Free("runner") /\ RunnerLog)
  /\ WF_vars(HcStop("stopper"))
  /\ WF_vars(Free("health") /\ HealthRun) /\ SF_vars(Free("health") /\ HealthLog)
  /\ \A q \in Pollers : WF_vars(PollerRun(q)) /\ SF_vars(Free(q) /\ PollerLog(q))

-----------------------------------------------------------------------------
\* When run() returns nothing of the gateway is left running: every worker and
\* the metrics thread are over and so is the health-check thread, whoever
\* stopped and joined it and whatever start() overlapped with.
ReturnsQuiescent ==
  pc["runner"] = "done" =>
    /\ \A q \in Pollers : poller[q] = "exited"
    /\ health = "exited"
    /\ thread = "joined"

\* The places of stop() where it can collide with run() in join().
Collides == host \in {"other", "health"}

\* Gateway.hpp, line 45: run() "blocks until stop() is called from another
\* thread/signal". A stop() that finds the gateway running ends run(), also
\* when it overlaps with the start-up of the health checker and the workers,
\* with log lines of any thread and with a metrics server that has failed. The
\* exceptions are a handler that interrupts a thread in the middle of a log
\* line, and a collision of stop() and run() in join().
StopEndsRun ==
  (~gwRunning /\ pc["runner"] # "start" /\ ~interrupted) ~>
    (pc["runner"] = "done" \/ (Collides /\ \E p \in Callers : pc[p] = "crashed"))

\* A signal handler that interrupts the thread in run(), a worker or the
\* metrics thread, as main.cpp has it when the signal is delivered there, never
\* makes join() throw: run() only joins the checker once the handler is over.
HandlerJoinsOnce == ~Collides => \A p \in Callers : pc[p] # "crashed"

\* Gateway.hpp, lines 37-39: the shared subsystems "are internally thread-safe".
\* When stop() is called from a thread of its own, the health-check thread is
\* not joined a second time or by two callers at the same time.
JoinsOnce == host = "other" => \A p \in Callers : pc[p] # "crashed"
=============================================================================
