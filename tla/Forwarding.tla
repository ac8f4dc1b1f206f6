----------------------------- MODULE Forwarding -----------------------------
(***************************************************************************)
(* Gateway::forwardWithResilience, src/core/Gateway.cpp: worker threads    *)
(* that serve requests through one route's load balancer, a circuit        *)
(* breaker per backend and the shared connection pool, while the health    *)
(* checker writes, backends drop connections and the gateway shuts down.   *)
(*                                                                         *)
(* Every access to something another thread can touch is a step of its     *)
(* own; what a worker does to its locals belongs to the step before it.    *)
(* PickLoop, CircuitBreaker and ConnectionPool supply the operations, and  *)
(* the composition is shown to use the last two as their modules demand.   *)
(***************************************************************************)
EXTENDS PickLoop, Sequences, FiniteSets

CONSTANTS
  Workers, Sockets, MaxIdle, NoSocket,
  Deployments,           \* worker threads, group size and strategy to look at
  MaxRetries,            \* retryMax
  FailureThreshold, HalfOpenTrialRequests

ASSUME ForwardingAssumption ==
  /\ Deployments \subseteq [threads : SUBSET Workers, size : 1 .. N,
                            strategy : {"round_robin", "least_connections"}]
  /\ MaxRetries \in Int
  /\ IsFiniteSet(Workers)
  /\ MaxIdle \in Nat /\ NoSocket \notin Sockets   \* see ConnectionPool

VARIABLES
  strategy, healthy, active, rr, scan,           \* see LoadBalancer
  size,                                          \* backends_.size() of the group
  breaker, elapsed, call, late,                  \* see CircuitBreaker, per backend
  idle, sock, key, open, gone, peer, closed,     \* see ConnectionPool
  pc,        \* where each worker is in forwardWithResilience
  attempt,   \* its loop counter
  backend,   \* the backend of the current attempt
  outcome,   \* ok, reusable and whether the status is retryable
  owed,      \* history: sockets on which an answer may still arrive
  running    \* Gateway::running_

group == <<strategy, size>>
lbVars == <<group, healthy, active, rr, scan>>
cbVars == <<breaker, elapsed, call, late>>
poolVars == <<idle, sock, key, open, gone, peer, closed>>
ctlVars == <<pc, attempt, backend, outcome>>
vars == <<lbVars, cbVars, poolVars, ctlVars, owed, running>>

Pool == INSTANCE ConnectionPool WITH Threads <- Workers, Keys <- Backends, NoKey <- None

CB(b) == INSTANCE CircuitBreaker WITH
  Callers <- Workers, breaker <- breaker[b], resetElapsed <- elapsed[b],
  call <- [w \in Workers |-> IF backend[w] = b THEN call[w] ELSE "none"],
  late <- {w \in late : backend[w] = b}

Attempts == MaxRetries + 1

Failed == [ok |-> FALSE, reusable |-> FALSE, retryable |-> FALSE]
Answered == {[ok |-> TRUE, reusable |-> u, retryable |-> y] : u, y \in BOOLEAN}

Init ==
  /\ Pool!Init
  /\ \E d \in Deployments :
       /\ strategy = d.strategy
       /\ size = d.size
       /\ pc = [w \in Workers |-> IF w \in d.threads THEN "idle" ELSE "exited"]
  /\ healthy = [b \in Backends |-> TRUE]
  /\ active = [b \in Backends |-> 0]
  /\ rr = 0
  /\ scan = [w \in Workers |-> Idle]
  /\ breaker = [b \in Backends |-> CB(b)!Fresh]
  /\ elapsed = [b \in Backends |-> TRUE]   \* not read before the breaker opens
  /\ call = [w \in Workers |-> "none"]
  /\ late = {}
  /\ attempt = [w \in Workers |-> 0]
  /\ backend = [w \in Workers |-> None]
  /\ outcome = [w \in Workers |-> Failed]
  /\ owed = {}
  /\ running = TRUE

-----------------------------------------------------------------------------
Goto(w, l) == pc' = [pc EXCEPT ![w] = l]

\* The request leaves the function; each return clears the locals.
Return(w) ==
  /\ Goto(w, "idle")
  /\ attempt' = [attempt EXCEPT ![w] = 0]
  /\ backend' = [backend EXCEPT ![w] = None]
  /\ outcome' = [outcome EXCEPT ![w] = Failed]
  /\ scan' = [scan EXCEPT ![w] = Idle]

\* The head of the loop, line 464; past the last attempt, line 509.
Loop(w, a) ==
  IF a < Attempts
  THEN /\ Goto(w, "pick")
       /\ attempt' = [attempt EXCEPT ![w] = a]
       /\ backend' = [backend EXCEPT ![w] = None]
       /\ outcome' = [outcome EXCEPT ![w] = Failed]
       /\ scan' = [scan EXCEPT ![w] = NewScan(size)]
  ELSE Return(w)

Begin(w) ==
  /\ pc[w] = "idle"
  /\ Loop(w, 0)
  /\ UNCHANGED <<group, healthy, active, rr, cbVars, poolVars, owed, running>>

\* pick() goes on, finds nothing (lines 466-468) or returns a backend.
Picked(w, sc) ==
  \/ /\ sc.status # "done"
     /\ scan' = [scan EXCEPT ![w] = sc]
     /\ UNCHANGED ctlVars
  \/ sc.status = "done" /\ sc.best = None /\ Return(w)
  \/ /\ sc.status = "done"
     /\ sc.best # None
     /\ Goto(w, "admit")
     /\ backend' = [backend EXCEPT ![w] = sc.best]
     /\ scan' = [scan EXCEPT ![w] = Idle]
     /\ UNCHANGED <<attempt, outcome>>

PickRoundRobin(w) ==
  \/ /\ scan[w].status = "scanning"
     /\ rr' = (rr + 1) % size
     /\ Picked(w, TakeTurn(scan[w], rr))
  \/ /\ scan[w].status = "looking"
     /\ UNCHANGED rr
     /\ Picked(w, LookAtTurn(scan[w], healthy))

PickLeastConnections(w) ==
  /\ \/ scan[w].status = "scanning" /\ Picked(w, CheckHealth(scan[w], healthy))
     \/ scan[w].status = "looking" /\ Picked(w, CompareLoad(scan[w], active))
  /\ UNCHANGED rr

Pick(w) ==
  /\ pc[w] = "pick"
  /\ \/ strategy = "round_robin" /\ PickRoundRobin(w)
     \/ strategy = "least_connections" /\ PickLeastConnections(w)
  /\ UNCHANGED <<group, healthy, active, cbVars, poolVars, owed, running>>

-----------------------------------------------------------------------------
(* The breaker of the worker's backend.                                    *)

Outstanding(b) == {w \in Workers : backend[w] = b /\ call[w] # "none"}

SetBreaker(b, cb, outstanding) ==
  /\ breaker' = [breaker EXCEPT ![b] = cb]
  /\ late' = (late \ Outstanding(b)) \cup
       (IF cb.state # breaker[b].state THEN outstanding ELSE late \cap outstanding)

\* Mutant: a rejection does not use up an attempt.
MutPickAgainForever(w) == Loop(w, attempt[w])

\* Line 471.
PickAgain(w) == Loop(w, attempt[w] + 1)

\* Mutant: the answer of allowRequest is ignored.
MutAdmitAnyway(w) ==
  LET b == backend[w]
      cb == CB(b)!AfterAllow(breaker[b], elapsed[b])
  IN  /\ pc[w] = "admit"
      /\ SetBreaker(b, cb, Outstanding(b))
      /\ call' = [call EXCEPT ![w] = IF cb.state = "HalfOpen" THEN "trial" ELSE "normal"]
      /\ Goto(w, "count")
      /\ UNCHANGED <<lbVars, elapsed, poolVars, attempt, backend, outcome, owed, running>>

\* Lines 469-472.
Admit(w) ==
  LET b == backend[w]
      cb == CB(b)!AfterAllow(breaker[b], elapsed[b])
  IN  /\ pc[w] = "admit"
      /\ SetBreaker(b, cb, Outstanding(b))
      /\ \/ /\ CB(b)!Admits(breaker[b], elapsed[b])
            /\ call' = [call EXCEPT ![w] = IF cb.state = "HalfOpen" THEN "trial" ELSE "normal"]
            /\ Goto(w, "count")
            /\ UNCHANGED <<attempt, backend, outcome, scan>>
         \/ /\ ~CB(b)!Admits(breaker[b], elapsed[b])
            /\ PickAgain(w)
            /\ UNCHANGED call
      /\ UNCHANGED <<group, healthy, active, rr, elapsed, poolVars, owed, running>>

\* Line 474.
Count(w) ==
  /\ pc[w] = "count"
  /\ active' = [active EXCEPT ![backend[w]] = @ + 1]
  /\ Goto(w, "acquire")
  /\ UNCHANGED <<group, healthy, rr, scan, cbVars, poolVars, attempt, backend, outcome, owed, running>>

\* Line 475.
Acquire(w) ==
  /\ pc[w] = "acquire"
  /\ \/ Pool!AcquireIdle(w, backend[w]) /\ Goto(w, "exchange")
     \/ Pool!AcquireMiss(w, backend[w]) /\ Goto(w, "dial")
  /\ UNCHANGED <<lbVars, cbVars, attempt, backend, outcome, owed, running>>

Dial(w) ==
  /\ pc[w] = "dial"
  /\ \/ Pool!DialSucceeds(w) /\ Goto(w, "exchange")
     \/ Pool!DialFails(w) /\ Goto(w, "uncount")
  /\ UNCHANGED <<lbVars, cbVars, attempt, backend, outcome, owed, running>>

\* sendAndReceive, line 481: a complete response, or any of its error returns.
\* When it gives up, the response may still be on its way.
Exchange(w) ==
  /\ pc[w] = "exchange"
  /\ \/ /\ sock[w] \notin gone
        /\ outcome' \in {[outcome EXCEPT ![w] = o] : o \in Answered}
        /\ UNCHANGED owed
     \/ /\ outcome' = [outcome EXCEPT ![w] = Failed]
        /\ owed' = owed \cup {sock[w]}
  /\ Goto(w, "uncount")
  /\ UNCHANGED <<lbVars, cbVars, poolVars, attempt, backend, running>>

\* Mutant: a failed attempt is not taken off the count.
MutUncountOnSuccess(w) ==
  /\ pc[w] = "uncount"
  /\ active' = [active EXCEPT ![backend[w]] = IF outcome[w].ok THEN @ - 1 ELSE @]
  /\ Goto(w, IF outcome[w].ok THEN "report" ELSE "giveback")
  /\ UNCHANGED <<group, healthy, rr, scan, cbVars, poolVars, attempt, backend, outcome, owed, running>>

\* Line 483.
Uncount(w) ==
  /\ pc[w] = "uncount"
  /\ active' = [active EXCEPT ![backend[w]] = @ - 1]
  /\ Goto(w, IF outcome[w].ok THEN "report" ELSE "giveback")
  /\ UNCHANGED <<group, healthy, rr, scan, cbVars, poolVars, attempt, backend, outcome, owed, running>>

\* Lines 489-493 and 497-507: the answer is returned, or it is time to retry.
Retry(w) ==
  IF attempt[w] = Attempts - 1 \/ (outcome[w].ok /\ ~outcome[w].retryable)
  THEN Return(w)
  ELSE Loop(w, attempt[w] + 1)

\* Line 486, and line 496 with what follows it.
Report(w) ==
  LET b == backend[w]
      cb == IF outcome[w].ok THEN CB(b)!AfterSuccess(breaker[b]) ELSE CB(b)!AfterFailure(breaker[b])
  IN  /\ pc[w] = "report"
      /\ SetBreaker(b, cb, Outstanding(b) \ {w})
      /\ call' = [call EXCEPT ![w] = "none"]
      /\ IF ~outcome[w].ok /\ CB(b)!Trips(breaker[b])
         THEN \E e \in BOOLEAN : elapsed' = [elapsed EXCEPT ![b] = e]
         ELSE UNCHANGED elapsed
      /\ IF outcome[w].ok
         THEN Goto(w, "giveback") /\ UNCHANGED <<attempt, backend, outcome, scan>>
         ELSE Retry(w)
      /\ UNCHANGED <<group, healthy, active, rr, poolVars, owed, running>>

\* Mutant: a socket goes back to the pool whatever happened on it.
MutDisposeReleases(w) == Pool!Release(w)

\* Mutant: a socket that went back to the pool is closed as well.
MutDisposeBoth(w) ==
  /\ Pool!Close({sock[w]})
  /\ idle' = IF outcome[w].reusable THEN [idle EXCEPT ![key[w]] = Append(@, sock[w])] ELSE idle
  /\ sock' = [sock EXCEPT ![w] = NoSocket]
  /\ key' = [key EXCEPT ![w] = None]
  /\ UNCHANGED closed

Dispose(w) ==
  IF outcome[w].reusable THEN Pool!Release(w) ELSE Pool!Discard(w)

\* Lines 487-488 with what follows them, and line 495.
GiveBack(w) ==
  /\ pc[w] = "giveback"
  /\ IF sock[w] = NoSocket
     THEN UNCHANGED <<poolVars, owed>>
     ELSE Dispose(w) /\ owed' = owed \cap open'
  /\ IF outcome[w].ok
     THEN Retry(w)
     ELSE Goto(w, "report") /\ UNCHANGED <<attempt, backend, outcome, scan>>
  /\ UNCHANGED <<group, healthy, active, rr, cbVars, running>>

-----------------------------------------------------------------------------
(* Everything else that moves.                                             *)

SetHealth(b) ==
  /\ b < size
  /\ healthy' = [healthy EXCEPT ![b] = ~@]
  /\ UNCHANGED <<group, active, rr, scan, cbVars, poolVars, ctlVars, owed, running>>

ResetTimeoutElapses(b) ==
  /\ ~elapsed[b]
  /\ elapsed' = [elapsed EXCEPT ![b] = TRUE]
  /\ UNCHANGED <<lbVars, breaker, call, late, poolVars, ctlVars, owed, running>>

PeerCloses(s) ==
  /\ Pool!PeerCloses(s)
  /\ UNCHANGED <<lbVars, cbVars, ctlVars, owed, running>>

\* Gateway::stop.
Stop ==
  /\ running
  /\ running' = FALSE
  /\ UNCHANGED <<lbVars, cbVars, poolVars, ctlVars, owed>>

\* Worker::run leaves its loop; until it looks at running_ it serves what
\* the current poll() delivered.
Exit(w) ==
  /\ ~running
  /\ pc[w] = "idle"
  /\ Goto(w, "exited")
  /\ UNCHANGED <<lbVars, cbVars, poolVars, attempt, backend, outcome, owed, running>>

\* Gateway::run, after joining the workers.
CloseAll ==
  /\ \A w \in Workers : pc[w] = "exited"
  /\ Pool!CloseAll
  /\ owed' = owed \cap open'
  /\ UNCHANGED <<lbVars, cbVars, ctlVars, running>>

Finished == Pool!Finished /\ UNCHANGED vars

Serve(w) ==
  \/ Pick(w) \/ Admit(w) \/ Count(w) \/ Acquire(w) \/ Dial(w)
  \/ Exchange(w) \/ Uncount(w) \/ Report(w) \/ GiveBack(w)

Next ==
  \/ \E w \in Workers : Begin(w) \/ Serve(w) \/ Exit(w)
  \/ \E b \in Backends : SetHealth(b) \/ ResetTimeoutElapses(b)
  \/ \E s \in Sockets : PeerCloses(s)
  \/ Stop \/ CloseAll \/ Finished

Spec == Init /\ [][Next]_vars

\* A worker that has a request keeps running: every wait on its way, in
\* dialNew, in sendAndReceive and between retries, ends with a timeout.
FairSpec == Spec /\ \A w \in Workers : WF_vars(Serve(w))

-----------------------------------------------------------------------------
InFlight(b) == {w \in Workers : backend[w] = b
                  /\ pc[w] \in {"acquire", "dial", "exchange", "uncount"}}

\* What a worker has in its hands at each point of the loop: an admitted call
\* that will be reported exactly while it is due, and a place on
\* activeConnections, on every path through success, failure and retry.
BooksBalance ==
  /\ \A b \in Backends : active[b] = Cardinality(InFlight(b))
  /\ \A w \in Workers :
       /\ call[w] # "none" <=> (\/ pc[w] \in {"count", "acquire", "dial", "exchange", "uncount", "report"}
                                \/ pc[w] = "giveback" /\ ~outcome[w].ok)
       /\ pc[w] \in {"idle", "pick", "admit", "exited"} => sock[w] = NoSocket /\ key[w] = None

\* The forwarding code uses the pool as ConnectionPool says its callers do:
\* a worker gives back what it acquired before it acquires again, gives it
\* back once, and nothing reaches the pool after closeAll(). What is proved of
\* the pool therefore holds in the gateway.
UsesPoolCorrectly == Pool!Spec

\* The forwarding code uses each backend's breaker as CircuitBreaker says its
\* callers do: exactly one report per admitted call, to the breaker that
\* admitted it. This is CB(b)!Spec for every b in the form TLC accepts; what is
\* proved of a breaker holds for each one here.
UsesBreakersCorrectly ==
  /\ \A b \in Backends : CB(b)!Init
  /\ [][\A b \in Backends : CB(b)!Next \/ UNCHANGED CB(b)!vars]_vars

\* CircuitBreaker.hpp, lines 43-47: a half-open breaker refuses all but its
\* trials, so it must not wait for a result that never comes. Whatever becomes
\* of the requests that are its trials, each half-open period ends, and needs
\* no further request to do so.
HalfOpenResolves ==
  \A b \in Backends : []<>(breaker[b].state # "HalfOpen")

\* No client gets the answer to somebody else's request: a socket on which an
\* abandoned exchange may still be answered is not in the pool, and is not the
\* one a worker is about to write its request to.
NoStaleAnswer ==
  /\ owed \cap Pool!IdleSockets = {}
  /\ \A w \in Workers : pc[w] = "exchange" => sock[w] \notin owed

\* Every request is answered: no combination of breaker rejections, failed
\* dials, dead sockets and retryable answers keeps a worker in the loop.
EveryRequestAnswered ==
  \A w \in Workers : []<>(pc[w] \in {"idle", "exited"})
=============================================================================
