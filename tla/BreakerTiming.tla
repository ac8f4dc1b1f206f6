---------------------------- MODULE BreakerTiming ----------------------------
(***************************************************************************)
(* The circuit breaker with its clock. CircuitBreaker is extended with     *)
(* openedAt_, the steady clock, and the time each call takes; resetElapsed *)
(* is kept equal to the comparison in allowRequest, line 36. TimedSpec     *)
(* implements CircuitBreaker's Spec.                                       *)
(*                                                                         *)
(* A result carries no link to the admission it belongs to, so a call that *)
(* outlives the period it was admitted in reports to a later one. Whether  *)
(* that can happen is a matter of two durations: resetTimeout_, and the    *)
(* longest time between allowRequest and the report, which is bounded by   *)
(* the connect timeout in dialNew plus the send and the receive timeout in *)
(* sendAndReceive. Config.cpp relates neither to the other.                *)
(***************************************************************************)
EXTENDS CircuitBreaker

CONSTANTS
  ResetTimeout,  \* resetTimeout_: any integer, Config.cpp does not validate it
  CallTimeout,   \* the longest time an admitted call takes to report
  MaxTime        \* bound: the clock stops here

ASSUME TimingAssumption ==
  /\ ResetTimeout \in Int
  /\ CallTimeout \in Nat
  /\ MaxTime \in Nat

VARIABLES
  now,        \* steady_clock::now()
  openedAt,   \* openedAt_
  startedAt,  \* history: when each caller was last admitted
  trippedAt   \* history: when the breaker last became Open

clock == <<now, openedAt, startedAt, trippedAt>>
timedVars == <<vars, clock>>

TimedInit ==
  /\ Init
  /\ now = 0
  /\ openedAt = 0
  /\ resetElapsed = (now - openedAt >= ResetTimeout)
  /\ startedAt = [c \in Callers |-> 0]
  /\ trippedAt = 0

TimedAllowRequest(c) ==
  /\ AllowRequest(c)
  /\ startedAt' = IF call'[c] = "none" THEN startedAt ELSE [startedAt EXCEPT ![c] = now]
  /\ UNCHANGED <<now, openedAt, trippedAt>>

TimedOnSuccess(c) == OnSuccess(c) /\ UNCHANGED clock

\* trip() stamps openedAt_ each time it runs, also when the breaker is Open already.
TimedOnFailure(c) ==
  /\ OnFailure(c)
  /\ openedAt' = IF Trips(breaker) THEN now ELSE openedAt
  /\ resetElapsed' = (now - openedAt' >= ResetTimeout)
  /\ trippedAt' = IF breaker.state # "Open" /\ breaker'.state = "Open" THEN now ELSE trippedAt
  /\ UNCHANGED <<now, startedAt>>

\* Mutant: a clock that can be set back, as system_clock can.
MutTickBack ==
  /\ now < MaxTime
  /\ \A c \in Outstanding : now - startedAt[c] < CallTimeout
  /\ now' \in {now + 1, now - 1}
  /\ resetElapsed' = (now' - openedAt >= ResetTimeout)
  /\ UNCHANGED <<breaker, call, late, openedAt, startedAt, trippedAt>>

\* Time passes, but no call outlives its timeouts.
Tick ==
  /\ now < MaxTime
  /\ \A c \in Outstanding : now - startedAt[c] < CallTimeout
  /\ now' = now + 1
  /\ resetElapsed' = (now' - openedAt >= ResetTimeout)
  /\ UNCHANGED <<breaker, call, late, openedAt, startedAt, trippedAt>>

TimedNext ==
  \/ \E c \in Callers : TimedAllowRequest(c) \/ TimedOnSuccess(c) \/ TimedOnFailure(c)
  \/ Tick

TimedSpec == TimedInit /\ [][TimedNext]_timedVars

\* Every admitted call reports: dialNew and sendAndReceive wait with timeouts
\* and every path of forwardWithResilience after allowRequest reports.
TimedFairSpec ==
  TimedSpec /\ \A c \in Callers : WF_timedVars(TimedOnSuccess(c) \/ TimedOnFailure(c))

-----------------------------------------------------------------------------
\* Header, lines 17-18: in Half-Open "a limited number of trial requests are
\* allowed through": at most halfOpenTrialRequests_ trials are unresolved at
\* any time. A failure that arrives late in HalfOpen trips the breaker and
\* frees the slots of trials still under way, so this needs
\* ResetTimeout > CallTimeout.
TrialLimit ==
  Cardinality({c \in Callers : call[c] = "trial"}) <= HalfOpenTrialRequests

\* Header, lines 17-18, of the trial requests: "If they succeed the breaker
\* closes". The success that closes the breaker is that of a trial of the
\* current half-open period, not of a call admitted before the breaker opened.
\* This too needs ResetTimeout > CallTimeout.
ClosedByTrial ==
  [][breaker.state = "HalfOpen" /\ breaker'.state = "Closed" =>
       \E c \in CurrentTrials : call'[c] = "none"]_timedVars

\* onFailure counts while the breaker is Open and may trip it again, which
\* restarts the reset timer. Only calls admitted before it opened can do so:
\* they push the end of the open period back by at most one call's duration.
OpenExtensionBounded ==
  breaker.state = "Open" => openedAt - trippedAt <= CallTimeout
==============================================================================
