------------------------ MODULE CircuitBreakerProofs ------------------------
(***************************************************************************)
(* Proofs about CircuitBreaker, for every set of callers, every failure    *)
(* threshold and every positive number of trial requests, and about        *)
(* BreakerTiming, for every timeout and every bound on the clock: the      *)
(* timed breaker implements the untimed one, late failures extend an open  *)
(* period by at most one call, and, when resets are slower than calls,     *)
(* results only reach the period their call was admitted in.               *)
(***************************************************************************)
EXTENDS BreakerTiming, FiniteSetTheorems, TLAPS

\* The inductive invariant. TrialAccounting alone is not inductive: entering
\* HalfOpen makes every outstanding call late, and counts one trial, only
\* because the set late never holds a caller without a call (TypeOK).
BreakerInv == TypeOK /\ TrialAccounting /\ OpenAdmitsNothing

\* The methods keep the breaker record well formed.
LEMMA MethodTypes ==
  ASSUME NEW cb \in Breaker,
         NEW e \in BOOLEAN
  PROVE  /\ AfterAllow(cb, e) \in Breaker
         /\ AfterSuccess(cb) \in Breaker
         /\ AfterFailure(cb) \in Breaker
<1>1. Enter(cb, e) \in Breaker
  BY DEF Enter, Breaker
<1>2. AfterAllow(cb, e) \in Breaker
  BY <1>1 DEF AfterAllow, Breaker
<1>3. AfterSuccess(cb) \in Breaker
  BY DEF AfterSuccess, Fresh, Breaker
<1>4. AfterFailure(cb) \in Breaker
  BY DEF AfterFailure, Tripped, Breaker
<1> QED
  BY <1>2, <1>3, <1>4

\* A result never leaves the breaker HalfOpen, and empties the slots.
LEMMA ResultsLeaveHalfOpen ==
  ASSUME NEW cb \in Breaker,
         cb.state # "HalfOpen" => cb.inFlight = 0
  PROVE  /\ AfterSuccess(cb).state # "HalfOpen" /\ AfterSuccess(cb).inFlight = 0
         /\ AfterFailure(cb).state # "HalfOpen" /\ AfterFailure(cb).inFlight = 0
BY DEF AfterSuccess, AfterFailure, Fresh, Tripped, Trips, Breaker

\* A new breaker is Closed with empty counters.
LEMMA InitBreaker == Init => BreakerInv
BY BreakerAssumption
DEF Init, BreakerInv, TypeOK, TrialAccounting, OpenAdmitsNothing, Outstanding, Fresh, Breaker

\* allowRequest keeps the invariant.
LEMMA AllowKeepsInv ==
  ASSUME BreakerInv, NEW c \in Callers, AllowRequest(c)
  PROVE  BreakerInv'
<1> USE BreakerAssumption DEF BreakerInv, Breaker
<1>1. breaker' \in Breaker
  BY MethodTypes DEF AllowRequest, TypeOK
<1>2. CASE Rejected(c)
  <2>1. UNCHANGED <<call, resetElapsed>>
    BY <1>2 DEF AllowRequest, Rejected
  <2>2. breaker' = breaker
    BY <1>2 DEF AllowRequest, Rejected, Admits, AfterAllow, Enter, TypeOK
  <2>3. late' = late
    BY <2>2 DEF AllowRequest, MarkLate, TypeOK, Outstanding
  <2> QED
    BY <2>1, <2>2, <2>3 DEF TypeOK, TrialAccounting, OpenAdmitsNothing, Outstanding, CurrentTrials
<1>3. CASE Admitted(c) /\ breaker.state = "Closed"
  <2>1. breaker' = breaker
    BY <1>3 DEF AllowRequest, AfterAllow, Enter, TypeOK
  <2>2. /\ call' = [call EXCEPT ![c] = "normal"]
        /\ late' = late
        /\ UNCHANGED resetElapsed
    BY <1>3, <2>1 DEF AllowRequest, Admitted, AfterAllow, Enter, MarkLate, TypeOK, Outstanding
  <2> QED
    BY <1>3, <2>1, <2>2 DEF TypeOK, TrialAccounting, OpenAdmitsNothing, Outstanding
<1>4. CASE Admitted(c) /\ breaker.state = "Open"
  <2>1. breaker' = [breaker EXCEPT !.state = "HalfOpen", !.inFlight = 1]
    <3>1. Enter(breaker, resetElapsed) = [breaker EXCEPT !.state = "HalfOpen", !.inFlight = 0]
      BY <1>4 DEF Admitted, Admits, Enter
    <3>2. /\ Enter(breaker, resetElapsed).state = "HalfOpen"
          /\ Enter(breaker, resetElapsed).inFlight = 0
      BY <3>1 DEF TypeOK
    <3>3. breaker' = [Enter(breaker, resetElapsed) EXCEPT !.inFlight = 1]
      BY <3>2 DEF AllowRequest, AfterAllow
    <3> QED
      BY <3>1, <3>3 DEF TypeOK
  <2>2. /\ call' = [call EXCEPT ![c] = "trial"]
        /\ late' = Outstanding
        /\ UNCHANGED resetElapsed
    BY <1>4, <2>1 DEF AllowRequest, Admitted, MarkLate, TypeOK
  <2>3. CurrentTrials' = {c}
    BY <2>2 DEF CurrentTrials, AllowRequest, Outstanding, TypeOK
  <2>4. Cardinality({c}) = 1
    BY FS_Singleton
  <2>5. TypeOK'
    BY <1>1, <2>2 DEF TypeOK, Outstanding
  <2> QED
    BY <2>1, <2>3, <2>4, <2>5 DEF TypeOK, TrialAccounting, OpenAdmitsNothing
<1>5. CASE Admitted(c) /\ breaker.state = "HalfOpen"
  <2>1. /\ breaker.inFlight < HalfOpenTrialRequests
        /\ breaker' = [breaker EXCEPT !.inFlight = @ + 1]
    BY <1>5 DEF AllowRequest, Admitted, Admits, AfterAllow, Enter, TypeOK
  <2>2. /\ call' = [call EXCEPT ![c] = "trial"]
        /\ late' = late
        /\ UNCHANGED resetElapsed
    BY <1>5, <2>1 DEF AllowRequest, Admitted, MarkLate, TypeOK, Outstanding
  <2>3. CurrentTrials' = CurrentTrials \cup {c} /\ c \notin CurrentTrials
    BY <2>2 DEF CurrentTrials, AllowRequest, Outstanding, TypeOK
  <2>4. IsFiniteSet(CurrentTrials)
    BY FS_Subset DEF CurrentTrials
  <2>5. Cardinality(CurrentTrials') = Cardinality(CurrentTrials) + 1
    BY <2>3, <2>4, FS_AddElement
  <2>6. TypeOK'
    BY <1>1, <2>2 DEF TypeOK, Outstanding
  <2> QED
    BY <1>5, <2>1, <2>5, <2>6 DEF TypeOK, TrialAccounting, OpenAdmitsNothing
<1> QED
  BY <1>2, <1>3, <1>4, <1>5 DEF AllowRequest, TypeOK

\* Both results end the call, leave HalfOpen and empty the slots; if the
\* breaker changes state, everything still outstanding becomes late.
LEMMA ResultKeepsInv ==
  ASSUME BreakerInv, NEW c \in Callers, OnSuccess(c) \/ OnFailure(c)
  PROVE  BreakerInv'
<1> USE DEF BreakerInv
<1>1. /\ breaker' \in Breaker
      /\ breaker'.state # "HalfOpen"
      /\ breaker'.inFlight = 0
  BY MethodTypes, ResultsLeaveHalfOpen DEF OnSuccess, OnFailure, TypeOK, OpenAdmitsNothing
<1>2. /\ call' = [call EXCEPT ![c] = "none"]
      /\ MarkLate(breaker', Outstanding \ {c})
      /\ resetElapsed' \in BOOLEAN
  BY DEF OnSuccess, OnFailure, TypeOK
<1>3. Outstanding' = Outstanding \ {c}
  BY <1>2 DEF Outstanding, TypeOK
<1>4. TypeOK'
  BY <1>1, <1>2, <1>3 DEF TypeOK, MarkLate
<1>5. breaker'.state = "Open" => Outstanding' = late'
  BY <1>2, <1>3 DEF OpenAdmitsNothing, MarkLate, TypeOK
<1> QED
  BY <1>1, <1>4, <1>5 DEF TrialAccounting, OpenAdmitsNothing

\* Every step keeps the invariant.
LEMMA NextKeepsInv == BreakerInv /\ [Next]_vars => BreakerInv'
<1> SUFFICES ASSUME BreakerInv, [Next]_vars PROVE BreakerInv'
  OBVIOUS
<1>1. ASSUME NEW c \in Callers, AllowRequest(c) PROVE BreakerInv'
  BY <1>1, AllowKeepsInv
<1>2. ASSUME NEW c \in Callers, OnSuccess(c) \/ OnFailure(c) PROVE BreakerInv'
  BY <1>2, ResultKeepsInv
<1>3. CASE ResetTimeoutElapses
  BY <1>3 DEF BreakerInv, TypeOK, TrialAccounting, OpenAdmitsNothing, ResetTimeoutElapses,
              Outstanding, CurrentTrials
<1>4. CASE UNCHANGED vars
  BY <1>4 DEF BreakerInv, TypeOK, TrialAccounting, OpenAdmitsNothing, vars, Outstanding, CurrentTrials
<1> QED
  BY <1>1, <1>2, <1>3, <1>4 DEF Next

\* The breaker's counters and its callers agree in every reachable state of
\* CircuitBreaker.hpp.
THEOREM SpecKeepsBreakerInv == Spec => []BreakerInv
BY InitBreaker, NextKeepsInv, PTL DEF Spec

\* Type correctness of the breaker and its callers' bookkeeping.
THEOREM TypeCorrect == Spec => []TypeOK
BY SpecKeepsBreakerInv, PTL DEF BreakerInv

\* halfOpenInFlight_ counts exactly the unresolved trials of the current
\* half-open period and stays within 1 .. halfOpenTrialRequests_: no trial
\* slot is ever lost, so a HalfOpen breaker always has a result coming.
THEOREM SlotsAreAccounted == Spec => []TrialAccounting
BY SpecKeepsBreakerInv, PTL DEF BreakerInv

\* While Open the breaker has no call of its own period outstanding, and no
\* slot is taken outside HalfOpen.
THEOREM OpenIsQuiet == Spec => []OpenAdmitsNothing
BY SpecKeepsBreakerInv, PTL DEF BreakerInv

\* The only way back to Closed is through HalfOpen (onSuccess while Open does
\* not close), and only an Open breaker goes HalfOpen.
THEOREM HalfOpenNotSkipped == Spec => NeverSkipsHalfOpen
<1> DEFINE Step == /\ breaker.state = "Open" => breaker'.state # "Closed"
                   /\ breaker.state = "Closed" => breaker'.state # "HalfOpen"
<1>1. ASSUME TypeOK, [Next]_vars
      PROVE  [Step]_vars
  <2>1. ASSUME NEW c \in Callers, AllowRequest(c) PROVE Step
    BY <1>1, <2>1 DEF TypeOK, Breaker, AllowRequest, AfterAllow, Enter
  <2>2. ASSUME NEW c \in Callers, OnSuccess(c) PROVE Step
    BY <1>1, <2>2 DEF TypeOK, Breaker, OnSuccess, AfterSuccess, Fresh
  <2>3. ASSUME NEW c \in Callers, OnFailure(c) PROVE Step
    BY <1>1, <2>3 DEF TypeOK, Breaker, OnFailure, AfterFailure, Tripped
  <2>4. ASSUME ResetTimeoutElapses PROVE Step
    BY <2>4 DEF ResetTimeoutElapses
  <2> QED
    BY <1>1, <2>1, <2>2, <2>3, <2>4 DEF Next
<1> QED
  BY <1>1, TypeCorrect, PTL DEF Spec, NeverSkipsHalfOpen

-----------------------------------------------------------------------------
(* The timed breaker implements the untimed one.                           *)

ElapsedDefined ==
  /\ now \in Nat
  /\ openedAt \in Nat
  /\ resetElapsed = (now - openedAt >= ResetTimeout)

\* A step with the clock is a step of the breaker, and resetElapsed stays what
\* the subtraction in allowRequest computes.
LEMMA TimedStepIsStep ==
  ASSUME ElapsedDefined, [TimedNext]_timedVars
  PROVE  ElapsedDefined' /\ [Next]_vars
<1> USE TimingAssumption
<1>1. ASSUME NEW c \in Callers, TimedAllowRequest(c)
      PROVE  ElapsedDefined' /\ [Next]_vars
  BY <1>1 DEF ElapsedDefined, TimedAllowRequest, AllowRequest, Next
<1>2. ASSUME NEW c \in Callers, TimedOnSuccess(c)
      PROVE  ElapsedDefined' /\ [Next]_vars
  BY <1>2 DEF ElapsedDefined, TimedOnSuccess, OnSuccess, clock, Next
<1>3. ASSUME NEW c \in Callers, TimedOnFailure(c)
      PROVE  ElapsedDefined' /\ [Next]_vars
  BY <1>3 DEF ElapsedDefined, TimedOnFailure, Next
<1>4. CASE Tick
  <2>1. ElapsedDefined'
    BY <1>4 DEF ElapsedDefined, Tick
  <2>2. CASE resetElapsed' = resetElapsed
    BY <1>4, <2>1, <2>2 DEF Tick, vars
  <2>3. CASE resetElapsed' # resetElapsed
    <3>1. now' - openedAt >= ResetTimeout /\ ~(now - openedAt >= ResetTimeout)
      BY <1>4, <2>3 DEF ElapsedDefined, Tick
    <3>2. ResetTimeoutElapses
      BY <1>4, <3>1 DEF ElapsedDefined, Tick, ResetTimeoutElapses
    <3> QED
      BY <2>1, <3>2 DEF Next
  <2> QED
    BY <2>1, <2>2, <2>3
<1>5. CASE UNCHANGED timedVars
  BY <1>5 DEF ElapsedDefined, timedVars, clock, vars
<1> QED
  BY <1>1, <1>2, <1>3, <1>4, <1>5 DEF TimedNext

\* The breaker with its clock starts as the breaker does.
LEMMA TimedInitElapsed == TimedInit => Init /\ ElapsedDefined
BY DEF TimedInit, ElapsedDefined

\* The breaker with its clock implements the breaker whose timeout elapses at
\* an arbitrary moment, so what is proved of CircuitBreaker holds of it.
THEOREM TimedImplementsUntimed == TimedSpec => Spec
<1>1. TimedSpec => []ElapsedDefined
  BY TimedInitElapsed, TimedStepIsStep, PTL DEF TimedSpec
<1> QED
  BY <1>1, TimedInitElapsed, TimedStepIsStep, PTL DEF TimedSpec, Spec

-----------------------------------------------------------------------------
(* The inductive invariant: who can still report, and since when.          *)

TimingInv ==
  /\ ElapsedDefined
  /\ startedAt \in [Callers -> Nat]
  /\ trippedAt \in Nat
  /\ trippedAt <= openedAt /\ openedAt <= now
  \* No call outlives CallTimeout.
  /\ \A c \in Outstanding : startedAt[c] <= now /\ now - startedAt[c] <= CallTimeout
  \* While Open, only calls admitted before the breaker opened are out.
  /\ breaker.state = "Open" =>
       /\ openedAt - trippedAt <= CallTimeout
       /\ \A c \in Outstanding : startedAt[c] <= trippedAt
  \* While HalfOpen, a call is late or a trial; late ones are older than openedAt.
  /\ breaker.state = "HalfOpen" =>
       /\ resetElapsed
       /\ \A c \in late : startedAt[c] <= openedAt
       /\ \A c \in Outstanding \ late : call[c] = "trial"

\* A breaker that was never opened satisfies the timing invariant.
LEMMA TimedInitInv == TimedInit => TimingInv
BY TimingAssumption DEF TimedInit, Init, TimingInv, ElapsedDefined, Outstanding, Fresh

\* allowRequest: a call starts now, after whatever opened the breaker.
LEMMA TimedAllowKeepsInv ==
  ASSUME BreakerInv, TimingInv, NEW c \in Callers, TimedAllowRequest(c)
  PROVE  TimingInv'
<1> USE TimingAssumption, BreakerAssumption
<1>0. /\ TypeOK /\ OpenAdmitsNothing /\ AllowRequest(c)
      /\ ElapsedDefined'
  BY DEF BreakerInv, TimedAllowRequest, TimingInv, AllowRequest, ElapsedDefined
<1>1. CASE Rejected(c)
  <2>1. breaker' = breaker /\ call' = call
    BY <1>0, <1>1 DEF AllowRequest, Rejected, Admits, AfterAllow, Enter, TypeOK, Breaker
  <2>2. late' = late
    BY <1>0, <2>1 DEF AllowRequest, MarkLate, TypeOK, Outstanding
  <2>3. UNCHANGED <<clock, resetElapsed>>
    BY <1>0, <2>1 DEF TimedAllowRequest, AllowRequest, clock
  <2> QED
    BY <2>1, <2>2, <2>3 DEF TimingInv, ElapsedDefined, Outstanding, clock
<1>2. CASE Admitted(c)
  <2>1. /\ call' = [call EXCEPT ![c] = call'[c]]
        /\ call'[c] = IF breaker'.state = "HalfOpen" THEN "trial" ELSE "normal"
        /\ call[c] = "none"
        /\ startedAt' = [startedAt EXCEPT ![c] = now]
        /\ UNCHANGED <<now, openedAt, trippedAt, resetElapsed>>
    BY <1>0, <1>2 DEF TimedAllowRequest, AllowRequest, Admitted, TypeOK
  <2>2. Outstanding' = Outstanding \cup {c} /\ c \notin Outstanding
    BY <1>0, <2>1 DEF Outstanding, TypeOK
  <2>3. /\ startedAt' \in [Callers -> Nat]
        /\ \A d \in Outstanding' : startedAt'[d] <= now' /\ now' - startedAt'[d] <= CallTimeout
    BY <2>1, <2>2 DEF TimingInv, ElapsedDefined, Outstanding
  <2>4. /\ breaker.state \in {"Closed", "Open", "HalfOpen"}
        /\ breaker'.state = IF breaker.state = "Closed" THEN "Closed" ELSE "HalfOpen"
        /\ breaker.state = "Open" => resetElapsed
    BY <1>0, <1>2 DEF AllowRequest, Admitted, Admits, AfterAllow, Enter, TypeOK, Breaker
  <2>5. late' = IF breaker.state = "Open" THEN Outstanding ELSE late
    BY <1>0, <2>4 DEF AllowRequest, MarkLate, TypeOK, Outstanding
  <2>6. breaker'.state = "HalfOpen" => \A d \in late' : startedAt'[d] <= openedAt'
    BY <1>0, <2>1, <2>2, <2>4, <2>5 DEF TimingInv, ElapsedDefined, TypeOK, Outstanding
  <2>7. breaker'.state = "HalfOpen" => \A d \in Outstanding' \ late' : call'[d] = "trial"
    BY <1>0, <2>1, <2>2, <2>4, <2>5 DEF TimingInv, TypeOK, Outstanding
  <2>8. breaker'.state = "HalfOpen" => resetElapsed'
    BY <2>1, <2>4 DEF TimingInv
  <2> QED
    BY <1>0, <2>1, <2>3, <2>4, <2>6, <2>7, <2>8 DEF TimingInv
<1> QED
  BY <1>0, <1>1, <1>2 DEF AllowRequest

\* onSuccess and onFailure: the transition makes the other calls late.
LEMMA TimedResultKeepsInv ==
  ASSUME BreakerInv, TimingInv, NEW c \in Callers, TimedOnSuccess(c) \/ TimedOnFailure(c)
  PROVE  TimingInv'
<1> USE TimingAssumption, BreakerAssumption
<1>0. TypeOK /\ OpenAdmitsNothing
  BY DEF BreakerInv
<1>1. /\ call[c] # "none"
      /\ call' = [call EXCEPT ![c] = "none"]
      /\ UNCHANGED <<now, startedAt>>
      /\ ElapsedDefined'
  BY DEF TimedOnSuccess, TimedOnFailure, OnSuccess, OnFailure, TimingInv, ElapsedDefined, clock
<1>2. Outstanding' = Outstanding \ {c}
  BY <1>0, <1>1 DEF Outstanding, TypeOK
<1>3. breaker'.state # "HalfOpen"
  BY <1>0, ResultsLeaveHalfOpen
  DEF TimedOnSuccess, TimedOnFailure, OnSuccess, OnFailure, TypeOK, OpenAdmitsNothing
<1>4. \A d \in Outstanding' : startedAt'[d] <= now' /\ now' - startedAt'[d] <= CallTimeout
  BY <1>1, <1>2 DEF TimingInv
<1>5. CASE TimedOnSuccess(c)
  <2>1. UNCHANGED clock /\ (breaker'.state = "Open" => breaker.state = "Open")
    BY <1>0, <1>5 DEF TimedOnSuccess, OnSuccess, AfterSuccess, Fresh, TypeOK, Breaker
  <2> QED
    BY <1>1, <1>2, <1>3, <1>4, <2>1 DEF TimingInv, clock
<1>6. CASE TimedOnFailure(c) /\ ~Trips(breaker)
  <2>1. breaker'.state = breaker.state /\ UNCHANGED <<openedAt, trippedAt>>
    BY <1>0, <1>6 DEF TimedOnFailure, OnFailure, AfterFailure, TypeOK, Breaker
  <2> QED
    BY <1>1, <1>2, <1>3, <1>4, <2>1 DEF TimingInv
<1>7. CASE TimedOnFailure(c) /\ Trips(breaker)
  <2>1. /\ breaker'.state = "Open"
        /\ openedAt' = now
        /\ trippedAt' = IF breaker.state # "Open" THEN now ELSE trippedAt
    BY <1>7 DEF TimedOnFailure, OnFailure, AfterFailure, Tripped
  <2>2. trippedAt' \in Nat /\ trippedAt' <= openedAt' /\ openedAt' <= now'
    BY <1>1, <2>1 DEF TimingInv, ElapsedDefined
  \* Already Open: the call that fails was admitted by trippedAt, hence is at most CallTimeout away.
  <2>3. openedAt' - trippedAt' <= CallTimeout
    <3>1. CASE breaker.state = "Open"
      <4>1. c \in Outstanding
        BY <1>1 DEF Outstanding
      <4>2. startedAt[c] <= trippedAt /\ now - startedAt[c] <= CallTimeout /\ startedAt[c] \in Nat
        BY <3>1, <4>1 DEF TimingInv, Outstanding
      <4> QED
        BY <2>1, <3>1, <4>2 DEF TimingInv, ElapsedDefined
    <3>2. CASE breaker.state # "Open"
      BY <2>1, <3>2 DEF TimingInv, ElapsedDefined
    <3> QED
      BY <3>1, <3>2
  <2>4. \A d \in Outstanding' : startedAt'[d] <= trippedAt'
    BY <1>1, <1>2, <2>1 DEF TimingInv
  <2> QED
    BY <1>1, <1>3, <1>4, <2>1, <2>2, <2>3, <2>4 DEF TimingInv
<1> QED
  BY <1>5, <1>6, <1>7

\* Time passes only while every outstanding call is within its deadline.
LEMMA TickKeepsInv ==
  ASSUME BreakerInv, TimingInv, Tick
  PROVE  TimingInv'
<1> USE TimingAssumption
<1>1. /\ UNCHANGED <<breaker, call, late, openedAt, startedAt, trippedAt>>
      /\ now' = now + 1
      /\ \A c \in Outstanding : now - startedAt[c] < CallTimeout
      /\ resetElapsed' = (now' - openedAt >= ResetTimeout)
  BY DEF Tick
<1>2. Outstanding' = Outstanding /\ \A c \in Outstanding : startedAt[c] \in Nat
  BY <1>1 DEF Outstanding, TimingInv
<1>3. ElapsedDefined'
  BY <1>1 DEF TimingInv, ElapsedDefined
<1>4. \A c \in Outstanding' : startedAt'[c] <= now' /\ now' - startedAt'[c] <= CallTimeout
  BY <1>1, <1>2 DEF TimingInv, ElapsedDefined
<1>5. resetElapsed => resetElapsed'
  <2>1. now - openedAt >= ResetTimeout => now' - openedAt >= ResetTimeout
    BY <1>1 DEF TimingInv, ElapsedDefined
  <2> QED
    BY <1>1, <2>1 DEF TimingInv, ElapsedDefined
<1> QED
  BY <1>1, <1>2, <1>3, <1>4, <1>5 DEF TimingInv, ElapsedDefined

\* Every step keeps the timing invariant.
LEMMA TimedNextKeepsInv ==
  BreakerInv /\ TimingInv /\ [TimedNext]_timedVars => TimingInv'
<1> SUFFICES ASSUME BreakerInv, TimingInv, [TimedNext]_timedVars PROVE TimingInv'
  OBVIOUS
<1>1. ASSUME NEW c \in Callers, TimedAllowRequest(c) PROVE TimingInv'
  BY <1>1, TimedAllowKeepsInv
<1>2. ASSUME NEW c \in Callers, TimedOnSuccess(c) \/ TimedOnFailure(c) PROVE TimingInv'
  BY <1>2, TimedResultKeepsInv
<1>3. CASE Tick
  BY <1>3, TickKeepsInv
<1>4. CASE UNCHANGED timedVars
  BY <1>4 DEF TimingInv, ElapsedDefined, timedVars, clock, vars, Outstanding
<1> QED
  BY <1>1, <1>2, <1>3, <1>4 DEF TimedNext

\* The breaker and timing invariants hold in every reachable state of
\* CircuitBreaker.hpp under its steady clock.
THEOREM TimedSpecKeepsInv == TimedSpec => [](BreakerInv /\ TimingInv)
<1>1. TimedSpec => []BreakerInv
  BY TimedImplementsUntimed, SpecKeepsBreakerInv, PTL
<1> QED
  BY <1>1, TimedInitInv, TimedNextKeepsInv, PTL DEF TimedSpec

\* Late failures restart the reset timer of an Open breaker, but only for one
\* call's duration, whatever the reset timeout is.
THEOREM LateFailuresExtendOneCall == TimedSpec => []OpenExtensionBounded
<1>1. TimingInv => OpenExtensionBounded
  BY DEF TimingInv, OpenExtensionBounded
<1> QED
  BY <1>1, TimedSpecKeepsInv, PTL

-----------------------------------------------------------------------------
(* When every call reports before the reset timeout has elapsed.           *)

\* While HalfOpen only trials of the current period are outstanding.
LEMMA NoLateCallInHalfOpen ==
  ASSUME ResetTimeout > CallTimeout, TypeOK, TimingInv, breaker.state = "HalfOpen"
  PROVE  late = {} /\ \A c \in Outstanding : call[c] = "trial"
<1> USE TimingAssumption
<1>1. ASSUME NEW c \in late PROVE FALSE
  <2>1. c \in Outstanding /\ c \in Callers
    BY <1>1 DEF TypeOK, Outstanding
  <2>2. /\ startedAt[c] \in Nat /\ startedAt[c] <= openedAt
        /\ now - startedAt[c] <= CallTimeout
        /\ now - openedAt >= ResetTimeout
    BY <1>1, <2>1 DEF TimingInv, ElapsedDefined
  <2> QED
    BY <2>2 DEF TimingInv, ElapsedDefined
<1> QED
  BY <1>1 DEF TimingInv

Trials == {c \in Callers : call[c] = "trial"}

\* There are finitely many callers, so finitely many trials.
LEMMA TrialsFinite == IsFiniteSet(Trials)
BY BreakerAssumption, FS_Subset DEF Trials

\* HalfOpen states have only current trials, which TrialAccounting bounds; no
\* step that ends outside HalfOpen admits a trial.
LEMMA StepKeepsTrialLimit ==
  ASSUME BreakerInv, BreakerInv', [Next]_vars, TrialLimit,
         breaker'.state = "HalfOpen" => late' = {}
  PROVE  TrialLimit'
<1> USE BreakerAssumption DEF BreakerInv
<1>1. CASE breaker'.state = "HalfOpen"
  <2>1. {c \in Callers : call'[c] = "trial"} = CurrentTrials'
    BY <1>1 DEF CurrentTrials
  <2> QED
    BY <1>1, <2>1 DEF TrialAccounting, TrialLimit
<1>2. CASE breaker'.state # "HalfOpen"
  <2>1. Trials' \subseteq Trials
    <3>1. ASSUME NEW c \in Callers, AllowRequest(c) PROVE Trials' \subseteq Trials
      BY <1>2, <3>1 DEF AllowRequest, Admitted, Rejected, Trials, TypeOK
    <3>2. ASSUME NEW c \in Callers, OnSuccess(c) \/ OnFailure(c) PROVE Trials' \subseteq Trials
      BY <3>2 DEF OnSuccess, OnFailure, Trials, TypeOK
    <3>3. CASE ResetTimeoutElapses \/ UNCHANGED vars
      BY <3>3 DEF ResetTimeoutElapses, vars, Trials
    <3> QED
      BY <3>1, <3>2, <3>3 DEF Next
  <2>2. /\ Cardinality(Trials') <= Cardinality(Trials)
        /\ Cardinality(Trials') \in Nat /\ Cardinality(Trials) \in Nat
    BY <2>1, TrialsFinite, FS_Subset, FS_CardinalityType
  <2> QED
    BY <2>2 DEF TrialLimit, Trials
<1> QED
  BY <1>1, <1>2

\* If the reset timeout exceeds the time a call can take, then at most
\* halfOpenTrialRequests_ trials are ever unresolved, as the header says.
THEOREM SlowResetLimitsTrials ==
  ASSUME ResetTimeout > CallTimeout
  PROVE  TimedSpec => []TrialLimit
<1>1. Init => TrialLimit
  <2>1. ASSUME Init PROVE {c \in Callers : call[c] = "trial"} = {}
    BY <2>1 DEF Init
  <2>2. Cardinality({}) = 0
    BY FS_EmptySet
  <2> QED
    BY <2>1, <2>2, BreakerAssumption DEF TrialLimit
<1>2. BreakerInv /\ TimingInv => (breaker.state = "HalfOpen" => late = {})
  BY NoLateCallInHalfOpen DEF BreakerInv
<1>3. /\ BreakerInv /\ BreakerInv' /\ [Next]_vars /\ TrialLimit
      /\ (breaker.state = "HalfOpen" => late = {})'
      => TrialLimit'
  BY StepKeepsTrialLimit
<1> QED
  BY <1>1, <1>2, <1>3, TimedSpecKeepsInv, TimedImplementsUntimed, PTL DEF Spec

\* Under the same condition the breaker is closed only by a trial of the
\* half-open period it closes.
THEOREM SlowResetClosedByTrial ==
  ASSUME ResetTimeout > CallTimeout
  PROVE  TimedSpec => ClosedByTrial
<1> DEFINE Step == breaker.state = "HalfOpen" /\ breaker'.state = "Closed" =>
                     \E c \in CurrentTrials : call'[c] = "none"
<1>1. ASSUME BreakerInv, TimingInv, [TimedNext]_timedVars PROVE [Step]_timedVars
  <2> SUFFICES ASSUME TimedNext, breaker.state = "HalfOpen", breaker'.state = "Closed"
               PROVE  \E c \in CurrentTrials : call'[c] = "none"
    BY <1>1
  <2>0. late = {} /\ \A c \in Outstanding : call[c] = "trial"
    BY <1>1, NoLateCallInHalfOpen DEF BreakerInv
  <2>1. ASSUME NEW c \in Callers, TimedAllowRequest(c) PROVE FALSE
    BY <1>1, <2>1 DEF TimedAllowRequest, AllowRequest, AfterAllow, Enter, BreakerInv, TypeOK, Breaker
  <2>2. ASSUME NEW c \in Callers, TimedOnFailure(c) PROVE FALSE
    BY <1>1, <2>2 DEF TimedOnFailure, OnFailure, AfterFailure, Trips, Tripped
  <2>3. ~Tick
    BY DEF Tick
  <2>4. PICK c \in Callers : TimedOnSuccess(c)
    BY <2>1, <2>2, <2>3 DEF TimedNext
  <2>5. c \in CurrentTrials
    BY <2>0, <2>4 DEF TimedOnSuccess, OnSuccess, Outstanding, CurrentTrials
  <2>6. call'[c] = "none"
    BY <1>1, <2>4 DEF TimedOnSuccess, OnSuccess, BreakerInv, TypeOK
  <2> QED
    BY <2>5, <2>6
<1> QED
  BY <1>1, TimedSpecKeepsInv, PTL DEF TimedSpec, ClosedByTrial
=============================================================================
