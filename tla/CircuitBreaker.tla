--------------------------- MODULE CircuitBreaker ---------------------------
(***************************************************************************)
(* The per-backend circuit breaker, include/resilience/CircuitBreaker.hpp. *)
(*                                                                         *)
(* Every method takes mu_ for its whole body, so each is one atomic step.  *)
(* The methods are written as operators on a breaker record, so that       *)
(* Forwarding can keep one record per backend; the state machine below     *)
(* drives one breaker with callers that do what forwardWithResilience      *)
(* does: ask allowRequest, and report exactly one onSuccess or onFailure   *)
(* for each call that was admitted.                                        *)
(*                                                                         *)
(* The clock is abstracted to the one comparison the code makes:           *)
(* resetElapsed is the value of  now - openedAt_ >= resetTimeout_.         *)
(* BreakerTiming puts the clock back and implements this module.           *)
(***************************************************************************)
EXTENDS Integers, FiniteSets

CONSTANTS
  Callers,               \* the worker threads
  FailureThreshold,      \* failureThreshold_: any integer, Config.cpp does not validate it
  HalfOpenTrialRequests  \* halfOpenTrialRequests_: buildRouter leaves the default, 1

ASSUME BreakerAssumption ==
  /\ IsFiniteSet(Callers)
  /\ FailureThreshold \in Int
  /\ HalfOpenTrialRequests \in Nat \ {0}

VARIABLES
  breaker,       \* state_, consecutiveFailures_ and halfOpenInFlight_
  resetElapsed,  \* now - openedAt_ >= resetTimeout_
  call,          \* history: how each caller's outstanding call was admitted
  late           \* history: callers admitted before the last change of state_

vars == <<breaker, resetElapsed, call, late>>

-----------------------------------------------------------------------------
(* The methods, as functions of the breaker record.                        *)

Breaker == [state : {"Closed", "Open", "HalfOpen"}, failures : Nat, inFlight : Nat]

Fresh == [state |-> "Closed", failures |-> 0, inFlight |-> 0]

\* allowRequest, lines 34-42: an Open breaker whose timeout has elapsed
\* becomes HalfOpen with no trial in flight.
Enter(cb, elapsed) ==
  IF cb.state = "Open" /\ elapsed
  THEN [cb EXCEPT !.state = "HalfOpen", !.inFlight = 0]
  ELSE cb

\* Mutant: the call that finds the timeout elapsed is turned away.
MutAdmitsBeforeEntering(cb, elapsed) ==
  cb.state = "Closed" \/ (cb.state = "HalfOpen" /\ cb.inFlight < HalfOpenTrialRequests)

\* Mutant: an Open breaker does not return false early.
MutOpenAdmits(cb, elapsed) ==
  Enter(cb, elapsed).state # "HalfOpen" \/ Enter(cb, elapsed).inFlight < HalfOpenTrialRequests

\* The value allowRequest returns.
Admits(cb, elapsed) ==
  LET e == Enter(cb, elapsed)
  IN  \/ e.state = "Closed"
      \/ e.state = "HalfOpen" /\ e.inFlight < HalfOpenTrialRequests

\* Mutant: a trial takes no slot.
MutAllowWithoutSlot(cb, elapsed) == Enter(cb, elapsed)

\* The breaker allowRequest leaves behind.
AfterAllow(cb, elapsed) ==
  LET e == Enter(cb, elapsed)
  IN  IF e.state = "HalfOpen" /\ e.inFlight < HalfOpenTrialRequests
      THEN [e EXCEPT !.inFlight = @ + 1]
      ELSE e

\* Mutant: closing keeps the trial slots taken.
MutSuccessKeepsSlots(cb) ==
  [cb EXCEPT !.failures = 0, !.state = IF @ = "HalfOpen" THEN "Closed" ELSE @]

\* Mutant: every success gives a slot back, also one that took none.
MutSuccessReturnsSlot(cb) ==
  [state |-> IF cb.state = "HalfOpen" THEN "Closed" ELSE cb.state,
   failures |-> 0, inFlight |-> cb.inFlight - 1]

\* Mutant: any success closes the breaker.
MutSuccessAlwaysCloses(cb) == Fresh

\* Mutant: a success only resets the failure count.
MutSuccessNeverCloses(cb) == [cb EXCEPT !.failures = 0]

AfterSuccess(cb) ==
  IF cb.state = "HalfOpen"
  THEN Fresh
  ELSE [cb EXCEPT !.failures = 0]

Tripped == [state |-> "Open", failures |-> 0, inFlight |-> 0]

\* Whether onFailure calls trip(), which also stamps openedAt_.
Trips(cb) == cb.state = "HalfOpen" \/ cb.failures + 1 >= FailureThreshold

AfterFailure(cb) ==
  IF Trips(cb) THEN Tripped ELSE [cb EXCEPT !.failures = @ + 1]

-----------------------------------------------------------------------------
(* One breaker and its callers.                                            *)

Outstanding == {c \in Callers : call[c] # "none"}

\* Trials of the half-open period that is still running.
CurrentTrials == {c \in Callers \ late : call[c] = "trial"}

Init ==
  /\ breaker = Fresh
  /\ resetElapsed \in BOOLEAN      \* openedAt_ is the clock's epoch; not read while Closed
  /\ call = [c \in Callers |-> "none"]
  /\ late = {}

\* A change of state_ makes every call that was already outstanding late.
MarkLate(cb, outstanding) ==
  late' = IF cb.state # breaker.state THEN outstanding ELSE late \cap outstanding

Admitted(c) ==
  /\ Admits(breaker, resetElapsed)
  /\ call' = [call EXCEPT
       ![c] = IF AfterAllow(breaker, resetElapsed).state = "HalfOpen" THEN "trial" ELSE "normal"]

Rejected(c) ==
  /\ ~Admits(breaker, resetElapsed)
  /\ UNCHANGED call

AllowRequest(c) ==
  /\ call[c] = "none"
  /\ Admitted(c) \/ Rejected(c)
  /\ breaker' = AfterAllow(breaker, resetElapsed)
  /\ MarkLate(AfterAllow(breaker, resetElapsed), Outstanding)
  /\ UNCHANGED resetElapsed

OnSuccess(c) ==
  /\ call[c] # "none"
  /\ breaker' = AfterSuccess(breaker)
  /\ call' = [call EXCEPT ![c] = "none"]
  /\ MarkLate(AfterSuccess(breaker), Outstanding \ {c})
  /\ UNCHANGED resetElapsed

OnFailure(c) ==
  /\ call[c] # "none"
  /\ breaker' = AfterFailure(breaker)
  /\ call' = [call EXCEPT ![c] = "none"]
  /\ MarkLate(AfterFailure(breaker), Outstanding \ {c})
  /\ IF Trips(breaker)
     THEN resetElapsed' \in BOOLEAN  \* TRUE at once when resetTimeout_ <= 0
     ELSE UNCHANGED resetElapsed

\* The clock passes openedAt_ + resetTimeout_.
ResetTimeoutElapses ==
  /\ ~resetElapsed
  /\ resetElapsed' = TRUE
  /\ UNCHANGED <<breaker, call, late>>

Next ==
  \/ \E c \in Callers : AllowRequest(c) \/ OnSuccess(c) \/ OnFailure(c)
  \/ ResetTimeoutElapses

Spec == Init /\ [][Next]_vars

-----------------------------------------------------------------------------
TypeOK ==
  /\ breaker \in Breaker
  /\ resetElapsed \in BOOLEAN
  /\ call \in [Callers -> {"none", "normal", "trial"}]
  /\ late \subseteq Outstanding

\* A half-open breaker never loses or invents a trial slot: halfOpenInFlight_
\* is exactly the number of trials of the current half-open period whose
\* result is still due, it is at least 1 and at most halfOpenTrialRequests_.
\* So a half-open breaker always has a result coming that will move it.
TrialAccounting ==
  breaker.state = "HalfOpen" =>
    /\ breaker.inFlight = Cardinality(CurrentTrials)
    /\ breaker.inFlight \in 1 .. HalfOpenTrialRequests

\* Outside HalfOpen the slot counter is 0, and while Open no call that the
\* present period admitted is outstanding: whatever result arrives then
\* belongs to a call made before the breaker opened.
OpenAdmitsNothing ==
  /\ breaker.state # "HalfOpen" => breaker.inFlight = 0
  /\ breaker.state = "Open" => Outstanding = late

\* The way back from Open leads through HalfOpen: no success, however late,
\* closes an Open breaker directly, and a Closed breaker never goes on trial.
NeverSkipsHalfOpen ==
  [][/\ breaker.state = "Open" => breaker'.state # "Closed"
     /\ breaker.state = "Closed" => breaker'.state # "HalfOpen"]_vars

\* When calls stop failing, requests keep coming to this backend and the reset
\* timeout runs out, the breaker closes and stays closed.
Recovers ==
  /\ \A c \in Callers : WF_vars(AllowRequest(c))
  /\ <>[][\A c \in Callers : ~OnFailure(c)]_vars
  /\ []<>resetElapsed
  => <>[](breaker.state = "Closed")
=============================================================================
