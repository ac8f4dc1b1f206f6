\* Three callers and two trial slots: trials, late calls and rejected calls
\* coexist. The reset timeout exceeds every call's duration, as with the
\* default configuration (10 s against 1 s + 3 s + 3 s).
CONSTANTS
  Callers = {c1, c2, c3}
  FailureThreshold = 2
  HalfOpenTrialRequests = 2
  ResetTimeout = 3
  CallTimeout = 2
  MaxTime = 10
SPECIFICATION TimedFairSpec
INVARIANTS TypeOK TrialAccounting OpenAdmitsNothing TrialLimit OpenExtensionBounded
PROPERTIES NeverSkipsHalfOpen Recovers Spec ClosedByTrial
