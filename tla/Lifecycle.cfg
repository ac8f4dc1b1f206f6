CONSTANTS
  Workers = {q1, q2}
  Backends = 1
SPECIFICATION FairSpec
INVARIANTS ReturnsQuiescent HandlerJoinsOnce
PROPERTY StopEndsRun
