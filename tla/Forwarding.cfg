CONSTANTS
  w1 = w1
  w2 = w2
  Workers = {w1, w2}
  N = 2
  Deployments <- MCDeployments
  Sockets = {s1}
  NoSocket = NoSocket
  MaxIdle = 1
  MaxRetries = 1
  FailureThreshold = 1
  HalfOpenTrialRequests = 1
SPECIFICATION FFFairSpec
INVARIANTS BooksBalance NoStaleAnswer
PROPERTIES UsesPoolCorrectly UsesBreakersCorrectly HalfOpenResolves EveryRequestAnswered
