CONSTANTS
  w1 = w1
  w2 = w2
  Workers = {w1, w2}
  N = 2
  Deployments <- LeastConnections
  Sockets = {s1}
  NoSocket = NoSocket
  MaxIdle = 1
  MaxRetries = 1
  FailureThreshold = 2
  HalfOpenTrialRequests = 1
SPECIFICATION FFSpec
PROPERTY SiblingServes
