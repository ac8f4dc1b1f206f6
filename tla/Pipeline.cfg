CONSTANTS
  Workers = {w1, w2}
  Files <- MCFiles
  Requests <- MCRequests
  Statuses = {0, 200, 502}
  BuiltIn <- MCBuiltIn
  Keys <- MCKeys
  Values <- MCValues
  Capacity = 2
  Ttl = 1
  MaxCall = 1
  MaxRequests <- MCMaxRequests
  MaxTime = 3
SPECIFICATION Spec
SYMMETRY WorkerSymmetry
CHECK_DEADLOCK FALSE
INVARIANTS LoadedAsWritten ServedAsConfigured CacheConsistent CountersAgree
PROPERTIES HitIsFresh 
