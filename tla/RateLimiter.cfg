\* Two threads and a clock that runs far enough for a reading to be older than
\* the bucket by more than a token's worth of refill.
CONSTANTS
  Threads = {t1, t2}
  Keys = {k1, k2}
  Capacity = 5
  RefillPerTick = 1
  Cost = 2
  MaxTime = 4
SPECIFICATION Spec
INVARIANTS TokensConserved RateBound
PROPERTY NoEarlyRefusal
