CONSTANTS
  Threads = {t1, t2, t3}
  Keys = {k1, k2}
  Sockets = {s1, s2, s3, s4, s5}
  MaxIdle = 2
  NoSocket = NoSocket
  NoKey = NoKey
SPECIFICATION Spec
SYMMETRY PoolSymmetry
INVARIANTS ExactlyOneOwner ConnectedToItsBackend BoundedAndDrained
