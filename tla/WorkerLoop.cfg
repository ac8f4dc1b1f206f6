CONSTANTS
  Workers = {w1, w2}
  Clients = {c1, c2, c3}
  Fds = {4, 5}
  Listener = 3
  Free = Free
SPECIFICATION FairSpec
INVARIANTS EventsReachTheirConnection TablesAgree
PROPERTY WaitersAreAccepted
