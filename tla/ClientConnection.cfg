CONSTANTS
  MaxRequests = 3
  ReadSize = 3
  SendBuffer = 1
  MaxHeaders = 2
  MaxBody = 1
SPECIFICATION FairSpec
INVARIANTS OneResponseEachInOrder EndingRequestCloses
PROPERTIES ResponsesAreDelivered SilentClientIsReaped
