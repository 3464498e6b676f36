CONSTANTS
  r1 = r1
  r2 = r2
  r3 = r3
  Requests <- MCRequests
  IdSpace = 3
SPECIFICATION FairSpec
INVARIANT NothingLeft
PROPERTIES CloseTerminates CloseWaits ImplementsClient
