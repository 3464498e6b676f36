CONSTANTS
  r1 = r1
  r2 = r2
  Requests <- MCRequests
  MaxCircuits = 2
  RequestTimeout = 1
  DrainTimeout = 2
  ShutdownTimeout = 1
SPECIFICATION Spec
INVARIANT AllClosedAtExit
