CONSTANTS
  r1 = r1
  r2 = r2
  Requests <- MCRequests
  MaxCircuits = 3
  RequestTimeout = 1
  DrainTimeout = 2
  ShutdownTimeout = 1
SPECIFICATION FairSpec
INVARIANTS TypeOK WaitGroupCounts RotationNeverClosesInUse ReplacedAreDrained
PROPERTIES NoLateJoin RefinesLease DrainTerminates SignalTerminates
