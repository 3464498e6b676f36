CONSTANTS
  r1 = r1
  r2 = r2
  r3 = r3
  Requests <- MCRequests
  IdSpace = 3
  MaxCopies <- MCCopies
  RecvCap = 2
SYMMETRY Symmetry
SPECIFICATION Spec
INVARIANTS TypeOK OpenMeansConfirmed PendingOwned OneSlotEnough
PROPERTY ImplementsClient
