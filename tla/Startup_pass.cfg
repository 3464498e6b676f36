CONSTANTS
  TLDs <- MCTLDs
  Kind <- MCKind
  DefaultRPCs <- MCDefaultRPCs
  Durations <- MCDurations
  ADNLAddressSize = 1
  MaxInt = 1023
  jitterPercent = 30
  Inputs <- MCInputs
  Records <- MCRecords
  Randoms <- MCRandoms
SPECIFICATION FairSpec
INVARIANTS OneSharedClient OverrideHonoured AllReported DelayBounds
  NoSilentDirect RotationHasDirectory CleanShutdown RecordExact
PROPERTIES StartupEnds SignalEnds
