CONSTANTS
  TLDs <- MCTLDs
  Kind <- MCKind
  DefaultRPCs <- MCDefaultRPCs
  Durations <- MCDurations
  ADNLAddressSize = 1
  MaxInt = 1023
  jitterPercent = 30
  Inputs <- MCInputs
  Records <- MCRecords
  Randoms <- MCRandoms
SPECIFICATION Spec
INVARIANT PlusMinusJitter
