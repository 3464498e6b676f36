CONSTANTS
  s1 = s1
  s2 = s2
  Streams <- MCStreams
  Wire <- MCWire
  Copies <- MCCopies
  maxChunkCount = 3
  maxChunkTotalSize = 3
  AssemblyTimeout = 1
SPECIFICATION FairSpec
INVARIANTS Intact SizeBounded NoLeftover OwnChunksOnly
PROPERTIES EventuallyDelivered
