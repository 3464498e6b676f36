CONSTANTS
  Relays <- MCRelays
  maxRetries = 3
SPECIFICATION FairSpec
INVARIANTS OnionOrder NoOrphanSessions
PROPERTY BuildEnds
