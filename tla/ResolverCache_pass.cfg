CONSTANTS
  d1 = d1
  d2 = d2
  d3 = d3
  d4 = d4
  r1 = r1
  r2 = r2
  Domains <- MCDomains
  Requests <- MCRequests
  maxCacheEntries = 2
  TTL = 2
  StoreDelay = 1
SYMMETRY Symmetry
SPECIFICATION Spec
INVARIANTS AtMostOneOver Fresh
PROPERTIES EvictsOldest CachedForTTL
