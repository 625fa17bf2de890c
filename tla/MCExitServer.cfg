SPECIFICATION FairSpec
CONSTANTS
  r1 = r1
  r2 = r2
  r3 = r3
  k1 = k1
  k2 = k2
  Requests <- MCRequests
  ReplayKeys <- MCReplayKeys
  KeyOf <- MCKeyOf
  replayTtlMs = 1
  replayMaxEntries = 1
  MaxClock = 1
INVARIANTS
  OpenExchangeHasDeadline
PROPERTIES
  CalledOncePerWindow
  RequestsSettle
