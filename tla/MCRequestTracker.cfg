SPECIFICATION Spec
CONSTANTS
  t1 = t1
  t2 = t2
  i1 = i1
  i2 = i2
  i3 = i3
  Tenants <- MCTenants
  RequestIds <- MCRequestIds
  ttlMs = 2
  maxEntries = 3
  maxEntriesPerTenant = 2
  MaxClock = 4
SYMMETRY Symmetry
INVARIANTS
  TypeOK
  OnlyLiveKeysInOrder
  CountsMatchEntries
PROPERTY KeepsReplayWindow
