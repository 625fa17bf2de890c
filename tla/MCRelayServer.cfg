SPECIFICATION FairSpec
CONSTANTS
  r1 = r1
  r2 = r2
  r3 = r3
  t1 = t1
  t2 = t2
  i1 = i1
  Requests <- MCRequests
  Tenants <- MCTenants
  RequestIds <- MCRequestIds
  KeyOf <- MCKeyOf
  maxConcurrentRequests = 2
  ttlMs = 1
  maxEntries = 1
  maxEntriesPerTenant = 1
  MaxClock = 1
INVARIANTS
  TypeOK
  PermitsAccountedFor
  OpenExchangeHasDeadline
PROPERTIES
  ForwardedOncePerWindow
  RequestsSettle
