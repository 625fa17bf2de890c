SPECIFICATION Spec
CONSTANTS
  k1 = k1
  k2 = k2
  k3 = k3
  f1 = f1
  f2 = f2
  Keys <- MCKeys
  Fibers <- MCFibers
  ttlMs = 2
  maxEntries = 2
  MaxClock = 4
SYMMETRY Symmetry
INVARIANTS
  TypeOK
  OnlyLiveKeysInOrder
PROPERTY KeepsReplayWindow
