\* Each process runs once, so the system stops when all have ended.
SPECIFICATION FairLocalSpec
CONSTANTS
  p1 = p1
  p2 = p2
  p3 = p3
  Old = Old
  Processes <- MCProcesses
  ProcessKinds <- MCKinds
  Services <- MCServices
CHECK_DEADLOCK FALSE
INVARIANTS
  ServesOnePair
PROPERTIES
  FailureStopsStack
