\* Responses of up to three data frames of one unit or two: three short frames
\* exceed the frame limit, three long ones the byte limit.  One request ends,
\* so the system stops.
SPECIFICATION FairSpec
CONSTANTS
  maxResponseFrames = 4
  maxResponseBytes = 5
  MaxDataFrames = 3
  MaxFrameBytes = 2
CHECK_DEADLOCK FALSE
INVARIANTS
  TypeOK
  LimitsAloneRefuse
  DeliveredInOrder
  CleanEndIsComplete
  StreamEndStopsUpstream
  UpstreamUnderDeadline
PROPERTIES
  UpstreamSettles
