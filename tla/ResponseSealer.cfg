\* Payloads of three bytes, a limit of seven, bodies of up to eight and chunks
\* of up to four: chunks smaller and larger than a payload, bodies within and
\* over the limit, partial payloads.  One response ends, so the system stops.
SPECIFICATION FairSpec
CONSTANTS
  maxFramePayloadBytes = 3
  maxResponseBytes = 7
  MaxBodyBytes = 8
  MaxChunkBytes = 4
CHECK_DEADLOCK FALSE
INVARIANTS
  TypeOK
  FramesInOrder
  FinalFrameIsTruthful
PROPERTIES
  SourceReleased
  SlowStreamFlushed
