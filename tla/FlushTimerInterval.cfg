\* Payloads of four bytes, chunks of one to five, intervals of two: a payload
\* can take up to three restarts of the timer.  The clock stops at twelve.
SPECIFICATION TimerSpec
CONSTANTS
  responseFlushMs = 2
  maxFramePayloadBytes = 4
  MaxChunkBytes = 5
  MaxTime = 12
INVARIANTS
  PartialPayloadAfterInterval
