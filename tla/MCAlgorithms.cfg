\* Bodies of up to five bytes in chunks of up to three, limits of three and two: a
\* chunk may hold several lines, and a line may take several chunks.
SPECIFICATION Spec
CONSTANTS
  maxBytes = 3
  maxLineBytes = 2
  MaxBodyBytes = 5
  MaxReadBytes = 3
  MaxPushBytes = 3
  MaxQueued = 7
  allowedModels = {"m1"}
  MaxDepth = 8
CHECK_DEADLOCK FALSE
INVARIANTS
  ChunksDoNotMatter
  BytesInOrder
  SanitizedAsListed
