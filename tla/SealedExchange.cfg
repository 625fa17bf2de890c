\* Two requests, two ids of one private key, up to three answers of up to
\* three frames: the request can be answered twice around a restart, and
\* another request's answer has frames to mix in.  Answers end and the bounds
\* are reached, so the system stops.
SPECIFICATION Spec
CONSTANTS
  Requests = {"r1", "r2"}
  mine = "r1"
  KeyIds = {"k1", "k2"}
  exitKeyId = "k1"
  MaxAnswers = 3
  MaxFrames = 3
  MaxRestarts = 1
CHECK_DEADLOCK FALSE
INVARIANTS
  AnswersForTheirSender
  AnsweredOncePerClaim
  OpenedFromOneAnswer
  OnlySealedFramesOpen
  NextFrameOpens
