SPECIFICATION HistoryFairSpec
CONSTANTS
  Reply <- MCReply
  Picture <- MCPicture
  p1 = p1
  p2 = p2
  NoFrame = NoFrame
  Dimensions <- MCDimensions
  REARM_MAX_RETRY = 2
  KEEPALIVE_POLLS = 3
  SPURIOUS_MAX_POLLS = 2
  ENROLL_STAGES = 3
INVARIANTS
  TypeOK
  NothingOutlivesAnAction
  FrameDoneHasItsFrame
  AnnouncedIsRead
  GoodFramesAreUsedOnce
  ResultsAreFromThisAction
  RenewedInTime
  PollsOnlyAnArmedSensor
  PromptedForEachStage
PROPERTIES
  FrameIsUsed
  CancelEndsTheAction
