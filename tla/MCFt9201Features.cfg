SPECIFICATION Spec
CONSTANTS
  Work <- MCWork
  BoxRadius = 2
  Narrow <- MCNarrow
  Wide <- MCWide
  KP_MIN_CONTRAST = 2
  KP_MAX = 3
  Step = 1
  Border = 1
  RANSAC_TOL_PX = 2
  MinLength = 2
INVARIANTS
  BoxIsWindowSum
  TurnedFrameHasTurnedKeypoints
  ScoreSurvivesMotion
  EveryMotionFitsItsPairs
  RepeatedTextureScoresNothing
CHECK_DEADLOCK FALSE
