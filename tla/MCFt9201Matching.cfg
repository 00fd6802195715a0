SPECIFICATION Spec
CONSTANTS
  Pixel = {0, 1}
  Dimensions <- MCDimensions
  ft9201_match_pair <- MCMatchPair
  ForeignPrint <- MCForeignPrint
  Environment <- MCEnvironment
  MATCH_THRESHOLD = 8
  MATCH_THRESHOLD_MIN = 1
  MATCH_THRESHOLD_MAX = 100
  ENROLL_STAGES = 2
  MaxPrints = 2
INVARIANTS
  TypeOK
  EnrolledFramesSurvive
  VerifyNeedsTwoFrames
  IdentifyAgreesWithVerify
  IdentifyFindsTheBest
