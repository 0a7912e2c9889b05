SPECIFICATION Spec
CONSTANTS
  b1 = b1
  b2 = b2
  b3 = b3
  Blocks <- ThreeBlocks
  Registered <- AllButWifi
  FlagSets <- SomeFlags
  SvReports <- SomeSvReports
  NiRequests <- SomeNiRequests
  SV_ID_RANGE = 2
  BDS_SV_ID_RANGE = 2
  GPS_MAX_SVS = 3
  MaxInputs = 2
INVARIANT
  NiAnswerMatches
  DeletesWhatWasAsked
  SuccessMeansDone
  AnswersReachCallers
PROPERTY
  SvReportIsFaithful
SYMMETRY Symmetry
CHECK_DEADLOCK FALSE
