CHECK_DEADLOCK FALSE
SPECIFICATION DetectSpec
CONSTANTS
  Scenes <- MCScenes
  NetSize = 8
  ImageWidth = 16
  ImageHeight = 32
  ConfThreshold = 2
  NmsThreshold = 45
  MaxObjNum = 2
  MaxFailures = 1
  MaxQueue = 1
  StableRounds = 2
  MaxRounds = 3
  PlaneSizes = {1, 2}
  MaxFrames = 3
INVARIANTS EncodedAsShown DetectionsSuppressed StopDrains NothingKept
PROPERTIES JoinReturns
