CHECK_DEADLOCK FALSE
SPECIFICATION FairSpec
CONSTANTS
  Configs <- MCConfigs
  MinCount = 1
  t1 = t1
  t2 = t2
INVARIANTS Accounted
PROPERTIES RefusedOnlyWhenFull ClosedIsReleased
