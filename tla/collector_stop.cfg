SPECIFICATION FairSpec
CONSTANTS
  SourcesCnt = 2
  FrameLimit = 2
  MaxObjects = 3
  MayDetect = FALSE
  MayFail = FALSE
  MayDestroy = TRUE
PROPERTIES CollectorStopsSources
CHECK_DEADLOCK FALSE
