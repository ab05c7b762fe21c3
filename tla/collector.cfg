SPECIFICATION FairSpec
CONSTANTS
  SourcesCnt = 2
  FrameLimit = 2
  MaxObjects = 3
  MayDetect = TRUE
  MayFail = TRUE
  MayDestroy = TRUE
INVARIANTS SourcesAligned HandedIsFilled
PROPERTIES HandedIsSealed EveryObjectIsHanded
CHECK_DEADLOCK FALSE
