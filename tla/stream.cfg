SPECIFICATION FairSpec
CONSTANTS
  Own = own
  Others = {other}
  HeaderSize = 2
  RawSize = 2
  SizeMod = 8
  DataCnt = 2
  Room = 2
  ObjectFrames = 1
  EmptyFrames = 1
  MayFail = TRUE
INVARIANTS FramesAreWhole GivenIsSealed
PROPERTIES DestroyEnds
CHECK_DEADLOCK FALSE
