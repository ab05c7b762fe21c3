SPECIFICATION FairSpec
CONSTANTS
  Frames = 3
  Blocks = 2
  FrameLimit = 2
  QueueMax = 2
  Faults = {"lose", "error", "duplicate", "reorder"}
  MaxFaults = 2
  MayStop = TRUE
INVARIANTS FramesNotMixed CompleteIfIntact
PROPERTIES FrameIsGiven DestroyReturns
CHECK_DEADLOCK FALSE
