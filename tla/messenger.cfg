SPECIFICATION FairSpec
CONSTANTS
  MaxConns = 2
  MaxLines = 5
  Lines <- MCLines
  Room = 4
  MayFail = TRUE
  MayLeaveEarly = FALSE
INVARIANTS MessageIsFirstLine
PROPERTIES CorruptNeedsClose QuitEndsClient StopEndsServer
CHECK_DEADLOCK FALSE
