SPECIFICATION FairSpec
CONSTANTS
  Last = 3
  DataCnt = 2
  FirstMode = "INTERNAL"
  NextIdx = 1
  Statuses = {"ok", "skip", "quit"}
INVARIANTS StopDrainsBehind
PROPERTIES StopIsLast StopEndsThreadsIfChildrenStay
CHECK_DEADLOCK FALSE
