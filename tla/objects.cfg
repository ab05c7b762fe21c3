SPECIFICATION FairSpec
CONSTANTS
  Last = 4
  DataCnt = 3
  MaxObjects = 5
  MayLack = {0, 1, 3}
INVARIANTS UsedIsAlive NothingLeaks
PROPERTIES HandedIsFreed
CHECK_DEADLOCK FALSE
