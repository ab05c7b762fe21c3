SPECIFICATION FairSpec
CONSTANTS
  Last = 3
  FirstModes <- MCFirstModes
  MayLackName = {0, 2}
  ProcMax = 10
  MaxPipelines = 3
  Patient = TRUE
INVARIANTS NothingOutlivesPipeline OwnTableEntry MailboxesUsable CommandReaches
PROPERTIES FailedStartIsFreed StopFreesMemory
CHECK_DEADLOCK FALSE
