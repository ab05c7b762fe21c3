SPECIFICATION FairSpec
CONSTANTS
  Last = 3
  FirstModes <- MCFirstModes
  MayLackName = {}
  ProcMax = 10
  MaxPipelines = 2
  Patient = TRUE
INVARIANTS LiveMeansComplete
CHECK_DEADLOCK FALSE
