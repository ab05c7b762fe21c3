SPECIFICATION FairSpec
CONSTANTS
  old = old
  new = new
  Servers = {old, new}
  Config <- MCConfig
  ProcessInfoSize = 416
  DescMaxLen = 16384
  DescLens <- MCDescLens
  MayFail = TRUE
INVARIANTS NeverOlder TroubleNeedsDisturbance ZonesApart
PROPERTIES ComesUp
CHECK_DEADLOCK FALSE
