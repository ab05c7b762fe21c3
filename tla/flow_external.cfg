SPECIFICATION FairSpec
CONSTANTS
  Last = 3
  DataCnt = 2
  FirstMode = "EXTERNAL"
  NextIdx = 1
  Statuses = {"ok", "skip", "quit"}
INVARIANTS TypeOK MailboxHandshake ChildHandshake NobodyStuck
PROPERTIES ImplementsConveyor EveryChunkReturnsIfChildrenStay
CHECK_DEADLOCK FALSE
