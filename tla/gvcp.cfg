SPECIFICATION FairSpec
CONSTANTS
  Interfaces <- MCInterfaces
  Answers <- MCAnswers
  Wanted <- MCWanted
  MaxAnswers = 2
  MayFail = TRUE
  CameraSizes = {0, 1500, 9000}
  MaxWatches = 2
  MaxFaults = 2
INVARIANTS AnsweredInTimeIsFound
PROPERTIES PunctualAnswersMatch DestroyEndsSource
CHECK_DEADLOCK FALSE
