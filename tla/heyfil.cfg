SPECIFICATION FairProcessSpec
CONSTANTS
  m1 = m1
  c1 = c1
  NoTarget = NoTarget
  Miners <- OneMiner
  Reachable <- Nobody
  Hung <- Nobody
  Checkers <- OneChecker
  ToCheckCap = 1
  CheckedCap = 1
  MaxRounds = 1
INVARIANTS ProcessTypeOK AnswerIsOfOneCheck ListedIsFound ShutdownClosesAll
PROPERTIES PipelineSpec StopEnds
CHECK_DEADLOCK FALSE
