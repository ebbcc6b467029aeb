SPECIFICATION FairSpec
CONSTANTS
  m1 = m1
  m2 = m2
  c1 = c1
  c2 = c2
  NoTarget = NoTarget
  Miners <- TwoMiners
  Reachable <- Nobody
  Hung <- Nobody
  Checkers <- TwoCheckers
  ToCheckCap = 1
  CheckedCap = 1
  MaxRounds = 1
PROPERTIES EveryCheckRecorded ResultsReported TicksServed
CHECK_DEADLOCK FALSE
