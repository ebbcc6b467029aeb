SPECIFICATION FairSpec
CONSTANTS
  m1 = m1
  m2 = m2
  c1 = c1
  c2 = c2
  NoTarget = NoTarget
  Miners <- TwoMiners
  Reachable <- OneMiner
  Hung <- SecondMiner
  Checkers <- OneChecker
  ToCheckCap = 1
  CheckedCap = 1
  MaxRounds = 1
PROPERTY EveryCheckRecorded
CHECK_DEADLOCK FALSE
