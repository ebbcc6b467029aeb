SPECIFICATION Spec
CONSTANTS
  m1 = m1
  m2 = m2
  c1 = c1
  c2 = c2
  NoTarget = NoTarget
  Miners <- OneMiner
  Reachable <- OneMiner
  Hung <- Nobody
  Checkers <- TwoCheckers
  ToCheckCap = 2
  CheckedCap = 2
  MaxRounds = 4
SYMMETRY CheckerSymmetry
INVARIANTS TypeOK SingleOwner PublishedIsFinal CheckedOnce NoOlderWaiting OvertakenBounded
PROPERTY LedgerSpec
CHECK_DEADLOCK FALSE
