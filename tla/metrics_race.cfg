SPECIFICATION Spec
CONSTANTS
  m1 = m1
  m2 = m2
  Miners <- TwoMiners
  Statuses <- ThreeStatuses
  Names <- TwoNames
  Records <- FourRecords
  FirstMaps <- SomeMaps
  LaterMaps <- TwoMaps
  MaxSnapshots = 2
  NoTarget = NoTarget
  NoNumber = NoNumber
INVARIANT ScrapesAreSafe
CHECK_DEADLOCK FALSE
