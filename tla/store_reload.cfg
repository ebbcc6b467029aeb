SPECIFICATION Spec
CONSTANTS
  Miners = {m1}
  Forms <- AllForms
  MaxVersion = 1
  MaxMishaps = 1
  NoRecord = NoRecord
  Absent = Absent
  Torn = Torn
  NoMiner = NoMiner
PROPERTY StoredIsReloaded
CHECK_DEADLOCK FALSE
