SPECIFICATION Spec
CONSTANTS
  Miners = {m1, m2}
  Forms <- TwoForms
  MaxVersion = 3
  MaxMishaps = 3
  NoRecord = NoRecord
  Absent = Absent
  Torn = Torn
  NoMiner = NoMiner
INVARIANTS TypeOK FileIsLatest ServedIsLatest OneTornPerMishap PiecesMatchFile
CHECK_DEADLOCK FALSE
