SPECIFICATION SerialSpec
CONSTANTS
  w1 = w1
  w2 = w2
  a1 = a1
  a2 = a2
  Workers = {w1, w2}
  Agents = {a1, a2}
  Verdicts = {"SAFE", "CAUTION", "BLOCK"}
  NoRow = NoRow
  MaxTime = 1
  MaxRows = 4
PROPERTY LedgerSpec
CHECK_DEADLOCK FALSE
