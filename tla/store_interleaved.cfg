SPECIFICATION Spec
CONSTANTS
  w1 = w1
  w2 = w2
  a1 = a1
  a2 = a2
  Workers = {w1, w2}
  Agents = {a1, a2}
  Verdicts = {"SAFE", "BLOCK"}
  NoRow = NoRow
  MaxTime = 1
  MaxRows = 4
INVARIANT TypeOK
INVARIANT HonestTransitions
INVARIANT SerialAgentsAnnounced
INVARIANT ChangesLeadToLatest
INVARIANT BoardLagIsAnnounced
SYMMETRY Symmetry
CHECK_DEADLOCK FALSE
