SPECIFICATION LiveSpec
CONSTANTS
  w1 = w1
  w2 = w2
  a1 = a1
  a2 = a2
  o1 = o1
  o2 = o2
  e1 = e1
  e2 = e2
  Workers = {w1, w2}
  Agents = {a1, a2}
  Owners = {o1, o2}
  Endpoints = {e1, e2}
  NoEndpoint = NoEndpoint
  NoOwner = NoOwner
  NoRow = NoRow
  NoJob = NoJob
  Lives <- SomeLives
  MIN_SAMPLES = 2
  WINDOW = 1
  ASSESS_TIME = 1
  RATE = 2
  Failing = {e1}
INVARIANT TypeOK
INVARIANT SiblingsMeet
INVARIANT RowsWereTrue
INVARIANT FlappingWasDown
PROPERTY RecoveryIsForgiven
PROPERTY IndexCatchesUp
