SPECIFICATION Spec
CONSTANTS
  e1 = e1
  e2 = e2
  Endpoints = {e1, e2}
  NoEndpoint = NoEndpoint
  Absent = Absent
  Starts <- Everyone
  Fees <- FeesListed
  SalesCounts <- Counts
  Ratings <- Stars
  Settlements <- Books
  OtherAgents <- Owners
  MaxChanges = 3
INVARIANT TypeOK
INVARIANT SafeIsEarned
INVARIANT HardFailureBlocks
CHECK_DEADLOCK FALSE
PROPERTY BadNewsNeverHelps
PROPERTY SaleNeverHurts
