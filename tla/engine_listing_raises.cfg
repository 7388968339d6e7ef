SPECIFICATION Spec
CONSTANTS
  e1 = e1
  e2 = e2
  Endpoints = {e1, e2}
  NoEndpoint = NoEndpoint
  Absent = Absent
  Starts <- Everyone
  Fees <- FeesListed
  SalesCounts <- Counts
  Ratings <- Stars
  Settlements <- Books
  OtherAgents <- Owners
  MaxChanges = 2
PROPERTY ListingNeverRaisesCeiling
CHECK_DEADLOCK FALSE
