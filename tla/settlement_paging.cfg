SPECIFICATION Spec
CONSTANTS
  s1 = s1
  s2 = s2
  TOKENS = 2
  LIMIT = 2
  MAX_PAGES = 2
  Senders = {s1, s2}
  Amounts = {0, 1}
  Transfers <- AFewKinds
  MaxTransfers = 6
INVARIANT TypeOK
INVARIANT MissedIsOutOfReach
INVARIANT PayersHavePaid
INVARIANT OvercountIsArrivals
CHECK_DEADLOCK FALSE
