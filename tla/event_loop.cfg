SPECIFICATION LiveSpec
CONSTANTS
  c1 = c1
  c2 = c2
  Clients = {c1, c2}
  Kinds = {"id", "name", "audit", "read"}
  POOL = 2
  PROBE_TIMEOUT = 1
  SEARCH_TIME = 3
  Free = Free
INVARIANT TypeOK
INVARIANT DownIsExcused
PROPERTY EveryRequestAnswered
