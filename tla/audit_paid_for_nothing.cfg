SPECIFICATION Spec
CONSTANTS
  b1 = b1
  b2 = b2
  a1 = a1
  a2 = a2
  Threads = {b1}
  Agents = {a1}
  Blocked = {}
  Requests <- ByName
  NoRequest = NoRequest
  CACHE_TTL = 2
  PROBE_TTL = 4
  NoCall = NoCall
INVARIANT PaidIsServed
