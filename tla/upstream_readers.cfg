SPECIFICATION ReadersLiveSpec
CONSTANTS
  t1 = t1
  t2 = t2
  a1 = a1
  Threads = {t1, t2}
  Monitors = {t1}
  Agents = {a1}
  CACHE_TTL = 2
  PROBE_TTL = 4
  NoCall = NoCall
PROPERTY HealthTurnsRed
PROPERTY HealthTurnsGreen
INVARIANT ReadersTypeOK
PROPERTY YesIsRecent
