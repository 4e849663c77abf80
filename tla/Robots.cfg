SPECIFICATION Spec
CONSTANTS
  Host = {a, b}
  Request = {r1, r2, r3}
  CacheSize = 1
  Ttl = 1
  TtlMax = 2
  MaxTime = 3
  MaxFetches = 4
INVARIANT OnlyAllowedPages OneFetchPerHost
PROPERTY BackoffGrows FailureHeldInTime EveryRequestDecided
CHECK_DEADLOCK FALSE
