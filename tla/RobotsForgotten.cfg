SPECIFICATION Spec
CONSTANTS
  Host = {a, b, c, d}
  Request = {r1}
  CacheSize = 3
  Ttl = 1
  TtlMax = 1
  MaxTime = 2
  MaxFetches = 4
PROPERTY FailureExpires
CHECK_DEADLOCK FALSE
