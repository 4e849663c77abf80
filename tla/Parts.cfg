SPECIFICATION Spec
CONSTANTS
  NA = NA
  \* Slices of one queue and of two.
  Queue = {q1, q2, q3, q4}
  Slices = 3
  Period = 1
  Offset = 1
  Failures = TRUE
  MaxDelay = 3
  \* One domain more than the caches hold.
  Domain = {da, db, dc}
  CacheLimit = 2
  MaxCrawled = 1
  MaxQueued = 1
  Backlog = 1
  Seed = {da}
  MaxRequests = 5
  MaxUncounted = 1
  \* Three processes; the fourth line looks like a header.
  FlushEvery = 2
  Block = 8
  Lookalike = {4}
  MaxLines = 6
  MaxMembers = 3
  \* One domain in two shards' logs.
  Key = {"a"}
  Log = {0, 1}
  Limit = 3
  Tolerance = 1
  Source = {"dispatched", "crawled"}
  Step = {2}
  MaxTime = 4
  MaxRows = 3
  MaxSteps = 1
  \* A cap of two of seven.
  Tld = {"com", "org", "net", "de"}
  MaxShare = 35
  MaxPool = 3
  MaxCount = 7
  Candidate <- MCCandidate
  Concurrency = 2
  MaxKept = 2
SYMMETRY Sym
INVARIANT SavesSpread PagesBounded EvictionCostsOne LogsSurvive VerdictTrue BestSelected BestKept
CHECK_DEADLOCK FALSE
