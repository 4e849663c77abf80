SPECIFICATION Spec
CONSTANTS
  Slot = {"a", "b", "x"}
  ScanLimit = 1
  QueueCap = 2
  Cap = 1
  ExemptCap = 2
  Url <- MCUrl
  OwnedIn <- MCOwned
  Seed <- MCSeed
  MaxCrawled = 1
  MaxQueued = 1
  Concurrent = 1
  MaxLives = 2
INVARIANT NothingForgotten NeverTwice OwnDomainsOnly QueuedAccounted
PROPERTY ShutdownEnds
CHECK_DEADLOCK FALSE
