SPECIFICATION Spec
CONSTANTS
  Sender = {0}
  SegmentLines = 2
  ReadLines = 3
  Limit = 1
  MaxSent = 3
  MaxKills = 0
  MaxFailures = 0
  MaxRestarts = 0
INVARIANT NothingLost
CHECK_DEADLOCK FALSE
