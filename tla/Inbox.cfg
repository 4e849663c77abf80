\* A segment of three lines is longer than a chunk, a chunk no longer than a poll.
SPECIFICATION InboxSpec
CONSTANTS
  Sender = {0, 2}
  SegmentLines = 3
  ReadLines = 2
  Limit = 2
  MaxSent = 3
  MaxKills = 1
  MaxFailures = 1
  MaxRestarts = 1
INVARIANT LossBounded TwiceOnlyUnsaved
PROPERTY OldSegmentsGo PassedOverOnlyAtLimit Delivered
CHECK_DEADLOCK FALSE
