\* A script started while the loop of another is in its pause.
SPECIFICATION Spec
CONSTANTS
  Script = {1, 2}
  Shard = {0}
  Steady = {}
  Duration = 2
  LeastRound = 0
  Drain = 0
  Pause = 1
  Grace = 2
  FastCrash = 0
  BudgetReset = 0
  MaxRestarts = 2
  MaxTime = 8
INVARIANT OneCrawlPerJobdir
CHECK_DEADLOCK FALSE
