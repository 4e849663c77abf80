\* Two shards, one of which does all the crashing.
SPECIFICATION Spec
CONSTANTS
  Script = {1}
  Shard = {0, 1}
  Steady = {1}
  Duration = 7
  LeastRound = 0
  Drain = 1
  Pause = 1
  Grace = 3
  FastCrash = 1
  BudgetReset = 2
  MaxRestarts = 5
  MaxTime = 13
INVARIANT GaveUpOnlyInCrashLoop AsideTakesThree FinishedStaysFinished
PROPERTY RunEnds HealthyShardKept
CHECK_DEADLOCK FALSE
