SPECIFICATION SavingSpec
CONSTANTS
  \* config.toml:547-561, in seconds: an interval of 900, an offset of 450.
  Slices = 20
  Period = 45
  Offset = 450
  Queue = {q1}
  Failures = FALSE
  MaxDelay = 19
INVARIANT SaversApart
CHECK_DEADLOCK FALSE
