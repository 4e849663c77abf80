SPECIFICATION Spec
CONSTANTS
  ChunkSize = 2
  EarlyKill = TRUE
  MaxRecord = 3
  MaxGiven = 3
PROPERTY ImplementsDurableQueue
CHECK_DEADLOCK FALSE
