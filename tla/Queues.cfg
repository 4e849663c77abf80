SPECIFICATION QueuesSpec
CONSTANTS
  \* The files of one queue.
  ChunkSize = 3
  EarlyKill = FALSE
  MaxRecord = 5
  MaxGiven = 5
  \* The ring: three of four slots have a queue, and a scan gives up after two.
  Slot = {s1, s2, s3, s4}
  AnyRequest = {r1, r2, r3}
  ScanLimit = 2
  QueueCap = 3
  Cap = 1
  ExemptCap = 2
  MaxOpens = 3
SYMMETRY Sym
INVARIANT QueueSizeExact RingComplete SizeExact
PROPERTY ImplementsDurableQueue FairTurns FrontierBounded
\* After a kill inside _saveinfo the queue cannot be opened any more.
CHECK_DEADLOCK FALSE
