\* One domain: every slot evolves by itself but for the clock and the purges
\* of the shared dicts, which other domains' traffic may trigger at any time.
SPECIFICATION Spec
CONSTANTS
  Domain = {a}
  Delay = 1
  MinGaps = {1, 2}
  Slack = 0
  CrawlDelays = {3}
  MaxCrawlDelay = 2
  GCAge = 2
  RestartPause = 2
  StartTime = 1
  MaxQueue = 2
  MaxTime = 7
INVARIANT TypeOK OneInFlight GuardNeverRefuses NoStrandedQueue
PROPERTY ImplementsPoliteness GuardFloor CrawlDelayAfterRebuild
CHECK_DEADLOCK FALSE
