SPECIFICATION FairSpec
CONSTANTS
  c1 = c1
  c2 = c2
  w1 = w1
  w2 = w2
  k1 = k1
  NoKey = NoKey
  Clients <- OneClient
  Workers <- TwoWorkers
  Keys <- OneKey
  QueueSize = 1
  MaxRuns = 2
  MaxReads = 0
  MaxCancels = 1
  MaxRejects = 1
  MaxFaults = 1
  MaxStops = 1
CHECK_DEADLOCK FALSE
INVARIANTS
  SameKeySameRun
PROPERTIES
  QueuedRunsSettle
  ImplementsLedger
