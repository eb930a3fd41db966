SPECIFICATION Spec
CONSTANTS
  c1 = c1
  c2 = c2
  w1 = w1
  w2 = w2
  k1 = k1
  NoKey = NoKey
  Clients <- TwoClients
  Workers <- OneWorker
  Keys <- OneKey
  QueueSize = 1
  MaxRuns = 2
  MaxReads = 0
  MaxCancels = 0
  MaxRejects = 0
  MaxFaults = 0
  MaxStops = 0
CHECK_DEADLOCK FALSE
INVARIANTS
  SameKeySameRun
