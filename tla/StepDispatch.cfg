SPECIFICATION Spec
CONSTANTS
  a = a
  b = b
  c = c
  Hosts <- AllHosts
  Locals <- LocalHosts
  LastStep = 2
  Targets <- TargetsOf
  Tolerant <- FirstStep
  Retries <- RetriesOf
  Rounds <- RoundsOf
  RetryMax = 1
  MaxTasks = 2
  MaxRestarts = 1
CHECK_DEADLOCK FALSE
SYMMETRY LocalSymmetry
INVARIANTS
  TypeOK
  TwiceOnlyInTheGap
  NothingRunsUnwatched
PROPERTIES
  ReportsAreTrue
