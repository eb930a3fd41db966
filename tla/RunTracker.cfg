SPECIFICATION Spec
CONSTANTS
  s1 = s1
  n1 = n1
  Steps <- MCSteps
  Nodes <- MCNodes
  NotifyRetry = 1
  MaxNotifyErrors = 2
  MaxFaults = 1
CHECK_DEADLOCK FALSE
INVARIANTS
  TypeOK
  FinalSnapshotIsWhole
  CallbackErrorRecorded
PROPERTIES
  TerminalIsFinal
