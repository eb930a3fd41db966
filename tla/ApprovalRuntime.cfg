SPECIFICATION Spec
CONSTANTS
  w1 = w1
  w2 = w2
  c1 = c1
  c2 = c2
  Waiters <- TwoWaiters
  Callers <- TwoCallers
  MaxRequests = 3
  MaxCalls = 3
SYMMETRY ApprovalSymmetry
CHECK_DEADLOCK FALSE
INVARIANTS
  TypeOK
  WaitingIsFindable
  RegistrationHasWaiter
  OutcomeWasAccepted
