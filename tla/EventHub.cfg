SPECIFICATION Spec
CONSTANTS
  p1 = p1
  p2 = p2
  s1 = s1
  s2 = s2
  Publishers <- TwoPublishers
  Subscribers <- TwoSubscribers
  Capacity = 1
  MaxEvents = 2
  MaxFaults = 1
SYMMETRY HubSymmetry
CHECK_DEADLOCK FALSE
INVARIANTS
  TypeOK
  StreamInOrder
  StreamInHistory
