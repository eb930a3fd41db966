SPECIFICATION FairSpec
CONSTANTS
  Nodes <- LayeredNodes
  Edges <- LayeredEdges
  Source <- LayeredSource
  Target <- LayeredTarget
  Parent <- LayeredParent
  NoParent = "none"
  StartNode <- Start
  JoinNodes <- Joins
  PlainNodes <- Plain
  FailureThreshold = 1
  Kindings <- LayeredKindings
  Strategies <- AllStrategies
CHECK_DEADLOCK FALSE
INVARIANTS
  TypeOK
  VerdictFitsFailures
  SelectedNodesRun
  AllSuccessJoin
PROPERTIES
  RunReturns
