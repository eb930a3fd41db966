SPECIFICATION Spec
CONSTANTS
  Nodes <- UnevenNodes
  Edges <- UnevenEdges
  Source <- UnevenSource
  Target <- UnevenTarget
  Parent <- UnevenParent
  NoParent = "none"
  StartNode <- Start
  JoinNodes <- Joins
  PlainNodes <- Plain
  FailureThreshold = 1
  Kindings <- UnevenKindings
  Strategies <- AllSuccess
CHECK_DEADLOCK FALSE
INVARIANTS
  AllSuccessJoin
