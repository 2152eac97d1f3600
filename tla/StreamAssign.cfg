SPECIFICATION Spec
CONSTANTS
  NStreams = 3
  Graphs <- BoundedGraphs
INVARIANTS
  OrderIsProgramOrder
  CriticalChainOnStreamZero
  StreamsAssigned
  LoadsBalanced
CHECK_DEADLOCK FALSE
