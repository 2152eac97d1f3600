SPECIFICATION Spec
CONSTANTS
  N = 4
  NStreams = 2
  Runs = 1
  Plans <- NestedPlans
INVARIANTS
  ImplicitDepsEvaluatedFirst
CHECK_DEADLOCK FALSE
