SPECIFICATION QueueSpec
CONSTANTS
  K = 5
  N = 10
  NStreams = 2
  Runs = 1
  AllocBytes = 4
  Plans <- AllocatingPlans
INVARIANTS
  OutputsDisjoint
  SameStreamReadsIntact
  LaterSeesAll
  EarlierIsOver
CHECK_DEADLOCK FALSE
