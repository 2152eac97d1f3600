SPECIFICATION Spec
CONSTANTS
  DepNum = 2
  ScanNum = 1
  MaxLoopIterations = 3
  LimitMaxIterations = 4
  MaxTrips = 5
  Loops <- MCLoops
INVARIANTS
  WritesApart
PROPERTIES
  ImplementsLoop
CHECK_DEADLOCK FALSE
