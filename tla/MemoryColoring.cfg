SPECIFICATION ColorSpec
CONSTANTS
  K = 5
  N = 10
  Programs <- IntervalPrograms
INVARIANTS
  AdjacentSegmentsDisjoint
  LiveTogetherApart
  LoadsFitScratch
CHECK_DEADLOCK FALSE
