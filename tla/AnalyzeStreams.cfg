SPECIFICATION AnalyzeSpec
CONSTANTS
  N = 4
  NStreams = 3
  Runs = 1
  MaxRecords = 3
  MaxWaits = 2
  Plans <- ScheduledPlans
  HandWritten <- WithEvents
INVARIANTS
  ClocksAreExact
  UnreportedIsRaceFree
  ScheduledIsClean
CHECK_DEADLOCK FALSE
