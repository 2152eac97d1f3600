SPECIFICATION Spec
CONSTANTS
  N = 4
  NStreams = 3
  Runs = 2
  Plans <- AllPlans
INVARIANTS
  TypeOK
  Inv
  WaitsFollowRecords
  NoRepeatedWait
  InputsReady
  FinishCoversAllStreams
  LaunchedOnItsStream
PROPERTIES
  ImplementsDataflow
CHECK_DEADLOCK FALSE
