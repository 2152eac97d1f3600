SPECIFICATION FairSpec
CONSTANTS
  Ops = 3
  Problems = {"conv", "gemm", "mlir"}
  Solutions <- NoneToThree
  CanFail = TRUE
  MaxModules = 2
  Untuned = Untuned
  Absent = Absent
  Null = Null
  Precompile = Precompile
INVARIANTS
  OnlyMarkedLeft
  SameProblemSameCode
  BenchmarkedOnce
PROPERTIES
  SolutionsStay
  PassEnds
CHECK_DEADLOCK FALSE
