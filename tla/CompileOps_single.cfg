SPECIFICATION Spec
CONSTANTS
  Ops = 3
  Problems = {"conv", "gemm"}
  Solutions <- OneAndTwo
  CanFail = FALSE
  MaxModules = 2
  Untuned = Untuned
  Absent = Absent
  Null = Null
  Precompile = Precompile
INVARIANTS
  AllCompiled
CHECK_DEADLOCK FALSE
