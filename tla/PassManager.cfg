SPECIFICATION FairSpec
CONSTANTS
  Ins = {1, 2, 3, 4, 5, 6, 7, 8, 9, 10, 11, 12, 13}
  End = End
  Main = Main
  B = B
  C = C
  D = D
  Modules = {Main, B, C, D}
  Programs <- MCPrograms
  Pipelines <- MCPipelines
  EmptyShape = {"check"}
  ContextFree = {"mul", "identity", "get_tuple_elem"}
  Concurrency = 2
  One = One
  No = No
  Two = Two
  X = X
  Nothing = Nothing
INVARIANTS
  UseListsExact
  InputsEvaluated
  MeaningKept
  CleanAfterElimination
  MergedAfterCse
  EveryIndexOnce
PROPERTIES
  OnlyCalls
  ChangesSeen
  PassesEnd
CHECK_DEADLOCK FALSE
