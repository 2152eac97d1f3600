SPECIFICATION Spec
CONSTANTS
  Sizes = {1, 2, 3, 6}
  MaxElements = 12
  MaxRank = 3
  NoShape = NoShape
  Reshapes <- MCReshapes
INVARIANTS
  SameElements
CHECK_DEADLOCK FALSE
