SPECIFICATION Spec
CONSTANTS
  Programs <- AllPrograms
  Handler = 9
  MaxSteps = 4
  MaxLen = 2
  LoopEndsBody = FALSE
  MaxCrashes = 1
CHECK_DEADLOCK FALSE
INVARIANTS
  InOrder
  ItemsMatch
