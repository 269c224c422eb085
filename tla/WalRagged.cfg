SPECIFICATION Spec
CONSTANTS
  Keys <- MCKeys
  Values <- MCValues
  Base = 4
  Capacity = 7
  MaxLog = 3
  MaxCells = 30
  Scenarios <- RaggedScenario
INVARIANT NothingLost
CHECK_DEADLOCK FALSE
