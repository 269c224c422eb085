SPECIFICATION Spec
CONSTANTS
  Keys <- MCKeys
  Values <- MCValues
  Base = 4
  Capacity = 7
  MaxLog = 3
  MaxCells = 30
  Scenarios <- TornScenario
INVARIANT ShortReadEndsLog
CHECK_DEADLOCK FALSE
