SPECIFICATION Spec
CONSTANTS
  Words <- MCWords
  Tables = 2
  Ranged = 1
  Written <- MCWritten
  NoTable = NoTable
CHECK_DEADLOCK FALSE
INVARIANTS
  RightUntilError
  NoShortScan
  Ascending
