SPECIFICATION LiveSpec
CONSTANTS
  k1 = k1
  k2 = k2
  v1 = v1
  v2 = v2
  NoFile = NoFile
  Torn = Torn
  Keys <- MCKeys1
  Values <- MCValues1
  MaxId = 3
  Full <- MCFull
  Scenarios <- AllAtOnce
INVARIANTS TypeOK ListedReadable NewestFirst NoTornTable PutsKept
PROPERTIES LiveTablesImmutable OperationsReturn
