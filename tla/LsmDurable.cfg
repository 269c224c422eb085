SPECIFICATION Spec
CONSTANTS
  k1 = k1
  k2 = k2
  v1 = v1
  v2 = v2
  NoFile = NoFile
  Torn = Torn
  Keys <- MCKeys2
  Values <- MCValues1
  MaxId = 3
  Full <- MCFull
  Scenarios <- KillOrPower
SYMMETRY MCSymmetry
INVARIANT NoAckedLoss
PROPERTY ImplementsDurableMap
