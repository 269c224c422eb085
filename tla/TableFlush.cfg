SPECIFICATION FlushSpec
CONSTANTS
  Keys <- MCKeys
  Values <- MCValues
  Wrap = 6
  MaxSize = 6
  NoValue = NoValue
  Absent = Absent
INVARIANTS
  SizeExact
  GetsRight
  IteratesRight
PROPERTIES
  BelowLimitAfterWrite
  FlushKeepsAll
