SPECIFICATION LiveSpec
CONSTANTS
  t1 = t1
  t2 = t2
  Threads = {t1, t2}
  MaxKey = 2
  v1 = v1
  Values = {v1}
  Starts <- MCStarts
  MaxCalls <- MCCalls
  None = None
  Done = Done
  Error = Error
  Nothing = Nothing
  NoThread = NoThread
CHECK_DEADLOCK FALSE
INVARIANTS
  NoGuardAfterPanic
  NeverHalfFlushed
PROPERTIES
  ViewStable
  ImplementsAtomicMap
  CallsReturn
