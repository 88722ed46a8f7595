SPECIFICATION Spec
CONSTANTS
  t1 = t1
  t2 = t2
  AdminThreads <- MCThreads
  NumEvents = 3
  MaxQueueLengths = {0, 1, 2}
  MaxHeld = 1
  ULongMax = 15
SYMMETRY Symmetry
CHECK_DEADLOCK FALSE
INVARIANTS
  LengthCovers
  RefCountExact
  NullOnlyAtShutdown
