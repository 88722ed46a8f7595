SPECIFICATION FairSpec
CONSTANTS
  t1 = t1
  t2 = t2
  Threads = {t1, t2}
  NumGroups = 2
  MaxSerial = 4
  MaxEvents = 3
CHECK_DEADLOCK FALSE
INVARIANTS
  RangesPartition
PROPERTIES
  ImplementsRounds
  EveryoneServed
