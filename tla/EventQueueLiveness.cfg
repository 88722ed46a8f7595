SPECIFICATION FairSpec
CONSTANTS
  t1 = t1
  t2 = t2
  AdminThreads <- MCThreads
  NumEvents = 2
  MaxQueueLengths = {0}
  MaxHeld = 0
  ULongMax = 15
CHECK_DEADLOCK FALSE
INVARIANTS
  MemorySafe
PROPERTIES
  ImplementsLog
  EventuallyDelivered
  EventuallyCollected
  EventuallyDestroyed
