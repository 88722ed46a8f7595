SPECIFICATION FairSpec
CONSTANTS
  p1 = p1
  p2 = p2
  w1 = w1
  w2 = w2
  None = None
  Proxies = {p1, p2}
  Batch <- MCBatch
  Paced = {p1}
  Workers = {w1, w2}
  Channels <- MCChannels
  GcAt = 1
  MaxLength = 2
  LastEvent <- MCLastEvent
  Suspending = {p2}
CHECK_DEADLOCK FALSE
INVARIANTS
  InOrder
  EntriesKept
  NoPushAfterDisposal
PROPERTIES
  OwnPushed
  OwnDisposed
