SPECIFICATION FairSpec
CONSTANTS
  p1 = p1
  p2 = p2
  w1 = w1
  w2 = w2
  Proxies = {p1, p2}
  Workers = {w1, w2}
  GcAt = 2
  MaxChanges = 2
  MaxNodes = 3
  MaxCalls = 3
CHECK_DEADLOCK FALSE
INVARIANTS
  OneRegistration
  InUseKept
  NoCallAfterDisposal
PROPERTIES
  InOrder
  Informed
