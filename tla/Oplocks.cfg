SPECIFICATION FairSpec
CONSTANTS
  t1 = t1
  t2 = t2
  t3 = t3
  o1 = o1
  o2 = o2
  o3 = o3
  o4 = o4
  o5 = o5
  o6 = o6
  e1 = e1
  e2 = e2
  e3 = e3
  None = None
  Head = Head
  Threads = {t1, t2}
  Objects = {o1, o2, o3, o4}
  Entries = {e1, e2, e3}
  First = {o1, o2}
  MaxCalls = 4
CHECK_DEADLOCK FALSE
INVARIANTS
  InsideOwns
  InUseExact
PROPERTIES
  DisposalEnds
  ImplementsLifetimes
