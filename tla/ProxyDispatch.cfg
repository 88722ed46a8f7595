SPECIFICATION FairDispatch
CONSTANTS
  a1 = a1
  a2 = a2
  t1 = t1
  t2 = t2
  d1 = d1
  d2 = d2
  None = None
  ConsumerAdmins = {a1, a2}
  AdminThreads = {t1, t2}
  ServerOf <- MCServerOf
  ProxyThreads = {d1, d2}
  LastEvent = 2
CHECK_DEADLOCK FALSE
PROPERTIES
  ImplementsDelivery
  Dispatched
