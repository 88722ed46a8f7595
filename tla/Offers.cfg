SPECIFICATION Spec
CONSTANTS
  p1 = p1
  p2 = p2
  p3 = p3
  a1 = a1
  a2 = a2
  c1 = c1
  c2 = c2
  t1 = t1
  None = None
  Types = {t1}
  Admins = {a1, a2}
  Proxies = {p1, p2, p3}
  Pulling = {p1}
  AdminOf <- MCAdminOf
  Callers = {c1, c2}
  MaxCalls = 5
SYMMETRY MCSymmetry
CHECK_DEADLOCK FALSE
INVARIANTS
  NoOfferLost
  OffersExact
