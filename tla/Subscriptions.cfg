SPECIFICATION Spec
CONSTANTS
  Callers = {t1, t2}
  Admin = admin
  Proxy = proxy
  Domains = {"D", "E"}
  Names = {"T"}
  TypeLists <- MCTypeLists
  Requests <- MCRequests
  MaxListed = 1
  MaxIds = 3
  MaxCalls = 5
SYMMETRY Symmetry
CHECK_DEADLOCK FALSE
INVARIANTS
  ReachesOneByOne
  OnlyAsked
  TablesExact
