SPECIFICATION Spec
CONSTANTS
  Workloads <- AllWork
  ULongLongs = 16
INVARIANTS
  OrderedWhenPoliciesAgree
PROPERTIES
  DiscardsFirst
  WithinLimit
  DeliversFirst
