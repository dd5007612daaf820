SPECIFICATION Spec
CONSTANTS
  Scenarios = {"listings"}
  OverlapOps = 10
  a1 = a1
  a2 = a2
  a3 = a3
  x1 = x1
  g1 = g1
  t1 = t1
INVARIANTS
  ArchivedLeavesActive
CHECK_DEADLOCK FALSE
