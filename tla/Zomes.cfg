SPECIFICATION Spec
CONSTANTS
  Scenarios = {"organizations", "organizations overlap", "listings", "listings overlap",
               "mediums", "mediums overlap"}
  OverlapOps = 10
  a1 = a1
  a2 = a2
  a3 = a3
  x1 = x1
  g1 = g1
  t1 = t1
INVARIANTS
  TypeOK
  NothingHalfRemoved
  ListedOnce
  MediumsModerated
PROPERTIES
  CoordinatorRemains
  LatestNeverOlder
CHECK_DEADLOCK FALSE
