SPECIFICATION Spec
CONSTANTS
  Agents = {a1, a2}
  Admins = {a1, a2}
  Accepted = {}
  Listings = {x1, x2}
  Profiles = {p1}
  MaxTypes = 2
  MaxRevisions = 1
  MaxOps = 9
CONSTRAINT Bounded
SYMMETRY Symmetry
INVARIANTS
  TypeOK
  OneStatus
  PairsBalance
  NoLinkToUnapproved
  NeverStatusless
PROPERTY
  DecisionsHeal
CHECK_DEADLOCK FALSE
