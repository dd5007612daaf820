SPECIFICATION Spec
CONSTANTS
  Agents = {a1, a2}
  Admins = {a1, a2}
  Decisions = {"accepted", "suspended temporarily"}
  Durations = {3}
  Hour = 2
  MaxTime = 2
  MaxEntities = 1
  MaxOps = 10
CONSTRAINT Bounded
INVARIANTS
  TypeOK
  OneStatus
  AcceptedMatchesStatus
  NeverStatusless
PROPERTIES
  ImplementsRegister
CHECK_DEADLOCK FALSE
