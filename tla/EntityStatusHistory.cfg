SPECIFICATION NoOverlapSpec
CONSTANTS
  Agents = {a1}
  Admins = {a1}
  Decisions = {"accepted", "suspended indefinitely"}
  Durations = {}
  Hour = 2
  MaxTime = 0
  MaxEntities = 1
  MaxOps = 12
INVARIANTS
  HistoryComplete
CHECK_DEADLOCK FALSE
