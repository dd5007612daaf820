SPECIFICATION Spec
CONSTANTS
  Scenarios = {"listing tabs"}
  c1 = c1
  c2 = c2
  me = me
  you = you
  o1 = o1
  ra = ra
  rb = rb
  oa = oa
  ob = ob
  ta = ta
  tb = tb
  ma = ma
  mb = mb
INVARIANT MineAreMine
CHECK_DEADLOCK FALSE
