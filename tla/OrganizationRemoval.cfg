SPECIFICATION Spec
CONSTANTS
  Scenarios = {"organization pages"}
  c1 = c1
  c2 = c2
  me = me
  you = you
  o1 = o1
  ra = ra
  rb = rb
  oa = oa
  ob = ob
  ta = ta
  tb = tb
  ma = ma
  mb = mb
PROPERTY RemovedMeansGone
CHECK_DEADLOCK FALSE
