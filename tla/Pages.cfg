SPECIFICATION Spec
CONSTANTS
  Scenarios = {"moderation", "moderation of two", "session", "session failing", "session overlap",
               "organization pages", "listing tabs", "listing tabs overlap", "listing form",
               "service types of two", "service types of one", "mediums of two", "mediums of one"}
  c1 = c1
  c2 = c2
  me = me
  you = you
  o1 = o1
  ra = ra
  rb = rb
  oa = oa
  ob = ob
  ta = ta
  tb = tb
  ma = ma
  mb = mb
INVARIANTS
  TypeOK
  ShownAsItIs
  OfferedRightly
PROPERTIES
  SentAsShown
  NothingLost
CHECK_DEADLOCK FALSE
