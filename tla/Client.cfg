SPECIFICATION Spec
CONSTANTS
  Scenarios = {"lock of one", "lock of two", "connection",
               "hREA agents", "hREA specifications", "hREA overlap",
               "test page of types", "test page decided", "test page overlap"}
  r1 = r1
  r2 = r2
  r3 = r3
  s1 = s1
  s2 = s2
  m1 = m1
  w1 = w1
  g1 = g1
  u1 = u1
  c1 = c1
  c2 = c2
  c3 = c3
  p1 = p1
  o1 = o1
INVARIANTS
  TypeOK
  MutualExclusion
  ServicesComplete
  OneConnects
  OneAgentEach
  NoSpareSpecification
PROPERTIES
  SyncedIsThere
CHECK_DEADLOCK FALSE
