SPECIFICATION Spec
CONSTANTS
  a1 = a1
  a2 = a2
  r1 = r1
  r2 = r2
  r3 = r3
  r4 = r4
  s1 = s1
  m1 = m1
  g1 = g1
  c1 = c1
  c2 = c2
PROPERTIES
  RemovalTakesEffect
  EveryRunEnds
  TimedWaitsEnd
CHECK_DEADLOCK FALSE
