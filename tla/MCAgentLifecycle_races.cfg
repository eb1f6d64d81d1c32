SPECIFICATION Spec
CONSTANTS
  NoCert = NoCert
  c1 = c1
  c2 = c2
  c3 = c3
  w1 = w1
  w2 = w2
  w3 = w3
  Cert = {c1, c2, c3}
  Worker = {w1, w2, w3}
SYMMETRY Symmetry
INVARIANTS
  ConsistentUnlessRaced
PROPERTIES
  DeadStayDead
CHECK_DEADLOCK FALSE
