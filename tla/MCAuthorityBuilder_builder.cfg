SPECIFICATION Spec
CONSTANTS
  d1 = d1
  d2 = d2
  d3 = d3
  ann = ann
  bob = bob
  p1 = p1
  p2 = p2
  p3 = p3
  a1 = a1
  q1 = q1
  q2 = q2
  w1 = w1
  w2 = w2
  sound = sound
  broken = broken
  None = None
  Discovery = {d1, d2, d3}
  Name = {ann, bob}
  Called <- TwoAnns
  From = ann
  To = bob
  Person = {p1, p2, p3}
  Known <- Registered
  Content = {sound, broken}
  Valid = {sound}
  Delegator <- EitherDelegates
  Policy = {q1, q2}
  Authority = {a1}
  Worker = {w1, w2}
SYMMETRY Symmetric
INVARIANTS
  TypeOK
  PromotedOnce
  DelegationIsReviewed
PROPERTIES
  ActiveEndsStand
CHECK_DEADLOCK FALSE
