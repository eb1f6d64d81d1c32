SPECIFICATION Spec
CONSTANTS
  p1 = p1
  p2 = p2
  k1 = k1
  k2 = k2
  k3 = k3
  n1 = n1
  Nil = Nil
  Nothing = Nil
  Process = {p1, p2}
  Key = {k1, k2, k3}
  Configured <- OneKeyGiven
  AgentId = {1, 2}
  Cert = {1, 2, 3}
  Call = {n1}
  Caller <- OneCall
  MaxRetries = 1
  MaxLate = 1
SYMMETRY Symmetric
INVARIANTS
  TypeOK
  AtMostOneDecision
  StoreIsTruthful
  StoreIsCurrent
PROPERTIES
  KeyHeld
CHECK_DEADLOCK FALSE
