SPECIFICATION Spec
CONSTANTS
  k1 = k1
  k2 = k2
  w1 = w1
  w2 = w2
  Key = {k1, k2}
  Version <- OneEdited
  Delegated = {}
  Foreign = {}
  Conflict <- OneConflict
  Worker = {w1, w2}
  Faults = {"crash", "upload", "abort"}
SYMMETRY WorkerSymmetry
INVARIANTS
  TypeOK
  OneActiveVersion
  ServedIsSound
  WholeSetServed
PROPERTIES
  LifecycleFollowed
CHECK_DEADLOCK FALSE
