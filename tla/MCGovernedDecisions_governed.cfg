SPECIFICATION GovernedSpec
CONSTANTS
  k1 = k1
  w1 = w1
  w2 = w2
  i1 = i1
  m0 = m0
  Key = {k1}
  Version <- OnceEdited
  Delegated <- OnceEdited
  Foreign = {m0}
  Conflict = {}
  Worker = {w1, w2}
  Faults = {"crash"}
  Intent = {i1}
  Covers <- CoveredByBoth
SYMMETRY WorkerSymmetry
INVARIANTS
  RowOfAnswer
  MandateKept
  MandateOfMatch
CHECK_DEADLOCK FALSE
