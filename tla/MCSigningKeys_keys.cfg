SPECIFICATION KeysSpec
CONSTANTS
  i1 = i1
  i2 = i2
  i3 = i3
  k1 = k1
  k2 = k2
  k3 = k3
  k4 = k4
  Absent = Absent
  Process = {1, 2}
  KeyId = {i1, i2, i3}
  Key = {k1, k2, k3, k4}
  Configs <- Rotations
  Record = {1, 2}
INVARIANTS
  StaysVerifiable
  OneActiveKey
