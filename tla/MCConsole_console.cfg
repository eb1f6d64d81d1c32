SPECIFICATION Spec
CONSTANTS
  u1 = u1
  u2 = u2
  w1 = w1
  w2 = w2
  boot = boot
  mine = mine
  x = x
  y = y
  None = None
  Org = {1, 2}
  User = {u1, u2}
  Email = {boot, mine}
  OwnerEmail = boot
  Field = {x, y}
  Column = {}
  Value = {0, 1}
  Default = 0
  Worker = {w1, w2}
SYMMETRY Symmetric
INVARIANTS
  TypeOK
  OwnerThere
PROPERTIES
  NothingClobbered
CHECK_DEADLOCK FALSE
