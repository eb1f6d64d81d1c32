SPECIFICATION FairSpec
CONSTANTS
  a = a
  u = u
  s = s
  k = k
  Operator = Operator
  Nobody = Nobody
  Requests = 3
  Client = {a}
  User = {u}
  Session = {s}
  ApiKey = {k}
  Window = 1
  Limit = 2
  Timeout = 1
  Pool = 2
  Threads = 2
  End = 2
INVARIANTS
  TypeOK
  WithinRate
  GrantedWhileGood
PROPERTIES
  StarvedOnlyCrowded
  AllAnswered
CHECK_DEADLOCK FALSE
