CONSTANTS
  ann = ann
  bob = bob
  Person = {ann, bob}
  Email = {e1, e2}
  Holder <- MCHolder
  Subject = {i1, i2}
  Account <- MCAccount
  Session = {s1, s2, s3}
  Token = {t1, t2}
  State = {g1, g2}
  Request = {r1, r2}
  Null = Null
  MaxProofs = 1
  Throttle = 2
  MinLife = 2
  MaxLife = 3
  Timeout = 1
  MaxClock = 4

SPECIFICATION MCSpec
INVARIANTS AccountsHold
PROPERTIES NothingComesBack KeysHold
SYMMETRY Symmetric
CHECK_DEADLOCK FALSE
