CONSTANTS
  u1 = u1
  u2 = u2
  b1 = b1
  b2 = b2
  q1 = q1
  q2 = q2
  User = {u1, u2}
  Browser = {b1, b2}
  Request = {q1, q2}
  NoUser = NoUser
  k1 = k1
  Key = {k1}
  KeyOf <- MCFoldedNames
  Driver = {"sqlite", "postgres"}
  Visitor = {u1, u2}
  MaxFailures = 2
  Window = 1
  Lockout = 2
  MaxTime = 2
  MaxToken = 2
  MaxRestart = 1
SPECIFICATION Spec
INVARIANTS TypeOK FirstAccountAdministers GuessesBounded
PROPERTIES WriteAccessKept LockHolds
SYMMETRY MCSymmetry
CHECK_DEADLOCK FALSE
