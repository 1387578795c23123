CONSTANTS
  User = {u1, u2}
  Invitation = {i1, i2}
  Handler = {h1, h2}
  NoUser = NoUser
SPECIFICATION Spec
INVARIANTS TypeOK RoleIsBacked AdminRemains
PROPERTIES DecidedOnce
SYMMETRY MCSymmetry
CHECK_DEADLOCK FALSE
