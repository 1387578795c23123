CONSTANTS
  Device = {d1}
  Token = {t1, t2}
  Handler = {h1, h2}
  DatabaseFails = FALSE
  NoDevice = NoDevice
  NoToken = NoToken
SPECIFICATION Spec
INVARIANTS WithdrawnIsRejected
SYMMETRY MCSymmetry
CHECK_DEADLOCK FALSE
