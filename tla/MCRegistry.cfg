CONSTANTS
  Device = {d1, d2}
  Token = {t1, t2, t3}
  Handler = {h1, h2}
  DatabaseFails = TRUE
  NoDevice = NoDevice
  NoToken = NoToken
SPECIFICATION Spec
INVARIANTS TypeOK SerialUseIsExact AcceptedWasApproved
PROPERTIES RetiredForGood OnlyAdminsWithdraw
SYMMETRY MCSymmetry
CHECK_DEADLOCK FALSE
