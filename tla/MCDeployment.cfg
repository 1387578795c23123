CONSTANTS
  Unset = Unset
  Blank = Blank
  Garbage = Garbage
  t1 = t1
  c1 = c1
  Nobody = Nobody
  IngressEnv <- MCIngressEnv
  CoreEnv <- MCCoreEnv
  Driver = {"sqlite", "postgres"}
  OldId = {1}
  Conn = {c1}
  MaxFrame = 4
  MaxFault = 2
SPECIFICATION Spec
INVARIANTS RunsWithinAssumptions MigratedWhole FramesInStep StoppedServesNobody
PROPERTY Recovers
CHECK_DEADLOCK FALSE
