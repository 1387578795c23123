CONSTANTS
  d1 = d1
  d2 = d2
  c1 = c1
  c2 = c2
  c3 = c3
  k1 = k1
  k2 = k2
  NoDevice = NoDevice
  NoCommand = NoCommand
  Device = {d1}
  Command = {c1, c2}
  Client = {k1, k2}
  Capacity = 1
  EmptyPayload = {}
  CodeOf <- MCSameCode
  Unsendable = {}
  MaxBatch = 1
  Fragile = {k1, k2}
  FaultKinds = {"timeout", "dbError", "coreRestart", "ingressCrash", "shutdown"}
  MaxFaults = 1
SPECIFICATION Spec
INVARIANTS TypeOK OneCopyUntilSettled AckedWasReceived StopAndWait RequeueNeverRefused
PROPERTIES LifecycleSpec
SYMMETRY MCSymmetry
CHECK_DEADLOCK FALSE
