CONSTANTS
  d1 = d1
  d2 = d2
  c1 = c1
  c2 = c2
  c3 = c3
  k1 = k1
  k2 = k2
  NoDevice = NoDevice
  NoCommand = NoCommand
  Device = {d1}
  Command = {c1, c2}
  Client = {k1, k2}
  Capacity = 2
  EmptyPayload = {}
  CodeOf <- MCSameCode
  Unsendable = {}
  MaxBatch = 1
  Fragile = {k1}
  FaultKinds = {}
  MaxFaults = 0
SPECIFICATION FairSpec
PROPERTIES EventuallySettled
CHECK_DEADLOCK FALSE
