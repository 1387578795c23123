CONSTANTS
  d1 = d1
  d2 = d2
  c1 = c1
  c2 = c2
  c3 = c3
  k1 = k1
  k2 = k2
  NoDevice = NoDevice
  NoCommand = NoCommand
  Device = {d1, d2}
  Command = {c1, c2, c3}
  Client = {k1, k2}
  Capacity = 3
  EmptyPayload = {c3}
  CodeOf <- MCSameCode
  Unsendable = {c2}
  MaxBatch = 2
  Fragile = {k1}
  FaultKinds = {}
  MaxFaults = 0
SPECIFICATION Spec
INVARIANTS KeptForOwner RowAgrees
CHECK_DEADLOCK FALSE
