CONSTANTS
  d1 = d1
  c1 = c1
  c2 = c2
  k1 = k1
  k2 = k2
  Up = Up
  Down = Down
  NoDevice = NoDevice
  NoCommand = NoCommand
  Device = {d1}
  Command = {c1, c2}
  Client = {Up, Down}
  Loop = Down
  Main = Up
  Conn = {k1, k2}
  Capacity = 2
  EmptyPayload = {}
  MessageBuffer = 1
  MaxBatch = 2
  Receipts = {}
  FaultKinds = {"timeout", "dbError", "coreRestart", "stop", "publishError", "silence"}
  MaxFaults = 1
SPECIFICATION Spec
INVARIANTS OnePlace SessionKept
SYMMETRY MCSymmetry
CHECK_DEADLOCK FALSE
