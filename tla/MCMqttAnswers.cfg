CONSTANTS
  d1 = d1
  c1 = c1
  c2 = c2
  k1 = k1
  k2 = k2
  Up = Up
  Down = Down
  NoDevice = NoDevice
  NoCommand = NoCommand
  Device = {d1}
  Command = {c1}
  Client = {Up, Down}
  Loop = Down
  Main = Up
  Conn = {k1}
  Capacity = 2
  EmptyPayload = {}
  MessageBuffer = 1
  MaxBatch = 2
  Receipts = {"acked", "failed"}
  FaultKinds = {"timeout", "dbError", "coreRestart", "publishError", "silence"}
  MaxFaults = 1
SPECIFICATION FairSpec
INVARIANTS TypeOK RowAgrees
PROPERTIES OnceSpec QueueIsPolled AnswerIsRecorded
CHECK_DEADLOCK FALSE
