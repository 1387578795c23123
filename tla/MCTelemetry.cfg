CONSTANTS
  d1 = d1
  d2 = d2
  z1 = z1
  t0 = t0
  t1 = t1
  s1 = s1
  Device = {d1, d2}
  Node = {z1}
  NoName = NoName
  Tenant = {t0, t1}
  DefaultTenant = t0
  Home = t1
  NoTenant = NoTenant
  Session = {s1}
  Mqtt = mqtt
  Readings <- MCReadings
  Time = {1, 2}
  FrameKind = {"telemetry", "error", "heartbeat"}
  TopicKind = {"telemetry", "error", "heartbeat"}
  MaxReport = 2
  MaxFault = 1
SPECIFICATION Spec
INVARIANTS TypeOK AttributedToOwner AckedIsReadable EarlierLifeIsGone DoorFollowsNewest
SYMMETRY MCSymmetry
CHECK_DEADLOCK FALSE
