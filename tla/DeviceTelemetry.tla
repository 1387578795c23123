-------------------------- MODULE DeviceTelemetry --------------------------
(***************************************************************************)
(* What devices report and what readers of the management API see of it.   *)
(* A TCP session, or the one goroutine that handles MQTT messages, maps a  *)
(* message to an event (adapter/mqtt/mapper.go, customtcp/session.go),     *)
(* normalises it and calls the Core, which stores it in several steps      *)
(* (web/ingress/service.go, storage/telemetry).  Meanwhile the device may  *)
(* be deleted and registered again, the call may time out at its caller    *)
(* and go on in the Core, and the database may fail.                       *)
(***************************************************************************)
EXTENDS Naturals, Sequences, FiniteSets, SequencesExt

CONSTANTS
  Device,    \* UUIDs that may be registered
  Node,      \* UUIDs computed for the friendly names of zigbee2mqtt
  NoName,
  Tenant, DefaultTenant, NoTenant,
  Home,      \* the tenant the devices belong to at first
  Session,   \* TCP sessions
  Mqtt,      \* the message goroutine of the MQTT adapter
  Readings,  \* metric values of a message: sets of [type, on]
  Time,      \* observation times
  FrameKind, \* kinds of frames that are sent by TCP
  TopicKind, \* kinds of messages that are published on a device's topics
  MaxReport,
  MaxFault   \* bound of the number of faults and deletions together

Name == Device \cup Node
Source == Session \cup {Mqtt}

ASSUME NameAssumption == NoName \notin Name /\ Device \cap Node = {}
ASSUME TenantAssumption == Home \in Tenant /\ DefaultTenant \in Tenant /\ NoTenant \notin Tenant
ASSUME SourceAssumption == Mqtt \notin Session
ASSUME ReadingAssumption ==
  /\ \A r \in Readings : IsFiniteSet(r) /\ r \subseteq [type : Nat, on : BOOLEAN]
  /\ Time \subseteq Nat
ASSUME BoundAssumption ==
  /\ FrameKind \subseteq {"telemetry", "log", "event", "error", "heartbeat"}
  /\ TopicKind \subseteq {"telemetry", "state", "log", "event", "error", "heartbeat"}
  /\ MaxReport \in Nat /\ MaxFault \in Nat

VARIABLES
  embedded,  \* MQTT_MODE: the broker is our own and knows who is connected
  auth,      \* the device each TCP session is bound to
  tenantOf,  \* the devices table
  rows,      \* the metrics and logs tables
  lastSeen,  \* InMemoryDevicePresenceStore: the report last heard of, 0 is none
  deleting,  \* devices whose DeleteDevice has still to call its hook
  handler,   \* the report each source waits for, 0 is none
  calls,     \* RPCs that the Core carries out
  sent,      \* history: every event that was made of a message
  acked,     \* history: reports whose ACK was written to the device
  disturbed, \* history: reports whose call met a fault
  gone,      \* history: reports that had been stored when the device was deleted
  faults

core == <<tenantOf, rows, lastSeen, deleting>>
history == <<acked, disturbed, gone>>
vars == <<embedded, auth, core, handler, calls, sent, history, faults>>

ReportId == 1 .. MaxReport
Kind == {"telemetry", "state", "log", "event", "error", "heartbeat", "availability"}
Part == {"metrics", "log", "raw", "heartbeat"}
EventRecord ==
  [from : Source, owner : Name \cup {NoName}, uuid : Name, kind : Kind,
   readings : SUBSET [type : Nat, on : BOOLEAN], at : Nat, todo : Seq(Part), known : BOOLEAN]

TypeOK ==
  /\ embedded \in BOOLEAN
  /\ auth \in [Session -> Device]
  /\ tenantOf \in [Device -> Tenant \cup {NoTenant}]
  /\ rows \subseteq [report : ReportId, part : Part \ {"heartbeat"}, tenant : Tenant]
  /\ lastSeen \in [Name -> 0 .. MaxReport]
  /\ deleting \subseteq Device
  /\ handler \in [Source -> 0 .. MaxReport]
  /\ calls \subseteq [report : ReportId, tenant : Tenant \cup {NoTenant}, todo : Seq(Part)]
  /\ sent \in Seq(EventRecord) /\ Len(sent) <= MaxReport
  /\ acked \subseteq ReportId /\ disturbed \subseteq ReportId
  /\ gone \in [Name -> SUBSET ReportId]
  /\ faults \in 0 .. MaxFault

Registered(d) == d \in Device /\ tenantOf[d] # NoTenant

Init ==
  /\ embedded \in BOOLEAN
  /\ auth \in [Session -> Device]
  /\ tenantOf = [d \in Device |-> Home]
  /\ rows = {}
  /\ lastSeen = [d \in Name |-> 0]
  /\ deleting = {}
  /\ handler = [s \in Source |-> 0]
  /\ calls = {}
  /\ sent = <<>>
  /\ acked = {}
  /\ disturbed = {}
  /\ gone = [d \in Name |-> {}]
  /\ faults = 0

-----------------------------------------------------------------------------
(* Messages and the events they become.                                    *)

\* mapGoster: telemetry without metrics becomes a state; only telemetry and
\* topics the mapper does not know are searched for metrics.
GosterEvent(m) ==
  [uuid |-> IF m.named # NoName THEN m.named ELSE m.topic,
   kind |-> IF m.kind = "telemetry" /\ m.readings = {} /\ m.states THEN "state" ELSE m.kind,
   readings |-> IF m.kind \in {"telemetry", "error"} THEN m.readings ELSE {}]

\* mapZigbee2MQTT: the kind follows from what the payload holds.
ZigbeeEvent(m) ==
  [uuid |-> m.topic,
   kind |-> CASE m.kind = "availability" -> "availability"
              [] m.kind # "availability" /\ m.readings # {} -> "telemetry"
              [] m.kind # "availability" /\ m.readings = {} -> IF m.states THEN "state" ELSE "event",
   readings |-> IF m.kind = "availability" THEN {} ELSE m.readings]

Map(m) == IF m.topic \in Node THEN ZigbeeEvent(m) ELSE GosterEvent(m)

\* Faulty variant: a UUID in the payload goes before the connection's.
BugPrincipal(connected, m) ==
  IF connected # NoName /\ m.named = NoName THEN connected ELSE Map(m).uuid

\* applyConnectionPrincipal: on the topics of a device it is the connection that
\* says who speaks.
Principal(connected, m) ==
  IF connected # NoName /\ m.topic \in Device THEN connected ELSE Map(m).uuid

\* The token of a payload has the last word; AuthenticateDevice knows whose it is.
Attributed(connected, m) ==
  IF m.topic \in Device /\ m.token # NoName THEN m.token ELSE Principal(connected, m)

\* What ingestOne stores, in its order.  Core has no table for states.
PartsOf(kind, readings, log) ==
  (IF readings # {} THEN <<"metrics">> ELSE <<>>) \o
  (IF log THEN <<"log">> ELSE <<>>) \o
  (IF kind \in {"event", "error"} THEN <<"raw">> ELSE <<>>)

MaySend(s) == Len(sent) < MaxReport /\ handler[s] = 0

\* NormalizeEvent, with who sent it and what it has to leave in the tables.
Event(s, owner, uuid, kind, readings, at, log) ==
  [from |-> s, owner |-> owner, uuid |-> uuid, kind |-> kind, readings |-> readings,
   at |-> IF readings = {} THEN 0 ELSE at,
   todo |-> PartsOf(kind, readings, log), known |-> Registered(uuid)]

\* The adapter calls ReportHeartbeat or IngestEvents and waits.
Send(s, event) ==
  /\ handler' = [handler EXCEPT ![s] = Len(sent) + 1]
  /\ sent' = Append(sent, event)
  /\ calls' = calls \cup
       {[report |-> Len(sent) + 1, tenant |-> NoTenant,
         todo |-> IF event.kind = "heartbeat" THEN <<"heartbeat">> ELSE event.todo]}
  /\ UNCHANGED <<embedded, auth, core, history, faults>>

\* What a session reports is its own device's, whatever the frame says.
Report(s, kind, readings, at, log) ==
  Send(s, Event(s, auth[s], auth[s], kind, readings, at, log))

\* HandleMetrics, HandleLog, HandleEvent, HandleError and HandleHeartbeat: a
\* frame of metrics has one data type.
SendFrame(s, kind, readings, at) ==
  /\ MaySend(s)
  /\ kind = "telemetry" <=> readings # {}
  /\ \A r \in readings : r.type \in {1, 2, 4, 8, 16}
  /\ \A r, q \in readings : r.type = q.type
  /\ Report(s, kind, readings, at, kind \in {"log", "error"})

\* handleMessage: a message of another topic than the connection's, or whose
\* token is refused or another device's, is dropped.
HandleMessage(connected, m) ==
  /\ connected # NoName /\ m.topic \in Device => m.topic = connected
  /\ m.topic \in Device /\ m.token # NoName =>
       Registered(m.token) /\ (connected # NoName => m.token = connected)
  /\ LET event == Map(m)
         owner == IF connected # NoName THEN connected ELSE m.token
     IN Send(Mqtt, Event(Mqtt, owner, Attributed(connected, m), event.kind, event.readings,
                         m.at, m.topic \in Device /\ m.kind = "log"))

Message ==
  [topic : Device, kind : TopicKind, named : Device \cup {NoName},
   token : Device \cup {NoName}, readings : Readings, states : {FALSE}, at : Time] \cup
  [topic : Node, kind : {"telemetry", "availability"}, named : {NoName},
   token : {NoName}, readings : Readings, states : BOOLEAN, at : Time]

\* allowedTopic: a connected device writes some of its own topics, and every topic
\* of zigbee2mqtt.
AllowedTopic(connected, m) == m.topic \in Node \/ (m.topic = connected /\ m.kind # "error")

Publish ==
  /\ MaySend(Mqtt)
  /\ \E m \in Message, connected \in IF embedded THEN Device ELSE {NoName} :
       /\ embedded => AllowedTopic(connected, m)
       /\ HandleMessage(connected, m)

-----------------------------------------------------------------------------
(* The Core.                                                               *)

\* Faulty variant: the lookup of a registered device is skipped.
BugTenantFor(d) == DefaultTenant

\* ResolveDeviceTenant, whose every error means the default tenant.
TenantFor(d) == IF Registered(d) THEN tenantOf[d] ELSE DefaultTenant

Resolve(c) ==
  /\ c.todo # <<>> /\ c.tenant = NoTenant /\ Head(c.todo) # "heartbeat"
  /\ calls' = (calls \ {c}) \cup {[c EXCEPT !.tenant = TenantFor(sent[c.report].uuid)]}
  /\ UNCHANGED <<embedded, auth, core, handler, sent, history, faults>>

\* The lookup fails and the report is filed under the default tenant.
ResolveFails(c) ==
  /\ c.todo # <<>> /\ c.tenant = NoTenant /\ Head(c.todo) # "heartbeat"
  /\ faults < MaxFault
  /\ faults' = faults + 1
  /\ calls' = (calls \ {c}) \cup {[c EXCEPT !.tenant = DefaultTenant]}
  /\ disturbed' = disturbed \cup {c.report}
  /\ UNCHANGED <<embedded, auth, core, handler, sent, acked, gone>>

\* Faulty variant: the row is inserted without its tenant.
BugStore(c) ==
  /\ c.todo # <<>> /\ c.tenant # NoTenant
  /\ rows' = rows \cup {[report |-> c.report, part |-> Head(c.todo), tenant |-> NoTenant]}
  /\ calls' = (calls \ {c}) \cup {[c EXCEPT !.todo = Tail(@), !.tenant = NoTenant]}
  /\ UNCHANGED <<embedded, auth, tenantOf, lastSeen, deleting, handler, sent, history, faults>>

Store(c) ==
  /\ c.todo # <<>> /\ c.tenant # NoTenant
  /\ rows' = rows \cup {[report |-> c.report, part |-> Head(c.todo), tenant |-> c.tenant]}
  /\ calls' = (calls \ {c}) \cup {[c EXCEPT !.todo = Tail(@), !.tenant = NoTenant]}
  /\ UNCHANGED <<embedded, auth, tenantOf, lastSeen, deleting, handler, sent, history, faults>>

\* The INSERT fails: ingestOne gives up, and what it stored before stays.
StoreFails(c) ==
  /\ c.todo # <<>> /\ c.tenant # NoTenant
  /\ faults < MaxFault
  /\ faults' = faults + 1
  /\ calls' = (calls \ {c}) \cup {[c EXCEPT !.todo = <<>>, !.tenant = NoTenant]}
  /\ disturbed' = disturbed \cup {c.report}
  /\ UNCHANGED <<embedded, auth, core, handler, sent, acked, gone>>

HandleHeartbeat(c) ==
  /\ c.todo = <<"heartbeat">>
  /\ lastSeen' = [lastSeen EXCEPT ![sent[c.report].uuid] = c.report]
  /\ calls' = (calls \ {c}) \cup {[c EXCEPT !.todo = <<>>]}
  /\ UNCHANGED <<embedded, auth, tenantOf, rows, deleting, handler, sent, history, faults>>

\* The adapter goes on, whatever the results say: it asked for partial success.
\* A TCP session writes the ACK of everything but an error report.
Acknowledge(s) ==
  /\ handler' = [handler EXCEPT ![s] = 0]
  /\ acked' = IF s \in Session /\ sent[handler[s]].kind # "error"
                THEN acked \cup {handler[s]} ELSE acked

Finish(c) ==
  /\ c.todo = <<>>
  /\ calls' = calls \ {c}
  /\ LET s == sent[c.report].from IN
     IF handler[s] = c.report THEN Acknowledge(s) ELSE UNCHANGED <<handler, acked>>
  /\ UNCHANGED <<embedded, auth, core, sent, disturbed, gone, faults>>

\* The RPC times out: the session logs it and writes the ACK all the same.
Timeout(s) ==
  /\ handler[s] # 0
  /\ faults < MaxFault
  /\ faults' = faults + 1
  /\ Acknowledge(s)
  /\ disturbed' = disturbed \cup {handler[s]}
  /\ UNCHANGED <<embedded, auth, core, calls, sent, gone>>

\* A restart of the Core forgets who is online and cuts off its calls.
RestartCore ==
  /\ faults < MaxFault
  /\ faults' = faults + 1
  /\ lastSeen' = [d \in Name |-> 0]
  /\ deleting' = {}
  /\ disturbed' = disturbed \cup {c.report : c \in calls}
  /\ calls' = {[c EXCEPT !.todo = <<>>, !.tenant = NoTenant] : c \in calls}
  /\ UNCHANGED <<embedded, auth, tenantOf, rows, handler, sent, acked, gone>>

-----------------------------------------------------------------------------
(* Deletion and registration.                                              *)

Stored(n) == {r \in rows : r.report = n}
Of(d) == {n \in DOMAIN sent : sent[n].uuid = d}
UnderWay == {c.report : c \in calls}

\* Faulty variant: the logs stay.
BugRemoved(d) == {r \in rows : r.report \in Of(d) /\ r.part = "metrics"}

Removed(d) == {r \in rows : r.report \in Of(d)}

\* DestroyDevice: one transaction.
Destroy(d) ==
  /\ faults < MaxFault
  /\ faults' = faults + 1
  /\ Registered(d)
  /\ tenantOf' = [tenantOf EXCEPT ![d] = NoTenant]
  /\ rows' = rows \ Removed(d)
  /\ deleting' = deleting \cup {d}
  /\ gone' = [gone EXCEPT ![d] = @ \cup (Of(d) \ UnderWay)]
  /\ disturbed' = disturbed \cup (Of(d) \cap UnderWay)
  /\ UNCHANGED <<embedded, auth, lastSeen, handler, calls, sent, acked>>

\* The hook OnDelete, which is DevicePresenceService.RemoveDevice.
RemoveDevice(d) ==
  /\ d \in deleting
  /\ deleting' = deleting \ {d}
  /\ lastSeen' = [lastSeen EXCEPT ![d] = 0]
  /\ UNCHANGED <<embedded, auth, tenantOf, rows, handler, calls, sent, history, faults>>

\* The device is registered again, perhaps by another tenant.
Register(d, t) ==
  /\ ~Registered(d)
  /\ tenantOf' = [tenantOf EXCEPT ![d] = t]
  /\ UNCHANGED <<embedded, auth, rows, lastSeen, deleting, handler, calls, sent, history, faults>>

Next ==
  \/ \E s \in Session, kind \in FrameKind, readings \in Readings, at \in Time :
       SendFrame(s, kind, readings, at)
  \/ Publish
  \/ \E c \in calls :
       \/ Resolve(c) \/ ResolveFails(c) \/ Store(c) \/ StoreFails(c)
       \/ HandleHeartbeat(c) \/ Finish(c)
  \/ \E s \in Source : Timeout(s)
  \/ \E d \in Device : Destroy(d) \/ RemoveDevice(d) \/ (\E t \in Tenant : Register(d, t))
  \/ RestartCore

Spec == Init /\ [][Next]_vars

-----------------------------------------------------------------------------
(* What a reader sees.                                                     *)

\* metricPoints: the data type is cut to eight bits.
Points(n) ==
  {[type |-> r.type % 256, on |-> r.on, at |-> sent[n].at] : r \in sent[n].readings}

\* QueryMetricsByTenant, in every order that is sorted by time.
QueryMetrics(t, d) ==
  LET seen == UNION {Points(r.report) : r \in
                {q \in rows : q.part = "metrics" /\ q.tenant = t /\ sent[q.report].uuid = d}}
  IN {s \in SetToSeqs(seen) : \A i, j \in DOMAIN s : i < j => s[i].at <= s[j].at}

\* Faulty variant: the first signal found is kept.
BugNewer(signal, point) == signal = <<>>

Newer(signal, point) == signal = <<>> \/ point.at >= signal[1].at

\* One pass over the points for a signal; it is empty until seen.
LatestSignal(points, type) ==
  FoldLeft(LAMBDA signal, p :
             IF p.type = type /\ Newer(signal, p) THEN <<p>> ELSE signal, <<>>, points)

EvaluateAccessControl(points) ==
  LET a == LatestSignal(points, 8)
      b == LatestSignal(points, 16)
  IN IF a = <<>> \/ b = <<>> THEN "unknown"
     ELSE IF a[1].on /\ b[1].on THEN "open" ELSE "closed"

\* AccessControlHandler
DoorState(t, d) == {EvaluateAccessControl(points) : points \in QueryMetrics(t, d)}

-----------------------------------------------------------------------------
(* Properties.                                                             *)

\* Whatever UUID a payload names, the rows and the presence it leaves for a device
\* are those of the device that the session, the MQTT connection or the payload's
\* token stands for.  Zigbee nodes have no owner: every connected device may report
\* for them, but what it reports of them is never taken for a device's.
AttributedToOwner ==
  \A n \in DOMAIN sent :
    sent[n].uuid \in Device /\ (Stored(n) # {} \/ lastSeen[sent[n].uuid] = n) =>
      sent[n].owner \in {sent[n].uuid, NoName}

\* A report that was acknowledged is there for the readers of the device's tenant,
\* completely, unless its call met a fault or the device was deleted meanwhile.
AckedIsReadable ==
  \A n \in acked :
    LET d == sent[n].uuid IN
    n \notin disturbed /\ sent[n].known /\ n \notin gone[d] =>
      \A i \in DOMAIN sent[n].todo :
        [report |-> n, part |-> sent[n].todo[i], tenant |-> tenantOf[d]] \in rows

\* What had been stored of a device when it was deleted never comes back, neither
\* its rows nor its presence, also if the device is registered again at once.
EarlierLifeIsGone ==
  \A d \in Device :
    /\ \A n \in gone[d] : Stored(n) = {}
    /\ lastSeen[d] \in gone[d] => d \in deleting

\* The door is said to be open or closed by the newest of the device's stored
\* signals, in whatever order the reports came in and the rows are read.
DoorFollowsNewest ==
  \A d \in Device, t \in Tenant :
    LET points == UNION {ToSet(s) : s \in QueryMetrics(t, d)}
        newest(type) == {p \in points : p.type = type
                           /\ \A q \in points : q.type = type => q.at <= p.at}
    IN \A door \in DoorState(t, d) :
         /\ door = "unknown" <=> newest(8) = {} \/ newest(16) = {}
         /\ door = "open" => \A type \in {8, 16} : \E p \in newest(type) : p.on
         /\ door = "closed" => \E type \in {8, 16} : \E p \in newest(type) : ~p.on

=============================================================================
