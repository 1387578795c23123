------------------------ MODULE DeviceTelemetry_proofs ------------------------
(***************************************************************************)
(* Theorems about reports, for any sets of devices, tenants, sessions and  *)
(* readings, any number of reports and any number of faults.               *)
(***************************************************************************)
EXTENDS DeviceTelemetry, SequenceTheorems, FiniteSetTheorems, WellFoundedInduction, TLAPS

\* A call works on a report that was sent, and a call that has a tenant is about
\* to store a part: the strengthening that makes TypeOK inductive.
CallInv ==
  \A c \in calls :
    /\ c.report \in DOMAIN sent
    /\ c.tenant # NoTenant => c.todo # <<>> /\ Head(c.todo) # "heartbeat"

\* Whatever is mapped, attributed and normalised is an event, and the report of a
\* device whose owner is known is its owner's.
OwnReport(event) == event.uuid \in Device => event.owner \in {event.uuid, NoName}
SentOk == \A n \in DOMAIN sent : OwnReport(sent[n])

TelemetryInv == TypeOK /\ CallInv /\ SentOk

\* What the normalizer splits a message into is what a report may hold.
LEMMA PartsAreParts ==
  ASSUME NEW kind, NEW readings, NEW log
  PROVE  PartsOf(kind, readings, log) \in Seq(Part)
<1>1. <<>> \in Seq(Part)
  OBVIOUS
<1>2. \A part \in Part : <<part>> \in Seq(Part)
  OBVIOUS
<1>3. <<"metrics">> \in Seq(Part) /\ <<"log">> \in Seq(Part) /\ <<"raw">> \in Seq(Part)
  BY <1>2 DEF Part
<1>4. \A a, b, d \in Seq(Part) : a \o b \o d \in Seq(Part)
  OBVIOUS
<1> DEFINE a == IF readings # {} THEN <<"metrics">> ELSE <<>>
           b == IF log THEN <<"log">> ELSE <<>>
           d == IF kind \in {"event", "error"} THEN <<"raw">> ELSE <<>>
<1>5. a \in Seq(Part) /\ b \in Seq(Part) /\ d \in Seq(Part)
  BY <1>1, <1>3
<1>6. PartsOf(kind, readings, log) = a \o b \o d
  BY DEF PartsOf
<1> QED BY <1>4, <1>5, <1>6

\* NormalizeEvent makes an event of what is typed.
LEMMA EventIsTyped ==
  ASSUME NEW s \in Source, NEW owner \in Name \cup {NoName}, NEW uuid \in Name,
         NEW kind \in Kind, NEW readings \in SUBSET [type : Nat, on : BOOLEAN],
         NEW at \in Nat, NEW log
  PROVE  Event(s, owner, uuid, kind, readings, at, log) \in EventRecord
<1>1. PartsOf(kind, readings, log) \in Seq(Part)
  BY PartsAreParts
<1>2. Registered(uuid) \in BOOLEAN
  BY DEF Registered
<1>3. (IF readings = {} THEN 0 ELSE at) \in Nat
  OBVIOUS
<1> QED BY <1>1, <1>2, <1>3 DEF Event, EventRecord

\* Send adds one report and the call that is to store it, and nothing else.
LEMMA SendStep ==
  ASSUME TelemetryInv, NEW s \in Source, NEW event \in EventRecord,
         OwnReport(event), MaySend(s), Send(s, event)
  PROVE  TelemetryInv'
<1> DEFINE c == [report |-> Len(sent) + 1, tenant |-> NoTenant,
                 todo |-> IF event.kind = "heartbeat" THEN <<"heartbeat">> ELSE event.todo]
<1> USE DEF TelemetryInv, TypeOK
<1>1. Len(sent) \in Nat /\ Len(sent) + 1 \in ReportId /\ Len(sent) + 1 \in 0 .. MaxReport
  BY BoundAssumption DEF MaySend, ReportId
<1>2. sent' \in Seq(EventRecord) /\ Len(sent') = Len(sent) + 1
  BY DEF Send
<1>3. DOMAIN sent' = DOMAIN sent \cup {Len(sent) + 1}
  BY <1>1, <1>2
<1>4. \A n \in DOMAIN sent : sent'[n] = sent[n]
  BY DEF Send
<1>5. sent'[Len(sent) + 1] = event
  BY DEF Send
<1>6. event.todo \in Seq(Part) /\ <<"heartbeat">> \in Seq(Part)
  BY DEF EventRecord, Part
<1>7. c \in [report : ReportId, tenant : Tenant \cup {NoTenant}, todo : Seq(Part)]
  BY <1>1, <1>6
<1>8. calls' = calls \cup {c}
  BY DEF Send
<1>9. handler' \in [Source -> 0 .. MaxReport]
  BY <1>1 DEF Send
<1>10. UNCHANGED <<embedded, auth, tenantOf, rows, lastSeen, deleting, acked, disturbed, gone, faults>>
  BY DEF Send, core, history
<1>11. CallInv'
  BY <1>3, <1>8 DEF CallInv
<1>12. SentOk'
  BY <1>3, <1>4, <1>5 DEF SentOk
<1>13. TypeOK'
  <2> HIDE DEF c
  <2> QED BY <1>1, <1>2, <1>7, <1>8, <1>9, <1>10
<1> QED BY <1>11, <1>12, <1>13

\* A frame over custom TCP, ...
LEMMA FrameStep ==
  ASSUME TelemetryInv, NEW s \in Session, NEW kind \in FrameKind, NEW readings \in Readings,
         NEW at \in Time, SendFrame(s, kind, readings, at)
  PROVE  TelemetryInv'
<1>1. auth[s] \in Name /\ s \in Source
  BY DEF TelemetryInv, TypeOK, Name, Source
<1>2. kind \in Kind /\ readings \in SUBSET [type : Nat, on : BOOLEAN] /\ at \in Nat
  BY BoundAssumption, ReadingAssumption DEF Kind
<1>3. PICK log : Send(s, Event(s, auth[s], auth[s], kind, readings, at, log)) /\ MaySend(s)
  BY DEF SendFrame, Report
<1> DEFINE event == Event(s, auth[s], auth[s], kind, readings, at, log)
<1>4. event \in EventRecord
  BY <1>1, <1>2, EventIsTyped
<1>5. OwnReport(event)
  BY DEF Event, OwnReport
<1> HIDE DEF event
<1>6. Send(s, event)
  BY <1>3 DEF event
<1> QED BY <1>1, <1>3, <1>4, <1>5, <1>6, SendStep

\* What a message of the broker is mapped to.
LEMMA MapIsTyped ==
  ASSUME NEW m \in Message
  PROVE  /\ Map(m).uuid \in Name /\ Map(m).kind \in Kind
         /\ Map(m).readings \in SUBSET [type : Nat, on : BOOLEAN]
         /\ m.at \in Nat /\ m.topic \in Name /\ m.token \in Device \cup {NoName}
<1>1. /\ m.topic \in Name /\ m.token \in Device \cup {NoName} /\ m.at \in Nat
      /\ m.named \in Device \cup {NoName} /\ m.readings \in Readings
      /\ m.kind \in Kind
  BY BoundAssumption, ReadingAssumption DEF Message, Name, Kind
<1>2. m.readings \in SUBSET [type : Nat, on : BOOLEAN] /\ {} \in SUBSET [type : Nat, on : BOOLEAN]
  BY <1>1, ReadingAssumption
<1>3. CASE m.topic \in Node
  <2>1. ZigbeeEvent(m).kind \in Kind
    BY DEF ZigbeeEvent, Kind
  <2> QED BY <1>1, <1>2, <1>3, <2>1 DEF Map, ZigbeeEvent
<1>4. CASE m.topic \notin Node
  <2>1. GosterEvent(m).uuid \in Name
    BY <1>1 DEF GosterEvent, Name
  <2>2. GosterEvent(m).kind \in Kind /\ GosterEvent(m).readings \in SUBSET [type : Nat, on : BOOLEAN]
    BY <1>1, <1>2 DEF GosterEvent, Kind
  <2> QED BY <1>1, <1>4, <2>1, <2>2 DEF Map
<1> QED BY <1>3, <1>4

\* ... a message over MQTT, ...
LEMMA PublishStep == TelemetryInv /\ Publish => TelemetryInv'
<1> SUFFICES ASSUME TelemetryInv, Publish
             PROVE  TelemetryInv'
  OBVIOUS
<1>1. PICK m \in Message, connected \in Device \cup {NoName} : HandleMessage(connected, m)
  BY DEF Publish
<1> DEFINE owner == IF connected # NoName THEN connected ELSE m.token
           uuid == Attributed(connected, m)
           event == Event(Mqtt, owner, uuid, Map(m).kind, Map(m).readings, m.at,
                          m.topic \in Device /\ m.kind = "log")
<1>3. Send(Mqtt, event) /\ MaySend(Mqtt) /\ Mqtt \in Source
  BY <1>1 DEF HandleMessage, Publish, Source
<1>4. /\ connected # NoName /\ m.topic \in Device => m.topic = connected
      /\ connected # NoName /\ m.topic \in Device /\ m.token # NoName => m.token = connected
  BY <1>1 DEF HandleMessage
<1>6. owner \in Name \cup {NoName} /\ uuid \in Name
  BY MapIsTyped DEF Attributed, Principal, Name
<1>7. uuid \in Device => owner \in {uuid, NoName}
  <2>1. CASE m.topic \in Device
    BY <1>4, <2>1 DEF Attributed, Principal
  <2>2. CASE m.topic \notin Device
    <3>1. m.topic \in Node
      BY <2>2 DEF Message
    <3>2. uuid = m.topic
      BY <2>2, <3>1 DEF Attributed, Principal, Map, ZigbeeEvent
    <3> QED BY <2>2, <3>2
  <2> QED BY <2>1, <2>2
<1>8. event \in EventRecord
  <2> HIDE DEF owner, uuid
  <2> QED BY <1>3, <1>6, MapIsTyped, EventIsTyped
<1>9. OwnReport(event)
  <2> HIDE DEF owner, uuid
  <2> QED BY <1>7 DEF Event, OwnReport
<1> HIDE DEF event, owner, uuid
<1> QED BY <1>3, <1>8, <1>9, SendStep

-----------------------------------------------------------------------------
\* A call that has stored a part, or given up, is like before in its report.
LEMMA CallKept ==
  ASSUME NEW c \in [report : ReportId, tenant : Tenant \cup {NoTenant}, todo : Seq(Part)],
         NEW t \in Tenant \cup {NoTenant}
  PROVE  /\ [c EXCEPT !.tenant = t] = [report |-> c.report, tenant |-> t, todo |-> c.todo]
         /\ [c EXCEPT !.todo = <<>>, !.tenant = NoTenant] =
              [report |-> c.report, tenant |-> NoTenant, todo |-> <<>>]
         /\ [c EXCEPT !.todo = <<>>] = [report |-> c.report, tenant |-> c.tenant, todo |-> <<>>]
         /\ c.todo # <<>> =>
              [c EXCEPT !.todo = Tail(@), !.tenant = NoTenant] =
                [report |-> c.report, tenant |-> NoTenant, todo |-> Tail(c.todo)]
<1>1. PICK report \in ReportId, tenant \in Tenant \cup {NoTenant}, todo \in Seq(Part) :
        c = [report |-> report, tenant |-> tenant, todo |-> todo]
  OBVIOUS
<1>2. [c EXCEPT !.tenant = t] = [report |-> report, tenant |-> t, todo |-> todo]
  BY <1>1
<1>3. ASSUME NEW new
      PROVE  [c EXCEPT !.todo = new, !.tenant = NoTenant] =
               [report |-> report, tenant |-> NoTenant, todo |-> new]
  <2>1. [c EXCEPT !.todo = new] = [report |-> report, tenant |-> tenant, todo |-> new]
    BY <1>1
  <2>2. [[report |-> report, tenant |-> tenant, todo |-> new] EXCEPT !.tenant = NoTenant] =
          [report |-> report, tenant |-> NoTenant, todo |-> new]
    OBVIOUS
  <2> QED BY <2>1, <2>2, Zenon
<1>4. [c EXCEPT !.todo = <<>>] = [report |-> report, tenant |-> tenant, todo |-> <<>>]
  BY <1>1
<1>5. c.report = report /\ c.tenant = tenant /\ c.todo = todo
  BY <1>1
<1> QED BY <1>2, <1>3, <1>4, <1>5

\* The Core's steps of one call: the rows and the presence they write are typed.
LEMMA CallStep ==
  ASSUME TelemetryInv, NEW c \in calls,
         Resolve(c) \/ ResolveFails(c) \/ Store(c) \/ StoreFails(c) \/ HandleHeartbeat(c)
  PROVE  TelemetryInv'
<1> USE DEF TelemetryInv
<1>1. /\ c \in [report : ReportId, tenant : Tenant \cup {NoTenant}, todo : Seq(Part)]
      /\ c.report \in DOMAIN sent
      /\ c.tenant # NoTenant => c.todo # <<>> /\ Head(c.todo) # "heartbeat"
  BY DEF TypeOK, CallInv
<1>2. SentOk' /\ DOMAIN sent' = DOMAIN sent
  BY DEF SentOk, Resolve, ResolveFails, Store, StoreFails, HandleHeartbeat
<1>3. ASSUME NEW t \in Tenant, c.todo # <<>>, Head(c.todo) # "heartbeat",
             calls' = (calls \ {c}) \cup {[c EXCEPT !.tenant = t]}
      PROVE  calls' \subseteq [report : ReportId, tenant : Tenant \cup {NoTenant}, todo : Seq(Part)]
             /\ CallInv'
  <2>1. [c EXCEPT !.tenant = t] = [report |-> c.report, tenant |-> t, todo |-> c.todo]
    BY <1>1, CallKept
  <2> QED BY <1>1, <1>2, <1>3, <2>1 DEF TypeOK, CallInv
<1>4. ASSUME NEW todo \in Seq(Part), NEW t, t = NoTenant,
             calls' = (calls \ {c}) \cup {[report |-> c.report, tenant |-> t, todo |-> todo]}
      PROVE  calls' \subseteq [report : ReportId, tenant : Tenant \cup {NoTenant}, todo : Seq(Part)]
             /\ CallInv'
  BY <1>1, <1>2, <1>4 DEF TypeOK, CallInv
<1>e. <<>> \in Seq(Part)
  OBVIOUS
<1>5. CASE Resolve(c)
  <2>1. TenantFor(sent[c.report].uuid) \in Tenant
    BY TenantAssumption DEF TenantFor, Registered, TypeOK
  <2>2. calls' \subseteq [report : ReportId, tenant : Tenant \cup {NoTenant}, todo : Seq(Part)]
        /\ CallInv'
    BY <1>3, <1>5, <2>1 DEF Resolve
  <2> QED BY <1>2, <1>5, <2>2 DEF Resolve, TypeOK, core, history
<1>6. CASE ResolveFails(c)
  <2>1. calls' \subseteq [report : ReportId, tenant : Tenant \cup {NoTenant}, todo : Seq(Part)]
        /\ CallInv'
    BY <1>3, <1>6, TenantAssumption DEF ResolveFails
  <2>2. faults' \in 0 .. MaxFault
    BY <1>6, BoundAssumption DEF ResolveFails, TypeOK
  <2>3. disturbed' \subseteq ReportId
    BY <1>1, <1>6 DEF ResolveFails, TypeOK
  <2> QED BY <1>2, <1>6, <2>1, <2>2, <2>3 DEF ResolveFails, TypeOK, core
<1>7. CASE Store(c)
  <2>1. Tail(c.todo) \in Seq(Part) /\ Head(c.todo) \in Part
    BY <1>1, <1>7 DEF Store
  <2>2. calls' = (calls \ {c}) \cup
                   {[report |-> c.report, tenant |-> NoTenant, todo |-> Tail(c.todo)]}
    BY <1>1, <1>7, CallKept DEF Store
  <2>3. calls' \subseteq [report : ReportId, tenant : Tenant \cup {NoTenant}, todo : Seq(Part)]
        /\ CallInv'
    BY <1>4, <2>1, <2>2
  <2>4. rows' \subseteq [report : ReportId, part : Part \ {"heartbeat"}, tenant : Tenant]
    BY <1>1, <1>7, <2>1 DEF Store, TypeOK
  <2> QED BY <1>2, <1>7, <2>3, <2>4 DEF Store, TypeOK, history
<1>8. CASE StoreFails(c)
  <2>1. calls' = (calls \ {c}) \cup {[report |-> c.report, tenant |-> NoTenant, todo |-> <<>>]}
    BY <1>1, <1>8, CallKept DEF StoreFails
  <2>2. calls' \subseteq [report : ReportId, tenant : Tenant \cup {NoTenant}, todo : Seq(Part)]
        /\ CallInv'
    BY <1>4, <1>e, <2>1
  <2>3. faults' \in 0 .. MaxFault
    BY <1>8, BoundAssumption DEF StoreFails, TypeOK
  <2>4. disturbed' \subseteq ReportId
    BY <1>1, <1>8 DEF StoreFails, TypeOK
  <2> QED BY <1>2, <1>8, <2>2, <2>3, <2>4 DEF StoreFails, TypeOK, core
<1>9. CASE HandleHeartbeat(c)
  <2>1. c.tenant = NoTenant
    BY <1>1, <1>9 DEF HandleHeartbeat
  <2>2. calls' = (calls \ {c}) \cup {[report |-> c.report, tenant |-> c.tenant, todo |-> <<>>]}
    BY <1>1, <1>9, CallKept DEF HandleHeartbeat
  <2>3. calls' \subseteq [report : ReportId, tenant : Tenant \cup {NoTenant}, todo : Seq(Part)]
        /\ CallInv'
    BY <1>4, <1>e, <2>1, <2>2
  <2>4. lastSeen \in [Name -> 0 .. MaxReport] /\ c.report \in 0 .. MaxReport
    BY <1>1 DEF TypeOK, ReportId
  <2>5. lastSeen' = [lastSeen EXCEPT ![sent[c.report].uuid] = c.report]
    BY <1>9 DEF HandleHeartbeat
  <2>6. lastSeen' \in [Name -> 0 .. MaxReport]
    BY <2>4, <2>5
  <2> QED BY <1>2, <1>9, <2>3, <2>6 DEF HandleHeartbeat, TypeOK, history
<1> QED BY <1>5, <1>6, <1>7, <1>8, <1>9

\* The adapter's steps: an answer or a timeout lets it go on.
LEMMA AdapterStep ==
  ASSUME TelemetryInv, (\E c \in calls : Finish(c)) \/ (\E s \in Source : Timeout(s))
  PROVE  TelemetryInv'
<1> USE DEF TelemetryInv
<1>1. ASSUME NEW s \in Source, handler[s] # 0, Acknowledge(s)
      PROVE  handler' \in [Source -> 0 .. MaxReport] /\ acked' \subseteq ReportId
             /\ handler[s] \in ReportId
  <2>1. 0 \in 0 .. MaxReport /\ handler[s] \in ReportId
    BY <1>1, BoundAssumption DEF TypeOK, ReportId
  <2> QED BY <1>1, <2>1 DEF Acknowledge, TypeOK
<1>2. ASSUME NEW c \in calls, Finish(c)
      PROVE  TelemetryInv'
  <2>1. c.report \in DOMAIN sent /\ c.report \in ReportId
    BY DEF CallInv, TypeOK
  <2>2. sent[c.report] \in EventRecord
    BY <2>1 DEF TypeOK
  <2> DEFINE s == sent[c.report].from
  <2>a. s \in Source
    BY <2>2 DEF EventRecord
  <2>b. IF handler[s] = c.report THEN Acknowledge(s) ELSE UNCHANGED <<handler, acked>>
    BY <1>2 DEF Finish
  <2>c. c.report # 0
    BY <2>1 DEF ReportId
  <2>d. handler \in [Source -> 0 .. MaxReport] /\ acked \subseteq ReportId
    BY DEF TypeOK
  <2> HIDE DEF s
  <2>3. handler' \in [Source -> 0 .. MaxReport] /\ acked' \subseteq ReportId
    BY <1>1, <2>a, <2>b, <2>c, <2>d
  <2> QED BY <1>2, <2>3 DEF Finish, TypeOK, CallInv, SentOk, core
<1>3. ASSUME NEW s \in Source, Timeout(s)
      PROVE  TelemetryInv'
  <2>1. handler' \in [Source -> 0 .. MaxReport] /\ acked' \subseteq ReportId
        /\ handler[s] \in ReportId
    BY <1>1, <1>3 DEF Timeout
  <2>2. faults' \in 0 .. MaxFault
    BY <1>3, BoundAssumption DEF Timeout, TypeOK
  <2> QED BY <1>3, <2>1, <2>2 DEF Timeout, TypeOK, CallInv, SentOk, core
<1> QED BY <1>2, <1>3

\* Restarts, deletions and registrations.
LEMMA DeviceStep ==
  ASSUME TelemetryInv,
         \/ RestartCore
         \/ \E d \in Device : Destroy(d) \/ RemoveDevice(d) \/ (\E t \in Tenant : Register(d, t))
  PROVE  TelemetryInv'
<1> USE DEF TelemetryInv
<1>1. CASE RestartCore
  <2>1. \A c \in calls :
          /\ c \in [report : ReportId, tenant : Tenant \cup {NoTenant}, todo : Seq(Part)]
          /\ [c EXCEPT !.todo = <<>>, !.tenant = NoTenant] =
               [report |-> c.report, tenant |-> NoTenant, todo |-> <<>>]
    BY CallKept DEF TypeOK
  <2>2. calls' = {[c EXCEPT !.todo = <<>>, !.tenant = NoTenant] : c \in calls}
        /\ sent' = sent
    BY <1>1 DEF RestartCore
  <2>3. \A b \in calls' : \E c \in calls : b = [report |-> c.report, tenant |-> NoTenant, todo |-> <<>>]
    BY <2>1, <2>2
  <2>4. calls' \subseteq [report : ReportId, tenant : Tenant \cup {NoTenant}, todo : Seq(Part)]
    <3>1. <<>> \in Seq(Part)
      OBVIOUS
    <3>2. ASSUME NEW b \in calls'
          PROVE  b \in [report : ReportId, tenant : Tenant \cup {NoTenant}, todo : Seq(Part)]
      <4>1. PICK c \in calls : b = [report |-> c.report, tenant |-> NoTenant, todo |-> <<>>]
        BY <2>3
      <4>2. c.report \in ReportId
        BY <2>1
      <4> QED BY <3>1, <4>1, <4>2
    <3> QED BY <3>2
  <2>5. CallInv'
    BY <2>2, <2>3 DEF CallInv
  <2>6. 0 \in 0 .. MaxReport
    BY BoundAssumption
  <2>7. lastSeen' = [d \in Name |-> 0] /\ deleting' = {} /\ faults < MaxFault /\ faults' = faults + 1
        /\ disturbed' = disturbed \cup {c.report : c \in calls}
    BY <1>1 DEF RestartCore
  <2>8. faults \in 0 .. MaxFault /\ disturbed \subseteq ReportId
    BY DEF TypeOK
  <2>9. faults' \in 0 .. MaxFault
    BY <2>7, <2>8, BoundAssumption
  <2>10. disturbed' \subseteq ReportId
    BY <2>1, <2>7, <2>8
  <2>11. lastSeen' \in [Name -> 0 .. MaxReport] /\ deleting' \subseteq Device
    BY <2>6, <2>7
  <2>12. UNCHANGED <<embedded, auth, tenantOf, rows, handler, sent, acked, gone>>
    BY <1>1 DEF RestartCore
  <2> QED BY <2>4, <2>5, <2>9, <2>10, <2>11, <2>12 DEF TypeOK, SentOk
<1>2. ASSUME NEW d \in Device, Destroy(d)
      PROVE  TelemetryInv'
  <2>1. Of(d) \subseteq ReportId
    <3>1. sent \in Seq(EventRecord) /\ Len(sent) <= MaxReport
      BY DEF TypeOK
    <3>2. \A n \in DOMAIN sent : n \in ReportId
      BY <3>1, BoundAssumption DEF ReportId
    <3> QED BY <3>2 DEF Of
  <2>2. tenantOf' \in [Device -> Tenant \cup {NoTenant}] /\ rows' \subseteq rows
        /\ deleting' \subseteq Device
    BY <1>2 DEF Destroy, TypeOK
  <2>3. gone' \in [Name -> SUBSET ReportId] /\ disturbed' \subseteq ReportId
    BY <1>2, <2>1 DEF Destroy, TypeOK
  <2>4. faults' \in 0 .. MaxFault
    BY <1>2, BoundAssumption DEF Destroy, TypeOK
  <2> QED BY <1>2, <2>2, <2>3, <2>4 DEF Destroy, TypeOK, CallInv, SentOk
<1>3. ASSUME NEW d \in Device, RemoveDevice(d)
      PROVE  TelemetryInv'
  <2>1. lastSeen' \in [Name -> 0 .. MaxReport]
    <3>1. lastSeen \in [Name -> 0 .. MaxReport] /\ 0 \in 0 .. MaxReport
      BY BoundAssumption DEF TypeOK
    <3>2. lastSeen' = [lastSeen EXCEPT ![d] = 0]
      BY <1>3 DEF RemoveDevice
    <3> QED BY <3>1, <3>2
  <2> QED BY <1>3, <2>1 DEF RemoveDevice, TypeOK, CallInv, SentOk, history
<1>4. ASSUME NEW d \in Device, NEW t \in Tenant, Register(d, t)
      PROVE  TelemetryInv'
  <2>1. tenantOf' \in [Device -> Tenant \cup {NoTenant}]
    BY <1>4 DEF Register, TypeOK
  <2> QED BY <1>4, <2>1 DEF Register, TypeOK, CallInv, SentOk, history
<1> QED BY <1>1, <1>2, <1>3, <1>4

\* So a report in the adapter, in a call or in the store is well-formed and its owner's.
LEMMA TelemetryInductive == Spec => []TelemetryInv
<1>1. Init => TelemetryInv
  BY TenantAssumption, BoundAssumption
  DEF Init, TelemetryInv, TypeOK, CallInv, SentOk
<1>2. TelemetryInv /\ [Next]_vars => TelemetryInv'
  <2> SUFFICES ASSUME TelemetryInv, [Next]_vars
               PROVE  TelemetryInv'
    OBVIOUS
  <2>1. CASE UNCHANGED vars
    BY <2>1 DEF vars, core, history, TelemetryInv, TypeOK, CallInv, SentOk
  <2>2. ASSUME NEW c \in calls, Finish(c)
        PROVE  TelemetryInv'
    BY <2>2, AdapterStep
  <2> QED
    BY <2>1, <2>2, FrameStep, PublishStep, CallStep, AdapterStep, DeviceStep DEF Next
<1> QED BY <1>1, <1>2, PTL DEF Spec

\* Reports, calls, tables and presence are well typed: rows are filed under a
\* tenant that exists and a report is stored before its heartbeat could be.
THEOREM TypeCorrect == Spec => []TypeOK
<1>1. TelemetryInv => TypeOK
  BY DEF TelemetryInv
<1> QED BY <1>1, TelemetryInductive, PTL

\* Whatever UUID a payload names, what is stored for a device is what the session,
\* the connection or the token that stands for it reported.  Of a Zigbee node every
\* connected device may report; what it reports there is never taken for a device's.
THEOREM ReportsBelongToOwners == Spec => []AttributedToOwner
<1>1. TelemetryInv => AttributedToOwner
  BY DEF TelemetryInv, SentOk, OwnReport, AttributedToOwner
<1> QED BY <1>1, TelemetryInductive, PTL

-----------------------------------------------------------------------------
\* The reports of a deleted device were its own and no call works on them any
\* more: the strengthening that makes EarlierLifeIsGone inductive.
GoneInv ==
  /\ \A d \in Device : \A n \in gone[d] :
       n \in DOMAIN sent /\ sent[n].uuid = d /\ n \notin UnderWay
  /\ EarlierLifeIsGone

\* Steps that store nothing, take up no old report and see nobody again.
LEMMA GoneKept ==
  ASSUME TypeOK, GoneInv,
         gone' = gone, rows' \subseteq rows, lastSeen' = lastSeen, deleting' = deleting,
         \A n \in DOMAIN sent : n \in DOMAIN sent' /\ sent'[n] = sent[n],
         \A n \in DOMAIN sent : n \in UnderWay' => n \in UnderWay
  PROVE  GoneInv'
<1>1. \A n \in ReportId : Stored(n)' \subseteq Stored(n)
  BY DEF Stored
<1>2. \A d \in Device : gone[d] \subseteq ReportId
  BY DEF TypeOK, Name
<1>3. \A d \in Device : \A n \in gone'[d] : Stored(n)' = {}
  BY <1>1, <1>2 DEF GoneInv, EarlierLifeIsGone
<1> QED BY <1>3 DEF GoneInv, EarlierLifeIsGone

\* Whoever still works on a report did so before.
LEMMA UnderWayShrinks ==
  ASSUME \A b \in calls' : \E c \in calls : b.report = c.report
  PROVE  UnderWay' \subseteq UnderWay
BY DEF UnderWay

\* The call c goes on, as another record of the same report.
LEMMA CallGoesOn ==
  ASSUME NEW c \in calls, NEW b, b.report = c.report, calls' = (calls \ {c}) \cup {b}
  PROVE  UnderWay' \subseteq UnderWay
BY DEF UnderWay

\* Nothing of a device that was deleted comes back, whatever the calls that are
\* under way store later, and if the device is registered again meanwhile.
THEOREM DeletedStaysDeleted == Spec => []EarlierLifeIsGone
<1>1. Init => GoneInv
  BY DEF Init, GoneInv, EarlierLifeIsGone, Name
<1>2. TelemetryInv /\ GoneInv /\ [Next]_vars => GoneInv'
  <2> SUFFICES ASSUME TelemetryInv, GoneInv, [Next]_vars
               PROVE  GoneInv'
    OBVIOUS
  <2>0. TypeOK /\ CallInv
    BY DEF TelemetryInv
  <2>1. CASE UNCHANGED vars
    <3>1. UNCHANGED <<gone, rows, lastSeen, deleting, sent, calls>>
      BY <2>1 DEF vars, core, history
    <3> QED BY <2>0, <3>1, GoneKept DEF UnderWay
  <2>2. ASSUME NEW s, NEW event, Send(s, event)
        PROVE  GoneInv'
    <3>1. UNCHANGED <<gone, rows, lastSeen, deleting>>
      BY <2>2 DEF Send, core, history
    <3>2. sent \in Seq(EventRecord) /\ sent' = Append(sent, event)
      BY <2>0, <2>2 DEF Send, TypeOK
    <3>3. \A n \in DOMAIN sent : n \in DOMAIN sent' /\ sent'[n] = sent[n] /\ n # Len(sent) + 1
      BY <3>2
    <3>4. \A b \in calls' : b \in calls \/ b.report = Len(sent) + 1
      BY <2>2 DEF Send
    <3>5. \A n \in DOMAIN sent : n \in UnderWay' => n \in UnderWay
      BY <3>3, <3>4 DEF UnderWay
    <3> QED BY <2>0, <3>1, <3>3, <3>5, GoneKept
  <2>3. ASSUME NEW s \in Session, NEW kind \in FrameKind, NEW readings \in Readings,
               NEW at \in Time, SendFrame(s, kind, readings, at)
        PROVE  GoneInv'
    BY <2>2, <2>3 DEF SendFrame, Report
  <2>4. CASE Publish
    BY <2>2, <2>4 DEF Publish, HandleMessage
  <2>5. ASSUME NEW c \in calls, Resolve(c) \/ ResolveFails(c) \/ StoreFails(c) \/ Finish(c)
        PROVE  GoneInv'
    <3>1. UNCHANGED <<gone, rows, lastSeen, deleting, sent>>
      BY <2>5 DEF Resolve, ResolveFails, StoreFails, Finish, core, history
    <3>2. c \in [report : ReportId, tenant : Tenant \cup {NoTenant}, todo : Seq(Part)]
      BY <2>0 DEF TypeOK
    <3>3. UnderWay' \subseteq UnderWay
      <4>1. CASE Finish(c)
        BY <4>1 DEF Finish, UnderWay
      <4>2. CASE Resolve(c)
        <5>1. PICK t : calls' = (calls \ {c}) \cup {[c EXCEPT !.tenant = t]}
          BY <4>2 DEF Resolve
        <5>2. [c EXCEPT !.tenant = t].report = c.report
          BY <3>2
        <5> QED BY <5>1, <5>2, CallGoesOn
      <4>3. CASE ResolveFails(c)
        <5>1. calls' = (calls \ {c}) \cup {[c EXCEPT !.tenant = DefaultTenant]}
          BY <4>3 DEF ResolveFails
        <5>2. [c EXCEPT !.tenant = DefaultTenant].report = c.report
          BY <3>2
        <5> QED BY <5>1, <5>2, CallGoesOn
      <4>4. CASE StoreFails(c)
        <5>1. calls' = (calls \ {c}) \cup {[report |-> c.report, tenant |-> NoTenant, todo |-> <<>>]}
          BY <3>2, <4>4, CallKept DEF StoreFails
        <5> QED BY <5>1, CallGoesOn
      <4> QED BY <2>5, <4>1, <4>2, <4>3, <4>4
    <3> QED BY <2>0, <3>1, <3>3, GoneKept
  <2>6. ASSUME NEW c \in calls, Store(c)
        PROVE  GoneInv'
    <3>1. c \in [report : ReportId, tenant : Tenant \cup {NoTenant}, todo : Seq(Part)]
      BY <2>0 DEF TypeOK
    <3>2. calls' = (calls \ {c}) \cup
                     {[report |-> c.report, tenant |-> NoTenant, todo |-> Tail(c.todo)]}
      BY <2>6, <3>1, CallKept DEF Store
    <3>3. UnderWay' \subseteq UnderWay
      BY <3>2, CallGoesOn
    <3>4. UNCHANGED <<gone, lastSeen, deleting, sent>>
      BY <2>6 DEF Store, history
    <3>5. \A d \in Device : \A n \in gone[d] : n # c.report
      BY DEF GoneInv, UnderWay
    <3>6. rows' = rows \cup {[report |-> c.report, part |-> Head(c.todo), tenant |-> c.tenant]}
      BY <2>6 DEF Store
    <3>7. \A d \in Device : \A n \in gone[d] : Stored(n)' = {}
      BY <3>5, <3>6 DEF Stored, GoneInv, EarlierLifeIsGone
    <3> QED BY <3>3, <3>4, <3>7 DEF GoneInv, EarlierLifeIsGone
  <2>7. ASSUME NEW c \in calls, HandleHeartbeat(c)
        PROVE  GoneInv'
    <3>1. c \in [report : ReportId, tenant : Tenant \cup {NoTenant}, todo : Seq(Part)]
      BY <2>0 DEF TypeOK
    <3>2. calls' = (calls \ {c}) \cup {[report |-> c.report, tenant |-> c.tenant, todo |-> <<>>]}
      BY <2>7, <3>1, CallKept DEF HandleHeartbeat
    <3>3. UnderWay' \subseteq UnderWay
      BY <3>2, CallGoesOn
    <3>4. UNCHANGED <<gone, rows, deleting, sent>>
      BY <2>7 DEF HandleHeartbeat, history
    <3>5. lastSeen' = [lastSeen EXCEPT ![sent[c.report].uuid] = c.report]
          /\ lastSeen \in [Name -> 0 .. MaxReport]
      BY <2>0, <2>7 DEF HandleHeartbeat, TypeOK
    <3>6. \A d \in Device : c.report \notin gone[d]
      BY DEF GoneInv, UnderWay
    <3>7. \A d \in Device : lastSeen'[d] \in gone[d] => d \in deleting
      BY <3>5, <3>6 DEF GoneInv, EarlierLifeIsGone, Name
    <3> QED BY <3>3, <3>4, <3>7 DEF GoneInv, EarlierLifeIsGone, Stored
  <2>8. ASSUME NEW s \in Source, Timeout(s)
        PROVE  GoneInv'
    <3>1. UNCHANGED <<gone, rows, lastSeen, deleting, sent, calls>>
      BY <2>8 DEF Timeout, core
    <3> QED BY <2>0, <3>1, GoneKept DEF UnderWay
  <2>9. CASE RestartCore
    <3>1. UNCHANGED <<gone, rows, sent>> /\ lastSeen' = [d \in Name |-> 0]
      BY <2>9 DEF RestartCore
    <3>2. \A b \in calls' : \E c \in calls : b.report = c.report
      <4>1. \A c \in calls :
              [c EXCEPT !.todo = <<>>, !.tenant = NoTenant] =
                [report |-> c.report, tenant |-> NoTenant, todo |-> <<>>]
        BY <2>0, CallKept DEF TypeOK
      <4>2. calls' = {[c EXCEPT !.todo = <<>>, !.tenant = NoTenant] : c \in calls}
        BY <2>9 DEF RestartCore
      <4> QED BY <4>1, <4>2
    <3>3. UnderWay' \subseteq UnderWay
      BY <3>2, UnderWayShrinks
    <3>4. \A d \in Device : d \in Name /\ 0 \notin gone[d]
      BY <2>0 DEF TypeOK, Name, ReportId
    <3> QED BY <3>1, <3>3, <3>4 DEF GoneInv, EarlierLifeIsGone, Stored
  <2>10. ASSUME NEW d \in Device, Destroy(d)
         PROVE  GoneInv'
    <3>1. /\ gone' = [gone EXCEPT ![d] = @ \cup (Of(d) \ UnderWay)]
          /\ rows' = rows \ Removed(d)
          /\ deleting' = deleting \cup {d}
          /\ UNCHANGED <<lastSeen, calls, sent>>
      BY <2>10 DEF Destroy
    <3>2. gone \in [Name -> SUBSET ReportId] /\ Device \subseteq Name
      BY <2>0 DEF TypeOK, Name
    <3>3. UnderWay' = UnderWay
      BY <3>1 DEF UnderWay
    <3>4. \A e \in Device : \A n \in gone'[e] :
            n \in gone[e] \/ (e = d /\ n \in Of(d) /\ n \notin UnderWay)
      BY <3>1, <3>2
    <3>5. \A n \in Of(d) : Stored(n)' = {}
      BY <3>1 DEF Stored, Removed
    <3>6. \A e \in Device : \A n \in gone'[e] : Stored(n)' = {}
      BY <3>1, <3>4, <3>5 DEF GoneInv, EarlierLifeIsGone, Stored
    <3>7. \A e \in Device : \A n \in gone'[e] :
            n \in DOMAIN sent' /\ sent'[n].uuid = e /\ n \notin UnderWay'
      BY <3>1, <3>3, <3>4 DEF GoneInv, Of
    <3>8. \A e \in Device : lastSeen'[e] \in gone'[e] => e \in deleting'
      BY <3>1, <3>2, <3>4 DEF GoneInv, EarlierLifeIsGone
    <3> QED BY <3>6, <3>7, <3>8 DEF GoneInv, EarlierLifeIsGone
  <2>11. ASSUME NEW d \in Device, RemoveDevice(d)
         PROVE  GoneInv'
    <3>1. UNCHANGED <<gone, rows, sent, calls>> /\ deleting' = deleting \ {d}
          /\ lastSeen' = [lastSeen EXCEPT ![d] = 0]
      BY <2>11 DEF RemoveDevice, history
    <3>2. \A e \in Device : e \in Name /\ 0 \notin gone[e]
      BY <2>0 DEF TypeOK, Name, ReportId
    <3>3. \A e \in Device : lastSeen'[e] \in gone[e] => e \in deleting'
      BY <2>0, <3>1, <3>2 DEF GoneInv, EarlierLifeIsGone, TypeOK
    <3> QED BY <3>1, <3>3 DEF GoneInv, EarlierLifeIsGone, Stored, UnderWay
  <2>12. ASSUME NEW d \in Device, NEW t \in Tenant, Register(d, t)
         PROVE  GoneInv'
    <3>1. UNCHANGED <<gone, rows, lastSeen, deleting, sent, calls>>
      BY <2>12 DEF Register, history
    <3> QED BY <2>0, <3>1, GoneKept DEF UnderWay
  <2> QED
    BY <2>1, <2>3, <2>4, <2>5, <2>6, <2>7, <2>8, <2>9, <2>10, <2>11, <2>12 DEF Next
<1>3. GoneInv => EarlierLifeIsGone
  BY DEF GoneInv
<1> QED BY <1>1, <1>2, <1>3, TelemetryInductive, PTL DEF Spec

-----------------------------------------------------------------------------
\* A report whose call met no fault, of a device that was registered when it was
\* sent and was not deleted since.
Clean(n) == n \notin disturbed /\ sent[n].known /\ n \notin gone[sent[n].uuid]

\* What the report n has to leave behind is in the tables, or among parts.
Complete(n, parts) ==
  \A i \in DOMAIN sent[n].todo :
    \/ [report |-> n, part |-> sent[n].todo[i], tenant |-> tenantOf[sent[n].uuid]] \in rows
    \/ sent[n].todo[i] \in parts

\* A call of the Core has still to store what is missing, for the right tenant.
Fits(c) ==
  Clean(c.report) =>
    /\ c.tenant \in {NoTenant, tenantOf[sent[c.report].uuid]}
    /\ Complete(c.report, {c.todo[j] : j \in DOMAIN c.todo})

\* What is missing of a clean report is still to be stored, and nothing is missing
\* of one that was acknowledged: the strengthening that makes AckedIsReadable
\* inductive.
ReadInv ==
  /\ \A n \in DOMAIN sent :
       /\ Clean(n) => Registered(sent[n].uuid)
       /\ \A i \in DOMAIN sent[n].todo : sent[n].todo[i] # "heartbeat"
  /\ \A c \in calls : Fits(c)
  /\ \A n \in acked : n \in DOMAIN sent /\ (Clean(n) => Complete(n, {}))
  /\ \A s \in Source : handler[s] # 0 => handler[s] \in DOMAIN sent

\* Steps that send nothing and leave the devices alone: a report stays clean only
\* if it was, and what is stored stays.
LEMMA ReadKept ==
  ASSUME ReadInv, UNCHANGED <<sent, tenantOf, gone>>,
         rows \subseteq rows', disturbed \subseteq disturbed',
         \A c \in calls' : c \in calls \/ Fits(c)',
         \A n \in acked' : n \in acked \/ (n \in DOMAIN sent /\ (Clean(n)' => Complete(n, {})')),
         \A s \in Source : handler'[s] # 0 => handler'[s] \in DOMAIN sent
  PROVE  ReadInv'
<1>1. \A n : Clean(n)' => Clean(n)
  BY DEF Clean
<1>2. \A n, parts : Complete(n, parts) => Complete(n, parts)'
  BY DEF Complete
<1>3. \A c : Fits(c) => Fits(c)'
  BY <1>1, <1>2 DEF Fits
<1>4. \A n \in DOMAIN sent : Registered(sent[n].uuid)' <=> Registered(sent[n].uuid)
  BY DEF Registered
<1>5. \A n \in DOMAIN sent' :
        /\ Clean(n)' => Registered(sent[n].uuid)'
        /\ \A i \in DOMAIN sent'[n].todo : sent'[n].todo[i] # "heartbeat"
  BY <1>1, <1>4 DEF ReadInv
<1>6. \A c \in calls' : Fits(c)'
  BY <1>3 DEF ReadInv
<1>7. \A n \in acked' : n \in DOMAIN sent' /\ (Clean(n)' => Complete(n, {})')
  BY <1>1, <1>2 DEF ReadInv
<1> QED BY <1>5, <1>6, <1>7 DEF ReadInv

\* The parts of an event are the rows it leaves, and a heartbeat leaves none.
LEMMA EventParts ==
  ASSUME NEW kind, NEW readings, NEW log
  PROVE  /\ PartsOf(kind, readings, log) \in Seq({"metrics", "log", "raw"})
         /\ kind = "heartbeat" /\ readings = {} /\ ~log => PartsOf(kind, readings, log) = <<>>
<1> DEFINE S == {"metrics", "log", "raw"}
           a == IF readings # {} THEN <<"metrics">> ELSE <<>>
           b == IF log THEN <<"log">> ELSE <<>>
           d == IF kind \in {"event", "error"} THEN <<"raw">> ELSE <<>>
<1>1. <<>> \in Seq(S) /\ \A part \in S : <<part>> \in Seq(S)
  OBVIOUS
<1>2. \A x, y, z \in Seq(S) : x \o y \o z \in Seq(S)
  OBVIOUS
<1>3. a \in Seq(S) /\ b \in Seq(S) /\ d \in Seq(S)
  BY <1>1
<1>4. PartsOf(kind, readings, log) = a \o b \o d
  BY DEF PartsOf
<1>5. kind = "heartbeat" /\ readings = {} /\ ~log => a = <<>> /\ b = <<>> /\ d = <<>>
  OBVIOUS
<1>6. <<>> \o <<>> \o <<>> = <<>>
  BY ConcatEmptySeq
<1> HIDE DEF a, b, d
<1>7. a \o b \o d \in Seq(S)
  BY <1>2, <1>3
<1> QED BY <1>4, <1>5, <1>6, <1>7

\* A new report is missing as a whole, and its call is to store all of it.
LEMMA SentIsMissing ==
  ASSUME TelemetryInv, ReadInv, NEW s \in Source, NEW event \in EventRecord, Send(s, event),
         event.kind = "heartbeat" => event.todo = <<>>,
         \A i \in DOMAIN event.todo : event.todo[i] # "heartbeat",
         event.known => Registered(event.uuid)
  PROVE  ReadInv'
<1>n. PICK new : new = Len(sent) + 1
  OBVIOUS
<1>c. PICK c : c = [report |-> new, tenant |-> NoTenant,
                    todo |-> IF event.kind = "heartbeat" THEN <<"heartbeat">> ELSE event.todo]
  OBVIOUS
<1>1. /\ sent \in Seq(EventRecord) /\ sent' = Append(sent, event)
      /\ UNCHANGED <<tenantOf, rows, gone, disturbed, acked>>
      /\ calls' = calls \cup {c} /\ handler' = [handler EXCEPT ![s] = new]
      /\ handler \in [Source -> 0 .. MaxReport]
  BY <1>n, <1>c DEF Send, TelemetryInv, TypeOK, core, history
<1>2. /\ DOMAIN sent' = DOMAIN sent \cup {new}
      /\ sent'[new] = event /\ \A n \in DOMAIN sent : sent'[n] = sent[n]
  <2>1. Len(sent) \in Nat /\ DOMAIN sent = 1 .. Len(sent)
    BY <1>1
  <2>2. Len(sent') = new /\ DOMAIN sent' = 1 .. new
    BY <1>1, <1>n
  <2> QED BY <1>1, <1>n, <2>1, <2>2
<1>3. \A n \in DOMAIN sent :
        (Clean(n)' <=> Clean(n)) /\ \A parts : Complete(n, parts)' <=> Complete(n, parts)
  BY <1>1, <1>2 DEF Clean, Complete
<1>4. \A d : Registered(d)' <=> Registered(d)
  BY <1>1 DEF Registered
<1>5. \A b \in calls : b.report \in DOMAIN sent
  BY DEF TelemetryInv, CallInv
<1>6. \A b \in calls : Fits(b)'
  BY <1>1, <1>2, <1>3, <1>5 DEF Fits, ReadInv
<1>7. Fits(c)'
  <2>1. c.report = new /\ c.tenant = NoTenant
        /\ c.todo = IF event.kind = "heartbeat" THEN <<"heartbeat">> ELSE event.todo
    BY <1>c
  <2>2. \A i \in DOMAIN event.todo : event.todo[i] \in {c.todo[j] : j \in DOMAIN c.todo}
    BY <2>1
  <2>3. PICK parts : parts = {c.todo[j] : j \in DOMAIN c.todo}
    OBVIOUS
  <2>4. Complete(new, parts)'
    BY <1>2, <2>2, <2>3 DEF Complete
  <2>5. Complete(c.report, {c.todo[j] : j \in DOMAIN c.todo})'
    BY <2>1, <2>3, <2>4 DEF Complete
  <2> QED BY <2>1, <2>5 DEF Fits
<1>8. ASSUME NEW n \in DOMAIN sent'
      PROVE  /\ Clean(n)' => Registered(sent[n].uuid)'
             /\ \A i \in DOMAIN sent'[n].todo : sent'[n].todo[i] # "heartbeat"
  <2>1. CASE n \in DOMAIN sent
    BY <1>1, <1>2, <1>3, <2>1 DEF ReadInv, Registered
  <2>2. CASE n = new
    BY <1>1, <1>2, <2>2 DEF Clean, Registered
  <2> QED BY <1>2, <2>1, <2>2
<1>9. \A b \in calls' : Fits(b)'
  BY <1>1, <1>6, <1>7
<1>10. \A n \in acked' : n \in DOMAIN sent' /\ (Clean(n)' => Complete(n, {})')
  BY <1>1, <1>2, <1>3 DEF ReadInv
<1>11. \A q \in Source : handler'[q] # 0 => handler'[q] \in DOMAIN sent'
  BY <1>1, <1>2 DEF ReadInv
<1> QED BY <1>8, <1>9, <1>10, <1>11 DEF ReadInv

\* What a device or the broker sends is a report, missing as a whole.
LEMMA ReportsAreMissing ==
  ASSUME TelemetryInv, ReadInv,
         \/ \E s \in Session, kind \in FrameKind, readings \in Readings, at \in Time :
              SendFrame(s, kind, readings, at)
         \/ Publish
  PROVE  ReadInv'
<1>1. ASSUME NEW s \in Source, NEW owner \in Name \cup {NoName}, NEW uuid \in Name,
             NEW kind \in Kind, NEW readings \in SUBSET [type : Nat, on : BOOLEAN],
             NEW at \in Nat, NEW log, kind = "heartbeat" => readings = {} /\ ~log,
             Send(s, Event(s, owner, uuid, kind, readings, at, log))
      PROVE  ReadInv'
  <2>1. PICK event : event = Event(s, owner, uuid, kind, readings, at, log)
    OBVIOUS
  <2>2. event \in EventRecord /\ Send(s, event)
    BY <1>1, <2>1, EventIsTyped
  <2>3. /\ event.kind = kind /\ event.todo = PartsOf(kind, readings, log)
        /\ event.known = Registered(uuid) /\ event.uuid = uuid
    BY <2>1 DEF Event
  <2>4. PartsOf(kind, readings, log) \in Seq({"metrics", "log", "raw"})
        /\ (kind = "heartbeat" => PartsOf(kind, readings, log) = <<>>)
    BY <1>1, EventParts
  <2>5. \A todo \in Seq({"metrics", "log", "raw"}) : \A i \in DOMAIN todo :
          todo[i] \in {"metrics", "log", "raw"}
    OBVIOUS
  <2>6. \A i \in DOMAIN event.todo : event.todo[i] # "heartbeat"
    BY <2>3, <2>4, <2>5
  <2> QED BY <2>2, <2>3, <2>4, <2>6, SentIsMissing
<1>2. ASSUME NEW s \in Session, NEW kind \in FrameKind, NEW readings \in Readings,
             NEW at \in Time, SendFrame(s, kind, readings, at)
      PROVE  ReadInv'
  <2>1. auth[s] \in Name /\ s \in Source
    BY DEF TelemetryInv, TypeOK, Name, Source
  <2>2. kind \in Kind /\ readings \in SUBSET [type : Nat, on : BOOLEAN] /\ at \in Nat
    BY BoundAssumption, ReadingAssumption DEF Kind
  <2>3. PICK log : /\ Send(s, Event(s, auth[s], auth[s], kind, readings, at, log))
                   /\ log = (kind \in {"log", "error"})
    BY <1>2 DEF SendFrame, Report
  <2>4. kind = "heartbeat" => readings = {} /\ ~log
    BY <1>2, <2>3 DEF SendFrame
  <2>5. auth[s] \in Name \cup {NoName}
    BY <2>1
  <2>6. Send(s, Event(s, auth[s], auth[s], kind, readings, at, log))
    BY <2>3
  <2> QED BY <1>1, <2>1, <2>2, <2>4, <2>5, <2>6
<1>3. CASE Publish
  <2>2. PICK m \in Message, connected \in Device \cup {NoName} : HandleMessage(connected, m)
    BY <1>3 DEF Publish
  <2>3. PICK owner, uuid, log :
          /\ owner = (IF connected # NoName THEN connected ELSE m.token)
          /\ uuid = Attributed(connected, m)
          /\ log = (m.topic \in Device /\ m.kind = "log")
    OBVIOUS
  <2>4. Send(Mqtt, Event(Mqtt, owner, uuid, Map(m).kind, Map(m).readings, m.at, log))
        /\ Mqtt \in Source
    BY <2>2, <2>3 DEF HandleMessage, Source
  <2>6. owner \in Name \cup {NoName} /\ uuid \in Name
    BY <2>3, MapIsTyped DEF Attributed, Principal, Name
  <2>7. m.topic \in Node => m.topic \notin Device /\ m.kind \in {"telemetry", "availability"}
    BY NameAssumption DEF Message
  <2>8. Map(m).kind = "heartbeat" => Map(m).readings = {} /\ ~log
    <3>1. CASE m.topic \in Node
      BY <3>1, <2>7 DEF Map, ZigbeeEvent
    <3>2. CASE m.topic \notin Node
      BY <2>3, <3>2 DEF Map, GosterEvent
    <3> QED BY <3>1, <3>2
  <2>9. /\ Map(m).kind \in Kind /\ m.at \in Nat
        /\ Map(m).readings \in SUBSET [type : Nat, on : BOOLEAN]
    BY MapIsTyped
  <2> QED BY <1>1, <2>4, <2>6, <2>8, <2>9
<1> QED BY <1>2, <1>3

\* The Core stores what is missing, part after part, for the device's own tenant.
LEMMA CallsFit ==
  ASSUME TelemetryInv, ReadInv, NEW c \in calls,
         Resolve(c) \/ ResolveFails(c) \/ Store(c) \/ StoreFails(c) \/ HandleHeartbeat(c)
  PROVE  ReadInv'
<1>1. /\ c \in [report : ReportId, tenant : Tenant \cup {NoTenant}, todo : Seq(Part)]
      /\ c.report \in DOMAIN sent /\ Fits(c)
      /\ c.tenant # NoTenant => c.todo # <<>> /\ Head(c.todo) # "heartbeat"
  BY DEF TelemetryInv, TypeOK, CallInv, ReadInv
<1>2. UNCHANGED <<sent, tenantOf, gone, handler, acked>> /\ rows \subseteq rows'
      /\ disturbed \subseteq disturbed'
  BY DEF Resolve, ResolveFails, Store, StoreFails, HandleHeartbeat, core, history
<1>3. ASSUME NEW b, calls' = (calls \ {c}) \cup {b}, Fits(b)'
      PROVE  ReadInv'
  <2>1. \A a \in calls' : a \in calls \/ Fits(a)'
    BY <1>3
  <2>2. \A s \in Source : handler'[s] # 0 => handler'[s] \in DOMAIN sent
    BY <1>2 DEF ReadInv
  <2> QED BY <1>2, <2>1, <2>2, ReadKept
<1>4. \A n : Clean(n)' => Clean(n)
  BY <1>2 DEF Clean
<1>5. \A n, parts : Complete(n, parts) => Complete(n, parts)'
  BY <1>2 DEF Complete
<1>6. CASE Resolve(c)
  <2>1. PICK b : b = [report |-> c.report, tenant |-> TenantFor(sent[c.report].uuid),
                      todo |-> c.todo]
    OBVIOUS
  <2>2. TenantFor(sent[c.report].uuid) \in Tenant
    BY TenantAssumption DEF TenantFor, Registered, TelemetryInv, TypeOK
  <2>3. calls' = (calls \ {c}) \cup {b}
    BY <1>1, <1>6, <2>1, <2>2, CallKept DEF Resolve
  <2>4. Clean(c.report) => Registered(sent[c.report].uuid)
    BY <1>1 DEF ReadInv
  <2>5. Clean(c.report) => TenantFor(sent[c.report].uuid) = tenantOf[sent[c.report].uuid]
    BY <2>4 DEF TenantFor
  <2>6. b.report = c.report /\ b.todo = c.todo /\ b.tenant = TenantFor(sent[c.report].uuid)
    BY <2>1
  <2>7. Fits(b)'
    BY <1>1, <1>2, <1>4, <1>5, <2>5, <2>6 DEF Fits
  <2> QED BY <1>3, <2>3, <2>7
<1>7. CASE Store(c)
  <2>1. c.todo \in Seq(Part) /\ c.todo # <<>>
    BY <1>1, <1>7 DEF Store
  <2>2. PICK b : b = [report |-> c.report, tenant |-> NoTenant, todo |-> Tail(c.todo)]
    OBVIOUS
  <2>3. calls' = (calls \ {c}) \cup {b}
    BY <1>1, <1>7, <2>1, <2>2, CallKept DEF Store
  <2>4. b.report = c.report /\ b.todo = Tail(c.todo) /\ b.tenant = NoTenant
    BY <2>2
  <2>5. \A j \in DOMAIN c.todo : c.todo[j] = Head(c.todo) \/ \E i \in DOMAIN b.todo : b.todo[i] = c.todo[j]
    <3>1. TAKE j \in DOMAIN c.todo
    <3>2. CASE j = 1
      BY <2>1, <3>2
    <3>3. CASE j # 1
      <4>1. j \in 2 .. Len(c.todo) /\ Len(c.todo) \in Nat
        BY <2>1, <3>3
      <4>2. j - 1 \in DOMAIN Tail(c.todo) /\ Tail(c.todo)[j - 1] = c.todo[j]
        BY <2>1, <4>1
      <4> QED BY <2>4, <4>2
    <3> QED BY <3>2, <3>3
  <2>6. [report |-> c.report, part |-> Head(c.todo), tenant |-> c.tenant] \in rows'
    BY <1>7 DEF Store
  <2>7. ASSUME Clean(c.report)
        PROVE  Complete(c.report, {b.todo[j] : j \in DOMAIN b.todo})'
    <3>1. c.tenant = tenantOf[sent[c.report].uuid]
      BY <1>1, <1>7, <2>7 DEF Fits, Store
    <3>2. Complete(c.report, {c.todo[j] : j \in DOMAIN c.todo})
      BY <1>1, <2>7 DEF Fits
    <3> QED BY <1>2, <2>5, <2>6, <3>1, <3>2 DEF Complete
  <2>8. Fits(b)'
    BY <1>4, <2>4, <2>7 DEF Fits
  <2> QED BY <1>3, <2>3, <2>8
<1>8. CASE HandleHeartbeat(c)
  <2>1. PICK b : b = [report |-> c.report, tenant |-> c.tenant, todo |-> <<>>]
    OBVIOUS
  <2>2. calls' = (calls \ {c}) \cup {b}
    BY <1>1, <1>8, <2>1, CallKept DEF HandleHeartbeat
  <2>3. b.report = c.report /\ b.todo = <<>> /\ b.tenant = c.tenant
    BY <2>1
  <2>4. {c.todo[j] : j \in DOMAIN c.todo} = {"heartbeat"}
    BY <1>8 DEF HandleHeartbeat
  <2>5. ASSUME NEW parts
        PROVE  Complete(c.report, {"heartbeat"}) => Complete(c.report, parts)'
    BY <1>1, <1>2 DEF Complete, ReadInv
  <2>6. Fits(b)'
    BY <1>1, <1>2, <1>4, <2>3, <2>4, <2>5 DEF Fits
  <2> QED BY <1>3, <2>2, <2>6
<1>9. CASE ResolveFails(c) \/ StoreFails(c)
  <2>1. PICK b : b.report = c.report /\ calls' = (calls \ {c}) \cup {b}
    <3>1. CASE ResolveFails(c)
      <4>1. calls' = (calls \ {c}) \cup
              {[report |-> c.report, tenant |-> DefaultTenant, todo |-> c.todo]}
        BY <1>1, <3>1, TenantAssumption, CallKept DEF ResolveFails
      <4> QED BY <4>1
    <3>2. CASE StoreFails(c)
      <4>1. calls' = (calls \ {c}) \cup
              {[report |-> c.report, tenant |-> NoTenant, todo |-> <<>>]}
        BY <1>1, <3>2, CallKept DEF StoreFails
      <4> QED BY <4>1
    <3> QED BY <1>9, <3>1, <3>2
  <2>2. c.report \in disturbed'
    BY <1>9 DEF ResolveFails, StoreFails
  <2>3. Fits(b)'
    BY <2>1, <2>2 DEF Fits, Clean
  <2> QED BY <1>3, <2>1, <2>3
<1> QED BY <1>6, <1>7, <1>8, <1>9

\* The adapter is answered when everything is stored, or it gives up.
LEMMA AnswersFit ==
  ASSUME TelemetryInv, ReadInv, (\E c \in calls : Finish(c)) \/ (\E s \in Source : Timeout(s))
  PROVE  ReadInv'
<1>1. handler \in [Source -> 0 .. MaxReport]
  BY DEF TelemetryInv, TypeOK
<1>2. ASSUME NEW s \in Source, Acknowledge(s)
      PROVE  /\ \A q \in Source : handler'[q] # 0 => handler'[q] \in DOMAIN sent
             /\ \A n \in acked' : n \in acked \/ n = handler[s]
  BY <1>1, <1>2 DEF Acknowledge, ReadInv
<1>3. ASSUME NEW c \in calls, Finish(c)
      PROVE  ReadInv'
  <2>1. UNCHANGED <<sent, tenantOf, gone, rows, disturbed>> /\ calls' \subseteq calls
    BY <1>3 DEF Finish, core
  <2>2. c.report \in DOMAIN sent /\ c.todo = <<>> /\ Fits(c)
    BY <1>3 DEF Finish, TelemetryInv, CallInv, ReadInv
  <2>3. {c.todo[j] : j \in DOMAIN c.todo} = {}
    BY <2>2
  <2>4. Clean(c.report) => Complete(c.report, {})
    BY <2>2, <2>3 DEF Fits
  <2>5. Clean(c.report)' => Complete(c.report, {})'
    BY <2>1, <2>4 DEF Clean, Complete
  <2>6. PICK s : s = sent[c.report].from
    OBVIOUS
  <2>7. s \in Source
    <3>1. sent[c.report] \in EventRecord
      BY <2>2 DEF TelemetryInv, TypeOK
    <3> QED BY <2>6, <3>1 DEF EventRecord
  <2>8. \/ handler[s] = c.report /\ Acknowledge(s)
        \/ UNCHANGED <<handler, acked>>
    BY <1>3, <2>6 DEF Finish
  <2>9. /\ \A q \in Source : handler'[q] # 0 => handler'[q] \in DOMAIN sent
        /\ \A n \in acked' : n \in acked \/ n = c.report
    BY <1>2, <2>7, <2>8 DEF ReadInv
  <2>10. \A n \in acked' : n \in acked \/ (n \in DOMAIN sent /\ (Clean(n)' => Complete(n, {})'))
    BY <2>2, <2>5, <2>9
  <2> QED BY <2>1, <2>9, <2>10, ReadKept
<1>4. ASSUME NEW s \in Source, Timeout(s)
      PROVE  ReadInv'
  <2>1. UNCHANGED <<sent, tenantOf, gone, rows, calls>> /\ disturbed \subseteq disturbed'
        /\ handler[s] \in disturbed' /\ Acknowledge(s) /\ handler[s] # 0
    BY <1>4 DEF Timeout, core
  <2>2. \A n \in acked' : n \in acked \/ (n \in DOMAIN sent /\ (Clean(n)' => Complete(n, {})'))
    BY <1>2, <2>1 DEF Clean, ReadInv
  <2> QED BY <1>2, <2>1, <2>2, ReadKept
<1> QED BY <1>3, <1>4

\* What happens to a device takes its reports out or leaves them as they are, and
\* a restart disturbs what is under way.
LEMMA DevicesFit ==
  ASSUME TelemetryInv, ReadInv,
         \/ RestartCore
         \/ \E d \in Device : Destroy(d) \/ RemoveDevice(d) \/ (\E t \in Tenant : Register(d, t))
  PROVE  ReadInv'
<1>1. CASE RestartCore
  <2>1. UNCHANGED <<sent, tenantOf, gone, rows, handler, acked>>
        /\ disturbed' = disturbed \cup {c.report : c \in calls}
        /\ calls' = {[c EXCEPT !.todo = <<>>, !.tenant = NoTenant] : c \in calls}
    BY <1>1 DEF RestartCore
  <2>2. \A c \in calls : [c EXCEPT !.todo = <<>>, !.tenant = NoTenant] =
                           [report |-> c.report, tenant |-> NoTenant, todo |-> <<>>]
    BY CallKept DEF TelemetryInv, TypeOK
  <2>3. ASSUME NEW b \in calls'
        PROVE  b.report \in disturbed'
    <3>1. PICK c \in calls : b = [c EXCEPT !.todo = <<>>, !.tenant = NoTenant]
      BY <2>1
    <3>2. b.report = c.report
      BY <2>2, <3>1
    <3> QED BY <2>1, <3>2
  <2>4. \A b \in calls' : Fits(b)'
    BY <2>3 DEF Fits, Clean
  <2>5. \A s \in Source : handler'[s] # 0 => handler'[s] \in DOMAIN sent
    BY <2>1 DEF ReadInv
  <2> QED BY <2>1, <2>4, <2>5, ReadKept
<1>2. ASSUME NEW d \in Device, RemoveDevice(d)
      PROVE  ReadInv'
  <2>1. UNCHANGED <<sent, tenantOf, gone, rows, handler, acked, calls, disturbed>>
    BY <1>2 DEF RemoveDevice, history
  <2>2. \A s \in Source : handler'[s] # 0 => handler'[s] \in DOMAIN sent
    BY <2>1 DEF ReadInv
  <2> QED BY <2>1, <2>2, ReadKept
<1>3. ASSUME NEW d \in Device,
             UNCHANGED <<sent, handler, acked, calls>>,
             \A e \in Device : e # d => tenantOf'[e] = tenantOf[e],
             \A n \in DOMAIN sent : Clean(n)' => Clean(n) /\ sent[n].uuid # d,
             \A r \in rows : sent[r.report].uuid # d => r \in rows'
      PROVE  ReadInv'
  <2>0. \A n \in DOMAIN sent : Clean(n) => Registered(sent[n].uuid)
    BY DEF ReadInv
  <2>1. \A n \in DOMAIN sent : Clean(n)' =>
          /\ sent[n].uuid \in Device /\ sent[n].uuid # d
          /\ tenantOf'[sent[n].uuid] = tenantOf[sent[n].uuid]
          /\ Clean(n) /\ Registered(sent[n].uuid)
    BY <1>3, <2>0 DEF Registered
  <2>2. \A n \in DOMAIN sent : Clean(n)' => \A parts : Complete(n, parts) => Complete(n, parts)'
    BY <1>3, <2>1 DEF Complete
  <2>3. \A n \in DOMAIN sent : Clean(n)' => Registered(sent[n].uuid)'
    BY <1>3, <2>1 DEF Registered
  <2>4. \A c \in calls : c.report \in DOMAIN sent
    BY DEF TelemetryInv, CallInv
  <2>5. \A c \in calls : Fits(c)'
    BY <1>3, <2>1, <2>2, <2>4 DEF Fits, ReadInv
  <2>6. \A n \in acked : n \in DOMAIN sent /\ (Clean(n)' => Complete(n, {})')
    BY <2>1, <2>2 DEF ReadInv
  <2> QED BY <1>3, <2>3, <2>5, <2>6 DEF ReadInv
<1>4. ASSUME NEW d \in Device, Destroy(d)
      PROVE  ReadInv'
  <2>1. /\ UNCHANGED <<sent, handler, acked, calls>> /\ rows' = rows \ Removed(d)
        /\ gone' = [gone EXCEPT ![d] = @ \cup (Of(d) \ UnderWay)]
        /\ disturbed' = disturbed \cup (Of(d) \cap UnderWay)
        /\ tenantOf' = [tenantOf EXCEPT ![d] = NoTenant]
    BY <1>4 DEF Destroy
  <2>2. gone \in [Name -> SUBSET ReportId] /\ tenantOf \in [Device -> Tenant \cup {NoTenant}]
        /\ d \in Name
    BY DEF TelemetryInv, TypeOK, Name
  <2>3. \A n \in DOMAIN sent : sent[n].uuid \in Name
    <3>1. \A n \in DOMAIN sent : sent[n] \in EventRecord
      BY DEF TelemetryInv, TypeOK
    <3> QED BY <3>1 DEF EventRecord
  <2>4. ASSUME NEW n \in DOMAIN sent, Clean(n)'
        PROVE  Clean(n) /\ sent[n].uuid # d
    <3>1. n \notin disturbed' /\ sent[n].known /\ n \notin gone'[sent[n].uuid]
      BY <2>1, <2>4 DEF Clean
    <3>2. sent[n].uuid # d
      BY <2>1, <2>2, <3>1 DEF Of
    <3> QED BY <2>1, <2>2, <2>3, <3>1, <3>2 DEF Clean
  <2>5. \A r \in rows : sent[r.report].uuid # d => r \in rows'
    BY <2>1 DEF Removed, Of
  <2>6. \A e \in Device : e # d => tenantOf'[e] = tenantOf[e]
    BY <2>1, <2>2
  <2> QED BY <1>3, <2>1, <2>4, <2>5, <2>6
<1>5. ASSUME NEW d \in Device, NEW t \in Tenant, Register(d, t)
      PROVE  ReadInv'
  <2>1. UNCHANGED <<sent, handler, acked, calls, rows, gone, disturbed>>
        /\ tenantOf' = [tenantOf EXCEPT ![d] = t] /\ ~Registered(d)
    BY <1>5 DEF Register, history
  <2>2. \A n \in DOMAIN sent : Clean(n)' => Clean(n) /\ sent[n].uuid # d
    BY <2>1 DEF Clean, ReadInv
  <2>3. \A e \in Device : e # d => tenantOf'[e] = tenantOf[e]
    BY <2>1 DEF TelemetryInv, TypeOK
  <2> QED BY <1>3, <2>1, <2>2, <2>3
<1> QED BY <1>1, <1>2, <1>4, <1>5

\* A report that was acknowledged is in the tables of the device's tenant with
\* all its parts, unless its call met a fault or the device was deleted meanwhile:
\* whichever calls of the Core were interleaved with it.
THEOREM AcknowledgedIsReadable == Spec => []AckedIsReadable
<1>1. Init => ReadInv
  BY DEF Init, ReadInv
<1>2. TelemetryInv /\ ReadInv /\ [Next]_vars => ReadInv'
  <2> SUFFICES ASSUME TelemetryInv, ReadInv, [Next]_vars
               PROVE  ReadInv'
    OBVIOUS
  <2>1. CASE UNCHANGED vars
    <3>1. UNCHANGED <<sent, tenantOf, gone, rows, handler, acked, calls, disturbed>>
      BY <2>1 DEF vars, core, history
    <3>2. \A s \in Source : handler'[s] # 0 => handler'[s] \in DOMAIN sent
      BY <3>1 DEF ReadInv
    <3> QED BY <3>1, <3>2, ReadKept
  <2>2. ASSUME NEW c \in calls, Finish(c)
        PROVE  ReadInv'
    BY <2>2, AnswersFit
  <2> QED BY <2>1, <2>2, ReportsAreMissing, CallsFit, AnswersFit, DevicesFit DEF Next
<1>3. ReadInv => AckedIsReadable
  BY DEF ReadInv, Clean, Complete, AckedIsReadable
<1> QED BY <1>1, <1>2, <1>3, TelemetryInductive, PTL DEF Spec

-----------------------------------------------------------------------------
(* What a reader sees of the door.                                         *)

\* The numbers are well-founded: a set of them has a least one, ...
LEMMA LeastNumber ==
  ASSUME NEW T \in SUBSET Nat, T # {}
  PROVE  \E n \in T : \A m \in T : n <= m
<1> DEFINE R == OpToRel(<, Nat)
<1>1. IsWellFoundedOn(R, Nat)
  BY NatLessThanWellFounded
<1>2. PICK n \in T : \A m \in T : ~ (<<m, n>> \in R)
  <2> HIDE DEF R
  <2> QED BY <1>1, WFMin
<1>3. \A m \in T : ~ (m < n)
  BY <1>2 DEF OpToRel
<1> QED BY <1>3

\* ... and a bounded set of them the greatest one that Max chooses.
LEMMA GreatestNumber ==
  ASSUME NEW n \in Nat, NEW T \in SUBSET (1 .. n), T # {}
  PROVE  /\ Max(T) \in T
         /\ \A m \in T : m <= Max(T)
<1> DEFINE U == {n - m : m \in T}
<1>1. U \in SUBSET Nat /\ U # {}
  <2>1. \A m \in T : n - m \in Nat
    OBVIOUS
  <2> QED BY <2>1
<1>2. PICK u \in U : \A m \in U : u <= m
  <2> HIDE DEF U
  <2> QED BY <1>1, LeastNumber
<1>3. \E m \in T : \A x \in T : m >= x
  BY <1>2
<1> QED BY <1>3 DEF Max

\* Among the positions s, the last point of the type.
Newest(points, type, s) ==
  LET of == {i \in s : points[i].type = type}
  IN IF of = {} THEN <<>> ELSE <<points[Max(of)]>>

\* What the function is defined by with which FoldLeft goes over the points.
Passes(f, points, type) ==
  f = [s \in SUBSET (DOMAIN points) |->
         IF s = {} THEN <<>>
         ELSE IF points[Max(s)].type = type /\ Newer(f[s \ {Max(s)}], points[Max(s)])
              THEN <<points[Max(s)]>> ELSE f[s \ {Max(s)}]]

\* The pass of EvaluateAccessControl is such a function.
LEMMA FoldIs ==
  ASSUME NEW points, NEW type
  PROVE  LatestSignal(points, type) = (CHOOSE f : Passes(f, points, type))[DOMAIN points]
BY DEF LatestSignal, FoldLeft, MapThenFoldSet, Passes

\* A row of the metrics table as the management API returns it.
Point == [type : Nat, on : BOOLEAN, at : Nat]

\* On points sorted by time the pass keeps the last one of the type.  The function
\* that says so solves the fold's equation, so the fold has a solution; and two
\* solutions cannot differ, since there would be a first position at which they do.
LEMMA OnePass ==
  ASSUME NEW n \in Nat, NEW points \in [1 .. n -> Point], NEW type \in Nat,
         \A i, j \in 1 .. n : i < j => points[i].at <= points[j].at
  PROVE  LatestSignal(points, type) = Newest(points, type, 1 .. n)
<1> DEFINE Step(signal, p) == IF p.type = type /\ Newer(signal, p) THEN <<p>> ELSE signal
           g == [s \in SUBSET (1 .. n) |-> Newest(points, type, s)]
<1>1. DOMAIN points = 1 .. n
  OBVIOUS
<1>2. ASSUME NEW s \in SUBSET (1 .. n), s # {}
      PROVE  Newest(points, type, s) =
               Step(Newest(points, type, s \ {Max(s)}), points[Max(s)])
  <2> DEFINE of(t) == {i \in t : points[i].type = type}
  <2>1. PICK m \in s : m = Max(s) /\ \A i \in s : i <= m
    BY <1>2, GreatestNumber
  <2>2. CASE points[m].type # type
    <3>1. of(s) = of(s \ {m})
      BY <2>2
    <3> QED BY <2>1, <2>2, <3>1 DEF Newest
  <2>3. CASE points[m].type = type
    <3>1. of(s) \in SUBSET (1 .. n) /\ m \in of(s) /\ \A i \in of(s) : i <= m
      BY <2>1, <2>3
    <3>2. Max(of(s)) = m
      <4>1. Max(of(s)) \in of(s) /\ m <= Max(of(s))
        <5> HIDE DEF of
        <5> QED BY <3>1, GreatestNumber
      <4>2. Max(of(s)) <= m /\ Max(of(s)) \in 1 .. n /\ m \in 1 .. n
        BY <3>1, <4>1
      <4> HIDE DEF of
      <4> QED BY <4>1, <4>2
    <3>3. Newest(points, type, s) = <<points[m]>>
      BY <3>1, <3>2 DEF Newest
    <3>4. Newer(Newest(points, type, s \ {m}), points[m])
      <4>1. CASE of(s \ {m}) = {}
        BY <4>1 DEF Newest, Newer
      <4>2. CASE of(s \ {m}) # {}
        <5>1. of(s \ {m}) \in SUBSET (1 .. n)
          OBVIOUS
        <5>2. PICK i \in of(s \ {m}) : i = Max(of(s \ {m}))
          <6> HIDE DEF of
          <6> QED BY <4>2, <5>1, GreatestNumber
        <5>3. i \in 1 .. n /\ m \in 1 .. n /\ i < m
          BY <2>1
        <5>4. points[i].at <= points[m].at /\ points[i] \in Point /\ points[m] \in Point
          BY <5>3
        <5>5. Newest(points, type, s \ {m}) = <<points[i]>>
          BY <4>2, <5>2 DEF Newest
        <5>6. points[m].at >= points[i].at
          BY <5>4 DEF Point
        <5> QED BY <5>5, <5>6 DEF Newer
      <4> QED BY <4>1, <4>2
    <3> QED BY <2>1, <2>3, <3>3, <3>4
  <2> QED BY <2>2, <2>3
<1>3. Newest(points, type, {}) = <<>>
  BY DEF Newest
<1>4. Passes(g, points, type)
  <2>1. \A s \in SUBSET (1 .. n) : s # {} => s \ {Max(s)} \in SUBSET (1 .. n)
    OBVIOUS
  <2>2. \A s \in SUBSET (1 .. n) :
          g[s] = IF s = {} THEN <<>>
                 ELSE Step(g[s \ {Max(s)}], points[Max(s)])
    BY <1>2, <1>3, <2>1
  <2> QED BY <1>1, <2>2 DEF Passes
<1>5. PICK f : f = (CHOOSE h : Passes(h, points, type)) /\ Passes(f, points, type)
  <2> HIDE DEF g
  <2> QED BY <1>4
<1>6. \A s \in SUBSET (1 .. n) : s # {} => f[s] = Step(f[s \ {Max(s)}], points[Max(s)])
  BY <1>1, <1>5 DEF Passes
<1>7. f[{}] = <<>>
  BY <1>1, <1>5 DEF Passes
<1> DEFINE Wrong == {m \in 1 .. n : \E s \in SUBSET (1 .. n) :
                       s # {} /\ m = Max(s) /\ f[s] # Newest(points, type, s)}
<1>8. Wrong = {}
  <2> SUFFICES ASSUME Wrong # {} PROVE FALSE
    OBVIOUS
  <2>1. PICK m \in Wrong : \A k \in Wrong : m <= k
    <3>1. Wrong \in SUBSET Nat
      OBVIOUS
    <3> HIDE DEF Wrong
    <3> QED BY <3>1, LeastNumber
  <2>2. PICK s \in SUBSET (1 .. n) : s # {} /\ m = Max(s) /\ f[s] # Newest(points, type, s)
    OBVIOUS
  <2>3. f[s \ {m}] # Newest(points, type, s \ {m})
    BY <1>2, <1>6, <2>2
  <2>4. s \ {m} # {}
    BY <1>3, <1>7, <2>3
  <2>5. s \ {m} \in SUBSET (1 .. n)
    OBVIOUS
  <2>6. Max(s \ {m}) \in Wrong
    <3>1. Max(s \ {m}) \in s \ {m}
      BY <2>4, <2>5, GreatestNumber
    <3> QED BY <2>3, <2>4, <2>5, <3>1
  <2>7. Max(s \ {m}) \in s \ {m} /\ Max(s \ {m}) <= m
    BY <2>2, <2>4, <2>5, GreatestNumber
  <2>8. m <= Max(s \ {m})
    BY <2>1, <2>6
  <2>9. m \in 1 .. n /\ Max(s \ {m}) \in 1 .. n /\ Max(s \ {m}) # m
    BY <2>5, <2>7
  <2> HIDE DEF Wrong
  <2> QED BY <2>7, <2>8, <2>9
<1>9. f[1 .. n] = Newest(points, type, 1 .. n)
  <2>1. CASE 1 .. n = {}
    BY <1>3, <1>7, <2>1
  <2>2. CASE 1 .. n # {}
    <3>1. Max(1 .. n) \in 1 .. n
      BY <2>2, GreatestNumber
    <3> QED BY <1>8, <2>2, <3>1
  <2> QED BY <2>1, <2>2
<1> QED BY <1>1, <1>5, <1>9, FoldIs

\* Every row was reported.
RowsReported == \A r \in rows : r.report \in DOMAIN sent

\* A message holds finitely many readings.
FinitelyMany == \A n \in DOMAIN sent : IsFiniteSet(sent[n].readings)

\* The points QueryMetricsByTenant finds, before it puts them in an order.
Seen(t, d) ==
  UNION {Points(r.report) : r \in
    {q \in rows : q.part = "metrics" /\ q.tenant = t /\ sent[q.report].uuid = d}}

\* A report leaves finitely many points ...
LEMMA PointsAreFinite ==
  ASSUME TypeOK, FinitelyMany, NEW n \in DOMAIN sent
  PROVE  IsFiniteSet(Points(n)) /\ Points(n) \subseteq Point
<1>1. sent[n] \in EventRecord /\ IsFiniteSet(sent[n].readings)
  BY DEF TypeOK, FinitelyMany
<1>2. sent[n].readings \in SUBSET [type : Nat, on : BOOLEAN] /\ sent[n].at \in Nat
  BY <1>1 DEF EventRecord
<1> DEFINE point(r) == [type |-> r.type % 256, on |-> r.on, at |-> sent[n].at]
           f == [r \in sent[n].readings |-> point(r)]
<1>3. Points(n) = {point(r) : r \in sent[n].readings}
  BY DEF Points
<1>4. f \in Surjection(sent[n].readings, Points(n))
  BY <1>3 DEF Surjection
<1>5. IsFiniteSet(Points(n))
  <2> HIDE DEF f
  <2> QED BY <1>1, <1>4, FS_Surjection
<1>6. \A r \in sent[n].readings : point(r) \in Point
  <2>1. \A r \in sent[n].readings : r.type \in Nat /\ r.on \in BOOLEAN
    BY <1>2
  <2>2. \A k \in Nat : k % 256 \in Nat
    OBVIOUS
  <2> QED BY <1>2, <2>1, <2>2 DEF Point
<1> QED BY <1>3, <1>5, <1>6

\* ... and so do all reports of a device.
LEMMA SeenIsFinite ==
  ASSUME TypeOK, FinitelyMany, RowsReported, NEW t, NEW d
  PROVE  IsFiniteSet(Seen(t, d)) /\ Seen(t, d) \subseteq Point
<1> DEFINE Metrics == {q \in rows : q.part = "metrics" /\ q.tenant = t /\ sent[q.report].uuid = d}
           Ids == {r.report : r \in Metrics}
           f == [n \in Ids |-> Points(n)]
<1>1. Ids \subseteq DOMAIN sent
  BY DEF RowsReported
<1>2. IsFiniteSet(Ids)
  <2>1. DOMAIN sent = 1 .. Len(sent) /\ Len(sent) \in Nat
    BY DEF TypeOK
  <2>2. IsFiniteSet(1 .. Len(sent))
    BY <2>1, FS_Interval
  <2> HIDE DEF Ids
  <2> QED BY <1>1, <2>1, <2>2, FS_Subset
<1>3. {Points(n) : n \in Ids} = {Points(r.report) : r \in Metrics}
  OBVIOUS
<1>4. f \in Surjection(Ids, {Points(n) : n \in Ids})
  BY DEF Surjection
<1>5. IsFiniteSet({Points(n) : n \in Ids})
  <2> HIDE DEF f, Ids
  <2> QED BY <1>2, <1>4, FS_Surjection
<1>6. \A n \in Ids : IsFiniteSet(Points(n)) /\ Points(n) \subseteq Point
  BY <1>1, PointsAreFinite
<1>7. Seen(t, d) = UNION {Points(n) : n \in Ids}
  BY <1>3 DEF Seen
<1>8. \A T \in {Points(n) : n \in Ids} : IsFiniteSet(T)
  BY <1>6
<1>9. IsFiniteSet(UNION {Points(n) : n \in Ids})
  <2> HIDE DEF Ids
  <2> QED BY <1>5, <1>8, FS_UNION
<1> QED BY <1>6, <1>7, <1>9

\* Whichever order a query returns, it has all points, sorted by time.
LEMMA QueriesShowAll ==
  ASSUME TypeOK, FinitelyMany, RowsReported, NEW t, NEW d,
         NEW s \in QueryMetrics(t, d)
  PROVE  \E n \in Nat :
           /\ s \in [1 .. n -> Point] /\ ToSet(s) = Seen(t, d)
           /\ \A i, j \in 1 .. n : i < j => s[i].at <= s[j].at
<1>1. IsFiniteSet(Seen(t, d)) /\ Seen(t, d) \subseteq Point
  BY SeenIsFinite
<1>2. PICK n : n = Cardinality(Seen(t, d))
  OBVIOUS
<1>3. n \in Nat
  BY <1>1, <1>2, FS_CardinalityType
<1>4. s \in SetToSeqs(Seen(t, d)) /\ \A i, j \in DOMAIN s : i < j => s[i].at <= s[j].at
  BY DEF QueryMetrics, Seen
<1>5. s \in [1 .. n -> Seen(t, d)] /\ \A i, j \in 1 .. n : i # j => s[i] # s[j]
  BY <1>2, <1>4 DEF SetToSeqs
<1>6. s \in Injection(1 .. n, Seen(t, d))
  BY <1>5 DEF Injection, IsInjective
<1>7. Cardinality(1 .. n) = n
  BY <1>3, FS_Interval
<1>8. s \in Surjection(1 .. n, Seen(t, d))
  BY <1>1, <1>2, <1>6, <1>7, FS_Injection
<1>9. ToSet(s) = Seen(t, d)
  BY <1>5, <1>8 DEF Surjection, ToSet
<1> QED BY <1>1, <1>3, <1>4, <1>5, <1>9

\* What the pass keeps is one of the newest points of its type.
LEMMA SignalIsNewest ==
  ASSUME NEW n \in Nat, NEW s \in [1 .. n -> Point], NEW type \in Nat,
         \A i, j \in 1 .. n : i < j => s[i].at <= s[j].at,
         NEW newest, newest = {p \in ToSet(s) : p.type = type
                                /\ \A q \in ToSet(s) : q.type = type => q.at <= p.at}
  PROVE  \/ newest = {} /\ LatestSignal(s, type) = <<>>
         \/ \E p \in newest : LatestSignal(s, type) = <<p>>
<1> DEFINE of == {i \in 1 .. n : s[i].type = type}
<1>1. LatestSignal(s, type) = IF of = {} THEN <<>> ELSE <<s[Max(of)]>>
  BY OnePass DEF Newest
<1>2. ToSet(s) = {s[i] : i \in 1 .. n}
  BY DEF ToSet
<1>3. CASE of = {}
  BY <1>1, <1>2, <1>3
<1>4. CASE of # {}
  <2>1. of \in SUBSET (1 .. n)
    OBVIOUS
  <2>2. PICK m \in of : m = Max(of) /\ \A i \in of : i <= m
    <3> HIDE DEF of
    <3> QED BY <1>4, <2>1, GreatestNumber
  <2>3. ASSUME NEW i \in of PROVE s[i].at <= s[m].at
    <3>1. s[m].at \in Nat /\ i \in 1 .. n /\ m \in 1 .. n
      BY DEF Point
    <3>2. i = m \/ i < m
      BY <2>2, <3>1
    <3> QED BY <3>1, <3>2
  <2>4. \A q \in ToSet(s) : q.type = type => q.at <= s[m].at
    BY <1>2, <2>3
  <2>5. s[m] \in newest
    BY <1>2, <2>4
  <2> QED BY <1>1, <1>4, <2>2, <2>5
<1> QED BY <1>3, <1>4

\* EvaluateAccessControl says what the newest signals say.
LEMMA DoorIsRight ==
  ASSUME TypeOK, FinitelyMany, RowsReported
  PROVE  DoorFollowsNewest
<1> SUFFICES ASSUME NEW d \in Device, NEW t \in Tenant, NEW door \in DoorState(t, d)
             PROVE  LET points == UNION {ToSet(o) : o \in QueryMetrics(t, d)}
                        newest(type) == {p \in points : p.type = type
                                           /\ \A q \in points : q.type = type => q.at <= p.at}
                    IN /\ door = "unknown" <=> newest(8) = {} \/ newest(16) = {}
                       /\ door = "open" => \A type \in {8, 16} : \E p \in newest(type) : p.on
                       /\ door = "closed" => \E type \in {8, 16} : \E p \in newest(type) : ~p.on
  BY DEF DoorFollowsNewest
<1> DEFINE points == UNION {ToSet(o) : o \in QueryMetrics(t, d)}
           newest(type) == {p \in points : p.type = type
                              /\ \A q \in points : q.type = type => q.at <= p.at}
<1>1. PICK s \in QueryMetrics(t, d) : door = EvaluateAccessControl(s)
  BY DEF DoorState
<1>2. \A o \in QueryMetrics(t, d) : ToSet(o) = Seen(t, d)
  BY QueriesShowAll
<1>3. points = ToSet(s)
  BY <1>1, <1>2
<1>4. PICK n \in Nat : s \in [1 .. n -> Point]
                       /\ \A i, j \in 1 .. n : i < j => s[i].at <= s[j].at
  BY <1>1, QueriesShowAll
<1>5. ASSUME NEW type \in {8, 16}
      PROVE  \/ newest(type) = {} /\ LatestSignal(s, type) = <<>>
             \/ \E p \in newest(type) : LatestSignal(s, type) = <<p>>
  <2>1. newest(type) = {p \in ToSet(s) : p.type = type
                         /\ \A q \in ToSet(s) : q.type = type => q.at <= p.at}
    BY <1>3
  <2>2. type \in Nat
    OBVIOUS
  <2> HIDE DEF newest
  <2> QED BY <1>4, <2>1, <2>2, SignalIsNewest
<1> HIDE DEF newest
<1>6. PICK a, b : a = LatestSignal(s, 8) /\ b = LatestSignal(s, 16)
  OBVIOUS
<1>7. \/ newest(8) = {} /\ a = <<>>
      \/ a # <<>> /\ a[1] \in newest(8)
  <2>1. \/ newest(8) = {} /\ a = <<>>
        \/ \E p \in newest(8) : a = <<p>>
    BY <1>5, <1>6
  <2> QED BY <2>1
<1>8. \/ newest(16) = {} /\ b = <<>>
      \/ b # <<>> /\ b[1] \in newest(16)
  <2>1. \/ newest(16) = {} /\ b = <<>>
        \/ \E p \in newest(16) : b = <<p>>
    BY <1>5, <1>6
  <2> QED BY <2>1
<1>9. door = IF a = <<>> \/ b = <<>> THEN "unknown"
             ELSE IF a[1].on /\ b[1].on THEN "open" ELSE "closed"
  BY <1>1, <1>6 DEF EvaluateAccessControl
<1>10. newest(8) = {} <=> a = <<>>
  BY <1>7
<1>11. newest(16) = {} <=> b = <<>>
  BY <1>8
<1>12. (door = "unknown") <=> (newest(8) = {} \/ newest(16) = {})
  BY <1>9, <1>10, <1>11
<1>13. door = "open" => \A type \in {8, 16} : \E p \in newest(type) : p.on
  BY <1>7, <1>8, <1>9
<1>14. door = "closed" => \E type \in {8, 16} : \E p \in newest(type) : ~p.on
  BY <1>7, <1>8, <1>9
<1> USE DEF newest
<1> QED BY <1>12, <1>13, <1>14

\* What is sent has the readings of a message, or none.
LEMMA EventsAreFinite ==
  ASSUME TypeOK, FinitelyMany, NEW s \in Source, NEW event, IsFiniteSet(event.readings),
         Send(s, event)
  PROVE  FinitelyMany'
<1>1. sent \in Seq(EventRecord) /\ sent' = Append(sent, event)
  BY DEF TypeOK, Send
<1>2. ASSUME NEW n \in DOMAIN sent'
      PROVE  IsFiniteSet(sent'[n].readings)
  <2>1. CASE n \in DOMAIN sent
    <3>1. sent'[n] = sent[n]
      BY <1>1, <2>1
    <3> QED BY <2>1, <3>1 DEF FinitelyMany
  <2>2. CASE n \notin DOMAIN sent
    <3>1. sent'[n] = event
      BY <1>1, <1>2, <2>2
    <3> QED BY <3>1
  <2> QED BY <2>1, <2>2
<1> QED BY <1>2 DEF FinitelyMany

\* Whoever sends sends finitely many readings.
LEMMA FinitelyManyStep == TypeOK /\ FinitelyMany /\ [Next]_vars => FinitelyMany'
<1> SUFFICES ASSUME TypeOK, FinitelyMany, [Next]_vars
             PROVE  FinitelyMany'
  OBVIOUS
<1>1. ASSUME NEW s \in Session, NEW kind \in FrameKind, NEW readings \in Readings,
             NEW at \in Time, SendFrame(s, kind, readings, at)
      PROVE  FinitelyMany'
  <2>1. PICK event : Send(s, event) /\ event.readings = readings
    BY <1>1 DEF SendFrame, Report, Event
  <2>2. IsFiniteSet(event.readings) /\ s \in Source
    BY <2>1, ReadingAssumption DEF Source
  <2> QED BY <2>1, <2>2, EventsAreFinite
<1>2. CASE Publish
  <2>1. PICK m \in Message : \E connected : HandleMessage(connected, m)
    BY <1>2 DEF Publish
  <2>2. PICK event : Send(Mqtt, event) /\ event.readings = Map(m).readings
    BY <2>1 DEF HandleMessage, Event
  <2>3. m.readings \in Readings
    BY DEF Message
  <2>4. Map(m).readings \in {{}, m.readings}
    BY DEF Map, ZigbeeEvent, GosterEvent
  <2>5. IsFiniteSet(event.readings) /\ Mqtt \in Source
    BY <2>2, <2>3, <2>4, ReadingAssumption, FS_EmptySet DEF Source
  <2> QED BY <2>2, <2>5, EventsAreFinite
<1>3. CASE UNCHANGED sent
  BY <1>3 DEF FinitelyMany
<1>4. ASSUME NEW c \in calls,
             \/ Resolve(c) \/ ResolveFails(c) \/ Store(c) \/ StoreFails(c)
             \/ HandleHeartbeat(c) \/ Finish(c)
      PROVE  UNCHANGED sent
  BY <1>4 DEF Resolve, ResolveFails, Store, StoreFails, HandleHeartbeat, Finish
<1>5. ASSUME NEW d \in Device, Destroy(d) \/ RemoveDevice(d) \/ \E t \in Tenant : Register(d, t)
      PROVE  UNCHANGED sent
  BY <1>5 DEF Destroy, RemoveDevice, Register
<1>6. (\E s \in Source : Timeout(s)) \/ RestartCore => UNCHANGED sent
  BY DEF Timeout, RestartCore
<1>7. UNCHANGED vars => UNCHANGED sent
  BY DEF vars
<1> QED BY <1>1, <1>2, <1>3, <1>4, <1>5, <1>6, <1>7 DEF Next

\* A row is stored by the call of a report, and reports are not taken back.
LEMMA RowsReportedStep == TelemetryInv /\ RowsReported /\ [Next]_vars => RowsReported'
<1> SUFFICES ASSUME TelemetryInv, RowsReported, [Next]_vars
             PROVE  RowsReported'
  OBVIOUS
<1>1. ASSUME rows' \subseteq rows, DOMAIN sent \subseteq DOMAIN sent'
      PROVE  RowsReported'
  BY <1>1 DEF RowsReported
<1>2. ASSUME NEW s, NEW event, Send(s, event)
      PROVE  RowsReported'
  <2>1. sent \in Seq(EventRecord) /\ sent' = Append(sent, event) /\ rows' = rows
    BY <1>2 DEF Send, TelemetryInv, TypeOK, core
  <2>2. DOMAIN sent \subseteq DOMAIN sent'
    <3>1. Len(sent') = Len(sent) + 1 /\ DOMAIN sent = 1 .. Len(sent) /\ Len(sent) \in Nat
          /\ DOMAIN sent' = 1 .. Len(sent')
      BY <2>1
    <3> QED BY <3>1
  <2> QED BY <1>1, <2>1, <2>2
<1>3. (\E s \in Session, kind \in FrameKind, readings \in Readings, at \in Time :
         SendFrame(s, kind, readings, at)) \/ Publish => RowsReported'
  BY <1>2 DEF SendFrame, Report, Publish, HandleMessage
<1>4. ASSUME NEW c \in calls, Store(c)
      PROVE  RowsReported'
  <2>1. UNCHANGED sent
        /\ rows' = rows \cup {[report |-> c.report, part |-> Head(c.todo), tenant |-> c.tenant]}
    BY <1>4 DEF Store
  <2>2. c.report \in DOMAIN sent
    BY DEF TelemetryInv, CallInv
  <2> QED BY <2>1, <2>2 DEF RowsReported
<1>5. ASSUME NEW c \in calls,
             \/ Resolve(c) \/ ResolveFails(c) \/ StoreFails(c) \/ HandleHeartbeat(c) \/ Finish(c)
      PROVE  RowsReported'
  <2>1. UNCHANGED <<rows, sent>>
    BY <1>5 DEF Resolve, ResolveFails, StoreFails, HandleHeartbeat, Finish, core
  <2> QED BY <1>1, <2>1
<1>6. ASSUME NEW d \in Device, Destroy(d) \/ RemoveDevice(d) \/ \E t \in Tenant : Register(d, t)
      PROVE  RowsReported'
  <2>1. rows' \subseteq rows /\ UNCHANGED sent
    BY <1>6 DEF Destroy, RemoveDevice, Register
  <2> QED BY <1>1, <2>1
<1>7. (\E s \in Source : Timeout(s)) \/ RestartCore \/ UNCHANGED vars => RowsReported'
  BY <1>1 DEF Timeout, RestartCore, vars, core
<1> QED BY <1>3, <1>4, <1>5, <1>6, <1>7 DEF Next

\* The door page says open, closed or unknown by the newest signals stored for the
\* device, in whatever order reports came in and rows are returned: DoorFollowsNewest.
THEOREM DoorShowsNewest == Spec => []DoorFollowsNewest
<1>1. Init => FinitelyMany /\ RowsReported
  <2> SUFFICES ASSUME Init
               PROVE  FinitelyMany /\ RowsReported
    OBVIOUS
  <2>1. sent = <<>> /\ rows = {}
    BY DEF Init
  <2> QED BY <2>1 DEF FinitelyMany, RowsReported
<1>2. TelemetryInv /\ FinitelyMany /\ RowsReported /\ [Next]_vars => (FinitelyMany /\ RowsReported)'
  BY FinitelyManyStep, RowsReportedStep DEF TelemetryInv
<1>3. TelemetryInv /\ FinitelyMany /\ RowsReported => DoorFollowsNewest
  BY DoorIsRight DEF TelemetryInv
<1> QED BY <1>1, <1>2, <1>3, TelemetryInductive, PTL DEF Spec
=============================================================================
