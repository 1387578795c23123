---------------------------- MODULE MqttDownlink ----------------------------
(***************************************************************************)
(* Downlink delivery over MQTT with the embedded broker: the hooks that    *)
(* run in the goroutine of each MQTT connection (mqtt/broker.go), the      *)
(* bounded channel they fill, the goroutine that handles its messages, and *)
(* the downlink loop that polls the Core for every device it remembers     *)
(* (mqtt/adapter.go).                                                      *)
(*                                                                         *)
(* Unlike custom TCP nothing is put back: a command is published once, and *)
(* the device's answer arrives as an uplink of its own.                    *)
(***************************************************************************)
EXTENDS DownlinkCommands, FiniteSets

CONSTANTS
  Conn,           \* the places of the broker's connections
  Loop,           \* the RPC client of the downlink loop ...
  Main,           \* ... and that of the message handler
  MessageBuffer,  \* capacity of the message channel
  MaxBatch,       \* DownlinkMaxBatch
  Receipts,       \* the statuses devices answer with
  FaultKinds,     \* the faults that may happen ...
  MaxFaults       \* ... and how many of them altogether

ASSUME ClientAssumption == Client = {Loop, Main} /\ Loop # Main
ASSUME BufferAssumption == MessageBuffer \in Nat \ {0} /\ MaxBatch \in Nat \ {0}
ASSUME ReceiptAssumption == Receipts \subseteq {"sent", "acked", "failed"}
ASSUME FaultAssumption ==
  /\ FaultKinds \subseteq {"timeout", "dbError", "coreRestart", "stop", "publishError", "silence"}
  /\ MaxFaults \in Nat

VARIABLES
  conn,      \* the broker's connections and the packet each works on
  session,   \* embeddedBrokerHook.sessions: the client ids, which are uuids
  msgCh,     \* the channel from the hooks to the message handler
  main,      \* what the message handler does
  devices,   \* Adapter.devices
  loop,      \* what the downlink loop does
  reply,     \* the commands popped for the n-th pull of the loop
  aired,     \* commands that were published
  got,       \* commands the device received
  outcome,   \* history: what the adapter was told of a command
  early,     \* history: commands answered before a device received them
  faults,    \* faults so far
  replaced   \* history: devices whose connection was replaced by a new one

brokerVars == <<conn, session, replaced>>
adapterVars == <<main, devices, loop>>
deliveryVars == <<aired, got, outcome, early>>
vars == <<coreVars, brokerVars, msgCh, adapterVars, reply, deliveryVars, faults>>

Message ==
  [kind: {"uplink"}, dev: Device, cmd: {NoCommand}] \cup
  [kind: Receipts, dev: Device, cmd: Command]
NoMessage == [kind |-> "none", dev |-> NoDevice, cmd |-> NoCommand]

LoopIdle == [at |-> "idle", todo |-> {}, dev |-> NoDevice, batch |-> <<>>]

TypeOK ==
  /\ CoreTypeOK
  /\ conn \in [Conn -> [at: {"none", "live", "checked", "admitted"}, stop: BOOLEAN,
                        dev: Device \cup {NoDevice}, msg: Message \cup {NoMessage}]]
  /\ session \subseteq Device
  /\ msgCh \in Seq(Message) /\ Len(msgCh) <= MessageBuffer
  /\ main \in {"idle", "reporting"}
  /\ devices \subseteq Device
  /\ loop \in [at: {"idle", "pulling", "publishing", "reporting"}, todo: SUBSET Device,
               dev: Device \cup {NoDevice}, batch: Seq(Command)]
  /\ Len(loop.batch) <= MaxBatch
  /\ reply \in [0 .. MaxFaults -> Seq(Command)]
  /\ aired \subseteq Command /\ got \subseteq aired
  /\ outcome \in [Command -> {"open", "answered", "rejected"}]
  /\ early \subseteq Command
  /\ faults \in 0 .. MaxFaults
  /\ replaced \subseteq Device

NewConn == [at |-> "none", stop |-> FALSE, dev |-> NoDevice, msg |-> NoMessage]

Init ==
  /\ CoreInit
  /\ conn = [k \in Conn |-> NewConn]
  /\ session = {}
  /\ msgCh = <<>>
  /\ main = "idle"
  /\ devices = {}
  /\ loop = LoopIdle
  /\ reply = [n \in 0 .. MaxFaults |-> <<>>]
  /\ aired = {}
  /\ got = {}
  /\ outcome = [c \in Command |-> "open"]
  /\ early = {}
  /\ faults = 0
  /\ replaced = {}

coreData == <<status, owner, queue, pushing>>

-----------------------------------------------------------------------------
(* The broker.                                                             *)

Open(k) == conn[k].at # "none"

\* Faulty variant, to test the properties: the session is not stored.
BugOnConnectAuthenticate(k, d) ==
  /\ conn[k].at = "none"
  /\ conn' = [conn EXCEPT ![k].at = "live", ![k].dev = d]
  /\ UNCHANGED <<coreVars, session, replaced, msgCh, adapterVars, reply, deliveryVars, faults>>

\* OnConnectAuthenticate stores the session; then the broker closes the
\* connection that has used this client id so far.
OnConnectAuthenticate(k, d) ==
  /\ conn[k].at = "none"
  /\ conn' = [j \in Conn |->
                IF j = k THEN [NewConn EXCEPT !.at = "live", !.dev = d]
                ELSE IF Open(j) /\ conn[j].dev = d THEN [conn[j] EXCEPT !.stop = TRUE]
                ELSE conn[j]]
  /\ session' = session \cup {d}
  /\ replaced' = replaced \cup {e \in {d} : \E j \in Conn : Open(j) /\ conn[j].dev = e}
  /\ UNCHANGED <<coreVars, msgCh, adapterVars, reply, deliveryVars, faults>>

\* The device goes away or its link breaks.
Break(k) ==
  /\ Open(k) /\ ~conn[k].stop
  /\ conn' = [conn EXCEPT ![k].stop = TRUE]
  /\ UNCHANGED <<coreVars, session, replaced, msgCh, adapterVars, reply, deliveryVars, faults>>

\* OnDisconnect, in the connection's own goroutine: it deletes by client id.
OnDisconnect(k) ==
  /\ conn[k].at = "live" /\ conn[k].stop
  /\ conn' = [conn EXCEPT ![k] = NewConn]
  /\ session' = session \ {conn[k].dev}
  /\ UNCHANGED <<coreVars, replaced, msgCh, adapterVars, reply, deliveryVars, faults>>

\* The device publishes m and OnACLCheck loads its session; without one the
\* packet is refused.  The topic is the device's own and the payload its own
\* business: an answer may name any command, received or not, its own or not.
OnACLCheck(k, m) ==
  /\ conn[k].at = "live" /\ ~conn[k].stop
  /\ conn[k].dev \in session /\ m.dev = conn[k].dev
  /\ conn' = [conn EXCEPT ![k].at = "checked", ![k].msg = m]
  /\ early' = early \cup ({m.cmd} \ (got \cup {NoCommand}))
  /\ UNCHANGED <<coreVars, session, replaced, msgCh, adapterVars, reply, aired, got, outcome,
                 faults>>

\* OnACLCheck stores the session it loaded, with a new LastSeen.
TouchSession(k) ==
  /\ conn[k].at = "checked"
  /\ conn' = [conn EXCEPT ![k].at = "admitted"]
  /\ session' = session \cup {conn[k].dev}
  /\ UNCHANGED <<coreVars, replaced, msgCh, adapterVars, reply, deliveryVars, faults>>

\* Faulty variant: a send that does not look whether there is room.
BugOnPublish(k) ==
  /\ conn[k].at = "admitted"
  /\ msgCh' = IF conn[k].dev \in session THEN Append(msgCh, conn[k].msg) ELSE msgCh
  /\ conn' = [conn EXCEPT ![k].at = "live", ![k].msg = NoMessage]
  /\ UNCHANGED <<coreVars, session, replaced, adapterVars, reply, deliveryVars, faults>>

\* OnPublish: a full channel, or a session deleted since, drops the message.
OnPublish(k) ==
  /\ conn[k].at = "admitted"
  /\ msgCh' = IF conn[k].dev \in session /\ Len(msgCh) < MessageBuffer
                THEN Append(msgCh, conn[k].msg) ELSE msgCh
  /\ conn' = [conn EXCEPT ![k].at = "live", ![k].msg = NoMessage]
  /\ UNCHANGED <<coreVars, session, replaced, adapterVars, reply, deliveryVars, faults>>

\* The broker delivers a published command to the device that subscribed.
Receive(c) ==
  /\ c \in aired \ got
  /\ got' = got \cup {c}
  /\ UNCHANGED <<coreVars, brokerVars, msgCh, adapterVars, reply, aired, outcome, early, faults>>

-----------------------------------------------------------------------------
(* The message handler.                                                    *)

\* Every message makes the adapter remember its device.
Remember(d) == devices' = devices \cup {d}

\* handleMessage of a heartbeat or an event.
HandleUplink ==
  /\ main = "idle" /\ msgCh # <<>> /\ Head(msgCh).kind = "uplink"
  /\ msgCh' = Tail(msgCh)
  /\ Remember(Head(msgCh).dev)
  /\ UNCHANGED <<coreVars, brokerVars, main, loop, reply, deliveryVars, faults>>

\* Faulty variant: every answer is passed on as "sent".
BugHandleReceipt ==
  /\ main = "idle" /\ msgCh # <<>> /\ Head(msgCh).kind \in Receipts
  /\ LET m == Head(msgCh)
     IN  /\ Remember(m.dev)
         /\ Issue(Main, "sent", m.dev, m.cmd)
         /\ outcome' = [outcome EXCEPT ![m.cmd] = IF @ = "open" THEN "answered" ELSE @]
  /\ msgCh' = Tail(msgCh)
  /\ main' = "reporting"
  /\ UNCHANGED <<coreData, brokerVars, loop, reply, aired, got, early, faults>>

\* handleMessage of a receipt: updateCommandReceipt passes its status on.
HandleReceipt ==
  /\ main = "idle" /\ msgCh # <<>> /\ Head(msgCh).kind \in Receipts
  /\ LET m == Head(msgCh)
     IN  /\ Remember(m.dev)
         /\ Issue(Main, m.kind, m.dev, m.cmd)
         /\ outcome' = [outcome EXCEPT ![m.cmd] = IF @ = "open" THEN "answered" ELSE @]
  /\ msgCh' = Tail(msgCh)
  /\ main' = "reporting"
  /\ UNCHANGED <<coreData, brokerVars, loop, reply, aired, got, early, faults>>

Answered(p, x) == x \in calls /\ x.from = p /\ Live(x) /\ x.stage = "answered"

Handled(x) ==
  /\ main = "reporting" /\ Answered(Main, x)
  /\ Collect(x)
  /\ main' = "idle"
  /\ UNCHANGED <<coreData, brokerVars, msgCh, devices, loop, reply, deliveryVars, faults>>

-----------------------------------------------------------------------------
(* The downlink loop.                                                      *)

\* Faulty variant: a round leaves out the first device of the snapshot.
BugTick ==
  /\ loop.at = "idle" /\ loop.todo = {}
  /\ \E d \in devices : loop' = [loop EXCEPT !.todo = devices \ {d}]
  /\ UNCHANGED <<coreVars, brokerVars, msgCh, main, devices, reply, deliveryVars, faults>>

\* The ticker starts a round over the devices of deviceSnapshot.
Tick ==
  /\ loop.at = "idle" /\ loop.todo = {} /\ devices # {}
  /\ loop' = [loop EXCEPT !.todo = devices]
  /\ UNCHANGED <<coreVars, brokerVars, msgCh, main, devices, reply, deliveryVars, faults>>

\* pullAndPublishDownlinks of the next device: PullCommands.
Poll(d) ==
  /\ loop.at = "idle" /\ d \in loop.todo
  /\ loop' = [loop EXCEPT !.at = "pulling", !.todo = @ \ {d}, !.dev = d]
  /\ Issue(Loop, "pull", d, NoCommand)
  /\ UNCHANGED <<coreData, brokerVars, msgCh, main, devices, reply, deliveryVars, faults>>

\* Where the loop goes on with the commands b of the batch left.
Continue(b) == [loop EXCEPT !.at = IF b = <<>> THEN "idle" ELSE "publishing", !.batch = b]

\* PullCommands returns the batch.
Pulled(x) ==
  /\ loop.at = "pulling" /\ Answered(Loop, x)
  /\ Collect(x)
  /\ loop' = Continue(reply[x.no])
  /\ reply' = [reply EXCEPT ![x.no] = <<>>]
  /\ UNCHANGED <<coreData, brokerVars, msgCh, main, devices, deliveryVars, faults>>

\* The status of the first command of the batch is reported.
Report(op) ==
  /\ Issue(Loop, op, loop.dev, Head(loop.batch))
  /\ loop' = [loop EXCEPT !.at = "reporting", !.batch = Tail(@)]

\* Faulty variant: a publish is not reported.
BugPublishSilent ==
  /\ loop.at = "publishing"
  /\ aired' = aired \cup {Head(loop.batch)}
  /\ loop' = Continue(Tail(loop.batch))
  /\ UNCHANGED <<coreVars, brokerVars, msgCh, main, devices, reply, got, outcome, early, faults>>

\* publishDownlink, then markCommandSent.
Publish ==
  /\ loop.at = "publishing"
  /\ aired' = aired \cup {Head(loop.batch)}
  /\ Report("sent")
  /\ UNCHANGED <<coreData, brokerVars, msgCh, main, devices, reply, got, outcome, early, faults>>

\* UpdateCommandStatus returns; its result is only logged.
Reported(x) ==
  /\ loop.at = "reporting" /\ Answered(Loop, x)
  /\ Collect(x)
  /\ loop' = Continue(loop.batch)
  /\ UNCHANGED <<coreData, brokerVars, msgCh, main, devices, reply, deliveryVars, faults>>

-----------------------------------------------------------------------------
(* The Core.                                                               *)

adapterState == <<brokerVars, msgCh, adapterVars, deliveryVars, faults>>

\* Faulty variant: the queue is read and not popped.
BugServePullCommands(x) ==
  /\ x \in calls /\ x.op = "pull" /\ x.stage = "issued"
  /\ IF queue[x.dev] = <<>> \/ Len(reply[x.no]) = MaxBatch
       THEN /\ calls' = Answer(x, NoCommand)
            /\ UNCHANGED reply
       ELSE /\ reply' = [reply EXCEPT ![x.no] = Append(@, Head(queue[x.dev]))]
            /\ UNCHANGED calls
  /\ UNCHANGED <<status, owner, queue, pushing, attempt, adapterState>>

\* PullCommands pops one command at a time, up to MaxCount, and answers; of a
\* call nobody waits for the commands are gone with the answer.
ServePullCommands(x) ==
  /\ x \in calls /\ x.op = "pull" /\ x.stage = "issued"
  /\ IF queue[x.dev] = <<>> \/ Len(reply[x.no]) = MaxBatch
       THEN /\ calls' = Answer(x, NoCommand)
            /\ reply' = [reply EXCEPT ![x.no] = IF Live(x) THEN @ ELSE <<>>]
            /\ UNCHANGED queue
       ELSE /\ reply' = [reply EXCEPT ![x.no] = Append(@, Head(queue[x.dev]))]
            /\ queue' = [queue EXCEPT ![x.dev] = Tail(@)]
            /\ UNCHANGED calls
  /\ UNCHANGED <<status, owner, pushing, attempt, adapterState>>

\* What the Core does apart from pulls.
CoreStep ==
  /\ \/ \E c \in Command, d \in Device : CreateCommand(c, d)
     \/ \E c \in Command : PushCommand(c)
     \/ \E x \in calls : ServeMark(x)
     \/ \E x \in calls : LoseRequest(x) /\ (x.op = "pull" => reply[x.no] = <<>>)
  /\ UNCHANGED <<adapterState, reply>>

-----------------------------------------------------------------------------
(* Faults.                                                                 *)

Fault(kind) ==
  /\ kind \in FaultKinds /\ faults < MaxFaults
  /\ faults' = faults + 1

\* The replies of the loop that survive when it stops waiting, or the Core stops.
KeepReplies(K) == reply' = [n \in DOMAIN reply |-> IF n \in K THEN reply[n] ELSE <<>>]
PullsAt(stage) == {x.no : x \in {y \in calls : y.op = "pull" /\ y.stage = stage}}

\* An RPC of the message handler exceeds RPCTimeout.
MainTimeout ==
  /\ main = "reporting" /\ Fault("timeout")
  /\ Abandon({Main})
  /\ main' = "idle"
  /\ UNCHANGED <<coreData, brokerVars, msgCh, devices, loop, reply, deliveryVars>>

\* An RPC of the downlink loop exceeds RPCTimeout.
LoopTimeout ==
  /\ loop.at \in {"pulling", "reporting"} /\ Fault("timeout")
  /\ Abandon({Loop})
  /\ KeepReplies(PullsAt("issued"))
  /\ loop' = Continue(loop.batch)
  /\ UNCHANGED <<coreData, brokerVars, msgCh, main, devices, deliveryVars>>

\* Faulty variant: a command whose publish fails stays in the batch.
BugPublishFails ==
  /\ loop.at = "publishing" /\ Fault("publishError")
  /\ outcome' = [outcome EXCEPT ![Head(loop.batch)] = "rejected"]
  /\ Issue(Loop, "failed", loop.dev, Head(loop.batch))
  /\ loop' = [loop EXCEPT !.at = "reporting"]
  /\ UNCHANGED <<coreData, brokerVars, msgCh, main, devices, reply, aired, got, early>>

\* publishDownlink returns an error: markCommandFailed.
PublishFails ==
  /\ loop.at = "publishing" /\ Fault("publishError")
  /\ outcome' = [outcome EXCEPT ![Head(loop.batch)] = "rejected"]
  /\ Report("failed")
  /\ UNCHANGED <<coreData, brokerVars, msgCh, main, devices, reply, aired, got, early>>

\* deviceSnapshot forgets a device that was silent for DownlinkDeviceTTL.
Expire(d) ==
  /\ loop.at = "idle" /\ loop.todo = {} /\ d \in devices /\ Fault("silence")
  /\ devices' = devices \ {d}
  /\ loop' = [loop EXCEPT !.todo = devices \ {d}]
  /\ UNCHANGED <<coreVars, brokerVars, msgCh, main, reply, deliveryVars>>

DatabaseError ==
  /\ Fault("dbError")
  /\ \E x \in calls : StoreError(x)
  /\ UNCHANGED <<brokerVars, msgCh, adapterVars, reply, deliveryVars>>

RestartCore ==
  /\ Fault("coreRestart")
  /\ CoreRestart
  /\ KeepReplies(PullsAt("answered"))
  /\ UNCHANGED <<brokerVars, msgCh, adapterVars, deliveryVars>>

\* The ingress process ends, killed or stopped, and starts again.  Start returns
\* as soon as the context is cancelled: it waits neither for the messages in the
\* channel nor for the downlink loop.
Stop ==
  /\ Fault("stop")
  /\ Abandon({Loop, Main})
  /\ KeepReplies(PullsAt("issued"))
  /\ conn' = [k \in Conn |-> NewConn]
  /\ session' = {}
  /\ msgCh' = <<>>
  /\ main' = "idle"
  /\ devices' = {}
  /\ loop' = LoopIdle
  /\ UNCHANGED <<coreData, replaced, deliveryVars>>

-----------------------------------------------------------------------------
Broker ==
  \E k \in Conn :
    \/ \E d \in Device : OnConnectAuthenticate(k, d)
    \/ Break(k) \/ OnDisconnect(k)
    \/ \E m \in Message : OnACLCheck(k, m)
    \/ TouchSession(k) \/ OnPublish(k)

MessageHandler == HandleUplink \/ HandleReceipt \/ \E x \in calls : Handled(x)

DownlinkLoop ==
  \/ Tick \/ Publish
  \/ \E d \in Device : Poll(d)
  \/ \E x \in calls : Pulled(x) \/ Reported(x)

Faults ==
  \/ MainTimeout \/ LoopTimeout \/ PublishFails \/ DatabaseError \/ RestartCore \/ Stop
  \/ \E d \in Device : Expire(d)

Next ==
  \/ Broker \/ MessageHandler \/ DownlinkLoop \/ CoreStep \/ Faults
  \/ \E c \in Command : Receive(c)
  \/ \E x \in calls : ServePullCommands(x)

Spec == Init /\ [][Next]_vars

\* Goroutines that can run do run and the ticker ticks; the Core serves every
\* call.  Nothing makes devices connect or speak, users create commands, or
\* connections break.
Fairness ==
  /\ WF_vars(MessageHandler)
  /\ WF_vars(DownlinkLoop)
  /\ WF_vars(\E x \in calls : ServePullCommands(x))
  /\ \A p \in Client :
       WF_vars((\E x \in {y \in calls : y.from = p} : ServeMark(x)) /\ UNCHANGED <<adapterState, reply>>)

FairSpec == Spec /\ Fairness

-----------------------------------------------------------------------------
(* Properties.                                                             *)

InReply(c) == {n \in DOMAIN reply : c \in Waiting(reply[n])}

\* Everywhere the message of command c can be before it is published.
Places(c) ==
  {<<"pushing", b>> : b \in pushing \cap {c}} \cup
  (UNION {{<<"queue", d, i>> : i \in {j \in DOMAIN queue[d] : queue[d][j] = c}} :
            d \in Device}) \cup
  (UNION {{<<"reply", n, i>> : i \in {j \in DOMAIN reply[n] : reply[n][j] = c}} :
            n \in DOMAIN reply}) \cup
  {<<"batch", i>> : i \in {j \in DOMAIN loop.batch : loop.batch[j] = c}}

\* A queue never has to give up a message to make room for another.
RoomForAll == Capacity = 0 \/ (IsFiniteSet(Command) /\ Cardinality(Command) <= Capacity)

\* A command is published at most once: until then its message is in one place,
\* and afterwards in none, whichever call times out, is executed late or dies
\* with the Core.  As long as nothing has failed and the queue has room it is
\* not lost before, however pulls and pushes interleave.
OnePlace ==
  \A c \in Command :
    /\ \A p, q \in Places(c) : p = q
    /\ c \in aired => Places(c) = {}
    /\ faults = 0 /\ RoomForAll /\ status[c] # "none" => c \in aired \/ Places(c) # {}

\* No status RPC about command c is under way.
Quiet(c) == \A x \in calls : x.cmd # c

\* The row says "acked" only of a command the device received, or which some
\* device answered before that: no code compares an answer with the commands that
\* were delivered, but neither the publish nor a report that failed or came late
\* counts as an answer.  As long as nothing has failed the row says no less than
\* that the command was published once it was, and no more than what was
\* answered.  What it need not say is the answer: SENT is reported after the
\* publish and may overwrite it.
RowAgrees ==
  \A c \in Command :
    /\ status[c] = "acked" => c \in got \cup early
    /\ faults = 0 /\ Quiet(c) =>
         /\ status[c] = "queued" => c \notin aired
         /\ status[c] = "sent" => c \in aired \cup early
         /\ status[c] \in {"acked", "failed"} => outcome[c] = "answered"

\* A device whose connection was never replaced keeps the session that lets it
\* publish for as long as that connection is served.
SessionKept ==
  \A k \in Conn :
    conn[k].at \in {"live", "admitted"} /\ ~conn[k].stop /\ conn[k].dev \notin replaced =>
      conn[k].dev \in session

\* docs/CONFIGURATION.md:188-190 says that once a device is connected the broker
\* lets it publish under its topics: the connection that is served has a session.
ConnectedMayPublish ==
  \A k \in Conn : conn[k].at = "live" /\ ~conn[k].stop => conn[k].dev \in session

\* A command queued for a device the adapter remembers leaves the queue in the
\* end, even if a pull times out, unless the device is forgotten.
QueueIsPolled ==
  \A c \in Command, d \in Device :
    c \in Waiting(queue[d]) /\ d \in devices ~> c \notin Waiting(queue[d]) \/ d \notin devices

\* An answer to a command of the table that made it into the channel reaches the
\* row, be it for a moment only, unless something fails on its way: the handler
\* neither skips an answer nor gets stuck in another device's report.
AnswerIsRecorded ==
  \A c \in Command, s \in Receipts :
    status[c] # "none" /\ (\E m \in Waiting(msgCh) : m.cmd = c /\ m.kind = s)
      ~> (status[c] = s \/ faults > 0)

-----------------------------------------------------------------------------
(* MQTT delivery implements CommandLifecycle without a second try.  Its     *)
(* last stage forward is "transmitted": answers change the row, never the  *)
(* delivery, whatever they say and whoever sends them.                     *)

StageOf(c) ==
  IF status[c] = "none" THEN "absent"
  ELSE IF outcome[c] = "rejected" THEN "rejected"
  ELSE IF c \in aired THEN "transmitted"
  ELSE IF Places(c) = {} THEN "lost"
  ELSE IF InReply(c) # {} \/ c \in Waiting(loop.batch) THEN "taken"
  ELSE "waiting"

Lifecycle == INSTANCE CommandLifecycle WITH
  stage <- [c \in Command |-> StageOf(c)],
  onAir <- aired,
  received <- got

OnceSpec == Lifecycle!OnceSpec

=============================================================================
