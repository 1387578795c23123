------------------------ MODULE MqttDownlink_proofs ------------------------
(***************************************************************************)
(* Proofs about MqttDownlink, for any devices, commands, connections,      *)
(* capacities, buffers, batches and numbers of faults.                     *)
(***************************************************************************)
EXTENDS MqttDownlink, SequenceTheorems, FiniteSetTheorems, TLAPS

-----------------------------------------------------------------------------
(* Type correctness.                                                       *)

\* What is known of the RPCs under way: only the loop pulls, nobody requeues,
\* and a status report that is not executed yet is about a command.
CallInv ==
  \A x \in calls :
    /\ x.op # "requeue" /\ x.stage # "pushed"
    /\ x.op = "pull" => x.from = Loop /\ x.cmd = NoCommand
    /\ x.op # "pull" /\ x.stage = "issued" => x.cmd \in Command
    /\ x.no <= attempt[x.from]

\* A command whose handler still has to push it belongs to a device.
PushingOwned == \A c \in pushing : owner[c] \in Device

CoreInv == CoreTypeOK /\ CallInv /\ PushingOwned

\* An RPC is given up only because of a fault.
AttemptInv == \A p \in Client : attempt[p] <= faults

Connection ==
  [at: {"none", "live", "checked", "admitted"}, stop: BOOLEAN,
   dev: Device \cup {NoDevice}, msg: Message \cup {NoMessage}]

\* A connection belongs to a device and, from OnACLCheck to OnPublish, has a
\* message in hand.
BrokerInv ==
  /\ conn \in [Conn -> Connection]
  /\ session \subseteq Device /\ replaced \subseteq Device
  /\ \A k \in Conn :
       /\ Open(k) => conn[k].dev \in Device
       /\ conn[k].at \in {"checked", "admitted"} => conn[k].msg \in Message

LoopState ==
  [at: {"idle", "pulling", "publishing", "reporting"}, todo: SUBSET Device,
   dev: Device \cup {NoDevice}, batch: Seq(Command)]

\* The loop works for a device except between two of them, and has commands left
\* exactly when it publishes, or may have some when it reports.
LoopInv ==
  /\ loop \in LoopState /\ Len(loop.batch) <= MaxBatch
  /\ loop.at # "idle" => loop.dev \in Device
  /\ loop.at = "publishing" => loop.batch # <<>>
  /\ loop.at \in {"idle", "pulling"} => loop.batch = <<>>

AdapterInv ==
  /\ msgCh \in Seq(Message) /\ Len(msgCh) <= MessageBuffer
  /\ main \in {"idle", "reporting"}
  /\ devices \subseteq Device
  /\ LoopInv
  /\ reply \in [0 .. MaxFaults -> Seq(Command)]
  /\ \A n \in 0 .. MaxFaults : Len(reply[n]) <= MaxBatch

DeliveryInv ==
  /\ aired \subseteq Command /\ got \subseteq aired
  /\ outcome \in [Command -> {"open", "answered", "rejected"}]
  /\ early \subseteq Command
  /\ faults \in 0 .. MaxFaults

TypeInv == CoreInv /\ AttemptInv /\ BrokerInv /\ AdapterInv /\ DeliveryInv

\* The invariant is stronger than the types.
LEMMA TypeInvImplies == TypeInv => TypeOK
BY DEF TypeInv, TypeOK, CoreInv, BrokerInv, AdapterInv, LoopInv, DeliveryInv, Connection, LoopState

\* The adapter starts with nothing remembered and nothing under way.
LEMMA TypeInvInit == Init => TypeInv
<1> SUFFICES ASSUME Init PROVE TypeInv
  OBVIOUS
<1>0. /\ MaxFaults \in Nat /\ MessageBuffer \in Nat /\ MaxBatch \in Nat
      /\ <<>> \in Seq(Command) /\ <<>> \in Seq(Message)
      /\ Len(<<>>) = 0
  BY FaultAssumption, BufferAssumption
<1>1. CoreInv /\ AttemptInv
  BY <1>0 DEF Init, CoreInit, CoreInv, CoreTypeOK, CallInv, PushingOwned, AttemptInv, Status
<1>2. BrokerInv
  BY DEF Init, BrokerInv, Connection, NewConn, Open
<1>3. AdapterInv
  BY <1>0 DEF Init, AdapterInv, LoopInv, LoopIdle, LoopState
<1>4. DeliveryInv
  BY <1>0 DEF Init, DeliveryInv
<1> QED
  BY <1>1, <1>2, <1>3, <1>4 DEF TypeInv

\* A request, ...
LEMMA IssueKeepsCore ==
  ASSUME CoreInv, UNCHANGED coreData,
         NEW p \in Client, NEW op \in {"pull", "sent", "acked", "failed"}, NEW d \in Device,
         NEW c \in Command \cup {NoCommand},
         op = "pull" => p = Loop /\ c = NoCommand, op # "pull" => c \in Command,
         Issue(p, op, d, c)
  PROVE  CoreInv'
<1> DEFINE x == [from |-> p, no |-> attempt[p], op |-> op, dev |-> d, cmd |-> c,
                 stage |-> "issued"]
<1>1. calls' = calls \cup {x} /\ attempt' = attempt
  BY DEF Issue
<1>2. x \in Call /\ x.no <= attempt[x.from]
  BY DEF CoreInv, CoreTypeOK, Call
<1>3. x.op = op /\ x.stage = "issued" /\ x.from = p /\ x.cmd = c
  OBVIOUS
<1> HIDE DEF x
<1> QED
  BY <1>1, <1>2, <1>3 DEF CoreInv, CoreTypeOK, CallInv, PushingOwned, coreData

\* ... the response to one, ...
LEMMA CollectKeepsCore ==
  ASSUME CoreInv, UNCHANGED coreData, NEW x, Collect(x)
  PROVE  CoreInv'
BY DEF CoreInv, CoreTypeOK, CallInv, PushingOwned, coreData, Collect

\* ... a timeout, ...
LEMMA AbandonKeepsCore ==
  ASSUME CoreInv, UNCHANGED coreData, NEW K, Abandon(K)
  PROVE  /\ CoreInv'
         /\ \A p \in Client : attempt'[p] <= attempt[p] + 1
<1>1. /\ calls' \subseteq calls /\ attempt' \in [Client -> Nat]
      /\ \A p \in Client : attempt[p] <= attempt'[p] /\ attempt'[p] <= attempt[p] + 1
  BY DEF CoreInv, CoreTypeOK, Abandon
<1>2. \A x \in calls : x.no \in Nat /\ x.from \in Client /\ attempt[x.from] \in Nat
  BY DEF CoreInv, CoreTypeOK, Call
<1>3. \A x \in calls : x.no <= attempt'[x.from]
  BY <1>1, <1>2 DEF CoreInv, CallInv
<1> QED
  BY <1>1, <1>3 DEF CoreInv, CoreTypeOK, CallInv, PushingOwned, coreData

\* ... and an answer keep the calls what they are.
LEMMA AnswerKeepsCalls ==
  ASSUME CoreInv, NEW x \in calls, x.op = "pull" \/ x.cmd \in Command,
         NEW c \in {x.cmd, NoCommand}, calls' = Answer(x, c), UNCHANGED attempt
  PROVE  CallInv' /\ (calls \subseteq Call)'
<1> DEFINE y == [x EXCEPT !.stage = "answered", !.cmd = c]
<1>1. x \in Call
  BY DEF CoreInv, CoreTypeOK
<1>2. /\ y \in Call /\ y.stage = "answered" /\ y.op = x.op /\ y.from = x.from /\ y.no = x.no
      /\ y.cmd = c
  BY <1>1 DEF Call
<1>3. calls' \subseteq calls \cup {y}
  BY DEF Answer
<1> HIDE DEF y
<1> QED
  BY <1>1, <1>2, <1>3 DEF CoreInv, CoreTypeOK, CallInv

\* Enqueue keeps a queue a queue.
LEMMA EnqueuedIsQueue ==
  ASSUME NEW S, NEW q \in Seq(S), NEW m \in S, NEW cap \in Nat
  PROVE  Enqueued(q, m, cap) \in Seq(S)
<1>1. CASE QueueFull(q, cap)
  <2>1. q # <<>>
    BY <1>1, EmptySeq DEF QueueFull
  <2>2. Tail(q) \in Seq(S)
    BY <2>1
  <2> QED
    BY <1>1, <2>2 DEF Enqueued
<1>2. CASE ~QueueFull(q, cap)
  BY <1>2 DEF Enqueued
<1> QED
  BY <1>1, <1>2

-----------------------------------------------------------------------------
(* The steps keep the types.                                               *)

\* The hooks of the broker.
LEMMA BrokerKeepsTypeInv ==
  ASSUME TypeInv, Broker
  PROVE  TypeInv'
<1>0. /\ CoreInv /\ AttemptInv /\ BrokerInv /\ AdapterInv /\ DeliveryInv
      /\ MessageBuffer \in Nat /\ NoDevice \notin Device
  BY BufferAssumption, DistinctAssumption DEF TypeInv
<1>1. CoreInv' /\ AttemptInv' /\ DeliveryInv' /\ UNCHANGED <<main, devices, loop, reply>>
  <2>1. UNCHANGED <<coreVars, main, devices, loop, reply, aired, got, outcome, faults>>
    BY DEF Broker, OnConnectAuthenticate, Break, OnDisconnect, OnACLCheck, TouchSession, OnPublish,
       adapterVars, deliveryVars
  <2>2. early' = early \/ \E m \in Message : early' = early \cup ({m.cmd} \ (got \cup {NoCommand}))
    BY DEF Broker, OnConnectAuthenticate, Break, OnDisconnect, OnACLCheck, TouchSession, OnPublish,
       deliveryVars
  <2>3. \A m \in Message : m.cmd \in Command \cup {NoCommand}
    BY DEF Message
  <2>4. early' \subseteq Command
    BY <1>0, <2>2, <2>3 DEF DeliveryInv
  <2> QED
    BY <1>0, <2>1, <2>4 DEF coreVars, CoreInv, CoreTypeOK, CallInv, PushingOwned,
       AttemptInv, DeliveryInv
<1>2. BrokerInv' /\ msgCh' \in Seq(Message) /\ (Len(msgCh) <= MessageBuffer)'
  <2>0. /\ conn \in [Conn -> Connection] /\ session \subseteq Device /\ replaced \subseteq Device
        /\ \A k \in Conn :
             /\ conn[k].at # "none" => conn[k].dev \in Device
             /\ conn[k].at \in {"checked", "admitted"} => conn[k].msg \in Message
        /\ msgCh \in Seq(Message) /\ Len(msgCh) <= MessageBuffer
    BY <1>0 DEF BrokerInv, AdapterInv, Open
  <2>1. ASSUME NEW k \in Conn, NEW d \in Device, OnConnectAuthenticate(k, d)
        PROVE  BrokerInv' /\ msgCh' = msgCh
    BY <2>0, <2>1, ZenonT(60) DEF OnConnectAuthenticate, BrokerInv, Connection, NewConn, Open
  <2>2. ASSUME NEW k \in Conn, Break(k) PROVE BrokerInv' /\ msgCh' = msgCh
    BY <2>0, <2>2, ZenonT(60) DEF Break, BrokerInv, Connection, Open
  <2>3. ASSUME NEW k \in Conn, OnDisconnect(k) PROVE BrokerInv' /\ msgCh' = msgCh
    BY <2>0, <2>3 DEF OnDisconnect, BrokerInv, Connection, NewConn, Open
  <2>4. ASSUME NEW k \in Conn, NEW m \in Message, OnACLCheck(k, m)
        PROVE  BrokerInv' /\ msgCh' = msgCh
    BY <2>0, <2>4, ZenonT(60) DEF OnACLCheck, BrokerInv, Connection, Open
  <2>5. ASSUME NEW k \in Conn, TouchSession(k) PROVE BrokerInv' /\ msgCh' = msgCh
    BY <2>0, <2>5 DEF TouchSession, BrokerInv, Connection, Open
  <2>6. ASSUME NEW k \in Conn, OnPublish(k)
        PROVE  BrokerInv' /\ msgCh' \in Seq(Message) /\ (Len(msgCh) <= MessageBuffer)'
    <3>1. BrokerInv'
      BY <2>0, <2>6, ZenonT(60) DEF OnPublish, BrokerInv, Connection, Open
    <3>2. conn[k].msg \in Message
      BY <2>0, <2>6 DEF OnPublish
    <3>3. /\ Append(msgCh, conn[k].msg) \in Seq(Message)
          /\ Len(Append(msgCh, conn[k].msg)) = Len(msgCh) + 1
      BY <2>0, <3>2
    <3> QED
      BY <1>0, <2>0, <2>6, <3>1, <3>3 DEF OnPublish
  <2> QED
    BY <2>0, <2>1, <2>2, <2>3, <2>4, <2>5, <2>6 DEF Broker
<1> QED
  BY <1>0, <1>1, <1>2 DEF TypeInv, AdapterInv, LoopInv

\* Taking the first message from the channel leaves messages there.
LEMMA HeadOfChannel ==
  ASSUME AdapterInv, msgCh # <<>>
  PROVE  /\ Head(msgCh) \in Message
         /\ Tail(msgCh) \in Seq(Message) /\ Len(Tail(msgCh)) <= MessageBuffer
         /\ Head(msgCh).dev \in Device
         /\ Head(msgCh).kind \in Receipts =>
              Head(msgCh).cmd \in Command /\ Head(msgCh).kind \in {"sent", "acked", "failed"}
<1>1. msgCh \in Seq(Message) /\ Len(msgCh) <= MessageBuffer /\ MessageBuffer \in Nat
  BY BufferAssumption DEF AdapterInv
<1>2. Head(msgCh) \in Message /\ Tail(msgCh) \in Seq(Message) /\ Len(Tail(msgCh)) <= MessageBuffer
  BY <1>1
<1>3. ASSUME NEW m \in Message
      PROVE  /\ m.dev \in Device
             /\ m.kind \in Receipts => m.cmd \in Command /\ m.kind \in {"sent", "acked", "failed"}
  BY ReceiptAssumption DEF Message
<1> QED
  BY <1>2, <1>3

\* The goroutine that handles the messages.
LEMMA MessageHandlerKeepsTypeInv ==
  ASSUME TypeInv, MessageHandler
  PROVE  TypeInv'
<1>0. CoreInv /\ AttemptInv /\ BrokerInv /\ AdapterInv /\ DeliveryInv
  BY DEF TypeInv
<1>1. BrokerInv'
  <2>1. UNCHANGED brokerVars
    BY DEF MessageHandler, HandleUplink, HandleReceipt, Handled
  <2> QED
    BY <1>0, <2>1 DEF brokerVars, BrokerInv, Open
<1>2. CASE HandleUplink
  <2>1. CoreInv' /\ AttemptInv' /\ DeliveryInv' /\ LoopInv' /\ UNCHANGED <<main, reply>>
    BY <1>0, <1>2 DEF HandleUplink, coreVars, deliveryVars, CoreInv, CoreTypeOK, CallInv,
       PushingOwned, AttemptInv, DeliveryInv, AdapterInv, LoopInv
  <2>2. msgCh' = Tail(msgCh) /\ devices' = devices \cup {Head(msgCh).dev} /\ msgCh # <<>>
    BY <1>2 DEF HandleUplink, Remember
  <2> QED
    BY <1>0, <1>1, <2>1, <2>2, HeadOfChannel DEF TypeInv, AdapterInv
<1>3. CASE HandleReceipt
  <2> DEFINE m == Head(msgCh)
  <2>1. /\ m.dev \in Device /\ m.cmd \in Command /\ m.kind \in {"sent", "acked", "failed"}
        /\ Issue(Main, m.kind, m.dev, m.cmd) /\ UNCHANGED coreData
        /\ outcome' = [outcome EXCEPT ![m.cmd] = IF @ = "open" THEN "answered" ELSE @]
        /\ msgCh' = Tail(msgCh) /\ devices' = devices \cup {m.dev} /\ main' = "reporting"
        /\ UNCHANGED <<loop, reply, aired, got, early, faults>>
    BY <1>0, <1>3, HeadOfChannel DEF HandleReceipt, Remember
  <2>2. msgCh' \in Seq(Message) /\ (Len(msgCh) <= MessageBuffer)'
    BY <1>0, <1>3, <2>1, HeadOfChannel DEF HandleReceipt
  <2>3. CoreInv' /\ attempt' = attempt
    <3> HIDE DEF m
    <3>1. Main \in Client
      BY ClientAssumption
    <3>2. CoreInv'
      BY <1>0, <2>1, <3>1, IssueKeepsCore
    <3> QED
      BY <2>1, <3>2 DEF Issue
  <2>4. DeliveryInv' /\ AttemptInv'
    BY <1>0, <2>1, <2>3 DEF DeliveryInv, AttemptInv
  <2>5. AdapterInv'
    BY <1>0, <2>1, <2>2 DEF AdapterInv, LoopInv
  <2> QED
    BY <1>1, <2>3, <2>4, <2>5 DEF TypeInv
<1>4. ASSUME NEW x \in calls, Handled(x) PROVE TypeInv'
  <2>1. CoreInv'
    BY <1>0, <1>4, CollectKeepsCore DEF Handled
  <2>2. AttemptInv' /\ DeliveryInv' /\ AdapterInv'
    BY <1>0, <1>4 DEF Handled, Collect, deliveryVars, AttemptInv, DeliveryInv, AdapterInv, LoopInv
  <2> QED
    BY <1>1, <2>1, <2>2 DEF TypeInv
<1> QED
  BY <1>2, <1>3, <1>4 DEF MessageHandler

\* Where the loop goes on is a state of the loop.
LEMMA ContinueKeepsLoop ==
  ASSUME LoopInv, loop.dev \in Device, NEW b \in Seq(Command), Len(b) <= MaxBatch,
         loop' = Continue(b)
  PROVE  LoopInv'
<1>1. loop'.at = (IF b = <<>> THEN "idle" ELSE "publishing") /\ loop'.batch = b
      /\ loop'.dev = loop.dev /\ loop' \in LoopState
  BY DEF Continue, LoopInv, LoopState
<1> QED
  BY <1>1 DEF LoopInv

\* What reporting a status does to the loop and the Core.
LEMMA ReportProperties ==
  ASSUME TypeInv, UNCHANGED coreData, loop.at = "publishing",
         NEW op \in {"sent", "failed"}, Report(op)
  PROVE  /\ CoreInv' /\ LoopInv' /\ attempt' = attempt
         /\ Head(loop.batch) \in Command /\ Tail(loop.batch) \in Seq(Command)
         /\ loop'.at = "reporting" /\ loop'.batch = Tail(loop.batch)
         /\ loop'.todo = loop.todo /\ loop'.dev = loop.dev
<1>0. CoreInv /\ LoopInv /\ MaxBatch \in Nat /\ Loop \in Client
  BY ClientAssumption, BufferAssumption DEF TypeInv, AdapterInv
<1>1. /\ loop.batch \in Seq(Command) /\ loop.batch # <<>> /\ loop.dev \in Device
      /\ Len(loop.batch) <= MaxBatch
  BY <1>0 DEF LoopInv, LoopState
<1>2. /\ Head(loop.batch) \in Command /\ Tail(loop.batch) \in Seq(Command)
      /\ Len(Tail(loop.batch)) <= MaxBatch
  BY <1>0, <1>1
<1>3. Issue(Loop, op, loop.dev, Head(loop.batch))
  BY DEF Report
<1>4. CoreInv' /\ attempt' = attempt
  <2>1. CoreInv'
    BY <1>0, <1>1, <1>2, <1>3, IssueKeepsCore
  <2> QED
    BY <1>3, <2>1 DEF Issue
<1>5. /\ loop'.at = "reporting" /\ loop'.batch = Tail(loop.batch)
      /\ loop'.todo = loop.todo /\ loop'.dev = loop.dev /\ loop' \in LoopState
  BY <1>0, <1>2 DEF Report, LoopInv, LoopState
<1> QED
  BY <1>1, <1>2, <1>4, <1>5 DEF LoopInv

\* A call of the loop finds its place among the replies.
LEMMA PullHasReply ==
  ASSUME TypeInv, NEW x \in calls
  PROVE  x.no \in 0 .. MaxFaults
<1>1. x \in Call /\ x.no <= attempt[x.from]
  BY DEF TypeInv, CoreInv, CoreTypeOK, CallInv
<1>2. x.from \in Client /\ x.no \in Nat /\ attempt[x.from] \in Nat
  BY <1>1 DEF Call, TypeInv, CoreInv, CoreTypeOK
<1>3. attempt[x.from] <= faults /\ faults \in 0 .. MaxFaults /\ MaxFaults \in Nat
  BY <1>2, FaultAssumption DEF TypeInv, AttemptInv, DeliveryInv
<1> QED
  BY <1>1, <1>2, <1>3

\* The goroutine that polls and publishes.
LEMMA DownlinkLoopKeepsTypeInv ==
  ASSUME TypeInv, DownlinkLoop
  PROVE  TypeInv'
<1>0. /\ CoreInv /\ AttemptInv /\ BrokerInv /\ AdapterInv /\ DeliveryInv /\ LoopInv
      /\ MaxFaults \in Nat
  BY FaultAssumption DEF TypeInv, AdapterInv
<1>1. BrokerInv' /\ UNCHANGED <<msgCh, main, devices>>
  <2>1. UNCHANGED <<brokerVars, msgCh, main, devices>>
    BY DEF DownlinkLoop, Tick, Publish, Poll, Pulled, Reported
  <2> QED
    BY <1>0, <2>1 DEF brokerVars, BrokerInv, Open
<1>2. CASE Tick
  <2>1. /\ UNCHANGED coreVars /\ UNCHANGED <<reply, aired, got, outcome, early, faults>>
        /\ loop' = [loop EXCEPT !.todo = devices] /\ loop.at = "idle"
    BY <1>2 DEF Tick, deliveryVars
  <2>2. LoopInv'
    BY <1>0, <2>1 DEF LoopInv, LoopState, AdapterInv
  <2> QED
    BY <1>0, <1>1, <2>1, <2>2 DEF TypeInv, coreVars, CoreInv, CoreTypeOK, CallInv, PushingOwned,
       AttemptInv, DeliveryInv, AdapterInv
<1>3. ASSUME NEW d \in Device, Poll(d) PROVE TypeInv'
  <2>1. /\ UNCHANGED coreData /\ UNCHANGED <<reply, aired, got, outcome, early, faults>>
        /\ loop' = [loop EXCEPT !.at = "pulling", !.todo = @ \ {d}, !.dev = d]
        /\ loop.at = "idle" /\ Issue(Loop, "pull", d, NoCommand)
    BY <1>3 DEF Poll, deliveryVars
  <2>2. LoopInv'
    BY <1>0, <2>1 DEF LoopInv, LoopState
  <2>3. CoreInv' /\ attempt' = attempt
    <3>1. Loop \in Client
      BY ClientAssumption
    <3>2. CoreInv'
      BY <1>0, <2>1, <3>1, IssueKeepsCore
    <3> QED
      BY <2>1, <3>2 DEF Issue
  <2> QED
    BY <1>0, <1>1, <2>1, <2>2, <2>3 DEF TypeInv, AttemptInv, DeliveryInv, AdapterInv
<1>4. ASSUME NEW x \in calls, Pulled(x) PROVE TypeInv'
  <2>1. /\ UNCHANGED coreData /\ UNCHANGED <<aired, got, outcome, early, faults>>
        /\ loop' = Continue(reply[x.no]) /\ loop.at = "pulling" /\ Collect(x)
        /\ reply' = [reply EXCEPT ![x.no] = <<>>]
    BY <1>4 DEF Pulled, deliveryVars
  <2>2. x.no \in 0 .. MaxFaults
    BY PullHasReply
  <2>3. CoreInv' /\ attempt' = attempt
    BY <1>0, <2>1, CollectKeepsCore DEF Collect
  <2>4. /\ <<>> \in Seq(Command) /\ Len(<<>>) <= MaxBatch
        /\ reply[x.no] \in Seq(Command) /\ Len(reply[x.no]) <= MaxBatch
    BY <1>0, <2>2, BufferAssumption DEF AdapterInv
  <2>5. LoopInv'
    BY <1>0, <2>1, <2>4, ContinueKeepsLoop DEF LoopInv
  <2>6. reply' \in [0 .. MaxFaults -> Seq(Command)] /\ \A n \in 0 .. MaxFaults : Len(reply'[n]) <= MaxBatch
    BY <1>0, <2>1, <2>2, <2>4 DEF AdapterInv
  <2> QED
    BY <1>0, <1>1, <2>1, <2>3, <2>5, <2>6 DEF TypeInv, AttemptInv, DeliveryInv, AdapterInv
<1>5. CASE Publish
  <2>1. /\ UNCHANGED coreData /\ UNCHANGED <<reply, got, outcome, early, faults>>
        /\ aired' = aired \cup {Head(loop.batch)} /\ loop.at = "publishing" /\ Report("sent")
    BY <1>5 DEF Publish
  <2>2. CoreInv' /\ LoopInv' /\ attempt' = attempt /\ Head(loop.batch) \in Command
    BY <2>1, ReportProperties
  <2> QED
    BY <1>0, <1>1, <2>1, <2>2 DEF TypeInv, AttemptInv, DeliveryInv, AdapterInv
<1>6. ASSUME NEW x \in calls, Reported(x) PROVE TypeInv'
  <2>1. /\ UNCHANGED coreData /\ UNCHANGED <<reply, aired, got, outcome, early, faults>>
        /\ loop' = Continue(loop.batch) /\ loop.at = "reporting" /\ Collect(x)
    BY <1>6 DEF Reported, deliveryVars
  <2>2. CoreInv' /\ attempt' = attempt
    BY <1>0, <2>1, CollectKeepsCore DEF Collect
  <2>3. LoopInv'
    BY <1>0, <2>1, ContinueKeepsLoop DEF LoopInv, LoopState
  <2> QED
    BY <1>0, <1>1, <2>1, <2>2, <2>3 DEF TypeInv, AttemptInv, DeliveryInv, AdapterInv
<1> QED
  BY <1>2, <1>3, <1>4, <1>5, <1>6 DEF DownlinkLoop

\* The Core's handlers, pulls apart.
LEMMA CoreStepKeepsTypeInv ==
  ASSUME TypeInv, CoreStep
  PROVE  TypeInv'
<1>0. CoreInv /\ AttemptInv /\ BrokerInv /\ AdapterInv /\ DeliveryInv
  BY DEF TypeInv
<1>1. UNCHANGED <<adapterState, reply, attempt>>
  BY DEF CoreStep, CreateCommand, PushCommand, ServeMark, LoseRequest
<1>2. AttemptInv' /\ BrokerInv' /\ AdapterInv' /\ DeliveryInv'
  BY <1>0, <1>1 DEF adapterState, brokerVars, adapterVars, deliveryVars, AttemptInv, BrokerInv,
     Open, AdapterInv, LoopInv, DeliveryInv
<1>3. CoreInv'
  <2>1. ASSUME NEW c \in Command, NEW d \in Device, CreateCommand(c, d) PROVE CoreInv'
    BY <1>0, <2>1 DEF CreateCommand, CoreInv, CoreTypeOK, CallInv, PushingOwned, Status
  <2>2. ASSUME NEW c \in Command, PushCommand(c) PROVE CoreInv'
    <3>1. owner[c] \in Device /\ queue[owner[c]] \in Seq(Command)
      BY <1>0, <2>2 DEF PushCommand, CoreInv, CoreTypeOK, PushingOwned
    <3>2. Enqueued(queue[owner[c]], c, Capacity) \in Seq(Command)
      BY <3>1, EnqueuedIsQueue, CapacityAssumption
    <3> QED
      BY <1>0, <2>2, <3>1, <3>2 DEF PushCommand, CoreInv, CoreTypeOK, CallInv, PushingOwned
  <2>3. ASSUME NEW x \in calls, ServeMark(x) PROVE CoreInv'
    <3>1. x.cmd \in Command
      BY <1>0, <2>3 DEF ServeMark, CoreInv, CallInv
    <3>2. CallInv' /\ (calls \subseteq Call)'
      BY <1>0, <2>3, <3>1, AnswerKeepsCalls DEF ServeMark
    <3> QED
      BY <1>0, <2>3, <3>1, <3>2 DEF ServeMark, CoreInv, CoreTypeOK, PushingOwned, Status
  <2>4. ASSUME NEW x \in calls, LoseRequest(x) PROVE CoreInv'
    BY <1>0, <2>4 DEF LoseRequest, CoreInv, CoreTypeOK, CallInv, PushingOwned
  <2> QED
    BY <2>1, <2>2, <2>3, <2>4 DEF CoreStep
<1> QED
  BY <1>2, <1>3 DEF TypeInv

\* PullCommands pops one command or answers.
LEMMA ServePullKeepsTypeInv ==
  ASSUME TypeInv, NEW x \in calls, ServePullCommands(x)
  PROVE  TypeInv'
<1>0. CoreInv /\ AttemptInv /\ BrokerInv /\ AdapterInv /\ DeliveryInv /\ MaxBatch \in Nat
  BY BufferAssumption DEF TypeInv
<1>1. x.no \in 0 .. MaxFaults /\ x.dev \in Device /\ x.op = "pull" /\ x.cmd = NoCommand
  BY <1>0, PullHasReply DEF ServePullCommands, CoreInv, CoreTypeOK, CallInv, Call
<1>2. UNCHANGED <<status, owner, pushing, attempt, adapterState>>
  BY DEF ServePullCommands
<1>3. /\ AttemptInv' /\ BrokerInv' /\ DeliveryInv' /\ LoopInv' /\ UNCHANGED <<msgCh, main, devices>>
  BY <1>0, <1>2 DEF adapterState, brokerVars, adapterVars, deliveryVars, AttemptInv, BrokerInv,
     Open, AdapterInv, LoopInv, DeliveryInv
<1>4. /\ queue[x.dev] \in Seq(Command) /\ reply[x.no] \in Seq(Command)
      /\ Len(reply[x.no]) <= MaxBatch
  BY <1>0, <1>1 DEF CoreInv, CoreTypeOK, AdapterInv
<1>5. CASE queue[x.dev] = <<>> \/ Len(reply[x.no]) = MaxBatch
  <2>1. CallInv' /\ (calls \subseteq Call)' /\ queue' = queue
    BY <1>0, <1>1, <1>2, <1>5, AnswerKeepsCalls DEF ServePullCommands
  <2>2. CoreInv'
    BY <1>0, <1>2, <2>1 DEF CoreInv, CoreTypeOK, PushingOwned
  <2>3. <<>> \in Seq(Command) /\ Len(<<>>) = 0
    OBVIOUS
  <2>4. /\ reply' \in [0 .. MaxFaults -> Seq(Command)]
        /\ \A n \in 0 .. MaxFaults : Len(reply'[n]) <= MaxBatch
    <3>1. reply' = [reply EXCEPT ![x.no] = IF Live(x) THEN @ ELSE <<>>]
      BY <1>5 DEF ServePullCommands
    <3> QED
      BY <1>0, <1>1, <1>4, <2>3, <3>1 DEF AdapterInv
  <2> QED
    BY <1>0, <1>3, <2>2, <2>4 DEF TypeInv, AdapterInv
<1>6. CASE ~(queue[x.dev] = <<>> \/ Len(reply[x.no]) = MaxBatch)
  <2> DEFINE c == Head(queue[x.dev])
  <2>1. c \in Command /\ Tail(queue[x.dev]) \in Seq(Command)
    BY <1>4, <1>6
  <2>2. /\ Append(reply[x.no], c) \in Seq(Command)
        /\ Len(Append(reply[x.no], c)) <= MaxBatch
    BY <1>0, <1>4, <1>6, <2>1
  <2>3. /\ reply' = [reply EXCEPT ![x.no] = Append(@, c)]
        /\ queue' = [queue EXCEPT ![x.dev] = Tail(@)] /\ calls' = calls
    BY <1>6 DEF ServePullCommands
  <2> HIDE DEF c
  <2>4. CoreInv'
    BY <1>0, <1>1, <1>2, <2>1, <2>3 DEF CoreInv, CoreTypeOK, CallInv, PushingOwned
  <2>5. /\ reply' \in [0 .. MaxFaults -> Seq(Command)]
        /\ \A n \in 0 .. MaxFaults : Len(reply'[n]) <= MaxBatch
    BY <1>0, <1>1, <1>4, <2>2, <2>3 DEF AdapterInv
  <2> QED
    BY <1>0, <1>3, <2>4, <2>5 DEF TypeInv, AdapterInv
<1> QED
  BY <1>5, <1>6

\* What is kept of the replies are replies.
LEMMA KeptReplies ==
  ASSUME AdapterInv, NEW K, KeepReplies(K)
  PROVE  /\ reply' \in [0 .. MaxFaults -> Seq(Command)]
         /\ \A n \in 0 .. MaxFaults : Len(reply'[n]) <= MaxBatch
         /\ \A n \in 0 .. MaxFaults : reply'[n] \in {reply[n], <<>>}
<1>1. <<>> \in Seq(Command) /\ Len(<<>>) <= MaxBatch
  BY BufferAssumption
<1> QED
  BY <1>1 DEF AdapterInv, KeepReplies

\* The faults.
LEMMA FaultsKeepTypeInv ==
  ASSUME TypeInv, Faults
  PROVE  TypeInv'
<1>0. /\ CoreInv /\ AttemptInv /\ BrokerInv /\ AdapterInv /\ DeliveryInv /\ LoopInv
      /\ MaxFaults \in Nat /\ attempt \in [Client -> Nat]
  BY FaultAssumption DEF TypeInv, AdapterInv, CoreInv, CoreTypeOK
<1>1. faults < MaxFaults /\ faults' = faults + 1 /\ faults' \in 0 .. MaxFaults /\ faults \in Nat
  BY <1>0 DEF Faults, MainTimeout, LoopTimeout, PublishFails, DatabaseError, RestartCore, Stop,
     Expire, Fault, DeliveryInv
<1>2. ASSUME \A p \in Client : attempt'[p] <= attempt[p] + 1, attempt' \in [Client -> Nat]
      PROVE  AttemptInv'
  BY <1>0, <1>1, <1>2 DEF AttemptInv
<1>3. ASSUME UNCHANGED deliveryVars PROVE DeliveryInv'
  BY <1>0, <1>1, <1>3 DEF DeliveryInv, deliveryVars
<1>4. ASSUME UNCHANGED brokerVars PROVE BrokerInv'
  BY <1>0, <1>4 DEF BrokerInv, brokerVars, Open
<1>5. CASE MainTimeout
  <2>1. CoreInv' /\ AttemptInv'
    BY <1>0, <1>2, <1>5, AbandonKeepsCore DEF MainTimeout, CoreInv, CoreTypeOK
  <2>2. BrokerInv' /\ DeliveryInv' /\ AdapterInv'
    BY <1>0, <1>3, <1>4, <1>5 DEF MainTimeout, AdapterInv, LoopInv
  <2> QED
    BY <2>1, <2>2 DEF TypeInv
<1>6. CASE LoopTimeout
  <2>1. CoreInv' /\ AttemptInv'
    BY <1>0, <1>2, <1>6, AbandonKeepsCore DEF LoopTimeout, CoreInv, CoreTypeOK
  <2>2. LoopInv'
    BY <1>0, <1>6, ContinueKeepsLoop DEF LoopTimeout, LoopInv, LoopState
  <2>3. BrokerInv' /\ DeliveryInv' /\ AdapterInv'
    BY <1>0, <1>3, <1>4, <1>6, <2>2, KeptReplies DEF LoopTimeout, AdapterInv
  <2> QED
    BY <2>1, <2>3 DEF TypeInv
<1>7. CASE PublishFails
  <2>1. /\ UNCHANGED coreData /\ loop.at = "publishing" /\ Report("failed")
        /\ outcome' = [outcome EXCEPT ![Head(loop.batch)] = "rejected"]
        /\ UNCHANGED <<brokerVars, msgCh, main, devices, reply, aired, got, early>>
    BY <1>7 DEF PublishFails
  <2>2. CoreInv' /\ LoopInv' /\ attempt' = attempt /\ Head(loop.batch) \in Command
    BY <2>1, ReportProperties
  <2>3. AttemptInv'
    BY <1>0, <1>1, <2>2 DEF AttemptInv
  <2> QED
    BY <1>0, <1>1, <1>4, <2>1, <2>2, <2>3 DEF TypeInv, AdapterInv, DeliveryInv
<1>8. ASSUME NEW d \in Device, Expire(d) PROVE TypeInv'
  <2>1. /\ UNCHANGED coreVars /\ UNCHANGED <<brokerVars, msgCh, main, reply, deliveryVars>>
        /\ loop.at = "idle" /\ devices' = devices \ {d}
        /\ loop' = [loop EXCEPT !.todo = devices \ {d}]
    BY <1>8 DEF Expire
  <2>2. LoopInv'
    BY <1>0, <2>1 DEF LoopInv, LoopState, AdapterInv
  <2>3. CoreInv' /\ AttemptInv'
    BY <1>0, <1>1, <2>1 DEF coreVars, CoreInv, CoreTypeOK, CallInv, PushingOwned, AttemptInv
  <2> QED
    BY <1>0, <1>3, <1>4, <2>1, <2>2, <2>3 DEF TypeInv, AdapterInv
<1>9. CASE DatabaseError
  <2>1. PICK x \in calls : StoreError(x)
    BY <1>9 DEF DatabaseError
  <2>2. /\ x.op \in {"sent", "acked", "failed"} /\ x.stage = "issued" /\ x.cmd \in Command
        /\ calls' = Answer(x, x.cmd) /\ UNCHANGED <<status, owner, queue, pushing, attempt>>
    BY <1>0, <2>1 DEF StoreError, CoreInv, CallInv
  <2>3. CallInv' /\ (calls \subseteq Call)'
    BY <1>0, <2>2, AnswerKeepsCalls
  <2>4. CoreInv' /\ AttemptInv'
    BY <1>0, <1>1, <2>2, <2>3 DEF CoreInv, CoreTypeOK, PushingOwned, AttemptInv
  <2> QED
    BY <1>0, <1>3, <1>4, <1>9, <2>4 DEF DatabaseError, adapterVars, TypeInv, AdapterInv, LoopInv
<1>10. CASE RestartCore
  <2> DEFINE y(x) == [x EXCEPT !.stage = "answered", !.cmd = NoCommand]
  <2>1. /\ calls' = {x \in calls : Live(x) /\ x.stage = "answered"} \cup
                    {y(x) : x \in {z \in calls : Live(z) /\ z.stage # "answered"}}
        /\ queue' = [d \in Device |-> <<>>] /\ pushing' = {} /\ UNCHANGED <<status, owner, attempt>>
    BY <1>10 DEF RestartCore, CoreRestart
  <2>2. \A x \in calls : /\ y(x) \in Call /\ y(x).stage = "answered" /\ y(x).cmd = NoCommand
                         /\ y(x).op = x.op /\ y(x).from = x.from /\ y(x).no = x.no
    BY <1>0 DEF CoreInv, CoreTypeOK, Call
  <2> HIDE DEF y
  <2>3. \A w \in calls' : w \in calls \/ \E x \in calls : w = y(x)
    BY <2>1
  <2>4. CallInv' /\ (calls \subseteq Call)'
    BY <1>0, <2>1, <2>2, <2>3 DEF CoreInv, CoreTypeOK, CallInv
  <2>5. CoreInv' /\ AttemptInv'
    <3>1. <<>> \in Seq(Command)
      OBVIOUS
    <3> QED
      BY <1>0, <1>1, <2>1, <2>4, <3>1 DEF CoreInv, CoreTypeOK, PushingOwned, AttemptInv
  <2> QED
    BY <1>0, <1>3, <1>4, <1>10, <2>5, KeptReplies
    DEF RestartCore, adapterVars, TypeInv, AdapterInv, LoopInv
<1>11. CASE Stop
  <2>1. CoreInv' /\ AttemptInv'
    BY <1>0, <1>2, <1>11, AbandonKeepsCore DEF Stop, CoreInv, CoreTypeOK
  <2>2. BrokerInv'
    BY <1>0, <1>11 DEF Stop, BrokerInv, Connection, NewConn, Open
  <2>3. <<>> \in Seq(Command) /\ <<>> \in Seq(Message) /\ Len(<<>>) <= MaxBatch
        /\ Len(<<>>) <= MessageBuffer
    BY BufferAssumption
  <2>4. LoopInv'
    BY <1>11, <2>3 DEF Stop, LoopInv, LoopIdle, LoopState
  <2>5. AdapterInv'
    BY <1>0, <1>11, <2>3, <2>4, KeptReplies DEF Stop, AdapterInv
  <2> QED
    BY <1>3, <1>11, <2>1, <2>2, <2>5 DEF Stop, TypeInv
<1> QED
  BY <1>5, <1>6, <1>7, <1>8, <1>9, <1>10, <1>11 DEF Faults

\* So every reachable state is well typed, ...
LEMMA TypeInvAlways == Spec => []TypeInv
<1>1. TypeInv /\ [Next]_vars => TypeInv'
  <2> SUFFICES ASSUME TypeInv, [Next]_vars PROVE TypeInv'
    OBVIOUS
  <2>1. CASE UNCHANGED vars
    BY <2>1 DEF vars, coreVars, brokerVars, adapterVars, deliveryVars, TypeInv, CoreInv, CoreTypeOK,
       CallInv, PushingOwned, AttemptInv, BrokerInv, Open, AdapterInv, LoopInv, DeliveryInv
  <2>2. ASSUME NEW c \in Command, Receive(c) PROVE TypeInv'
    BY <2>2 DEF Receive, coreVars, brokerVars, adapterVars, TypeInv, CoreInv, CoreTypeOK,
       CallInv, PushingOwned, AttemptInv, BrokerInv, Open, AdapterInv, LoopInv, DeliveryInv
  <2> QED
    BY <2>1, <2>2, BrokerKeepsTypeInv, MessageHandlerKeepsTypeInv, DownlinkLoopKeepsTypeInv,
       CoreStepKeepsTypeInv, ServePullKeepsTypeInv, FaultsKeepTypeInv DEF Next
<1> QED
  BY <1>1, TypeInvInit, PTL DEF Spec

\* ... and a place in the channel, the batch and the replies is what TypeOK says.
THEOREM TypeCorrect == Spec => []TypeOK
BY TypeInvAlways, TypeInvImplies, PTL

-----------------------------------------------------------------------------
(* Sessions.                                                               *)

\* A device with two connections has been replaced, and one that never was has a
\* session while it is connected, also between two steps of a hook.
SessionInv ==
  \A k \in Conn : Open(k) /\ conn[k].dev \notin replaced =>
    /\ conn[k].dev \in session
    /\ \A j \in Conn : Open(j) /\ conn[j].dev = conn[k].dev => j = k

\* The session of a device whose connection was never replaced lasts as long as
\* the connection is served: only OnDisconnect of another connection could delete
\* it, and there has been none.
THEOREM SessionsLast == Spec => []SessionKept
<1>1. Init => SessionInv
  BY DEF Init, SessionInv, Open, NewConn
<1>2. TypeInv /\ SessionInv /\ [Next]_vars => SessionInv'
  <2> SUFFICES ASSUME TypeInv, SessionInv, [Next]_vars PROVE SessionInv'
    OBVIOUS
  <2> USE DEF SessionInv, Open
  <2>0. conn \in [Conn -> Connection]
    BY DEF TypeInv, BrokerInv
  <2>1. CASE UNCHANGED brokerVars
    BY <2>1 DEF brokerVars
  <2>2. ASSUME NEW k \in Conn, NEW d \in Device, OnConnectAuthenticate(k, d) PROVE SessionInv'
    <3>1. /\ conn[k].at = "none" /\ session' = session \cup {d}
          /\ replaced \subseteq replaced'
          /\ (\E j \in Conn : conn[j].at # "none" /\ conn[j].dev = d) => d \in replaced'
      BY <2>2 DEF OnConnectAuthenticate
    <3>2. conn'[k].at = "live" /\ conn'[k].dev = d
      BY <2>2 DEF OnConnectAuthenticate, NewConn
    <3>3. \A j \in Conn \ {k} : conn'[j].at = conn[j].at /\ conn'[j].dev = conn[j].dev
      BY <2>0, <2>2 DEF OnConnectAuthenticate, Connection
    <3> QED
      BY <3>1, <3>2, <3>3
  <2>3. ASSUME NEW k \in Conn, Break(k) \/ TouchSession(k) \/ OnPublish(k) \/
                               \E m \in Message : OnACLCheck(k, m)
        PROVE  SessionInv'
    <3>1. /\ \A j \in Conn : conn'[j].dev = conn[j].dev /\ (conn'[j].at = "none" <=> conn[j].at = "none")
          /\ session \subseteq session' /\ replaced' = replaced
      BY <2>0, <2>3 DEF Break, TouchSession, OnPublish, OnACLCheck, Connection
    <3> QED
      BY <3>1
  <2>4. ASSUME NEW k \in Conn, OnDisconnect(k) PROVE SessionInv'
    BY <2>0, <2>4 DEF OnDisconnect, NewConn, Connection
  <2>5. CASE Stop
    BY <2>5 DEF Stop, NewConn
  <2> QED
    BY <2>1, <2>2, <2>3, <2>4, <2>5
    DEF Next, Broker, MessageHandler, HandleUplink, HandleReceipt, Handled,
        DownlinkLoop, Tick, Publish, Poll, Pulled, Reported, CoreStep, adapterState, Receive,
        ServePullCommands, Faults, MainTimeout, LoopTimeout, PublishFails, Expire, DatabaseError,
        RestartCore, vars
<1>3. SessionInv => SessionKept
  BY DEF SessionInv, SessionKept, Open
<1> QED
  BY <1>1, <1>2, <1>3, TypeInvAlways, PTL DEF Spec

-----------------------------------------------------------------------------
(* What sequences without repetitions do.                                  *)

\* No message is in the sequence twice.
NoRepeats(q) == \A i, j \in DOMAIN q : q[i] = q[j] => i = j

\* Taking the first message out.
LEMMA TailOnce ==
  ASSUME NEW S, NEW q \in Seq(S), q # <<>>, NoRepeats(q)
  PROVE  /\ NoRepeats(Tail(q))
         /\ Waiting(Tail(q)) = Waiting(q) \ {Head(q)}
         /\ Head(q) \in Waiting(q)
<1>1. /\ Len(q) \in Nat \ {0} /\ DOMAIN q = 1 .. Len(q) /\ Head(q) = q[1]
      /\ DOMAIN Tail(q) = 1 .. Len(q) - 1
      /\ \A i \in 1 .. Len(q) - 1 : Tail(q)[i] = q[i + 1]
  BY EmptySeq
<1>2. NoRepeats(Tail(q))
  BY <1>1 DEF NoRepeats
<1>3. \A i \in DOMAIN Tail(q) : Tail(q)[i] \in Waiting(q) \ {Head(q)}
  BY <1>1 DEF NoRepeats, Waiting
<1>4. \A i \in DOMAIN q : q[i] # Head(q) => q[i] \in Waiting(Tail(q))
  <2>1. SUFFICES ASSUME NEW i \in DOMAIN q, q[i] # Head(q) PROVE q[i] \in Waiting(Tail(q))
    OBVIOUS
  <2>2. i - 1 \in DOMAIN Tail(q) /\ Tail(q)[i - 1] = q[i]
    BY <1>1, <2>1
  <2> QED
    BY <2>2 DEF Waiting
<1> QED
  BY <1>1, <1>2, <1>3, <1>4 DEF Waiting

\* Appending a new message.
LEMMA AppendOnce ==
  ASSUME NEW S, NEW q \in Seq(S), NEW m \in S, NoRepeats(q), m \notin Waiting(q)
  PROVE  /\ NoRepeats(Append(q, m))
         /\ Waiting(Append(q, m)) = Waiting(q) \cup {m}
<1>1. /\ Len(q) \in Nat /\ DOMAIN q = 1 .. Len(q)
      /\ DOMAIN Append(q, m) = 1 .. Len(q) + 1
      /\ Append(q, m)[Len(q) + 1] = m
      /\ \A i \in 1 .. Len(q) : Append(q, m)[i] = q[i]
  OBVIOUS
<1>2. \A i \in 1 .. Len(q) : q[i] # m
  BY <1>1 DEF Waiting
<1>3. \A i \in 1 .. Len(q) + 1 : i = Len(q) + 1 \/ i \in 1 .. Len(q)
  BY <1>1
<1>4. NoRepeats(Append(q, m))
  BY <1>1, <1>2, <1>3 DEF NoRepeats
<1>5. \A i \in DOMAIN Append(q, m) : Append(q, m)[i] \in Waiting(q) \cup {m}
  BY <1>1, <1>3 DEF Waiting
<1>6. \A i \in DOMAIN q : q[i] \in Waiting(Append(q, m))
  <2>1. \A i \in DOMAIN q : i \in DOMAIN Append(q, m) /\ Append(q, m)[i] = q[i]
    BY <1>1
  <2> QED
    BY <2>1 DEF Waiting
<1>7. m \in Waiting(Append(q, m))
  <2>1. Len(q) + 1 \in DOMAIN Append(q, m)
    BY <1>1
  <2> QED
    BY <1>1, <2>1 DEF Waiting
<1> QED
  BY <1>4, <1>5, <1>6, <1>7 DEF Waiting

\* Enqueue adds a new message and gives up the oldest one if the queue is full.
LEMMA EnqueuedOnce ==
  ASSUME NEW S, NEW q \in Seq(S), NEW m \in S, NEW cap \in Nat,
         NoRepeats(q), m \notin Waiting(q)
  PROVE  /\ NoRepeats(Enqueued(q, m, cap))
         /\ ~QueueFull(q, cap) => Waiting(Enqueued(q, m, cap)) = Waiting(q) \cup {m}
         /\ QueueFull(q, cap) => /\ Head(q) \in Waiting(q)
                                 /\ Waiting(Enqueued(q, m, cap)) = (Waiting(q) \ {Head(q)}) \cup {m}
<1>1. CASE QueueFull(q, cap)
  <2>1. q # <<>>
    BY <1>1, EmptySeq DEF QueueFull
  <2>2. Tail(q) \in Seq(S)
    BY <2>1
  <2>3. /\ NoRepeats(Tail(q)) /\ Waiting(Tail(q)) = Waiting(q) \ {Head(q)}
        /\ Head(q) \in Waiting(q)
    BY <2>1, TailOnce
  <2>4. m \notin Waiting(Tail(q))
    BY <2>3
  <2>5. PICK t : t = Tail(q)
    OBVIOUS
  <2>6. t \in Seq(S) /\ NoRepeats(t) /\ m \notin Waiting(t)
    BY <2>2, <2>3, <2>4, <2>5
  <2>7. NoRepeats(Append(t, m)) /\ Waiting(Append(t, m)) = Waiting(t) \cup {m}
    BY ONLY m \in S, <2>6, AppendOnce
  <2>8. Enqueued(q, m, cap) = Append(t, m)
    BY <1>1, <2>5 DEF Enqueued
  <2> QED
    BY <1>1, <2>3, <2>5, <2>7, <2>8
<1>2. CASE ~QueueFull(q, cap)
  BY <1>2, AppendOnce DEF Enqueued
<1> QED
  BY <1>1, <1>2

\* A queue without repetitions that lacks an element of a finite set is shorter
\* than the set is large.
LEMMA ShorterThanSet ==
  ASSUME NEW S, IsFiniteSet(S), NEW q \in Seq(S), NoRepeats(q),
         NEW m \in S, m \notin Waiting(q)
  PROVE  Len(q) < Cardinality(S)
<1> DEFINE T == S \ {m}
<1>1. IsFiniteSet(T) /\ Cardinality(T) = Cardinality(S) - 1 /\ Cardinality(S) \in Nat
  BY FS_RemoveElement, FS_CardinalityType
<1>2. Len(q) \in Nat /\ DOMAIN q = 1 .. Len(q) /\ q \in [1 .. Len(q) -> T]
  <2>1. Len(q) \in Nat /\ q \in [1 .. Len(q) -> S]
    OBVIOUS
  <2>2. \A i \in 1 .. Len(q) : q[i] # m
    BY <2>1 DEF Waiting
  <2> QED
    BY <2>1, <2>2
<1>3. q \in Injection(1 .. Len(q), T)
  BY <1>2 DEF NoRepeats, Injection, IsInjective
<1>4. Cardinality(1 .. Len(q)) <= Cardinality(T)
  BY <1>1, <1>3, FS_Injection
<1>5. Cardinality(1 .. Len(q)) = Len(q)
  <2>1. 1 \in Int /\ Len(q) \in Int
    BY <1>2
  <2>2. Cardinality(1 .. Len(q)) = IF 1 > Len(q) THEN 0 ELSE Len(q) - 1 + 1
    BY <2>1, FS_Interval
  <2> QED
    BY <1>2, <2>2
<1> QED
  BY <1>1, <1>2, <1>4, <1>5

\* What a family of sequences, the queues or the replies, holds, ...
Held(f, c) == \E i \in DOMAIN f : c \in Waiting(f[i])

\* ... and that it holds nothing twice.
OnceIn(f) ==
  /\ \A i \in DOMAIN f : NoRepeats(f[i])
  /\ \A i, j \in DOMAIN f : \A c : c \in Waiting(f[i]) /\ c \in Waiting(f[j]) => i = j

\* The definition, for a family given by an expression.
LEMMA IsOnce ==
  ASSUME NEW g, \A i \in DOMAIN g : NoRepeats(g[i]),
         \A i, j \in DOMAIN g : \A c : c \in Waiting(g[i]) /\ c \in Waiting(g[j]) => i = j
  PROVE  OnceIn(g)
BY DEF OnceIn

\* Replacing one sequence of a family by one with nothing from the others.
LEMMA UpdateOnce ==
  ASSUME NEW I, NEW S, NEW f \in [I -> Seq(S)], OnceIn(f), NEW i \in I,
         NEW s \in Seq(S), NoRepeats(s),
         NEW g, g = [f EXCEPT ![i] = s],
         \A c \in Waiting(s) : c \in Waiting(f[i]) \/ ~Held(f, c)
  PROVE  /\ OnceIn(g)
         /\ \A c : Held(g, c) <=> c \in Waiting(s) \/ (Held(f, c) /\ c \notin Waiting(f[i]))
<1>1. DOMAIN f = I /\ DOMAIN g = I /\ g[i] = s /\ \A j \in I \ {i} : g[j] = f[j]
  OBVIOUS
<1>2. \A j \in I : NoRepeats(g[j])
  BY <1>1 DEF OnceIn
<1>3. ASSUME NEW j \in I, NEW k \in I, NEW c, c \in Waiting(g[j]), c \in Waiting(g[k]) PROVE j = k
  <2>1. ASSUME NEW l \in I \ {i}, c \in Waiting(f[l]) PROVE c \notin Waiting(s)
    BY <1>1, <2>1 DEF OnceIn, Held
  <2> QED
    BY <1>1, <1>3, <2>1 DEF OnceIn
<1>4. ASSUME NEW c PROVE Held(g, c) <=> c \in Waiting(s) \/ (Held(f, c) /\ c \notin Waiting(f[i]))
  <2>1. ASSUME NEW j \in I, c \in Waiting(g[j])
        PROVE  c \in Waiting(s) \/ (Held(f, c) /\ c \notin Waiting(f[i]))
    <3>1. CASE j = i
      BY <1>1, <2>1, <3>1
    <3>2. CASE j # i
      BY <1>1, <2>1, <3>2 DEF OnceIn, Held
    <3> QED
      BY <3>1, <3>2
  <2>2. ASSUME c \in Waiting(s) PROVE Held(g, c)
    BY <1>1, <2>2 DEF Held
  <2>3. ASSUME NEW j \in I, c \in Waiting(f[j]), c \notin Waiting(f[i]) PROVE Held(g, c)
    <3>1. g[j] = f[j]
      BY <1>1, <2>3
    <3> QED
      BY <1>1, <2>3, <3>1 DEF Held
  <2>4. (\E j \in I : c \in Waiting(g[j])) <=> Held(g, c)
    BY <1>1 DEF Held
  <2>5. (\E j \in I : c \in Waiting(f[j])) <=> Held(f, c)
    BY <1>1 DEF Held
  <2>6. Held(g, c) => c \in Waiting(s) \/ (Held(f, c) /\ c \notin Waiting(f[i]))
    BY <2>1, <2>4
  <2>7. Held(f, c) /\ c \notin Waiting(f[i]) => Held(g, c)
    BY <2>3, <2>5
  <2> QED
    BY <2>2, <2>6, <2>7
<1>5. OnceIn(g)
  <2>1. DOMAIN g = I
    BY <1>1
  <2>2. \A j \in DOMAIN g : NoRepeats(g[j])
    BY <1>2, <2>1
  <2>3. ASSUME NEW j \in DOMAIN g, NEW k \in DOMAIN g, NEW c,
               c \in Waiting(g[j]), c \in Waiting(g[k])
        PROVE  j = k
    <3>1. j \in I /\ k \in I
      BY <2>1
    <3> QED
      BY <1>3, <2>3, <3>1
  <2> QED
    BY ONLY <2>2, <2>3, IsOnce
<1> QED
  BY <1>4, <1>5

\* Emptying some sequences of a family.
LEMMA ShrinkOnce ==
  ASSUME NEW I, NEW S, NEW f \in [I -> Seq(S)], OnceIn(f), NEW g \in [I -> Seq(S)],
         \A i \in I : g[i] \in {f[i], <<>>}
  PROVE  OnceIn(g) /\ \A c : Held(g, c) => Held(f, c)
<1>1. NoRepeats(<<>>) /\ Waiting(<<>>) = {}
  BY DEF NoRepeats, Waiting
<1> QED
  BY <1>1 DEF OnceIn, Held

-----------------------------------------------------------------------------
(* An answer is about a command that was received, or it came early.       *)

\* From the hook through the channel to the message handler.
MessageInv ==
  /\ \A k \in Conn :
       conn[k].at \in {"checked", "admitted"} /\ conn[k].msg.kind \in Receipts =>
         conn[k].msg.cmd \in got \cup early
  /\ \A m \in Waiting(msgCh) : m.kind \in Receipts => m.cmd \in got \cup early

\* What is received stays received, and what was answered early stays so.
LEMMA MessageInvAlways == Spec => []MessageInv
<1>1. Init => MessageInv
  BY DEF Init, MessageInv, NewConn, Waiting
<1>2. TypeInv /\ MessageInv /\ [Next]_vars => MessageInv'
  <2> SUFFICES ASSUME TypeInv, MessageInv, [Next]_vars PROVE MessageInv'
    OBVIOUS
  <2>0. conn \in [Conn -> Connection] /\ msgCh \in Seq(Message)
        /\ got \subseteq got' /\ early \subseteq early'
    <3>1. got \subseteq got' /\ early \subseteq early'
      BY DEF Next, Broker, OnConnectAuthenticate, Break, OnDisconnect, OnACLCheck, TouchSession,
         OnPublish, MessageHandler, HandleUplink, HandleReceipt, Handled,
         DownlinkLoop, Tick, Publish, Poll, Pulled, Reported, CoreStep, adapterState, Receive,
         ServePullCommands, Faults, MainTimeout, LoopTimeout, PublishFails, Expire, DatabaseError,
         RestartCore, Stop, vars, deliveryVars
    <3> QED
      BY <3>1 DEF TypeInv, BrokerInv, AdapterInv
  <2>1. ASSUME \A k \in Conn : \/ conn'[k] = conn[k] \/ conn'[k].at \notin {"checked", "admitted"}
                               \/ conn'[k].msg = conn[k].msg /\ conn[k].at = "checked",
               Waiting(msgCh') \subseteq Waiting(msgCh)
        PROVE  MessageInv'
    BY <2>0, <2>1 DEF MessageInv
  <2>2. CASE UNCHANGED <<conn, msgCh>>
    BY <2>1, <2>2
  <2>3. ASSUME NEW k \in Conn, NEW m \in Message, OnACLCheck(k, m) PROVE MessageInv'
    <3>1. /\ conn'[k].msg = m /\ \A j \in Conn \ {k} : conn'[j] = conn[j]
          /\ msgCh' = msgCh /\ got' = got /\ early' = early \cup ({m.cmd} \ (got \cup {NoCommand}))
      BY <2>0, <2>3 DEF OnACLCheck, Connection
    <3>2. m.kind \in Receipts => m.cmd # NoCommand
      BY <2>3, ReceiptAssumption, DistinctAssumption DEF Message
    <3>3. m.kind \in Receipts => m.cmd \in got' \cup early'
      BY <3>1, <3>2
    <3> QED
      BY <2>0, <3>1, <3>3 DEF MessageInv
  <2>4. ASSUME NEW k \in Conn, OnPublish(k) PROVE MessageInv'
    <3>1. /\ conn'[k].at = "live" /\ \A j \in Conn \ {k} : conn'[j] = conn[j]
          /\ conn[k].at = "admitted"
          /\ msgCh' = msgCh \/ msgCh' = Append(msgCh, conn[k].msg)
      BY <2>0, <2>4 DEF OnPublish, Connection
    <3>2. conn[k].msg \in Message
      BY <3>1 DEF TypeInv, BrokerInv
    <3>3. \A m \in Waiting(msgCh') : m \in Waiting(msgCh) \/ m = conn[k].msg
      BY <2>0, <3>1, <3>2 DEF Waiting
    <3> QED
      BY <2>0, <3>1, <3>3 DEF MessageInv
  <2>5. ASSUME NEW k \in Conn, TouchSession(k) \/ Break(k) \/ OnDisconnect(k) \/
                               \E d \in Device : OnConnectAuthenticate(k, d)
        PROVE  MessageInv'
    <3>1. msgCh' = msgCh
      BY <2>5 DEF TouchSession, Break, OnDisconnect, OnConnectAuthenticate
    <3>2. CASE TouchSession(k) \/ OnDisconnect(k)
      BY <2>0, <2>1, <3>1, <3>2 DEF TouchSession, OnDisconnect, NewConn, Connection
    <3>3. CASE Break(k)
      BY <2>0, <3>1, <3>3 DEF Break, Connection, MessageInv
    <3>4. ASSUME NEW d \in Device, OnConnectAuthenticate(k, d) PROVE MessageInv'
      <4>1. conn'[k].at = "live"
        BY <2>0, <3>4 DEF OnConnectAuthenticate, NewConn
      <4>2. \A j \in Conn \ {k} : conn'[j].at = conn[j].at /\ conn'[j].msg = conn[j].msg
        BY <2>0, <3>4 DEF OnConnectAuthenticate, Connection
      <4> QED
        BY <2>0, <3>1, <4>1, <4>2 DEF MessageInv
    <3> QED
      BY <2>5, <3>2, <3>3, <3>4
  <2>6. CASE HandleUplink \/ HandleReceipt
    <3>1. conn' = conn /\ msgCh' = Tail(msgCh) /\ msgCh # <<>>
      BY <2>6 DEF HandleUplink, HandleReceipt, brokerVars
    <3>2. \A i \in DOMAIN Tail(msgCh) : i + 1 \in DOMAIN msgCh /\ Tail(msgCh)[i] = msgCh[i + 1]
      BY <2>0, <3>1
    <3>3. Waiting(msgCh') \subseteq Waiting(msgCh)
      BY <3>1, <3>2 DEF Waiting
    <3> QED
      BY <2>1, <3>1, <3>3
  <2>7. CASE Stop
    BY <2>7, <2>1 DEF Stop, NewConn, Waiting
  <2> QED
    BY <2>2, <2>3, <2>4, <2>5, <2>6, <2>7
    DEF Next, Broker, MessageHandler, Handled, brokerVars,
        DownlinkLoop, Tick, Publish, Poll, Pulled, Reported, CoreStep, adapterState, Receive,
        ServePullCommands, Faults, MainTimeout, LoopTimeout, PublishFails, Expire, DatabaseError,
        RestartCore, vars
<1> QED
  BY <1>1, <1>2, TypeInvAlways, PTL DEF Spec

-----------------------------------------------------------------------------
(* Where the message of a command is.                                      *)

Queued(c) == Held(queue, c)
Replied(c) == Held(reply, c)
Batched(c) == c \in Waiting(loop.batch)
Placed(c) == c \in pushing \/ Queued(c) \/ Replied(c) \/ Batched(c)

\* The loop has asked for the command, or has it in its batch.
Taken(c) == Replied(c) \/ Batched(c)

\* One command is in one kind of place, which it leaves when it is published or
\* its publish fails; both happen only to a command with a row.
Apart(c) ==
  /\ c \in pushing => ~Queued(c) /\ ~Replied(c) /\ ~Batched(c)
  /\ Queued(c) => ~Replied(c) /\ ~Batched(c)
  /\ Replied(c) => ~Batched(c)
  /\ Placed(c) => status[c] # "none" /\ c \notin aired /\ outcome[c] # "rejected"
  /\ c \in aired => status[c] # "none" /\ outcome[c] # "rejected"
  /\ outcome[c] = "rejected" => status[c] # "none"

PlaceInv ==
  /\ OnceIn(queue) /\ OnceIn(reply) /\ NoRepeats(loop.batch)
  /\ \A c \in Command : Apart(c)

\* At first there are no messages.
LEMMA PlaceInvInit == Init => PlaceInv
<1> SUFFICES ASSUME Init PROVE PlaceInv
  OBVIOUS
<1>1. /\ \A d \in DOMAIN queue : Waiting(queue[d]) = {} /\ NoRepeats(queue[d])
      /\ \A n \in DOMAIN reply : Waiting(reply[n]) = {} /\ NoRepeats(reply[n])
      /\ Waiting(loop.batch) = {} /\ NoRepeats(loop.batch)
  BY DEF Init, CoreInit, LoopIdle, Waiting, NoRepeats
<1>2. \A c \in Command : /\ c \notin pushing /\ c \notin aired /\ outcome[c] = "open"
  BY DEF Init, CoreInit
<1>3. \A c : ~Queued(c) /\ ~Replied(c) /\ ~Batched(c)
  BY <1>1 DEF Queued, Replied, Batched, Held
<1> QED
  BY <1>1, <1>2, <1>3 DEF PlaceInv, OnceIn, Apart, Placed

\* A step that touches no message, row or result moves none.
LEMMA QuietKeepsPlaceInv ==
  ASSUME PlaceInv, UNCHANGED <<queue, reply, pushing, status, aired, outcome>>,
         loop'.batch = loop.batch
  PROVE  PlaceInv'
<1>1. \A c \in Command : Apart(c)'
  BY DEF PlaceInv, Apart, Placed, Queued, Replied, Batched, Held
<1> QED
  BY <1>1 DEF PlaceInv, OnceIn

\* Answering a call issues none.
LEMMA AnswerIssuesNone ==
  ASSUME calls \subseteq Call, NEW x \in calls, NEW c, calls' = Answer(x, c)
  PROVE  \A y \in calls' : y.stage # "issued" \/ y \in calls
<1> DEFINE z == [x EXCEPT !.stage = "answered", !.cmd = c]
<1>1. z.stage = "answered"
  BY DEF Call
<1>2. calls' \subseteq calls \cup {z}
  BY DEF Answer
<1> QED
  BY <1>1, <1>2

\* The steps that touch no message.
IsQuiet ==
  \/ Broker \/ HandleUplink \/ Tick \/ MainTimeout \/ DatabaseError
  \/ \E x \in calls : Handled(x) \/ Reported(x)
  \/ \E x \in calls : LoseRequest(x) /\ UNCHANGED <<adapterState, reply>>
  \/ \E d \in Device : Poll(d) \/ Expire(d)
  \/ \E c \in Command : Receive(c)
  \/ UNCHANGED vars

\* They leave queues, replies, batch, rows and results as they are.
LEMMA QuietProperties ==
  ASSUME TypeInv, IsQuiet
  PROVE  /\ UNCHANGED <<queue, reply, pushing, status, aired, outcome>>
         /\ loop'.batch = loop.batch /\ got \subseteq got'
         /\ \A x \in calls' : x.op = "pull" \/ x.stage # "issued" \/ x \in calls
<1>0. calls \subseteq Call /\ loop \in LoopState
  BY DEF TypeInv, CoreInv, CoreTypeOK, AdapterInv, LoopInv
<1>1. CASE Broker
  BY <1>1 DEF Broker, OnConnectAuthenticate, Break, OnDisconnect, OnACLCheck, TouchSession,
     OnPublish, coreVars, adapterVars, deliveryVars
<1>2. CASE HandleUplink
  BY <1>2 DEF HandleUplink, coreVars, deliveryVars
<1>3. CASE Tick \/ \E d \in Device : Expire(d)
  BY <1>0, <1>3 DEF Tick, Expire, coreVars, deliveryVars, LoopState
<1>4. CASE MainTimeout
  BY <1>4 DEF MainTimeout, coreData, deliveryVars, Abandon
<1>5. CASE DatabaseError
  <2>1. PICK x \in calls : StoreError(x)
    BY <1>5 DEF DatabaseError
  <2>2. \A y \in calls' : y.stage # "issued" \/ y \in calls
    BY <1>0, <2>1, AnswerIssuesNone DEF StoreError
  <2> QED
    BY <1>5, <2>1, <2>2 DEF DatabaseError, StoreError, adapterVars, deliveryVars
<1>6. ASSUME NEW x \in calls, Handled(x) \/ Reported(x)
      PROVE  /\ UNCHANGED <<queue, reply, pushing, status, aired, outcome>>
             /\ loop'.batch = loop.batch /\ got \subseteq got' /\ calls' \subseteq calls
  <2>1. [loop EXCEPT !.at = IF loop.batch = <<>> THEN "idle" ELSE "publishing",
                     !.batch = loop.batch].batch = loop.batch
    BY <1>0 DEF LoopState
  <2> QED
    BY <1>6, <2>1 DEF Handled, Reported, coreData, deliveryVars, Collect, Continue
<1>7. ASSUME NEW x \in calls, LoseRequest(x), UNCHANGED <<adapterState, reply>>
      PROVE  /\ UNCHANGED <<queue, reply, pushing, status, aired, outcome>>
             /\ loop'.batch = loop.batch /\ got \subseteq got' /\ calls' \subseteq calls
  BY <1>7 DEF LoseRequest, adapterState, adapterVars, deliveryVars
<1>8. ASSUME NEW d \in Device, Poll(d)
      PROVE  /\ UNCHANGED <<queue, reply, pushing, status, aired, outcome>>
             /\ loop'.batch = loop.batch /\ got \subseteq got'
             /\ \A x \in calls' : x.op = "pull" \/ x \in calls
  <2>1. loop'.batch = loop.batch
    BY <1>0, <1>8 DEF Poll, LoopState
  <2> QED
    BY <1>8, <2>1 DEF Poll, coreData, deliveryVars, Issue
<1>9. ASSUME NEW c \in Command, Receive(c)
      PROVE  /\ UNCHANGED <<queue, reply, pushing, status, aired, outcome>>
             /\ loop'.batch = loop.batch /\ got \subseteq got' /\ calls' = calls
  BY <1>9 DEF Receive, coreVars, adapterVars
<1>10. CASE UNCHANGED vars
  BY <1>10 DEF vars, coreVars, adapterVars, deliveryVars
<1> QED
  BY <1>1, <1>2, <1>3, <1>4, <1>5, <1>6, <1>7, <1>8, <1>9, <1>10 DEF IsQuiet

\* Rows and answers change, messages do not.
LEMMA RowsKeepPlaceInv ==
  ASSUME PlaceInv, UNCHANGED <<queue, reply, pushing, aired>>, loop'.batch = loop.batch,
         \A c \in Command :
           /\ status[c] # "none" => status'[c] # "none"
           /\ outcome'[c] = "rejected" <=> outcome[c] = "rejected"
  PROVE  PlaceInv'
<1>1. ASSUME NEW c \in Command PROVE Apart(c)'
  <2>1. Apart(c) /\ (Placed(c)' <=> Placed(c))
    BY DEF PlaceInv, Placed, Queued, Replied, Batched, Held
  <2>2. /\ Queued(c)' <=> Queued(c)
        /\ Replied(c)' <=> Replied(c)
        /\ Batched(c)' <=> Batched(c)
    BY DEF Queued, Replied, Batched, Held
  <2> QED
    BY <2>1, <2>2 DEF Apart
<1> QED
  BY <1>1 DEF PlaceInv, OnceIn

\* What an answer, whoever sends it, changes in the adapter.
LEMMA ReceiptProperties ==
  ASSUME TypeInv, HandleReceipt
  PROVE  /\ UNCHANGED <<queue, reply, pushing, status, aired, got, early, loop>>
         /\ calls \subseteq calls'
         /\ \A c \in Command : /\ outcome'[c] = "rejected" <=> outcome[c] = "rejected"
                               /\ outcome'[c] \in {outcome[c], "answered"}
         /\ \E m \in Message : /\ m \in Waiting(msgCh) /\ m.kind \in Receipts
                               /\ m.cmd \in Command /\ outcome'[m.cmd] # "open"
                               /\ \A x \in calls' : x \in calls \/ (x.cmd = m.cmd /\ x.op = m.kind)
<1>1. PICK m : m = Head(msgCh)
  OBVIOUS
<1>2. /\ Issue(Main, m.kind, m.dev, m.cmd)
      /\ outcome' = [outcome EXCEPT ![m.cmd] = IF @ = "open" THEN "answered" ELSE @]
      /\ UNCHANGED <<queue, reply, pushing, status, aired, got, early, loop>>
      /\ m.kind \in Receipts /\ msgCh # <<>>
  BY <1>1 DEF HandleReceipt, coreData
<1>3. msgCh \in Seq(Message) /\ m = msgCh[1] /\ 1 \in DOMAIN msgCh
  BY <1>1, <1>2 DEF TypeInv, AdapterInv
<1>4. m \in Message /\ m \in Waiting(msgCh) /\ m.cmd \in Command
  BY <1>1, <1>2, <1>3, HeadOfChannel DEF Waiting, TypeInv
<1>5. outcome \in [Command -> {"open", "answered", "rejected"}]
  BY DEF TypeInv, DeliveryInv
<1>6. \A c \in Command : /\ outcome'[c] = "rejected" <=> outcome[c] = "rejected"
                         /\ outcome'[c] \in {outcome[c], "answered"}
  BY <1>2, <1>5
<1>7. outcome'[m.cmd] # "open"
  BY <1>2, <1>4, <1>5
<1>8. calls \subseteq calls' /\ \A x \in calls' : x \in calls \/ (x.cmd = m.cmd /\ x.op = m.kind)
  BY <1>2 DEF Issue
<1> QED
  BY <1>2, <1>4, <1>6, <1>7, <1>8

\* An answer moves no message.
LEMMA HandleReceiptKeepsPlaceInv ==
  ASSUME TypeInv, PlaceInv, HandleReceipt
  PROVE  PlaceInv'
BY ReceiptProperties, RowsKeepPlaceInv

\* Executing a report changes a row that exists, and creates none.
LEMMA ServeMarkProperties ==
  ASSUME TypeInv, NEW x \in calls, ServeMark(x)
  PROVE  /\ x.op \in {"sent", "acked", "failed"} /\ x.cmd \in Command
         /\ \A c \in Command : status'[c] = "none" <=> status[c] = "none"
         /\ status[x.cmd] # "none" => status'[x.cmd] = x.op
         /\ \A c \in Command : c # x.cmd => status'[c] = status[c]
         /\ calls' = Answer(x, x.cmd)
<1>1. /\ status' = [status EXCEPT ![x.cmd] = IF @ = "none" THEN @ ELSE x.op]
      /\ calls' = Answer(x, x.cmd) /\ x.op \in {"sent", "acked", "failed"} /\ x.stage = "issued"
  BY DEF ServeMark
<1>2. x.cmd \in Command /\ status \in [Command -> Status]
  BY <1>1 DEF TypeInv, CoreInv, CoreTypeOK, CallInv
<1> QED
  BY <1>1, <1>2

LEMMA ServeMarkKeepsPlaceInv ==
  ASSUME TypeInv, PlaceInv, NEW x \in calls, ServeMark(x), UNCHANGED <<adapterState, reply>>
  PROVE  PlaceInv'
<1>1. UNCHANGED <<queue, reply, pushing, aired, outcome, got, loop>>
  BY DEF ServeMark, adapterState, adapterVars, deliveryVars
<1> QED
  BY <1>1, ServeMarkProperties, RowsKeepPlaceInv

\* A new command: its handler is about to push it.
LEMMA CreateKeepsPlaceInv ==
  ASSUME TypeInv, PlaceInv, NEW b \in Command, NEW d \in Device, CreateCommand(b, d),
         UNCHANGED <<adapterState, reply>>
  PROVE  PlaceInv'
<1>1. /\ UNCHANGED <<queue, reply, aired, outcome, got, loop, calls>>
      /\ status[b] = "none" /\ status' = [status EXCEPT ![b] = "queued"]
      /\ pushing' = pushing \cup {b}
  BY DEF CreateCommand, adapterState, adapterVars, deliveryVars
<1>2. \A c \in Command : status[c] # "none" => status'[c] # "none"
  BY <1>1 DEF TypeInv, CoreInv, CoreTypeOK
<1>3. status'[b] = "queued"
  BY <1>1 DEF TypeInv, CoreInv, CoreTypeOK
<1>4. ASSUME NEW c \in Command PROVE Apart(c)'
  <2>1. /\ Queued(c)' <=> Queued(c)
        /\ Replied(c)' <=> Replied(c)
        /\ Batched(c)' <=> Batched(c)
    BY <1>1 DEF Queued, Replied, Batched, Held
  <2>2. Apart(c)
    BY DEF PlaceInv
  <2>3. c = b => outcome[c] # "rejected"
    BY <1>1, <2>2 DEF Apart
  <2> QED
    BY <1>1, <1>2, <1>3, <2>1, <2>2, <2>3 DEF Apart, Placed
<1> QED
  BY <1>1, <1>4 DEF PlaceInv, OnceIn

\* What the push of a command does to the queue of its device: it may push the
\* oldest message out.
LEMMA PushProperties ==
  ASSUME TypeInv, PlaceInv, NEW b \in Command, PushCommand(b)
  PROVE  LET q == queue[owner[b]]
         IN  /\ OnceIn(queue') /\ owner[b] \in Device /\ q \in Seq(Command) /\ NoRepeats(q)
             /\ b \notin Waiting(q)
             /\ ~QueueFull(q, Capacity) => \A c : Queued(c)' <=> Queued(c) \/ c = b
             /\ QueueFull(q, Capacity) =>
                  /\ Head(q) \in Command /\ Queued(Head(q)) /\ Head(q) # b
                  /\ \A c : Queued(c)' <=> (Queued(c) /\ c # Head(q)) \/ c = b
<1>1. /\ owner[b] \in Device /\ queue \in [Device -> Seq(Command)] /\ Capacity \in Nat
      /\ b \in pushing /\ queue' = [queue EXCEPT ![owner[b]] = Enqueued(@, b, Capacity)]
  BY CapacityAssumption DEF PushCommand, TypeInv, CoreInv, CoreTypeOK, PushingOwned
<1>2. PICK d : d = owner[b]
  OBVIOUS
<1>3. PICK q : q = queue[d]
  OBVIOUS
<1>4. PICK s : s = Enqueued(q, b, Capacity)
  OBVIOUS
<1>5. /\ d \in Device /\ q \in Seq(Command) /\ NoRepeats(q) /\ OnceIn(queue)
      /\ queue' = [queue EXCEPT ![d] = s]
  BY <1>1, <1>2, <1>3, <1>4 DEF PlaceInv, OnceIn
<1>6. ~Held(queue, b) /\ b \notin Waiting(q)
  BY <1>1, <1>3, <1>5 DEF PlaceInv, Apart, Queued, Held
<1>7. /\ NoRepeats(s)
      /\ ~QueueFull(q, Capacity) => Waiting(s) = Waiting(q) \cup {b}
      /\ QueueFull(q, Capacity) => Head(q) \in Waiting(q) /\ Waiting(s) = (Waiting(q) \ {Head(q)}) \cup {b}
  BY <1>1, <1>4, <1>5, <1>6, EnqueuedOnce
<1>8. s \in Seq(Command)
  BY <1>1, <1>4, <1>5, EnqueuedIsQueue
<1>9. Waiting(q) \subseteq Command /\ \A c \in Waiting(q) : Held(queue, c)
  BY <1>1, <1>3, <1>5 DEF Waiting, Held
<1>10. \A c \in Waiting(s) : c \in Waiting(queue[d]) \/ ~Held(queue, c)
  BY <1>3, <1>6, <1>7
<1>11. /\ OnceIn(queue')
       /\ \A c : Held(queue', c) <=> c \in Waiting(s) \/ (Held(queue, c) /\ c \notin Waiting(queue[d]))
  BY <1>1, <1>5, <1>7, <1>8, <1>10, UpdateOnce
<1>12. \A c : (Queued(c)' <=> Held(queue', c)) /\ (Queued(c) <=> Held(queue, c))
  BY DEF Queued, Held
<1>13. CASE QueueFull(q, Capacity)
  BY <1>1, <1>2, <1>3, <1>5, <1>6, <1>7, <1>9, <1>11, <1>12, <1>13
<1>14. CASE ~QueueFull(q, Capacity)
  BY <1>1, <1>2, <1>3, <1>5, <1>6, <1>7, <1>9, <1>11, <1>12, <1>14
<1> QED
  BY <1>13, <1>14

\* Pushing a command moves it from its handler to the queue.
LEMMA PushKeepsPlaceInv ==
  ASSUME TypeInv, PlaceInv, NEW b \in Command, PushCommand(b), UNCHANGED <<adapterState, reply>>
  PROVE  PlaceInv'
<1>1. /\ UNCHANGED <<reply, aired, outcome, got, loop, calls, status>>
      /\ b \in pushing /\ pushing' = pushing \ {b}
  BY DEF PushCommand, adapterState, adapterVars, deliveryVars
<1>2. OnceIn(queue') /\ \A c : Queued(c)' => Queued(c) \/ c = b
  BY PushProperties
<1>3. ASSUME NEW c \in Command PROVE Apart(c)'
  <2>1. (Replied(c)' <=> Replied(c)) /\ (Batched(c)' <=> Batched(c))
    BY <1>1 DEF Replied, Batched, Held
  <2> QED
    BY <1>1, <1>2, <2>1 DEF Apart, Placed, PlaceInv
<1> QED
  BY <1>1, <1>2, <1>3 DEF PlaceInv, OnceIn

\* What PullCommands does to the messages when it pops one, ...
LEMMA PopProperties ==
  ASSUME TypeInv, PlaceInv, NEW x \in calls, ServePullCommands(x),
         ~(queue[x.dev] = <<>> \/ Len(reply[x.no]) = MaxBatch)
  PROVE  LET b == Head(queue[x.dev])
         IN  /\ OnceIn(queue') /\ OnceIn(reply')
             /\ b \in Command /\ Queued(b) /\ calls' = calls
             /\ \A c : /\ Queued(c)' <=> Queued(c) /\ c # b
                       /\ Replied(c)' <=> Replied(c) \/ c = b
<1>1. /\ x.no \in 0 .. MaxFaults /\ x.dev \in Device
      /\ queue \in [Device -> Seq(Command)] /\ reply \in [0 .. MaxFaults -> Seq(Command)]
  BY PullHasReply DEF TypeInv, CoreInv, CoreTypeOK, Call, AdapterInv
<1>2. PICK d : d = x.dev
  OBVIOUS
<1>3. PICK n : n = x.no
  OBVIOUS
<1>4. PICK q : q = queue[d]
  OBVIOUS
<1>5. PICK b : b = Head(q)
  OBVIOUS
<1>6. /\ queue' = [queue EXCEPT ![d] = Tail(q)] /\ calls' = calls
      /\ reply' = [reply EXCEPT ![n] = Append(reply[n], b)]
  BY <1>2, <1>3, <1>4, <1>5 DEF ServePullCommands
<1>7. /\ d \in Device /\ n \in 0 .. MaxFaults /\ q \in Seq(Command) /\ q # <<>>
      /\ reply[n] \in Seq(Command) /\ NoRepeats(q) /\ NoRepeats(reply[n])
      /\ OnceIn(queue) /\ OnceIn(reply)
  BY <1>1, <1>2, <1>3, <1>4 DEF PlaceInv, OnceIn
<1>8. NoRepeats(Tail(q)) /\ Waiting(Tail(q)) = Waiting(q) \ {b} /\ b \in Waiting(q)
  BY <1>5, <1>7, TailOnce
<1>9. b \in Command /\ Tail(q) \in Seq(Command)
  BY <1>5, <1>7
<1>10. Held(queue, b) /\ ~Held(reply, b)
  <2>1. Held(queue, b)
    BY <1>1, <1>4, <1>7, <1>8 DEF Held
  <2>2. Queued(b) => ~Replied(b)
    BY <1>9 DEF PlaceInv, Apart
  <2> QED
    BY <2>1, <2>2 DEF Queued, Replied
<1>11. b \notin Waiting(reply[n])
  BY <1>1, <1>7, <1>10 DEF Held
<1>12. PICK s : s = Append(reply[n], b)
  OBVIOUS
<1>13. NoRepeats(s) /\ Waiting(s) = Waiting(reply[n]) \cup {b} /\ s \in Seq(Command)
  <2>1. Append(reply[n], b) \in Seq(Command)
    BY <1>7, <1>9
  <2>2. /\ NoRepeats(Append(reply[n], b))
        /\ Waiting(Append(reply[n], b)) = Waiting(reply[n]) \cup {b}
    BY <1>7, <1>9, <1>11, AppendOnce
  <2> QED
    BY <1>12, <2>1, <2>2
<1>14. \A c \in Waiting(Tail(q)) : c \in Waiting(queue[d]) \/ ~Held(queue, c)
  BY <1>4, <1>8
<1>15. \A c \in Waiting(s) : c \in Waiting(reply[n]) \/ ~Held(reply, c)
  BY <1>10, <1>13
<1>16. /\ OnceIn(queue')
       /\ \A c : Held(queue', c) <=> c \in Waiting(Tail(q)) \/ (Held(queue, c) /\ c \notin Waiting(queue[d]))
  <2>1. PICK t : t = Tail(q)
    OBVIOUS
  <2>2. PICK g : g = queue'
    OBVIOUS
  <2>3. /\ queue \in [Device -> Seq(Command)] /\ OnceIn(queue) /\ d \in Device
        /\ t \in Seq(Command) /\ NoRepeats(t) /\ g = [queue EXCEPT ![d] = t]
        /\ \A c \in Waiting(t) : c \in Waiting(queue[d]) \/ ~Held(queue, c)
    BY <1>1, <1>6, <1>7, <1>8, <1>9, <1>14, <2>1, <2>2
  <2>4. /\ OnceIn(g)
        /\ \A c : Held(g, c) <=> c \in Waiting(t) \/ (Held(queue, c) /\ c \notin Waiting(queue[d]))
    BY ONLY <2>3, UpdateOnce, ZenonT(60)
  <2> QED
    BY <2>1, <2>2, <2>4
<1>17. reply' = [reply EXCEPT ![n] = s]
  BY <1>6, <1>12
<1>18. /\ OnceIn(reply')
       /\ \A c : Held(reply', c) <=> c \in Waiting(s) \/ (Held(reply, c) /\ c \notin Waiting(reply[n]))
  <2>1. PICK I : I = 0 .. MaxFaults
    OBVIOUS
  <2>2. PICK g : g = reply'
    OBVIOUS
  <2>3. n \in I /\ reply \in [I -> Seq(Command)] /\ g = [reply EXCEPT ![n] = s] /\ OnceIn(reply)
    BY <1>1, <1>7, <1>17, <2>1, <2>2
  <2>4. /\ OnceIn(g)
        /\ \A c : Held(g, c) <=> c \in Waiting(s) \/ (Held(reply, c) /\ c \notin Waiting(reply[n]))
    BY ONLY <1>13, <1>15, <2>3, UpdateOnce, ZenonT(60)
  <2> QED
    BY <2>2, <2>4
<1>19. \A c : /\ (Queued(c)' <=> Held(queue', c)) /\ (Queued(c) <=> Held(queue, c))
              /\ (Replied(c)' <=> Held(reply', c)) /\ (Replied(c) <=> Held(reply, c))
  BY DEF Queued, Replied, Held
<1>20. \A c : c \in Waiting(queue[d]) => Held(queue, c)
  BY <1>1, <1>7 DEF Held
<1>21. \A c : c \in Waiting(reply[n]) => Held(reply, c)
  BY <1>1, <1>7 DEF Held
<1>22. \A c : Queued(c)' <=> Queued(c) /\ c # b
  BY <1>4, <1>8, <1>16, <1>19, <1>20
<1>23. \A c : Replied(c)' <=> Replied(c) \/ c = b
  BY <1>13, <1>18, <1>19, <1>21
<1> QED
  BY <1>2, <1>4, <1>5, <1>6, <1>9, <1>10, <1>16, <1>18, <1>19, <1>22, <1>23

\* ... and when it answers: of a call that was given up the reply is gone.
LEMMA AnsweredPullProperties ==
  ASSUME TypeInv, PlaceInv, NEW x \in calls, ServePullCommands(x),
         queue[x.dev] = <<>> \/ Len(reply[x.no]) = MaxBatch
  PROVE  /\ OnceIn(reply') /\ (\A c : Replied(c)' => Replied(c)) /\ queue' = queue
         /\ calls' = Answer(x, NoCommand)
         /\ Live(x) => reply' = reply
<1>1. /\ x.no \in 0 .. MaxFaults /\ reply \in [0 .. MaxFaults -> Seq(Command)]
      /\ <<>> \in Seq(Command)
  BY PullHasReply DEF TypeInv, AdapterInv
<1>2. /\ reply' = [reply EXCEPT ![x.no] = IF Live(x) THEN @ ELSE <<>>] /\ queue' = queue
      /\ calls' = Answer(x, NoCommand)
  BY DEF ServePullCommands
<1>3. reply' \in [0 .. MaxFaults -> Seq(Command)] /\ \A n \in 0 .. MaxFaults : reply'[n] \in {reply[n], <<>>}
  BY <1>1, <1>2
<1>4. OnceIn(reply') /\ \A c : Held(reply', c) => Held(reply, c)
  BY <1>1, <1>3, ShrinkOnce DEF PlaceInv
<1>5. \A c : (Replied(c)' <=> Held(reply', c)) /\ (Replied(c) <=> Held(reply, c))
  BY DEF Replied, Held
<1>6. Live(x) => reply' = reply
  BY <1>1, <1>2
<1> QED
  BY <1>2, <1>4, <1>5, <1>6

\* PullCommands moves a command from the queue to the reply, or drops some.
LEMMA ServePullKeepsPlaceInv ==
  ASSUME TypeInv, PlaceInv, NEW x \in calls, ServePullCommands(x)
  PROVE  PlaceInv'
<1>1. UNCHANGED <<status, pushing, aired, outcome, got, loop>>
  BY DEF ServePullCommands, adapterState, adapterVars, deliveryVars
<1>2. \A c : Batched(c)' <=> Batched(c)
  BY <1>1 DEF Batched
<1>3. CASE queue[x.dev] = <<>> \/ Len(reply[x.no]) = MaxBatch
  <2>1. /\ OnceIn(reply') /\ \A c : (Replied(c)' => Replied(c)) /\ (Queued(c)' <=> Queued(c))
    BY <1>3, AnsweredPullProperties DEF Queued, Held
  <2>2. ASSUME NEW c \in Command PROVE Apart(c)'
    BY <1>1, <1>2, <2>1 DEF PlaceInv, Apart, Placed
  <2>3. OnceIn(queue')
    BY <1>1, <1>3, AnsweredPullProperties DEF PlaceInv
  <2> QED
    BY <1>1, <2>1, <2>2, <2>3 DEF PlaceInv
<1>4. CASE ~(queue[x.dev] = <<>> \/ Len(reply[x.no]) = MaxBatch)
  <2>1. PICK b : b = Head(queue[x.dev])
    OBVIOUS
  <2>2. /\ OnceIn(queue') /\ OnceIn(reply') /\ b \in Command /\ Queued(b) /\ calls' = calls
        /\ \A c : /\ Queued(c)' <=> Queued(c) /\ c # b
                  /\ Replied(c)' <=> Replied(c) \/ c = b
    BY <1>4, <2>1, PopProperties
  <2>3. ASSUME NEW c \in Command PROVE Apart(c)'
    BY <1>1, <1>2, <2>2 DEF PlaceInv, Apart, Placed
  <2> QED
    BY <1>1, <2>2, <2>3 DEF PlaceInv
<1> QED
  BY <1>3, <1>4

\* What PullCommands returns becomes the batch.
LEMMA PulledKeepsPlaceInv ==
  ASSUME TypeInv, PlaceInv, NEW x \in calls, Pulled(x)
  PROVE  /\ PlaceInv' /\ UNCHANGED <<status, aired, outcome, got>>
         /\ \A c : (Placed(c)' <=> Placed(c)) /\ (Taken(c)' <=> Taken(c))
<1>1. /\ x.no \in 0 .. MaxFaults /\ reply \in [0 .. MaxFaults -> Seq(Command)]
      /\ <<>> \in Seq(Command) /\ loop \in LoopState /\ loop.batch = <<>>
  BY PullHasReply DEF TypeInv, AdapterInv, LoopInv, Pulled
<1>2. /\ UNCHANGED <<queue, pushing, status, aired, outcome, got>> /\ calls' \subseteq calls
      /\ reply' = [reply EXCEPT ![x.no] = <<>>] /\ loop'.batch = reply[x.no]
  BY <1>1 DEF Pulled, coreData, deliveryVars, Collect, Continue, LoopState
<1>3. PICK n : n = x.no
  OBVIOUS
<1>4. PICK g : g = reply'
  OBVIOUS
<1>5. PICK I : I = 0 .. MaxFaults
  OBVIOUS
<1>6. /\ n \in I /\ reply \in [I -> Seq(Command)] /\ g = [reply EXCEPT ![n] = <<>>]
      /\ OnceIn(reply) /\ NoRepeats(<<>>) /\ Waiting(<<>>) = {} /\ <<>> \in Seq(Command)
  BY <1>1, <1>2, <1>3, <1>4, <1>5 DEF PlaceInv, NoRepeats, Waiting
<1>7. /\ OnceIn(g)
      /\ \A c : Held(g, c) <=> c \in Waiting(<<>>) \/ (Held(reply, c) /\ c \notin Waiting(reply[n]))
  <2>1. \A c \in Waiting(<<>>) : c \in Waiting(reply[n]) \/ ~Held(reply, c)
    BY <1>6
  <2> QED
    BY ONLY <1>6, <2>1, UpdateOnce
<1>8. \A c : /\ Replied(c)' <=> Replied(c) /\ c \notin Waiting(reply[n])
             /\ Batched(c)' <=> c \in Waiting(reply[n])
             /\ c \in Waiting(reply[n]) => Replied(c)
             /\ Queued(c)' <=> Queued(c)
  <2>1. \A c : Replied(c)' <=> Held(g, c)
    BY <1>4 DEF Replied, Held
  <2>2. \A c : c \in Waiting(reply[n]) => Replied(c)
    BY <1>6 DEF Replied, Held
  <2> QED
    BY <1>2, <1>3, <1>6, <1>7, <2>1, <2>2 DEF Batched, Queued, Replied, Held
<1>9. ASSUME NEW c \in Command PROVE Apart(c)'
  BY <1>2, <1>8 DEF PlaceInv, Apart, Placed
<1>10. OnceIn(queue') /\ OnceIn(reply') /\ NoRepeats(loop'.batch)
  <2>1. NoRepeats(reply[n])
    BY <1>6 DEF OnceIn
  <2> QED
    BY <1>2, <1>3, <1>4, <1>7, <2>1 DEF PlaceInv
<1>11. \A c : ~Batched(c)
  BY <1>1 DEF Batched, Waiting
<1> QED
  BY <1>2, <1>8, <1>9, <1>10, <1>11 DEF PlaceInv, Placed, Taken

\* The first command of the batch leaves it with a report.
LEMMA ReportMovesHead ==
  ASSUME TypeInv, PlaceInv, loop.at = "publishing", NEW op \in {"sent", "failed"}, Report(op)
  PROVE  LET b == Head(loop.batch)
         IN  /\ b \in Command /\ Batched(b) /\ NoRepeats(loop'.batch)
             /\ \A c : Batched(c)' <=> Batched(c) /\ c # b
             /\ \A x \in calls' : x \in calls \/ x.cmd = b
<1>1. PICK b : b = Head(loop.batch)
  OBVIOUS
<1>2. /\ loop.batch \in Seq(Command) /\ loop.batch # <<>> /\ loop \in LoopState
      /\ NoRepeats(loop.batch)
  BY DEF TypeInv, AdapterInv, LoopInv, LoopState, PlaceInv
<1>3. /\ NoRepeats(Tail(loop.batch)) /\ Waiting(Tail(loop.batch)) = Waiting(loop.batch) \ {b}
      /\ b \in Waiting(loop.batch) /\ b \in Command
  BY <1>1, <1>2, TailOnce
<1>4. loop'.batch = Tail(loop.batch)
  BY <1>2 DEF Report, LoopState
<1>5. \A x \in calls' : x \in calls \/ x.cmd = b
  BY <1>1 DEF Report, Issue
<1> QED
  BY <1>1, <1>3, <1>4, <1>5 DEF Batched

\* A publish, or one that fails, takes the command out of its last place.
LEMMA PublishKeepsPlaceInv ==
  ASSUME TypeInv, PlaceInv, Publish \/ PublishFails
  PROVE  PlaceInv'
<1>1. PICK b : b = Head(loop.batch)
  OBVIOUS
<1>2. PICK op \in {"sent", "failed"} : Report(op)
  BY DEF Publish, PublishFails
<1>3. /\ b \in Command /\ Batched(b) /\ NoRepeats(loop'.batch)
      /\ \A c : Batched(c)' <=> Batched(c) /\ c # b
      /\ \A x \in calls' : x \in calls \/ x.cmd = b
  BY <1>1, <1>2, ReportMovesHead DEF Publish, PublishFails
<1>4. /\ UNCHANGED <<queue, reply, pushing, status, got>>
      /\ \/ aired' = aired \cup {b} /\ outcome' = outcome
         \/ aired' = aired /\ outcome' = [outcome EXCEPT ![b] = "rejected"]
  BY <1>1 DEF Publish, PublishFails, coreData
<1>5. \A c : (Queued(c)' <=> Queued(c)) /\ (Replied(c)' <=> Replied(c))
  BY <1>4 DEF Queued, Replied, Held
<1>6. outcome \in [Command -> {"open", "answered", "rejected"}]
  BY DEF TypeInv, DeliveryInv
<1>7. ASSUME NEW c \in Command PROVE Apart(c)'
  <2>1. Apart(c)
    BY DEF PlaceInv
  <2>2. CASE c = b
    BY <1>3, <1>4, <1>5, <1>6, <2>1, <2>2 DEF Apart, Placed
  <2>3. CASE c # b
    BY <1>3, <1>4, <1>5, <1>6, <2>1, <2>3 DEF Apart, Placed
  <2> QED
    BY <2>2, <2>3
<1> QED
  BY <1>3, <1>4, <1>7 DEF PlaceInv, OnceIn

\* Losing messages leaves the others where they are.
LEMMA LossKeepsPlaceInv ==
  ASSUME TypeInv, PlaceInv, LoopTimeout \/ RestartCore \/ Stop
  PROVE  /\ PlaceInv' /\ UNCHANGED <<status, aired, outcome, got>>
         /\ \A c : /\ c \in pushing' => c \in pushing
                   /\ Queued(c)' => Queued(c)
                   /\ Replied(c)' => Replied(c)
                   /\ Batched(c)' => Batched(c)
<1>1. UNCHANGED <<status, aired, outcome, got>> /\ pushing' \subseteq pushing
  BY DEF LoopTimeout, RestartCore, Stop, coreData, deliveryVars, CoreRestart
<1>2. OnceIn(reply') /\ \A c : Replied(c)' => Replied(c)
  <2>1. PICK K : KeepReplies(K)
    BY DEF LoopTimeout, RestartCore, Stop
  <2>2. AdapterInv
    BY DEF TypeInv
  <2>3. PICK I : I = 0 .. MaxFaults
    OBVIOUS
  <2>4. reply \in [I -> Seq(Command)] /\ OnceIn(reply)
    BY <2>2, <2>3 DEF AdapterInv, PlaceInv
  <2>5. reply' \in [I -> Seq(Command)] /\ \A n \in I : reply'[n] \in {reply[n], <<>>}
    BY <2>1, <2>2, <2>3, KeptReplies
  <2>6. PICK g : g = reply'
    OBVIOUS
  <2>7. g \in [I -> Seq(Command)] /\ \A n \in I : g[n] \in {reply[n], <<>>}
    BY <2>5, <2>6
  <2>8. OnceIn(g) /\ \A c : Held(g, c) => Held(reply, c)
    BY ONLY <2>4, <2>7, ShrinkOnce
  <2> QED
    BY <2>6, <2>8 DEF Replied, Held
<1>3. OnceIn(queue') /\ \A c : Queued(c)' => Queued(c)
  <2>1. queue' = queue \/ queue' = [d \in Device |-> <<>>]
    BY DEF LoopTimeout, RestartCore, Stop, coreData, CoreRestart
  <2>2. CASE queue' = queue
    BY <2>2 DEF Queued, Held, PlaceInv
  <2>3. CASE queue' = [d \in Device |-> <<>>]
    <3>1. \A d \in DOMAIN queue' : NoRepeats(queue'[d]) /\ Waiting(queue'[d]) = {}
      BY <2>3 DEF NoRepeats, Waiting
    <3> QED
      BY <3>1 DEF OnceIn, Queued, Held
  <2> QED
    BY <2>1, <2>2, <2>3
<1>4. NoRepeats(loop'.batch) /\ \A c : Batched(c)' => Batched(c)
  <2>1. loop'.batch = loop.batch \/ loop'.batch = <<>>
    <3>1. loop \in LoopState
      BY DEF TypeInv, AdapterInv, LoopInv
    <3>2. CASE LoopTimeout
      BY <3>1, <3>2 DEF LoopTimeout, Continue, LoopState
    <3>3. CASE RestartCore
      BY <3>3 DEF RestartCore, adapterVars
    <3>4. CASE Stop
      BY <3>4 DEF Stop, LoopIdle
    <3> QED
      BY <3>2, <3>3, <3>4
  <2> QED
    BY <2>1 DEF Batched, NoRepeats, Waiting, PlaceInv
<1>5. ASSUME NEW c \in Command PROVE Apart(c)'
  BY <1>1, <1>2, <1>3, <1>4 DEF PlaceInv, Apart, Placed
<1> QED
  BY <1>1, <1>2, <1>3, <1>4, <1>5 DEF PlaceInv

\* Every step is one of these.
LEMMA NextCases ==
  ASSUME [Next]_vars
  PROVE  \/ IsQuiet \/ HandleReceipt
         \/ Publish \/ PublishFails \/ LoopTimeout \/ RestartCore \/ Stop
         \/ \E x \in calls : Pulled(x) \/ ServePullCommands(x)
         \/ /\ UNCHANGED <<adapterState, reply>>
            /\ \/ \E c \in Command, d \in Device : CreateCommand(c, d)
               \/ \E c \in Command : PushCommand(c)
               \/ \E x \in calls : ServeMark(x)
BY DEF Next, MessageHandler, DownlinkLoop, CoreStep, Faults, IsQuiet

\* One copy of every message, on its way through the places.
LEMMA PlaceInvAlways == Spec => []PlaceInv
<1>1. TypeInv /\ PlaceInv /\ [Next]_vars => PlaceInv'
  <2> SUFFICES ASSUME TypeInv, PlaceInv, [Next]_vars PROVE PlaceInv'
    OBVIOUS
  <2>1. CASE IsQuiet
    BY <2>1, QuietProperties, QuietKeepsPlaceInv
  <2> QED
    BY <2>1, NextCases, HandleReceiptKeepsPlaceInv, PublishKeepsPlaceInv, LossKeepsPlaceInv,
       PulledKeepsPlaceInv, ServePullKeepsPlaceInv, CreateKeepsPlaceInv, PushKeepsPlaceInv,
       ServeMarkKeepsPlaceInv
<1> QED
  BY <1>1, PlaceInvInit, TypeInvAlways, PTL DEF Spec

\* Until the first fault every call is waited for.
LEMMA NoFaultYet ==
  ASSUME TypeInv, [Next]_vars, faults' = 0
  PROVE  /\ faults = 0 /\ \A x \in calls : Live(x)
         /\ ~Faults /\ ~MainTimeout /\ ~LoopTimeout /\ ~PublishFails /\ ~DatabaseError
         /\ ~RestartCore /\ ~Stop /\ \A d \in Device : ~Expire(d)
<1>1. faults' = faults \/ faults' = faults + 1
  BY DEF Next, Broker, OnConnectAuthenticate, Break, OnDisconnect, OnACLCheck,
     TouchSession, OnPublish, MessageHandler, HandleUplink, HandleReceipt, Handled,
     DownlinkLoop, Tick, Publish, Poll, Pulled, Reported, CoreStep, adapterState, Receive,
     ServePullCommands, Faults, MainTimeout, LoopTimeout, PublishFails, Expire, DatabaseError,
     RestartCore, Stop, vars, Fault
<1>2. faults \in Nat
  BY FaultAssumption DEF TypeInv, DeliveryInv
<1>3. faults = 0
  BY <1>1, <1>2
<1>4. /\ ~MainTimeout /\ ~LoopTimeout /\ ~PublishFails /\ ~DatabaseError /\ ~RestartCore /\ ~Stop
      /\ \A d \in Device : ~Expire(d)
  BY <1>3 DEF MainTimeout, LoopTimeout, PublishFails, DatabaseError, RestartCore, Stop, Expire, Fault
<1>5. ASSUME NEW x \in calls PROVE Live(x)
  <2>1. x.from \in Client /\ x.no \in Nat /\ x.no <= attempt[x.from]
    BY DEF TypeInv, CoreInv, CoreTypeOK, CallInv, Call
  <2>2. attempt[x.from] \in Nat /\ attempt[x.from] <= 0
    BY <1>3, <2>1 DEF TypeInv, CoreInv, CoreTypeOK, AttemptInv
  <2> QED
    BY <2>1, <2>2 DEF Live
<1> QED
  BY <1>3, <1>4, <1>5 DEF Faults

\* A row stands for a message in some place, or for a published command.
NoneMissing == \A c \in Command : status[c] # "none" => c \in aired \/ Placed(c)

NoLoss == faults = 0 /\ RoomForAll => NoneMissing

\* As long as nothing has failed and the queues have room nothing goes missing: the
\* calls are all live, and a queue that does not hold a command is not full.
LEMMA NothingMissing == Spec => []NoLoss
<1>1. Init => NoLoss
  BY DEF Init, CoreInit, NoneMissing, NoLoss
<1>2. TypeInv /\ PlaceInv /\ NoLoss /\ [Next]_vars => NoLoss'
  <2>0. SUFFICES ASSUME TypeInv, PlaceInv, faults = 0 => NoneMissing, [Next]_vars, faults' = 0,
                        RoomForAll
                 PROVE  NoneMissing'
    BY DEF NoLoss
  <2>1. faults = 0 /\ NoneMissing /\ ~PublishFails /\ ~LoopTimeout /\ ~RestartCore /\ ~Stop
    BY <2>0, NoFaultYet
  <2>2. CASE IsQuiet
    <3>1. UNCHANGED <<queue, reply, pushing, status, aired>> /\ loop'.batch = loop.batch
      BY <2>0, <2>2, QuietProperties
    <3> QED
      BY <2>1, <3>1 DEF NoneMissing, Placed, Queued, Replied, Batched, Held
  <2>3. CASE HandleReceipt
    BY <2>1, <2>3 DEF HandleReceipt, coreData, NoneMissing, Placed, Queued, Replied, Batched, Held
  <2>4. CASE Publish
    <3>1. PICK b : b = Head(loop.batch)
      OBVIOUS
    <3>2. /\ UNCHANGED <<queue, reply, pushing, status>> /\ aired' = aired \cup {b}
          /\ loop.at = "publishing" /\ Report("sent")
      BY <2>4, <3>1 DEF Publish, coreData
    <3>3. \A c : Batched(c) => Batched(c)' \/ c = b
      BY <2>0, <3>1, <3>2, ReportMovesHead
    <3> QED
      BY <2>1, <3>2, <3>3 DEF NoneMissing, Placed, Queued, Replied, Held
  <2>5. ASSUME NEW x \in calls, Pulled(x) PROVE NoneMissing'
    BY <2>0, <2>1, <2>5, PulledKeepsPlaceInv DEF NoneMissing
  <2>6. ASSUME NEW x \in calls, ServePullCommands(x) PROVE NoneMissing'
    <3>1. UNCHANGED <<status, pushing, aired, loop>>
      BY <2>6 DEF ServePullCommands, adapterState, adapterVars, deliveryVars
    <3>2. CASE queue[x.dev] = <<>> \/ Len(reply[x.no]) = MaxBatch
      <4>1. Live(x)
        BY <2>0, NoFaultYet
      <4>2. queue' = queue /\ reply' = reply
        BY <2>0, <2>6, <3>2, <4>1, AnsweredPullProperties
      <4> QED
        BY <2>1, <3>1, <4>2 DEF NoneMissing, Placed, Queued, Replied, Batched, Held
    <3>3. CASE ~(queue[x.dev] = <<>> \/ Len(reply[x.no]) = MaxBatch)
      <4>1. \A c : Queued(c) \/ Replied(c) => Queued(c)' \/ Replied(c)'
        BY <2>0, <2>6, <3>3, PopProperties
      <4> QED
        BY <2>1, <3>1, <4>1 DEF NoneMissing, Placed, Batched
    <3> QED
      BY <3>2, <3>3
  <2>7. ASSUME NEW b \in Command, NEW d \in Device, CreateCommand(b, d),
               UNCHANGED <<adapterState, reply>>
        PROVE  NoneMissing'
    <3>1. /\ UNCHANGED <<queue, reply, aired, loop>> /\ pushing' = pushing \cup {b}
          /\ status' = [status EXCEPT ![b] = "queued"] /\ status \in [Command -> Status]
      BY <2>0, <2>7
      DEF CreateCommand, adapterState, adapterVars, deliveryVars, TypeInv, CoreInv, CoreTypeOK
    <3> QED
      BY <2>1, <3>1 DEF NoneMissing, Placed, Queued, Replied, Batched, Held
  <2>8. ASSUME NEW b \in Command, PushCommand(b), UNCHANGED <<adapterState, reply>>
        PROVE  NoneMissing'
    <3>1. UNCHANGED <<reply, aired, loop, status>> /\ pushing' = pushing \ {b}
      BY <2>8 DEF PushCommand, adapterState, adapterVars, deliveryVars
    <3>2. PICK q : q = queue[owner[b]]
      OBVIOUS
    <3>3. /\ q \in Seq(Command) /\ NoRepeats(q) /\ b \notin Waiting(q)
          /\ ~QueueFull(q, Capacity) => \A c : Queued(c)' <=> Queued(c) \/ c = b
      BY <2>0, <2>8, <3>2, PushProperties
    <3>4. ~QueueFull(q, Capacity)
      <4>1. CASE Capacity = 0
        BY <4>1 DEF QueueFull
      <4>2. CASE IsFiniteSet(Command) /\ Cardinality(Command) <= Capacity
        <5>1. Len(q) < Cardinality(Command)
          BY <3>3, <4>2, ShorterThanSet
        <5>2. Len(q) \in Nat /\ Cardinality(Command) \in Nat /\ Capacity \in Nat
          BY <3>3, <4>2, CapacityAssumption, FS_CardinalityType
        <5> QED
          BY <4>2, <5>1, <5>2 DEF QueueFull
      <4> QED
        BY <2>0, <4>1, <4>2 DEF RoomForAll
    <3> QED
      BY <2>1, <3>1, <3>3, <3>4 DEF NoneMissing, Placed, Replied, Batched, Held
  <2>9. ASSUME NEW x \in calls, ServeMark(x), UNCHANGED <<adapterState, reply>>
        PROVE  NoneMissing'
    <3>1. UNCHANGED <<queue, reply, pushing, aired, loop>>
      BY <2>9 DEF ServeMark, adapterState, adapterVars, deliveryVars
    <3>2. \A c \in Command : status'[c] = "none" <=> status[c] = "none"
      BY <2>0, <2>9, ServeMarkProperties
    <3> QED
      BY <2>1, <3>1, <3>2 DEF NoneMissing, Placed, Queued, Replied, Batched, Held
  <2> QED
    BY <2>0, <2>1, <2>2, <2>3, <2>4, <2>5, <2>6, <2>7, <2>8, <2>9, NextCases
<1> QED
  BY <1>1, <1>2, TypeInvAlways, PlaceInvAlways, PTL DEF Spec

\* The places OnePlace counts.
LEMMA PlacesProperties ==
  ASSUME TypeInv, NEW c \in Command
  PROVE  /\ \A p \in Places(c) :
              \/ p = <<"pushing", c>> /\ c \in pushing
              \/ \E d \in Device : \E i \in DOMAIN queue[d] :
                   p = <<"queue", d, i>> /\ queue[d][i] = c
              \/ \E n \in DOMAIN reply : \E i \in DOMAIN reply[n] :
                   p = <<"reply", n, i>> /\ reply[n][i] = c
              \/ \E i \in DOMAIN loop.batch : p = <<"batch", i>> /\ loop.batch[i] = c
         /\ Places(c) # {} <=> Placed(c)
<1>1. DOMAIN queue = Device
  BY DEF TypeInv, CoreInv, CoreTypeOK
<1>2. \A p : p \in Places(c) <=>
              \/ p = <<"pushing", c>> /\ c \in pushing
              \/ \E d \in Device : \E i \in DOMAIN queue[d] :
                   p = <<"queue", d, i>> /\ queue[d][i] = c
              \/ \E n \in DOMAIN reply : \E i \in DOMAIN reply[n] :
                   p = <<"reply", n, i>> /\ reply[n][i] = c
              \/ \E i \in DOMAIN loop.batch : p = <<"batch", i>> /\ loop.batch[i] = c
  BY DEF Places
<1>3. Placed(c) <=> \/ c \in pushing
                    \/ \E d \in Device : \E i \in DOMAIN queue[d] : queue[d][i] = c
                    \/ \E n \in DOMAIN reply : \E i \in DOMAIN reply[n] : reply[n][i] = c
                    \/ \E i \in DOMAIN loop.batch : loop.batch[i] = c
  BY <1>1 DEF Placed, Queued, Replied, Batched, Held, Waiting
<1>4. Placed(c) => \E p : p \in Places(c)
  BY <1>2, <1>3
<1>5. ASSUME NEW p \in Places(c) PROVE Placed(c)
  BY <1>2, <1>3
<1> QED
  BY <1>2, <1>4, <1>5

\* A command is published at most once and, until something fails, not lost
\* before: its message is in one place, then in none.
THEOREM PublishedOnce == Spec => []OnePlace
<1>1. TypeInv /\ PlaceInv /\ NoLoss => OnePlace
  <2> SUFFICES ASSUME TypeInv, PlaceInv, NoLoss, NEW c \in Command
               PROVE  /\ \A p, q \in Places(c) : p = q
                      /\ c \in aired => Places(c) = {}
                      /\ faults = 0 /\ RoomForAll /\ status[c] # "none" => c \in aired \/ Places(c) # {}
    BY DEF OnePlace
  <2>1. /\ OnceIn(queue) /\ OnceIn(reply) /\ NoRepeats(loop.batch) /\ Apart(c)
        /\ DOMAIN queue = Device
    BY DEF PlaceInv, TypeInv, CoreInv, CoreTypeOK
  <2>2. Places(c) # {} <=> Placed(c)
    BY PlacesProperties
  <2>3. ASSUME NEW p \in Places(c), NEW q \in Places(c) PROVE p = q
    <3>1. CASE c \in pushing
      <4>1. ~Queued(c) /\ ~Replied(c) /\ ~Batched(c)
        BY <2>1, <3>1 DEF Apart
      <4>2. p = <<"pushing", c>> /\ q = <<"pushing", c>>
        BY <2>1, <4>1, PlacesProperties DEF Queued, Replied, Batched, Held, Waiting
      <4> QED
        BY <4>2
    <3>2. CASE Queued(c)
      <4>1. c \notin pushing /\ ~Replied(c) /\ ~Batched(c)
        BY <2>1, <3>2 DEF Apart
      <4>2. PICK d \in Device : \E i \in DOMAIN queue[d] : p = <<"queue", d, i>> /\ queue[d][i] = c
        BY <4>1, PlacesProperties DEF Replied, Batched, Held, Waiting
      <4>3. PICK e \in Device : \E j \in DOMAIN queue[e] : q = <<"queue", e, j>> /\ queue[e][j] = c
        BY <4>1, PlacesProperties DEF Replied, Batched, Held, Waiting
      <4>4. PICK i \in DOMAIN queue[d] : p = <<"queue", d, i>> /\ queue[d][i] = c
        BY <4>2
      <4>5. PICK j \in DOMAIN queue[e] : q = <<"queue", e, j>> /\ queue[e][j] = c
        BY <4>3
      <4>6. c \in Waiting(queue[d]) /\ c \in Waiting(queue[e])
        BY <4>4, <4>5 DEF Waiting
      <4>7. d = e
        BY <2>1, <4>6 DEF OnceIn
      <4>8. i = j
        BY <2>1, <4>4, <4>5, <4>7 DEF OnceIn, NoRepeats
      <4> QED
        BY <4>4, <4>5, <4>7, <4>8
    <3>3. CASE Replied(c)
      <4>1. c \notin pushing /\ ~Queued(c) /\ ~Batched(c)
        BY <2>1, <3>3 DEF Apart
      <4>2. PICK d \in DOMAIN reply : \E i \in DOMAIN reply[d] : p = <<"reply", d, i>> /\ reply[d][i] = c
        BY <2>1, <4>1, PlacesProperties DEF Queued, Batched, Held, Waiting
      <4>3. PICK e \in DOMAIN reply : \E j \in DOMAIN reply[e] : q = <<"reply", e, j>> /\ reply[e][j] = c
        BY <2>1, <4>1, PlacesProperties DEF Queued, Batched, Held, Waiting
      <4>4. PICK i \in DOMAIN reply[d] : p = <<"reply", d, i>> /\ reply[d][i] = c
        BY <4>2
      <4>5. PICK j \in DOMAIN reply[e] : q = <<"reply", e, j>> /\ reply[e][j] = c
        BY <4>3
      <4>6. c \in Waiting(reply[d]) /\ c \in Waiting(reply[e])
        BY <4>4, <4>5 DEF Waiting
      <4>7. d = e
        BY <2>1, <4>6 DEF OnceIn
      <4>8. i = j
        BY <2>1, <4>4, <4>5, <4>7 DEF OnceIn, NoRepeats
      <4> QED
        BY <4>4, <4>5, <4>7, <4>8
    <3>4. CASE Batched(c)
      <4>1. c \notin pushing /\ ~Queued(c) /\ ~Replied(c)
        BY <2>1, <3>4 DEF Apart
      <4>2. PICK i \in DOMAIN loop.batch : p = <<"batch", i>> /\ loop.batch[i] = c
        BY <2>1, <4>1, PlacesProperties DEF Queued, Replied, Held, Waiting
      <4>3. PICK j \in DOMAIN loop.batch : q = <<"batch", j>> /\ loop.batch[j] = c
        BY <2>1, <4>1, PlacesProperties DEF Queued, Replied, Held, Waiting
      <4>4. i = j
        BY <2>1, <4>2, <4>3 DEF NoRepeats
      <4> QED
        BY <4>2, <4>3, <4>4
    <3>5. Placed(c)
      BY <2>2, <2>3
    <3> QED
      BY <3>1, <3>2, <3>3, <3>4, <3>5 DEF Placed
  <2>4. c \in aired => Places(c) = {}
    BY <2>1, <2>2 DEF Apart
  <2>5. faults = 0 /\ RoomForAll /\ status[c] # "none" => c \in aired \/ Places(c) # {}
    BY <2>2 DEF NoLoss, NoneMissing
  <2> QED
    BY <2>3, <2>4, <2>5
<1> QED
  BY <1>1, TypeInvAlways, PlaceInvAlways, NothingMissing, PTL

-----------------------------------------------------------------------------
(* Rows and reports say what happened.                                     *)

\* What a status says of command c, in a row or on its way to one, is true, or
\* what a device said too early.
Backed(op, c) ==
  /\ op = "sent" => c \in aired \cup early
  /\ op = "acked" => c \in got \cup early
  /\ op \in {"acked", "failed"} => outcome[c] # "open"

\* The report of a publish or an answer is on its way.
Announced(c) == \E x \in calls : x.cmd = c /\ x.op # "pull" /\ x.stage = "issued"

ReportInv ==
  /\ \A c \in Command : Backed(status[c], c)
  /\ \A x \in calls : x.stage = "issued" /\ x.op # "pull" => Backed(x.op, x.cmd)
  /\ faults = 0 => \A c \in Command :
       /\ outcome[c] # "rejected"
       /\ c \in aired /\ status[c] = "queued" => Announced(c)

\* What is published, received, answered early or told stays so.
LEMMA ResultsStay ==
  ASSUME TypeInv, PlaceInv, [Next]_vars
  PROVE  /\ aired \subseteq aired' /\ got \subseteq got' /\ early \subseteq early'
         /\ \A c \in Command : outcome[c] # "open" => outcome'[c] # "open"
<1>1. outcome \in [Command -> {"open", "answered", "rejected"}]
  BY DEF TypeInv, DeliveryInv
<1>2. CASE IsQuiet
  <2>1. aired' = aired /\ got \subseteq got' /\ outcome' = outcome
    BY <1>2, QuietProperties
  <2>2. early \subseteq early'
    BY <1>2 DEF IsQuiet, Broker, OnConnectAuthenticate, Break, OnDisconnect, OnACLCheck,
       TouchSession, OnPublish, HandleUplink, Tick, MainTimeout, DatabaseError, Handled, Reported,
       Poll, Expire, Receive, adapterState, deliveryVars, vars
  <2> QED
    BY <2>1, <2>2
<1>3. CASE HandleReceipt
  BY <1>1, <1>3, ReceiptProperties
<1>4. CASE Publish
  BY <1>4 DEF Publish
<1>5. CASE PublishFails
  BY <1>1, <1>5 DEF PublishFails
<1>6. CASE LoopTimeout \/ RestartCore \/ Stop
  BY <1>6 DEF LoopTimeout, RestartCore, Stop, deliveryVars
<1>7. ASSUME NEW x \in calls, Pulled(x) \/ ServePullCommands(x)
      PROVE  UNCHANGED <<aired, got, early, outcome>>
  BY <1>7 DEF Pulled, ServePullCommands, adapterState, deliveryVars
<1>8. ASSUME UNCHANGED adapterState PROVE UNCHANGED <<aired, got, early, outcome>>
  BY <1>8 DEF adapterState, deliveryVars
<1> QED
  BY <1>2, <1>3, <1>4, <1>5, <1>6, <1>7, <1>8, NextCases

\* Neither is what a status says.
LEMMA BackedStays ==
  ASSUME TypeInv, PlaceInv, [Next]_vars, NEW c \in Command, NEW op, Backed(op, c)
  PROVE  Backed(op, c)'
BY ResultsStay DEF Backed

\* A new report is true, and so is what a step writes to a row.
LEMMA StepsAreBacked ==
  ASSUME TypeInv, MessageInv, PlaceInv, ReportInv, [Next]_vars
  PROVE  /\ \A x \in calls' : x.stage = "issued" /\ x.op # "pull" =>
              x \in calls \/ (x.cmd \in Command /\ Backed(x.op, x.cmd)')
         /\ \A c \in Command : \/ status'[c] = status[c]
                               \/ status'[c] = "queued"
                               \/ Backed(status'[c], c)
<1>0. /\ calls \subseteq Call /\ CallInv /\ status \in [Command -> Status]
      /\ outcome \in [Command -> {"open", "answered", "rejected"}]
  BY DEF TypeInv, CoreInv, CoreTypeOK, DeliveryInv
<1>1. CASE IsQuiet
  BY <1>1, QuietProperties
<1>2. CASE HandleReceipt
  <2>1. PICK m \in Message : /\ m \in Waiting(msgCh) /\ m.kind \in Receipts
                           /\ m.cmd \in Command /\ outcome'[m.cmd] # "open"
                           /\ \A x \in calls' : x \in calls \/ (x.cmd = m.cmd /\ x.op = m.kind)
    BY <1>2, ReceiptProperties
  <2>2. UNCHANGED <<status, aired, got, early>>
    BY <1>2, ReceiptProperties
  <2>3. m.cmd \in got \cup early /\ got \subseteq aired
    BY <2>1 DEF MessageInv, TypeInv, DeliveryInv
  <2>4. Backed(m.kind, m.cmd)'
    BY <2>1, <2>2, <2>3 DEF Backed
  <2> QED
    BY <2>1, <2>2, <2>4
<1>3. CASE Publish \/ PublishFails
  <2>1. PICK b : b = Head(loop.batch)
    OBVIOUS
  <2>2. PICK op \in {"sent", "failed"} :
          /\ Report(op) /\ loop.at = "publishing" /\ status' = status
          /\ op = "sent" => aired' = aired \cup {b}
          /\ op = "failed" => outcome' = [outcome EXCEPT ![b] = "rejected"]
    <3>1. CASE Publish
      BY <2>1, <3>1 DEF Publish, coreData
    <3>2. CASE PublishFails
      BY <2>1, <3>2 DEF PublishFails, coreData
    <3> QED
      BY <1>3, <3>1, <3>2
  <2>3. b \in Command
    BY <2>1, <2>2, ReportMovesHead
  <2>4. Backed(op, b)'
    BY <1>0, <2>2, <2>3 DEF Backed
  <2>5. \A x \in calls' : x \in calls \/ (x.cmd = b /\ x.op = op)
    BY <2>1, <2>2 DEF Report, Issue
  <2> QED
    BY <2>2, <2>3, <2>4, <2>5
<1>4. CASE LoopTimeout \/ RestartCore \/ Stop
  <2>1. UNCHANGED status
    BY <1>4, LossKeepsPlaceInv
  <2>2. \A x \in calls' : x.stage # "issued" \/ x \in calls
    <3>1. CASE LoopTimeout \/ Stop
      BY <3>1 DEF LoopTimeout, Stop, Abandon
    <3>2. CASE RestartCore
      <4>1. calls' = {x \in calls : Live(x) /\ x.stage = "answered"} \cup
                       {[x EXCEPT !.stage = "answered", !.cmd = NoCommand] :
                          x \in {y \in calls : Live(y) /\ y.stage # "answered"}}
        BY <3>2 DEF RestartCore, CoreRestart
      <4>2. \A y \in Call : [y EXCEPT !.stage = "answered",
                                      !.cmd = NoCommand].stage = "answered"
        BY DEF Call
      <4>3. ASSUME NEW x \in calls', x \notin calls
            PROVE  x.stage = "answered"
        <5>1. PICK y \in calls : x = [y EXCEPT !.stage = "answered",
                                              !.cmd = NoCommand]
          BY <4>1, <4>3
        <5> QED
          BY <1>0, <4>2, <5>1
      <4> QED
        BY <4>3
    <3> QED
      BY <1>4, <3>1, <3>2
  <2> QED
    BY <2>1, <2>2
<1>5. ASSUME NEW x \in calls, Pulled(x)
      PROVE  calls' \subseteq calls /\ UNCHANGED status
  BY <1>5 DEF Pulled, Collect, coreData
<1>6. ASSUME NEW x \in calls, ServePullCommands(x)
      PROVE  UNCHANGED status /\ \A y \in calls' : y.stage # "issued" \/ y \in calls
  <2>1. calls' = Answer(x, NoCommand) \/ calls' = calls
    BY <1>6 DEF ServePullCommands
  <2> QED
    BY <1>0, <1>6, <2>1, AnswerIssuesNone DEF ServePullCommands
<1>7. ASSUME NEW c \in Command, PushCommand(c) \/ \E d \in Device : CreateCommand(c, d)
      PROVE  /\ calls' = calls
             /\ \A b \in Command : status'[b] = status[b] \/ status'[b] = "queued"
  BY <1>0, <1>7 DEF PushCommand, CreateCommand
<1>8. ASSUME NEW x \in calls, ServeMark(x)
      PROVE  /\ \A y \in calls' : y.stage # "issued" \/ y \in calls
             /\ \A b \in Command : status'[b] = status[b] \/ Backed(status'[b], b)
  <2>1. x.cmd \in Command /\ Backed(x.op, x.cmd)
    BY <1>0, <1>8 DEF ServeMark, CallInv, ReportInv
  <2>2. \A b \in Command : status'[b] = status[b] \/ (b = x.cmd /\ status'[b] = x.op)
    BY <1>8, ServeMarkProperties
  <2>3. calls' = Answer(x, x.cmd)
    BY <1>8 DEF ServeMark
  <2> QED
    BY <1>0, <2>1, <2>2, <2>3, AnswerIssuesNone
<1> QED
  BY <1>1, <1>2, <1>3, <1>4, <1>5, <1>6, <1>7, <1>8, NextCases

\* Until the first fault a row that lags behind a publish is about to catch up.
LEMMA RowsCatchUp ==
  ASSUME TypeInv, PlaceInv, ReportInv, [Next]_vars, faults' = 0, NEW c \in Command
  PROVE  outcome'[c] # "rejected" /\ (c \in aired' /\ status'[c] = "queued" => Announced(c)')
<1>0. /\ faults = 0 /\ outcome[c] # "rejected" /\ (c \in aired /\ status[c] = "queued" => Announced(c))
      /\ outcome \in [Command -> {"open", "answered", "rejected"}]
      /\ status \in [Command -> Status] /\ CallInv /\ (c \in aired => status[c] # "none")
  BY NoFaultYet DEF ReportInv, TypeInv, CoreInv, CoreTypeOK, DeliveryInv, PlaceInv, Apart
<1>1. ASSUME aired' = aired, status'[c] = status[c],
             \A x \in calls : x.cmd = c /\ x.op # "pull" /\ x.stage = "issued" => x \in calls'
      PROVE  c \in aired' /\ status'[c] = "queued" => Announced(c)'
  BY <1>0, <1>1 DEF Announced
<1>2. CASE IsQuiet
  <2>1. UNCHANGED <<status, aired, outcome>>
    BY <1>2, QuietProperties
  <2>2. \A x \in calls : x.stage = "issued" => x \in calls'
    <3>1. ASSUME NEW x \in calls, Handled(x) \/ Reported(x) PROVE calls' = calls \ {x} /\ x.stage = "answered"
      BY <3>1 DEF Handled, Reported, Answered, Collect
    <3>2. ASSUME NEW d \in Device, Poll(d) PROVE calls \subseteq calls'
      BY <3>2 DEF Poll, Issue
    <3>3. \A x \in calls : ~LoseRequest(x)
      BY NoFaultYet DEF LoseRequest
    <3>4. ASSUME Broker \/ HandleUplink \/ Tick \/ UNCHANGED vars \/ \E b \in Command : Receive(b)
          PROVE  calls' = calls
      BY <3>4 DEF Broker, OnConnectAuthenticate, Break, OnDisconnect, OnACLCheck, TouchSession,
         OnPublish, HandleUplink, Tick, Receive, vars, coreVars
    <3> QED
      BY <1>2, <3>1, <3>2, <3>3, <3>4, NoFaultYet DEF IsQuiet
  <2> QED
    BY <1>0, <1>1, <2>1, <2>2
<1>3. CASE HandleReceipt
  <2>1. calls \subseteq calls' /\ UNCHANGED <<status, aired>> /\ outcome'[c] \in {outcome[c], "answered"}
    BY <1>3, ReceiptProperties
  <2> QED
    BY <1>0, <1>1, <2>1
<1>4. CASE Publish
  <2>1. PICK b : b = Head(loop.batch)
    OBVIOUS
  <2>2. /\ aired' = aired \cup {b} /\ UNCHANGED <<status, outcome>>
        /\ Issue(Loop, "sent", loop.dev, b)
    BY <1>4, <2>1 DEF Publish, Report, coreData
  <2>3. PICK x : x = [from |-> Loop, no |-> attempt[Loop], op |-> "sent", dev |-> loop.dev,
                      cmd |-> b, stage |-> "issued"]
    OBVIOUS
  <2>4. x \in calls' /\ calls \subseteq calls' /\ x.cmd = b /\ x.op = "sent" /\ x.stage = "issued"
    BY <2>2, <2>3 DEF Issue
  <2> QED
    BY <1>0, <2>2, <2>4 DEF Announced
<1>5. ASSUME NEW x \in calls, Pulled(x) \/ ServePullCommands(x)
      PROVE  /\ UNCHANGED <<status, aired, outcome>>
             /\ \A y \in calls : y.op # "pull" /\ y.stage = "issued" => y \in calls'
  BY <1>5 DEF Pulled, Answered, Collect, coreData, deliveryVars, ServePullCommands, adapterState, Answer
<1>6. ASSUME UNCHANGED <<adapterState, reply>> PROVE UNCHANGED <<aired, outcome>>
  BY <1>6 DEF adapterState, deliveryVars
<1>7. ASSUME NEW b \in Command, PushCommand(b) \/ \E d \in Device : CreateCommand(b, d)
      PROVE  calls' = calls /\ (status'[c] = status[c] \/ status[c] = "none")
  BY <1>0, <1>7 DEF PushCommand, CreateCommand
<1>8. ASSUME NEW x \in calls, ServeMark(x), status'[c] = "queued"
      PROVE  /\ status'[c] = status[c]
             /\ \A y \in calls : y.cmd = c => y \in calls'
  <2>1. x.op # "queued" /\ calls \ {x} \subseteq calls'
    BY <1>8, ServeMarkProperties DEF Answer
  <2>2. x.cmd # c
    BY <1>8, <2>1, ServeMarkProperties
  <2>3. status'[c] = status[c]
    BY <1>8, <2>2, ServeMarkProperties
  <2> QED
    BY <2>1, <2>2, <2>3
<1> QED
  BY <1>0, <1>1, <1>2, <1>3, <1>4, <1>5, <1>6, <1>7, <1>8, NextCases, NoFaultYet

\* The row of a command agrees with what happened to it.
THEOREM RowsAgree == Spec => []RowAgrees
<1>1. Init => ReportInv
  <2> SUFFICES ASSUME Init PROVE ReportInv
    OBVIOUS
  <2>1. \A c \in Command : status[c] = "none" /\ c \notin aired /\ outcome[c] = "open"
    BY DEF Init, CoreInit
  <2> QED
    BY <2>1 DEF Init, CoreInit, ReportInv, Backed
<1>2. TypeInv /\ MessageInv /\ PlaceInv /\ ReportInv /\ [Next]_vars => ReportInv'
  <2> SUFFICES ASSUME TypeInv, MessageInv, PlaceInv, ReportInv, [Next]_vars PROVE ReportInv'
    OBVIOUS
  <2>1. ASSUME NEW c \in Command PROVE Backed(status[c], c)'
    <3>1. Backed(status[c], c)
      BY DEF ReportInv
    <3>2. \A op : Backed(op, c) => Backed(op, c)'
      BY BackedStays
    <3>3. \/ status'[c] = status[c] \/ status'[c] = "queued" \/ Backed(status'[c], c)
      BY StepsAreBacked
    <3> QED
      BY <3>1, <3>2, <3>3 DEF Backed
  <2>2. ASSUME NEW x \in calls', x.stage = "issued", x.op # "pull" PROVE Backed(x.op, x.cmd)'
    <3>1. x \in calls \/ Backed(x.op, x.cmd)'
      BY <2>2, StepsAreBacked
    <3>2. x \in calls => x.cmd \in Command /\ Backed(x.op, x.cmd)
      BY <2>2 DEF ReportInv, TypeInv, CoreInv, CallInv
    <3> QED
      BY <3>1, <3>2, BackedStays
  <2>3. ASSUME faults' = 0, NEW c \in Command
        PROVE  outcome'[c] # "rejected" /\ (c \in aired' /\ status'[c] = "queued" => Announced(c)')
    BY <2>3, RowsCatchUp
  <2> QED
    BY <2>1, <2>2, <2>3 DEF ReportInv
<1>3. TypeInv /\ ReportInv => RowAgrees
  <2> SUFFICES ASSUME TypeInv, ReportInv, NEW c \in Command
               PROVE  /\ status[c] = "acked" => c \in got \cup early
                      /\ faults = 0 /\ Quiet(c) =>
                           /\ status[c] = "queued" => c \notin aired
                           /\ status[c] = "sent" => c \in aired \cup early
                           /\ status[c] \in {"acked", "failed"} => outcome[c] = "answered"
    BY DEF RowAgrees
  <2>1. Backed(status[c], c)
    BY DEF ReportInv
  <2>2. Quiet(c) => ~Announced(c)
    BY DEF Quiet, Announced
  <2>3. outcome[c] \in {"open", "answered", "rejected"}
    BY DEF TypeInv, DeliveryInv
  <2> QED
    BY <2>1, <2>2, <2>3 DEF ReportInv, Backed
<1> QED
  BY <1>1, <1>2, <1>3, TypeInvAlways, MessageInvAlways, PlaceInvAlways, PTL DEF Spec

-----------------------------------------------------------------------------
(* The delivery implements CommandLifecycle without a second try.          *)

\* The stage of a command, read off its places.
Mapped(c) ==
  IF status[c] = "none" THEN "absent"
  ELSE IF outcome[c] = "rejected" THEN "rejected"
  ELSE IF c \in aired THEN "transmitted"
  ELSE IF ~Placed(c) THEN "lost"
  ELSE IF Taken(c) THEN "taken"
  ELSE "waiting"

StageIsMapped == \A c \in Command : StageOf(c) = Mapped(c)

\* StageOf reads the same stage off Places.
LEMMA StageOfIsMapped ==
  ASSUME TypeInv
  PROVE  StageIsMapped
<1> SUFFICES ASSUME NEW c \in Command PROVE StageOf(c) = Mapped(c)
  BY DEF StageIsMapped
<1>1. Places(c) = {} <=> ~Placed(c)
  BY PlacesProperties
<1>2. (InReply(c) # {} \/ c \in Waiting(loop.batch)) <=> Taken(c)
  BY DEF InReply, Taken, Replied, Batched, Held
<1> QED
  BY <1>1, <1>2 DEF StageOf, Mapped

Stages == [c \in Command |-> StageOf(c)]

AbstractStep == [Lifecycle!Forward]_(Lifecycle!vars)

\* The stage of c stays, or c is lost.
LosesOnly(c) ==
  Mapped(c)' = Mapped(c) \/ (Mapped(c)' = "lost" /\ Mapped(c) \in {"waiting", "taken"})

\* A message that stays where it is or disappears.
LEMMA FadingLoses ==
  ASSUME NEW c \in Command, UNCHANGED <<aired, outcome>>,
         status'[c] = "none" <=> status[c] = "none",
         Placed(c)' => Placed(c) /\ (Taken(c)' <=> Taken(c))
  PROVE  LosesOnly(c)
BY DEF LosesOnly, Mapped

\* A step that only loses messages is a step of CommandLifecycle or none.
LEMMA LosingIsAbstract ==
  ASSUME StageIsMapped, StageIsMapped', UNCHANGED <<aired, got>>,
         \A c \in Command : LosesOnly(c)
  PROVE  AbstractStep
<1>1. PICK S \in SUBSET Command : \A c \in Command : c \in S <=> Mapped(c)' # Mapped(c)
  <2> DEFINE S == {c \in Command : Mapped(c)' # Mapped(c)}
  <2>1. S \in SUBSET Command /\ \A c \in Command : c \in S <=> Mapped(c)' # Mapped(c)
    OBVIOUS
  <2> QED
    BY <2>1
<1>2. \A c \in Command : /\ Stages[c] = Mapped(c)
                         /\ Stages'[c] = IF c \in S THEN "lost" ELSE Stages[c]
                         /\ c \in S => Stages[c] \in {"waiting", "taken"}
  BY <1>1 DEF Stages, StageIsMapped, LosesOnly
<1>3. Stages' = [c \in Command |-> IF c \in S THEN "lost" ELSE Stages[c]]
  BY <1>2 DEF Stages
<1>4. CASE S = {}
  <2>1. Stages' = Stages
    BY <1>3, <1>4 DEF Stages
  <2> QED
    BY <2>1 DEF AbstractStep, Lifecycle!vars, Stages
<1>5. CASE S # {}
  <2>1. Lifecycle!Lose(S)
    BY <1>2, <1>3 DEF Lifecycle!Lose, Lifecycle!Open, Stages
  <2> QED
    BY <1>5, <2>1 DEF AbstractStep, Lifecycle!Forward
<1> QED
  BY <1>4, <1>5

\* A step that moves one message as CommandLifecycle allows is one of its steps.
LEMMA MovingIsAbstract ==
  ASSUME StageIsMapped, StageIsMapped', NEW b \in Command, UNCHANGED got,
         \A c \in Command \ {b} : Mapped(c)' = Mapped(c),
         \/ /\ aired' = aired
            /\ \/ Mapped(b) = "absent" /\ Mapped(b)' = "waiting"
               \/ Mapped(b) = "waiting" /\ Mapped(b)' = "taken"
               \/ Mapped(b) = "taken" /\ Mapped(b)' = "rejected"
         \/ Mapped(b) = "taken" /\ Mapped(b)' = "transmitted" /\ aired' = aired \cup {b}
  PROVE  AbstractStep
<1>1. PICK to : to = Mapped(b)'
  OBVIOUS
<1>2. Stages[b] = Mapped(b) /\ Stages' = [Stages EXCEPT ![b] = to]
  <2>1. \A c \in Command : Stages[c] = Mapped(c) /\ Stages'[c] = Mapped(c)'
    BY DEF Stages, StageIsMapped
  <2> QED
    BY <1>1, <2>1 DEF Stages
<1>3. \A from : Mapped(b) \in from => Lifecycle!Move(b, from, to)
  BY <1>2 DEF Lifecycle!Move, Stages
<1>4. \/ Lifecycle!Submit(b) \/ Lifecycle!Take(b) \/ Lifecycle!Reject(b)
      \/ Lifecycle!Transmit(b)
  <2>1. CASE aired' = aired /\ Mapped(b) = "absent" /\ to = "waiting"
    BY <1>3, <2>1 DEF Lifecycle!Submit
  <2>2. CASE aired' = aired /\ Mapped(b) = "waiting" /\ to = "taken"
    BY <1>3, <2>2 DEF Lifecycle!Take
  <2>3. CASE aired' = aired /\ Mapped(b) = "taken" /\ to = "rejected"
    BY <1>3, <2>3 DEF Lifecycle!Reject
  <2>4. CASE Mapped(b) = "taken" /\ to = "transmitted" /\ aired' = aired \cup {b}
    BY <1>3, <2>4 DEF Lifecycle!Transmit
  <2> QED
    BY <1>1, <2>1, <2>2, <2>3, <2>4
<1> QED
  BY <1>4 DEF AbstractStep, Lifecycle!Forward

\* The steps that touch no message: the device receives one, or nothing happens.
LEMMA QuietIsAbstract ==
  ASSUME StageIsMapped, StageIsMapped', TypeInv, IsQuiet
  PROVE  AbstractStep
<1>1. UNCHANGED <<queue, reply, pushing, status, aired, outcome>> /\ loop'.batch = loop.batch
  BY QuietProperties
<1>2. \A c \in Command : Mapped(c)' = Mapped(c)
  BY <1>1 DEF Mapped, Placed, Taken, Queued, Replied, Batched, Held
<1>3. Stages' = Stages
  BY <1>2 DEF Stages, StageIsMapped
<1>4. ASSUME NEW c \in Command, Receive(c) PROVE AbstractStep
  <2>1. Lifecycle!Deliver(c)
    BY <1>1, <1>3, <1>4 DEF Lifecycle!Deliver, Receive, Stages
  <2> QED
    BY <2>1 DEF AbstractStep, Lifecycle!Forward
<1>5. CASE got' = got
  BY <1>1, <1>3, <1>5 DEF AbstractStep, Lifecycle!vars, Stages
<1>6. got' = got \/ \E c \in Command : Receive(c)
  <2>1. ASSUME Broker \/ HandleUplink \/ Tick \/ MainTimeout \/ DatabaseError \/ UNCHANGED vars
        PROVE  got' = got
    BY <2>1 DEF Broker, OnConnectAuthenticate, Break, OnDisconnect, OnACLCheck, TouchSession,
       OnPublish, HandleUplink, Tick, MainTimeout, DatabaseError, vars, deliveryVars
  <2>2. ASSUME NEW x \in calls, \/ Handled(x) \/ Reported(x)
                                \/ LoseRequest(x) /\ UNCHANGED <<adapterState, reply>>
        PROVE  got' = got
    BY <2>2 DEF Handled, Reported, adapterState, deliveryVars
  <2>3. ASSUME NEW d \in Device, Poll(d) \/ Expire(d) PROVE got' = got
    BY <2>3 DEF Poll, Expire, deliveryVars
  <2> QED
    BY <2>1, <2>2, <2>3 DEF IsQuiet
<1> QED
  BY <1>4, <1>5, <1>6

\* A publish transmits the command, one that fails rejects it.
LEMMA PublishIsAbstract ==
  ASSUME StageIsMapped, StageIsMapped', TypeInv, PlaceInv, Publish \/ PublishFails
  PROVE  AbstractStep
<1>1. PICK b : b = Head(loop.batch)
  OBVIOUS
<1>2. PICK op \in {"sent", "failed"} : Report(op)
  BY DEF Publish, PublishFails
<1>3. b \in Command /\ Batched(b) /\ \A c : Batched(c)' <=> Batched(c) /\ c # b
  BY <1>1, <1>2, ReportMovesHead DEF Publish, PublishFails
<1>4. /\ UNCHANGED <<queue, reply, pushing, status, got>>
      /\ \/ aired' = aired \cup {b} /\ outcome' = outcome
         \/ aired' = aired /\ outcome' = [outcome EXCEPT ![b] = "rejected"]
  BY <1>1 DEF Publish, PublishFails, coreData
<1>5. \A c : (Queued(c)' <=> Queued(c)) /\ (Replied(c)' <=> Replied(c))
  BY <1>4 DEF Queued, Replied, Held
<1>6. outcome \in [Command -> {"open", "answered", "rejected"}]
  BY DEF TypeInv, DeliveryInv
<1>7. status[b] # "none" /\ b \notin aired /\ outcome[b] # "rejected" /\ Placed(b)
  BY <1>3 DEF PlaceInv, Apart, Placed
<1>8. \A c \in Command \ {b} : Mapped(c)' = Mapped(c)
  BY <1>3, <1>4, <1>5, <1>6 DEF Mapped, Placed, Taken
<1>9. Mapped(b) = "taken"
  BY <1>3, <1>7 DEF Mapped, Taken
<1>10. CASE aired' = aired \cup {b} /\ outcome' = outcome
  <2>1. Mapped(b)' = "transmitted"
    BY <1>4, <1>7, <1>10 DEF Mapped
  <2> QED
    BY <1>3, <1>4, <1>8, <1>9, <1>10, <2>1, MovingIsAbstract
<1>11. CASE aired' = aired /\ outcome' = [outcome EXCEPT ![b] = "rejected"]
  <2>1. Mapped(b)' = "rejected"
    BY <1>3, <1>4, <1>6, <1>7, <1>11 DEF Mapped
  <2> QED
    BY <1>3, <1>4, <1>8, <1>9, <1>11, <2>1, MovingIsAbstract
<1> QED
  BY <1>4, <1>10, <1>11

\* A pull takes one command out of the queue, or loses what nobody waits for.
LEMMA ServePullIsAbstract ==
  ASSUME StageIsMapped, StageIsMapped', TypeInv, PlaceInv, NEW x \in calls, ServePullCommands(x)
  PROVE  AbstractStep
<1>1. UNCHANGED <<status, pushing, aired, outcome, got, loop>>
  BY DEF ServePullCommands, adapterState, adapterVars, deliveryVars
<1>2. \A c : Batched(c)' <=> Batched(c)
  BY <1>1 DEF Batched
<1>3. CASE queue[x.dev] = <<>> \/ Len(reply[x.no]) = MaxBatch
  <2>1. \A c : (Replied(c)' => Replied(c)) /\ (Queued(c)' <=> Queued(c))
    BY <1>3, AnsweredPullProperties DEF Queued, Held
  <2>2. \A c \in Command : Placed(c)' => Placed(c) /\ (Taken(c)' <=> Taken(c))
    BY <1>1, <1>2, <2>1 DEF PlaceInv, Apart, Placed, Taken
  <2>3. \A c \in Command : LosesOnly(c)
    BY <1>1, <2>2, FadingLoses
  <2> QED
    BY <1>1, <2>3, LosingIsAbstract
<1>4. CASE ~(queue[x.dev] = <<>> \/ Len(reply[x.no]) = MaxBatch)
  <2>1. PICK b : b = Head(queue[x.dev])
    OBVIOUS
  <2>2. /\ b \in Command /\ Queued(b)
        /\ \A c : /\ Queued(c)' <=> Queued(c) /\ c # b
                  /\ Replied(c)' <=> Replied(c) \/ c = b
    BY <1>4, <2>1, PopProperties
  <2>3. /\ status[b] # "none" /\ b \notin aired /\ outcome[b] # "rejected"
        /\ Placed(b) /\ ~Taken(b) /\ Placed(b)' /\ Taken(b)'
    BY <2>2 DEF PlaceInv, Apart, Placed, Taken
  <2>4. Mapped(b) = "waiting" /\ Mapped(b)' = "taken"
    BY <1>1, <2>3 DEF Mapped
  <2>5. \A c \in Command \ {b} : Mapped(c)' = Mapped(c)
    BY <1>1, <1>2, <2>2 DEF Mapped, Placed, Taken
  <2> QED
    BY <1>1, <2>2, <2>4, <2>5, MovingIsAbstract
<1> QED
  BY <1>3, <1>4

\* A new row submits its command.
LEMMA CreateIsAbstract ==
  ASSUME StageIsMapped, StageIsMapped', TypeInv, PlaceInv, NEW b \in Command, NEW d \in Device,
         CreateCommand(b, d), UNCHANGED <<adapterState, reply>>
  PROVE  AbstractStep
<1>1. /\ UNCHANGED <<queue, reply, aired, outcome, got, loop>>
      /\ status[b] = "none" /\ status' = [status EXCEPT ![b] = "queued"]
      /\ pushing' = pushing \cup {b} /\ status \in [Command -> Status]
  BY DEF CreateCommand, adapterState, adapterVars, deliveryVars, TypeInv, CoreInv, CoreTypeOK
<1>2. outcome[b] # "rejected" /\ b \notin aired /\ ~Placed(b)
  BY <1>1 DEF PlaceInv, Apart, TypeInv, DeliveryInv
<1>3. \A c : /\ Queued(c)' <=> Queued(c)
             /\ Replied(c)' <=> Replied(c)
             /\ Batched(c)' <=> Batched(c)
  BY <1>1 DEF Queued, Replied, Batched, Held
<1>4. Mapped(b) = "absent" /\ Mapped(b)' = "waiting"
  BY <1>1, <1>2, <1>3 DEF Mapped, Placed, Taken
<1>5. \A c \in Command \ {b} : Mapped(c)' = Mapped(c)
  BY <1>1, <1>3 DEF Mapped, Placed, Taken
<1> QED
  BY <1>1, <1>4, <1>5, MovingIsAbstract

\* The other steps at most lose messages: a push may push another one out.
LEMMA RestIsAbstract ==
  ASSUME StageIsMapped, StageIsMapped', TypeInv, PlaceInv,
         \/ LoopTimeout \/ RestartCore \/ Stop
         \/ \E x \in calls : Pulled(x)
         \/ /\ UNCHANGED <<adapterState, reply>>
            /\ \/ \E b \in Command : PushCommand(b)
               \/ \E x \in calls : ServeMark(x)
  PROVE  AbstractStep
<1> SUFFICES /\ UNCHANGED <<aired, outcome, got>>
             /\ \A c \in Command : /\ status'[c] = "none" <=> status[c] = "none"
                                   /\ Placed(c)' => Placed(c) /\ (Taken(c)' <=> Taken(c))
  BY FadingLoses, LosingIsAbstract
<1>1. CASE LoopTimeout \/ RestartCore \/ Stop
  <2>1. /\ UNCHANGED <<status, aired, outcome, got>>
        /\ \A c : /\ c \in pushing' => c \in pushing
                  /\ Queued(c)' => Queued(c)
                  /\ Replied(c)' => Replied(c)
                  /\ Batched(c)' => Batched(c)
    BY <1>1, LossKeepsPlaceInv
  <2> QED
    BY <2>1 DEF PlaceInv, Apart, Placed, Taken
<1>2. ASSUME NEW x \in calls, Pulled(x)
      PROVE  /\ UNCHANGED <<status, aired, outcome, got>>
             /\ \A c : (Placed(c)' <=> Placed(c)) /\ (Taken(c)' <=> Taken(c))
  BY <1>2, PulledKeepsPlaceInv
<1>3. ASSUME NEW b \in Command, PushCommand(b), UNCHANGED <<adapterState, reply>>
      PROVE  /\ UNCHANGED <<status, aired, outcome, got>>
             /\ \A c : Placed(c)' => Placed(c) /\ (Taken(c)' <=> Taken(c))
  <2>1. /\ UNCHANGED <<reply, aired, outcome, got, loop, status>>
        /\ b \in pushing /\ pushing' = pushing \ {b}
    BY <1>3 DEF PushCommand, adapterState, adapterVars, deliveryVars
  <2>2. \A c : Queued(c)' => Queued(c) \/ c = b
    BY <1>3, PushProperties
  <2>3. \A c : (Replied(c)' <=> Replied(c)) /\ (Batched(c)' <=> Batched(c))
    BY <2>1 DEF Replied, Batched, Held
  <2> QED
    BY <2>1, <2>2, <2>3 DEF Placed, Taken
<1>4. ASSUME NEW x \in calls, ServeMark(x), UNCHANGED <<adapterState, reply>>
      PROVE  /\ UNCHANGED <<aired, outcome, got>>
             /\ \A c \in Command : /\ status'[c] = "none" <=> status[c] = "none"
                                   /\ Placed(c)' => Placed(c) /\ (Taken(c)' <=> Taken(c))
  <2>1. UNCHANGED <<queue, reply, pushing, aired, outcome, got, loop>>
    BY <1>4 DEF ServeMark, adapterState, adapterVars, deliveryVars
  <2> QED
    BY <1>4, <2>1, ServeMarkProperties DEF Placed, Taken, Queued, Replied, Batched, Held
<1> QED
  BY <1>1, <1>2, <1>3, <1>4

\* An answer changes no stage: it neither confirms nor rejects.
LEMMA ReceiptIsAbstract ==
  ASSUME StageIsMapped, StageIsMapped', TypeInv, HandleReceipt
  PROVE  AbstractStep
<1>1. /\ UNCHANGED <<queue, reply, pushing, status, aired, got, loop>>
      /\ \A c \in Command : outcome'[c] = "rejected" <=> outcome[c] = "rejected"
  BY ReceiptProperties
<1>2. \A c \in Command : Mapped(c)' = Mapped(c)
  BY <1>1 DEF Mapped, Placed, Taken, Queued, Replied, Batched, Held
<1> QED
  BY <1>1, <1>2, LosingIsAbstract DEF LosesOnly

\* MQTT delivery implements CommandLifecycle without a second try: whatever pulls,
\* reports, answers and processes do, a command goes forward along its stages up
\* to its publish and never goes back to the queue.
THEOREM ImplementsOnce == Spec => OnceSpec
<1> DEFINE Inv == TypeInv /\ PlaceInv /\ StageIsMapped
<1>1. Spec => []Inv
  BY TypeInvAlways, PlaceInvAlways, StageOfIsMapped, PTL
<1>2. Init => Lifecycle!Init
  <2> SUFFICES ASSUME Init PROVE Lifecycle!Init
    OBVIOUS
  <2>1. \A c \in Command : StageOf(c) = "absent"
    BY DEF Init, CoreInit, StageOf
  <2> QED
    BY <2>1 DEF Lifecycle!Init, Init
<1>3. Inv /\ Inv' /\ [Next]_vars => [Lifecycle!Forward]_(Lifecycle!vars)
  <2> SUFFICES ASSUME Inv, Inv', [Next]_vars PROVE AbstractStep
    BY DEF AbstractStep
  <2> QED
    BY NextCases, QuietIsAbstract, ReceiptIsAbstract, PublishIsAbstract, ServePullIsAbstract,
       CreateIsAbstract, RestIsAbstract
<1> QED
  BY <1>1, <1>2, <1>3, PTL DEF Spec, OnceSpec, Lifecycle!OnceSpec

=============================================================================
