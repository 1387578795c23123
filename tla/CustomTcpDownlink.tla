-------------------------- MODULE CustomTcpDownlink --------------------------
(***************************************************************************)
(* Downlink delivery over the custom TCP protocol: the goroutine that      *)
(* serves each connection (customtcp/adapter.go, session.go), the device   *)
(* at the other end of the wire, and the Core of DownlinkCommands.         *)
(*                                                                         *)
(* A Client is one TCP connection, used once.  Its goroutine is            *)
(* sequential; every RPC it makes may time out after, before or while the  *)
(* Core executes it, so a request can outlive the caller that sent it.     *)
(***************************************************************************)
EXTENDS DownlinkCommands, FiniteSets

CONSTANTS
  CodeOf,      \* the protocol command code of each command
  Unsendable,  \* commands whose payload exceeds gosterwy.MaxPayloadSize
  MaxBatch,    \* DownlinkMaxBatch
  Fragile,     \* connections whose link may break
  FaultKinds,  \* the faults that may happen ...
  MaxFaults    \* ... and how many of them altogether

ASSUME BatchAssumption == MaxBatch \in Nat \ {0}
ASSUME FaultAssumption ==
  /\ FaultKinds \subseteq {"timeout", "dbError", "coreRestart", "ingressCrash", "shutdown"}
  /\ MaxFaults \in Nat
ASSUME ConnAssumption ==
  /\ Fragile \subseteq Client
  /\ Unsendable \subseteq Command

VARIABLES
  pc,           \* where the goroutine of a connection is
  device,       \* session.uuid
  held,         \* the local msg of the downlink loop
  target,       \* the UUID that came with the held or inflight message
  inflight,     \* session.inflight
  inflightSeq,  \* session.inflightSeq
  writeSeq,     \* writeSeq, counting the downlink frames only
  batch,        \* the index of the downlink loop
  wire,         \* downlink frames written and not yet received
  got,          \* downlink frames the device received, per connection
  ctxDone,      \* the adapter's context is cancelled
  faults,       \* faults so far
  outcome,      \* history: what the session concluded about a command
  aired         \* history: the commands whose frame was written

sessionVars == <<pc, device, held, target, inflight, inflightSeq, writeSeq, batch>>
linkVars == <<wire, got>>
processVars == <<ctxDone, faults>>
history == <<outcome, aired>>
vars == <<coreVars, sessionVars, linkVars, processVars, history>>

PC == {"none", "read", "pop", "pulling", "sending", "reporting", "closing",
       "requeueing", "closed"}
Frame == [cmd: Command, seq: Nat]

TypeOK ==
  /\ CoreTypeOK
  /\ pc \in [Client -> PC]
  /\ device \in [Client -> Device \cup {NoDevice}]
  /\ held \in [Client -> Command \cup {NoCommand}]
  /\ target \in [Client -> Device \cup {NoDevice}]
  /\ inflight \in [Client -> Command \cup {NoCommand}]
  /\ inflightSeq \in [Client -> Nat]
  /\ writeSeq \in [Client -> Nat]
  /\ batch \in [Client -> Nat]
  /\ wire \in [Client -> Seq(Frame)]
  /\ got \in [Client -> SUBSET Frame]
  /\ ctxDone \in BOOLEAN
  /\ faults \in 0 .. MaxFaults
  /\ outcome \in [Command -> {"open", "confirmed", "rejected"}]
  /\ aired \subseteq Command

Init ==
  /\ CoreInit
  /\ pc = [k \in Client |-> "none"]
  /\ device = [k \in Client |-> NoDevice]
  /\ held = [k \in Client |-> NoCommand]
  /\ target = [k \in Client |-> NoDevice]
  /\ inflight = [k \in Client |-> NoCommand]
  /\ inflightSeq = [k \in Client |-> 0]
  /\ writeSeq = [k \in Client |-> 0]
  /\ batch = [k \in Client |-> 0]
  /\ wire = [k \in Client |-> <<>>]
  /\ got = [k \in Client |-> {}]
  /\ ctxDone = FALSE
  /\ faults = 0
  /\ outcome = [c \in Command |-> "open"]
  /\ aired = {}

Goto(k, label) == pc' = [pc EXCEPT ![k] = label]

coreData == <<status, owner, queue, pushing>>

\* Where the goroutine goes on when its RPC returned an error.
AfterError(label) ==
  CASE label = "pulling"    -> "read"
    [] label = "reporting"  -> "pop"
    [] label = "requeueing" -> "closed"

\* An RPC with a context derived from the adapter's: once that is cancelled
\* the client library returns the error without sending anything.
Request(k, op, d, c, label) ==
  IF ctxDone
    THEN Goto(k, AfterError(label)) /\ UNCHANGED <<calls, attempt>>
    ELSE Goto(k, label) /\ Issue(k, op, d, c)

-----------------------------------------------------------------------------
(* The connection's goroutine.                                             *)

\* Accept, handshake, AUTH_VERIFY and its ACK: the session is bound to d and
\* falls through to the downlink loop.
Connect(k, d) ==
  /\ pc[k] = "none" /\ ~ctxDone
  /\ Goto(k, "pop")
  /\ device' = [device EXCEPT ![k] = d]
  /\ batch' = [batch EXCEPT ![k] = 0]
  /\ UNCHANGED <<coreVars, held, target, inflight, inflightSeq, writeSeq, linkVars,
                 processVars, history>>

\* A heartbeat or a report was read and answered.
ReadUplink(k) ==
  /\ pc[k] = "read"
  /\ Goto(k, "pop")
  /\ batch' = [batch EXCEPT ![k] = 0]
  /\ UNCHANGED <<coreVars, device, held, target, inflight, inflightSeq, writeSeq,
                 linkVars, processVars, history>>

\* A second AUTH_VERIFY or DEVICE_REGISTER on the same connection binds it to
\* another device; whatever is inflight stays.
Rebind(k, d) ==
  /\ pc[k] = "read"
  /\ Goto(k, "pop")
  /\ device' = [device EXCEPT ![k] = d]
  /\ batch' = [batch EXCEPT ![k] = 0]
  /\ UNCHANGED <<coreVars, held, target, inflight, inflightSeq, writeSeq,
                 linkVars, processVars, history>>

\* Faulty variants, to test the properties: the sequence number is not compared,
\* or compared with the next one.
BugAckAnySequence(k, f) ==
  /\ inflight[k] # NoCommand
  /\ CodeOf[inflight[k]] = CodeOf[f.cmd]

BugAckNextSequence(k, f) ==
  /\ inflight[k] # NoCommand
  /\ CodeOf[inflight[k]] = CodeOf[f.cmd]
  /\ inflightSeq[k] + 1 = f.seq

\* HandleDownlinkAck accepts the ACK f: the inflight command is of that type
\* and was written with that sequence number.
AckMatches(k, f) ==
  /\ inflight[k] # NoCommand
  /\ CodeOf[inflight[k]] = CodeOf[f.cmd]
  /\ inflightSeq[k] = f.seq

\* Faulty variant: session.inflight is not reset to nil.
BugClearInflight(k) ==
  /\ inflightSeq' = [inflightSeq EXCEPT ![k] = 0]
  /\ UNCHANGED inflight

ClearInflight(k) ==
  /\ inflight' = [inflight EXCEPT ![k] = NoCommand]
  /\ inflightSeq' = [inflightSeq EXCEPT ![k] = 0]

\* The device acknowledges a frame it received on this connection; it may be
\* late and it may repeat itself.
ReadAck(k, f) ==
  /\ pc[k] = "read"
  /\ f \in got[k]
  /\ batch' = [batch EXCEPT ![k] = 0]
  /\ IF AckMatches(k, f)
       THEN /\ ClearInflight(k)
            /\ outcome' = [outcome EXCEPT ![inflight[k]] = "confirmed"]
            /\ Request(k, "acked", device[k], inflight[k], "reporting")
       ELSE /\ Goto(k, "pop")
            /\ UNCHANGED <<calls, attempt, inflight, inflightSeq, outcome>>
  /\ UNCHANGED <<coreData, device, held, target, writeSeq, linkVars, processVars, aired>>

\* Read error, idle timeout, failed uplink ACK, ERROR_REPORT, closed socket.
ReadFails(k) ==
  /\ pc[k] = "read"
  /\ k \in Fragile \/ ctxDone
  /\ Goto(k, "closing")
  /\ UNCHANGED <<coreVars, device, held, target, inflight, inflightSeq, writeSeq,
                 batch, linkVars, processVars, history>>

\* Faulty variant: hasInflight is not asked.
BugPopCommand(k) ==
  /\ pc[k] = "pop"
  /\ IF batch[k] < MaxBatch
       THEN Request(k, "pull", device[k], NoCommand, "pulling")
       ELSE Goto(k, "read") /\ UNCHANGED <<calls, attempt>>
  /\ UNCHANGED <<coreData, device, held, target, inflight, inflightSeq, writeSeq,
                 batch, linkVars, processVars, history>>

\* One turn of the downlink loop up to PopCommand's PullCommands.
PopCommand(k) ==
  /\ pc[k] = "pop"
  /\ IF batch[k] < MaxBatch /\ inflight[k] = NoCommand
       THEN Request(k, "pull", device[k], NoCommand, "pulling")
       ELSE Goto(k, "read") /\ UNCHANGED <<calls, attempt>>
  /\ UNCHANGED <<coreData, device, held, target, inflight, inflightSeq, writeSeq,
                 batch, linkVars, processVars, history>>

\* PullCommands returns.
Popped(k, x) ==
  /\ pc[k] = "pulling"
  /\ x \in calls /\ x.from = k /\ Live(x) /\ x.stage = "answered"
  /\ Collect(x)
  /\ held' = [held EXCEPT ![k] = x.cmd]
  /\ target' = [target EXCEPT ![k] = x.dev]
  /\ Goto(k, IF x.cmd = NoCommand THEN "read" ELSE "sending")
  /\ UNCHANGED <<coreData, device, inflight, inflightSeq, writeSeq, batch,
                 linkVars, processVars, history>>

\* writeSeq++ and the end of this turn of the loop.
Spend(k) ==
  /\ writeSeq' = [writeSeq EXCEPT ![k] = @ + 1]
  /\ batch' = [batch EXCEPT ![k] = @ + 1]
  /\ held' = [held EXCEPT ![k] = NoCommand]

\* Pack fails: FailDownlink.
PackFails(k) ==
  /\ pc[k] = "sending" /\ held[k] \in Unsendable
  /\ Spend(k)
  /\ Request(k, "failed", target[k], held[k], "reporting")
  /\ outcome' = [outcome EXCEPT ![held[k]] = "rejected"]
  /\ UNCHANGED <<coreData, device, target, inflight, inflightSeq, linkVars,
                 processVars, aired>>

\* The frame is written: MarkDownlinkSent remembers it, then reports SENT.
WriteFrame(k) ==
  /\ pc[k] = "sending" /\ held[k] \notin Unsendable
  /\ Spend(k)
  /\ wire' = [wire EXCEPT ![k] = Append(@, [cmd |-> held[k], seq |-> writeSeq[k] + 1])]
  /\ inflight' = [inflight EXCEPT ![k] = held[k]]
  /\ inflightSeq' = [inflightSeq EXCEPT ![k] = writeSeq[k] + 1]
  /\ aired' = aired \cup {held[k]}
  /\ Request(k, "sent", target[k], held[k], "reporting")
  /\ UNCHANGED <<coreData, device, target, got, processVars, outcome>>

\* writeAll fails: RequeueDownlink with the adapter's context, then return.
WriteFails(k) ==
  /\ pc[k] = "sending" /\ held[k] \notin Unsendable
  /\ k \in Fragile \/ ctxDone
  /\ Spend(k)
  /\ Request(k, "requeue", target[k], held[k], "requeueing")
  /\ UNCHANGED <<coreData, device, target, inflight, inflightSeq, linkVars,
                 processVars, history>>

\* UpdateCommandStatus returns; its result is only logged.
Reported(k, x) ==
  /\ pc[k] = "reporting"
  /\ x \in calls /\ x.from = k /\ Live(x) /\ x.stage = "answered"
  /\ Collect(x)
  /\ Goto(k, "pop")
  /\ UNCHANGED <<coreData, device, held, target, inflight, inflightSeq, writeSeq,
                 batch, linkVars, processVars, history>>

\* Faulty variants of RequeueInflight: the result of takeInflight is not
\* checked; the session's device is used in place of the message's.
BugCloseUnchecked(k) ==
  /\ pc[k] = "closing"
  /\ Request(k, "requeue", target[k], inflight[k], "requeueing")
  /\ ClearInflight(k)
  /\ UNCHANGED <<coreData, device, held, target, writeSeq, batch, linkVars,
                 processVars, history>>

BugCloseOtherDevice(k) ==
  /\ pc[k] = "closing"
  /\ IF inflight[k] = NoCommand
       THEN Goto(k, "closed") /\ UNCHANGED <<calls, attempt>>
       ELSE Request(k, "requeue", device[k], inflight[k], "requeueing")
  /\ ClearInflight(k)
  /\ UNCHANGED <<coreData, device, held, target, writeSeq, batch, linkVars,
                 processVars, history>>

\* The deferred RequeueInflight: the inflight command is taken from the
\* session before the RPC is made.
Close(k) ==
  /\ pc[k] = "closing"
  /\ IF inflight[k] = NoCommand
       THEN Goto(k, "closed") /\ UNCHANGED <<calls, attempt>>
       ELSE Request(k, "requeue", target[k], inflight[k], "requeueing")
  /\ ClearInflight(k)
  /\ UNCHANGED <<coreData, device, held, target, writeSeq, batch, linkVars,
                 processVars, history>>

\* The requeue returns and the connection is gone.
Requeue(k, x) ==
  /\ pc[k] = "requeueing"
  /\ x \in calls /\ x.from = k /\ Live(x) /\ x.stage = "answered"
  /\ Collect(x)
  /\ Goto(k, "closed")
  /\ UNCHANGED <<coreData, device, held, target, inflight, inflightSeq, writeSeq,
                 batch, linkVars, processVars, history>>

-----------------------------------------------------------------------------
(* The device's end of the wire.                                           *)

\* A frame arrives, possibly after the server gave the connection up.
Receive(k) ==
  /\ wire[k] # <<>>
  /\ got' = [got EXCEPT ![k] = @ \cup {Head(wire[k])}]
  /\ wire' = [wire EXCEPT ![k] = Tail(@)]
  /\ UNCHANGED <<coreVars, sessionVars, processVars, history>>

\* The link breaks with the frames still in it.
LoseFrames(k) ==
  /\ wire[k] # <<>>
  /\ pc[k] \in {"closing", "requeueing", "closed"}
  /\ wire' = [wire EXCEPT ![k] = <<>>]
  /\ UNCHANGED <<coreVars, sessionVars, got, processVars, history>>

-----------------------------------------------------------------------------
(* Faults.                                                                 *)

Fault(kind) ==
  /\ kind \in FaultKinds /\ faults < MaxFaults
  /\ faults' = faults + 1

Awaiting == {"pulling", "reporting", "requeueing"}

\* An RPC exceeds RPCTimeout, or is cancelled with its context.
RpcError(k) ==
  /\ pc[k] \in Awaiting
  /\ \/ Fault("timeout")
     \/ ctxDone /\ UNCHANGED faults
  /\ Abandon({k})
  /\ Goto(k, AfterError(pc[k]))
  /\ UNCHANGED <<coreData, device, held, target, inflight, inflightSeq, writeSeq,
                 batch, linkVars, ctxDone, history>>

DatabaseError ==
  /\ Fault("dbError")
  /\ \E x \in calls : StoreError(x)
  /\ UNCHANGED <<sessionVars, linkVars, ctxDone, history>>

RestartCore ==
  /\ Fault("coreRestart")
  /\ CoreRestart
  /\ UNCHANGED <<sessionVars, linkVars, ctxDone, history>>

Connected == {k \in Client : pc[k] # "none"}

\* SIGTERM: the context is cancelled and every connection is closed.
Shutdown ==
  /\ Fault("shutdown")
  /\ ~ctxDone
  /\ ctxDone' = TRUE
  /\ UNCHANGED <<coreVars, sessionVars, linkVars, history>>

\* The ingress process ends and is started again: it is killed, or exits after
\* SIGTERM without waiting for its connections.  No deferred function runs any
\* more.
IngressExit ==
  /\ \/ Fault("ingressCrash")
     \/ ctxDone /\ UNCHANGED faults
  /\ Abandon(Connected)
  /\ pc' = [k \in Client |-> IF k \in Connected THEN "closed" ELSE pc[k]]
  /\ held' = [k \in Client |-> NoCommand]
  /\ inflight' = [k \in Client |-> NoCommand]
  /\ inflightSeq' = [k \in Client |-> 0]
  /\ ctxDone' = FALSE
  /\ UNCHANGED <<coreData, device, target, writeSeq, batch, linkVars, history>>

-----------------------------------------------------------------------------
CoreStep == CoreNext /\ UNCHANGED <<sessionVars, linkVars, processVars, history>>

Session(k) ==
  \/ \E d \in Device : Connect(k, d) \/ Rebind(k, d)
  \/ ReadUplink(k) \/ (\E f \in got[k] : ReadAck(k, f)) \/ ReadFails(k)
  \/ PopCommand(k)
  \/ PackFails(k) \/ WriteFrame(k) \/ WriteFails(k)
  \/ Close(k)
  \/ \E x \in calls : Popped(k, x) \/ Reported(k, x) \/ Requeue(k, x)

Link(k) == Receive(k) \/ LoseFrames(k)

Faults ==
  \/ \E k \in Client : RpcError(k)
  \/ DatabaseError \/ RestartCore \/ Shutdown \/ IngressExit

Next ==
  \/ CoreStep
  \/ \E k \in Client : Session(k) \/ Link(k)
  \/ Faults

Spec == Init /\ [][Next]_vars

\* The scheduler runs every goroutine that can run; a closed socket makes the
\* blocked read return; the device keeps reporting, reads what it is sent and
\* answers each frame sooner or later.  Nothing makes HTTP clients create
\* commands, links break or faults happen, and a device whose last connection
\* is gone dials again as long as there are connections left.
Fairness ==
  /\ WF_vars((\E c \in Command : PushCommand(c))
                /\ UNCHANGED <<sessionVars, linkVars, processVars, history>>)
  /\ \A k \in Client :
       /\ WF_vars(Session(k) /\ pc'[k] # "closing")
       /\ WF_vars((\E x \in {y \in calls : y.from = k} :
                     ServePull(x) \/ ServeMark(x) \/ ServeRequeue(x) \/ FinishRequeue(x))
                     /\ UNCHANGED <<sessionVars, linkVars, processVars, history>>)
       /\ SF_vars(\E f \in got[k] : AckMatches(k, f) /\ ReadAck(k, f))
       /\ WF_vars(Receive(k))

FairSpec == Spec /\ Fairness

-----------------------------------------------------------------------------
(* Properties.                                                             *)

\* The message of command c travels in call x.
Carries(x, c) ==
  /\ x.cmd = c
  /\ \/ x.op = "requeue" /\ x.stage = "issued"
     \/ x.op = "pull" /\ x.stage = "answered"

\* Everywhere the message of command c can be.
Places(c) ==
  {<<"pushing", b>> : b \in pushing \cap {c}} \cup
  (UNION {{<<"queue", d, i>> : i \in {j \in DOMAIN queue[d] : queue[d][j] = c}} :
            d \in Device}) \cup
  {<<"call", x>> : x \in {y \in calls : Carries(y, c)}} \cup
  {<<"held", k>> : k \in {j \in Client : held[j] = c}} \cup
  {<<"inflight", k>> : k \in {j \in Client : inflight[j] = c}}

\* A command is never in two places at once: popping, requeueing, timing out
\* and restarting move or lose its message and never copy it.  Once the device
\* has confirmed it, or it could not be packed, it is in no place at all and
\* cannot be delivered again.
OneCopyUntilSettled ==
  \A c \in Command :
    /\ \A p, q \in Places(c) : p = q
    /\ outcome[c] # "open" => Places(c) = {}

\* The row says "acked" only of a command the device received: a late,
\* repeated or mismatched ACK never confirms another command.
AckedWasReceived ==
  \A c \in Command :
    status[c] = "acked" => \E k \in Client : \E f \in got[k] : f.cmd = c

\* On a connection that is still served at most one frame is unacknowledged,
\* and it is the one the session waits for.
StopAndWait ==
  \A k \in Client :
    /\ Len(wire[k]) <= 1
    /\ wire[k] # <<>> /\ pc[k] \notin {"closing", "requeueing", "closed"} =>
         /\ inflight[k] = wire[k][1].cmd
         /\ inflightSeq[k] = wire[k][1].seq

\* A queue never outgrows its capacity, so Requeue never has to return
\* ErrDownlinkQueueFull: the retried message always finds room.
RequeueNeverRefused == \A d \in Device : ~RequeueRefused(queue[d], Capacity)

\* No status RPC about command c is under way.
Quiet(c) == \A x \in calls : x.cmd = c => x.op = "pull"

\* While no RPC fails, the row of a command about which no status RPC is under
\* way tells how it ended and, until then, whether a session waits for its ACK.
\* The one lie left is "queued": the UPDATE that ends a requeue may come after
\* another connection has already popped, sent and confirmed the command.
RowAgrees ==
  faults = 0 => \A c \in Command : Quiet(c) =>
    /\ status[c] \in {"acked", "failed"} =>
         outcome[c] = IF status[c] = "acked" THEN "confirmed" ELSE "rejected"
    /\ outcome[c] = "confirmed" => status[c] \in {"acked", "queued"}
    /\ status[c] = "sent" => c \in EmptyPayload \/ \E k \in Client : inflight[k] = c

\* No queue can be full when another command comes.
RoomForAll == Capacity = 0 \/ (IsFiniteSet(Command) /\ Cardinality(Command) <= Capacity)

\* With room in the queue and no faults no command that can be requeued is
\* lost, however often its connection breaks: until it is settled its message
\* is somewhere.  And it stays with the device it was created for, also when its
\* connection is bound to another device half-way (session.go:333-360).
KeptForOwner ==
  /\ faults = 0 /\ RoomForAll => \A c \in Command \ EmptyPayload :
       status[c] # "none" /\ outcome[c] = "open" => Places(c) # {}
  /\ \A d \in Device : \A c \in Waiting(queue[d]) : owner[c] = d
  /\ \A k \in Client : held[k] # NoCommand => owner[held[k]] = device[k]

\* Every command that is created is settled in the end if the device keeps a
\* working connection.
EventuallySettled ==
  \A c \in Command : status[c] # "none" ~> outcome[c] # "open"

-----------------------------------------------------------------------------
(* The delivery of custom TCP implements CommandLifecycle.                 *)

AtCore(p) == p[1] = "queue" \/ p[1] = "pushing" \/ (p[1] = "call" /\ p[2].op = "requeue")

\* The stage of a command: where its message is, or how it ended.
StageOf(c) ==
  IF status[c] = "none" THEN "absent"
  ELSE IF outcome[c] # "open" THEN outcome[c]
  ELSE IF Places(c) = {} THEN "lost"
  ELSE IF \E p \in Places(c) : AtCore(p) THEN "waiting"
  ELSE IF \E k \in Client : inflight[k] = c THEN "transmitted"
  ELSE "taken"

ReceivedOn(k) == {f.cmd : f \in got[k]}

Lifecycle == INSTANCE CommandLifecycle WITH
  stage <- [c \in Command |-> StageOf(c)],
  onAir <- aired,
  received <- UNION {ReceivedOn(k) : k \in Client}

LifecycleSpec == Lifecycle!Spec

=============================================================================
