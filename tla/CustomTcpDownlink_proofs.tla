----------------------- MODULE CustomTcpDownlink_proofs -----------------------
(***************************************************************************)
(* Proofs about CustomTcpDownlink, for any devices, commands, connections, *)
(* capacities and numbers of faults.                                       *)
(***************************************************************************)
EXTENDS CustomTcpDownlink, SequenceTheorems, TLAPS

-----------------------------------------------------------------------------
(* What the queue operations return.                                       *)

\* Enqueue of message_queue.go keeps a queue a queue and within its capacity.
LEMMA EnqueuedProperties ==
  ASSUME NEW S, NEW q \in Seq(S), NEW m \in S, NEW cap \in Nat
  PROVE  /\ Enqueued(q, m, cap) \in Seq(S)
         /\ (cap > 0 => Len(q) <= cap) =>
              (cap > 0 => Len(Enqueued(q, m, cap)) <= cap)
<1>1. CASE QueueFull(q, cap)
  <2>1. q # <<>> /\ Len(q) > 0
    BY <1>1 DEF QueueFull
  <2>2. Tail(q) \in Seq(S) /\ Len(Tail(q)) = Len(q) - 1
    BY <2>1
  <2>3. Append(Tail(q), m) \in Seq(S) /\ Len(Append(Tail(q), m)) = Len(q)
    BY <2>2
  <2> QED
    BY <1>1, <2>3 DEF Enqueued
<1>2. CASE ~QueueFull(q, cap)
  <2>1. Append(q, m) \in Seq(S) /\ Len(Append(q, m)) = Len(q) + 1
    OBVIOUS
  <2> QED
    BY <1>2, <2>1 DEF Enqueued, QueueFull
<1> QED
  BY <1>1, <1>2

\* The first n messages of a queue.
LEMMA PrefixProperties ==
  ASSUME NEW S, NEW q \in Seq(S), NEW n \in Nat, n <= Len(q)
  PROVE  SubSeq(q, 1, n) \in Seq(S) /\ Len(SubSeq(q, 1, n)) = n
<1>1. 1 \in Int /\ n \in Int /\ \A i \in 1 .. n : q[i] \in S
  OBVIOUS
<1> QED
  BY <1>1, SubSeqProperties

\* Trimming a full queue shortens it by one message and changes nothing else.
LEMMA TrimmedProperties ==
  ASSUME NEW S, NEW q \in Seq(S), NEW cap \in Nat
  PROVE  /\ Trimmed(q, cap) \in Seq(S)
         /\ Len(Trimmed(q, cap)) = IF QueueFull(q, cap) THEN Len(q) - 1 ELSE Len(q)
<1>1. CASE QueueFull(q, cap)
  <2>1. Len(q) \in Nat /\ Len(q) > 0
    BY <1>1 DEF QueueFull
  <2>2. Len(q) - 1 \in Nat /\ Len(q) - 1 <= Len(q)
    BY <2>1
  <2>3. /\ SubSeq(q, 1, Len(q) - 1) \in Seq(S)
        /\ Len(SubSeq(q, 1, Len(q) - 1)) = Len(q) - 1
    BY <2>2, PrefixProperties
  <2> QED
    BY <1>1, <2>3 DEF Trimmed
<1>2. CASE ~QueueFull(q, cap)
  BY <1>2 DEF Trimmed
<1> QED
  BY <1>1, <1>2

\* A queue within its capacity always has room for a retried message.
LEMMA BoundedIsNeverRefused ==
  ASSUME NEW S, NEW q \in Seq(S), NEW cap \in Nat, cap > 0 => Len(q) <= cap
  PROVE  ~RequeueRefused(q, cap)
BY TrimmedProperties DEF RequeueRefused, QueueFull

\* Requeue of message_queue.go keeps a queue a queue and within its capacity.
LEMMA RequeuedProperties ==
  ASSUME NEW S, NEW q \in Seq(S), NEW m \in S, NEW cap \in Nat
  PROVE  /\ Requeued(q, m, cap) \in Seq(S)
         /\ (cap > 0 => Len(q) <= cap) =>
              (cap > 0 => Len(Requeued(q, m, cap)) <= cap)
<1>1. /\ Trimmed(q, cap) \in Seq(S)
      /\ Len(Trimmed(q, cap)) = IF QueueFull(q, cap) THEN Len(q) - 1 ELSE Len(q)
  BY TrimmedProperties
<1>2. /\ <<m>> \o Trimmed(q, cap) \in Seq(S)
      /\ Len(<<m>> \o Trimmed(q, cap)) = 1 + Len(Trimmed(q, cap))
  BY <1>1, ConcatProperties
<1> QED
  BY <1>1, <1>2 DEF Requeued, RequeueRefused, QueueFull

-----------------------------------------------------------------------------
(* Type correctness.                                                       *)

\* What the Core's handlers need of the calls they serve.
CallsServable ==
  \A x \in calls :
    /\ x.op # "pull" /\ x.stage # "answered" => x.cmd \in Command
    /\ x.stage = "pushed" => x.op = "requeue"

PushingOwned == \A c \in pushing : owner[c] \in Device

CoreInv == CoreTypeOK /\ CallsServable /\ PushingOwned

\* The part of TypeOK that speaks of the connections, their links and the
\* process.
SessionTypeOK ==
  /\ pc \in [Client -> PC]
  /\ device \in [Client -> Device \cup {NoDevice}]
  /\ held \in [Client -> Command \cup {NoCommand}]
  /\ target \in [Client -> Device \cup {NoDevice}]
  /\ inflight \in [Client -> Command \cup {NoCommand}]
  /\ inflightSeq \in [Client -> Nat]
  /\ writeSeq \in [Client -> Nat]
  /\ batch \in [Client -> Nat]
  /\ wire \in [Client -> Seq(Frame)]
  /\ got \in [Client -> SUBSET Frame]
  /\ ctxDone \in BOOLEAN
  /\ faults \in 0 .. MaxFaults
  /\ outcome \in [Command -> {"open", "confirmed", "rejected"}]
  /\ aired \subseteq Command

\* A connection that was served is bound to a device, a command it has in
\* hand came with a device, and it writes only what it holds.
BoundToDevice == \A k \in Client : pc[k] # "none" => device[k] \in Device

MessageHasTarget ==
  \A k \in Client :
    held[k] # NoCommand \/ inflight[k] # NoCommand => target[k] \in Device

SendingHolds == \A k \in Client : pc[k] = "sending" => held[k] \in Command

SessionInv == SessionTypeOK /\ BoundToDevice /\ MessageHasTarget /\ SendingHolds

\* A client's request keeps the Core's state well-formed.
LEMMA IssueKeepsCore ==
  ASSUME CoreInv, UNCHANGED coreData,
         NEW k \in Client, NEW d \in Device, NEW c \in Command \cup {NoCommand},
         NEW op \in {"pull", "sent", "acked", "failed", "requeue"},
         op # "pull" => c \in Command,
         Issue(k, op, d, c)
  PROVE  CoreInv'
<1> DEFINE x == [from |-> k, no |-> attempt[k], op |-> op,
                 dev |-> d, cmd |-> c, stage |-> "issued"]
<1>1. x \in Call
  BY DEF CoreInv, CoreTypeOK, Call
<1>2. calls' = calls \cup {x} /\ attempt' = attempt
  BY DEF Issue
<1>3. CoreTypeOK'
  BY <1>1, <1>2 DEF CoreInv, CoreTypeOK, coreData
<1>4. CallsServable'
  BY <1>2 DEF CoreInv, CallsServable
<1> QED
  BY <1>3, <1>4 DEF CoreInv, PushingOwned, coreData

\* So does taking a response, ...
LEMMA CollectKeepsCore ==
  ASSUME CoreInv, UNCHANGED coreData, NEW x, Collect(x)
  PROVE  CoreInv'
BY DEF CoreInv, CoreTypeOK, CallsServable, PushingOwned, coreData, Collect

\* ... giving a call up, ...
LEMMA AbandonKeepsCore ==
  ASSUME CoreInv, UNCHANGED coreData, NEW K, Abandon(K)
  PROVE  CoreInv'
<1>1. calls' \subseteq calls /\ attempt' \in [Client -> Nat]
  BY DEF CoreInv, CoreTypeOK, Abandon
<1> QED
  BY <1>1 DEF CoreInv, CoreTypeOK, CallsServable, PushingOwned, coreData

\* ... and an answer to a call.
LEMMA AnswerKeepsCalls ==
  ASSUME calls \subseteq Call, CallsServable,
         NEW x \in calls, NEW c \in Command \cup {NoCommand}, calls' = Answer(x, c)
  PROVE  (calls \subseteq Call)' /\ CallsServable'
<1> DEFINE y == [x EXCEPT !.stage = "answered", !.cmd = c]
<1>1. y \in Call /\ y.stage = "answered"
  BY DEF Call
<1>2. calls' \subseteq calls \cup {y}
  BY DEF Answer
<1> QED
  BY <1>1, <1>2 DEF CallsServable

\* The steps of the Core keep its state well-formed.
LEMMA CoreNextKeepsCore ==
  ASSUME CoreInv, CoreNext
  PROVE  CoreInv'
<1> USE DEF CoreInv
<1> USE CapacityAssumption, DistinctAssumption
<1>1. ASSUME NEW c \in Command, NEW d \in Device, CreateCommand(c, d)
      PROVE  CoreInv'
  BY <1>1 DEF CreateCommand, CoreTypeOK, CallsServable, PushingOwned, Status
<1>2. ASSUME NEW c \in Command, PushCommand(c)
      PROVE  CoreInv'
  <2>1. owner[c] \in Device /\ queue[owner[c]] \in Seq(Command)
    BY <1>2 DEF PushCommand, CoreTypeOK, PushingOwned
  <2>2. Enqueued(queue[owner[c]], c, Capacity) \in Seq(Command)
    BY <2>1, EnqueuedProperties
  <2> QED
    BY <1>2, <2>1, <2>2 DEF PushCommand, CoreTypeOK, CallsServable, PushingOwned
<1>3. ASSUME NEW x \in calls, ServePull(x)
      PROVE  CoreInv'
  <2>1. x.dev \in Device /\ queue[x.dev] \in Seq(Command)
    BY DEF CoreTypeOK, Call
  <2>2. CASE queue[x.dev] = <<>>
    <3>1. (calls \subseteq Call)' /\ CallsServable'
      BY <1>3, <2>2, AnswerKeepsCalls DEF ServePull, CoreTypeOK
    <3> QED
      BY <1>3, <2>2, <3>1 DEF ServePull, CoreTypeOK, PushingOwned
  <2>3. CASE queue[x.dev] # <<>>
    <3>1. Head(queue[x.dev]) \in Command /\ Tail(queue[x.dev]) \in Seq(Command)
      BY <2>1, <2>3
    <3>2. (calls \subseteq Call)' /\ CallsServable'
      BY <1>3, <2>3, <3>1, AnswerKeepsCalls DEF ServePull, CoreTypeOK
    <3>3. queue' \in [Device -> Seq(Command)]
      BY <1>3, <2>1, <2>3, <3>1 DEF ServePull, CoreTypeOK
    <3> QED
      BY <1>3, <3>2, <3>3 DEF ServePull, CoreTypeOK, PushingOwned
  <2> QED
    BY <2>2, <2>3
<1>4. ASSUME NEW x \in calls, ServeMark(x)
      PROVE  CoreInv'
  <2>1. x.cmd \in Command
    BY <1>4 DEF ServeMark, CallsServable
  <2>2. (calls \subseteq Call)' /\ CallsServable'
    BY <1>4, <2>1, AnswerKeepsCalls DEF ServeMark, CoreTypeOK
  <2> QED
    BY <1>4, <2>1, <2>2 DEF ServeMark, CoreTypeOK, PushingOwned, Status
<1>5. ASSUME NEW x \in calls, ServeRequeue(x)
      PROVE  CoreInv'
  <2>1. x.cmd \in Command /\ x.dev \in Device /\ queue[x.dev] \in Seq(Command)
    BY <1>5 DEF ServeRequeue, CallsServable, CoreTypeOK, Call
  <2>2. (calls \subseteq Call)' /\ CallsServable'
    <3>1. CASE calls' = Answer(x, x.cmd)
      BY <2>1, <3>1, AnswerKeepsCalls DEF CoreTypeOK
    <3>2. CASE calls' = (calls \ {x}) \cup {[x EXCEPT !.stage = "pushed"]}
      <4> DEFINE y == [x EXCEPT !.stage = "pushed"]
      <4>1. y \in Call /\ y.stage = "pushed" /\ y.op = "requeue" /\ y.cmd = x.cmd
        BY <1>5 DEF ServeRequeue, CoreTypeOK, Call
      <4> QED
        BY <2>1, <3>2, <4>1 DEF CallsServable, CoreTypeOK
    <3> QED
      BY <1>5, <3>1, <3>2 DEF ServeRequeue
  <2>3. Requeued(queue[x.dev], x.cmd, Capacity) \in Seq(Command)
    BY <2>1, RequeuedProperties
  <2>4. queue' \in [Device -> Seq(Command)] /\ status' \in [Command -> Status]
    BY <1>5, <2>1, <2>3 DEF ServeRequeue, CoreTypeOK, Status
  <2> QED
    BY <1>5, <2>2, <2>4 DEF ServeRequeue, CoreTypeOK, PushingOwned
<1>6. ASSUME NEW x \in calls, FinishRequeue(x)
      PROVE  CoreInv'
  <2>1. x.cmd \in Command
    BY <1>6 DEF FinishRequeue, CallsServable
  <2>2. (calls \subseteq Call)' /\ CallsServable'
    BY <1>6, <2>1, AnswerKeepsCalls DEF FinishRequeue, CoreTypeOK
  <2> QED
    BY <1>6, <2>1, <2>2 DEF FinishRequeue, CoreTypeOK, PushingOwned, Status
<1>7. ASSUME NEW x \in calls, LoseRequest(x)
      PROVE  CoreInv'
  BY <1>7 DEF LoseRequest, CoreTypeOK, CallsServable, PushingOwned
<1> QED
  BY <1>1, <1>2, <1>3, <1>4, <1>5, <1>6, <1>7 DEF CoreNext

\* A database error keeps the Core's state well-formed, ...
LEMMA StoreErrorKeepsCore ==
  ASSUME CoreInv, NEW x \in calls, StoreError(x)
  PROVE  CoreInv'
<1>1. x.cmd \in Command
  BY DEF StoreError, CoreInv, CallsServable
<1>2. (calls \subseteq Call)' /\ CallsServable'
  BY <1>1, AnswerKeepsCalls DEF StoreError, CoreInv, CoreTypeOK
<1> QED
  BY <1>2 DEF StoreError, CoreInv, CoreTypeOK, PushingOwned

\* ... and so does a restart of the Core.
LEMMA CoreRestartKeepsCore ==
  ASSUME CoreInv, CoreRestart
  PROVE  CoreInv'
<1>1. \A x \in calls :
        /\ [x EXCEPT !.stage = "answered", !.cmd = NoCommand] \in Call
        /\ [x EXCEPT !.stage = "answered", !.cmd = NoCommand].stage = "answered"
  BY DEF CoreInv, CoreTypeOK, Call
<1>2. (calls \subseteq Call)' /\ CallsServable'
  <2>1. \A x \in calls' :
          \/ x \in calls
          \/ x \in Call /\ x.stage = "answered"
    BY <1>1 DEF CoreRestart
  <2> QED
    BY <2>1 DEF CoreInv, CoreTypeOK, CallsServable
<1>3. queue' \in [Device -> Seq(Command)]
  <2>1. <<>> \in Seq(Command)
    OBVIOUS
  <2> QED
    BY <2>1 DEF CoreRestart
<1> QED
  BY <1>2, <1>3 DEF CoreRestart, CoreInv, CoreTypeOK, PushingOwned

\* A goroutine's RPC: it waits for the answer, or goes on with an error.
LEMMA RequestProperties ==
  ASSUME CoreInv, UNCHANGED coreData,
         pc \in [Client -> PC], NEW k \in Client, NEW d \in Device,
         NEW c \in Command \cup {NoCommand},
         NEW op \in {"pull", "sent", "acked", "failed", "requeue"},
         op # "pull" => c \in Command,
         NEW label \in Awaiting,
         Request(k, op, d, c, label)
  PROVE  /\ CoreInv'
         /\ pc' \in [Client -> PC]
         /\ \A j \in Client : IF j = k THEN pc'[j] \notin {"none", "sending"} ELSE pc'[j] = pc[j]
<1>1. CASE ctxDone
  <2>1. CoreInv'
    BY <1>1 DEF Request, CoreInv, CoreTypeOK, CallsServable, PushingOwned, coreData
  <2>2. AfterError(label) \in PC \ {"none", "sending"}
    BY DEF Awaiting, AfterError, PC
  <2> QED
    BY <1>1, <2>1, <2>2 DEF Request, Goto
<1>2. CASE ~ctxDone
  <2>1. CoreInv'
    BY <1>2, IssueKeepsCore DEF Request
  <2>2. label \in PC \ {"none", "sending"}
    BY DEF Awaiting, PC
  <2> QED
    BY <1>2, <2>1, <2>2 DEF Request, Goto
<1> QED
  BY <1>1, <1>2

TypeInv == CoreInv /\ SessionInv

\* The processes start in a well-formed state, ...
LEMMA TypeInvInit == Init => TypeInv
<1> SUFFICES ASSUME Init PROVE TypeInv
  OBVIOUS
<1>1. CoreInv
  BY DEF Init, CoreInit, CoreInv, CoreTypeOK, CallsServable, PushingOwned, Status
<1>2. SessionTypeOK
  <2>1. <<>> \in Seq(Frame) /\ 0 \in 0 .. MaxFaults
    BY FaultAssumption
  <2> QED
    BY <2>1 DEF Init, SessionTypeOK, PC
<1> QED
  BY <1>1, <1>2, DistinctAssumption
  DEF Init, TypeInv, SessionInv, BoundToDevice, MessageHasTarget, SendingHolds

\* A step of a connection's goroutine keeps the state well-formed.
LEMMA SessionKeepsTypeInv ==
  ASSUME TypeInv, NEW k \in Client, Session(k)
  PROVE  TypeInv'
<1> USE DEF TypeInv, SessionInv, SessionTypeOK, BoundToDevice, MessageHasTarget, SendingHolds
<1> USE DistinctAssumption
<1>1. ASSUME NEW d \in Device, Connect(k, d) \/ Rebind(k, d)
      PROVE  TypeInv'
  <2>1. CoreInv'
    BY <1>1 DEF Connect, Rebind, coreVars, CoreInv, CoreTypeOK, CallsServable, PushingOwned
  <2>2. /\ UNCHANGED <<held, target, inflight, inflightSeq, writeSeq, wire, got,
                       ctxDone, faults, outcome, aired>>
        /\ pc' = [pc EXCEPT ![k] = "pop"]
        /\ device' = [device EXCEPT ![k] = d]
        /\ batch' = [batch EXCEPT ![k] = 0]
    BY <1>1 DEF Connect, Rebind, Goto, linkVars, processVars, history
  <2> QED
    BY <2>1, <2>2 DEF PC
<1>2. CASE ReadUplink(k) \/ ReadFails(k)
  <2>1. CoreInv'
    BY <1>2 DEF ReadUplink, ReadFails, coreVars, CoreInv, CoreTypeOK, CallsServable, PushingOwned
  <2>2. /\ UNCHANGED <<device, held, target, inflight, inflightSeq, writeSeq, wire, got,
                       ctxDone, faults, outcome, aired>>
    BY <1>2 DEF ReadUplink, ReadFails, linkVars, processVars, history
  <2>3. /\ pc' \in [Client -> PC] /\ batch' \in [Client -> Nat]
        /\ \A j \in Client : pc'[j] = pc[j] \/ (pc[j] = "read" /\ pc'[j] # "sending")
    <3>1. CASE ReadUplink(k)
      BY <3>1 DEF ReadUplink, Goto, PC
    <3>2. CASE ReadFails(k)
      BY <3>2 DEF ReadFails, Goto, PC
    <3> QED
      BY <1>2, <3>1, <3>2
  <2> QED
    BY <2>1, <2>2, <2>3
<1>3. ASSUME NEW f \in got[k], ReadAck(k, f)
      PROVE  TypeInv'
  <2>1. CASE AckMatches(k, f)
    <3>1. inflight[k] \in Command /\ device[k] \in Device
      BY <1>3, <2>1 DEF AckMatches, ReadAck
    <3>2. /\ UNCHANGED coreData
          /\ Request(k, "acked", device[k], inflight[k], "reporting")
      BY <1>3, <2>1 DEF ReadAck
    <3>3. /\ CoreInv'
          /\ pc' \in [Client -> PC]
          /\ \A j \in Client : IF j = k THEN pc'[j] \notin {"none", "sending"} ELSE pc'[j] = pc[j]
      BY <3>1, <3>2, RequestProperties DEF Awaiting
    <3>4. /\ UNCHANGED <<device, held, target, writeSeq, wire, got, ctxDone, faults, aired>>
          /\ batch' = [batch EXCEPT ![k] = 0]
          /\ inflight' = [inflight EXCEPT ![k] = NoCommand]
          /\ inflightSeq' = [inflightSeq EXCEPT ![k] = 0]
          /\ outcome' = [outcome EXCEPT ![inflight[k]] = "confirmed"]
      BY <1>3, <2>1 DEF ReadAck, ClearInflight, linkVars, processVars
    <3>5. pc[k] # "none"
      BY <1>3 DEF ReadAck
    <3> QED
      BY <3>1, <3>3, <3>4, <3>5
  <2>2. CASE ~AckMatches(k, f)
    <3>1. CoreInv'
      BY <1>3, <2>2 DEF ReadAck, coreData, CoreInv, CoreTypeOK, CallsServable, PushingOwned
    <3> QED
      BY <1>3, <2>2, <3>1 DEF ReadAck, Goto, linkVars, processVars, PC
  <2> QED
    BY <2>1, <2>2
<1>4. CASE PopCommand(k)
  <2>1. UNCHANGED <<device, held, target, inflight, inflightSeq, writeSeq, batch,
                    wire, got, ctxDone, faults, outcome, aired>>
    BY <1>4 DEF PopCommand, linkVars, processVars, history
  <2>2. CASE Request(k, "pull", device[k], NoCommand, "pulling")
    <3>1. device[k] \in Device /\ UNCHANGED coreData
      BY <1>4 DEF PopCommand
    <3>2. /\ CoreInv'
          /\ pc' \in [Client -> PC]
          /\ \A j \in Client : IF j = k THEN pc'[j] \notin {"none", "sending"} ELSE pc'[j] = pc[j]
      BY <2>2, <3>1, RequestProperties DEF Awaiting
    <3> QED
      BY <1>4, <2>1, <3>1, <3>2 DEF PopCommand
  <2>3. CASE Goto(k, "read") /\ UNCHANGED <<calls, attempt>>
    <3>1. CoreInv'
      BY <1>4, <2>3 DEF PopCommand, coreData, CoreInv, CoreTypeOK, CallsServable, PushingOwned
    <3> QED
      BY <1>4, <2>1, <2>3, <3>1 DEF PopCommand, Goto, PC
  <2> QED
    BY <1>4, <2>2, <2>3 DEF PopCommand
<1>5. ASSUME NEW x \in calls, Popped(k, x)
      PROVE  TypeInv'
  <2>1. CoreInv'
    BY <1>5, CollectKeepsCore DEF Popped
  <2>2. x.dev \in Device /\ x.cmd \in Command \cup {NoCommand}
    BY DEF CoreInv, CoreTypeOK, Call
  <2> QED
    BY <1>5, <2>1, <2>2 DEF Popped, Goto, linkVars, processVars, history, PC
<1>6. ASSUME NEW x \in calls, Reported(k, x) \/ Requeue(k, x)
      PROVE  TypeInv'
  <2>1. CoreInv'
    BY <1>6, CollectKeepsCore DEF Reported, Requeue
  <2> QED
    BY <1>6, <2>1 DEF Reported, Requeue, Goto, linkVars, processVars, history, PC
<1>7. CASE PackFails(k) \/ WriteFrame(k) \/ WriteFails(k)
  <2>1. held[k] \in Command /\ target[k] \in Device /\ device[k] \in Device /\ pc[k] # "none"
    BY <1>7 DEF PackFails, WriteFrame, WriteFails
  <2>2. UNCHANGED coreData /\ \E op \in {"failed", "sent", "requeue"} :
          \E label \in Awaiting : Request(k, op, target[k], held[k], label)
    BY <1>7 DEF PackFails, WriteFrame, WriteFails, Awaiting
  <2>3. /\ CoreInv'
        /\ pc' \in [Client -> PC]
        /\ \A j \in Client : IF j = k THEN pc'[j] \notin {"none", "sending"} ELSE pc'[j] = pc[j]
    BY <2>1, <2>2, RequestProperties
  <2>4. /\ writeSeq' \in [Client -> Nat] /\ batch' \in [Client -> Nat]
        /\ held' = [held EXCEPT ![k] = NoCommand]
        /\ UNCHANGED <<device, target, got, ctxDone, faults>>
    <3>1. Spend(k) /\ UNCHANGED <<device, target, got, ctxDone, faults>>
      BY <1>7 DEF PackFails, WriteFrame, WriteFails, linkVars, processVars
    <3> QED
      BY <3>1 DEF Spend
  <2>5. /\ wire' \in [Client -> Seq(Frame)]
        /\ inflightSeq' \in [Client -> Nat]
        /\ inflight' \in [Client -> Command \cup {NoCommand}]
        /\ \A j \in Client : inflight'[j] = inflight[j] \/ (j = k /\ target[j] \in Device)
        /\ outcome' \in [Command -> {"open", "confirmed", "rejected"}]
        /\ aired' \subseteq Command
    <3>1. [cmd |-> held[k], seq |-> writeSeq[k] + 1] \in Frame
      BY <2>1 DEF Frame
    <3>2. CASE PackFails(k)
      BY <2>1, <3>2 DEF PackFails, linkVars
    <3>3. CASE WriteFrame(k)
      BY <2>1, <3>1, <3>3 DEF WriteFrame
    <3>4. CASE WriteFails(k)
      BY <3>4 DEF WriteFails, linkVars, history
    <3> QED
      BY <1>7, <3>2, <3>3, <3>4
  <2>6. SessionTypeOK'
    BY <2>3, <2>4, <2>5
  <2>7. BoundToDevice'
    BY <2>1, <2>3, <2>4
  <2>8. MessageHasTarget'
    BY <2>1, <2>4, <2>5
  <2>9. SendingHolds'
    BY <2>3, <2>4
  <2> QED
    BY <2>3, <2>6, <2>7, <2>8, <2>9
<1>8. CASE Close(k)
  <2>1. /\ UNCHANGED <<device, held, target, writeSeq, batch, wire, got, ctxDone, faults,
                       outcome, aired>>
        /\ inflight' = [inflight EXCEPT ![k] = NoCommand]
        /\ inflightSeq' = [inflightSeq EXCEPT ![k] = 0]
    BY <1>8 DEF Close, ClearInflight, linkVars, processVars, history
  <2>2. CASE inflight[k] = NoCommand
    <3>1. CoreInv'
      BY <1>8, <2>2 DEF Close, coreData, CoreInv, CoreTypeOK, CallsServable, PushingOwned
    <3> QED
      BY <1>8, <2>1, <2>2, <3>1 DEF Close, Goto, PC
  <2>3. CASE inflight[k] # NoCommand
    <3>1. /\ inflight[k] \in Command /\ target[k] \in Device
          /\ UNCHANGED coreData
          /\ Request(k, "requeue", target[k], inflight[k], "requeueing")
      BY <1>8, <2>3 DEF Close
    <3>2. /\ CoreInv'
          /\ pc' \in [Client -> PC]
          /\ \A j \in Client : IF j = k THEN pc'[j] \notin {"none", "sending"} ELSE pc'[j] = pc[j]
      BY <3>1, RequestProperties DEF Awaiting
    <3> QED
      BY <1>8, <2>1, <3>1, <3>2 DEF Close
  <2> QED
    BY <2>2, <2>3
<1> QED
  BY <1>1, <1>2, <1>3, <1>4, <1>5, <1>6, <1>7, <1>8 DEF Session

\* A step of the Core keeps the state of the sessions well-formed.
LEMMA CoreStepKeepsTypeInv == ASSUME TypeInv, CoreStep PROVE TypeInv'
<1>1. CoreInv'
  BY CoreNextKeepsCore DEF CoreStep, TypeInv
<1> QED
  BY <1>1 DEF CoreStep, TypeInv, SessionInv, SessionTypeOK, BoundToDevice, MessageHasTarget,
              SendingHolds, sessionVars, linkVars, processVars, history

\* Receiving and losing frames keep the state well-formed.
LEMMA LinkKeepsTypeInv ==
  ASSUME TypeInv, NEW k \in Client, Link(k) PROVE TypeInv'
<1>1. UNCHANGED <<coreVars, sessionVars, processVars, history>>
  BY DEF Link, Receive, LoseFrames
<1>2. CoreInv'
  BY <1>1 DEF TypeInv, coreVars, CoreInv, CoreTypeOK, CallsServable, PushingOwned
<1>3. wire' \in [Client -> Seq(Frame)] /\ got' \in [Client -> SUBSET Frame]
  <2>1. wire[k] \in Seq(Frame) /\ <<>> \in Seq(Frame)
    BY DEF TypeInv, SessionInv, SessionTypeOK
  <2>2. CASE Receive(k)
    <3>1. Head(wire[k]) \in Frame /\ Tail(wire[k]) \in Seq(Frame)
      BY <2>1, <2>2 DEF Receive
    <3> QED
      BY <2>2, <3>1 DEF Receive, TypeInv, SessionInv, SessionTypeOK
  <2>3. CASE LoseFrames(k)
    BY <2>1, <2>3 DEF LoseFrames, TypeInv, SessionInv, SessionTypeOK
  <2> QED
    BY <2>2, <2>3 DEF Link
<1> QED
  BY <1>1, <1>2, <1>3 DEF TypeInv, SessionInv, SessionTypeOK, BoundToDevice, MessageHasTarget,
              SendingHolds, sessionVars, processVars, history

\* Faults, shutdown and restarts keep the state well-formed.
LEMMA FaultsKeepTypeInv == ASSUME TypeInv, Faults PROVE TypeInv'
<1> USE DEF TypeInv, SessionInv, SessionTypeOK, BoundToDevice, MessageHasTarget, SendingHolds
<1>0. \A kind : Fault(kind) => faults' \in 0 .. MaxFaults
  BY FaultAssumption DEF Fault
<1>1. ASSUME NEW k \in Client, RpcError(k) PROVE TypeInv'
  <2>1. CoreInv'
    BY <1>1, AbandonKeepsCore DEF RpcError
  <2>2. AfterError(pc[k]) \in PC \ {"none", "sending"} /\ pc[k] # "none"
    BY <1>1 DEF RpcError, Awaiting, AfterError, PC
  <2>3. faults' \in 0 .. MaxFaults
    BY <1>0, <1>1 DEF RpcError
  <2> QED
    BY <1>1, <2>1, <2>2, <2>3 DEF RpcError, Goto, linkVars, history
<1>2. CASE DatabaseError
  <2>1. CoreInv'
    BY <1>2, StoreErrorKeepsCore DEF DatabaseError
  <2> QED
    BY <1>0, <1>2, <2>1 DEF DatabaseError, sessionVars, linkVars, history
<1>3. CASE RestartCore
  <2>1. CoreInv'
    BY <1>3, CoreRestartKeepsCore DEF RestartCore
  <2> QED
    BY <1>0, <1>3, <2>1 DEF RestartCore, sessionVars, linkVars, history
<1>4. CASE Shutdown
  <2>1. CoreInv'
    BY <1>4 DEF Shutdown, coreVars, CoreInv, CoreTypeOK, CallsServable, PushingOwned
  <2> QED
    BY <1>0, <1>4, <2>1 DEF Shutdown, sessionVars, linkVars, history
<1>5. CASE IngressExit
  <2>1. CoreInv'
    BY <1>5, AbandonKeepsCore DEF IngressExit
  <2>2. faults' \in 0 .. MaxFaults
    BY <1>0, <1>5 DEF IngressExit
  <2>3. UNCHANGED <<device, target, writeSeq, batch, wire, got, outcome, aired>>
    BY <1>5 DEF IngressExit, linkVars, history
  <2>4. /\ pc' = [k \in Client |-> IF k \in Connected THEN "closed" ELSE pc[k]]
        /\ held' = [k \in Client |-> NoCommand]
        /\ inflight' = [k \in Client |-> NoCommand]
        /\ inflightSeq' = [k \in Client |-> 0]
        /\ ctxDone' = FALSE
    BY <1>5 DEF IngressExit
  <2>5. SessionTypeOK'
    BY <2>2, <2>3, <2>4 DEF PC
  <2>6. BoundToDevice' /\ SendingHolds'
    BY <2>3, <2>4 DEF Connected
  <2>7. MessageHasTarget'
    BY <2>4
  <2> QED
    BY <2>1, <2>5, <2>6, <2>7
<1> QED
  BY <1>1, <1>2, <1>3, <1>4, <1>5 DEF Faults

\* ... every step leads from one well-formed state to another, ...
LEMMA TypeInvStep == TypeInv /\ [Next]_vars => TypeInv'
<1> SUFFICES ASSUME TypeInv, [Next]_vars PROVE TypeInv'
  OBVIOUS
<1>1. CASE Next
  BY <1>1, CoreStepKeepsTypeInv, SessionKeepsTypeInv, LinkKeepsTypeInv, FaultsKeepTypeInv
  DEF Next
<1>2. CASE UNCHANGED vars
  BY <1>2 DEF vars, coreVars, sessionVars, linkVars, processVars, history, TypeInv, CoreInv,
     CoreTypeOK, CallsServable, PushingOwned, SessionInv, SessionTypeOK, BoundToDevice,
     MessageHasTarget, SendingHolds
<1> QED
  BY <1>1, <1>2

\* ... and so every reachable state is well-formed.
LEMMA TypeInvAlways == Spec => []TypeInv
BY TypeInvInit, TypeInvStep, PTL DEF Spec

\* The state stays well-formed: no handler is ever handed a message without a
\* device, or writes a frame it does not hold.
THEOREM TypeCorrect == Spec => []TypeOK
<1>1. TypeInv => TypeOK
  BY DEF TypeInv, TypeOK, CoreInv, SessionInv, SessionTypeOK
<1> QED
  BY <1>1, TypeInvAlways, PTL

-----------------------------------------------------------------------------
(* A retry always finds room in the queue.                                 *)

\* Rows, owners and queues change in the Core's own steps only.
LEMMA OnlyTheCoreChangesData ==
  ASSUME [Next]_vars
  PROVE  CoreNext \/ CoreRestart \/ UNCHANGED coreData
<1>1. ASSUME NEW k \in Client, Session(k) PROVE UNCHANGED coreData
  BY <1>1 DEF Session, Connect, Rebind, ReadUplink, ReadAck, ReadFails, PopCommand, PackFails,
     WriteFrame, WriteFails, Close, Popped, Reported, Requeue, coreVars, coreData
<1>2. ASSUME NEW k \in Client, Link(k) PROVE UNCHANGED coreData
  BY <1>2 DEF Link, Receive, LoseFrames, coreVars, coreData
<1>3. CASE Faults
  BY <1>3 DEF Faults, RpcError, DatabaseError, StoreError, RestartCore, Shutdown, IngressExit,
     coreVars, coreData
<1>4. CASE UNCHANGED vars
  BY <1>4 DEF vars, coreVars, coreData
<1> QED
  BY <1>1, <1>2, <1>3, <1>4 DEF Next, CoreStep

QueuesBounded == \A d \in Device : Capacity > 0 => Len(queue[d]) <= Capacity

\* Pushes, pops and retries keep every queue within its capacity.
LEMMA CoreNextKeepsQueuesBounded ==
  ASSUME CoreInv, QueuesBounded, CoreNext
  PROVE  QueuesBounded'
<1> USE CapacityAssumption
<1>1. ASSUME NEW c \in Command, PushCommand(c) PROVE QueuesBounded'
  <2>1. owner[c] \in Device /\ queue[owner[c]] \in Seq(Command)
    BY <1>1 DEF PushCommand, CoreInv, CoreTypeOK, PushingOwned
  <2>2. Capacity > 0 => Len(Enqueued(queue[owner[c]], c, Capacity)) <= Capacity
    BY <2>1, EnqueuedProperties DEF QueuesBounded
  <2> QED
    BY <1>1, <2>1, <2>2 DEF PushCommand, CoreInv, CoreTypeOK, QueuesBounded
<1>2. ASSUME NEW x \in calls, ServePull(x) PROVE QueuesBounded'
  <2>1. x.dev \in Device /\ queue[x.dev] \in Seq(Command)
    BY DEF CoreInv, CoreTypeOK, Call
  <2>2. queue[x.dev] # <<>> => Len(Tail(queue[x.dev])) = Len(queue[x.dev]) - 1
    BY <2>1
  <2>3. Len(queue[x.dev]) \in Nat
    BY <2>1
  <2>4. \/ UNCHANGED queue
        \/ /\ queue[x.dev] # <<>>
           /\ queue' = [queue EXCEPT ![x.dev] = Tail(queue[x.dev])]
    BY <1>2 DEF ServePull
  <2>5. CASE UNCHANGED queue
    BY <2>5 DEF QueuesBounded
  <2>6. CASE queue[x.dev] # <<>> /\ queue' = [queue EXCEPT ![x.dev] = Tail(queue[x.dev])]
    <3>1. Capacity > 0 => Len(Tail(queue[x.dev])) <= Capacity
      BY <2>1, <2>2, <2>3, <2>6 DEF QueuesBounded
    <3>2. \A d \in Device : queue'[d] = IF d = x.dev THEN Tail(queue[x.dev]) ELSE queue[d]
      BY <2>6 DEF CoreInv, CoreTypeOK
    <3> QED
      BY <3>1, <3>2 DEF QueuesBounded
  <2> QED
    BY <2>4, <2>5, <2>6
<1>3. ASSUME NEW x \in calls, ServeRequeue(x) PROVE QueuesBounded'
  <2>1. x.cmd \in Command /\ x.dev \in Device /\ queue[x.dev] \in Seq(Command)
    BY <1>3 DEF ServeRequeue, CoreInv, CallsServable, CoreTypeOK, Call
  <2>2. Capacity > 0 => Len(Requeued(queue[x.dev], x.cmd, Capacity)) <= Capacity
    BY <2>1, RequeuedProperties DEF QueuesBounded
  <2> QED
    BY <1>3, <2>1, <2>2 DEF ServeRequeue, CoreInv, CoreTypeOK, QueuesBounded
<1>4. ASSUME UNCHANGED queue PROVE QueuesBounded'
  BY <1>4 DEF QueuesBounded
<1> QED
  BY <1>1, <1>2, <1>3, <1>4
  DEF CoreNext, CreateCommand, ServeMark, FinishRequeue, LoseRequest

\* So do they always.
LEMMA QueuesBoundedAlways == Spec => []QueuesBounded
<1>1. Init => QueuesBounded
  BY CapacityAssumption DEF Init, CoreInit, QueuesBounded
<1>2. TypeInv /\ QueuesBounded /\ [Next]_vars => QueuesBounded'
  <2> SUFFICES ASSUME TypeInv, QueuesBounded, [Next]_vars PROVE QueuesBounded'
    OBVIOUS
  <2>1. CASE CoreNext
    BY <2>1, CoreNextKeepsQueuesBounded DEF TypeInv
  <2>2. CASE CoreRestart
    <3>1. \A d \in Device : queue'[d] = <<>> /\ Len(queue'[d]) = 0
      BY <2>2 DEF CoreRestart
    <3> QED
      BY <3>1, CapacityAssumption DEF QueuesBounded
  <2>3. CASE UNCHANGED coreData
    BY <2>3 DEF coreData, QueuesBounded
  <2> QED
    BY <2>1, <2>2, <2>3, OnlyTheCoreChangesData
<1> QED
  BY <1>1, <1>2, TypeInvAlways, PTL DEF Spec

\* ErrDownlinkQueueFull is never returned: whatever the capacity and however
\* pushes, pops and retries interleave, Requeue has room for the message.
THEOREM RequeueAlwaysFits == Spec => []RequeueNeverRefused
<1>1. TypeInv /\ QueuesBounded => RequeueNeverRefused
  BY BoundedIsNeverRefused, CapacityAssumption
  DEF TypeInv, CoreInv, CoreTypeOK, QueuesBounded, RequeueNeverRefused
<1> QED
  BY <1>1, TypeInvAlways, QueuesBoundedAlways, PTL

-----------------------------------------------------------------------------
(* A row "acked" means that the device has received the command.           *)

\* The frames written on connection k that are not lost.
Frames(k) == Waiting(wire[k]) \cup got[k]

\* A sequence number is used once, ...
FramesNumbered == \A k \in Client : \A f \in Frames(k) : f.seq <= writeSeq[k]

\* ... the inflight command is the one written under the remembered number, ...
InflightFrame ==
  \A k \in Client : inflight[k] # NoCommand =>
    \A f \in Frames(k) : f.seq = inflightSeq[k] => f.cmd = inflight[k]

\* ... and a report of an ACK is made only about a received command.
Received(c) == \E k \in Client : \E f \in got[k] : f.cmd = c

AckReportsReceived ==
  \A x \in calls : x.op = "acked" /\ x.stage = "issued" => Received(x.cmd)

AckInv == FramesNumbered /\ InflightFrame /\ AckReportsReceived /\ AckedWasReceived

\* Writing a frame adds it to the frames of the connection.
LEMMA FramesAfterWrite ==
  ASSUME TypeInv, NEW k \in Client, WriteFrame(k)
  PROVE  /\ \A j \in Client : j # k => Frames(j)' = Frames(j)
         /\ \A f \in Frames(k)' :
              f \in Frames(k) \/ f = [cmd |-> held[k], seq |-> writeSeq[k] + 1]
<1> DEFINE g == [cmd |-> held[k], seq |-> writeSeq[k] + 1]
<1>1. wire[k] \in Seq(Frame) /\ wire \in [Client -> Seq(Frame)]
  BY DEF TypeInv, SessionInv, SessionTypeOK
<1>2. got' = got /\ wire' = [wire EXCEPT ![k] = Append(wire[k], g)]
  BY DEF WriteFrame
<1>3. g \in Frame
  BY DEF WriteFrame, Frame, TypeInv, SessionInv, SessionTypeOK, SendingHolds
<1>4. \A i \in DOMAIN Append(wire[k], g) :
        Append(wire[k], g)[i] = g \/ (i \in DOMAIN wire[k] /\ Append(wire[k], g)[i] = wire[k][i])
  BY <1>1, <1>3
<1>5. \A f \in Waiting(Append(wire[k], g)) : f = g \/ f \in Waiting(wire[k])
  BY <1>4 DEF Waiting
<1> QED
  BY <1>1, <1>2, <1>5 DEF Frames

\* A received frame was on the wire.
LEMMA FramesAfterLink ==
  ASSUME TypeInv, NEW k \in Client, Link(k)
  PROVE  /\ \A j \in Client : Frames(j)' \subseteq Frames(j)
         /\ \A j \in Client : got[j] \subseteq got'[j]
<1>1. wire[k] \in Seq(Frame) /\ wire \in [Client -> Seq(Frame)] /\ got \in [Client -> SUBSET Frame]
  BY DEF TypeInv, SessionInv, SessionTypeOK
<1>2. CASE Receive(k)
  <2>1. wire[k] # <<>> /\ Head(wire[k]) = wire[k][1] /\ 1 \in DOMAIN wire[k]
    BY <1>1, <1>2 DEF Receive
  <2>2. \A i \in DOMAIN Tail(wire[k]) :
          i + 1 \in DOMAIN wire[k] /\ Tail(wire[k])[i] = wire[k][i + 1]
    BY <1>1, <2>1
  <2>3. Waiting(Tail(wire[k])) \subseteq Waiting(wire[k]) /\ Head(wire[k]) \in Waiting(wire[k])
    BY <2>1, <2>2 DEF Waiting
  <2> QED
    BY <1>1, <1>2, <2>3 DEF Receive, Frames
<1>3. CASE LoseFrames(k)
  <2>1. Waiting(<<>>) = {}
    BY DEF Waiting
  <2> QED
    BY <1>1, <1>3, <2>1 DEF LoseFrames, Frames
<1> QED
  BY <1>2, <1>3 DEF Link

\* A call the client issues, takes the response of or gives up.
LEMMA AckReportsAfterRequest ==
  ASSUME AckReportsReceived, got' = got,
         NEW k, NEW d, NEW c, NEW op, NEW label, op = "acked" => Received(c),
         Request(k, op, d, c, label)
  PROVE  AckReportsReceived'
<1>1. Received(c)' = Received(c) /\ \A b : Received(b) => Received(b)'
  BY DEF Received
<1>2. \A x \in calls' : x \in calls \/ (x.op = op /\ x.cmd = c)
  BY DEF Request, Issue
<1> QED
  BY <1>1, <1>2 DEF AckReportsReceived

\* A step that writes nothing and at most forgets what is inflight keeps the
\* numbering of the frames.
LEMMA QuietStepKeepsNumbering ==
  ASSUME FramesNumbered, InflightFrame, TypeInv, TypeInv', UNCHANGED <<wire, got>>,
         \A j \in Client : writeSeq[j] <= writeSeq'[j],
         \A j \in Client : \/ inflight'[j] = NoCommand
                           \/ inflight'[j] = inflight[j] /\ inflightSeq'[j] = inflightSeq[j]
  PROVE  FramesNumbered' /\ InflightFrame'
<1>1. \A j \in Client : Frames(j)' = Frames(j)
  BY DEF Frames
<1>2. FramesNumbered'
  <2> SUFFICES ASSUME NEW j \in Client, NEW f \in Frames(j)' PROVE f.seq <= writeSeq'[j]
    BY DEF FramesNumbered
  <2>1. f \in Frame
    <3>1. wire[j] \in Seq(Frame) /\ got[j] \subseteq Frame
      BY DEF TypeInv, SessionInv, SessionTypeOK
    <3>2. Waiting(wire[j]) \subseteq Frame
      BY <3>1 DEF Waiting
    <3> QED
      BY <1>1, <3>1, <3>2 DEF Frames
  <2>2. f.seq \in Nat /\ writeSeq[j] \in Nat /\ writeSeq'[j] \in Nat
    BY <2>1 DEF Frame, TypeInv, SessionInv, SessionTypeOK
  <2>3. f.seq <= writeSeq[j] /\ writeSeq[j] <= writeSeq'[j]
    BY <1>1 DEF FramesNumbered
  <2> QED
    BY <2>2, <2>3
<1>3. InflightFrame'
  BY <1>1 DEF InflightFrame
<1> QED
  BY <1>2, <1>3

\* A new frame gets a number no frame of the connection has.
LEMMA WriteKeepsNumbering ==
  ASSUME FramesNumbered, InflightFrame, TypeInv, NEW k \in Client, WriteFrame(k)
  PROVE  FramesNumbered' /\ InflightFrame'
<1> DEFINE g == [cmd |-> held[k], seq |-> writeSeq[k] + 1]
<1>1. /\ writeSeq' = [writeSeq EXCEPT ![k] = writeSeq[k] + 1]
      /\ inflight' = [inflight EXCEPT ![k] = held[k]]
      /\ inflightSeq' = [inflightSeq EXCEPT ![k] = writeSeq[k] + 1]
  BY DEF WriteFrame, Spend
<1>2. /\ writeSeq \in [Client -> Nat] /\ inflightSeq \in [Client -> Nat]
      /\ inflight \in [Client -> Command \cup {NoCommand}]
  BY DEF TypeInv, SessionInv, SessionTypeOK
<1>3. /\ \A j \in Client : j # k => Frames(j)' = Frames(j)
      /\ \A f \in Frames(k)' : f \in Frames(k) \/ f = g
  BY FramesAfterWrite
<1>4. \A f \in Frames(k) : f.seq \in Nat /\ f.seq <= writeSeq[k]
  <2>1. wire[k] \in Seq(Frame) /\ got[k] \subseteq Frame
    BY DEF TypeInv, SessionInv, SessionTypeOK
  <2>2. Frames(k) \subseteq Frame
    BY <2>1 DEF Frames, Waiting
  <2> QED
    BY <2>2 DEF FramesNumbered, Frame
<1>5. FramesNumbered'
  <2> SUFFICES ASSUME NEW j \in Client, NEW f \in Frames(j)' PROVE f.seq <= writeSeq'[j]
    BY DEF FramesNumbered
  <2>1. CASE j = k
    BY <1>1, <1>2, <1>3, <1>4, <2>1
  <2>2. CASE j # k
    BY <1>1, <1>2, <1>3, <2>2 DEF FramesNumbered
  <2> QED
    BY <2>1, <2>2
<1>6. InflightFrame'
  <2> SUFFICES ASSUME NEW j \in Client, inflight'[j] # NoCommand,
                      NEW f \in Frames(j)', f.seq = inflightSeq'[j]
               PROVE  f.cmd = inflight'[j]
    BY DEF InflightFrame
  <2>1. CASE j = k
    <3>1. f.seq = writeSeq[k] + 1
      BY <1>1, <1>2, <2>1
    <3>2. f = g
      BY <1>2, <1>3, <1>4, <2>1, <3>1
    <3> QED
      BY <1>1, <1>2, <2>1, <3>2
  <2>2. CASE j # k
    BY <1>1, <1>2, <1>3, <2>2 DEF InflightFrame
  <2> QED
    BY <2>1, <2>2
<1> QED
  BY <1>5, <1>6

\* A step of a connection keeps the invariant: the ACK it accepts is the
\* device's answer to the inflight command.
LEMMA SessionKeepsAckInv ==
  ASSUME AckInv, TypeInv, TypeInv', NEW k \in Client, Session(k)
  PROVE  AckInv'
<1> USE DEF AckInv
<1>0. /\ writeSeq \in [Client -> Nat]
      /\ inflight \in [Client -> Command \cup {NoCommand}]
      /\ inflightSeq \in [Client -> Nat]
  BY DEF TypeInv, SessionInv, SessionTypeOK
<1>1. got' = got /\ status' = status
  BY DEF Session, Connect, Rebind, ReadUplink, ReadAck, ReadFails, PopCommand, PackFails,
     WriteFrame, WriteFails, Close, Popped, Reported, Requeue, coreVars, coreData, linkVars
<1>2. AckedWasReceived'
  BY <1>1 DEF AckedWasReceived
<1>3. ASSUME calls' \subseteq calls PROVE AckReportsReceived'
  BY <1>1, <1>3 DEF AckReportsReceived, Received
<1>4. ASSUME UNCHANGED <<wire, got>>,
             \/ UNCHANGED writeSeq
             \/ writeSeq' = [writeSeq EXCEPT ![k] = writeSeq[k] + 1],
             \/ UNCHANGED <<inflight, inflightSeq>>
             \/ ClearInflight(k)
      PROVE  FramesNumbered' /\ InflightFrame'
  <2>1. \A j \in Client : writeSeq[j] <= writeSeq'[j]
    BY <1>0, <1>4
  <2>2. \A j \in Client : \/ inflight'[j] = NoCommand
                          \/ inflight'[j] = inflight[j] /\ inflightSeq'[j] = inflightSeq[j]
    BY <1>0, <1>4 DEF ClearInflight
  <2>3. UNCHANGED <<wire, got>>
    BY <1>4
  <2>4. FramesNumbered /\ InflightFrame
    OBVIOUS
  <2> HIDE DEF AckInv
  <2> QED
    BY <2>1, <2>2, <2>3, <2>4, QuietStepKeepsNumbering
<1>5. ASSUME NEW d \in Device, Connect(k, d) \/ Rebind(k, d)
      PROVE  AckInv'
  BY <1>2, <1>3, <1>4, <1>5 DEF Connect, Rebind, coreVars, linkVars
<1>6. CASE ReadUplink(k) \/ ReadFails(k)
  BY <1>2, <1>3, <1>4, <1>6 DEF ReadUplink, ReadFails, coreVars, linkVars
<1>7. ASSUME NEW f \in got[k], ReadAck(k, f)
      PROVE  AckInv'
  <2>1. FramesNumbered' /\ InflightFrame'
    BY <1>4, <1>7 DEF ReadAck, linkVars
  <2>2. CASE AckMatches(k, f)
    <3>1. f.cmd = inflight[k]
      BY <1>7, <2>2 DEF AckMatches, InflightFrame, Frames
    <3>2. Received(inflight[k])
      BY <1>7, <3>1 DEF Received
    <3>3. Request(k, "acked", device[k], inflight[k], "reporting")
      BY <1>7, <2>2 DEF ReadAck
    <3> QED
      BY <1>1, <1>2, <2>1, <3>2, <3>3, AckReportsAfterRequest
  <2>3. CASE ~AckMatches(k, f)
    BY <1>2, <1>3, <1>7, <2>1, <2>3 DEF ReadAck
  <2> QED
    BY <2>2, <2>3
<1>8. CASE PopCommand(k)
  <2>1. FramesNumbered' /\ InflightFrame'
    BY <1>4, <1>8 DEF PopCommand, linkVars
  <2>2. AckReportsReceived'
    BY <1>1, <1>3, <1>8, AckReportsAfterRequest DEF PopCommand
  <2> QED
    BY <1>2, <2>1, <2>2
<1>9. ASSUME NEW x \in calls, Popped(k, x) \/ Reported(k, x) \/ Requeue(k, x)
      PROVE  AckInv'
  BY <1>2, <1>3, <1>4, <1>9 DEF Popped, Reported, Requeue, Collect, linkVars
<1>10. CASE PackFails(k) \/ WriteFails(k)
  <2>1. FramesNumbered' /\ InflightFrame'
    BY <1>4, <1>10 DEF PackFails, WriteFails, Spend, linkVars
  <2>2. AckReportsReceived'
    BY <1>1, <1>10, AckReportsAfterRequest DEF PackFails, WriteFails
  <2> QED
    BY <1>2, <2>1, <2>2
<1>11. CASE WriteFrame(k)
  <2>1. AckReportsReceived'
    BY <1>1, <1>11, AckReportsAfterRequest DEF WriteFrame
  <2> QED
    BY <1>2, <1>11, <2>1, WriteKeepsNumbering
<1>12. CASE Close(k)
  <2>1. FramesNumbered' /\ InflightFrame'
    BY <1>4, <1>12 DEF Close, linkVars
  <2>2. AckReportsReceived'
    BY <1>1, <1>3, <1>12, AckReportsAfterRequest DEF Close
  <2> QED
    BY <1>2, <2>1, <2>2
<1> QED
  BY <1>5, <1>6, <1>7, <1>8, <1>9, <1>10, <1>11, <1>12 DEF Session

\* The Core sets a row to "acked" only when it serves such a report.
LEMMA CoreNextKeepsAckInv ==
  ASSUME AckInv, TypeInv, CoreStep
  PROVE  AckInv'
<1> USE DEF AckInv
<1>1. /\ UNCHANGED <<wire, got, writeSeq, inflight, inflightSeq>> /\ CoreNext
      /\ \A c : Received(c)' = Received(c)
  BY DEF CoreStep, sessionVars, linkVars, Received
<1>2. FramesNumbered' /\ InflightFrame'
  BY <1>1 DEF FramesNumbered, InflightFrame, Frames
<1>3. \A x \in calls' : x.op = "acked" /\ x.stage = "issued" => x \in calls
  <2>1. ASSUME NEW x \in calls, NEW c, NEW y \in Answer(x, c)
        PROVE  y \in calls \/ y.stage = "answered"
    <3>1. [x EXCEPT !.stage = "answered", !.cmd = c].stage = "answered"
      BY DEF TypeInv, CoreInv, CoreTypeOK, Call
    <3> QED
      BY <2>1, <3>1 DEF Answer
  <2>2. ASSUME NEW x \in calls
        PROVE  [x EXCEPT !.stage = "pushed"].stage = "pushed"
    BY DEF TypeInv, CoreInv, CoreTypeOK, Call
  <2>3. \/ calls' \subseteq calls
        \/ \E x \in calls, c \in Command \cup {NoCommand} : calls' = Answer(x, c)
        \/ \E x \in calls : calls' = (calls \ {x}) \cup {[x EXCEPT !.stage = "pushed"]}
    <3>1. ASSUME NEW x \in calls, ServePull(x)
          PROVE  \E c \in Command \cup {NoCommand} : calls' = Answer(x, c)
      <4>1. queue[x.dev] # <<>> => Head(queue[x.dev]) \in Command
        BY DEF TypeInv, CoreInv, CoreTypeOK, Call
      <4> QED
        BY <3>1, <4>1 DEF ServePull
    <3>2. \A x \in calls : x.cmd \in Command \cup {NoCommand}
      BY DEF TypeInv, CoreInv, CoreTypeOK, Call
    <3>3. ASSUME NEW x \in calls,
                 ServeMark(x) \/ ServeRequeue(x) \/ FinishRequeue(x) \/ LoseRequest(x)
          PROVE  \/ calls' \subseteq calls
                 \/ calls' = Answer(x, x.cmd)
                 \/ calls' = (calls \ {x}) \cup {[x EXCEPT !.stage = "pushed"]}
      BY <3>3 DEF ServeMark, ServeRequeue, FinishRequeue, LoseRequest
    <3> QED
      BY <1>1, <3>1, <3>2, <3>3 DEF CoreNext, CreateCommand, PushCommand
  <2>4. ASSUME NEW x \in calls,
               calls' = (calls \ {x}) \cup {[x EXCEPT !.stage = "pushed"]}
        PROVE  \A y \in calls' : y \in calls \/ y.stage = "pushed"
    BY <2>2, <2>4
  <2>5. ASSUME NEW x \in calls, NEW c, calls' = Answer(x, c)
        PROVE  \A y \in calls' : y \in calls \/ y.stage = "answered"
    BY <2>1, <2>5
  <2> QED
    BY <2>3, <2>4, <2>5
<1>4. AckReportsReceived'
  BY <1>1, <1>3 DEF AckReportsReceived
<1>5. AckedWasReceived'
  <2>1. ASSUME NEW x \in calls, ServeMark(x) PROVE AckedWasReceived'
    <3>1. x.op = "acked" => Received(x.cmd)
      BY <2>1 DEF ServeMark, AckReportsReceived
    <3>2. /\ status' = [status EXCEPT ![x.cmd] = IF @ = "none" THEN @ ELSE x.op]
          /\ status \in [Command -> Status]
      BY <2>1 DEF ServeMark, TypeInv, CoreInv, CoreTypeOK
    <3> QED
      BY <1>1, <3>1, <3>2 DEF AckedWasReceived, Received
  <2>2. ASSUME NEW c, NEW s, s # "acked", status' = [status EXCEPT ![c] = s]
        PROVE  AckedWasReceived'
    BY <1>1, <2>2 DEF AckedWasReceived, Received, TypeInv, CoreInv, CoreTypeOK
  <2>3. ASSUME UNCHANGED status PROVE AckedWasReceived'
    BY <1>1, <2>3 DEF AckedWasReceived, Received
  <2> QED
    BY <1>1, <2>1, <2>2, <2>3 DEF CoreNext, CreateCommand, PushCommand, ServePull,
       ServeRequeue, FinishRequeue, LoseRequest
<1> QED
  BY <1>2, <1>4, <1>5

\* Receiving and losing frames change neither the numbering nor what was reported.
LEMMA LinkKeepsAckInv ==
  ASSUME AckInv, TypeInv, NEW k \in Client, Link(k)
  PROVE  AckInv'
<1> USE DEF AckInv
<1>1. /\ \A j \in Client : Frames(j)' \subseteq Frames(j)
      /\ \A j \in Client : got[j] \subseteq got'[j]
  BY FramesAfterLink
<1>2. UNCHANGED <<calls, status, writeSeq, inflight, inflightSeq>>
  BY DEF Link, Receive, LoseFrames, coreVars, sessionVars
<1>3. FramesNumbered' /\ InflightFrame'
  BY <1>1, <1>2 DEF FramesNumbered, InflightFrame
<1>4. \A c : Received(c) => Received(c)'
  BY <1>1 DEF Received
<1>5. AckReportsReceived'
  BY <1>2, <1>4 DEF AckReportsReceived
<1>6. AckedWasReceived'
  BY <1>2, <1>4 DEF AckedWasReceived, Received
<1> QED
  BY <1>3, <1>5, <1>6

\* Faults, shutdown and restarts confirm nothing.
LEMMA FaultsKeepAckInv ==
  ASSUME AckInv, TypeInv, TypeInv', Faults
  PROVE  AckInv'
<1> USE DEF AckInv
<1>1. UNCHANGED <<wire, got, writeSeq, status>>
  BY DEF Faults, RpcError, DatabaseError, StoreError, RestartCore, CoreRestart, Shutdown,
     IngressExit, coreVars, coreData, sessionVars, linkVars
<1>2. \A j \in Client : \/ inflight'[j] = NoCommand
                        \/ inflight'[j] = inflight[j] /\ inflightSeq'[j] = inflightSeq[j]
  <2>1. CASE IngressExit
    BY <2>1 DEF IngressExit
  <2>2. CASE UNCHANGED <<inflight, inflightSeq>>
    BY <2>2
  <2> QED
    BY <2>1, <2>2 DEF Faults, RpcError, DatabaseError, RestartCore, Shutdown, sessionVars
<1>3. \A j \in Client : writeSeq[j] <= writeSeq'[j]
  BY <1>1 DEF TypeInv, SessionInv, SessionTypeOK
<1>4. FramesNumbered' /\ InflightFrame'
  BY <1>1, <1>2, <1>3, QuietStepKeepsNumbering
<1>5. \A x \in calls' : x \in calls \/ x.stage = "answered"
  <2>1. ASSUME NEW x \in calls, NEW c
        PROVE  [x EXCEPT !.stage = "answered", !.cmd = c].stage = "answered"
    BY DEF TypeInv, CoreInv, CoreTypeOK, Call
  <2>2. CASE DatabaseError
    BY <2>1, <2>2 DEF DatabaseError, StoreError, Answer
  <2>3. CASE RestartCore
    BY <2>1, <2>3 DEF RestartCore, CoreRestart
  <2>4. CASE calls' \subseteq calls
    BY <2>4
  <2> QED
    BY <2>2, <2>3, <2>4 DEF Faults, RpcError, Abandon, Shutdown, IngressExit, coreVars
<1>6. AckReportsReceived' /\ AckedWasReceived'
  BY <1>1, <1>5 DEF AckReportsReceived, AckedWasReceived, Received
<1> QED
  BY <1>4, <1>6

\* From every state the reason of an ACK is carried along.
LEMMA AckInvAlways == Spec => []AckInv
<1>1. Init => AckInv
  <2> SUFFICES ASSUME Init PROVE AckInv
    OBVIOUS
  <2>1. \A k \in Client : Frames(k) = {}
    BY DEF Init, Frames, Waiting
  <2> QED
    BY <2>1 DEF Init, CoreInit, AckInv, FramesNumbered, InflightFrame, AckReportsReceived,
       AckedWasReceived
<1>2. TypeInv /\ TypeInv' /\ AckInv /\ [Next]_vars => AckInv'
  <2> SUFFICES ASSUME TypeInv, TypeInv', AckInv, [Next]_vars PROVE AckInv'
    OBVIOUS
  <2>1. CASE Next
    BY <2>1, CoreNextKeepsAckInv, SessionKeepsAckInv, LinkKeepsAckInv, FaultsKeepAckInv
    DEF Next
  <2>2. CASE UNCHANGED vars
    BY <2>2 DEF vars, coreVars, sessionVars, linkVars, AckInv, FramesNumbered, InflightFrame,
       Frames, AckReportsReceived, AckedWasReceived, Received
  <2> QED
    BY <2>1, <2>2
<1> QED
  BY <1>1, <1>2, TypeInvAlways, PTL DEF Spec

\* A command recorded as acknowledged was received by a device, whatever ACKs
\* are delayed, repeated or meant for another command, and whichever RPCs,
\* connections and processes fail.
THEOREM AckedCommandsWereReceived == Spec => []AckedWasReceived
<1>1. AckInv => AckedWasReceived
  BY DEF AckInv
<1> QED
  BY <1>1, AckInvAlways, PTL

-----------------------------------------------------------------------------
(* One frame is unanswered at a time.                                      *)

\* A queue of one message is empty without it.
LEMMA OneElement ==
  ASSUME NEW S, NEW q \in Seq(S), q # <<>>, Len(q) <= 1
  PROVE  Tail(q) = <<>>
<1>1. Len(q) \in Nat \ {0}
  BY EmptySeq
<1>2. Tail(q) \in Seq(S) /\ Len(Tail(q)) = 0
  BY <1>1
<1> QED
  BY <1>2, EmptySeq

Leaving == {"closing", "requeueing", "closed"}

\* A received frame is not under way any more, ...
ReceivedIsOff ==
  \A k \in Client : \A f \in got[k] : \A i \in DOMAIN wire[k] : wire[k][i].seq # f.seq

\* ... a session that pulls or writes waits for no ACK, ...
NothingUnanswered ==
  \A k \in Client : pc[k] \in {"pulling", "sending"} => inflight[k] = NoCommand

\* ... and before the connection there are no frames.
UnusedIsEmpty == \A k \in Client : pc[k] = "none" => wire[k] = <<>>

WaitInv == StopAndWait /\ ReceivedIsOff /\ NothingUnanswered /\ UnusedIsEmpty

\* A step that writes no frame and forgets none it waits for, except with an empty
\* wire, keeps one frame at most unanswered.
LEMMA QuietStepKeepsWaitInv ==
  ASSUME WaitInv, UNCHANGED <<wire, got>>,
         \A j \in Client :
           /\ \/ inflight'[j] = inflight[j] /\ inflightSeq'[j] = inflightSeq[j]
              \/ wire[j] = <<>> /\ inflight'[j] = NoCommand
              \/ pc'[j] \in Leaving
           /\ pc[j] \in Leaving => pc'[j] \in Leaving
           /\ pc'[j] \in {"pulling", "sending"} =>
                \/ inflight'[j] = NoCommand
                \/ pc[j] \in {"pulling", "sending"} /\ inflight'[j] = inflight[j]
           /\ pc'[j] = "none" => pc[j] = "none"
  PROVE  WaitInv'
<1> USE DEF WaitInv
<1>1. StopAndWait'
  BY DEF StopAndWait, Leaving
<1> QED
  BY <1>1 DEF ReceivedIsOff, NothingUnanswered, UnusedIsEmpty, Leaving

\* An ACK that matches finds the wire empty.
LEMMA MatchingAckIsTheLast ==
  ASSUME WaitInv, TypeInv, NEW k \in Client, pc[k] = "read", NEW f \in got[k], AckMatches(k, f)
  PROVE  wire[k] = <<>>
<1>1. wire[k] \in Seq(Frame)
  BY DEF TypeInv, SessionInv, SessionTypeOK
<1> SUFFICES ASSUME wire[k] # <<>> PROVE FALSE
  OBVIOUS
<1>2. 1 \in DOMAIN wire[k]
  BY <1>1
<1>3. inflightSeq[k] = wire[k][1].seq
  BY DEF WaitInv, StopAndWait
<1> QED
  BY <1>2, <1>3 DEF AckMatches, WaitInv, ReceivedIsOff

\* A step of a connection's goroutine keeps one frame at most unanswered.
LEMMA SessionKeepsWaitInv ==
  ASSUME WaitInv, TypeInv, FramesNumbered, NEW k \in Client, Session(k)
  PROVE  WaitInv'
<1>0. /\ pc \in [Client -> PC] /\ wire \in [Client -> Seq(Frame)]
      /\ inflight \in [Client -> Command \cup {NoCommand}]
      /\ inflightSeq \in [Client -> Nat] /\ writeSeq \in [Client -> Nat]
      /\ held \in [Client -> Command \cup {NoCommand}] /\ got \in [Client -> SUBSET Frame]
  BY DEF TypeInv, SessionInv, SessionTypeOK
<1>1. ASSUME NEW d \in Device, Connect(k, d) \/ Rebind(k, d) PROVE WaitInv'
  <2>1. /\ UNCHANGED <<wire, got, inflight, inflightSeq>>
        /\ pc' = [pc EXCEPT ![k] = "pop"] /\ pc[k] \in {"none", "read"}
    BY <1>1 DEF Connect, Rebind, Goto, linkVars
  <2> QED
    BY <1>0, <2>1, QuietStepKeepsWaitInv DEF Leaving
<1>2. CASE ReadUplink(k)
  <2>1. /\ UNCHANGED <<wire, got, inflight, inflightSeq>>
        /\ pc' = [pc EXCEPT ![k] = "pop"] /\ pc[k] = "read"
    BY <1>2 DEF ReadUplink, Goto, linkVars
  <2> QED
    BY <1>0, <2>1, QuietStepKeepsWaitInv DEF Leaving
<1>3. CASE ReadFails(k)
  <2>1. /\ UNCHANGED <<wire, got, inflight, inflightSeq>>
        /\ pc' = [pc EXCEPT ![k] = "closing"] /\ pc[k] = "read"
    BY <1>3 DEF ReadFails, Goto, linkVars
  <2> QED
    BY <1>0, <2>1, QuietStepKeepsWaitInv DEF Leaving
<1>4. ASSUME NEW f \in got[k], ReadAck(k, f) PROVE WaitInv'
  <2>1. pc[k] = "read" /\ UNCHANGED <<wire, got>>
    BY <1>4 DEF ReadAck, linkVars
  <2>2. pc' \in {[pc EXCEPT ![k] = "reporting"], [pc EXCEPT ![k] = "pop"]}
    BY <1>4 DEF ReadAck, Request, Goto, AfterError
  <2>3. CASE AckMatches(k, f)
    <3>1. wire[k] = <<>>
      BY <2>1, <2>3, MatchingAckIsTheLast
    <3>2. /\ inflight' = [inflight EXCEPT ![k] = NoCommand]
          /\ inflightSeq' = [inflightSeq EXCEPT ![k] = 0]
      BY <1>4, <2>3 DEF ReadAck, ClearInflight
    <3> QED
      BY <1>0, <2>1, <2>2, <3>1, <3>2, QuietStepKeepsWaitInv DEF Leaving
  <2>4. CASE ~AckMatches(k, f)
    <3>1. UNCHANGED <<inflight, inflightSeq>>
      BY <1>4, <2>4 DEF ReadAck
    <3> QED
      BY <1>0, <2>1, <2>2, <3>1, QuietStepKeepsWaitInv DEF Leaving
  <2> QED
    BY <2>3, <2>4
<1>5. CASE PopCommand(k)
  <2>1. UNCHANGED <<wire, got, inflight, inflightSeq>> /\ pc[k] = "pop"
    BY <1>5 DEF PopCommand, linkVars
  <2>2. \/ pc' = [pc EXCEPT ![k] = "read"]
        \/ pc' = [pc EXCEPT ![k] = "pulling"] /\ inflight[k] = NoCommand
    BY <1>5 DEF PopCommand, Request, Goto, AfterError
  <2> QED
    BY <1>0, <2>1, <2>2, QuietStepKeepsWaitInv DEF Leaving
<1>6. ASSUME NEW x \in calls, Popped(k, x) PROVE WaitInv'
  <2>1. /\ UNCHANGED <<wire, got, inflight, inflightSeq>> /\ pc[k] = "pulling"
        /\ pc' \in {[pc EXCEPT ![k] = "read"], [pc EXCEPT ![k] = "sending"]}
    BY <1>6 DEF Popped, Goto, linkVars
  <2> QED
    BY <1>0, <2>1, QuietStepKeepsWaitInv DEF Leaving
<1>7. CASE PackFails(k)
  <2>1. /\ UNCHANGED <<wire, got, inflight, inflightSeq>> /\ pc[k] = "sending"
        /\ pc' \in {[pc EXCEPT ![k] = "reporting"], [pc EXCEPT ![k] = "pop"]}
    BY <1>7 DEF PackFails, Request, Goto, AfterError, linkVars
  <2> QED
    BY <1>0, <2>1, QuietStepKeepsWaitInv DEF Leaving
<1>8. CASE WriteFrame(k)
  <2> DEFINE f == [cmd |-> held[k], seq |-> writeSeq[k] + 1]
  <2>1. /\ pc[k] = "sending" /\ UNCHANGED got
        /\ pc' \in {[pc EXCEPT ![k] = "reporting"], [pc EXCEPT ![k] = "pop"]}
        /\ wire' = [wire EXCEPT ![k] = Append(@, f)]
        /\ inflight' = [inflight EXCEPT ![k] = held[k]]
        /\ inflightSeq' = [inflightSeq EXCEPT ![k] = writeSeq[k] + 1]
    BY <1>8 DEF WriteFrame, Request, Goto, AfterError
  <2>2. wire[k] = <<>>
    <3> SUFFICES ASSUME wire[k] # <<>> PROVE FALSE
      OBVIOUS
    <3>1. wire[k] \in Seq(Frame) /\ wire[k][1] \in Frame
      BY <1>0
    <3>2. inflight[k] = wire[k][1].cmd /\ inflight[k] = NoCommand
      BY <2>1 DEF WaitInv, StopAndWait, NothingUnanswered
    <3> QED
      BY <3>1, <3>2, DistinctAssumption DEF Frame
  <2>3. wire'[k] = <<f>> /\ \A j \in Client : j # k => wire'[j] = wire[j]
    BY <1>0, <2>1, <2>2
  <2>4. \A g \in got[k] : g.seq # f.seq
    <3>1. \A g \in got[k] : g.seq <= writeSeq[k] /\ g.seq \in Nat
      BY <1>0 DEF FramesNumbered, Frames, Frame
    <3> QED
      BY <1>0, <3>1
  <2>5. StopAndWait'
    <3>1. Len(wire'[k]) = 1 /\ wire'[k][1].cmd = held[k] /\ wire'[k][1].seq = writeSeq[k] + 1
      BY <2>3
    <3>2. inflight'[k] = held[k] /\ inflightSeq'[k] = writeSeq[k] + 1
      BY <1>0, <2>1
    <3>3. \A j \in Client : j # k =>
            /\ wire'[j] = wire[j] /\ pc'[j] = pc[j]
            /\ inflight'[j] = inflight[j] /\ inflightSeq'[j] = inflightSeq[j]
      BY <1>0, <2>1, <2>3
    <3> SUFFICES ASSUME NEW j \in Client
                 PROVE  /\ Len(wire'[j]) <= 1
                        /\ wire'[j] # <<>> /\ pc'[j] \notin Leaving =>
                             /\ inflight'[j] = wire'[j][1].cmd
                             /\ inflightSeq'[j] = wire'[j][1].seq
      BY DEF StopAndWait, Leaving
    <3>4. CASE j = k
      <4>1. inflight'[k] = wire'[k][1].cmd /\ inflightSeq'[k] = wire'[k][1].seq
        BY <3>1, <3>2
      <4>2. Len(wire'[k]) <= 1
        BY <3>1
      <4> QED
        BY <3>4, <4>1, <4>2
    <3>5. CASE j # k
      BY <3>3, <3>5 DEF WaitInv, StopAndWait, Leaving
    <3> QED
      BY <3>4, <3>5
  <2>6. ReceivedIsOff'
    BY <1>0, <2>1, <2>3, <2>4 DEF WaitInv, ReceivedIsOff
  <2> QED
    BY <1>0, <2>1, <2>3, <2>5, <2>6 DEF WaitInv, NothingUnanswered, UnusedIsEmpty
<1>9. CASE WriteFails(k)
  <2>1. /\ UNCHANGED <<wire, got, inflight, inflightSeq>> /\ pc[k] = "sending"
        /\ pc' \in {[pc EXCEPT ![k] = "requeueing"], [pc EXCEPT ![k] = "closed"]}
    BY <1>9 DEF WriteFails, Request, Goto, AfterError, linkVars
  <2> QED
    BY <1>0, <2>1, QuietStepKeepsWaitInv DEF Leaving
<1>10. CASE Close(k)
  <2>1. /\ UNCHANGED <<wire, got>> /\ pc[k] = "closing"
        /\ pc' \in {[pc EXCEPT ![k] = "requeueing"], [pc EXCEPT ![k] = "closed"]}
        /\ inflight' = [inflight EXCEPT ![k] = NoCommand]
        /\ inflightSeq' = [inflightSeq EXCEPT ![k] = 0]
    BY <1>10 DEF Close, Request, Goto, AfterError, ClearInflight, linkVars
  <2> QED
    BY <1>0, <2>1, QuietStepKeepsWaitInv DEF Leaving
<1>11. ASSUME NEW x \in calls, Reported(k, x) PROVE WaitInv'
  <2>1. /\ UNCHANGED <<wire, got, inflight, inflightSeq>> /\ pc[k] = "reporting"
        /\ pc' = [pc EXCEPT ![k] = "pop"]
    BY <1>11 DEF Reported, Goto, linkVars
  <2> QED
    BY <1>0, <2>1, QuietStepKeepsWaitInv DEF Leaving
<1>12. ASSUME NEW x \in calls, Requeue(k, x) PROVE WaitInv'
  <2>1. /\ UNCHANGED <<wire, got, inflight, inflightSeq>> /\ pc[k] = "requeueing"
        /\ pc' = [pc EXCEPT ![k] = "closed"]
    BY <1>12 DEF Requeue, Goto, linkVars
  <2> QED
    BY <1>0, <2>1, QuietStepKeepsWaitInv DEF Leaving
<1> QED
  BY <1>1, <1>2, <1>3, <1>4, <1>5, <1>6, <1>7, <1>8, <1>9, <1>10, <1>11, <1>12 DEF Session

\* So do the wire, ...
LEMMA LinkKeepsWaitInv ==
  ASSUME WaitInv, TypeInv, NEW k \in Client, Link(k)
  PROVE  WaitInv'
<1>1. wire \in [Client -> Seq(Frame)] /\ got \in [Client -> SUBSET Frame] /\ Len(wire[k]) <= 1
  BY DEF TypeInv, SessionInv, SessionTypeOK, WaitInv, StopAndWait
<1>2. UNCHANGED <<pc, inflight, inflightSeq>> /\ wire[k] # <<>>
  BY DEF Link, Receive, LoseFrames, sessionVars
<1>3. wire'[k] = <<>> /\ \A j \in Client : j # k => wire'[j] = wire[j] /\ got'[j] = got[j]
  <2>1. wire[k] \in Seq(Frame)
    BY <1>1
  <2>2. Tail(wire[k]) = <<>>
    BY <1>1, <1>2, <2>1, OneElement
  <2> QED
    BY <1>1, <2>2 DEF Link, Receive, LoseFrames
<1>4. StopAndWait' /\ ReceivedIsOff'
  BY <1>1, <1>2, <1>3 DEF WaitInv, StopAndWait, ReceivedIsOff
<1> QED
  BY <1>1, <1>2, <1>3, <1>4 DEF WaitInv, NothingUnanswered, UnusedIsEmpty

\* ... and every fault.
LEMMA FaultsKeepWaitInv ==
  ASSUME WaitInv, TypeInv, Faults
  PROVE  WaitInv'
<1>0. /\ pc \in [Client -> PC]
      /\ inflight \in [Client -> Command \cup {NoCommand}] /\ inflightSeq \in [Client -> Nat]
  BY DEF TypeInv, SessionInv, SessionTypeOK
<1>1. ASSUME NEW k \in Client, RpcError(k) PROVE WaitInv'
  <2>1. /\ UNCHANGED <<wire, got, inflight, inflightSeq>>
        /\ pc' = [pc EXCEPT ![k] = AfterError(pc[k])] /\ pc[k] \in Awaiting
    BY <1>1 DEF RpcError, Goto, linkVars
  <2>2. /\ AfterError(pc[k]) \in {"read", "pop", "closed"}
        /\ pc[k] \in Leaving => AfterError(pc[k]) = "closed"
    BY <2>1 DEF Awaiting, AfterError, Leaving
  <2> QED
    BY <1>0, <2>1, <2>2, QuietStepKeepsWaitInv DEF Leaving
<1>2. CASE DatabaseError \/ RestartCore \/ Shutdown
  <2>1. UNCHANGED <<pc, wire, got, inflight, inflightSeq>>
    BY <1>2 DEF DatabaseError, RestartCore, Shutdown, sessionVars, linkVars
  <2> QED
    BY <2>1, QuietStepKeepsWaitInv
<1>3. CASE IngressExit
  <2>1. /\ UNCHANGED <<wire, got>>
        /\ pc' = [k \in Client |-> IF k \in Connected THEN "closed" ELSE pc[k]]
        /\ inflight' = [k \in Client |-> NoCommand]
    BY <1>3 DEF IngressExit, linkVars
  <2>2. \A k \in Client : k \in Connected \/ wire[k] = <<>>
    BY DEF Connected, WaitInv, UnusedIsEmpty
  <2> QED
    BY <1>0, <2>1, <2>2, QuietStepKeepsWaitInv DEF Leaving, Connected
<1> QED
  BY <1>1, <1>2, <1>3 DEF Faults

\* Every step keeps these facts together.
LEMMA WaitInvAlways == Spec => []WaitInv
<1>1. Init => WaitInv
  BY DEF Init, WaitInv, StopAndWait, ReceivedIsOff, NothingUnanswered, UnusedIsEmpty
<1>2. TypeInv /\ AckInv /\ WaitInv /\ [Next]_vars => WaitInv'
  <2> SUFFICES ASSUME TypeInv, AckInv, WaitInv, [Next]_vars PROVE WaitInv'
    OBVIOUS
  <2>1. CASE CoreStep \/ UNCHANGED vars
    <3>1. UNCHANGED <<pc, wire, got, inflight, inflightSeq>>
      BY <2>1 DEF CoreStep, vars, sessionVars, linkVars
    <3> QED
      BY <3>1, QuietStepKeepsWaitInv
  <2>2. ASSUME NEW k \in Client, Session(k) \/ Link(k) PROVE WaitInv'
    BY <2>2, SessionKeepsWaitInv, LinkKeepsWaitInv DEF AckInv
  <2>3. CASE Faults
    BY <2>3, FaultsKeepWaitInv
  <2> QED
    BY <2>1, <2>2, <2>3 DEF Next
<1> QED
  BY <1>1, <1>2, TypeInvAlways, AckInvAlways, PTL DEF Spec

\* On a connection that is still served at most one frame is unacknowledged,
\* whatever ACKs are late or repeated and whatever fails.
THEOREM OneFrameAtATime == Spec => []StopAndWait
<1>1. WaitInv => StopAndWait
  BY DEF WaitInv
<1> QED
  BY <1>1, WaitInvAlways, PTL
=============================================================================
