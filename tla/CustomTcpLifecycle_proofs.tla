----------------------- MODULE CustomTcpLifecycle_proofs -----------------------
(***************************************************************************)
(* Where the message of a command is while custom TCP delivers it: never   *)
(* in two places, and along the stages of CommandLifecycle.                *)
(***************************************************************************)
EXTENDS CustomTcpDownlink_proofs, FiniteSetTheorems

-----------------------------------------------------------------------------
(* A goroutine waits for one call, and for which is where it is.           *)

Asks(label, op) ==
  \/ label = "pulling" /\ op = "pull"
  \/ label = "reporting" /\ op \in {"sent", "acked", "failed"}
  \/ label = "requeueing" /\ op = "requeue"

LiveInv ==
  /\ \A x \in calls : x.no <= attempt[x.from] /\ (Live(x) => Asks(pc[x.from], x.op))
  /\ \A x, y \in calls : x.from = y.from /\ Live(x) /\ Live(y) => x = y

\* The Core moves a call on, ...
LEMMA AdvanceKeepsLiveInv ==
  ASSUME LiveInv, NEW x \in calls, NEW z,
         z.from = x.from, z.no = x.no, z.op = x.op,
         calls' \subseteq (calls \ {x}) \cup {z}, UNCHANGED <<pc, attempt>>
  PROVE  LiveInv'
<1>1. \A y \in calls' : y = z \/ (y \in calls /\ y # x)
  OBVIOUS
<1>2. \A y : Live(y)' = Live(y)
  BY DEF Live
<1>3. Live(z) <=> Live(x)
  BY DEF Live
<1>4. \A y \in calls' : y.no <= attempt'[y.from] /\ (Live(y)' => Asks(pc'[y.from], y.op))
  BY <1>1, <1>2, <1>3 DEF LiveInv
<1>5. \A y, w \in calls' : y.from = w.from /\ Live(y) /\ Live(w) => y = w
  BY <1>1, <1>3 DEF LiveInv
<1> QED
  BY <1>2, <1>4, <1>5 DEF LiveInv

\* ... answers it, ...
LEMMA AnswerKeepsLiveInv ==
  ASSUME LiveInv, TypeInv, NEW x \in calls, NEW c, calls' = Answer(x, c), UNCHANGED <<pc, attempt>>
  PROVE  LiveInv'
<1> DEFINE z == [x EXCEPT !.stage = "answered", !.cmd = c]
<1>1. z.from = x.from /\ z.no = x.no /\ z.op = x.op
  BY DEF TypeInv, CoreInv, CoreTypeOK, Call
<1>2. calls' \subseteq (calls \ {x}) \cup {z}
  BY DEF Answer
<1> QED
  BY <1>1, <1>2, AdvanceKeepsLiveInv

\* ... and asks for nothing itself; ...
LEMMA CoreNextKeepsLiveInv ==
  ASSUME LiveInv, TypeInv, CoreStep
  PROVE  LiveInv'
<1>1. CoreNext /\ UNCHANGED pc
  BY DEF CoreStep, sessionVars
<1>2. CASE UNCHANGED calls /\ UNCHANGED attempt
  BY <1>1, <1>2 DEF LiveInv, Live
<1>3. ASSUME NEW x \in calls, ServePull(x) \/ ServeMark(x) \/ FinishRequeue(x) PROVE LiveInv'
  <2>1. UNCHANGED attempt /\ \E c : calls' = Answer(x, c)
    BY <1>3 DEF ServePull, ServeMark, FinishRequeue
  <2> QED
    BY <1>1, <2>1, AnswerKeepsLiveInv
<1>4. ASSUME NEW x \in calls, ServeRequeue(x) PROVE LiveInv'
  <2>1. UNCHANGED attempt
    BY <1>4 DEF ServeRequeue
  <2>2. CASE calls' = Answer(x, x.cmd)
    BY <1>1, <2>1, <2>2, AnswerKeepsLiveInv
  <2>3. CASE calls' = (calls \ {x}) \cup {[x EXCEPT !.stage = "pushed"]}
    <3> DEFINE z == [x EXCEPT !.stage = "pushed"]
    <3>1. z.from = x.from /\ z.no = x.no /\ z.op = x.op
      BY DEF TypeInv, CoreInv, CoreTypeOK, Call
    <3> QED
      BY <1>1, <2>1, <2>3, <3>1, AdvanceKeepsLiveInv
  <2> QED
    BY <1>4, <2>2, <2>3 DEF ServeRequeue
<1>5. ASSUME NEW x \in calls, LoseRequest(x) PROVE LiveInv'
  BY <1>1, <1>5 DEF LoseRequest, LiveInv, Live
<1> QED
  BY <1>1, <1>2, <1>3, <1>4, <1>5 DEF CoreNext, CreateCommand, PushCommand

\* ... a goroutine asks when it waits for nothing, ...
LEMMA RequestKeepsLiveInv ==
  ASSUME LiveInv, TypeInv, NEW k \in Client, NEW op, NEW d, NEW c, NEW label,
         pc[k] \notin Awaiting, Asks(label, op), Request(k, op, d, c, label)
  PROVE  LiveInv'
<1>0. /\ pc \in [Client -> PC] /\ attempt \in [Client -> Nat]
      /\ \A x \in calls : x.from \in Client /\ x.no \in Nat
  BY DEF TypeInv, CoreInv, CoreTypeOK, Call, SessionInv, SessionTypeOK
<1>1. \A x \in calls : x.from = k => ~Live(x)
  BY DEF LiveInv, Asks, Awaiting
<1>2. CASE ctxDone
  <2>1. UNCHANGED <<calls, attempt>> /\ \A j \in Client : j # k => pc'[j] = pc[j]
    BY <1>0, <1>2 DEF Request, Goto
  <2> QED
    BY <1>0, <1>1, <2>1 DEF LiveInv, Live
<1>3. CASE ~ctxDone
  <2> DEFINE z == [from |-> k, no |-> attempt[k], op |-> op, dev |-> d, cmd |-> c,
                   stage |-> "issued"]
  <2>1. /\ calls' = calls \cup {z} /\ attempt' = attempt
        /\ pc' = [pc EXCEPT ![k] = label]
    BY <1>3 DEF Request, Goto, Issue
  <2>2. \A x : Live(x)' = Live(x)
    BY <2>1 DEF Live
  <2>3. z.from = k /\ z.no = attempt[k] /\ z.op = op
    OBVIOUS
  <2> HIDE DEF z
  <2>4. \A x \in calls' : x.no <= attempt'[x.from] /\ (Live(x)' => Asks(pc'[x.from], x.op))
    BY <1>0, <1>1, <2>1, <2>2, <2>3 DEF LiveInv
  <2>5. \A x, y \in calls' : x.from = y.from /\ Live(x) /\ Live(y) => x = y
    BY <1>1, <2>1, <2>3 DEF LiveInv
  <2> QED
    BY <2>2, <2>4, <2>5 DEF LiveInv
<1> QED
  BY <1>2, <1>3

\* ... takes the answer it waits for, ...
LEMMA CollectKeepsLiveInv ==
  ASSUME LiveInv, TypeInv, NEW k \in Client, NEW x \in calls, x.from = k, Live(x), Collect(x),
         \A j \in Client : j # k => pc'[j] = pc[j]
  PROVE  LiveInv'
BY DEF LiveInv, Collect, Live, TypeInv, CoreInv, CoreTypeOK, Call

\* ... or moves when it waits for nothing.
LEMMA MoveKeepsLiveInv ==
  ASSUME LiveInv, TypeInv, NEW k \in Client, pc[k] \notin Awaiting, UNCHANGED <<calls, attempt>>,
         \A j \in Client : j # k => pc'[j] = pc[j]
  PROVE  LiveInv'
<1>1. \A x \in calls : x.from \in Client /\ (x.from = k => ~Live(x))
  BY DEF LiveInv, Asks, Awaiting, TypeInv, CoreInv, CoreTypeOK, Call
<1> QED
  BY <1>1 DEF LiveInv, Live

\* So every step of a goroutine waits for one call at most.
LEMMA SessionKeepsLiveInv ==
  ASSUME LiveInv, TypeInv, NEW k \in Client, Session(k)
  PROVE  LiveInv'
<1>0. pc \in [Client -> PC]
  BY DEF TypeInv, SessionInv, SessionTypeOK
<1>1. CASE (\E d \in Device : Connect(k, d) \/ Rebind(k, d)) \/ ReadUplink(k) \/ ReadFails(k)
  <2>1. /\ pc[k] \notin Awaiting /\ UNCHANGED <<calls, attempt>>
        /\ \A j \in Client : j # k => pc'[j] = pc[j]
    BY <1>0, <1>1 DEF Connect, Rebind, ReadUplink, ReadFails, Goto, coreVars, Awaiting
  <2> QED
    BY <2>1, MoveKeepsLiveInv
<1>2. CASE \E f \in got[k] : ReadAck(k, f)
  <2>1. /\ pc[k] \notin Awaiting
        /\ \/ Request(k, "acked", device[k], inflight[k], "reporting")
           \/ Goto(k, "pop") /\ UNCHANGED <<calls, attempt>>
    BY <1>2 DEF ReadAck, Awaiting
  <2> QED
    BY <1>0, <2>1, RequestKeepsLiveInv, MoveKeepsLiveInv DEF Asks, Goto
<1>3. CASE PopCommand(k)
  <2>1. /\ pc[k] \notin Awaiting
        /\ \/ Request(k, "pull", device[k], NoCommand, "pulling")
           \/ Goto(k, "read") /\ UNCHANGED <<calls, attempt>>
    BY <1>3 DEF PopCommand, Awaiting
  <2> QED
    BY <1>0, <2>1, RequestKeepsLiveInv, MoveKeepsLiveInv DEF Asks, Goto
<1>4. CASE PackFails(k) \/ WriteFrame(k) \/ WriteFails(k)
  <2>1. /\ pc[k] \notin Awaiting
        /\ \/ Request(k, "failed", target[k], held[k], "reporting")
           \/ Request(k, "sent", target[k], held[k], "reporting")
           \/ Request(k, "requeue", target[k], held[k], "requeueing")
    BY <1>4 DEF PackFails, WriteFrame, WriteFails, Awaiting
  <2> QED
    BY <2>1, RequestKeepsLiveInv DEF Asks
<1>5. CASE Close(k)
  <2>1. /\ pc[k] \notin Awaiting
        /\ \/ Request(k, "requeue", target[k], inflight[k], "requeueing")
           \/ Goto(k, "closed") /\ UNCHANGED <<calls, attempt>>
    BY <1>5 DEF Close, Awaiting
  <2> QED
    BY <1>0, <2>1, RequestKeepsLiveInv, MoveKeepsLiveInv DEF Asks, Goto
<1>6. ASSUME NEW x \in calls, Popped(k, x) \/ Reported(k, x) \/ Requeue(k, x) PROVE LiveInv'
  <2>1. x.from = k /\ Live(x) /\ Collect(x) /\ \A j \in Client : j # k => pc'[j] = pc[j]
    BY <1>0, <1>6 DEF Popped, Reported, Requeue, Goto
  <2> QED
    BY <2>1, CollectKeepsLiveInv
<1> QED
  BY <1>1, <1>2, <1>3, <1>4, <1>5, <1>6 DEF Session

\* Who gives up waits for nothing any more.
LEMMA AbandonKeepsLiveInv ==
  ASSUME LiveInv, TypeInv, NEW K \in SUBSET Client, Abandon(K),
         \A j \in Client : j \notin K => pc'[j] = pc[j]
  PROVE  LiveInv'
<1>0. attempt \in [Client -> Nat] /\ \A x \in calls : x.from \in Client /\ x.no \in Nat
  BY DEF TypeInv, CoreInv, CoreTypeOK, Call
<1>1. /\ attempt' = [k \in Client |-> IF k \in K THEN attempt[k] + 1 ELSE attempt[k]]
      /\ calls' \subseteq calls
  BY DEF Abandon
<1>2. \A x \in calls : /\ x.from \in K => ~Live(x)' /\ x.no <= attempt'[x.from]
                       /\ x.from \notin K => Live(x)' = Live(x) /\ attempt'[x.from] = attempt[x.from]
  BY <1>0, <1>1 DEF Live, LiveInv
<1> QED
  BY <1>0, <1>1, <1>2 DEF LiveInv

\* A fault ends calls or leaves their kind as it is.
LEMMA FaultsKeepLiveInv ==
  ASSUME LiveInv, TypeInv, Faults
  PROVE  LiveInv'
<1>0. pc \in [Client -> PC]
  BY DEF TypeInv, SessionInv, SessionTypeOK
<1>1. ASSUME NEW k \in Client, RpcError(k) PROVE LiveInv'
  BY <1>0, <1>1, AbandonKeepsLiveInv DEF RpcError, Goto
<1>2. CASE DatabaseError
  <2>1. UNCHANGED <<pc, attempt>> /\ \E x \in calls : \E c : calls' = Answer(x, c)
    BY <1>2 DEF DatabaseError, StoreError, sessionVars
  <2> QED
    BY <2>1, AnswerKeepsLiveInv
<1>3. CASE RestartCore
  <2> DEFINE z(x) == [x EXCEPT !.stage = "answered", !.cmd = NoCommand]
  <2>1. /\ UNCHANGED <<pc, attempt>>
        /\ calls' = {x \in calls : Live(x) /\ x.stage = "answered"} \cup
                    {z(x) : x \in {y \in calls : Live(y) /\ y.stage # "answered"}}
    BY <1>3 DEF RestartCore, CoreRestart, sessionVars
  <2>2. \A x \in calls : z(x).from = x.from /\ z(x).no = x.no /\ z(x).op = x.op
    BY DEF TypeInv, CoreInv, CoreTypeOK, Call
  <2> HIDE DEF z
  <2>3. \A y \in calls' : \E x \in calls :
          /\ y.from = x.from /\ y.no = x.no /\ y.op = x.op /\ Live(x)
          /\ y = IF x.stage = "answered" THEN x ELSE z(x)
    BY <2>1, <2>2
  <2> QED
    BY <2>1, <2>3 DEF LiveInv, Live
<1>4. CASE Shutdown
  BY <1>4 DEF Shutdown, coreVars, sessionVars, LiveInv, Live
<1>5. CASE IngressExit
  <2>1. Abandon(Connected) /\ pc' = [k \in Client |-> IF k \in Connected THEN "closed" ELSE pc[k]]
    BY <1>5 DEF IngressExit
  <2> QED
    BY <2>1, AbandonKeepsLiveInv DEF Connected
<1> QED
  BY <1>1, <1>2, <1>3, <1>4, <1>5 DEF Faults

\* A goroutine waits for one call at any time, and for one of the kind it asked for.
LEMMA LiveInvAlways == Spec => []LiveInv
<1>1. Init => LiveInv
  BY DEF Init, CoreInit, LiveInv
<1>2. TypeInv /\ LiveInv /\ [Next]_vars => LiveInv'
  <2> SUFFICES ASSUME TypeInv, LiveInv, [Next]_vars PROVE LiveInv'
    OBVIOUS
  <2>1. CASE UNCHANGED vars \/ \E k \in Client : Link(k)
    <3>1. UNCHANGED <<pc, calls, attempt>>
      BY <2>1 DEF vars, Link, Receive, LoseFrames, coreVars, sessionVars
    <3> QED
      BY <3>1 DEF LiveInv, Live
  <2> QED
    BY <2>1, CoreNextKeepsLiveInv, SessionKeepsLiveInv, FaultsKeepLiveInv DEF Next
<1> QED
  BY <1>1, <1>2, TypeInvAlways, PTL DEF Spec

-----------------------------------------------------------------------------
(* What the queue operations do to a queue that holds no message twice.    *)

\* No message is in the queue twice.
NoRepeats(q) == \A i, j \in DOMAIN q : q[i] = q[j] => i = j

\* Dequeue takes the first message out for good.
LEMMA TailOnce ==
  ASSUME NEW S, NEW q \in Seq(S), q # <<>>, NoRepeats(q)
  PROVE  /\ NoRepeats(Tail(q))
         /\ Waiting(Tail(q)) \subseteq Waiting(q) \ {Head(q)}
         /\ Head(q) \in Waiting(q)
<1>1. /\ Len(q) \in Nat \ {0} /\ DOMAIN q = 1 .. Len(q) /\ Head(q) = q[1]
      /\ DOMAIN Tail(q) = 1 .. Len(q) - 1
      /\ \A i \in 1 .. Len(q) - 1 : Tail(q)[i] = q[i + 1]
  BY EmptySeq
<1>2. NoRepeats(Tail(q))
  BY <1>1 DEF NoRepeats
<1>3. \A i \in DOMAIN Tail(q) : Tail(q)[i] \in Waiting(q) \ {Head(q)}
  BY <1>1 DEF NoRepeats, Waiting
<1> QED
  BY <1>1, <1>2, <1>3 DEF Waiting

\* Appending a new message, ...
LEMMA AppendOnce ==
  ASSUME NEW S, NEW q \in Seq(S), NEW m \in S, NoRepeats(q), m \notin Waiting(q)
  PROVE  /\ NoRepeats(Append(q, m))
         /\ Waiting(Append(q, m)) \subseteq Waiting(q) \cup {m}
<1>1. /\ Len(q) \in Nat /\ DOMAIN q = 1 .. Len(q)
      /\ DOMAIN Append(q, m) = 1 .. Len(q) + 1
      /\ Append(q, m)[Len(q) + 1] = m
      /\ \A i \in 1 .. Len(q) : Append(q, m)[i] = q[i]
  OBVIOUS
<1>2. \A i \in 1 .. Len(q) : q[i] # m
  BY <1>1 DEF Waiting
<1>3. \A i \in 1 .. Len(q) + 1 : i = Len(q) + 1 \/ i \in 1 .. Len(q)
  BY <1>1
<1>4. NoRepeats(Append(q, m))
  BY <1>1, <1>2, <1>3 DEF NoRepeats
<1>5. \A i \in DOMAIN Append(q, m) : Append(q, m)[i] \in Waiting(q) \cup {m}
  BY <1>1, <1>3 DEF Waiting
<1> QED
  BY <1>4, <1>5 DEF Waiting

\* Enqueue puts a new message into the queue and repeats none.
LEMMA EnqueuedOnce ==
  ASSUME NEW S, NEW q \in Seq(S), NEW m \in S, NEW cap \in Nat,
         NoRepeats(q), m \notin Waiting(q)
  PROVE  /\ NoRepeats(Enqueued(q, m, cap))
         /\ Waiting(Enqueued(q, m, cap)) \subseteq Waiting(q) \cup {m}
<1>1. CASE QueueFull(q, cap)
  <2>1. q # <<>>
    BY <1>1, EmptySeq DEF QueueFull
  <2>2. Tail(q) \in Seq(S)
    BY <2>1
  <2>3. NoRepeats(Tail(q)) /\ Waiting(Tail(q)) \subseteq Waiting(q)
    BY <2>1, TailOnce
  <2> QED
    BY <1>1, <2>2, <2>3, AppendOnce DEF Enqueued
<1>2. CASE ~QueueFull(q, cap)
  BY <1>2, AppendOnce DEF Enqueued
<1> QED
  BY <1>1, <1>2

\* The queue without its newest message repeats none either, ...
LEMMA TrimmedOnce ==
  ASSUME NEW S, NEW q \in Seq(S), NEW cap \in Nat, NoRepeats(q)
  PROVE  NoRepeats(Trimmed(q, cap)) /\ Waiting(Trimmed(q, cap)) \subseteq Waiting(q)
<1>1. CASE QueueFull(q, cap)
  <2>1. Len(q) \in Nat \ {0} /\ DOMAIN q = 1 .. Len(q)
    BY <1>1 DEF QueueFull
  <2>2. Trimmed(q, cap) = SubSeq(q, 1, Len(q) - 1)
    BY <1>1 DEF Trimmed
  <2>3. /\ DOMAIN SubSeq(q, 1, Len(q) - 1) = 1 .. Len(q) - 1
        /\ \A i \in 1 .. Len(q) - 1 : SubSeq(q, 1, Len(q) - 1)[i] = q[i]
    BY <2>1
  <2> QED
    BY <2>1, <2>2, <2>3 DEF NoRepeats, Waiting
<1>2. CASE ~QueueFull(q, cap)
  BY <1>2 DEF Trimmed
<1> QED
  BY <1>1, <1>2

\* ... nor does the queue after Requeue.
LEMMA RequeuedOnce ==
  ASSUME NEW S, NEW q \in Seq(S), NEW m \in S, NEW cap \in Nat,
         NoRepeats(q), m \notin Waiting(q)
  PROVE  /\ NoRepeats(Requeued(q, m, cap))
         /\ Waiting(Requeued(q, m, cap)) \subseteq Waiting(q) \cup {m}
<1> DEFINE t == Trimmed(q, cap)
           r == <<m>> \o t
<1>1. t \in Seq(S)
  BY TrimmedProperties
<1>2. NoRepeats(t) /\ Waiting(t) \subseteq Waiting(q)
  BY TrimmedOnce
<1> HIDE DEF t
<1>3. /\ Len(t) \in Nat /\ DOMAIN t = 1 .. Len(t)
      /\ DOMAIN r = 1 .. Len(t) + 1 /\ r[1] = m
      /\ \A i \in 2 .. Len(t) + 1 : i - 1 \in 1 .. Len(t) /\ r[i] = t[i - 1]
  <2>1. /\ <<m>> \in Seq(S) /\ Len(<<m>>) = 1 /\ <<m>>[1] = m
        /\ Len(t) \in Nat /\ DOMAIN t = 1 .. Len(t)
    BY <1>1
  <2>2. /\ r \in Seq(S) /\ Len(r) = 1 + Len(t)
        /\ \A i \in 1 .. 1 + Len(t) : r[i] = IF i <= 1 THEN <<m>>[i] ELSE t[i - 1]
    BY <1>1, <2>1, ConcatProperties
  <2> HIDE DEF r
  <2>3. DOMAIN r = 1 .. Len(r)
    BY <2>2
  <2>4. Len(r) = Len(t) + 1
    BY <2>1, <2>2
  <2>5. r[1] = m
    BY <2>1, <2>2
  <2>6. \A i \in 2 .. Len(t) + 1 : i - 1 \in 1 .. Len(t) /\ r[i] = t[i - 1]
    BY <2>1, <2>2
  <2>7. DOMAIN r = 1 .. Len(t) + 1
    BY <2>3, <2>4
  <2>8. Len(t) \in Nat /\ DOMAIN t = 1 .. Len(t)
    BY <2>1
  <2> QED
    BY <2>5, <2>6, <2>7, <2>8
<1> HIDE DEF r
<1>4. \A i \in 1 .. Len(t) : t[i] # m /\ t[i] \in Waiting(q)
  BY <1>2, <1>3 DEF Waiting
<1>5. \A i \in 1 .. Len(t) + 1 : i = 1 \/ i \in 2 .. Len(t) + 1
  BY <1>3
<1>6. NoRepeats(r)
  <2> SUFFICES ASSUME NEW i \in 1 .. Len(t) + 1, NEW j \in 1 .. Len(t) + 1, r[i] = r[j]
               PROVE  i = j
    BY <1>3 DEF NoRepeats
  <2>1. CASE i = 1 \/ j = 1
    BY <1>3, <1>4, <1>5, <2>1
  <2>2. CASE i # 1 /\ j # 1
    <3>1. t[i - 1] = t[j - 1] /\ i - 1 \in DOMAIN t /\ j - 1 \in DOMAIN t
      BY <1>3, <1>5, <2>2
    <3>2. i - 1 = j - 1
      BY <1>2, <3>1 DEF NoRepeats
    <3> QED
      BY <1>3, <3>2
  <2> QED
    BY <2>1, <2>2
<1>7. \A i \in DOMAIN r : r[i] \in Waiting(q) \cup {m}
  BY <1>3, <1>4, <1>5
<1> QED
  BY <1>6, <1>7 DEF Requeued, Waiting, t, r

-----------------------------------------------------------------------------
(* A command is in one place at most.                                      *)

Queued(c)   == \E d \in Device : c \in Waiting(queue[d])
OnCall(c)   == \E x \in calls : Carries(x, c)
InHand(c)   == \E k \in Client : held[k] = c
Unacked(c)  == \E k \in Client : inflight[k] = c

\* No kind of place holds a command twice, ...
OnceQueued ==
  /\ \A d \in Device : NoRepeats(queue[d])
  /\ \A d, e \in Device : d # e => Waiting(queue[d]) \cap Waiting(queue[e]) = {}

OnceOnCall == \A x, y \in calls : \A c \in Command : Carries(x, c) /\ Carries(y, c) => x = y

OnceInHand == \A j, k \in Client : held[j] = held[k] /\ held[j] # NoCommand => j = k

OnceUnacked == \A j, k \in Client : inflight[j] = inflight[k] /\ inflight[j] # NoCommand => j = k

\* ... no two kinds hold the same, ...
Apart(c) ==
  /\ c \in pushing => ~Queued(c) /\ ~OnCall(c) /\ ~InHand(c) /\ ~Unacked(c)
  /\ Queued(c) => ~OnCall(c) /\ ~InHand(c) /\ ~Unacked(c)
  /\ OnCall(c) => ~InHand(c) /\ ~Unacked(c)
  /\ InHand(c) => ~Unacked(c)

\* ... and a command that is settled or not created is nowhere.
Nowhere(c) == c \notin pushing /\ ~Queued(c) /\ ~OnCall(c) /\ ~InHand(c) /\ ~Unacked(c)

Ended(c) ==
  /\ outcome[c] # "open" => Nowhere(c)
  /\ status[c] = "none" => Nowhere(c) /\ outcome[c] = "open"

PlaceInv ==
  /\ OnceQueued /\ OnceOnCall /\ OnceInHand /\ OnceUnacked
  /\ \A c \in Command : Apart(c) /\ Ended(c)

\* The step takes command c to no place where it was not.
Stays(c) ==
  /\ c \in pushing' => c \in pushing
  /\ Queued(c)' => Queued(c)
  /\ OnCall(c)' => OnCall(c)
  /\ InHand(c)' => InHand(c)
  /\ Unacked(c)' => Unacked(c)
  /\ outcome'[c] = outcome[c]
  /\ status'[c] = "none" => status[c] = "none"

\* Such a step keeps c in one place.
LEMMA StayingKeepsApart ==
  ASSUME NEW c, Apart(c), Ended(c), Stays(c)
  PROVE  Apart(c)' /\ Ended(c)'
BY DEF Apart, Ended, Stays, Nowhere

\* PlaceInv means what OneCopyUntilSettled says of places.
LEMMA PlaceInvIsOneCopy ==
  ASSUME PlaceInv, TypeInv
  PROVE  OneCopyUntilSettled
<1> SUFFICES ASSUME NEW c \in Command
             PROVE  /\ \A p, q \in Places(c) : p = q
                    /\ outcome[c] # "open" => Places(c) = {}
  BY DEF OneCopyUntilSettled
<1>0. c # NoCommand
  BY DistinctAssumption
<1> DEFINE AtQueue(p) == \E d \in Device : \E i \in DOMAIN queue[d] :
                            p = <<"queue", d, i>> /\ queue[d][i] = c
           AtCall(p) == \E x \in calls : p = <<"call", x>> /\ Carries(x, c)
           AtHand(p) == \E k \in Client : p = <<"held", k>> /\ held[k] = c
           AtFlight(p) == \E k \in Client : p = <<"inflight", k>> /\ inflight[k] = c
           AtPush(p) == p = <<"pushing", c>> /\ c \in pushing
<1>1. \A p \in Places(c) : AtPush(p) \/ AtQueue(p) \/ AtCall(p) \/ AtHand(p) \/ AtFlight(p)
  <2> SUFFICES ASSUME NEW p \in Places(c)
               PROVE  AtPush(p) \/ AtQueue(p) \/ AtCall(p) \/ AtHand(p) \/ AtFlight(p)
    OBVIOUS
  <2> DEFINE inPush == {<<"pushing", b>> : b \in pushing \cap {c}}
             inQueue == UNION {{<<"queue", d, i>> :
                                  i \in {j \in DOMAIN queue[d] : queue[d][j] = c}} : d \in Device}
             inCall == {<<"call", x>> : x \in {y \in calls : Carries(y, c)}}
             inHand == {<<"held", k>> : k \in {j \in Client : held[j] = c}}
             inFlight == {<<"inflight", k>> : k \in {j \in Client : inflight[j] = c}}
  <2>1. Places(c) = inPush \cup inQueue \cup inCall \cup inHand \cup inFlight
    BY DEF Places
  <2>2. p \in inPush => AtPush(p)
    OBVIOUS
  <2>3. p \in inQueue => AtQueue(p)
    <3> SUFFICES ASSUME NEW d \in Device,
                        p \in {<<"queue", d, i>> : i \in {j \in DOMAIN queue[d] : queue[d][j] = c}}
                 PROVE  AtQueue(p)
      OBVIOUS
    <3> QED
      OBVIOUS
  <2>4. p \in inCall => AtCall(p)
    OBVIOUS
  <2>5. p \in inHand => AtHand(p)
    OBVIOUS
  <2>6. p \in inFlight => AtFlight(p)
    OBVIOUS
  <2> HIDE DEF AtPush, AtQueue, AtCall, AtHand, AtFlight, inPush, inQueue, inCall, inHand, inFlight
  <2> QED
    BY <2>1, <2>2, <2>3, <2>4, <2>5, <2>6
<1>2. \A p : /\ AtQueue(p) => Queued(c)
             /\ AtCall(p) => OnCall(c)
             /\ AtHand(p) => InHand(c)
             /\ AtFlight(p) => Unacked(c)
  BY DEF Queued, OnCall, InHand, Unacked, Waiting
<1>3. \A p, q : AtPush(p) /\ AtPush(q) => p = q
  OBVIOUS
<1>4. \A p, q : AtQueue(p) /\ AtQueue(q) => p = q
  <2> SUFFICES ASSUME NEW d \in Device, NEW e \in Device,
                      NEW i \in DOMAIN queue[d], NEW j \in DOMAIN queue[e],
                      queue[d][i] = c, queue[e][j] = c
               PROVE  d = e /\ i = j
    OBVIOUS
  <2>1. c \in Waiting(queue[d]) /\ c \in Waiting(queue[e])
    BY DEF Waiting
  <2>2. d = e
    BY <2>1 DEF PlaceInv, OnceQueued
  <2> QED
    BY <2>2 DEF PlaceInv, OnceQueued, NoRepeats
<1>5. \A p, q : AtCall(p) /\ AtCall(q) => p = q
  BY DEF PlaceInv, OnceOnCall
<1>6. \A p, q : AtHand(p) /\ AtHand(q) => p = q
  BY <1>0 DEF PlaceInv, OnceInHand
<1>7. \A p, q : AtFlight(p) /\ AtFlight(q) => p = q
  BY <1>0 DEF PlaceInv, OnceUnacked
<1>8. Apart(c) /\ Ended(c)
  BY DEF PlaceInv
<1>9. \A p : AtPush(p) => c \in pushing
  OBVIOUS
<1> HIDE DEF AtPush, AtQueue, AtCall, AtHand, AtFlight
<1>10. \A p, q \in Places(c) : p = q
  BY <1>1, <1>2, <1>3, <1>4, <1>5, <1>6, <1>7, <1>8, <1>9 DEF Apart
<1>11. outcome[c] # "open" => Places(c) = {}
  BY <1>1, <1>2, <1>8, <1>9 DEF Ended, Nowhere
<1> QED
  BY <1>10, <1>11

\* A step that moves no command keeps every command in one place.
LEMMA StayingKeepsPlaceInv ==
  ASSUME PlaceInv,
         queue' = queue \/ (\A d \in Device : queue'[d] = <<>>),
         \A x \in calls' : \A c \in Command : Carries(x, c) => x \in calls,
         pushing' \subseteq pushing,
         \A k \in Client : held'[k] \in {held[k], NoCommand},
         \A k \in Client : inflight'[k] \in {inflight[k], NoCommand},
         outcome' = outcome,
         \A c \in Command : status'[c] = "none" => status[c] = "none"
  PROVE  PlaceInv'
<1>0. NoCommand \notin Command
  BY DistinctAssumption
<1>1. OnceQueued' /\ \A c \in Command : Queued(c)' => Queued(c)
  <2>1. CASE queue' = queue
    BY <2>1 DEF PlaceInv, OnceQueued, Queued
  <2>2. CASE \A d \in Device : queue'[d] = <<>>
    BY <2>2 DEF OnceQueued, NoRepeats, Waiting, Queued
  <2> QED
    BY <2>1, <2>2
<1>2. OnceOnCall' /\ \A c \in Command : OnCall(c)' => OnCall(c)
  BY DEF PlaceInv, OnceOnCall, OnCall, Carries
<1>3. OnceInHand' /\ \A c \in Command : InHand(c)' => InHand(c)
  BY <1>0 DEF PlaceInv, OnceInHand, InHand
<1>4. OnceUnacked' /\ \A c \in Command : Unacked(c)' => Unacked(c)
  BY <1>0 DEF PlaceInv, OnceUnacked, Unacked
<1>5. \A c \in Command : Stays(c)
  BY <1>1, <1>2, <1>3, <1>4 DEF Stays
<1>6. \A c \in Command : Apart(c)' /\ Ended(c)'
  BY <1>5, StayingKeepsApart DEF PlaceInv
<1> QED
  BY <1>1, <1>2, <1>3, <1>4, <1>6 DEF PlaceInv

\* A step that moves one command only.
LEMMA MovingKeepsPlaceInv ==
  ASSUME PlaceInv, OnceQueued', OnceOnCall', OnceInHand', OnceUnacked', NEW b,
         \A c \in Command \ {b} : Stays(c),
         b \in Command => Apart(b)' /\ Ended(b)'
  PROVE  PlaceInv'
<1>1. \A c \in Command : Apart(c)' /\ Ended(c)'
  BY StayingKeepsApart DEF PlaceInv
<1> QED
  BY <1>1 DEF PlaceInv

\* One queue changes and takes only messages in that were in none.
LEMMA QueueKeepsOnce ==
  ASSUME queue \in [Device -> Seq(Command)], OnceQueued, NEW d \in Device, NEW q, NEW M,
         queue' = [queue EXCEPT ![d] = q],
         NoRepeats(q), Waiting(q) \subseteq Waiting(queue[d]) \cup M,
         \A m \in M : ~Queued(m)
  PROVE  OnceQueued' /\ \A c : Queued(c)' => Queued(c) \/ c \in M
<1>1. queue'[d] = q /\ \A e \in Device : e # d => queue'[e] = queue[e]
  OBVIOUS
<1>2. \A e \in Device : NoRepeats(queue'[e])
  BY <1>1 DEF OnceQueued
<1>3. \A e \in Device : Waiting(queue'[e]) \subseteq
        (IF e = d THEN Waiting(queue[e]) \cup M ELSE Waiting(queue[e]))
  BY <1>1
<1>4. \A e, f \in Device : e # f => Waiting(queue'[e]) \cap Waiting(queue'[f]) = {}
  BY <1>3 DEF OnceQueued, Queued
<1>5. \A c : Queued(c)' => Queued(c) \/ c \in M
  BY <1>3 DEF Queued
<1> QED
  BY <1>2, <1>4, <1>5 DEF OnceQueued

\* An answer carries a message only if it is that of a pull.
LEMMA AnswerCarries ==
  ASSUME TypeInv, NEW x \in calls, NEW c, x.op # "pull" \/ c = NoCommand, calls' = Answer(x, c)
  PROVE  \A y \in calls' : \A b \in Command : Carries(y, b) => y \in calls /\ y # x
<1> DEFINE z == [x EXCEPT !.stage = "answered", !.cmd = c]
<1>1. z.op = x.op /\ z.stage = "answered" /\ z.cmd = c
  BY DEF TypeInv, CoreInv, CoreTypeOK, Call
<1>2. \A b \in Command : ~Carries(z, b)
  BY <1>1, DistinctAssumption DEF Carries
<1>3. \A y \in calls' : y = z \/ (y \in calls /\ y # x)
  BY DEF Answer
<1> QED
  BY <1>2, <1>3

\* The steps of the Core move one message at most.
LEMMA CoreNextKeepsPlaceInv ==
  ASSUME PlaceInv, TypeInv, CoreStep
  PROVE  PlaceInv'
<1>0. /\ CoreNext /\ UNCHANGED <<held, inflight, outcome>>
      /\ queue \in [Device -> Seq(Command)] /\ status \in [Command -> Status]
      /\ calls \subseteq Call
  BY DEF CoreStep, sessionVars, history, TypeInv, CoreInv, CoreTypeOK
<1>00. /\ \A c : InHand(c)' = InHand(c) /\ Unacked(c)' = Unacked(c)
       /\ OnceInHand' /\ OnceUnacked'
  BY <1>0 DEF InHand, Unacked, PlaceInv, OnceInHand, OnceUnacked
<1>1. ASSUME NEW b \in Command, NEW d \in Device, CreateCommand(b, d) PROVE PlaceInv'
  <2>1. /\ UNCHANGED <<queue, calls>> /\ pushing' = pushing \cup {b}
        /\ status[b] = "none" /\ status' = [status EXCEPT ![b] = "queued"]
    BY <1>1 DEF CreateCommand
  <2>2. \A c : Queued(c)' = Queued(c) /\ OnCall(c)' = OnCall(c)
    BY <2>1 DEF Queued, OnCall
  <2>3. OnceQueued' /\ OnceOnCall'
    BY <2>1 DEF PlaceInv, OnceQueued, OnceOnCall
  <2>4. \A c \in Command \ {b} : Stays(c)
    BY <1>0, <1>00, <2>1, <2>2 DEF Stays
  <2>5. Nowhere(b) /\ outcome[b] = "open"
    BY <2>1 DEF PlaceInv, Ended
  <2>6. Apart(b)' /\ Ended(b)'
    BY <1>0, <1>00, <2>1, <2>2, <2>5 DEF Apart, Ended, Nowhere
  <2> QED
    BY <1>00, <2>3, <2>4, <2>6, MovingKeepsPlaceInv
<1>2. ASSUME NEW b \in Command, PushCommand(b) PROVE PlaceInv'
  <2> DEFINE d == owner[b]
             q == Enqueued(queue[d], b, Capacity)
  <2>1. /\ b \in pushing /\ pushing' = pushing \ {b} /\ UNCHANGED <<status, calls>>
        /\ queue' = [queue EXCEPT ![d] = q] /\ d \in Device
    BY <1>2 DEF PushCommand, TypeInv, CoreInv, PushingOwned
  <2>2. Apart(b) /\ ~Queued(b) /\ ~OnCall(b) /\ ~InHand(b) /\ ~Unacked(b)
    BY <2>1 DEF PlaceInv, Apart
  <2>3. NoRepeats(q) /\ Waiting(q) \subseteq Waiting(queue[d]) \cup {b}
    <3>1. queue[d] \in Seq(Command) /\ NoRepeats(queue[d]) /\ b \notin Waiting(queue[d])
      BY <1>0, <2>1, <2>2 DEF PlaceInv, OnceQueued, Queued
    <3> QED
      BY <3>1, EnqueuedOnce, CapacityAssumption
  <2> HIDE DEF q, d
  <2>4. OnceQueued' /\ \A c : Queued(c)' => Queued(c) \/ c \in {b}
    BY <1>0, <2>1, <2>2, <2>3, QueueKeepsOnce DEF PlaceInv
  <2>5. OnceOnCall' /\ \A c : OnCall(c)' = OnCall(c)
    BY <2>1 DEF PlaceInv, OnceOnCall, OnCall
  <2>6. \A c \in Command \ {b} : Stays(c)
    BY <1>0, <1>00, <2>1, <2>4, <2>5 DEF Stays
  <2>7. Ended(b)'
    BY <1>0, <2>1 DEF PlaceInv, Ended, Nowhere
  <2>8. Apart(b)'
    BY <1>00, <2>1, <2>2, <2>5 DEF Apart
  <2> QED
    BY <1>00, <2>4, <2>5, <2>6, <2>7, <2>8, MovingKeepsPlaceInv
<1>3. ASSUME NEW x \in calls, ServePull(x) PROVE PlaceInv'
  <2> DEFINE d == x.dev
  <2>1. /\ d \in Device /\ queue[d] \in Seq(Command)
        /\ x.op = "pull" /\ x.stage = "issued" /\ UNCHANGED <<status, pushing>>
    BY <1>0, <1>3 DEF ServePull, Call
  <2>2. CASE queue[d] = <<>>
    <3>1. calls' = Answer(x, NoCommand) /\ queue' = queue
      BY <1>3, <2>2 DEF ServePull
    <3>2. \A y \in calls' : \A c \in Command : Carries(y, c) => y \in calls
      BY <3>1, AnswerCarries
    <3> QED
      BY <1>0, <2>1, <3>1, <3>2, StayingKeepsPlaceInv
  <2>3. CASE queue[d] # <<>>
    <3>0. PICK b : b = Head(queue[d])
      OBVIOUS
    <3> DEFINE z == [x EXCEPT !.stage = "answered", !.cmd = b]
    <3>1. calls' \subseteq (calls \ {x}) \cup {z} /\ queue' = [queue EXCEPT ![d] = Tail(queue[d])]
      BY <1>3, <2>3, <3>0 DEF ServePull, Answer
    <3>2. b \in Command /\ z.cmd = b
      BY <1>0, <2>1, <2>3, <3>0 DEF Call
    <3>3. /\ NoRepeats(Tail(queue[d])) /\ b \in Waiting(queue[d])
          /\ Waiting(Tail(queue[d])) \subseteq Waiting(queue[d]) \ {b}
      BY <2>1, <2>3, <3>0, TailOnce DEF PlaceInv, OnceQueued
    <3> HIDE DEF z, d
    <3>4. Queued(b) /\ Apart(b)
      BY <2>1, <3>2, <3>3 DEF Queued, PlaceInv
    <3>5. OnceQueued' /\ \A c : Queued(c)' => Queued(c)
      <4> DEFINE M == {} q == Tail(queue[d])
      <4>1. NoRepeats(q) /\ Waiting(q) \subseteq Waiting(queue[d]) \cup M /\ \A m \in M : ~Queued(m)
        BY <3>3
      <4>2. queue' = [queue EXCEPT ![d] = q] /\ \A c : c \notin M
        BY <3>1
      <4> HIDE DEF M, q
      <4>3. OnceQueued' /\ \A c : Queued(c)' => Queued(c) \/ c \in M
        BY <1>0, <2>1, <4>1, <4>2, QueueKeepsOnce DEF PlaceInv
      <4> QED
        BY <4>2, <4>3
    <3>6. ~Queued(b)'
      <4>1. queue'[d] = Tail(queue[d]) /\ \A e \in Device : e # d => queue'[e] = queue[e]
        BY <1>0, <2>1, <3>1
      <4>2. \A e \in Device : e # d => b \notin Waiting(queue[e])
        BY <2>1, <3>3 DEF PlaceInv, OnceQueued
      <4> QED
        BY <3>3, <4>1, <4>2 DEF Queued
    <3>7. \A y \in calls' : \A c \in Command : Carries(y, c) => (y \in calls /\ c # b) \/ (y = z /\ c = b)
      <4>1. \A y \in calls : ~Carries(y, b)
        BY <3>4 DEF Apart, OnCall
      <4>2. \A c : Carries(z, c) => c = b
        BY <3>2 DEF Carries
      <4> QED
        BY <3>1, <4>1, <4>2
    <3>8. OnceOnCall' /\ \A c \in Command \ {b} : OnCall(c)' => OnCall(c)
      BY <3>7 DEF PlaceInv, OnceOnCall, OnCall, Carries
    <3>9. \A c \in Command \ {b} : Stays(c)
      BY <1>0, <1>00, <2>1, <3>5, <3>8 DEF Stays
    <3>10. Apart(b)' /\ Ended(b)'
      BY <1>0, <1>00, <2>1, <3>2, <3>4, <3>6 DEF Apart, PlaceInv, Ended, Nowhere
    <3> QED
      BY <1>00, <3>5, <3>8, <3>9, <3>10, MovingKeepsPlaceInv
  <2> QED
    BY <2>2, <2>3
<1>4. ASSUME NEW x \in calls, ServeMark(x) PROVE PlaceInv'
  <2>1. /\ calls' = Answer(x, x.cmd) /\ x.op \in {"sent", "acked", "failed"}
        /\ UNCHANGED <<queue, pushing>>
        /\ status' = [status EXCEPT ![x.cmd] = IF @ = "none" THEN @ ELSE x.op]
    BY <1>4 DEF ServeMark
  <2>2. \A y \in calls' : \A c \in Command : Carries(y, c) => y \in calls
    BY <2>1, AnswerCarries
  <2>3. \A c \in Command : status'[c] = "none" => status[c] = "none"
    BY <1>0, <2>1
  <2> QED
    BY <1>0, <2>1, <2>2, <2>3, StayingKeepsPlaceInv
<1>5. ASSUME NEW x \in calls, ServeRequeue(x) PROVE PlaceInv'
  <2> DEFINE d == x.dev
             b == x.cmd
             q == Requeued(queue[d], b, Capacity)
             z == [x EXCEPT !.stage = "pushed"]
  <2>1. /\ d \in Device /\ queue[d] \in Seq(Command) /\ b \in Command
        /\ x.op = "requeue" /\ x.stage = "issued" /\ UNCHANGED pushing
    BY <1>0, <1>5 DEF ServeRequeue, Call, TypeInv, CoreInv, CallsServable
  <2>2. CASE b \in EmptyPayload \/ RequeueRefused(queue[d], Capacity)
    <3>1. calls' = Answer(x, b)
      BY <1>5, <2>2 DEF ServeRequeue
    <3>2. \A y \in calls' : \A c \in Command : Carries(y, c) => y \in calls
      BY <2>1, <3>1, AnswerCarries
    <3>3. queue' = queue
      BY <1>0, <1>5, <2>1, <2>2 DEF ServeRequeue, Requeued
    <3>4. \A c \in Command : status'[c] = "none" => status[c] = "none"
      BY <1>0, <1>5, <2>2 DEF ServeRequeue
    <3> QED
      BY <1>0, <2>1, <3>2, <3>3, <3>4, StayingKeepsPlaceInv
  <2>3. CASE ~(b \in EmptyPayload \/ RequeueRefused(queue[d], Capacity))
    <3>1. /\ calls' = (calls \ {x}) \cup {z} /\ UNCHANGED status
          /\ queue' = [queue EXCEPT ![d] = q]
      BY <1>5, <2>3 DEF ServeRequeue
    <3>2. z.stage = "pushed" /\ Carries(x, b)
      BY <1>0, <2>1 DEF Call, Carries
    <3>3. \A c : ~Carries(z, c)
      BY <3>2 DEF Carries
    <3>4. OnCall(b) /\ Apart(b) /\ Ended(b)
      BY <2>1, <3>2 DEF OnCall, PlaceInv
    <3>5. NoRepeats(q) /\ Waiting(q) \subseteq Waiting(queue[d]) \cup {b}
      <4>1. NoRepeats(queue[d]) /\ b \notin Waiting(queue[d])
        BY <2>1, <3>4 DEF PlaceInv, OnceQueued, Apart, Queued
      <4> QED
        BY <2>1, <4>1, RequeuedOnce, CapacityAssumption
    <3> HIDE DEF q, z, d, b
    <3>6. OnceQueued' /\ \A c : Queued(c)' => Queued(c) \/ c \in {b}
      BY <1>0, <2>1, <3>1, <3>4, <3>5, QueueKeepsOnce DEF PlaceInv, Apart
    <3>7. \A y \in calls' : \A c : Carries(y, c) => y \in calls /\ y # x
      BY <3>1, <3>3
    <3>8. OnceOnCall' /\ (\A c : OnCall(c)' => OnCall(c)) /\ ~OnCall(b)'
      BY <2>1, <3>2, <3>7 DEF PlaceInv, OnceOnCall, OnCall, Carries
    <3>9. \A c \in Command \ {b} : Stays(c)
      BY <1>0, <1>00, <2>1, <3>1, <3>6, <3>8 DEF Stays
    <3>10. Apart(b)' /\ Ended(b)'
      BY <1>0, <1>00, <2>1, <3>1, <3>4, <3>8 DEF Apart, Ended, Nowhere
    <3> QED
      BY <1>00, <3>6, <3>8, <3>9, <3>10, MovingKeepsPlaceInv
  <2> QED
    BY <2>2, <2>3
<1>6. ASSUME NEW x \in calls, FinishRequeue(x) PROVE PlaceInv'
  <2>1. /\ calls' = Answer(x, x.cmd) /\ x.op = "requeue"
        /\ UNCHANGED <<queue, pushing>> /\ status' = [status EXCEPT ![x.cmd] = "queued"]
    BY <1>6 DEF FinishRequeue, TypeInv, CoreInv, CallsServable
  <2>2. \A y \in calls' : \A c \in Command : Carries(y, c) => y \in calls
    BY <2>1, AnswerCarries
  <2>3. \A c \in Command : status'[c] = "none" => status[c] = "none"
    BY <1>0, <2>1
  <2> QED
    BY <1>0, <2>1, <2>2, <2>3, StayingKeepsPlaceInv
<1>7. ASSUME NEW x \in calls, LoseRequest(x) PROVE PlaceInv'
  BY <1>0, <1>7, StayingKeepsPlaceInv DEF LoseRequest
<1> QED
  BY <1>0, <1>1, <1>2, <1>3, <1>4, <1>5, <1>6, <1>7 DEF CoreNext

\* Only a requeue carries a message to the Core, ...
LEMMA RequestCarries ==
  ASSUME NEW k, NEW op, op # "requeue", NEW d, NEW c, NEW label, Request(k, op, d, c, label)
  PROVE  \A y \in calls' : \A b \in Command : Carries(y, b) => y \in calls
<1> DEFINE w == [from |-> k, no |-> attempt[k], op |-> op, dev |-> d, cmd |-> c,
                 stage |-> "issued"]
<1>1. calls' \subseteq calls \cup {w}
  BY DEF Request, Issue
<1>2. \A b \in Command : ~Carries(w, b)
  BY DEF Carries
<1> QED
  BY <1>1, <1>2

\* ... and it carries the message it is called with.
LEMMA RequeueCarriesOnce ==
  ASSUME OnceOnCall, NEW k, NEW d, NEW c \in Command, NEW label, ~OnCall(c),
         Request(k, "requeue", d, c, label)
  PROVE  OnceOnCall' /\ \A b \in Command \ {c} : OnCall(b)' => OnCall(b)
<1> DEFINE w == [from |-> k, no |-> attempt[k], op |-> "requeue", dev |-> d, cmd |-> c,
                 stage |-> "issued"]
<1>1. calls' \subseteq calls \cup {w}
  BY DEF Request, Issue
<1>2. \A b \in Command : Carries(w, b) => b = c
  BY DEF Carries
<1> HIDE DEF w
<1>3. \A y \in calls' : \A b \in Command : Carries(y, b) => (y = w /\ b = c) \/ (y \in calls /\ b # c)
  BY <1>1, <1>2 DEF OnCall
<1>4. OnceOnCall'
  <2>1. \A x, y \in calls' : \A b \in Command : Carries(x, b) /\ Carries(y, b) => x = y
    BY <1>3 DEF OnceOnCall
  <2> QED
    BY <2>1 DEF OnceOnCall, Carries
<1>5. \A b \in Command \ {c} : OnCall(b)' => OnCall(b)
  BY <1>3 DEF OnCall, Carries
<1> QED
  BY <1>4, <1>5

\* A goroutine moves the message it holds or waits for, ...
LEMMA SessionKeepsPlaceInv ==
  ASSUME PlaceInv, TypeInv, LiveInv, NEW k \in Client, Session(k)
  PROVE  PlaceInv'
<1>0. /\ UNCHANGED <<queue, pushing, status>> /\ NoCommand \notin Command
      /\ held \in [Client -> Command \cup {NoCommand}]
      /\ inflight \in [Client -> Command \cup {NoCommand}]
      /\ outcome \in [Command -> {"open", "confirmed", "rejected"}]
      /\ calls \subseteq Call /\ pc \in [Client -> PC]
      /\ OnceQueued' /\ \A c : Queued(c)' = Queued(c)
  <2>1. UNCHANGED <<queue, pushing, status>>
    BY DEF Session, Connect, Rebind, ReadUplink, ReadAck, ReadFails, PopCommand, PackFails,
           WriteFrame, WriteFails, Close, Popped, Reported, Requeue, coreVars, coreData
  <2> QED
    BY <2>1, DistinctAssumption
    DEF TypeInv, SessionInv, SessionTypeOK, CoreInv, CoreTypeOK, PlaceInv, OnceQueued, Queued
<1>1. CASE UNCHANGED <<held, inflight, outcome>> /\ calls' \subseteq calls
  BY <1>0, <1>1, StayingKeepsPlaceInv
<1>2. ASSUME NEW f \in got[k], ReadAck(k, f) PROVE PlaceInv'
  <2>1. CASE ~AckMatches(k, f)
    BY <1>1, <1>2, <2>1 DEF ReadAck
  <2>2. CASE AckMatches(k, f)
    <3>1. PICK b : b = inflight[k]
      OBVIOUS
    <3>2. /\ b \in Command /\ Request(k, "acked", device[k], b, "reporting") /\ held' = held
          /\ inflight' = [inflight EXCEPT ![k] = NoCommand]
          /\ outcome' = [outcome EXCEPT ![b] = "confirmed"]
      BY <1>0, <1>2, <2>2, <3>1 DEF ReadAck, AckMatches, ClearInflight
    <3>3. \A y \in calls' : \A c \in Command : Carries(y, c) => y \in calls
      BY <3>2, RequestCarries
    <3>4. OnceOnCall' /\ \A c \in Command : OnCall(c)' => OnCall(c)
      BY <3>3 DEF PlaceInv, OnceOnCall, OnCall, Carries
    <3>5. OnceInHand' /\ \A c : InHand(c)' = InHand(c)
      BY <3>2 DEF PlaceInv, OnceInHand, InHand
    <3>6. OnceUnacked' /\ (\A c \in Command : Unacked(c)' => Unacked(c)) /\ ~Unacked(b)'
      BY <1>0, <3>1, <3>2 DEF PlaceInv, OnceUnacked, Unacked
    <3>7. Unacked(b) /\ Apart(b) /\ Ended(b)
      BY <3>1, <3>2 DEF Unacked, PlaceInv
    <3>8. \A c \in Command \ {b} : Stays(c)
      BY <1>0, <3>2, <3>4, <3>5, <3>6 DEF Stays
    <3>9. Apart(b)' /\ Ended(b)'
      BY <1>0, <3>2, <3>4, <3>5, <3>6, <3>7 DEF Apart, Ended, Nowhere
    <3> QED
      BY <1>0, <3>4, <3>5, <3>6, <3>8, <3>9, MovingKeepsPlaceInv
  <2> QED
    BY <2>1, <2>2
<1>3. CASE PopCommand(k)
  <2>1. UNCHANGED <<held, inflight, outcome>>
    BY <1>3 DEF PopCommand, history
  <2>2. \A y \in calls' : \A c \in Command : Carries(y, c) => y \in calls
    BY <1>3, RequestCarries DEF PopCommand
  <2> QED
    BY <1>0, <2>1, <2>2, StayingKeepsPlaceInv
<1>4. ASSUME NEW x \in calls, Popped(k, x) PROVE PlaceInv'
  <2>1. /\ x.op = "pull" /\ x.stage = "answered" /\ calls' = calls \ {x}
        /\ held' = [held EXCEPT ![k] = x.cmd] /\ UNCHANGED <<inflight, outcome>>
    <3>1. pc[k] = "pulling" /\ x.from = k /\ Live(x)
      BY <1>4 DEF Popped
    <3> QED
      BY <1>4, <3>1 DEF LiveInv, Asks, Popped, Collect, history
  <2>2. CASE x.cmd = NoCommand
    BY <1>0, <2>1, <2>2, StayingKeepsPlaceInv
  <2>3. CASE x.cmd # NoCommand
    <3> DEFINE b == x.cmd
    <3>1. b \in Command /\ Carries(x, b)
      BY <1>0, <2>1, <2>3 DEF Call, Carries
    <3> HIDE DEF b
    <3>2. OnCall(b) /\ Apart(b) /\ Ended(b)
      BY <3>1 DEF OnCall, PlaceInv
    <3>3. OnceOnCall' /\ (\A c \in Command : OnCall(c)' => OnCall(c)) /\ ~OnCall(b)'
      BY <2>1, <3>1 DEF PlaceInv, OnceOnCall, OnCall, Carries
    <3>4. held' = [held EXCEPT ![k] = b]
      BY <2>1 DEF b
    <3>5. OnceInHand' /\ \A c \in Command \ {b} : InHand(c)' => InHand(c)
      BY <1>0, <3>2, <3>4 DEF PlaceInv, OnceInHand, InHand, Apart
    <3>6. OnceUnacked' /\ \A c : Unacked(c)' = Unacked(c)
      BY <2>1 DEF PlaceInv, OnceUnacked, Unacked
    <3>7. \A c \in Command \ {b} : Stays(c)
      BY <1>0, <2>1, <3>3, <3>5, <3>6 DEF Stays
    <3>8. Apart(b)' /\ Ended(b)'
      BY <1>0, <2>1, <3>1, <3>2, <3>3, <3>6 DEF Apart, Ended, Nowhere
    <3> QED
      BY <1>0, <3>3, <3>5, <3>6, <3>7, <3>8, MovingKeepsPlaceInv
  <2> QED
    BY <2>2, <2>3
\* The message leaves the hand of the goroutine.
<1>5. CASE PackFails(k) \/ WriteFrame(k) \/ WriteFails(k)
  <2>1. PICK b : b = held[k]
    OBVIOUS
  <2>2. b \in Command /\ held' = [held EXCEPT ![k] = NoCommand]
    BY <1>0, <1>5, <2>1 DEF PackFails, WriteFrame, WriteFails, Spend, TypeInv, SessionInv,
                           SendingHolds
  <2>3. InHand(b) /\ Apart(b) /\ Ended(b)
    BY <2>1, <2>2 DEF InHand, PlaceInv
  <2>4. OnceInHand' /\ (\A c \in Command : InHand(c)' => InHand(c)) /\ ~InHand(b)'
    BY <1>0, <2>1, <2>2 DEF PlaceInv, OnceInHand, InHand
  <2>5. CASE PackFails(k)
    <3>1. /\ Request(k, "failed", target[k], b, "reporting") /\ UNCHANGED inflight
          /\ outcome' = [outcome EXCEPT ![b] = "rejected"]
      BY <2>1, <2>5 DEF PackFails
    <3>2. \A y \in calls' : \A c \in Command : Carries(y, c) => y \in calls
      BY <3>1, RequestCarries
    <3>3. OnceOnCall' /\ \A c \in Command : OnCall(c)' => OnCall(c)
      BY <3>2 DEF PlaceInv, OnceOnCall, OnCall, Carries
    <3>4. OnceUnacked' /\ \A c : Unacked(c)' = Unacked(c)
      BY <3>1 DEF PlaceInv, OnceUnacked, Unacked
    <3>5. \A c \in Command \ {b} : Stays(c)
      BY <1>0, <2>4, <3>1, <3>3, <3>4 DEF Stays
    <3>6. Apart(b)' /\ Ended(b)'
      BY <1>0, <2>2, <2>3, <2>4, <3>1, <3>3, <3>4 DEF Apart, Ended, Nowhere
    <3> QED
      BY <1>0, <2>4, <3>3, <3>4, <3>5, <3>6, MovingKeepsPlaceInv
  <2>6. CASE WriteFrame(k)
    <3>1. /\ Request(k, "sent", target[k], b, "reporting") /\ UNCHANGED outcome
          /\ inflight' = [inflight EXCEPT ![k] = b]
      BY <2>1, <2>6 DEF WriteFrame
    <3>2. \A y \in calls' : \A c \in Command : Carries(y, c) => y \in calls
      BY <3>1, RequestCarries
    <3>3. OnceOnCall' /\ \A c \in Command : OnCall(c)' => OnCall(c)
      BY <3>2 DEF PlaceInv, OnceOnCall, OnCall, Carries
    <3>4. OnceUnacked' /\ \A c \in Command \ {b} : Unacked(c)' => Unacked(c)
      BY <1>0, <2>3, <3>1 DEF PlaceInv, OnceUnacked, Unacked, Apart
    <3>5. \A c \in Command \ {b} : Stays(c)
      BY <1>0, <2>4, <3>1, <3>3, <3>4 DEF Stays
    <3>6. Apart(b)' /\ Ended(b)'
      BY <1>0, <2>2, <2>3, <2>4, <3>1, <3>3 DEF Apart, Ended, Nowhere
    <3> QED
      BY <1>0, <2>4, <3>3, <3>4, <3>5, <3>6, MovingKeepsPlaceInv
  <2>7. CASE WriteFails(k)
    <3>1. Request(k, "requeue", target[k], b, "requeueing") /\ UNCHANGED <<inflight, outcome>>
      BY <2>1, <2>7 DEF WriteFails, history
    <3>2. OnceOnCall' /\ \A c \in Command \ {b} : OnCall(c)' => OnCall(c)
      BY <2>2, <2>3, <3>1, RequeueCarriesOnce DEF PlaceInv, Apart
    <3>3. OnceUnacked' /\ \A c : Unacked(c)' = Unacked(c)
      BY <3>1 DEF PlaceInv, OnceUnacked, Unacked
    <3>4. \A c \in Command \ {b} : Stays(c)
      BY <1>0, <2>4, <3>1, <3>2, <3>3 DEF Stays
    <3>5. Apart(b)' /\ Ended(b)'
      BY <1>0, <2>2, <2>3, <2>4, <3>1, <3>3 DEF Apart, Ended, Nowhere
    <3> QED
      BY <1>0, <2>4, <3>2, <3>3, <3>4, <3>5, MovingKeepsPlaceInv
  <2> QED
    BY <1>5, <2>5, <2>6, <2>7
<1>6. CASE Close(k)
  <2>1. CASE inflight[k] = NoCommand
    BY <1>0, <1>6, <2>1, StayingKeepsPlaceInv DEF Close, ClearInflight, history
  <2>2. CASE inflight[k] # NoCommand
    <3>1. PICK b : b = inflight[k]
      OBVIOUS
    <3>2. /\ b \in Command /\ Request(k, "requeue", target[k], b, "requeueing")
          /\ UNCHANGED <<held, outcome>> /\ inflight' = [inflight EXCEPT ![k] = NoCommand]
      BY <1>0, <1>6, <2>2, <3>1 DEF Close, ClearInflight, history
    <3>3. Unacked(b) /\ Apart(b) /\ Ended(b)
      BY <3>1, <3>2 DEF Unacked, PlaceInv
    <3>4. OnceOnCall' /\ \A c \in Command \ {b} : OnCall(c)' => OnCall(c)
      BY <3>2, <3>3, RequeueCarriesOnce DEF PlaceInv, Apart
    <3>5. OnceInHand' /\ \A c : InHand(c)' = InHand(c)
      BY <3>2 DEF PlaceInv, OnceInHand, InHand
    <3>6. OnceUnacked' /\ (\A c \in Command : Unacked(c)' => Unacked(c)) /\ ~Unacked(b)'
      BY <1>0, <3>1, <3>2 DEF PlaceInv, OnceUnacked, Unacked
    <3>7. \A c \in Command \ {b} : Stays(c)
      BY <1>0, <3>2, <3>4, <3>5, <3>6 DEF Stays
    <3>8. Apart(b)' /\ Ended(b)'
      BY <1>0, <3>2, <3>3, <3>5, <3>6 DEF Apart, Ended, Nowhere
    <3> QED
      BY <1>0, <3>4, <3>5, <3>6, <3>7, <3>8, MovingKeepsPlaceInv
  <2> QED
    BY <2>1, <2>2
<1>7. ASSUME NEW x \in calls, Reported(k, x) \/ Requeue(k, x) PROVE PlaceInv'
  BY <1>1, <1>7 DEF Reported, Requeue, Collect, history
<1>8. ASSUME ReadUplink(k) \/ ReadFails(k) \/ \E d \in Device : Connect(k, d) \/ Rebind(k, d)
      PROVE  PlaceInv'
  BY <1>1, <1>8 DEF ReadUplink, ReadFails, Connect, Rebind, coreVars, history
<1> QED
  BY <1>2, <1>3, <1>4, <1>5, <1>6, <1>7, <1>8 DEF Session

\* ... and a fault loses messages or leaves them where they are.
LEMMA FaultsKeepPlaceInv ==
  ASSUME PlaceInv, TypeInv, Faults
  PROVE  PlaceInv'
<1>0. calls \subseteq Call
  BY DEF TypeInv, CoreInv, CoreTypeOK
<1>1. ASSUME NEW k \in Client, RpcError(k) PROVE PlaceInv'
  BY <1>1, StayingKeepsPlaceInv DEF RpcError, Abandon, coreData, history
<1>2. CASE DatabaseError
  <2>1. PICK x \in calls : StoreError(x)
    BY <1>2 DEF DatabaseError
  <2>2. x.op # "pull" /\ calls' = Answer(x, x.cmd) /\ UNCHANGED <<queue, pushing, status>>
    BY <2>1 DEF StoreError, TypeInv, CoreInv, CallsServable
  <2>3. \A y \in calls' : \A c \in Command : Carries(y, c) => y \in calls
    BY <2>2, AnswerCarries
  <2> QED
    BY <1>2, <2>2, <2>3, StayingKeepsPlaceInv DEF DatabaseError, sessionVars, history
<1>3. CASE RestartCore
  <2>1. /\ \A d \in Device : queue'[d] = <<>>
        /\ pushing' = {} /\ UNCHANGED <<status, held, inflight, outcome>>
        /\ calls' = {x \in calls : Live(x) /\ x.stage = "answered"} \cup
                    {[x EXCEPT !.stage = "answered", !.cmd = NoCommand] :
                       x \in {y \in calls : Live(y) /\ y.stage # "answered"}}
    BY <1>3 DEF RestartCore, CoreRestart, sessionVars, history
  <2>2. \A x \in calls : [x EXCEPT !.stage = "answered", !.cmd = NoCommand].cmd = NoCommand
    BY <1>0 DEF Call
  <2>3. \A y \in calls' : y \in calls \/ y.cmd = NoCommand
    BY <2>1, <2>2
  <2>4. \A y \in calls' : \A c \in Command : Carries(y, c) => y \in calls
    BY <2>3, DistinctAssumption DEF Carries
  <2> QED
    BY <2>1, <2>4, StayingKeepsPlaceInv
<1>4. CASE Shutdown
  BY <1>4, StayingKeepsPlaceInv DEF Shutdown, coreVars, sessionVars, history
<1>5. CASE IngressExit
  BY <1>5, StayingKeepsPlaceInv DEF IngressExit, Abandon, coreData, history
<1> QED
  BY <1>1, <1>2, <1>3, <1>4, <1>5 DEF Faults

\* No place ever gets a message that is somewhere else.
LEMMA PlaceInvAlways == Spec => []PlaceInv
<1>1. Init => PlaceInv
  BY DistinctAssumption
  DEF Init, CoreInit, PlaceInv, OnceQueued, OnceOnCall, OnceInHand, OnceUnacked, Apart, Ended,
      Nowhere, Queued, OnCall, InHand, Unacked, NoRepeats, Waiting
<1>2. TypeInv /\ LiveInv /\ PlaceInv /\ [Next]_vars => PlaceInv'
  <2> SUFFICES ASSUME TypeInv, LiveInv, PlaceInv, [Next]_vars PROVE PlaceInv'
    OBVIOUS
  <2>1. CASE UNCHANGED vars \/ \E k \in Client : Link(k)
    <3>1. UNCHANGED <<queue, calls, pushing, status, held, inflight, outcome>>
      BY <2>1 DEF vars, Link, Receive, LoseFrames, coreVars, sessionVars, history
    <3> QED
      BY <3>1, StayingKeepsPlaceInv
  <2> QED
    BY <2>1, CoreNextKeepsPlaceInv, SessionKeepsPlaceInv, FaultsKeepPlaceInv DEF Next
<1> QED
  BY <1>1, <1>2, TypeInvAlways, LiveInvAlways, PTL DEF Spec

\* A command is in one place until it is settled, and in none afterwards.
THEOREM OneCopyAlways == Spec => []OneCopyUntilSettled
BY PlaceInvIsOneCopy, PlaceInvAlways, TypeInvAlways, PTL

-----------------------------------------------------------------------------
(* The delivery implements CommandLifecycle.                               *)

\* The message of c waits at the Core, ...
Waits(c) == c \in pushing \/ Queued(c) \/ \E x \in calls : Carries(x, c) /\ x.op = "requeue"

\* ... or was pulled and not yet written.
Pulled(c) == InHand(c) \/ \E x \in calls : Carries(x, c) /\ x.op = "pull"

\* The stage of a command, read off these.
Mapped(c) ==
  IF status[c] = "none" THEN "absent"
  ELSE IF outcome[c] # "open" THEN outcome[c]
  ELSE IF Waits(c) THEN "waiting"
  ELSE IF Unacked(c) THEN "transmitted"
  ELSE IF Pulled(c) THEN "taken"
  ELSE "lost"

StageIsMapped == \A c \in Command : StageOf(c) = Mapped(c)

\* StageOf reads the same stage off Places.
LEMMA StageOfIsMapped ==
  ASSUME TypeInv, PlaceInv
  PROVE  StageIsMapped
<1> SUFFICES ASSUME NEW c \in Command PROVE StageOf(c) = Mapped(c)
  BY DEF StageIsMapped
<1> DEFINE inPush == {<<"pushing", b>> : b \in pushing \cap {c}}
           inQueue == UNION {{<<"queue", d, i>> :
                                i \in {j \in DOMAIN queue[d] : queue[d][j] = c}} : d \in Device}
           inCall == {<<"call", x>> : x \in {y \in calls : Carries(y, c)}}
           inHand == {<<"held", k>> : k \in {j \in Client : held[j] = c}}
           inFlight == {<<"inflight", k>> : k \in {j \in Client : inflight[j] = c}}
<1>1. Places(c) = inPush \cup inQueue \cup inCall \cup inHand \cup inFlight
  BY DEF Places
<1>0. \A v : AtCore(<<"pushing", v>>) /\ ~AtCore(<<"held", v>>) /\ ~AtCore(<<"inflight", v>>)
  BY DEF AtCore
<1>2. (inPush # {} <=> c \in pushing) /\ \A p \in inPush : AtCore(p)
  <2>1. inPush = IF c \in pushing THEN {<<"pushing", c>>} ELSE {}
    OBVIOUS
  <2> HIDE DEF inPush
  <2> QED
    BY <1>0, <2>1
<1>3. inQueue # {} <=> Queued(c)
  <2>1. ASSUME NEW p \in inQueue PROVE Queued(c)
    BY <2>1 DEF Queued, Waiting
  <2>2. ASSUME Queued(c) PROVE \E p : p \in inQueue
    <3>1. PICK d \in Device : \E i \in DOMAIN queue[d] : queue[d][i] = c
      BY <2>2 DEF Queued, Waiting
    <3>2. PICK i \in DOMAIN queue[d] : queue[d][i] = c
      BY <3>1
    <3> DEFINE own(e) == {<<"queue", e, n>> : n \in {j \in DOMAIN queue[e] : queue[e][j] = c}}
    <3>3. <<"queue", d, i>> \in own(d)
      BY <3>2
    <3>4. inQueue = UNION {own(e) : e \in Device}
      OBVIOUS
    <3> HIDE DEF own, inQueue
    <3> QED
      BY <3>3, <3>4
  <2> HIDE DEF inQueue
  <2> QED
    BY <2>1, <2>2
<1>4. \A p \in inQueue : AtCore(p)
  <2> SUFFICES ASSUME NEW d \in Device,
                      NEW p \in {<<"queue", d, i>> : i \in {j \in DOMAIN queue[d] : queue[d][j] = c}}
               PROVE  AtCore(p)
    OBVIOUS
  <2> QED
    BY DEF AtCore
<1>5. /\ inCall # {} <=> OnCall(c)
      /\ (\E p \in inCall : AtCore(p)) <=> \E x \in calls : Carries(x, c) /\ x.op = "requeue"
  <2>1. inCall # {} <=> OnCall(c)
    BY DEF OnCall
  <2>2. ASSUME NEW p \in inCall, AtCore(p) PROVE \E x \in calls : Carries(x, c) /\ x.op = "requeue"
    BY <2>2 DEF AtCore
  <2>3. ASSUME NEW x \in calls, Carries(x, c), x.op = "requeue" PROVE \E p \in inCall : AtCore(p)
    <3>1. <<"call", x>> \in inCall /\ AtCore(<<"call", x>>)
      BY <2>3 DEF AtCore
    <3> QED
      BY <3>1
  <2> QED
    BY <2>1, <2>2, <2>3
<1>6. (inHand # {} <=> InHand(c)) /\ \A p \in inHand : ~AtCore(p)
  <2>1. (\E p : p \in inHand) <=> InHand(c)
    BY DEF InHand
  <2>2. \A p \in inHand : \E v : p = <<"held", v>>
    OBVIOUS
  <2> HIDE DEF inHand
  <2> QED
    BY <1>0, <2>1, <2>2
<1>7. (inFlight # {} <=> Unacked(c)) /\ \A p \in inFlight : ~AtCore(p)
  <2>1. (\E p : p \in inFlight) <=> Unacked(c)
    BY DEF Unacked
  <2>2. \A p \in inFlight : \E v : p = <<"inflight", v>>
    OBVIOUS
  <2> HIDE DEF inFlight
  <2> QED
    BY <1>0, <2>1, <2>2
<1>8. Unacked(c) <=> \E k \in Client : inflight[k] = c
  BY DEF Unacked
<1>9. OnCall(c) <=> \E x \in calls : Carries(x, c) /\ (x.op = "requeue" \/ x.op = "pull")
  BY DEF OnCall, Carries
<1> HIDE DEF inPush, inQueue, inCall, inHand, inFlight
<1>10. Places(c) = {} <=> Nowhere(c)
  BY <1>1, <1>2, <1>3, <1>5, <1>6, <1>7 DEF Nowhere
<1>11. (\E p \in Places(c) : AtCore(p)) <=> Waits(c)
  BY <1>1, <1>2, <1>3, <1>4, <1>5, <1>6, <1>7 DEF Waits
<1>12. Nowhere(c) <=> ~Waits(c) /\ ~Unacked(c) /\ ~Pulled(c)
  BY <1>9 DEF Nowhere, Waits, Pulled
<1> QED
  BY <1>8, <1>10, <1>11, <1>12 DEF StageOf, Mapped

\* The abstract variables and a step of theirs.
Stages == [c \in Command |-> StageOf(c)]
AbstractStep == Lifecycle!Next \/ UNCHANGED Lifecycle!vars
ReceivedByAny == UNION {ReceivedOn(k) : k \in Client}

\* Nothing happens to c but that its message may be lost.
Fades(c) ==
  /\ Waits(c)' => Waits(c)
  /\ Unacked(c)' => Unacked(c)
  /\ Pulled(c)' => Pulled(c)
  /\ outcome'[c] = outcome[c]
  /\ status'[c] = "none" <=> status[c] = "none"

\* The stage of c stays, or c is lost.
LosesOnly(c) ==
  Mapped(c)' = Mapped(c) \/ (Mapped(c)' = "lost" /\ Mapped(c) \in {"waiting", "taken", "transmitted"})

\* A message is not in two of the three.
StagesApart ==
  \A c \in Command :
    ~(Waits(c) /\ Unacked(c)) /\ ~(Waits(c) /\ Pulled(c)) /\ ~(Unacked(c) /\ Pulled(c))

\* For a message in one place it is so.
LEMMA StagesExclude ==
  ASSUME PlaceInv
  PROVE  StagesApart
<1> SUFFICES ASSUME NEW c \in Command
             PROVE  /\ ~(Waits(c) /\ Unacked(c))
                    /\ ~(Waits(c) /\ Pulled(c))
                    /\ ~(Unacked(c) /\ Pulled(c))
  BY DEF StagesApart
<1>1. Apart(c) /\ \A x, y \in calls : Carries(x, c) /\ Carries(y, c) => x = y
  BY DEF PlaceInv, OnceOnCall
<1>2. (\E x \in calls : Carries(x, c) /\ x.op = "requeue") => OnCall(c)
  BY DEF OnCall
<1>3. (\E x \in calls : Carries(x, c) /\ x.op = "pull") => OnCall(c)
  BY DEF OnCall
<1>4. ~((\E x \in calls : Carries(x, c) /\ x.op = "requeue")
        /\ (\E x \in calls : Carries(x, c) /\ x.op = "pull"))
  BY <1>1
<1> QED
  BY <1>1, <1>2, <1>3, <1>4 DEF Apart, Waits, Pulled

\* A message that fades is lost or stays where it is.
LEMMA FadingLoses ==
  ASSUME PlaceInv, NEW c \in Command, Fades(c)
  PROVE  LosesOnly(c)
BY StagesExclude DEF StagesApart, Fades, LosesOnly, Mapped

\* A step that only loses messages is a step of CommandLifecycle or none.
LEMMA LosingIsAbstract ==
  ASSUME StageIsMapped, StageIsMapped', UNCHANGED <<aired, got>>,
         \A c \in Command : LosesOnly(c)
  PROVE  AbstractStep
<1>1. ReceivedByAny' = ReceivedByAny
  BY DEF ReceivedByAny, ReceivedOn
<1>2. PICK S \in SUBSET Command : \A c \in Command : c \in S <=> Mapped(c)' # Mapped(c)
  <2> DEFINE S == {c \in Command : Mapped(c)' # Mapped(c)}
  <2>1. S \in SUBSET Command /\ \A c \in Command : c \in S <=> Mapped(c)' # Mapped(c)
    OBVIOUS
  <2> QED
    BY <2>1
<1>3. \A c \in Command : /\ Stages[c] = Mapped(c)
                         /\ Stages'[c] = IF c \in S THEN "lost" ELSE Stages[c]
                         /\ c \in S => Stages[c] \in {"waiting", "taken", "transmitted"}
  BY <1>2 DEF Stages, StageIsMapped, LosesOnly
<1>4. Stages' = [c \in Command |-> IF c \in S THEN "lost" ELSE Stages[c]]
  BY <1>3 DEF Stages
<1>5. CASE S = {}
  <2>1. Stages' = Stages
    BY <1>4, <1>5 DEF Stages
  <2> QED
    BY <1>1, <2>1 DEF AbstractStep, Lifecycle!vars, Stages, ReceivedByAny
<1>6. CASE S # {}
  <2>1. Lifecycle!Lose(S)
    BY <1>1, <1>3, <1>4 DEF Lifecycle!Lose, Lifecycle!Open, Stages, ReceivedByAny
  <2> QED
    BY <1>6, <2>1 DEF AbstractStep, Lifecycle!Next, Lifecycle!Forward
<1> QED
  BY <1>5, <1>6

\* A step that moves one message as CommandLifecycle allows is one of its steps.
LEMMA MovingIsAbstract ==
  ASSUME StageIsMapped, StageIsMapped', NEW b \in Command, UNCHANGED got,
         \A c \in Command \ {b} : Mapped(c)' = Mapped(c),
         \/ /\ aired' = aired
            /\ \/ Mapped(b) = "absent" /\ Mapped(b)' = "waiting"
               \/ Mapped(b) = "waiting" /\ Mapped(b)' = "taken"
               \/ Mapped(b) = "taken" /\ Mapped(b)' = "rejected"
               \/ Mapped(b) \in {"taken", "transmitted"} /\ Mapped(b)' = "waiting"
               \/ Mapped(b) = "transmitted" /\ Mapped(b)' = "confirmed" /\ b \in ReceivedByAny
         \/ Mapped(b) = "taken" /\ Mapped(b)' = "transmitted" /\ aired' = aired \cup {b}
  PROVE  AbstractStep
<1>1. ReceivedByAny' = ReceivedByAny
  BY DEF ReceivedByAny, ReceivedOn
<1>2. PICK to : to = Mapped(b)'
  OBVIOUS
<1>3. Stages[b] = Mapped(b) /\ Stages' = [Stages EXCEPT ![b] = to]
  <2>1. \A c \in Command : Stages[c] = Mapped(c) /\ Stages'[c] = Mapped(c)'
    BY DEF Stages, StageIsMapped
  <2> QED
    BY <1>2, <2>1 DEF Stages
<1>4. \A from : Mapped(b) \in from => Lifecycle!Move(b, from, to)
  BY <1>3 DEF Lifecycle!Move, Stages
<1>5. \/ Lifecycle!Submit(b) \/ Lifecycle!Take(b) \/ Lifecycle!Reject(b) \/ Lifecycle!Return(b)
      \/ Lifecycle!Confirm(b) \/ Lifecycle!Transmit(b)
  <2>1. CASE aired' = aired /\ Mapped(b) = "absent" /\ to = "waiting"
    BY <1>1, <1>4, <2>1 DEF Lifecycle!Submit, ReceivedByAny
  <2>2. CASE aired' = aired /\ Mapped(b) = "waiting" /\ to = "taken"
    BY <1>1, <1>4, <2>2 DEF Lifecycle!Take, ReceivedByAny
  <2>3. CASE aired' = aired /\ Mapped(b) = "taken" /\ to = "rejected"
    BY <1>1, <1>4, <2>3 DEF Lifecycle!Reject, ReceivedByAny
  <2>4. CASE aired' = aired /\ Mapped(b) \in {"taken", "transmitted"} /\ to = "waiting"
    BY <1>1, <1>4, <2>4 DEF Lifecycle!Return, ReceivedByAny
  <2>5. CASE aired' = aired /\ Mapped(b) = "transmitted" /\ to = "confirmed" /\ b \in ReceivedByAny
    BY <1>1, <1>4, <2>5 DEF Lifecycle!Confirm, ReceivedByAny
  <2>6. CASE Mapped(b) = "taken" /\ to = "transmitted" /\ aired' = aired \cup {b}
    BY <1>1, <1>4, <2>6 DEF Lifecycle!Transmit, ReceivedByAny
  <2> QED
    BY <1>2, <2>1, <2>2, <2>3, <2>4, <2>5, <2>6
<1> QED
  BY <1>5 DEF AbstractStep, Lifecycle!Next, Lifecycle!Forward

-----------------------------------------------------------------------------
(* Two more facts about calls and frames.                                  *)

\* A report or a requeue is about a command that was created, ...
CreatedInv == \A x \in calls : x.op # "pull" /\ x.cmd # NoCommand => status[x.cmd] # "none"

\* ... and a frame is one that was written.
AiredInv == \A k \in Client : \A f \in Frames(k) : f.cmd \in aired

\* A row, once there, is there for good.
CreatedStays == \A c \in Command : status[c] # "none" => status'[c] # "none"

\* Calls that are answered, moved on or dropped are about the same commands.
LEMMA SameCommandsAreCreated ==
  ASSUME CreatedInv, TypeInv, CreatedStays,
         \A y \in calls' : \/ y.op = "pull" \/ y.cmd = NoCommand
                           \/ \E x \in calls : x.op # "pull" /\ y.cmd = x.cmd
  PROVE  CreatedInv'
<1>1. \A x \in calls : x.cmd \in Command \cup {NoCommand}
  BY DEF TypeInv, CoreInv, CoreTypeOK, Call
<1> QED
  BY <1>1 DEF CreatedInv, CreatedStays

\* A client reports and requeues what it held or had inflight, ...
LEMMA RequestIsCreated ==
  ASSUME CreatedInv, TypeInv, UNCHANGED status, NEW k, NEW op, NEW d, NEW c \in Command \cup {NoCommand},
         NEW label, op = "pull" \/ status[c] # "none", Request(k, op, d, c, label)
  PROVE  CreatedInv'
<1>1. \A y \in calls' : y \in calls \/ (y.op = op /\ y.cmd = c)
  BY DEF Request, Issue
<1> QED
  BY <1>1 DEF CreatedInv

\* ... so every step speaks of commands that have a row, ...
LEMMA CreatedInvStep ==
  ASSUME CreatedInv, TypeInv, PlaceInv, Next
  PROVE  CreatedInv'
<1>0. /\ status \in [Command -> Status] /\ calls \subseteq Call
      /\ \A x \in calls : x.op # "pull" /\ x.stage # "answered" => x.cmd \in Command
      /\ \A x \in calls : x.stage = "pushed" => x.op = "requeue"
  BY DEF TypeInv, CoreInv, CoreTypeOK, CallsServable
<1>1. ASSUME CreatedStays, calls' \subseteq calls PROVE CreatedInv'
  <2>1. \A y \in calls' : y.op = "pull" \/ \E x \in calls : x.op # "pull" /\ y.cmd = x.cmd
    BY <1>1
  <2> QED
    BY <1>1, <2>1, SameCommandsAreCreated
<1>2. ASSUME UNCHANGED status PROVE CreatedStays
  BY <1>2 DEF CreatedStays
<1>3. ASSUME NEW x \in calls, CreatedStays, x.op = "pull" PROVE
        \A c : calls' = Answer(x, c) => CreatedInv'
  <2> SUFFICES ASSUME NEW c, calls' = Answer(x, c) PROVE CreatedInv'
    OBVIOUS
  <2> DEFINE z == [x EXCEPT !.stage = "answered", !.cmd = c]
  <2>1. z.op = "pull" /\ calls' \subseteq calls \cup {z}
    BY <1>0, <1>3 DEF Call, Answer
  <2> HIDE DEF z
  <2>2. \A y \in calls' : y.op = "pull" \/ \E w \in calls : w.op # "pull" /\ y.cmd = w.cmd
    BY <2>1
  <2> QED
    BY <1>3, <2>2, SameCommandsAreCreated
<1>4. ASSUME NEW x \in calls, CreatedStays, x.op # "pull", NEW st, NEW z,
             z = [x EXCEPT !.stage = st] \/ z = [x EXCEPT !.stage = st, !.cmd = x.cmd],
             calls' \subseteq calls \cup {z}
      PROVE  CreatedInv'
  <2>1. z.cmd = x.cmd
    BY <1>0, <1>4 DEF Call
  <2>2. \A y \in calls' : y.op = "pull" \/ \E w \in calls : w.op # "pull" /\ y.cmd = w.cmd
    BY <1>4, <2>1
  <2> QED
    BY <1>4, <2>2, SameCommandsAreCreated
<1>5. ASSUME NEW x \in calls, CreatedStays, x.op # "pull", calls' = Answer(x, x.cmd)
      PROVE  CreatedInv'
  BY <1>4, <1>5 DEF Answer
<1>6. CASE CoreStep
  <2>1. CreatedStays
    BY <1>0, <1>6 DEF CoreStep, CoreNext, CreateCommand, PushCommand, ServePull, ServeMark,
       ServeRequeue, FinishRequeue, LoseRequest, CreatedStays
  <2>2. ASSUME NEW x \in calls, ServePull(x) PROVE CreatedInv'
    BY <1>3, <2>1, <2>2 DEF ServePull
  <2>3. ASSUME NEW x \in calls, ServeMark(x) \/ FinishRequeue(x) PROVE CreatedInv'
    BY <1>0, <1>5, <2>1, <2>3 DEF ServeMark, FinishRequeue
  <2>4. ASSUME NEW x \in calls, ServeRequeue(x) PROVE CreatedInv'
    <3>1. x.op # "pull"
      BY <2>4 DEF ServeRequeue
    <3>2. CASE calls' = Answer(x, x.cmd)
      BY <1>5, <2>1, <3>1, <3>2
    <3>3. CASE calls' = (calls \ {x}) \cup {[x EXCEPT !.stage = "pushed"]}
      BY <1>4, <2>1, <3>1, <3>3
    <3> QED
      BY <2>4, <3>2, <3>3 DEF ServeRequeue
  <2> QED
    BY <1>1, <1>6, <2>1, <2>2, <2>3, <2>4
    DEF CoreStep, CoreNext, CreateCommand, PushCommand, LoseRequest
<1>7. ASSUME NEW k \in Client, Session(k) PROVE CreatedInv'
  <2>0. UNCHANGED status
    BY <1>7 DEF Session, Connect, Rebind, ReadUplink, ReadAck, ReadFails, PopCommand, PackFails,
           WriteFrame, WriteFails, Close, Popped, Reported, Requeue, coreVars, coreData
  <2>1. ASSUME calls' \subseteq calls PROVE CreatedInv'
    BY <1>1, <1>2, <2>0, <2>1
  <2>2. \A c \in Command : c = held[k] \/ c = inflight[k] => status[c] # "none"
    BY DEF PlaceInv, Ended, Nowhere, InHand, Unacked
  <2>3. held[k] \in Command \cup {NoCommand} /\ inflight[k] \in Command \cup {NoCommand}
    BY DEF TypeInv, SessionInv, SessionTypeOK
  <2>4. CASE PopCommand(k)
    BY <2>0, <2>1, <2>4, RequestIsCreated DEF PopCommand
  <2>5. CASE PackFails(k) \/ WriteFrame(k) \/ WriteFails(k)
    <3>1. held[k] \in Command
      BY <2>5 DEF PackFails, WriteFrame, WriteFails, TypeInv, SessionInv, SendingHolds
    <3>2. status[held[k]] # "none"
      BY <2>2, <3>1
    <3> QED
      BY <2>0, <2>5, <3>1, <3>2, RequestIsCreated DEF PackFails, WriteFrame, WriteFails
  <2>6. CASE Close(k)
    BY <2>0, <2>1, <2>2, <2>3, <2>6, RequestIsCreated DEF Close
  <2>7. ASSUME NEW f \in got[k], ReadAck(k, f) PROVE CreatedInv'
    BY <2>0, <2>1, <2>2, <2>3, <2>7, RequestIsCreated DEF ReadAck, AckMatches
  <2> QED
    BY <1>7, <2>1, <2>4, <2>5, <2>6, <2>7 DEF Session, Connect, Rebind, ReadUplink, ReadFails,
       Popped, Reported, Requeue, Collect, coreVars
<1>8. ASSUME NEW k \in Client, Link(k) PROVE CreatedInv'
  BY <1>1, <1>2, <1>8 DEF Link, Receive, LoseFrames, coreVars
<1>9. CASE Faults
  <2>0. UNCHANGED status
    BY <1>9 DEF Faults, RpcError, DatabaseError, StoreError, RestartCore, CoreRestart, Shutdown,
       IngressExit, coreVars, coreData
  <2>1. CASE calls' \subseteq calls
    BY <1>1, <1>2, <2>0, <2>1
  <2>2. CASE DatabaseError
    BY <1>0, <1>2, <1>5, <2>0, <2>2 DEF DatabaseError, StoreError
  <2>3. CASE RestartCore
    <3>1. \A x \in calls : [x EXCEPT !.stage = "answered", !.cmd = NoCommand].cmd = NoCommand
      BY <1>0 DEF Call
    <3>2. \A y \in calls' : y \in calls \/ y.cmd = NoCommand
      BY <2>3, <3>1 DEF RestartCore, CoreRestart
    <3> QED
      BY <2>0, <3>2 DEF CreatedInv
  <2> QED
    BY <1>9, <2>1, <2>2, <2>3 DEF Faults, RpcError, Abandon, Shutdown, IngressExit, coreVars
<1> QED
  BY <1>6, <1>7, <1>8, <1>9 DEF Next

\* ... and every frame is of a command that was written.
LEMMA AiredInvStep ==
  ASSUME AiredInv, TypeInv, Next
  PROVE  AiredInv'
<1>1. CASE UNCHANGED <<wire, got, aired>>
  BY <1>1 DEF AiredInv, Frames
<1>2. ASSUME NEW k \in Client, WriteFrame(k) PROVE AiredInv'
  <2>1. aired' = aired \cup {held[k]}
    BY <1>2 DEF WriteFrame
  <2>2. \A j \in Client : \A f \in Frames(j)' : f \in Frames(j) \/ f.cmd = held[k]
    BY <1>2, FramesAfterWrite
  <2> QED
    BY <2>1, <2>2 DEF AiredInv
<1>3. ASSUME NEW k \in Client, Link(k) PROVE AiredInv'
  <2>1. aired' = aired
    BY <1>3 DEF Link, Receive, LoseFrames, history
  <2>2. \A j \in Client : Frames(j)' \subseteq Frames(j)
    BY <1>3, FramesAfterLink
  <2> QED
    BY <2>1, <2>2 DEF AiredInv
<1>4. ASSUME NEW k \in Client, Session(k) PROVE AiredInv'
  BY <1>1, <1>2, <1>4 DEF Session, Connect, Rebind, ReadUplink, ReadAck, ReadFails, PopCommand,
     PackFails, WriteFails, Close, Popped, Reported, Requeue, linkVars, history
<1>5. CASE CoreStep
  BY <1>1, <1>5 DEF CoreStep, linkVars, history
<1>6. CASE Faults
  BY <1>1, <1>6 DEF Faults, RpcError, DatabaseError, RestartCore, Shutdown, IngressExit,
     linkVars, history
<1> QED
  BY <1>3, <1>4, <1>5, <1>6 DEF Next

\* So it is always.
LEMMA TraceInvAlways == Spec => [](CreatedInv /\ AiredInv)
<1>1. Init => CreatedInv /\ AiredInv
  BY DEF Init, CoreInit, CreatedInv, AiredInv, Frames, Waiting
<1>2. TypeInv /\ PlaceInv /\ CreatedInv /\ AiredInv /\ [Next]_vars => CreatedInv' /\ AiredInv'
  <2>1. CASE UNCHANGED vars
    BY <2>1 DEF vars, coreVars, linkVars, history, CreatedInv, AiredInv, Frames
  <2> QED
    BY <2>1, CreatedInvStep, AiredInvStep
<1> QED
  BY <1>1, <1>2, TypeInvAlways, PlaceInvAlways, PTL DEF Spec

-----------------------------------------------------------------------------
(* Every step is one of CommandLifecycle's or none.                        *)

\* A step after which no message is where it, or its like, was not.
LEMMA ShrinkingIsAbstract ==
  ASSUME StageIsMapped, StageIsMapped', PlaceInv, UNCHANGED <<outcome, aired, got>>,
         \A c \in Command :
           /\ c \in pushing' \/ Queued(c)' => Waits(c)
           /\ InHand(c)' => Pulled(c)
           /\ Unacked(c)' => Unacked(c)
           /\ status'[c] = "none" <=> status[c] = "none"
           /\ \A y \in calls' : Carries(y, c) =>
                 /\ y.op = "requeue" => Waits(c)
                 /\ y.op = "pull" => Pulled(c)
  PROVE  AbstractStep
<1>1. ASSUME NEW c \in Command PROVE Fades(c)
  <2>1. Waits(c)' => Waits(c)
    BY DEF Waits, Carries
  <2>2. Pulled(c)' => Pulled(c)
    BY DEF Pulled, Carries
  <2> QED
    BY <2>1, <2>2 DEF Fades
<1> QED
  BY <1>1, FadingLoses, LosingIsAbstract

\* In the simplest case nothing is anywhere new at all.
LEMMA StayingIsAbstract ==
  ASSUME StageIsMapped, StageIsMapped', PlaceInv, UNCHANGED <<outcome, aired, got>>,
         queue' = queue \/ (\A d \in Device : queue'[d] = <<>>),
         \A x \in calls' : \A c \in Command : Carries(x, c) => x \in calls,
         pushing' \subseteq pushing,
         \A k \in Client : held'[k] \in {held[k], NoCommand},
         \A k \in Client : inflight'[k] \in {inflight[k], NoCommand},
         \A c \in Command : status'[c] = "none" <=> status[c] = "none"
  PROVE  AbstractStep
<1>0. NoCommand \notin Command
  BY DistinctAssumption
<1>1. ASSUME NEW c \in Command PROVE Queued(c)' => Queued(c)
  <2>1. CASE queue' = queue
    BY <2>1 DEF Queued
  <2>2. CASE \A d \in Device : queue'[d] = <<>>
    BY <2>2 DEF Waiting, Queued
  <2> QED
    BY <2>1, <2>2
<1>2. ASSUME NEW c \in Command PROVE (InHand(c)' => InHand(c)) /\ (Unacked(c)' => Unacked(c))
  BY <1>0 DEF InHand, Unacked
<1>3. ASSUME NEW c \in Command, NEW y \in calls', Carries(y, c)
      PROVE  (y.op = "requeue" => Waits(c)) /\ (y.op = "pull" => Pulled(c))
  BY <1>3 DEF Waits, Pulled
<1>4. \A c \in Command : (c \in pushing' \/ Queued(c)' => Waits(c)) /\ (InHand(c)' => Pulled(c))
  BY <1>1, <1>2 DEF Waits, Pulled
<1> QED
  BY <1>2, <1>3, <1>4, ShrinkingIsAbstract

\* Queue operations put in what waited already, or what they were given.
LEMMA QueueKeepsWaiting ==
  ASSUME NEW d \in Device, NEW q, NEW M, queue \in [Device -> Seq(Command)],
         queue' = [queue EXCEPT ![d] = q], Waiting(q) \subseteq Waiting(queue[d]) \cup M
  PROVE  \A c : Queued(c)' => Queued(c) \/ c \in M
BY DEF Queued

\* The Core submits a command, hands it over, takes it back or loses it.
LEMMA CoreStepIsAbstract ==
  ASSUME StageIsMapped, StageIsMapped', PlaceInv, StagesApart', TypeInv, CreatedInv, CoreStep
  PROVE  AbstractStep
<1>0. /\ CoreNext /\ UNCHANGED <<held, inflight, outcome, aired, got>>
      /\ queue \in [Device -> Seq(Command)] /\ status \in [Command -> Status]
      /\ calls \subseteq Call
  BY DEF CoreStep, sessionVars, linkVars, history, TypeInv, CoreInv, CoreTypeOK
<1>00. \A c : InHand(c)' = InHand(c) /\ Unacked(c)' = Unacked(c)
  BY <1>0 DEF InHand, Unacked
<1>1. ASSUME NEW b \in Command, NEW d \in Device, CreateCommand(b, d) PROVE AbstractStep
  <2>1. /\ UNCHANGED <<queue, calls>> /\ pushing' = pushing \cup {b}
        /\ status[b] = "none" /\ status' = [status EXCEPT ![b] = "queued"]
    BY <1>1 DEF CreateCommand
  <2>2. \A c : Queued(c)' = Queued(c) /\ Pulled(c)' = Pulled(c)
    BY <1>00, <2>1 DEF Queued, Pulled
  <2>3. \A c \in Command \ {b} : Waits(c)' = Waits(c)
    BY <2>1, <2>2 DEF Waits
  <2>4. \A c \in Command \ {b} : Mapped(c)' = Mapped(c)
    BY <1>0, <1>00, <2>1, <2>2, <2>3 DEF Mapped
  <2>5. Mapped(b) = "absent" /\ Mapped(b)' = "waiting"
    <3>1. Waits(b)' /\ outcome[b] = "open"
      BY <2>1 DEF Waits, PlaceInv, Ended
    <3> QED
      BY <1>0, <2>1, <3>1 DEF Mapped
  <2> QED
    BY <1>0, <2>4, <2>5, MovingIsAbstract
<1>2. ASSUME NEW b \in Command, PushCommand(b) PROVE AbstractStep
  <2> DEFINE d == owner[b]
             q == Enqueued(queue[d], b, Capacity)
  <2>1. /\ b \in pushing /\ pushing' = pushing \ {b} /\ UNCHANGED <<status, calls>>
        /\ queue' = [queue EXCEPT ![d] = q] /\ d \in Device
    BY <1>2 DEF PushCommand, TypeInv, CoreInv, PushingOwned
  <2>2. Waiting(q) \subseteq Waiting(queue[d]) \cup {b}
    <3>1. queue[d] \in Seq(Command) /\ NoRepeats(queue[d]) /\ b \notin Waiting(queue[d])
      BY <1>0, <2>1 DEF PlaceInv, OnceQueued, Queued, Apart
    <3> QED
      BY <3>1, EnqueuedOnce, CapacityAssumption
  <2> HIDE DEF q, d
  <2>3. \A c : Queued(c)' => Queued(c) \/ c \in {b}
    BY <1>0, <2>1, <2>2, QueueKeepsWaiting
  <2>4. \A c \in Command : c \in pushing' \/ Queued(c)' => Waits(c)
    BY <2>1, <2>3 DEF Waits
  <2>5. \A c \in Command : (InHand(c)' => Pulled(c)) /\ (Unacked(c)' => Unacked(c))
    BY <1>00 DEF Pulled
  <2>6. \A c \in Command : \A y \in calls' : Carries(y, c) =>
           (y.op = "requeue" => Waits(c)) /\ (y.op = "pull" => Pulled(c))
    BY <2>1 DEF Waits, Pulled
  <2> QED
    BY <1>0, <2>1, <2>4, <2>5, <2>6, ShrinkingIsAbstract
<1>3. ASSUME NEW x \in calls, ServePull(x) PROVE AbstractStep
  <2> DEFINE d == x.dev
  <2>1. /\ d \in Device /\ queue[d] \in Seq(Command)
        /\ x.op = "pull" /\ x.stage = "issued" /\ UNCHANGED <<status, pushing>>
    BY <1>0, <1>3 DEF ServePull, Call
  <2>2. CASE queue[d] = <<>>
    <3>1. calls' = Answer(x, NoCommand) /\ queue' = queue
      BY <1>3, <2>2 DEF ServePull
    <3>2. \A y \in calls' : \A c \in Command : Carries(y, c) => y \in calls
      BY <3>1, AnswerCarries
    <3> QED
      BY <1>0, <2>1, <3>1, <3>2, StayingIsAbstract
  <2>3. CASE queue[d] # <<>>
    <3>0. PICK b : b = Head(queue[d])
      OBVIOUS
    <3> DEFINE z == [x EXCEPT !.stage = "answered", !.cmd = b]
    <3>1. /\ calls' = (calls \ {x}) \cup (IF Live(x) THEN {z} ELSE {})
          /\ queue' = [queue EXCEPT ![d] = Tail(queue[d])]
      BY <1>3, <2>3, <3>0 DEF ServePull, Answer
    <3>2. b \in Command /\ z.cmd = b /\ z.op = "pull" /\ z.stage = "answered"
      BY <1>0, <2>1, <2>3, <3>0 DEF Call
    <3>3. /\ NoRepeats(Tail(queue[d])) /\ b \in Waiting(queue[d])
          /\ Waiting(Tail(queue[d])) \subseteq Waiting(queue[d]) \ {b}
      BY <2>1, <2>3, <3>0, TailOnce DEF PlaceInv, OnceQueued
    <3>4. Queued(b) /\ Waits(b) /\ Apart(b)
      BY <2>1, <3>2, <3>3 DEF Queued, PlaceInv, Waits
    <3>5. \A c : Carries(z, c) <=> c = b
      BY <3>2 DEF Carries
    <3>6. \A c : ~Carries(x, c)
      BY <2>1 DEF Carries
    <3> HIDE DEF z, d
    <3>7. CASE ~Live(x)
      <4>1. calls' \subseteq calls
        BY <3>1, <3>7
      <4> DEFINE M == {} q == Tail(queue[d])
      <4>2. Waiting(q) \subseteq Waiting(queue[d]) \cup M /\ \A c : c \notin M
        BY <3>3
      <4>3. queue' = [queue EXCEPT ![d] = q]
        BY <3>1
      <4> HIDE DEF M, q
      <4>4. \A c : Queued(c)' => Queued(c) \/ c \in M
        BY <1>0, <2>1, <4>2, <4>3, QueueKeepsWaiting
      <4>5. \A c \in Command : c \in pushing' \/ Queued(c)' => Waits(c)
        BY <2>1, <4>2, <4>4 DEF Waits
      <4>6. \A c \in Command : (InHand(c)' => Pulled(c)) /\ (Unacked(c)' => Unacked(c))
        BY <1>00 DEF Pulled
      <4>7. \A c \in Command : \A y \in calls' : Carries(y, c) =>
               (y.op = "requeue" => Waits(c)) /\ (y.op = "pull" => Pulled(c))
        BY <4>1 DEF Waits, Pulled
      <4> QED
        BY <1>0, <2>1, <4>5, <4>6, <4>7, ShrinkingIsAbstract
    <3>8. CASE Live(x)
      <4>1. \A y : y \in calls' <=> y = z \/ (y \in calls /\ y # x)
        BY <3>1, <3>8
      <4>2. queue'[d] = Tail(queue[d]) /\ \A e \in Device : e # d => queue'[e] = queue[e]
        BY <1>0, <2>1, <3>1
      <4>3. \A c \in Command \ {b} : Queued(c)' = Queued(c)
        <5>1. \A c \in Waiting(queue[d]) \ {b} : c \in Waiting(Tail(queue[d]))
          <6>1. \A i \in DOMAIN queue[d] : i = 1 \/ (i - 1 \in DOMAIN Tail(queue[d])
                                                      /\ Tail(queue[d])[i - 1] = queue[d][i])
            BY <2>1, <2>3
          <6>2. queue[d][1] = b
            BY <2>1, <2>3, <3>0
          <6> QED
            BY <6>1, <6>2 DEF Waiting
        <5> QED
          BY <2>1, <3>3, <4>2, <5>1 DEF Queued
      <4>4. \A c \in Command \ {b} : Waits(c)' = Waits(c) /\ Pulled(c)' = Pulled(c)
        <5>1. ASSUME NEW c \in Command \ {b}, NEW y PROVE y \in calls' /\ Carries(y, c) <=> y \in calls /\ Carries(y, c)
          BY <3>5, <3>6, <4>1
        <5>2. ASSUME NEW c PROVE InHand(c)' = InHand(c)
          BY <1>00
        <5> QED
          BY <2>1, <4>3, <5>1, <5>2 DEF Waits, Pulled, Carries
      <4>5. \A c \in Command \ {b} : Mapped(c)' = Mapped(c)
        BY <1>0, <1>00, <2>1, <4>4 DEF Mapped
      <4>6. Pulled(b)'
        BY <3>2, <3>5, <4>1 DEF Pulled, Carries
      <4>7. ~Waits(b)' /\ ~Unacked(b)'
        BY <3>2, <4>6 DEF StagesApart
      <4>8. status[b] # "none" /\ outcome[b] = "open"
        BY <3>2, <3>4 DEF PlaceInv, Ended, Nowhere
      <4>9. Mapped(b) = "waiting" /\ Mapped(b)' = "taken"
        BY <1>0, <2>1, <3>4, <4>6, <4>7, <4>8 DEF Mapped
      <4> QED
        BY <1>0, <3>2, <4>5, <4>9, MovingIsAbstract
    <3> QED
      BY <3>7, <3>8
  <2> QED
    BY <2>2, <2>3
<1>4. ASSUME NEW x \in calls, ServeMark(x) \/ FinishRequeue(x) PROVE AbstractStep
  <2>1. /\ calls' = Answer(x, x.cmd) /\ x.op \in {"sent", "acked", "failed", "requeue"}
        /\ UNCHANGED <<queue, pushing>> /\ x.cmd \in Command
        /\ status[x.cmd] # "none" =>
             \E s \in Status \ {"none"} : status' = [status EXCEPT ![x.cmd] = s]
    BY <1>4 DEF ServeMark, FinishRequeue, TypeInv, CoreInv, CallsServable, Status
  <2>2. \A y \in calls' : \A c \in Command : Carries(y, c) => y \in calls
    BY <2>1, AnswerCarries
  <2>3. status[x.cmd] # "none"
    BY <2>1, DistinctAssumption DEF CreatedInv
  <2>4. \A c \in Command : status'[c] = "none" <=> status[c] = "none"
    BY <1>0, <2>1, <2>3
  <2> QED
    BY <1>0, <2>1, <2>2, <2>4, StayingIsAbstract
<1>5. ASSUME NEW x \in calls, ServeRequeue(x) PROVE AbstractStep
  <2> DEFINE d == x.dev
             b == x.cmd
             q == Requeued(queue[d], b, Capacity)
             z == [x EXCEPT !.stage = "pushed"]
  <2>1. /\ d \in Device /\ queue[d] \in Seq(Command) /\ b \in Command
        /\ x.op = "requeue" /\ x.stage = "issued" /\ UNCHANGED pushing
    BY <1>0, <1>5 DEF ServeRequeue, Call, TypeInv, CoreInv, CallsServable
  <2>2. CASE b \in EmptyPayload \/ RequeueRefused(queue[d], Capacity)
    <3>1. calls' = Answer(x, b)
      BY <1>5, <2>2 DEF ServeRequeue
    <3>2. \A y \in calls' : \A c \in Command : Carries(y, c) => y \in calls
      BY <2>1, <3>1, AnswerCarries
    <3>3. queue' = queue
      BY <1>0, <1>5, <2>1, <2>2 DEF ServeRequeue, Requeued
    <3>4. status[b] # "none"
      BY <2>1, DistinctAssumption DEF CreatedInv
    <3>5. \A c \in Command : status'[c] = "none" <=> status[c] = "none"
      BY <1>0, <1>5, <2>2, <3>4 DEF ServeRequeue
    <3> QED
      BY <1>0, <2>1, <3>2, <3>3, <3>5, StayingIsAbstract
  <2>3. CASE ~(b \in EmptyPayload \/ RequeueRefused(queue[d], Capacity))
    <3>1. /\ calls' = (calls \ {x}) \cup {z} /\ UNCHANGED status
          /\ queue' = [queue EXCEPT ![d] = q]
      BY <1>5, <2>3 DEF ServeRequeue
    <3>2. z.stage = "pushed" /\ Carries(x, b)
      BY <1>0, <2>1 DEF Call, Carries
    <3>3. \A c : ~Carries(z, c)
      BY <3>2 DEF Carries
    <3>4. OnCall(b) /\ Apart(b) /\ Waits(b)
      BY <2>1, <3>2 DEF OnCall, PlaceInv, Waits
    <3>5. Waiting(q) \subseteq Waiting(queue[d]) \cup {b}
      <4>1. NoRepeats(queue[d]) /\ b \notin Waiting(queue[d])
        BY <2>1, <3>4 DEF PlaceInv, OnceQueued, Apart, Queued
      <4> QED
        BY <2>1, <4>1, RequeuedOnce, CapacityAssumption
    <3> HIDE DEF q, z, d, b
    <3>6. \A c : Queued(c)' => Queued(c) \/ c \in {b}
      BY <1>0, <2>1, <3>1, <3>5, QueueKeepsWaiting
    <3>7. \A c \in Command : c \in pushing' \/ Queued(c)' => Waits(c)
      BY <2>1, <3>4, <3>6 DEF Waits
    <3>8. \A c \in Command : (InHand(c)' => Pulled(c)) /\ (Unacked(c)' => Unacked(c))
      BY <1>00 DEF Pulled
    <3>9. \A c \in Command : \A y \in calls' : Carries(y, c) =>
             (y.op = "requeue" => Waits(c)) /\ (y.op = "pull" => Pulled(c))
      BY <3>1, <3>3 DEF Waits, Pulled
    <3> QED
      BY <1>0, <2>1, <3>1, <3>7, <3>8, <3>9, ShrinkingIsAbstract
  <2> QED
    BY <2>2, <2>3
<1>6. ASSUME NEW x \in calls, LoseRequest(x) PROVE AbstractStep
  BY <1>0, <1>6, StayingIsAbstract DEF LoseRequest
<1> QED
  BY <1>0, <1>1, <1>2, <1>3, <1>4, <1>5, <1>6 DEF CoreNext

\* A report or a pull takes no message anywhere, ...
LEMMA RequestTakesNothing ==
  ASSUME UNCHANGED <<queue, pushing>>, NEW k, NEW op, op # "requeue", NEW d, NEW c, NEW label,
         Request(k, op, d, c, label)
  PROVE  \A b \in Command : /\ Waits(b)' <=> Waits(b)
                            /\ (InHand(b)' <=> InHand(b)) => (Pulled(b)' <=> Pulled(b))
<1> DEFINE w == [from |-> k, no |-> attempt[k], op |-> op, dev |-> d, cmd |-> c,
                 stage |-> "issued"]
<1>1. calls' = calls \/ calls' = calls \cup {w}
  BY DEF Request, Issue
<1>2. \A b \in Command : ~Carries(w, b)
  BY DEF Carries
<1> HIDE DEF w
<1>3. ASSUME NEW b \in Command, NEW y
      PROVE  (y \in calls' /\ Carries(y, b)) <=> (y \in calls /\ Carries(y, b))
  BY <1>1, <1>2
<1>4. \A b : (Queued(b)' <=> Queued(b))
  BY DEF Queued
<1>5. \A b \in Command : Waits(b)' <=> Waits(b)
  BY <1>3, <1>4 DEF Waits, Carries
<1>6. ASSUME NEW b \in Command, (InHand(b)' <=> InHand(b)) PROVE (Pulled(b)' <=> Pulled(b))
  <2>1. (\E y \in calls' : Carries(y, b) /\ y.op = "pull")
          <=> (\E y \in calls : Carries(y, b) /\ y.op = "pull")
    BY <1>3
  <2> QED
    BY <1>6, <2>1 DEF Pulled, Carries
<1> QED
  BY <1>5, <1>6

\* ... and a requeue takes the one it is called with to the Core, if it is sent.
LEMMA RequeueTakesOne ==
  ASSUME UNCHANGED <<queue, pushing>>, NEW k, NEW d, NEW c \in Command, NEW label,
         Request(k, "requeue", d, c, label)
  PROVE  /\ \A b \in Command \ {c} : /\ Waits(b)' <=> Waits(b)
                                     /\ (InHand(b)' <=> InHand(b)) => (Pulled(b)' <=> Pulled(b))
         /\ Waits(c)' \/ calls' = calls
<1> DEFINE w == [from |-> k, no |-> attempt[k], op |-> "requeue", dev |-> d, cmd |-> c,
                 stage |-> "issued"]
<1>1. calls' = calls \/ calls' = calls \cup {w}
  BY DEF Request, Issue
<1>2. w.op = "requeue" /\ \A b : Carries(w, b) <=> b = c
  BY DEF Carries
<1> HIDE DEF w
<1>3. ASSUME NEW b \in Command \ {c}, NEW y
      PROVE  (y \in calls' /\ Carries(y, b)) <=> (y \in calls /\ Carries(y, b))
  BY <1>1, <1>2
<1>4. \A b : (Queued(b)' <=> Queued(b))
  BY DEF Queued
<1>5. ASSUME NEW b \in Command \ {c} PROVE Waits(b)' <=> Waits(b)
  <2>1. (\E y \in calls' : Carries(y, b) /\ y.op = "requeue")
          <=> (\E y \in calls : Carries(y, b) /\ y.op = "requeue")
    BY <1>3
  <2> QED
    BY <1>4, <2>1 DEF Waits, Carries
<1>6. ASSUME NEW b \in Command \ {c}, (InHand(b)' <=> InHand(b)) PROVE (Pulled(b)' <=> Pulled(b))
  <2>1. (\E y \in calls' : Carries(y, b) /\ y.op = "pull")
          <=> (\E y \in calls : Carries(y, b) /\ y.op = "pull")
    BY <1>3
  <2> QED
    BY <1>6, <2>1 DEF Pulled, Carries
<1>7. Waits(c)' \/ calls' = calls
  BY <1>1, <1>2 DEF Waits, Carries
<1> QED
  BY <1>5, <1>6, <1>7

\* A goroutine takes, transmits, rejects, confirms, returns or loses one.
LEMMA SessionIsAbstract ==
  ASSUME StageIsMapped, StageIsMapped', PlaceInv, StagesApart', TypeInv, LiveInv, AckInv,
         NothingUnanswered, NEW k \in Client, Session(k)
  PROVE  AbstractStep
<1>0. /\ UNCHANGED <<queue, pushing, status, got>> /\ NoCommand \notin Command
      /\ held \in [Client -> Command \cup {NoCommand}]
      /\ inflight \in [Client -> Command \cup {NoCommand}]
      /\ outcome \in [Command -> {"open", "confirmed", "rejected"}]
      /\ calls \subseteq Call /\ pc \in [Client -> PC]
  <2>1. UNCHANGED <<queue, pushing, status, got>>
    BY DEF Session, Connect, Rebind, ReadUplink, ReadAck, ReadFails, PopCommand, PackFails,
           WriteFrame, WriteFails, Close, Popped, Reported, Requeue, coreVars, coreData, linkVars
  <2> QED
    BY <2>1, DistinctAssumption DEF TypeInv, SessionInv, SessionTypeOK, CoreInv, CoreTypeOK
<1>00. /\ StagesApart
       /\ \A c \in Command : InHand(c) \/ Unacked(c) => status[c] # "none" /\ outcome[c] = "open"
  BY StagesExclude DEF PlaceInv, Ended, Nowhere
<1>1. ASSUME UNCHANGED <<held, inflight, outcome, aired>>, calls' \subseteq calls PROVE AbstractStep
  BY <1>0, <1>1, StayingIsAbstract
<1>2. ASSUME NEW f \in got[k], ReadAck(k, f) PROVE AbstractStep
  <2>1. CASE ~AckMatches(k, f)
    BY <1>1, <1>2, <2>1 DEF ReadAck
  <2>2. CASE AckMatches(k, f)
    <3>1. PICK b : b = inflight[k]
      OBVIOUS
    <3>2. /\ b \in Command /\ Request(k, "acked", device[k], b, "reporting")
          /\ held' = held /\ aired' = aired
          /\ inflight' = [inflight EXCEPT ![k] = NoCommand]
          /\ outcome' = [outcome EXCEPT ![b] = "confirmed"]
      BY <1>0, <1>2, <2>2, <3>1 DEF ReadAck, AckMatches, ClearInflight
    <3>3. \A c \in Command : (Waits(c)' <=> Waits(c)) /\ (Pulled(c)' <=> Pulled(c))
      <4>1. \A c : (InHand(c)' <=> InHand(c))
        BY <3>2 DEF InHand
      <4> QED
        BY <1>0, <3>2, <4>1, RequestTakesNothing
    <3>4. \A c \in Command \ {b} : (Unacked(c)' <=> Unacked(c))
      BY <1>0, <3>1, <3>2 DEF Unacked
    <3>5. \A c \in Command \ {b} : Mapped(c)' = Mapped(c)
      BY <1>0, <3>2, <3>3, <3>4 DEF Mapped
    <3>6. Unacked(b)
      BY <3>1 DEF Unacked
    <3>7. Mapped(b) = "transmitted"
      BY <1>00, <3>2, <3>6 DEF Mapped, StagesApart
    <3>8. Mapped(b)' = "confirmed"
      BY <1>0, <1>00, <3>2, <3>6 DEF Mapped
    <3>9. b \in ReceivedByAny
      <4>1. f.cmd = b
        BY <1>2, <2>2, <3>1 DEF AckMatches, AckInv, InflightFrame, Frames
      <4> QED
        BY <1>2, <4>1 DEF ReceivedByAny, ReceivedOn
    <3> QED
      BY <1>0, <3>2, <3>5, <3>7, <3>8, <3>9, MovingIsAbstract
  <2> QED
    BY <2>1, <2>2
<1>3. CASE PopCommand(k)
  <2>1. UNCHANGED <<held, inflight, outcome, aired>>
    BY <1>3 DEF PopCommand, history
  <2>2. \A y \in calls' : \A c \in Command : Carries(y, c) => y \in calls
    BY <1>3, RequestCarries DEF PopCommand
  <2> QED
    BY <1>0, <2>1, <2>2, StayingIsAbstract
<1>4. ASSUME NEW x \in calls, Popped(k, x) PROVE AbstractStep
  <2>1. /\ x.op = "pull" /\ x.stage = "answered" /\ calls' = calls \ {x}
        /\ held' = [held EXCEPT ![k] = x.cmd] /\ UNCHANGED <<inflight, outcome, aired>>
    <3>1. pc[k] = "pulling" /\ x.from = k /\ Live(x)
      BY <1>4 DEF Popped
    <3> QED
      BY <1>4, <3>1 DEF LiveInv, Asks, Popped, Collect, history
  <2>2. \A c \in Command : InHand(c)' => Pulled(c)
    <3>1. ASSUME NEW c \in Command, InHand(c)' PROVE InHand(c) \/ c = x.cmd
      BY <1>0, <2>1, <3>1 DEF InHand
    <3>2. \A c : c = x.cmd => Carries(x, c)
      BY <2>1 DEF Carries
    <3> QED
      BY <2>1, <3>1, <3>2 DEF Pulled
  <2>3. \A c : (Unacked(c)' <=> Unacked(c)) /\ (Queued(c)' <=> Queued(c))
    BY <1>0, <2>1 DEF Unacked, Queued
  <2>4. \A c \in Command : c \in pushing' \/ Queued(c)' => Waits(c)
    BY <1>0, <2>3 DEF Waits
  <2>5. \A c \in Command : \A y \in calls' : Carries(y, c) =>
           (y.op = "requeue" => Waits(c)) /\ (y.op = "pull" => Pulled(c))
    BY <2>1 DEF Waits, Pulled
  <2> QED
    BY <1>0, <2>1, <2>2, <2>3, <2>4, <2>5, ShrinkingIsAbstract
\* The message leaves the hand of the goroutine.
<1>5. CASE PackFails(k) \/ WriteFrame(k) \/ WriteFails(k)
  <2>1. PICK b : b = held[k]
    OBVIOUS
  <2>2. b \in Command /\ held' = [held EXCEPT ![k] = NoCommand]
    BY <1>0, <1>5, <2>1 DEF PackFails, WriteFrame, WriteFails, Spend, TypeInv, SessionInv,
                           SendingHolds
  <2>3. InHand(b) /\ Pulled(b)
    BY <2>1, <2>2 DEF InHand, Pulled
  <2>4. \A c \in Command \ {b} : (InHand(c)' <=> InHand(c))
    BY <1>0, <2>1, <2>2 DEF InHand
  <2>5. Mapped(b) = "taken"
    BY <1>00, <2>2, <2>3 DEF Mapped, StagesApart
  <2>6. CASE PackFails(k)
    <3>1. /\ Request(k, "failed", target[k], b, "reporting") /\ UNCHANGED <<inflight, aired>>
          /\ outcome' = [outcome EXCEPT ![b] = "rejected"]
      BY <2>1, <2>6 DEF PackFails
    <3>2. \A c \in Command \ {b} : (Waits(c)' <=> Waits(c)) /\ (Pulled(c)' <=> Pulled(c))
      BY <1>0, <2>4, <3>1, RequestTakesNothing
    <3>3. \A c : (Unacked(c)' <=> Unacked(c))
      BY <3>1 DEF Unacked
    <3>4. \A c \in Command \ {b} : Mapped(c)' = Mapped(c)
      BY <1>0, <3>1, <3>2, <3>3 DEF Mapped
    <3>5. Mapped(b)' = "rejected"
      BY <1>0, <1>00, <2>2, <2>3, <3>1 DEF Mapped
    <3> QED
      BY <1>0, <2>2, <2>5, <3>1, <3>4, <3>5, MovingIsAbstract
  <2>7. CASE WriteFrame(k)
    <3>1. /\ Request(k, "sent", target[k], b, "reporting") /\ UNCHANGED outcome
          /\ inflight' = [inflight EXCEPT ![k] = b] /\ aired' = aired \cup {b}
      BY <2>1, <2>7 DEF WriteFrame
    <3>2. inflight[k] = NoCommand
      BY <2>7 DEF WriteFrame, NothingUnanswered
    <3>3. \A c \in Command \ {b} : (Waits(c)' <=> Waits(c)) /\ (Pulled(c)' <=> Pulled(c))
      BY <1>0, <2>4, <3>1, RequestTakesNothing
    <3>4. (\A c \in Command \ {b} : (Unacked(c)' <=> Unacked(c))) /\ Unacked(b)'
      BY <1>0, <3>1, <3>2 DEF Unacked
    <3>5. \A c \in Command \ {b} : Mapped(c)' = Mapped(c)
      BY <1>0, <3>1, <3>3, <3>4 DEF Mapped
    <3>6. Mapped(b)' = "transmitted"
      BY <1>0, <1>00, <2>2, <2>3, <3>1, <3>4 DEF Mapped, StagesApart
    <3> QED
      BY <1>0, <2>2, <2>5, <3>1, <3>5, <3>6, MovingIsAbstract
  <2>8. CASE WriteFails(k)
    <3>1. /\ Request(k, "requeue", target[k], b, "requeueing")
          /\ UNCHANGED <<inflight, outcome, aired>>
      BY <2>1, <2>8 DEF WriteFails, history
    <3>2. CASE calls' = calls
      <4>1. \A j \in Client : held'[j] \in {held[j], NoCommand}
        BY <1>0, <2>2
      <4> QED
        BY <1>0, <3>1, <3>2, <4>1, StayingIsAbstract
    <3>3. CASE Waits(b)'
      <4>1. \A c \in Command \ {b} : (Waits(c)' <=> Waits(c)) /\ (Pulled(c)' <=> Pulled(c))
        BY <1>0, <2>2, <2>4, <3>1, RequeueTakesOne
      <4>2. \A c : (Unacked(c)' <=> Unacked(c))
        BY <3>1 DEF Unacked
      <4>3. \A c \in Command \ {b} : Mapped(c)' = Mapped(c)
        BY <1>0, <3>1, <4>1, <4>2 DEF Mapped
      <4>4. Mapped(b)' = "waiting"
        BY <1>0, <1>00, <2>2, <2>3, <3>1, <3>3 DEF Mapped
      <4> QED
        BY <1>0, <2>2, <2>5, <3>1, <4>3, <4>4, MovingIsAbstract
    <3> QED
      BY <1>0, <2>2, <3>1, <3>2, <3>3, RequeueTakesOne
  <2> QED
    BY <1>5, <2>6, <2>7, <2>8
<1>6. CASE Close(k)
  <2>1. CASE inflight[k] = NoCommand
    BY <1>0, <1>6, <2>1, StayingIsAbstract DEF Close, ClearInflight, history
  <2>2. CASE inflight[k] # NoCommand
    <3>1. PICK b : b = inflight[k]
      OBVIOUS
    <3>2. /\ b \in Command /\ Request(k, "requeue", target[k], b, "requeueing")
          /\ UNCHANGED <<held, outcome, aired>> /\ inflight' = [inflight EXCEPT ![k] = NoCommand]
      BY <1>0, <1>6, <2>2, <3>1 DEF Close, ClearInflight, history
    <3>3. Unacked(b) /\ Mapped(b) = "transmitted"
      <4>1. Unacked(b)
        BY <3>1 DEF Unacked
      <4> QED
        BY <1>00, <3>2, <4>1 DEF Mapped, StagesApart
    <3>4. CASE calls' = calls
      <4>1. \A j \in Client : inflight'[j] \in {inflight[j], NoCommand}
        BY <1>0, <3>2
      <4> QED
        BY <1>0, <3>2, <3>4, <4>1, StayingIsAbstract
    <3>5. CASE Waits(b)'
      <4>1. \A c : (InHand(c)' <=> InHand(c))
        BY <3>2 DEF InHand
      <4>2. \A c \in Command \ {b} : (Waits(c)' <=> Waits(c)) /\ (Pulled(c)' <=> Pulled(c))
        BY <1>0, <3>2, <4>1, RequeueTakesOne
      <4>3. \A c \in Command \ {b} : (Unacked(c)' <=> Unacked(c))
        BY <1>0, <3>1, <3>2 DEF Unacked
      <4>4. \A c \in Command \ {b} : Mapped(c)' = Mapped(c)
        BY <1>0, <3>2, <4>2, <4>3 DEF Mapped
      <4>5. Mapped(b)' = "waiting"
        BY <1>0, <1>00, <3>2, <3>3, <3>5 DEF Mapped
      <4> QED
        BY <1>0, <3>2, <3>3, <4>4, <4>5, MovingIsAbstract
    <3> QED
      BY <1>0, <3>2, <3>4, <3>5, RequeueTakesOne
  <2> QED
    BY <2>1, <2>2
<1>7. ASSUME NEW x \in calls, Reported(k, x) \/ Requeue(k, x) PROVE AbstractStep
  BY <1>1, <1>7 DEF Reported, Requeue, Collect, history
<1>8. ASSUME ReadUplink(k) \/ ReadFails(k) \/ \E d \in Device : Connect(k, d) \/ Rebind(k, d)
      PROVE  AbstractStep
  BY <1>1, <1>8 DEF ReadUplink, ReadFails, Connect, Rebind, coreVars, history
<1> QED
  BY <1>2, <1>3, <1>4, <1>5, <1>6, <1>7, <1>8 DEF Session

\* A device receives only what was transmitted.
LEMMA LinkIsAbstract ==
  ASSUME StageIsMapped, StageIsMapped', AiredInv, TypeInv, TypeInv', NEW k \in Client, Link(k)
  PROVE  AbstractStep
<1>1. UNCHANGED <<queue, calls, pushing, status, held, inflight, outcome, aired>>
  BY DEF Link, Receive, LoseFrames, coreVars, sessionVars, history
<1>2. \A c \in Command : Mapped(c)' = Mapped(c)
  BY <1>1 DEF Mapped, Waits, Pulled, Queued, InHand, Unacked
<1>3. Stages' = Stages
  BY <1>2 DEF Stages, StageIsMapped
<1>4. CASE LoseFrames(k)
  <2>1. ReceivedByAny' = ReceivedByAny
    BY <1>4 DEF LoseFrames, ReceivedByAny, ReceivedOn
  <2> QED
    BY <1>1, <1>3, <2>1 DEF AbstractStep, Lifecycle!vars, Stages, ReceivedByAny
<1>5. CASE Receive(k)
  <2>1. PICK f : f = Head(wire[k])
    OBVIOUS
  <2>2. f \in Frames(k) /\ f \in Frame /\ got' = [got EXCEPT ![k] = got[k] \cup {f}]
    <3>1. wire[k] \in Seq(Frame) /\ wire[k] # <<>>
      BY <1>5 DEF TypeInv, SessionInv, SessionTypeOK, Receive
    <3>2. f = wire[k][1] /\ 1 \in DOMAIN wire[k] /\ f \in Frame
      BY <2>1, <3>1
    <3> QED
      BY <1>5, <2>1, <3>2 DEF Receive, Frames, Waiting
  <2>3. f.cmd \in aired /\ f.cmd \in Command
    BY <2>2 DEF AiredInv, Frame
  <2>4. ReceivedByAny' = ReceivedByAny \cup {f.cmd}
    <3>1. got \in [Client -> SUBSET Frame]
      BY DEF TypeInv, SessionInv, SessionTypeOK
    <3>2. \A c : c \in ReceivedByAny <=> \E j \in Client : \E g \in got[j] : c = g.cmd
      BY DEF ReceivedByAny, ReceivedOn
    <3>3. \A c : c \in ReceivedByAny' <=> \E j \in Client : \E g \in got'[j] : c = g.cmd
      BY DEF ReceivedByAny, ReceivedOn
    <3>4. \A c : c \in ReceivedByAny' <=> c \in ReceivedByAny \/ c = f.cmd
      BY <2>2, <3>1, <3>2, <3>3
    <3> QED
      BY <3>4
  <2>5. Lifecycle!Deliver(f.cmd)
    BY <1>1, <1>3, <2>3, <2>4 DEF Lifecycle!Deliver, Stages, ReceivedByAny
  <2> QED
    BY <2>3, <2>5 DEF AbstractStep, Lifecycle!Next, Lifecycle!Forward
<1> QED
  BY <1>4, <1>5 DEF Link

\* A fault at most loses messages.
LEMMA FaultsAreAbstract ==
  ASSUME StageIsMapped, StageIsMapped', PlaceInv, TypeInv, Faults
  PROVE  AbstractStep
<1>0. calls \subseteq Call /\ UNCHANGED <<status, got, aired, outcome>>
  BY DEF TypeInv, CoreInv, CoreTypeOK, Faults, RpcError, DatabaseError, StoreError, RestartCore,
     CoreRestart, Shutdown, IngressExit, coreVars, coreData, linkVars, history
<1>1. ASSUME NEW k \in Client, RpcError(k) PROVE AbstractStep
  BY <1>0, <1>1, StayingIsAbstract DEF RpcError, Abandon, coreData
<1>2. CASE DatabaseError
  <2>1. PICK x \in calls : StoreError(x)
    BY <1>2 DEF DatabaseError
  <2>2. x.op # "pull" /\ calls' = Answer(x, x.cmd) /\ UNCHANGED <<queue, pushing>>
    BY <2>1 DEF StoreError, TypeInv, CoreInv, CallsServable
  <2>3. \A y \in calls' : \A c \in Command : Carries(y, c) => y \in calls
    BY <2>2, AnswerCarries
  <2> QED
    BY <1>0, <1>2, <2>2, <2>3, StayingIsAbstract DEF DatabaseError, sessionVars
<1>3. CASE RestartCore
  <2>1. /\ \A d \in Device : queue'[d] = <<>>
        /\ pushing' = {} /\ UNCHANGED <<held, inflight>>
        /\ calls' = {x \in calls : Live(x) /\ x.stage = "answered"} \cup
                    {[x EXCEPT !.stage = "answered", !.cmd = NoCommand] :
                       x \in {y \in calls : Live(y) /\ y.stage # "answered"}}
    BY <1>3 DEF RestartCore, CoreRestart, sessionVars
  <2>2. \A x \in calls : [x EXCEPT !.stage = "answered", !.cmd = NoCommand].cmd = NoCommand
    BY <1>0 DEF Call
  <2>3. \A y \in calls' : y \in calls \/ y.cmd = NoCommand
    BY <2>1, <2>2
  <2>4. \A y \in calls' : \A c \in Command : Carries(y, c) => y \in calls
    BY <2>3, DistinctAssumption DEF Carries
  <2> QED
    BY <1>0, <2>1, <2>4, StayingIsAbstract
<1>4. CASE Shutdown
  BY <1>0, <1>4, StayingIsAbstract DEF Shutdown, coreVars, sessionVars
<1>5. CASE IngressExit
  BY <1>0, <1>5, StayingIsAbstract DEF IngressExit, Abandon, coreData
<1> QED
  BY <1>1, <1>2, <1>3, <1>4, <1>5 DEF Faults

\* Delivery over custom TCP implements CommandLifecycle: whatever connections, RPCs
\* and processes do, a command moves along its stages, is confirmed only when a
\* device received it, and leaves its final stage never.
THEOREM ImplementsLifecycle == Spec => LifecycleSpec
<1> DEFINE Inv == /\ TypeInv /\ PlaceInv /\ LiveInv /\ AckInv /\ CreatedInv /\ AiredInv
                  /\ WaitInv /\ StageIsMapped /\ StagesApart
<1>1. Spec => []Inv
  BY TypeInvAlways, PlaceInvAlways, LiveInvAlways, AckInvAlways, TraceInvAlways, WaitInvAlways,
     StageOfIsMapped, StagesExclude, PTL
<1>2. Init => Lifecycle!Init
  <2> SUFFICES ASSUME Init PROVE Lifecycle!Init
    OBVIOUS
  <2>1. \A c \in Command : StageOf(c) = "absent"
    BY DEF Init, CoreInit, StageOf
  <2>2. \A k \in Client : ReceivedOn(k) = {}
    BY DEF Init, ReceivedOn
  <2>3. UNION {ReceivedOn(k) : k \in Client} = {}
    BY <2>2
  <2> QED
    BY <2>1, <2>3 DEF Lifecycle!Init, Init
<1>3. Inv /\ Inv' /\ [Next]_vars => [Lifecycle!Next]_(Lifecycle!vars)
  <2> SUFFICES ASSUME Inv, Inv', [Next]_vars PROVE AbstractStep
    BY DEF AbstractStep
  <2>1. CASE UNCHANGED vars
    <3>1. Stages' = Stages /\ ReceivedByAny' = ReceivedByAny /\ aired' = aired
      BY <2>1 DEF vars, coreVars, sessionVars, linkVars, processVars, history, Stages, StageOf,
         Places, Carries, AtCore, ReceivedByAny, ReceivedOn
    <3> QED
      BY <3>1 DEF AbstractStep, Lifecycle!vars, Stages, ReceivedByAny
  <2> QED
    BY <2>1, CoreStepIsAbstract, SessionIsAbstract, LinkIsAbstract, FaultsAreAbstract
    DEF Next, WaitInv
<1> QED
  BY <1>1, <1>2, <1>3, PTL DEF Spec, LifecycleSpec, Lifecycle!Spec

-----------------------------------------------------------------------------
(* A message stays with the device its command was created for.            *)

\* Whoever has a message has it for its owner: a queue, a call, the loop that
\* writes it, and the session that waits for its ACK, whatever that session is
\* bound to by then.
OwnerInv ==
  /\ \A d \in Device : \A c \in Waiting(queue[d]) : owner[c] = d
  /\ \A x \in calls : \A c \in Command : Carries(x, c) => owner[c] = x.dev
  /\ \A x \in calls : x.op = "pull" /\ Live(x) => x.dev = device[x.from]
  /\ \A k \in Client : held[k] # NoCommand =>
       pc[k] = "sending" /\ owner[held[k]] = target[k] /\ target[k] = device[k]
  /\ \A k \in Client : inflight[k] # NoCommand => owner[inflight[k]] = target[k]

\* The part of it that a step of the Core can disturb.
CoreOwns ==
  /\ \A d \in Device : \A c \in Waiting(queue[d]) : owner[c] = d
  /\ \A x \in calls : \A c \in Command : Carries(x, c) => owner[c] = x.dev
  /\ \A x \in calls : x.op = "pull" /\ Live(x) => x.dev = device[x.from]

\* A call that moves on or is answered keeps its device, ...
LEMMA AdvanceKeepsOwners ==
  ASSUME OwnerInv, NEW x \in calls, NEW z,
         z.from = x.from, z.no = x.no, z.op = x.op, z.dev = x.dev,
         \A c \in Command : Carries(z, c) => owner[c] = x.dev,
         calls' \subseteq (calls \ {x}) \cup {z}, UNCHANGED <<owner, device, attempt>>
  PROVE  /\ \A y \in calls' : \A c \in Command : Carries(y, c) => owner'[c] = y.dev
         /\ \A y \in calls' : y.op = "pull" /\ Live(y)' => y.dev = device'[y.from]
<1>1. \A y \in calls' : y = z \/ y \in calls
  OBVIOUS
<1>2. \A y : Live(y)' = Live(y)
  BY DEF Live
<1>3. Live(z) <=> Live(x)
  BY DEF Live
<1> QED
  BY <1>1, <1>2, <1>3 DEF OwnerInv

LEMMA AnswerKeepsOwners ==
  ASSUME OwnerInv, TypeInv, NEW x \in calls, NEW b, calls' = Answer(x, b),
         x.op = "pull" /\ b \in Command => owner[b] = x.dev,
         UNCHANGED <<owner, device, attempt>>
  PROVE  /\ \A y \in calls' : \A c \in Command : Carries(y, c) => owner'[c] = y.dev
         /\ \A y \in calls' : y.op = "pull" /\ Live(y)' => y.dev = device'[y.from]
<1>1. PICK z : z = [x EXCEPT !.stage = "answered", !.cmd = b]
  OBVIOUS
<1>2. z.from = x.from /\ z.no = x.no /\ z.op = x.op /\ z.dev = x.dev /\ z.cmd = b
      /\ z.stage = "answered"
  BY <1>1 DEF TypeInv, CoreInv, CoreTypeOK, Call
<1>3. \A c \in Command : Carries(z, c) => owner[c] = x.dev
  BY <1>2 DEF Carries
<1>4. calls' \subseteq (calls \ {x}) \cup {z}
  BY <1>1 DEF Answer
<1> QED
  BY <1>2, <1>3, <1>4, AdvanceKeepsOwners

\* ... a push, a pop and a retry keep to the queue of the owner, ...
LEMMA CoreNextKeepsOwnerInv ==
  ASSUME OwnerInv, TypeInv, PlaceInv, CoreStep
  PROVE  OwnerInv'
<1>0. /\ CoreNext /\ UNCHANGED <<pc, device, held, target, inflight>>
      /\ queue \in [Device -> Seq(Command)] /\ owner \in [Command -> Device \cup {NoDevice}]
      /\ held \in [Client -> Command \cup {NoCommand}]
      /\ inflight \in [Client -> Command \cup {NoCommand}]
      /\ calls \subseteq Call
  BY DEF CoreStep, sessionVars, TypeInv, CoreInv, CoreTypeOK, SessionInv, SessionTypeOK
<1>1. ASSUME CoreOwns', \A c \in Command : InHand(c) \/ Unacked(c) => owner'[c] = owner[c]
      PROVE  OwnerInv'
  <2>1. ASSUME NEW k \in Client, held'[k] # NoCommand
        PROVE  pc'[k] = "sending" /\ owner'[held'[k]] = target'[k] /\ target'[k] = device'[k]
    <3>1. held[k] \in Command /\ InHand(held[k])
      BY <1>0, <2>1 DEF InHand
    <3> QED
      BY <1>0, <1>1, <2>1, <3>1 DEF OwnerInv
  <2>2. ASSUME NEW k \in Client, inflight'[k] # NoCommand
        PROVE  owner'[inflight'[k]] = target'[k]
    <3>1. inflight[k] \in Command /\ Unacked(inflight[k])
      BY <1>0, <2>2 DEF Unacked
    <3> QED
      BY <1>0, <1>1, <2>2, <3>1 DEF OwnerInv
  <2> QED
    BY <1>1, <2>1, <2>2 DEF OwnerInv, CoreOwns
<1>2. ASSUME NEW b \in Command, NEW d \in Device, CreateCommand(b, d) PROVE OwnerInv'
  <2>1. Nowhere(b)
    BY <1>2 DEF CreateCommand, PlaceInv, Ended
  <2>2. /\ UNCHANGED <<queue, calls, attempt>> /\ \A c \in Command \ {b} : owner'[c] = owner[c]
    BY <1>0, <1>2 DEF CreateCommand
  <2>3. \A e \in Device : \A c \in Waiting(queue[e]) : c \in Command /\ c # b
    BY <1>0, <2>1 DEF Nowhere, Queued, Waiting
  <2>4. \A x \in calls : \A c \in Command : Carries(x, c) => c # b
    BY <2>1 DEF Nowhere, OnCall
  <2>5. CoreOwns'
    BY <1>0, <2>2, <2>3, <2>4 DEF OwnerInv, CoreOwns, Live
  <2>6. \A c \in Command : InHand(c) \/ Unacked(c) => owner'[c] = owner[c]
    BY <2>1, <2>2 DEF Nowhere
  <2> QED
    BY <1>1, <2>5, <2>6
<1>3. ASSUME NEW b \in Command, PushCommand(b) PROVE OwnerInv'
  <2>1. PICK d : d = owner[b]
    OBVIOUS
  <2>2. /\ d \in Device /\ UNCHANGED <<owner, calls, attempt>>
        /\ queue' = [queue EXCEPT ![d] = Enqueued(queue[d], b, Capacity)]
    BY <1>3, <2>1 DEF PushCommand, TypeInv, CoreInv, PushingOwned
  <2>3. b \in pushing /\ NoRepeats(queue[d]) /\ b \notin Waiting(queue[d])
    BY <1>3, <2>2 DEF PushCommand, PlaceInv, OnceQueued, Apart, Queued
  <2>4. Waiting(Enqueued(queue[d], b, Capacity)) \subseteq Waiting(queue[d]) \cup {b}
    BY <1>0, <2>2, <2>3, EnqueuedOnce, CapacityAssumption
  <2>5. \A e \in Device : \A c \in Waiting(queue'[e]) : owner'[c] = e
    BY <1>0, <2>1, <2>2, <2>4 DEF OwnerInv
  <2>6. CoreOwns'
    BY <1>0, <2>2, <2>5 DEF OwnerInv, CoreOwns, Live
  <2> QED
    BY <1>1, <2>2, <2>6
<1>4. ASSUME NEW x \in calls, ServePull(x) PROVE OwnerInv'
  <2>1. UNCHANGED <<owner, attempt>> /\ x.op = "pull" /\ x.dev \in Device
    BY <1>0, <1>4 DEF ServePull, Call
  <2>2. CASE queue[x.dev] = <<>>
    <3>1. calls' = Answer(x, NoCommand) /\ queue' = queue
      BY <1>4, <2>2 DEF ServePull
    <3>2. CoreOwns'
      BY <1>0, <2>1, <3>1, AnswerKeepsOwners, DistinctAssumption DEF OwnerInv, CoreOwns
    <3> QED
      BY <1>1, <2>1, <3>2
  <2>3. CASE queue[x.dev] # <<>>
    <3>1. PICK d : d = x.dev
      OBVIOUS
    <3>2. PICK b : b = Head(queue[d])
      OBVIOUS
    <3>3. calls' = Answer(x, b) /\ queue' = [queue EXCEPT ![d] = Tail(queue[d])] /\ d \in Device
      BY <1>4, <2>1, <2>3, <3>1, <3>2 DEF ServePull
    <3>4. NoRepeats(queue[d])
      BY <3>3 DEF PlaceInv, OnceQueued
    <3>5. b \in Waiting(queue[d]) /\ Waiting(Tail(queue[d])) \subseteq Waiting(queue[d])
      BY <1>0, <2>3, <3>1, <3>2, <3>3, <3>4, TailOnce
    <3>6. owner[b] = d
      BY <3>3, <3>5 DEF OwnerInv
    <3>7. \A e \in Device : \A c \in Waiting(queue'[e]) : owner'[c] = e
      BY <1>0, <2>1, <3>3, <3>5 DEF OwnerInv
    <3>8. CoreOwns'
      BY <1>0, <2>1, <3>1, <3>3, <3>6, <3>7, AnswerKeepsOwners DEF CoreOwns
    <3> QED
      BY <1>1, <2>1, <3>8
  <2> QED
    BY <2>2, <2>3
<1>5. ASSUME NEW x \in calls, ServeMark(x) \/ FinishRequeue(x) PROVE OwnerInv'
  <2>1. /\ UNCHANGED <<owner, attempt, queue>> /\ x.op # "pull" /\ calls' = Answer(x, x.cmd)
    BY <1>5 DEF ServeMark, FinishRequeue, TypeInv, CoreInv, CallsServable
  <2>2. CoreOwns'
    BY <1>0, <2>1, AnswerKeepsOwners DEF OwnerInv, CoreOwns
  <2> QED
    BY <1>1, <2>1, <2>2
<1>6. ASSUME NEW x \in calls, ServeRequeue(x) PROVE OwnerInv'
  <2>1. /\ UNCHANGED <<owner, attempt>> /\ x.op = "requeue" /\ x.stage = "issued"
    BY <1>6 DEF ServeRequeue
  <2>2. PICK b, d : b = x.cmd /\ d = x.dev
    OBVIOUS
  <2>3. b \in Command /\ d \in Device /\ owner[b] = d /\ Carries(x, b)
    BY <1>0, <2>1, <2>2 DEF TypeInv, CoreInv, CallsServable, Call, Carries, OwnerInv
  <2>4. /\ \A y \in calls' : \A c \in Command : Carries(y, c) => owner'[c] = y.dev
        /\ \A y \in calls' : y.op = "pull" /\ Live(y)' => y.dev = device'[y.from]
    <3>1. CASE calls' = Answer(x, x.cmd)
      BY <1>0, <2>1, <3>1, AnswerKeepsOwners
    <3>2. CASE calls' = (calls \ {x}) \cup {[x EXCEPT !.stage = "pushed"]}
      <4>1. PICK z : z = [x EXCEPT !.stage = "pushed"]
        OBVIOUS
      <4>2. /\ z.from = x.from /\ z.no = x.no /\ z.op = x.op /\ z.dev = x.dev
            /\ z.stage = "pushed"
        BY <1>0, <4>1 DEF Call
      <4>3. \A c \in Command : ~Carries(z, c)
        BY <4>2 DEF Carries
      <4> QED
        BY <1>0, <2>1, <3>2, <4>1, <4>2, <4>3, AdvanceKeepsOwners
    <3> QED
      BY <1>6, <3>1, <3>2 DEF ServeRequeue
  <2>5. \A e \in Device : \A c \in Waiting(queue'[e]) : owner'[c] = e
    <3>1. CASE queue' = queue
      BY <2>1, <3>1 DEF OwnerInv
    <3>2. CASE queue' = [queue EXCEPT ![d] = Requeued(queue[d], b, Capacity)]
      <4>1. NoRepeats(queue[d]) /\ b \notin Waiting(queue[d])
        BY <2>3 DEF PlaceInv, OnceQueued, Apart, Queued, OnCall
      <4>2. Waiting(Requeued(queue[d], b, Capacity)) \subseteq Waiting(queue[d]) \cup {b}
        BY <1>0, <2>3, <4>1, RequeuedOnce, CapacityAssumption
      <4> QED
        BY <1>0, <2>1, <2>3, <3>2, <4>2 DEF OwnerInv
    <3> QED
      BY <1>6, <2>2, <3>1, <3>2 DEF ServeRequeue
  <2>6. CoreOwns'
    BY <2>4, <2>5 DEF CoreOwns
  <2> QED
    BY <1>1, <2>1, <2>6
<1>7. ASSUME NEW x \in calls, LoseRequest(x) PROVE OwnerInv'
  <2>1. calls' \subseteq calls /\ UNCHANGED <<owner, attempt, queue>>
    BY <1>7 DEF LoseRequest
  <2>2. CoreOwns'
    BY <1>0, <2>1 DEF OwnerInv, CoreOwns, Live
  <2> QED
    BY <1>1, <2>1, <2>2
<1> QED
  BY <1>0, <1>2, <1>3, <1>4, <1>5, <1>6, <1>7 DEF CoreNext

\* ... a client asks for its device and sends a message back to its owner, ...
LEMMA RequestKeepsOwners ==
  ASSUME OwnerInv, TypeInv, NEW k \in Client, NEW op, NEW d, NEW b, NEW label,
         Request(k, op, d, b, label),
         op = "pull" => d = device[k], op = "requeue" => owner[b] = d,
         UNCHANGED <<owner, queue, device>>
  PROVE  CoreOwns'
<1>1. PICK z : z = [from |-> k, no |-> attempt[k], op |-> op, dev |-> d, cmd |-> b,
                    stage |-> "issued"]
  OBVIOUS
<1>2. z.from = k /\ z.op = op /\ z.dev = d /\ z.cmd = b /\ z.stage = "issued"
  BY <1>1
<1>3. calls' \subseteq calls \cup {z} /\ attempt' = attempt
  BY <1>1 DEF Request, Issue
<1>4. \A c \in Command : Carries(z, c) => owner[c] = z.dev
  BY <1>2 DEF Carries
<1>5. \A y : Live(y)' = Live(y)
  BY <1>3 DEF Live
<1> QED
  BY <1>2, <1>3, <1>4, <1>5 DEF OwnerInv, CoreOwns

\* ... a goroutine that waits for nothing may be bound to another device, and what
\* it pulled is for the device it is bound to, ...
LEMMA SessionKeepsOwnerInv ==
  ASSUME OwnerInv, TypeInv, PlaceInv, LiveInv, WaitInv, NEW k \in Client, Session(k)
  PROVE  OwnerInv'
<1>0. /\ UNCHANGED <<queue, owner>> /\ NoCommand \notin Command
      /\ pc \in [Client -> PC] /\ device \in [Client -> Device \cup {NoDevice}]
      /\ held \in [Client -> Command \cup {NoCommand}]
      /\ inflight \in [Client -> Command \cup {NoCommand}]
      /\ target \in [Client -> Device \cup {NoDevice}]
      /\ \A x \in calls : x.from \in Client
  <2>1. UNCHANGED <<queue, owner>>
    BY DEF Session, Connect, Rebind, ReadUplink, ReadAck, ReadFails, PopCommand, PackFails,
           WriteFrame, WriteFails, Close, Popped, Reported, Requeue, coreVars, coreData
  <2> QED
    BY <2>1, DistinctAssumption
    DEF TypeInv, SessionInv, SessionTypeOK, CoreInv, CoreTypeOK, Call
<1>1. \A j \in Client \ {k} : pc'[j] = pc[j] /\ device'[j] = device[j] /\ held'[j] = held[j]
                              /\ target'[j] = target[j] /\ inflight'[j] = inflight[j]
  BY <1>0 DEF Session, Connect, Rebind, ReadUplink, ReadAck, ReadFails, PopCommand, PackFails,
     WriteFrame, WriteFails, Close, Popped, Reported, Requeue, Spend, ClearInflight, Request, Goto
\* It is enough that the goroutine's own message has the right owner.
<1>2. ASSUME CoreOwns',
             held'[k] # NoCommand => pc'[k] = "sending" /\ owner[held'[k]] = target'[k]
                                     /\ target'[k] = device'[k],
             inflight'[k] # NoCommand => owner[inflight'[k]] = target'[k]
      PROVE  OwnerInv'
  <2>1. ASSUME NEW j \in Client
        PROVE  /\ held'[j] # NoCommand =>
                    pc'[j] = "sending" /\ owner'[held'[j]] = target'[j] /\ target'[j] = device'[j]
               /\ inflight'[j] # NoCommand => owner'[inflight'[j]] = target'[j]
    <3>1. CASE j = k
      BY <1>0, <1>2, <3>1
    <3>2. CASE j # k
      BY <1>0, <1>1, <3>2 DEF OwnerInv
    <3> QED
      BY <3>1, <3>2
  <2> QED
    BY <1>2, <2>1 DEF OwnerInv, CoreOwns
<1>3. pc[k] # "sending" => held[k] = NoCommand
  BY DEF OwnerInv
<1>4. ASSUME UNCHANGED attempt, calls' \subseteq calls, pc[k] \notin Awaiting \/ device'[k] = device[k]
      PROVE  CoreOwns'
  <2>1. \A x \in calls : Live(x)' = Live(x)
    BY <1>4 DEF Live
  <2>2. \A x \in calls : Live(x) => device'[x.from] = device[x.from]
    BY <1>0, <1>1, <1>4 DEF LiveInv, Asks, Awaiting
  <2>3. \A x \in calls' : x.op = "pull" /\ Live(x)' => x.dev = device'[x.from]
    BY <1>4, <2>1, <2>2 DEF OwnerInv
  <2> QED
    BY <1>0, <1>4, <2>3 DEF OwnerInv, CoreOwns
<1>5. ASSUME ReadUplink(k) \/ ReadFails(k) \/ \E d \in Device : Connect(k, d) \/ Rebind(k, d)
      PROVE  OwnerInv'
  <2>1. /\ pc[k] \in {"none", "read"} /\ UNCHANGED <<calls, attempt, held, target, inflight>>
    BY <1>5 DEF ReadUplink, ReadFails, Connect, Rebind, coreVars
  <2>2. CoreOwns'
    BY <1>4, <2>1 DEF Awaiting
  <2>3. inflight'[k] # NoCommand => owner[inflight'[k]] = target'[k]
    BY <2>1 DEF OwnerInv
  <2> QED
    BY <1>2, <1>3, <2>1, <2>2, <2>3
<1>6. ASSUME NEW f \in got[k], ReadAck(k, f) PROVE OwnerInv'
  <2>1. pc[k] = "read" /\ UNCHANGED <<held, target, device>>
    BY <1>6 DEF ReadAck
  <2>2. CASE AckMatches(k, f)
    <3>1. Request(k, "acked", device[k], inflight[k], "reporting") /\ inflight'[k] = NoCommand
      BY <1>0, <1>6, <2>2 DEF ReadAck, ClearInflight
    <3>2. CoreOwns'
      BY <1>0, <2>1, <3>1, RequestKeepsOwners
    <3> QED
      BY <1>2, <1>3, <2>1, <3>1, <3>2
  <2>3. CASE ~AckMatches(k, f)
    <3>1. UNCHANGED <<calls, attempt, inflight>>
      BY <1>6, <2>3 DEF ReadAck
    <3>2. CoreOwns'
      BY <1>4, <2>1, <3>1
    <3>3. inflight'[k] # NoCommand => owner[inflight'[k]] = target'[k]
      BY <2>1, <3>1 DEF OwnerInv
    <3> QED
      BY <1>2, <1>3, <2>1, <3>2, <3>3
  <2> QED
    BY <2>2, <2>3
<1>7. CASE PopCommand(k)
  <2>1. pc[k] = "pop" /\ UNCHANGED <<held, target, device, inflight>>
    BY <1>7 DEF PopCommand
  <2>2. CoreOwns'
    <3>1. CASE Request(k, "pull", device[k], NoCommand, "pulling")
      BY <1>0, <2>1, <3>1, RequestKeepsOwners
    <3>2. CASE UNCHANGED <<calls, attempt>>
      BY <1>4, <2>1, <3>2
    <3> QED
      BY <1>7, <3>1, <3>2 DEF PopCommand
  <2>3. inflight'[k] # NoCommand => owner[inflight'[k]] = target'[k]
    BY <2>1 DEF OwnerInv
  <2> QED
    BY <1>2, <1>3, <2>1, <2>2, <2>3
<1>8. ASSUME NEW x \in calls, Popped(k, x) PROVE OwnerInv'
  <2>1. /\ pc[k] = "pulling" /\ x.from = k /\ Live(x) /\ x.stage = "answered"
        /\ calls' = calls \ {x} /\ UNCHANGED <<attempt, device, inflight>>
        /\ held'[k] = x.cmd /\ target'[k] = x.dev
        /\ pc'[k] = IF x.cmd = NoCommand THEN "read" ELSE "sending"
    BY <1>0, <1>8 DEF Popped, Collect, Goto
  <2>2. x.op = "pull" /\ x.dev = device[k]
    BY <2>1 DEF LiveInv, Asks, OwnerInv
  <2>3. inflight'[k] = NoCommand
    BY <2>1 DEF WaitInv, NothingUnanswered
  <2>4. x.cmd \in Command => owner[x.cmd] = x.dev
    BY <2>1, <2>2 DEF OwnerInv, Carries
  <2>5. x.cmd \in Command \cup {NoCommand}
    BY DEF TypeInv, CoreInv, CoreTypeOK, Call
  <2>6. CoreOwns'
    BY <1>4, <2>1
  <2> QED
    BY <1>2, <2>1, <2>2, <2>3, <2>4, <2>5, <2>6
<1>9. CASE PackFails(k) \/ WriteFrame(k) \/ WriteFails(k)
  <2>1. pc[k] = "sending" /\ held'[k] = NoCommand /\ UNCHANGED <<target, device>>
    BY <1>0, <1>9 DEF PackFails, WriteFrame, WriteFails, Spend
  <2>2. held[k] \in Command /\ owner[held[k]] = target[k]
    BY <1>0, <2>1 DEF TypeInv, SessionInv, SendingHolds, OwnerInv
  <2>3. CoreOwns'
    <3>1. \E op \in {"failed", "sent", "requeue"}, label \in PC :
            Request(k, op, target[k], held[k], label)
      BY <1>9 DEF PackFails, WriteFrame, WriteFails, PC
    <3> QED
      BY <1>0, <2>1, <2>2, <3>1, RequestKeepsOwners
  <2>4. inflight'[k] \in {inflight[k], held[k]}
    BY <1>0, <1>9 DEF PackFails, WriteFrame, WriteFails
  <2>5. inflight'[k] # NoCommand => owner[inflight'[k]] = target'[k]
    BY <2>1, <2>2, <2>4 DEF OwnerInv
  <2> QED
    BY <1>2, <2>1, <2>3, <2>5
<1>10. CASE Close(k)
  <2>1. pc[k] = "closing" /\ inflight'[k] = NoCommand /\ UNCHANGED <<held, target, device>>
    BY <1>0, <1>10 DEF Close, ClearInflight
  <2>2. CoreOwns'
    <3>1. CASE inflight[k] = NoCommand
      BY <1>4, <1>10, <2>1, <3>1 DEF Close
    <3>2. CASE inflight[k] # NoCommand
      <4>1. Request(k, "requeue", target[k], inflight[k], "requeueing")
        BY <1>10, <3>2 DEF Close
      <4>2. owner[inflight[k]] = target[k]
        BY <3>2 DEF OwnerInv
      <4> QED
        BY <1>0, <2>1, <4>1, <4>2, RequestKeepsOwners
    <3> QED
      BY <3>1, <3>2
  <2> QED
    BY <1>2, <1>3, <2>1, <2>2
<1>11. ASSUME NEW x \in calls, Reported(k, x) \/ Requeue(k, x) PROVE OwnerInv'
  <2>1. /\ pc[k] # "sending" /\ calls' \subseteq calls
        /\ UNCHANGED <<attempt, held, target, device, inflight>>
    BY <1>11 DEF Reported, Requeue, Collect
  <2>2. CoreOwns'
    BY <1>4, <2>1
  <2>3. inflight'[k] # NoCommand => owner[inflight'[k]] = target'[k]
    BY <2>1 DEF OwnerInv
  <2> QED
    BY <1>2, <1>3, <2>1, <2>2, <2>3
<1> QED
  BY <1>5, <1>6, <1>7, <1>8, <1>9, <1>10, <1>11 DEF Session

\* ... and a fault moves no message.
LEMMA FaultsKeepOwnerInv ==
  ASSUME OwnerInv, TypeInv, LiveInv, Faults
  PROVE  OwnerInv'
<1>0. /\ held \in [Client -> Command \cup {NoCommand}] /\ pc \in [Client -> PC]
      /\ inflight \in [Client -> Command \cup {NoCommand}]
      /\ calls \subseteq Call /\ attempt \in [Client -> Nat] /\ NoCommand \notin Command
  BY DistinctAssumption DEF TypeInv, SessionInv, SessionTypeOK, CoreInv, CoreTypeOK
<1>1. ASSUME CoreOwns', UNCHANGED <<owner, target, device>>,
             \A k \in Client : held'[k] = NoCommand \/ (held'[k] = held[k] /\ pc'[k] = pc[k]),
             \A k \in Client : inflight'[k] \in {inflight[k], NoCommand}
      PROVE  OwnerInv'
  BY <1>1 DEF OwnerInv, CoreOwns
<1>2. ASSUME NEW K, Abandon(K), UNCHANGED <<queue, owner, device>> PROVE CoreOwns'
  <2>1. \A x \in calls : Live(x)' => Live(x)
    <3> SUFFICES ASSUME NEW x \in calls, Live(x)' PROVE Live(x)
      OBVIOUS
    <3>1. x.from \in Client /\ x.no \in Nat /\ x.no <= attempt[x.from] /\ attempt[x.from] \in Nat
      BY <1>0 DEF Call, LiveInv
    <3>2. attempt'[x.from] = IF x.from \in K THEN attempt[x.from] + 1 ELSE attempt[x.from]
      BY <1>2, <3>1 DEF Abandon
    <3> QED
      BY <3>1, <3>2 DEF Live
  <2>2. calls' \subseteq calls
    BY <1>2 DEF Abandon
  <2> QED
    BY <1>2, <2>1, <2>2 DEF OwnerInv, CoreOwns
<1>3. ASSUME NEW k \in Client, RpcError(k) PROVE OwnerInv'
  <2>1. pc[k] \in Awaiting /\ Abandon({k}) /\ pc' = [pc EXCEPT ![k] = AfterError(pc[k])]
        /\ UNCHANGED <<queue, owner, target, device, held, inflight>>
    BY <1>3 DEF RpcError, coreData, Goto
  <2>2. held[k] = NoCommand
    BY <2>1 DEF Awaiting, OwnerInv
  <2>3. \A j \in Client : held'[j] = NoCommand \/ (held'[j] = held[j] /\ pc'[j] = pc[j])
    BY <1>0, <2>1, <2>2
  <2> QED
    BY <1>1, <1>2, <2>1, <2>3
<1>4. CASE DatabaseError
  <2>1. PICK x \in calls : StoreError(x)
    BY <1>4 DEF DatabaseError
  <2>2. /\ x.op # "pull" /\ calls' = Answer(x, x.cmd) /\ UNCHANGED <<queue, owner, attempt>>
        /\ UNCHANGED <<pc, held, inflight, target, device>>
    BY <1>4, <2>1 DEF DatabaseError, StoreError, sessionVars, TypeInv, CoreInv, CallsServable
  <2>3. CoreOwns'
    BY <2>2, AnswerKeepsOwners DEF OwnerInv, CoreOwns
  <2> QED
    BY <1>1, <2>2, <2>3
<1>5. CASE RestartCore
  <2>1. /\ \A d \in Device : queue'[d] = <<>>
        /\ UNCHANGED <<owner, attempt, pc, held, inflight, target, device>>
        /\ calls' = {x \in calls : Live(x) /\ x.stage = "answered"} \cup
                    {[x EXCEPT !.stage = "answered", !.cmd = NoCommand] :
                       x \in {y \in calls : Live(y) /\ y.stage # "answered"}}
    BY <1>5 DEF RestartCore, CoreRestart, sessionVars
  <2>2. ASSUME NEW y \in calls'
        PROVE  \/ y \in calls
               \/ \E x \in calls : /\ y.from = x.from /\ y.no = x.no /\ y.op = x.op /\ y.dev = x.dev
                                   /\ y.cmd = NoCommand
    <3>1. CASE y \in calls
      BY <3>1
    <3>2. CASE y \notin calls
      <4>1. PICK x \in calls : y = [x EXCEPT !.stage = "answered", !.cmd = NoCommand]
        BY <2>1, <3>2
      <4> QED
        BY <1>0, <4>1 DEF Call
    <3> QED
      BY <3>1, <3>2
  <2>3. \A y \in calls' : \A c \in Command : Carries(y, c) => y \in calls
    BY <1>0, <2>2 DEF Carries
  <2>4. \A y \in calls' : y.op = "pull" /\ Live(y)' => y.dev = device'[y.from]
    <3> SUFFICES ASSUME NEW y \in calls', y.op = "pull", Live(y)' PROVE y.dev = device[y.from]
      BY <2>1
    <3>1. PICK x \in calls : y.from = x.from /\ y.no = x.no /\ y.op = x.op /\ y.dev = x.dev
      BY <2>2
    <3>2. Live(x)
      BY <2>1, <3>1 DEF Live
    <3> QED
      BY <3>1, <3>2 DEF OwnerInv
  <2>5. CoreOwns'
    <3>1. \A d \in Device : queue'[d] = <<>>
      BY <2>1
    <3>2. \A d \in Device : \A c \in Waiting(queue'[d]) : owner'[c] = d
      BY <3>1 DEF Waiting
    <3>3. \A x \in calls' : \A c \in Command : Carries(x, c) => owner'[c] = x.dev
      BY <2>1, <2>3 DEF OwnerInv
    <3> QED
      BY <2>4, <3>2, <3>3 DEF CoreOwns
  <2> QED
    BY <1>1, <2>1, <2>5
<1>6. CASE Shutdown
  <2>1. UNCHANGED <<queue, calls, owner, attempt, pc, held, inflight, target, device>>
    BY <1>6 DEF Shutdown, coreVars, sessionVars
  <2> QED
    BY <2>1 DEF OwnerInv, Live
<1>7. CASE IngressExit
  <2>1. /\ Abandon(Connected) /\ UNCHANGED <<queue, owner, target, device>>
        /\ \A k \in Client : held'[k] = NoCommand /\ inflight'[k] = NoCommand
    BY <1>7 DEF IngressExit, coreData
  <2> QED
    BY <1>1, <1>2, <2>1
<1> QED
  BY <1>3, <1>4, <1>5, <1>6, <1>7 DEF Faults

\* So it is always.
LEMMA OwnerInvAlways == Spec => []OwnerInv
<1>1. Init => OwnerInv
  BY DistinctAssumption DEF Init, CoreInit, OwnerInv, Waiting
<1>2. TypeInv /\ LiveInv /\ PlaceInv /\ WaitInv /\ OwnerInv /\ [Next]_vars => OwnerInv'
  <2> SUFFICES ASSUME TypeInv, LiveInv, PlaceInv, WaitInv, OwnerInv, [Next]_vars PROVE OwnerInv'
    OBVIOUS
  <2>1. CASE UNCHANGED vars \/ \E k \in Client : Link(k)
    <3>1. UNCHANGED <<queue, calls, owner, attempt, pc, held, inflight, target, device>>
      BY <2>1 DEF vars, Link, Receive, LoseFrames, coreVars, sessionVars
    <3> QED
      BY <3>1 DEF OwnerInv, Live
  <2> QED
    BY <2>1, CoreNextKeepsOwnerInv, SessionKeepsOwnerInv, FaultsKeepOwnerInv DEF Next
<1> QED
  BY <1>1, <1>2, TypeInvAlways, LiveInvAlways, PlaceInvAlways, WaitInvAlways, PTL DEF Spec

-----------------------------------------------------------------------------
(* Until something fails, no message is lost.                              *)

\* Nobody has given up a call yet.
CalmInv == faults = 0 => ~ctxDone /\ \A k \in Client : attempt[k] = 0

\* What a fault changes nothing else does.
LEMMA OnlyFaultsFail ==
  ASSUME [Next]_vars
  PROVE  Faults \/ UNCHANGED <<faults, ctxDone, attempt>>
<1>1. ASSUME NEW k \in Client, Session(k) PROVE UNCHANGED <<faults, ctxDone, attempt>>
  <2>1. UNCHANGED processVars
    BY <1>1 DEF Session, Connect, Rebind, ReadUplink, ReadAck, ReadFails, PopCommand, PackFails,
       WriteFrame, WriteFails, Close, Popped, Reported, Requeue
  <2>2. UNCHANGED attempt
    BY <1>1 DEF Session, Connect, Rebind, ReadUplink, ReadAck, ReadFails, PopCommand, PackFails,
       WriteFrame, WriteFails, Close, Popped, Reported, Requeue, Request, Issue, Collect, coreVars
  <2> QED
    BY <2>1, <2>2 DEF processVars
<1>2. ASSUME NEW k \in Client, Link(k) PROVE UNCHANGED <<faults, ctxDone, attempt>>
  BY <1>2 DEF Link, Receive, LoseFrames, processVars, coreVars
<1>3. CASE CoreStep
  <2>1. UNCHANGED attempt
    BY <1>3 DEF CoreStep, CoreNext, CreateCommand, PushCommand, ServePull, ServeMark, ServeRequeue,
       FinishRequeue, LoseRequest
  <2> QED
    BY <1>3, <2>1 DEF CoreStep, processVars
<1>4. CASE UNCHANGED vars
  BY <1>4 DEF vars, processVars, coreVars
<1> QED
  BY <1>1, <1>2, <1>3, <1>4 DEF Next

\* A step before the first fault is none of the faults.
LEMMA NoFaultYet ==
  ASSUME TypeInv, LiveInv, CalmInv, [Next]_vars, faults' = 0
  PROVE  faults = 0 /\ ~ctxDone /\ ~Faults /\ \A x \in calls : Live(x)
<1>1. faults' = faults \/ faults' = faults + 1
  BY OnlyFaultsFail
  DEF Faults, RpcError, DatabaseError, RestartCore, Shutdown, IngressExit, Fault
<1>2. faults \in Nat
  BY FaultAssumption DEF TypeInv, SessionInv, SessionTypeOK
<1>3. faults = 0 /\ ~ctxDone
  BY <1>1, <1>2 DEF CalmInv
<1>4. ~Faults
  <2>1. ASSUME NEW k \in Client, RpcError(k) PROVE FALSE
    BY <1>3, <2>1 DEF RpcError, Fault
  <2>2. ASSUME DatabaseError \/ RestartCore \/ Shutdown PROVE FALSE
    BY <1>3, <2>2 DEF DatabaseError, RestartCore, Shutdown, Fault
  <2>3. ASSUME IngressExit PROVE FALSE
    BY <1>3, <2>3 DEF IngressExit, Fault
  <2> QED
    BY <2>1, <2>2, <2>3 DEF Faults
<1>5. ASSUME NEW x \in calls PROVE Live(x)
  <2>1. x.from \in Client /\ x.no \in Nat /\ x.no <= attempt[x.from]
    BY DEF TypeInv, CoreInv, CoreTypeOK, Call, LiveInv
  <2>2. attempt[x.from] = 0
    BY <1>3, <2>1 DEF CalmInv
  <2> QED
    BY <2>1, <2>2 DEF Live
<1> QED
  BY <1>3, <1>4, <1>5

LEMMA CalmInvAlways == Spec => []CalmInv
<1>1. Init => CalmInv
  BY DEF Init, CoreInit, CalmInv
<1>2. TypeInv /\ LiveInv /\ CalmInv /\ [Next]_vars => CalmInv'
  <2> SUFFICES ASSUME TypeInv, LiveInv, CalmInv, [Next]_vars, faults' = 0
               PROVE  ~ctxDone' /\ \A k \in Client : attempt'[k] = 0
    BY DEF CalmInv
  <2>1. faults = 0 /\ ~Faults
    BY NoFaultYet
  <2>2. UNCHANGED <<ctxDone, attempt>>
    BY <2>1, OnlyFaultsFail
  <2> QED
    BY <2>1, <2>2 DEF CalmInv
<1> QED
  BY <1>1, <1>2, TypeInvAlways, LiveInvAlways, PTL DEF Spec

\* What pushing and popping keep in a queue.
LEMMA AppendHolds ==
  ASSUME NEW S, NEW q \in Seq(S), NEW m
  PROVE  Waiting(q) \cup {m} \subseteq Waiting(Append(q, m))
<1>1. /\ Len(q) \in Nat /\ DOMAIN q = 1 .. Len(q)
      /\ DOMAIN Append(q, m) = 1 .. Len(q) + 1
      /\ Append(q, m)[Len(q) + 1] = m
      /\ \A i \in 1 .. Len(q) : Append(q, m)[i] = q[i]
  OBVIOUS
<1>2. \A i \in 1 .. Len(q) : i \in 1 .. Len(q) + 1
  BY <1>1
<1>3. Len(q) + 1 \in 1 .. Len(q) + 1
  BY <1>1
<1> QED
  BY <1>1, <1>2, <1>3 DEF Waiting

LEMMA TailHolds ==
  ASSUME NEW S, NEW q \in Seq(S), q # <<>>
  PROVE  Waiting(q) \ {Head(q)} \subseteq Waiting(Tail(q))
<1>1. /\ Len(q) \in Nat \ {0} /\ DOMAIN q = 1 .. Len(q) /\ Head(q) = q[1]
      /\ DOMAIN Tail(q) = 1 .. Len(q) - 1
      /\ \A i \in 1 .. Len(q) - 1 : Tail(q)[i] = q[i + 1]
  BY EmptySeq
<1>2. \A i \in 2 .. Len(q) : i - 1 \in 1 .. Len(q) - 1 /\ Tail(q)[i - 1] = q[i]
  BY <1>1
<1>3. \A i \in 1 .. Len(q) : i = 1 \/ i \in 2 .. Len(q)
  BY <1>1
<1>4. \A i \in DOMAIN q : q[i] # Head(q) => \E j \in DOMAIN Tail(q) : Tail(q)[j] = q[i]
  BY <1>1, <1>2, <1>3
<1> QED
  BY <1>4 DEF Waiting

LEMMA ConcatHolds ==
  ASSUME NEW S, NEW q \in Seq(S), NEW m \in S
  PROVE  Waiting(q) \cup {m} \subseteq Waiting(<<m>> \o q)
<1>1. PICK r : r = <<m>> \o q
  OBVIOUS
<1>2. /\ <<m>> \in Seq(S) /\ Len(<<m>>) = 1 /\ <<m>>[1] = m
      /\ Len(q) \in Nat /\ DOMAIN q = 1 .. Len(q)
  OBVIOUS
<1>3. /\ r \in Seq(S) /\ Len(r) = 1 + Len(q)
      /\ \A i \in 1 .. 1 + Len(q) : r[i] = IF i <= 1 THEN <<m>>[i] ELSE q[i - 1]
  BY <1>1, <1>2, ConcatProperties
<1>4. DOMAIN r = 1 .. 1 + Len(q)
  BY <1>3
<1>5. r[1] = m /\ 1 \in DOMAIN r
  BY <1>2, <1>3, <1>4
<1>6. \A i \in 1 .. Len(q) : i + 1 \in DOMAIN r /\ r[i + 1] = q[i]
  BY <1>2, <1>3, <1>4
<1>7. m \in Waiting(r) /\ Waiting(q) \subseteq Waiting(r)
  BY <1>2, <1>5, <1>6 DEF Waiting
<1> QED
  BY <1>1, <1>7

\* A queue without repetitions that lacks an element of a finite set is shorter
\* than the set is large, ...
LEMMA ShorterThanSet ==
  ASSUME NEW S, IsFiniteSet(S), NEW q \in Seq(S), NoRepeats(q),
         NEW m \in S, m \notin Waiting(q)
  PROVE  Len(q) < Cardinality(S)
<1> DEFINE T == S \ {m}
<1>1. IsFiniteSet(T) /\ Cardinality(T) = Cardinality(S) - 1 /\ Cardinality(S) \in Nat
  BY FS_RemoveElement, FS_CardinalityType
<1>2. Len(q) \in Nat /\ DOMAIN q = 1 .. Len(q) /\ q \in [1 .. Len(q) -> T]
  <2>1. Len(q) \in Nat /\ q \in [1 .. Len(q) -> S]
    OBVIOUS
  <2>2. \A i \in 1 .. Len(q) : q[i] # m
    BY <2>1 DEF Waiting
  <2> QED
    BY <2>1, <2>2
<1>3. q \in Injection(1 .. Len(q), T)
  BY <1>2 DEF NoRepeats, Injection, IsInjective
<1>4. Cardinality(1 .. Len(q)) <= Cardinality(T)
  BY <1>1, <1>3, FS_Injection
<1>5. Cardinality(1 .. Len(q)) = Len(q)
  <2>1. 1 \in Int /\ Len(q) \in Int
    BY <1>2
  <2>2. Cardinality(1 .. Len(q)) = IF 1 > Len(q) THEN 0 ELSE Len(q) - 1 + 1
    BY <2>1, FS_Interval
  <2> QED
    BY <1>2, <2>2
<1> QED
  BY <1>1, <1>2, <1>4, <1>5

\* ... so with room for all it is not full.
LEMMA RoomForOneMore ==
  ASSUME RoomForAll, NEW q \in Seq(Command), NoRepeats(q), NEW m \in Command, m \notin Waiting(q)
  PROVE  ~QueueFull(q, Capacity)
<1>1. CASE Capacity = 0
  BY <1>1 DEF QueueFull
<1>2. CASE IsFiniteSet(Command) /\ Cardinality(Command) <= Capacity
  <2>1. Len(q) < Cardinality(Command)
    BY <1>2, ShorterThanSet
  <2>2. Len(q) \in Nat /\ Cardinality(Command) \in Nat /\ Capacity \in Nat
    BY <1>2, CapacityAssumption, FS_CardinalityType
  <2> QED
    BY <1>2, <2>1, <2>2 DEF QueueFull
<1> QED
  BY <1>1, <1>2 DEF RoomForAll

\* A message that can be sent again is somewhere until its command is settled.
NoneMissing ==
  \A c \in Command \ EmptyPayload : status[c] # "none" /\ outcome[c] = "open" => ~Nowhere(c)

NoLoss == faults = 0 /\ RoomForAll => NoneMissing

\* The step takes command c from no place without taking it to another.
Remains(c) ==
  /\ outcome'[c] = "open" => outcome[c] = "open"
  /\ status'[c] # "none" => status[c] # "none"
  /\ ~Nowhere(c) => ~Nowhere(c)'

\* A step that takes every message but that of b along, and b to where it belongs.
LEMMA RemainingKeepsAll ==
  ASSUME NoneMissing, NEW b, \A c \in Command \ {b} : Remains(c),
         b \in Command \ EmptyPayload => outcome'[b] # "open" \/ ~Nowhere(b)'
  PROVE  NoneMissing'
BY DEF NoneMissing, Remains

\* A call that carries no message may end.
LEMMA EmptyCallEnds ==
  ASSUME NEW x, calls \ {x} \subseteq calls', NEW c, ~Carries(x, c), OnCall(c)
  PROVE  OnCall(c)'
BY DEF OnCall, Carries

\* The steps of the Core keep every message, ...
LEMMA CoreNextKeepsAll ==
  ASSUME NoneMissing, TypeInv, PlaceInv, CreatedInv, QueuesBounded, RoomForAll, CoreStep,
         \A x \in calls : Live(x)
  PROVE  NoneMissing'
<1>0. /\ CoreNext /\ UNCHANGED <<held, inflight, outcome>>
      /\ queue \in [Device -> Seq(Command)] /\ status \in [Command -> Status]
      /\ calls \subseteq Call
  BY DEF CoreStep, sessionVars, history, TypeInv, CoreInv, CoreTypeOK
<1>00. \A c : InHand(c)' = InHand(c) /\ Unacked(c)' = Unacked(c)
  BY <1>0 DEF InHand, Unacked
<1>1. ASSUME NEW b \in Command, NEW d \in Device, CreateCommand(b, d) PROVE NoneMissing'
  <2>1. /\ UNCHANGED <<queue, calls>> /\ pushing' = pushing \cup {b}
        /\ \A c \in Command \ {b} : status'[c] = status[c]
    BY <1>0, <1>1 DEF CreateCommand
  <2>2. \A c \in Command \ {b} : Remains(c)
    BY <1>0, <1>00, <2>1 DEF Remains, Nowhere, Queued, OnCall, Carries
  <2>3. ~Nowhere(b)'
    BY <2>1 DEF Nowhere
  <2> QED
    BY <2>2, <2>3, RemainingKeepsAll
<1>2. ASSUME NEW b \in Command, PushCommand(b) PROVE NoneMissing'
  <2>1. PICK d : d = owner[b]
    OBVIOUS
  <2>2. /\ d \in Device /\ UNCHANGED <<status, calls>> /\ b \in pushing /\ pushing' = pushing \ {b}
        /\ queue' = [queue EXCEPT ![d] = Enqueued(queue[d], b, Capacity)]
    BY <1>2, <2>1 DEF PushCommand, TypeInv, CoreInv, PushingOwned
  <2>3. queue[d] \in Seq(Command) /\ NoRepeats(queue[d]) /\ b \notin Waiting(queue[d])
    BY <1>0, <2>2 DEF PlaceInv, OnceQueued, Apart, Queued
  <2>4. queue'[d] = Append(queue[d], b) /\ \A e \in Device \ {d} : queue'[e] = queue[e]
    BY <1>0, <2>2, <2>3, RoomForOneMore DEF Enqueued
  <2>5. Waiting(queue[d]) \cup {b} \subseteq Waiting(queue'[d])
    BY <2>3, <2>4, AppendHolds
  <2>6. Queued(b)' /\ \A c : Queued(c) => Queued(c)'
    BY <2>2, <2>4, <2>5 DEF Queued
  <2>7. \A c \in Command \ {b} : Remains(c)
    BY <1>0, <1>00, <2>2, <2>6 DEF Remains, Nowhere, OnCall, Carries
  <2> QED
    BY <2>6, <2>7, RemainingKeepsAll DEF Nowhere
<1>3. ASSUME NEW x \in calls, ServePull(x) PROVE NoneMissing'
  <2>1. /\ x.op = "pull" /\ x.stage = "issued" /\ x.dev \in Device /\ UNCHANGED <<status, pushing>>
        /\ \A c : ~Carries(x, c)
    BY <1>0, <1>3 DEF ServePull, Call, Carries
  <2>2. CASE queue[x.dev] = <<>>
    <3>1. queue' = queue /\ calls \ {x} \subseteq calls'
      BY <1>3, <2>2 DEF ServePull, Answer
    <3>2. \A c : OnCall(c) => OnCall(c)'
      BY <2>1, <3>1, EmptyCallEnds
    <3> QED
      BY <1>0, <1>00, <2>1, <3>1, <3>2 DEF NoneMissing, Nowhere, Queued
  <2>3. CASE queue[x.dev] # <<>>
    <3>1. PICK d, b : d = x.dev /\ b = Head(queue[d])
      OBVIOUS
    <3>2. PICK z : z = [x EXCEPT !.stage = "answered", !.cmd = b]
      OBVIOUS
    <3>3. Carries(z, b)
      BY <1>0, <2>1, <3>2 DEF Call, Carries
    <3>4. /\ calls' = (calls \ {x}) \cup {z} /\ queue' = [queue EXCEPT ![d] = Tail(queue[d])]
          /\ d \in Device
      BY <1>3, <2>1, <2>3, <3>1, <3>2 DEF ServePull, Answer
    <3>5. OnCall(b)' /\ \A c : OnCall(c) => OnCall(c)'
      <4>1. OnCall(b)'
        BY <3>3, <3>4 DEF OnCall, Carries
      <4>2. calls \ {x} \subseteq calls'
        BY <3>4
      <4> QED
        BY <2>1, <4>1, <4>2, EmptyCallEnds
    <3>6. Waiting(queue[d]) \ {b} \subseteq Waiting(Tail(queue[d]))
      BY <1>0, <2>3, <3>1, <3>4, TailHolds
    <3>7. \A c : Queued(c) => Queued(c)' \/ c = b
      BY <1>0, <3>4, <3>6 DEF Queued
    <3>8. \A c \in Command \ {b} : Remains(c)
      BY <1>0, <1>00, <2>1, <3>5, <3>7 DEF Remains, Nowhere
    <3> QED
      BY <3>5, <3>8, RemainingKeepsAll DEF Nowhere
  <2> QED
    BY <2>2, <2>3
<1>4. ASSUME NEW x \in calls, ServeMark(x) \/ FinishRequeue(x) PROVE NoneMissing'
  <2>1. /\ UNCHANGED <<queue, pushing>> /\ calls \ {x} \subseteq calls'
        /\ \A c \in Command \ {x.cmd} : status'[c] = status[c]
    BY <1>0, <1>4 DEF ServeMark, FinishRequeue, Answer
  <2>2. x.op # "pull" /\ x.stage # "answered" /\ \A c : ~Carries(x, c)
    BY <1>4 DEF ServeMark, FinishRequeue, Carries, TypeInv, CoreInv, CallsServable
  <2>3. status[x.cmd] # "none"
    BY <2>2, DistinctAssumption DEF CreatedInv, TypeInv, CoreInv, CallsServable
  <2>4. \A c : OnCall(c) => OnCall(c)'
    BY <2>1, <2>2, EmptyCallEnds
  <2> QED
    BY <1>0, <1>00, <2>1, <2>3, <2>4 DEF NoneMissing, Nowhere, Queued
<1>5. ASSUME NEW x \in calls, ServeRequeue(x) PROVE NoneMissing'
  <2>1. PICK b, d : b = x.cmd /\ d = x.dev
    OBVIOUS
  <2>2. /\ x.op = "requeue" /\ x.stage = "issued" /\ UNCHANGED pushing
        /\ b \in Command /\ d \in Device /\ Carries(x, b) /\ \A c \in Command \ {b} : ~Carries(x, c)
    BY <1>0, <1>5, <2>1 DEF ServeRequeue, TypeInv, CoreInv, CallsServable, Call, Carries
  <2>3. calls \ {x} \subseteq calls'
    BY <1>5 DEF ServeRequeue, Answer
  <2>4. \A c \in Command \ {b} : OnCall(c) => OnCall(c)'
    BY <2>2, <2>3, EmptyCallEnds
  <2>5. CASE b \in EmptyPayload
    <3>1. UNCHANGED <<status, queue>>
      BY <1>5, <2>1, <2>5 DEF ServeRequeue
    <3>2. \A c \in Command \ {b} : Remains(c)
      BY <1>0, <1>00, <2>2, <2>4, <3>1 DEF Remains, Nowhere, Queued
    <3> QED
      BY <2>5, <3>2, RemainingKeepsAll
  <2>6. CASE b \notin EmptyPayload
    <3>1. queue[d] \in Seq(Command) /\ NoRepeats(queue[d]) /\ b \notin Waiting(queue[d])
      BY <1>0, <2>2 DEF PlaceInv, OnceQueued, Apart, Queued, OnCall
    <3>2. ~RequeueRefused(queue[d], Capacity)
      BY <2>2, <3>1, BoundedIsNeverRefused, CapacityAssumption DEF QueuesBounded
    <3>3. ~QueueFull(queue[d], Capacity)
      BY <2>2, <3>1, RoomForOneMore
    <3>4. UNCHANGED status /\ queue' = [queue EXCEPT ![d] = <<b>> \o queue[d]]
      BY <1>5, <2>1, <2>6, <3>2, <3>3 DEF ServeRequeue, Requeued, Trimmed
    <3>5. Waiting(queue[d]) \cup {b} \subseteq Waiting(<<b>> \o queue[d])
      BY <2>2, <3>1, ConcatHolds
    <3>6. Queued(b)' /\ \A c : Queued(c) => Queued(c)'
      BY <1>0, <2>2, <3>4, <3>5 DEF Queued
    <3>7. \A c \in Command \ {b} : Remains(c)
      BY <1>0, <1>00, <2>2, <2>4, <3>4, <3>6 DEF Remains, Nowhere
    <3> QED
      BY <3>6, <3>7, RemainingKeepsAll DEF Nowhere
  <2> QED
    BY <2>5, <2>6
<1>6. ASSUME NEW x \in calls, LoseRequest(x) PROVE NoneMissing'
  BY <1>6 DEF LoseRequest
<1> QED
  BY <1>0, <1>1, <1>2, <1>3, <1>4, <1>5, <1>6 DEF CoreNext

\* ... a goroutine takes what it pulled, writes what it has, waits for what it wrote
\* and sends back what it cannot settle, ...
LEMMA SessionKeepsAll ==
  ASSUME NoneMissing, TypeInv, PlaceInv, LiveInv, WaitInv, OwnerInv, ~ctxDone,
         NEW k \in Client, Session(k)
  PROVE  NoneMissing'
<1>0. /\ UNCHANGED <<queue, pushing, status>> /\ NoCommand \notin Command
      /\ held \in [Client -> Command \cup {NoCommand}]
      /\ inflight \in [Client -> Command \cup {NoCommand}]
      /\ outcome \in [Command -> {"open", "confirmed", "rejected"}]
      /\ calls \subseteq Call
      /\ \A c : Queued(c)' = Queued(c)
  <2>1. UNCHANGED <<queue, pushing, status>>
    BY DEF Session, Connect, Rebind, ReadUplink, ReadAck, ReadFails, PopCommand, PackFails,
           WriteFrame, WriteFails, Close, Popped, Reported, Requeue, coreVars, coreData
  <2> QED
    BY <2>1, DistinctAssumption
    DEF TypeInv, SessionInv, SessionTypeOK, CoreInv, CoreTypeOK, Queued
\* A request takes no call away, and a requeue carries its message.
<1>1. ASSUME NEW op, NEW d, NEW b, NEW label, Request(k, op, d, b, label)
      PROVE  (\A c : OnCall(c) => OnCall(c)') /\ (op = "requeue" => OnCall(b)')
  <2>1. PICK z : z = [from |-> k, no |-> attempt[k], op |-> op, dev |-> d, cmd |-> b,
                      stage |-> "issued"]
    OBVIOUS
  <2>2. calls' = calls \cup {z}
    BY <1>1, <2>1 DEF Request, Issue
  <2>3. op = "requeue" => Carries(z, b)
    BY <2>1 DEF Carries
  <2> QED
    BY <2>2, <2>3 DEF OnCall, Carries
\* What leaves the hand of the goroutine or its session is one message at most.
<1>2. ASSUME NEW b, \A c : OnCall(c) => OnCall(c)',
             \A c : InHand(c) => InHand(c)' \/ c = b, \A c : Unacked(c) => Unacked(c)' \/ c = b,
             \A c \in Command \ {b} : outcome'[c] = outcome[c],
             b \in Command \ EmptyPayload =>
               outcome'[b] # "open" \/ OnCall(b)' \/ InHand(b)' \/ Unacked(b)'
      PROVE  NoneMissing'
  <2>1. \A c \in Command \ {b} : Remains(c)
    BY <1>0, <1>2 DEF Remains, Nowhere
  <2> QED
    BY <1>2, <2>1, RemainingKeepsAll DEF Nowhere
<1>3. ASSUME UNCHANGED <<held, inflight, outcome>>, \A c : OnCall(c) => OnCall(c)'
      PROVE  NoneMissing'
  BY <1>0, <1>3 DEF NoneMissing, Nowhere, InHand, Unacked
<1>4. ASSUME ReadUplink(k) \/ ReadFails(k) \/ \E d \in Device : Connect(k, d) \/ Rebind(k, d)
      PROVE  NoneMissing'
  BY <1>3, <1>4 DEF ReadUplink, ReadFails, Connect, Rebind, coreVars, history, OnCall, Carries
<1>5. ASSUME NEW f \in got[k], ReadAck(k, f) PROVE NoneMissing'
  <2>1. CASE AckMatches(k, f)
    <3>1. PICK b : b = inflight[k]
      OBVIOUS
    <3>2. /\ b \in Command /\ Request(k, "acked", device[k], b, "reporting") /\ held' = held
          /\ inflight' = [inflight EXCEPT ![k] = NoCommand]
          /\ outcome' = [outcome EXCEPT ![b] = "confirmed"]
      BY <1>0, <1>5, <2>1, <3>1 DEF ReadAck, AckMatches, ClearInflight
    <3>3. \A c : Unacked(c) => Unacked(c)' \/ c = b
      BY <1>0, <3>1, <3>2 DEF Unacked
    <3>4. \A c : InHand(c) => InHand(c)'
      BY <3>2 DEF InHand
    <3>5. outcome'[b] = "confirmed" /\ \A c \in Command \ {b} : outcome'[c] = outcome[c]
      BY <1>0, <3>2
    <3>6. \A c : OnCall(c) => OnCall(c)'
      BY <1>1, <3>2
    <3> QED
      BY <1>2, <3>3, <3>4, <3>5, <3>6
  <2>2. CASE ~AckMatches(k, f)
    BY <1>3, <1>5, <2>2 DEF ReadAck, OnCall, Carries
  <2> QED
    BY <2>1, <2>2
<1>6. CASE PopCommand(k)
  <2>1. UNCHANGED <<held, inflight, outcome>>
    BY <1>6 DEF PopCommand, history
  <2>2. \A c : OnCall(c) => OnCall(c)'
    BY <1>1, <1>6 DEF PopCommand, OnCall, Carries
  <2> QED
    BY <1>3, <2>1, <2>2
<1>7. ASSUME NEW x \in calls, Popped(k, x) PROVE NoneMissing'
  <2>1. /\ pc[k] = "pulling" /\ calls' = calls \ {x} /\ held' = [held EXCEPT ![k] = x.cmd]
        /\ UNCHANGED <<inflight, outcome>>
    BY <1>7 DEF Popped, Collect, history
  <2>2. PICK b : b = x.cmd
    OBVIOUS
  <2>3. held[k] = NoCommand
    BY <2>1 DEF OwnerInv
  <2>4. (\A c \in Command : InHand(c) => InHand(c)') /\ (b \in Command => InHand(b)')
    BY <1>0, <2>1, <2>2, <2>3 DEF InHand
  <2>5. \A c \in Command \ {b} : OnCall(c) => OnCall(c)'
    BY <2>1, <2>2 DEF OnCall, Carries
  <2>6. \A c \in Command \ {b} : Remains(c)
    BY <1>0, <2>1, <2>4, <2>5 DEF Remains, Nowhere, Unacked
  <2> QED
    BY <2>4, <2>6, RemainingKeepsAll DEF Nowhere
<1>8. CASE PackFails(k) \/ WriteFrame(k) \/ WriteFails(k)
  <2>1. PICK b : b = held[k]
    OBVIOUS
  <2>2. pc[k] = "sending" /\ b \in Command /\ held' = [held EXCEPT ![k] = NoCommand]
    BY <1>0, <1>8, <2>1 DEF PackFails, WriteFrame, WriteFails, Spend, TypeInv, SessionInv,
                           SendingHolds
  <2>3. \A c : InHand(c) => InHand(c)' \/ c = b
    BY <1>0, <2>1, <2>2 DEF InHand
  <2>4. CASE PackFails(k)
    <3>1. /\ Request(k, "failed", target[k], b, "reporting") /\ UNCHANGED inflight
          /\ outcome' = [outcome EXCEPT ![b] = "rejected"]
      BY <2>1, <2>4 DEF PackFails
    <3>2. outcome'[b] = "rejected" /\ \A c \in Command \ {b} : outcome'[c] = outcome[c]
      BY <1>0, <2>2, <3>1
    <3>3. \A c : Unacked(c) => Unacked(c)'
      BY <3>1 DEF Unacked
    <3>4. \A c : OnCall(c) => OnCall(c)'
      BY <1>1, <3>1
    <3> QED
      BY <1>2, <2>3, <3>2, <3>3, <3>4
  <2>5. CASE WriteFrame(k)
    <3>1. /\ Request(k, "sent", target[k], b, "reporting") /\ UNCHANGED outcome
          /\ inflight' = [inflight EXCEPT ![k] = b]
      BY <2>1, <2>5 DEF WriteFrame
    <3>2. inflight[k] = NoCommand
      BY <2>2 DEF WaitInv, NothingUnanswered
    <3>3. Unacked(b)' /\ \A c \in Command : Unacked(c) => Unacked(c)'
      BY <1>0, <3>1, <3>2 DEF Unacked
    <3>4. \A c : OnCall(c) => OnCall(c)'
      BY <1>1, <3>1
    <3>5. \A c \in Command \ {b} : Remains(c)
      BY <1>0, <2>3, <3>1, <3>3, <3>4 DEF Remains, Nowhere
    <3> QED
      BY <3>3, <3>5, RemainingKeepsAll DEF Nowhere
  <2>6. CASE WriteFails(k)
    <3>1. Request(k, "requeue", target[k], b, "requeueing") /\ UNCHANGED <<inflight, outcome>>
      BY <2>1, <2>6 DEF WriteFails, history
    <3>2. OnCall(b)' /\ \A c : OnCall(c) => OnCall(c)'
      BY <1>1, <3>1
    <3>3. \A c : Unacked(c) => Unacked(c)'
      BY <3>1 DEF Unacked
    <3> QED
      BY <1>2, <2>3, <3>1, <3>2, <3>3
  <2> QED
    BY <1>8, <2>4, <2>5, <2>6
<1>9. CASE Close(k)
  <2>1. /\ UNCHANGED <<held, outcome>> /\ inflight' = [inflight EXCEPT ![k] = NoCommand]
    BY <1>9 DEF Close, ClearInflight, history
  <2>2. CASE inflight[k] = NoCommand
    <3>1. UNCHANGED calls /\ inflight' = inflight
      BY <1>0, <1>9, <2>1, <2>2 DEF Close
    <3> QED
      BY <1>3, <2>1, <3>1 DEF OnCall, Carries
  <2>3. CASE inflight[k] # NoCommand
    <3>1. PICK b : b = inflight[k]
      OBVIOUS
    <3>2. Request(k, "requeue", target[k], b, "requeueing")
      BY <1>9, <2>3, <3>1 DEF Close
    <3>3. OnCall(b)' /\ \A c : OnCall(c) => OnCall(c)'
      BY <1>1, <3>2
    <3>4. \A c : Unacked(c) => Unacked(c)' \/ c = b
      BY <1>0, <2>1, <3>1 DEF Unacked
    <3>5. \A c : InHand(c) => InHand(c)'
      BY <2>1 DEF InHand
    <3> QED
      BY <1>2, <2>1, <3>3, <3>4, <3>5
  <2> QED
    BY <2>2, <2>3
<1>10. ASSUME NEW x \in calls, Reported(k, x) \/ Requeue(k, x) PROVE NoneMissing'
  <2>1. /\ pc[k] \in {"reporting", "requeueing"} /\ x.from = k /\ Live(x) /\ x.stage = "answered"
        /\ calls' = calls \ {x} /\ UNCHANGED <<held, inflight, outcome>>
    BY <1>10 DEF Reported, Requeue, Collect, history
  <2>2. \A c : ~Carries(x, c)
    BY <2>1 DEF LiveInv, Asks, Carries
  <2>3. \A c : OnCall(c) => OnCall(c)'
    BY <2>1, <2>2, EmptyCallEnds
  <2> QED
    BY <1>3, <2>1, <2>3
<1> QED
  BY <1>4, <1>5, <1>6, <1>7, <1>8, <1>9, <1>10 DEF Session

\* ... so as long as nothing has failed and the queues have room nothing is lost.
LEMMA NoLossAlways == Spec => []NoLoss
<1> DEFINE Inv == /\ TypeInv /\ LiveInv /\ PlaceInv /\ WaitInv /\ OwnerInv /\ CalmInv
                  /\ CreatedInv /\ QueuesBounded
<1>1. Init => NoLoss
  BY DEF Init, CoreInit, NoLoss, NoneMissing
<1>2. Inv /\ NoLoss /\ [Next]_vars => NoLoss'
  <2> SUFFICES ASSUME Inv, NoLoss, [Next]_vars, faults' = 0, RoomForAll PROVE NoneMissing'
    BY DEF NoLoss, RoomForAll
  <2>1. NoneMissing /\ ~ctxDone /\ ~Faults /\ \A x \in calls : Live(x)
    BY NoFaultYet DEF NoLoss
  <2>2. CASE UNCHANGED vars \/ \E k \in Client : Link(k)
    <3>1. UNCHANGED <<queue, calls, pushing, status, held, inflight, outcome>>
      BY <2>2 DEF vars, Link, Receive, LoseFrames, coreVars, sessionVars, history
    <3> QED
      BY <2>1, <3>1 DEF NoneMissing, Nowhere, Queued, OnCall, InHand, Unacked, Carries
  <2> QED
    BY <2>1, <2>2, CoreNextKeepsAll, SessionKeepsAll DEF Next
<1>3. Spec => []Inv
  BY TypeInvAlways, LiveInvAlways, PlaceInvAlways, WaitInvAlways, OwnerInvAlways, CalmInvAlways,
     TraceInvAlways, QueuesBoundedAlways, PTL
<1> QED
  BY <1>1, <1>2, <1>3, PTL DEF Spec

\* A message that is somewhere is in one of the places KeptForOwner counts.
LEMMA SomewhereIsAPlace ==
  ASSUME TypeInv, PlaceInv, NEW c \in Command,
         status[c] # "none", outcome[c] = "open", ~Nowhere(c)
  PROVE  Places(c) # {}
<1>1. StageOf(c) = Mapped(c)
  BY StageOfIsMapped DEF StageIsMapped
<1>2. Mapped(c) # "lost"
  BY DEF Mapped, Waits, Pulled, Nowhere, OnCall, Carries
<1> QED
  BY <1>1, <1>2 DEF StageOf

\* However often connections break and are bound anew, a message stays with the
\* device its command was created for, and until something fails it is not lost.
THEOREM MessagesAreKeptForTheirOwner == Spec => []KeptForOwner
<1>1. TypeInv /\ PlaceInv /\ OwnerInv /\ NoLoss => KeptForOwner
  <2> SUFFICES ASSUME TypeInv, PlaceInv, OwnerInv, NoLoss PROVE KeptForOwner
    OBVIOUS
  <2>1. faults = 0 /\ RoomForAll => \A c \in Command \ EmptyPayload :
          status[c] # "none" /\ outcome[c] = "open" => Places(c) # {}
    BY SomewhereIsAPlace DEF NoLoss, NoneMissing
  <2>2. \A d \in Device : \A c \in Waiting(queue[d]) : owner[c] = d
    BY DEF OwnerInv
  <2>3. \A k \in Client : held[k] # NoCommand => owner[held[k]] = device[k]
    BY DEF OwnerInv
  <2> QED
    BY <2>1, <2>2, <2>3 DEF KeptForOwner
<1> QED
  BY <1>1, TypeInvAlways, PlaceInvAlways, OwnerInvAlways, NoLossAlways, PTL

-----------------------------------------------------------------------------
(* Until something fails, the rows agree with the sessions.                *)

\* A call with one of the operations ops that is about command c and not answered.
Reporting(c, ops) == \E x \in calls : x.cmd = c /\ x.op \in ops /\ x.stage # "answered"

\* What a report on its way says is what its session concluded, or waits for; ...
ReportsAgree ==
  \A x \in calls :
    /\ x.op = "sent" => inflight[x.from] = x.cmd
    /\ x.op = "acked" => outcome[x.cmd] = "confirmed"
    /\ x.op = "failed" => outcome[x.cmd] = "rejected"

\* ... what a row says was so when it was written, and what has changed since then
\* is being reported.
RowsAgree ==
  \A c \in Command :
    /\ status[c] = "acked" => outcome[c] = "confirmed"
    /\ status[c] = "failed" => outcome[c] = "rejected"
    /\ status[c] = "sent" => c \in EmptyPayload \/ Unacked(c) \/ Reporting(c, {"requeue", "acked"})
    /\ outcome[c] = "confirmed" => status[c] \in {"acked", "queued"} \/ Reporting(c, {"acked"})

RowInv == faults = 0 => ReportsAgree /\ RowsAgree

\* RowsAgree, for one command.
Row(c) ==
  /\ status[c] = "acked" => outcome[c] = "confirmed"
  /\ status[c] = "failed" => outcome[c] = "rejected"
  /\ status[c] = "sent" => c \in EmptyPayload \/ Unacked(c) \/ Reporting(c, {"requeue", "acked"})
  /\ outcome[c] = "confirmed" => status[c] \in {"acked", "queued"} \/ Reporting(c, {"acked"})

\* The step leaves the row of c, what is known of c and the reports about it alone.
LeavesRow(c) ==
  /\ status'[c] = status[c] /\ outcome'[c] = outcome[c]
  /\ Unacked(c) => Unacked(c)'
  /\ \A ops \in SUBSET {"requeue", "acked"} : Reporting(c, ops) => Reporting(c, ops)'

\* A step that concerns command b only.
LEMMA LeavingKeepsRows ==
  ASSUME RowsAgree, NEW b, \A c \in Command \ {b} : LeavesRow(c), b \in Command => Row(b)'
  PROVE  RowsAgree'
<1>1. ASSUME NEW c \in Command \ {b} PROVE Row(c)'
  <2>1. /\ {"requeue", "acked"} \in SUBSET {"requeue", "acked"}
        /\ {"acked"} \in SUBSET {"requeue", "acked"}
    OBVIOUS
  <2>2. LeavesRow(c) /\ Row(c)
    BY DEF RowsAgree, Row
  <2>3. Reporting(c, {"requeue", "acked"}) => Reporting(c, {"requeue", "acked"})'
    BY <2>1, <2>2 DEF LeavesRow
  <2>4. Reporting(c, {"acked"}) => Reporting(c, {"acked"})'
    BY <2>1, <2>2 DEF LeavesRow
  <2>5. status'[c] = status[c] /\ outcome'[c] = outcome[c] /\ (Unacked(c) => Unacked(c)')
    BY <2>2 DEF LeavesRow
  <2> QED
    BY <2>2, <2>3, <2>4, <2>5 DEF Row
<1> QED
  BY <1>1 DEF RowsAgree, Row

\* A report ends with its call only.
LEMMA ReportingStays ==
  ASSUME NEW x, calls \ {x} \subseteq calls', NEW c, NEW ops, Reporting(c, ops),
         x.cmd # c \/ x.op \notin ops \/ x.stage = "answered"
  PROVE  Reporting(c, ops)'
BY DEF Reporting

\* What a session waits for, or is about to write, is not settled.
LEMMA UnsettledIsOpen ==
  ASSUME PlaceInv, NEW c \in Command, InHand(c) \/ Unacked(c)
  PROVE  outcome[c] = "open"
BY DEF PlaceInv, Ended, Nowhere

\* A handler of the Core writes what its report says, ...
LEMMA CoreNextKeepsRows ==
  ASSUME ReportsAgree, RowsAgree, TypeInv, PlaceInv, QueuesBounded, CreatedInv, CoreStep,
         \A x \in calls : Live(x)
  PROVE  ReportsAgree' /\ RowsAgree'
<1>0. /\ CoreNext /\ UNCHANGED <<inflight, outcome>>
      /\ queue \in [Device -> Seq(Command)] /\ status \in [Command -> Status]
      /\ calls \subseteq Call
      /\ \A c : Unacked(c)' = Unacked(c)
  BY DEF CoreStep, sessionVars, history, TypeInv, CoreInv, CoreTypeOK, Unacked
\* A call that moves on says what it said.
<1>1. ASSUME NEW x \in calls, NEW z, z.from = x.from, z.op = x.op, x.op = "pull" \/ z.cmd = x.cmd,
             calls' \subseteq (calls \ {x}) \cup {z}
      PROVE  ReportsAgree'
  <2>1. \A y \in calls' : y = z \/ y \in calls
    BY <1>1
  <2> QED
    BY <1>0, <1>1, <2>1 DEF ReportsAgree
<1>2. ASSUME NEW x \in calls, NEW c, x.op = "pull" \/ c = x.cmd, calls' = Answer(x, c)
      PROVE  ReportsAgree'
  <2>1. PICK z : z = [x EXCEPT !.stage = "answered", !.cmd = c]
    OBVIOUS
  <2>2. z.from = x.from /\ z.op = x.op /\ z.cmd = c
    BY <1>0, <2>1 DEF Call
  <2>3. calls' \subseteq (calls \ {x}) \cup {z}
    BY <1>2, <2>1 DEF Answer
  <2> QED
    BY <1>1, <1>2, <2>2, <2>3
<1>3. ASSUME UNCHANGED calls PROVE ReportsAgree' /\ \A c, ops : Reporting(c, ops) => Reporting(c, ops)'
  BY <1>0, <1>3 DEF ReportsAgree, Reporting
<1>4. ASSUME NEW b \in Command, NEW d \in Device, CreateCommand(b, d)
      PROVE  ReportsAgree' /\ RowsAgree'
  <2>1. /\ UNCHANGED calls /\ status' = [status EXCEPT ![b] = "queued"] /\ status[b] = "none"
    BY <1>4 DEF CreateCommand
  <2>2. outcome[b] = "open"
    BY <2>1 DEF PlaceInv, Ended
  <2>3. \A c \in Command \ {b} : LeavesRow(c)
    BY <1>0, <1>3, <2>1 DEF LeavesRow
  <2>4. Row(b)'
    BY <1>0, <2>1, <2>2 DEF Row
  <2> QED
    BY <1>3, <2>1, <2>3, <2>4, LeavingKeepsRows
<1>5. ASSUME NEW b \in Command, PushCommand(b) PROVE ReportsAgree' /\ RowsAgree'
  <2>1. UNCHANGED <<calls, status>>
    BY <1>5 DEF PushCommand
  <2>2. \A c \in Command : LeavesRow(c)
    BY <1>0, <1>3, <2>1 DEF LeavesRow
  <2> QED
    BY <1>3, <2>1, <2>2, LeavingKeepsRows, DistinctAssumption
<1>6. ASSUME NEW x \in calls, ServePull(x) PROVE ReportsAgree' /\ RowsAgree'
  <2>1. x.op = "pull" /\ UNCHANGED status /\ \E c : calls' = Answer(x, c)
    BY <1>6 DEF ServePull
  <2>2. calls \ {x} \subseteq calls'
    BY <2>1 DEF Answer
  <2>3. \A c \in Command : LeavesRow(c)
    BY <1>0, <2>1, <2>2, ReportingStays DEF LeavesRow
  <2> QED
    BY <1>2, <2>1, <2>3, LeavingKeepsRows, DistinctAssumption
<1>7. ASSUME NEW x \in calls, ServeMark(x) PROVE ReportsAgree' /\ RowsAgree'
  <2>1. PICK b : b = x.cmd
    OBVIOUS
  <2>2. /\ x.op \in {"sent", "acked", "failed"} /\ calls' = Answer(x, b)
        /\ status' = [status EXCEPT ![b] = x.op] /\ b \in Command /\ x.from \in Client
    BY <1>0, <1>7, <2>1, DistinctAssumption
    DEF ServeMark, TypeInv, CoreInv, CallsServable, Call, CreatedInv
  <2>3. calls \ {x} \subseteq calls'
    BY <2>2 DEF Answer
  <2>4. \A c \in Command \ {b} : LeavesRow(c)
    BY <1>0, <2>1, <2>2, <2>3, ReportingStays DEF LeavesRow
  <2>5. status'[b] = x.op /\ outcome'[b] = outcome[b]
    BY <1>0, <2>2
  <2>6. Row(b)'
    <3>1. CASE x.op = "sent"
      <4>1. Unacked(b)
        BY <2>1, <2>2, <3>1 DEF ReportsAgree, Unacked
      <4>2. outcome[b] = "open"
        BY <2>2, <4>1, UnsettledIsOpen
      <4> QED
        BY <1>0, <2>5, <3>1, <4>1, <4>2 DEF Row
    <3>2. CASE x.op = "acked"
      <4>1. outcome[b] = "confirmed"
        BY <2>1, <3>2 DEF ReportsAgree
      <4> QED
        BY <2>5, <3>2, <4>1 DEF Row
    <3>3. CASE x.op = "failed"
      <4>1. outcome[b] = "rejected"
        BY <2>1, <3>3 DEF ReportsAgree
      <4> QED
        BY <2>5, <3>3, <4>1 DEF Row
    <3> QED
      BY <2>2, <3>1, <3>2, <3>3
  <2> QED
    BY <1>2, <2>1, <2>2, <2>4, <2>6, LeavingKeepsRows
<1>8. ASSUME NEW x \in calls, ServeRequeue(x) PROVE ReportsAgree' /\ RowsAgree'
  <2>1. PICK b : b = x.cmd
    OBVIOUS
  <2>2. x.op = "requeue" /\ x.stage = "issued" /\ b \in Command /\ x.dev \in Device
    BY <1>0, <1>8, <2>1 DEF ServeRequeue, TypeInv, CoreInv, CallsServable, Call
  <2>3. calls \ {x} \subseteq calls'
    BY <1>8 DEF ServeRequeue, Answer
  <2>4. ASSUME UNCHANGED status PROVE \A c \in Command \ {b} : LeavesRow(c)
    BY <1>0, <2>1, <2>3, <2>4, ReportingStays DEF LeavesRow
  <2>5. Reporting(b, {"acked"}) => Reporting(b, {"acked"})'
    BY <2>2, <2>3, ReportingStays
  <2>6. Row(b)
    BY <2>2 DEF RowsAgree, Row
  <2>7. CASE b \in EmptyPayload
    <3>1. UNCHANGED status /\ calls' = Answer(x, b)
      BY <1>8, <2>1, <2>7 DEF ServeRequeue
    <3>2. Row(b)'
      BY <1>0, <2>5, <2>6, <2>7, <3>1 DEF Row
    <3> QED
      BY <1>2, <2>1, <2>4, <3>1, <3>2, LeavingKeepsRows
  <2>8. CASE b \notin EmptyPayload
    <3>1. PICK z : z = [x EXCEPT !.stage = "pushed"]
      OBVIOUS
    <3>2. ~RequeueRefused(queue[x.dev], Capacity)
      BY <1>0, <2>2, BoundedIsNeverRefused, CapacityAssumption DEF QueuesBounded
    <3>3. UNCHANGED status /\ calls' = (calls \ {x}) \cup {z}
      BY <1>8, <2>1, <2>8, <3>1, <3>2 DEF ServeRequeue
    <3>4. z.from = x.from /\ z.op = "requeue" /\ z.cmd = b /\ z.stage = "pushed"
      BY <1>0, <2>1, <2>2, <3>1 DEF Call
    <3>5. Reporting(b, {"requeue", "acked"})'
      BY <3>3, <3>4 DEF Reporting
    <3>6. Row(b)'
      BY <1>0, <2>5, <2>6, <3>3, <3>5 DEF Row
    <3>7. ReportsAgree'
      BY <1>1, <2>1, <2>2, <3>3, <3>4
    <3> QED
      BY <2>4, <3>3, <3>6, <3>7, LeavingKeepsRows
  <2> QED
    BY <2>7, <2>8
<1>9. ASSUME NEW x \in calls, FinishRequeue(x) PROVE ReportsAgree' /\ RowsAgree'
  <2>1. PICK b : b = x.cmd
    OBVIOUS
  <2>2. calls' = Answer(x, b) /\ status' = [status EXCEPT ![b] = "queued"]
    BY <1>9, <2>1 DEF FinishRequeue
  <2>3. calls \ {x} \subseteq calls'
    BY <2>2 DEF Answer
  <2>4. \A c \in Command \ {b} : LeavesRow(c)
    BY <1>0, <2>1, <2>2, <2>3, ReportingStays DEF LeavesRow
  <2>5. b \in Command => Row(b)'
    BY <1>0, <2>2 DEF Row
  <2> QED
    BY <1>2, <2>1, <2>2, <2>4, <2>5, LeavingKeepsRows
<1>10. ASSUME NEW x \in calls, LoseRequest(x) PROVE ReportsAgree' /\ RowsAgree'
  BY <1>10 DEF LoseRequest
<1> QED
  BY <1>0, <1>4, <1>5, <1>6, <1>7, <1>8, <1>9, <1>10 DEF CoreNext

\* ... and a goroutine reports what it has just concluded or written.
LEMMA SessionKeepsRows ==
  ASSUME ReportsAgree, RowsAgree, TypeInv, PlaceInv, LiveInv, WaitInv, ~ctxDone,
         \A x \in calls : Live(x), NEW k \in Client, Session(k)
  PROVE  ReportsAgree' /\ RowsAgree'
<1>0. /\ UNCHANGED status /\ NoCommand \notin Command
      /\ held \in [Client -> Command \cup {NoCommand}]
      /\ inflight \in [Client -> Command \cup {NoCommand}]
      /\ outcome \in [Command -> {"open", "confirmed", "rejected"}]
      /\ \A x \in calls : x.from \in Client
  <2>1. UNCHANGED status
    BY DEF Session, Connect, Rebind, ReadUplink, ReadAck, ReadFails, PopCommand, PackFails,
           WriteFrame, WriteFails, Close, Popped, Reported, Requeue, coreVars, coreData
  <2> QED
    BY <2>1, DistinctAssumption
    DEF TypeInv, SessionInv, SessionTypeOK, CoreInv, CoreTypeOK, Call
\* A step that concludes nothing and forgets nothing.
<1>1. ASSUME UNCHANGED <<inflight, outcome>>, calls' \subseteq calls,
             \A x \in calls \ calls' : x.stage = "answered"
      PROVE  ReportsAgree' /\ RowsAgree'
  <2>1. \A c, ops : Reporting(c, ops) => Reporting(c, ops)'
    BY <1>1 DEF Reporting
  <2>2. \A c \in Command : LeavesRow(c)
    BY <1>0, <1>1, <2>1 DEF LeavesRow, Unacked
  <2> QED
    BY <1>0, <1>1, <2>2, LeavingKeepsRows DEF ReportsAgree
\* A request about b, by a goroutine that waits for nothing else.
<1>2. ASSUME NEW op, NEW d, NEW b, NEW label, Request(k, op, d, b, label), pc[k] \notin Awaiting,
             \A j \in Client \ {k} : inflight'[j] = inflight[j],
             op = "sent" => inflight'[k] = b,
             op = "acked" => outcome'[b] = "confirmed",
             op = "failed" => outcome'[b] = "rejected",
             \A c : outcome'[c] = outcome[c] \/ outcome[c] = "open"
      PROVE  /\ ReportsAgree'
             /\ \A c, ops : Reporting(c, ops) => Reporting(c, ops)'
             /\ \A ops : op \in ops => Reporting(b, ops)'
  <2>1. PICK z : z = [from |-> k, no |-> attempt[k], op |-> op, dev |-> d, cmd |-> b,
                      stage |-> "issued"]
    OBVIOUS
  <2>2. z.from = k /\ z.op = op /\ z.cmd = b /\ z.stage = "issued"
    BY <2>1
  <2>3. calls' = calls \cup {z}
    BY <1>2, <2>1 DEF Request, Issue
  <2>4. \A x \in calls : x.from \in Client \ {k}
    BY <1>0, <1>2 DEF LiveInv, Asks, Awaiting
  <2>5. ReportsAgree'
    BY <1>2, <2>2, <2>3, <2>4 DEF ReportsAgree
  <2> QED
    BY <2>2, <2>3, <2>5 DEF Reporting
<1>3. ASSUME ReadUplink(k) \/ ReadFails(k) \/ \E d \in Device : Connect(k, d) \/ Rebind(k, d)
      PROVE  ReportsAgree' /\ RowsAgree'
  BY <1>1, <1>3 DEF ReadUplink, ReadFails, Connect, Rebind, coreVars, history
<1>4. ASSUME NEW f \in got[k], ReadAck(k, f) PROVE ReportsAgree' /\ RowsAgree'
  <2>1. CASE AckMatches(k, f)
    <3>1. PICK b : b = inflight[k]
      OBVIOUS
    <3>2. /\ b \in Command /\ Request(k, "acked", device[k], b, "reporting") /\ pc[k] = "read"
          /\ inflight' = [inflight EXCEPT ![k] = NoCommand]
          /\ outcome' = [outcome EXCEPT ![b] = "confirmed"]
      BY <1>0, <1>4, <2>1, <3>1 DEF ReadAck, AckMatches, ClearInflight
    <3>3. Row(b) /\ outcome[b] = "open"
      BY <3>1, <3>2, UnsettledIsOpen DEF Unacked, RowsAgree, Row
    <3>4. /\ outcome'[b] = "confirmed" /\ \A c \in Command \ {b} : outcome'[c] = outcome[c]
          /\ \A c : outcome'[c] = outcome[c] \/ outcome[c] = "open"
      BY <1>0, <3>2, <3>3
    <3>5. /\ ReportsAgree' /\ \A c, ops : Reporting(c, ops) => Reporting(c, ops)'
          /\ Reporting(b, {"requeue", "acked"})' /\ Reporting(b, {"acked"})'
      BY <1>0, <1>2, <3>2, <3>4 DEF Awaiting
    <3>6. \A c \in Command \ {b} : Unacked(c) => Unacked(c)'
      BY <1>0, <3>1, <3>2 DEF Unacked
    <3>7. \A c \in Command \ {b} : LeavesRow(c)
      BY <1>0, <3>4, <3>5, <3>6 DEF LeavesRow
    <3>8. Row(b)'
      BY <1>0, <3>3, <3>4, <3>5 DEF Row
    <3> QED
      BY <3>5, <3>7, <3>8, LeavingKeepsRows
  <2>2. CASE ~AckMatches(k, f)
    BY <1>1, <1>4, <2>2 DEF ReadAck
  <2> QED
    BY <2>1, <2>2
<1>5. CASE PopCommand(k)
  <2>1. pc[k] = "pop" /\ UNCHANGED <<inflight, outcome>>
    BY <1>5 DEF PopCommand, history
  <2>2. CASE UNCHANGED calls
    BY <1>1, <2>1, <2>2
  <2>3. CASE Request(k, "pull", device[k], NoCommand, "pulling")
    <3>1. ReportsAgree' /\ \A c, ops : Reporting(c, ops) => Reporting(c, ops)'
      BY <1>2, <2>1, <2>3 DEF Awaiting
    <3>2. \A c \in Command : LeavesRow(c)
      BY <1>0, <2>1, <3>1 DEF LeavesRow, Unacked
    <3> QED
      BY <1>0, <3>1, <3>2, LeavingKeepsRows
  <2> QED
    BY <1>5, <2>2, <2>3 DEF PopCommand
<1>6. CASE PackFails(k) \/ WriteFrame(k) \/ WriteFails(k)
  <2>1. PICK b : b = held[k]
    OBVIOUS
  <2>2. pc[k] = "sending" /\ b \in Command
    BY <1>0, <1>6, <2>1 DEF PackFails, WriteFrame, WriteFails, TypeInv, SessionInv, SendingHolds
  <2>3. Row(b) /\ outcome[b] = "open"
    BY <2>1, <2>2, UnsettledIsOpen DEF InHand, RowsAgree, Row
  <2>4. CASE PackFails(k)
    <3>1. /\ Request(k, "failed", target[k], b, "reporting") /\ UNCHANGED inflight
          /\ outcome' = [outcome EXCEPT ![b] = "rejected"]
      BY <2>1, <2>4 DEF PackFails
    <3>2. /\ outcome'[b] = "rejected" /\ \A c \in Command \ {b} : outcome'[c] = outcome[c]
          /\ \A c : outcome'[c] = outcome[c] \/ outcome[c] = "open"
      BY <1>0, <2>2, <2>3, <3>1
    <3>3. /\ ReportsAgree' /\ \A c, ops : Reporting(c, ops) => Reporting(c, ops)'
      BY <1>2, <2>2, <3>1, <3>2 DEF Awaiting
    <3>4. \A c : Unacked(c) => Unacked(c)'
      BY <3>1 DEF Unacked
    <3>5. \A c \in Command \ {b} : LeavesRow(c)
      BY <1>0, <3>2, <3>3, <3>4 DEF LeavesRow
    <3>6. Row(b)'
      BY <1>0, <2>3, <3>2, <3>3, <3>4 DEF Row
    <3> QED
      BY <3>3, <3>5, <3>6, LeavingKeepsRows
  <2>5. CASE WriteFrame(k)
    <3>1. /\ Request(k, "sent", target[k], b, "reporting") /\ UNCHANGED outcome
          /\ inflight' = [inflight EXCEPT ![k] = b]
      BY <2>1, <2>5 DEF WriteFrame
    <3>2. inflight[k] = NoCommand
      BY <2>2 DEF WaitInv, NothingUnanswered
    <3>3. inflight'[k] = b /\ \A j \in Client \ {k} : inflight'[j] = inflight[j]
      BY <1>0, <3>1
    <3>4. ReportsAgree' /\ \A c, ops : Reporting(c, ops) => Reporting(c, ops)'
      BY <1>2, <2>2, <3>1, <3>3 DEF Awaiting
    <3>5. \A c \in Command : Unacked(c) => Unacked(c)'
      BY <1>0, <3>2, <3>3 DEF Unacked
    <3>6. \A c \in Command : LeavesRow(c)
      BY <1>0, <3>1, <3>4, <3>5 DEF LeavesRow
    <3> QED
      BY <1>0, <3>4, <3>6, LeavingKeepsRows
  <2>6. CASE WriteFails(k)
    <3>1. Request(k, "requeue", target[k], b, "requeueing") /\ UNCHANGED <<inflight, outcome>>
      BY <2>1, <2>6 DEF WriteFails, history
    <3>2. ReportsAgree' /\ \A c, ops : Reporting(c, ops) => Reporting(c, ops)'
      BY <1>2, <2>2, <3>1 DEF Awaiting
    <3>3. \A c \in Command : LeavesRow(c)
      BY <1>0, <3>1, <3>2 DEF LeavesRow, Unacked
    <3> QED
      BY <1>0, <3>2, <3>3, LeavingKeepsRows
  <2> QED
    BY <1>6, <2>4, <2>5, <2>6
<1>7. CASE Close(k)
  <2>1. pc[k] = "closing" /\ UNCHANGED outcome /\ inflight' = [inflight EXCEPT ![k] = NoCommand]
    BY <1>7 DEF Close, ClearInflight, history
  <2>2. CASE inflight[k] = NoCommand
    <3>1. UNCHANGED calls /\ inflight' = inflight
      BY <1>0, <1>7, <2>1, <2>2 DEF Close
    <3> QED
      BY <1>1, <2>1, <3>1
  <2>3. CASE inflight[k] # NoCommand
    <3>1. PICK b : b = inflight[k]
      OBVIOUS
    <3>2. b \in Command /\ Request(k, "requeue", target[k], b, "requeueing")
      BY <1>0, <1>7, <2>3, <3>1 DEF Close
    <3>3. /\ ReportsAgree' /\ \A c, ops : Reporting(c, ops) => Reporting(c, ops)'
          /\ Reporting(b, {"requeue", "acked"})'
      BY <1>0, <1>2, <2>1, <3>2 DEF Awaiting
    <3>4. \A c \in Command \ {b} : Unacked(c) => Unacked(c)'
      BY <1>0, <2>1, <3>1 DEF Unacked
    <3>5. \A c \in Command \ {b} : LeavesRow(c)
      BY <1>0, <2>1, <3>3, <3>4 DEF LeavesRow
    <3>6. Row(b)'
      BY <1>0, <2>1, <3>2, <3>3 DEF RowsAgree, Row
    <3> QED
      BY <3>3, <3>5, <3>6, LeavingKeepsRows
  <2> QED
    BY <2>2, <2>3
<1>8. ASSUME NEW x \in calls, Popped(k, x) \/ Reported(k, x) \/ Requeue(k, x)
      PROVE  ReportsAgree' /\ RowsAgree'
  BY <1>1, <1>8 DEF Popped, Reported, Requeue, Collect, history
<1> QED
  BY <1>3, <1>4, <1>5, <1>6, <1>7, <1>8 DEF Session

\* So it is always.
LEMMA RowInvAlways == Spec => []RowInv
<1> DEFINE Inv == /\ TypeInv /\ LiveInv /\ PlaceInv /\ WaitInv /\ CalmInv /\ QueuesBounded
                  /\ CreatedInv
<1>1. Init => RowInv
  BY DEF Init, CoreInit, RowInv, ReportsAgree, RowsAgree
<1>2. Inv /\ RowInv /\ [Next]_vars => RowInv'
  <2> SUFFICES ASSUME Inv, RowInv, [Next]_vars, faults' = 0 PROVE ReportsAgree' /\ RowsAgree'
    BY DEF RowInv
  <2>1. /\ ReportsAgree /\ RowsAgree /\ ~ctxDone /\ ~Faults /\ \A x \in calls : Live(x)
    BY NoFaultYet DEF RowInv
  <2>2. CASE UNCHANGED vars \/ \E k \in Client : Link(k)
    <3>1. UNCHANGED <<calls, status, inflight, outcome>>
      BY <2>2 DEF vars, Link, Receive, LoseFrames, coreVars, sessionVars, history
    <3> QED
      BY <2>1, <3>1 DEF ReportsAgree, RowsAgree, Unacked, Reporting
  <2> QED
    BY <2>1, <2>2, CoreNextKeepsRows, SessionKeepsRows DEF Next
<1>3. Spec => []Inv
  BY TypeInvAlways, LiveInvAlways, PlaceInvAlways, WaitInvAlways, CalmInvAlways,
     QueuesBoundedAlways, TraceInvAlways, PTL
<1> QED
  BY <1>1, <1>2, <1>3, PTL DEF Spec

\* Until something fails the row of a command about which nothing is being reported
\* tells how it ended or, as long as it says "sent", that a session waits for its ACK.
THEOREM RowsTellTheOutcome == Spec => []RowAgrees
<1>1. RowInv => RowAgrees
  <2> SUFFICES ASSUME RowInv, faults = 0, NEW c \in Command, Quiet(c)
               PROVE  /\ status[c] \in {"acked", "failed"} =>
                           outcome[c] = IF status[c] = "acked" THEN "confirmed" ELSE "rejected"
                      /\ outcome[c] = "confirmed" => status[c] \in {"acked", "queued"}
                      /\ status[c] = "sent" => c \in EmptyPayload \/ \E k \in Client : inflight[k] = c
    BY DEF RowAgrees
  <2>1. ~Reporting(c, {"requeue", "acked"}) /\ ~Reporting(c, {"acked"})
    BY DEF Quiet, Reporting
  <2> QED
    BY <2>1 DEF RowInv, RowsAgree, Unacked
<1> QED
  BY <1>1, RowInvAlways, PTL

================================================================================
