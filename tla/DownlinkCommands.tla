--------------------------- MODULE DownlinkCommands ---------------------------
(***************************************************************************)
(* The Core's side of a downlink command: the command table, the per       *)
(* device queues, the HTTP handler that creates a command and the ingress  *)
(* RPCs PullCommands and UpdateCommandStatus.                              *)
(*                                                                         *)
(* A handler is split where another goroutine can come in between: between *)
(* the INSERT of the command row and the queue push, and between the queue *)
(* push of a requeue and the UPDATE of its row.  The module has no Next of *)
(* its own: a protocol adapter that issues the RPCs completes it.          *)
(***************************************************************************)
EXTENDS DownlinkQueue

CONSTANTS
  Device,        \* device uuids
  Command,       \* command ids the database can hand out
  Client,        \* RPC clients of the Core: the adapter's connections
  Capacity,      \* capacity of one device's queue
  EmptyPayload,  \* the commands created without a payload
  NoDevice,
  NoCommand

ASSUME CapacityAssumption == Capacity \in Nat
ASSUME DistinctAssumption == NoDevice \notin Device /\ NoCommand \notin Command
ASSUME PayloadAssumption  == EmptyPayload \subseteq Command

VARIABLES
  status,   \* device_commands.status ("none": no row yet)
  owner,    \* device_commands.uuid
  queue,    \* InMemoryDeviceCommandQueue.queues
  pushing,  \* commands whose HTTP handler is between the INSERT and the push
  calls,    \* RPCs under way, from the client's request to its response
  attempt   \* RPCs each client has given up on

coreVars == <<status, owner, queue, pushing, calls, attempt>>

Status == {"none", "queued", "sent", "acked", "failed"}
Call == [from: Client, no: Nat,
         op: {"pull", "sent", "acked", "failed", "requeue"},
         dev: Device, cmd: Command \cup {NoCommand},
         stage: {"issued", "pushed", "answered"}]

CoreTypeOK ==
  /\ status \in [Command -> Status]
  /\ owner \in [Command -> Device \cup {NoDevice}]
  /\ queue \in [Device -> Seq(Command)]
  /\ pushing \subseteq Command
  /\ calls \subseteq Call
  /\ attempt \in [Client -> Nat]

CoreInit ==
  /\ status = [c \in Command |-> "none"]
  /\ owner = [c \in Command |-> NoDevice]
  /\ queue = [d \in Device |-> <<>>]
  /\ pushing = {}
  /\ calls = {}
  /\ attempt = [k \in Client |-> 0]

-----------------------------------------------------------------------------
(* The client's end of an RPC.                                             *)

\* A call whose client still waits for the answer.
Live(x) == x.no = attempt[x.from]

\* The client sends a request.
Issue(k, op, d, c) ==
  /\ calls' = calls \cup {[from |-> k, no |-> attempt[k], op |-> op,
                           dev |-> d, cmd |-> c, stage |-> "issued"]}
  /\ UNCHANGED attempt

\* The client takes the response x.
Collect(x) ==
  /\ calls' = calls \ {x}
  /\ UNCHANGED attempt

\* The clients in K stop waiting: the response, if it is already under way,
\* is lost, and a request the Core has not finished stays with the Core.
Abandon(K) ==
  /\ attempt' = [k \in Client |-> IF k \in K THEN attempt[k] + 1 ELSE attempt[k]]
  /\ calls' = {x \in calls : ~(x.from \in K /\ Live(x) /\ x.stage = "answered")}

-----------------------------------------------------------------------------
(* The HTTP handler of POST /devices/{uuid}/commands.                      *)

\* CreateDeviceCommandByTenant: the row is there, the queue is not touched yet.
CreateCommand(c, d) ==
  /\ status[c] = "none"
  /\ status' = [status EXCEPT ![c] = "queued"]
  /\ owner' = [owner EXCEPT ![c] = d]
  /\ pushing' = pushing \cup {c}
  /\ UNCHANGED <<queue, calls, attempt>>

\* queue.Enqueue of the same handler.
PushCommand(c) ==
  /\ c \in pushing
  /\ queue' = [queue EXCEPT ![owner[c]] = Enqueued(@, c, Capacity)]
  /\ pushing' = pushing \ {c}
  /\ UNCHANGED <<status, owner, calls, attempt>>

-----------------------------------------------------------------------------
(* The RPC handlers.                                                       *)

\* The calls after call x is answered with command c; the answer to a client
\* that has stopped waiting goes nowhere.
Answer(x, c) ==
  (calls \ {x}) \cup
    (IF Live(x) THEN {[x EXCEPT !.stage = "answered", !.cmd = c]} ELSE {})

\* PullCommands with MaxCount = 1: Dequeue, then the response.
ServePull(x) ==
  /\ x \in calls /\ x.op = "pull" /\ x.stage = "issued"
  /\ IF queue[x.dev] = <<>>
       THEN /\ calls' = Answer(x, NoCommand)
            /\ UNCHANGED queue
       ELSE /\ calls' = Answer(x, Head(queue[x.dev]))
            /\ queue' = [queue EXCEPT ![x.dev] = Tail(@)]
  /\ UNCHANGED <<status, owner, pushing, attempt>>

\* UpdateCommandStatus with SENT, ACKED or FAILED: the row is overwritten, if
\* there is one.
ServeMark(x) ==
  /\ x \in calls /\ x.op \in {"sent", "acked", "failed"} /\ x.stage = "issued"
  /\ status' = [status EXCEPT ![x.cmd] = IF @ = "none" THEN @ ELSE x.op]
  /\ calls' = Answer(x, x.cmd)
  /\ UNCHANGED <<owner, queue, pushing, attempt>>

\* UpdateCommandStatus with REQUEUED, up to queue.Requeue: a request without
\* a payload is refused before anything changes, a refused push fails the row.
ServeRequeue(x) ==
  /\ x \in calls /\ x.op = "requeue" /\ x.stage = "issued"
  /\ UNCHANGED <<owner, pushing, attempt>>
  /\ \/ /\ x.cmd \in EmptyPayload
        /\ calls' = Answer(x, x.cmd)
        /\ UNCHANGED <<status, queue>>
     \/ /\ x.cmd \notin EmptyPayload
        /\ queue' = [queue EXCEPT ![x.dev] = Requeued(@, x.cmd, Capacity)]
        /\ IF RequeueRefused(queue[x.dev], Capacity)
             THEN /\ status' = [status EXCEPT ![x.cmd] = "failed"]
                  /\ calls' = Answer(x, x.cmd)
             ELSE /\ calls' = (calls \ {x}) \cup {[x EXCEPT !.stage = "pushed"]}
                  /\ UNCHANGED status

\* Faulty variant, to test the properties: the row keeps its status.
BugFinishRequeue(x) ==
  /\ x \in calls /\ x.stage = "pushed"
  /\ calls' = Answer(x, x.cmd)
  /\ UNCHANGED <<status, owner, queue, pushing, attempt>>

\* The UPDATE that ends DownlinkCommandService.Requeue.
FinishRequeue(x) ==
  /\ x \in calls /\ x.stage = "pushed"
  /\ status' = [status EXCEPT ![x.cmd] = "queued"]
  /\ calls' = Answer(x, x.cmd)
  /\ UNCHANGED <<owner, queue, pushing, attempt>>

\* The same UPDATEs when the database returns an error: the client is told,
\* the row and the queue stay as they are.
StoreError(x) ==
  /\ x \in calls
  /\ (x.op \in {"sent", "acked", "failed"} /\ x.stage = "issued") \/ x.stage = "pushed"
  /\ calls' = Answer(x, x.cmd)
  /\ UNCHANGED <<status, owner, queue, pushing, attempt>>

\* A request that died with its connection and never reached the Core.
LoseRequest(x) ==
  /\ x \in calls /\ ~Live(x) /\ x.stage = "issued"
  /\ calls' = calls \ {x}
  /\ UNCHANGED <<status, owner, queue, pushing, attempt>>

CoreNext ==
  \/ \E c \in Command, d \in Device : CreateCommand(c, d)
  \/ \E c \in Command : PushCommand(c)
  \/ \E x \in calls :
       ServePull(x) \/ ServeMark(x) \/ ServeRequeue(x) \/ FinishRequeue(x)
         \/ LoseRequest(x)

\* The Core process stops and starts again: the rows survive, the queues and
\* the running handlers do not, and the clients that wait get an error.
CoreRestart ==
  /\ queue' = [d \in Device |-> <<>>]
  /\ pushing' = {}
  /\ calls' = {x \in calls : Live(x) /\ x.stage = "answered"} \cup
              {[x EXCEPT !.stage = "answered", !.cmd = NoCommand] :
                 x \in {y \in calls : Live(y) /\ y.stage # "answered"}}
  /\ UNCHANGED <<status, owner, attempt>>

=============================================================================
