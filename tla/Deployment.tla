----------------------------- MODULE Deployment -----------------------------
(***************************************************************************)
(* The two containers of docker-compose.example.yml: the Core, which       *)
(* migrates its database and serves (SchemaMigration), and                 *)
(* protocol-ingress with its components: the management server, the TCP    *)
(* adapter with its accept loop, the goroutine that closes everything on   *)
(* shutdown and one goroutine per connection (GosterChannel), and the MQTT *)
(* adapter.  What they are configured with is an environment               *)
(* (ServiceConfig).  Either container may end; compose starts it again.    *)
(***************************************************************************)
EXTENDS ServiceConfig, SchemaMigration, GosterChannel

CONSTANTS
  IngressEnv, CoreEnv,  \* the environments to be looked at
  Nobody,
  MaxFault              \* bound of the number of faults and stops together

ASSUME NobodyAssumption == Nobody \notin Conn
ASSUME FaultAssumption == MaxFault \in Nat

VARIABLES
  env,         \* the environments of both containers
  process,     \* protocol-ingress: "created", "running" or "down"
  component,   \* "http", "tcp" and "mqtt": "starting", "up" or "ended"
  ctxDone,     \* App.Run's context is cancelled
  failed,      \* App.Run's errCh has an error
  loop,        \* the accept loop: "accept", "check", "track", "wait" or "ended"
  held,        \* the connection it has accepted and not yet tracked
  listener,    \* the listener is open
  watcher,     \* the shutdown goroutine: "none", "ready", "flag", "close", "closed"
  shutdown,    \* Adapter.shutdown
  stage,       \* connection -> "none", "backlog", "held" or "tracked"
  faults

adapterVars == <<loop, held, listener, watcher, shutdown>>
appVars == <<process, component, ctxDone, failed>>
vars == <<coreVars, link, env, appVars, adapterVars, stage, faults>>

Component == {"http", "tcp", "mqtt"}

\* The configuration protocol-ingress runs with
Config == IngressLoad(env.ingress)

Init ==
  /\ env \in [ingress : IngressEnv, core : CoreEnv]
  /\ CoreInit /\ driver = CoreLoad(env.core)["DB_DRIVER"]
  /\ ChannelInit
  /\ process = "created"
  /\ component = [p \in Component |-> "ended"]
  /\ ctxDone = FALSE /\ failed = FALSE
  /\ loop = "ended" /\ held = Nobody /\ listener = FALSE
  /\ watcher = "none" /\ shutdown = FALSE
  /\ stage = [c \in Conn |-> "none"]
  /\ faults = 0

-----------------------------------------------------------------------------
\* The Core

CoreRuns ==
  /\ Migrate
  /\ UNCHANGED <<link, env, appVars, adapterVars, stage, faults>>

Fault == faults < MaxFault /\ faults' = faults + 1

CoreEnds ==
  /\ Fault /\ Killed
  /\ UNCHANGED <<link, env, appVars, adapterVars, stage>>

-----------------------------------------------------------------------------
\* protocol-ingress

\* Load refuses a bad environment, and the process ends before it has begun.
\* Compose creates the container when the Core is healthy, and starts it again
\* whatever the Core does.
IngressStart ==
  /\ process = "created" => Serving
  /\ process # "running"
  /\ IngressAccepts(env.ingress)
  /\ process' = "running"
  /\ component' = [p \in Component |-> "starting"]
  /\ ctxDone' = FALSE /\ failed' = FALSE
  /\ UNCHANGED <<coreVars, link, env, adapterVars, stage, faults>>

\* An adapter that is not enabled ends at once and without an error.
Enabled(p) ==
  \/ p = "http"
  \/ p = "tcp" /\ Config["CUSTOM_TCP_ENABLED"]
  \/ p = "mqtt" /\ Config["MQTT_ENABLED"]

Start(p) ==
  /\ process = "running" /\ component[p] = "starting"
  /\ component' = [component EXCEPT ![p] = IF Enabled(p) THEN "up" ELSE "ended"]
  /\ IF p = "tcp" /\ Enabled(p)
     THEN /\ loop' = "accept" /\ listener' = TRUE
          /\ watcher' = "ready" /\ shutdown' = FALSE /\ UNCHANGED held
     ELSE UNCHANGED adapterVars
  /\ UNCHANGED <<coreVars, link, env, process, ctxDone, failed, stage, faults>>

\* A port is taken, a broker refuses its listener: the error ends all of App.Run.
StartFails(p) ==
  /\ Fault
  /\ process = "running" /\ component[p] = "starting" /\ Enabled(p)
  /\ component' = [component EXCEPT ![p] = "ended"]
  /\ failed' = TRUE
  /\ UNCHANGED <<coreVars, link, env, process, ctxDone, adapterVars, stage>>

\* A signal, or the first error of a component, cancels the context.
StopSignal ==
  /\ Fault
  /\ process = "running" /\ ~ctxDone /\ ctxDone' = TRUE
  /\ UNCHANGED <<coreVars, link, env, process, component, failed, adapterVars, stage>>

CancelAll ==
  /\ process = "running" /\ failed /\ ~ctxDone /\ ctxDone' = TRUE
  /\ UNCHANGED <<coreVars, link, env, process, component, failed, adapterVars, stage, faults>>

\* The management server's Shutdown has a timeout; the MQTT adapter returns too.
Stop(p) ==
  /\ p # "tcp" /\ component[p] = "up" /\ ctxDone
  /\ component' = [component EXCEPT ![p] = "ended"]
  /\ UNCHANGED <<coreVars, link, env, process, ctxDone, failed, adapterVars, stage, faults>>

\* main returns; the goroutines of connections are not waited for.
Exit ==
  /\ process = "running" /\ \A p \in Component : component[p] = "ended"
  /\ process' = "down"
  /\ link' = [c \in Conn |-> Closed] /\ stage' = [c \in Conn |-> "none"]
  /\ watcher' = "none"
  /\ UNCHANGED <<coreVars, env, component, ctxDone, failed, loop, held, listener, shutdown, faults>>
-----------------------------------------------------------------------------
\* The TCP adapter

\* Connections that are closed from this side
Drop(set) ==
  /\ stage' = [c \in Conn |-> IF c \in set THEN "none" ELSE stage[c]]
  /\ link'  = [c \in Conn |-> IF c \in set THEN Closed ELSE link[c]]

\* A device connects: the kernel keeps the connection until it is accepted.
Dial(c) ==
  /\ listener /\ stage[c] = "none"
  /\ stage' = [stage EXCEPT ![c] = "backlog"]
  /\ Open(c)
  /\ UNCHANGED <<coreVars, env, appVars, adapterVars, faults>>

Accept(c) ==
  /\ loop = "accept" /\ listener /\ stage[c] = "backlog"
  /\ loop' = "check" /\ held' = c
  /\ stage' = [stage EXCEPT ![c] = "held"]
  /\ UNCHANGED <<coreVars, link, env, appVars, listener, watcher, shutdown, faults>>

\* Accept returns because the listener is closed; Serve waits for the watcher.
AcceptEnds ==
  /\ loop = "accept" /\ ~listener /\ loop' = "wait"
  /\ UNCHANGED <<coreVars, link, env, appVars, held, listener, watcher, shutdown, stage, faults>>

\* Any other error, for example of too many open files, ends Serve at once unless
\* the context is done: the deferred calls close the listener and dismiss the watcher.
AcceptFails ==
  /\ Fault
  /\ loop = "accept" /\ listener
  /\ IF ctxDone
     THEN /\ loop' = "wait"
          /\ UNCHANGED <<link, component, failed, listener, watcher, stage>>
     ELSE /\ loop' = "ended" /\ listener' = FALSE /\ watcher' = "none"
          /\ component' = [component EXCEPT !["tcp"] = "ended"] /\ failed' = TRUE
          /\ Drop({c \in Conn : stage[c] = "backlog"})
  /\ UNCHANGED <<coreVars, env, process, ctxDone, held, shutdown>>

\* The connection is closed when the adapter is shutting down.
Check ==
  /\ loop = "check"
  /\ IF shutdown
     THEN /\ loop' = "wait" /\ held' = Nobody
          /\ stage' = [stage EXCEPT ![held] = "none"] /\ Close(held)
     ELSE /\ loop' = "track" /\ UNCHANGED <<held, stage, link>>
  /\ UNCHANGED <<coreVars, env, appVars, listener, watcher, shutdown, faults>>

\* Otherwise it is tracked, and its goroutine begins.
Track ==
  /\ loop = "track" /\ loop' = "accept"
  /\ stage' = [stage EXCEPT ![held] = "tracked"] /\ held' = Nobody
  /\ UNCHANGED <<coreVars, link, env, appVars, listener, watcher, shutdown, faults>>

LoopEnds ==
  /\ loop = "wait" /\ watcher = "closed"
  /\ loop' = "ended"
  /\ component' = [component EXCEPT !["tcp"] = "ended"]
  /\ UNCHANGED <<coreVars, link, env, process, ctxDone, failed, held, listener, watcher, shutdown,
                 stage, faults>>

\* The goroutine that waits for the context: it sets the flag, closes the
\* listener, and closes the connections that are tracked by then.
WatcherFlags ==
  /\ watcher = "ready" /\ ctxDone
  /\ watcher' = "flag" /\ shutdown' = TRUE
  /\ UNCHANGED <<coreVars, link, env, appVars, loop, held, listener, stage, faults>>

\* Faulty variant: the listener is left open.
BugListenerStaysOpen ==
  /\ watcher = "flag"
  /\ watcher' = "close"
  /\ UNCHANGED <<coreVars, link, env, appVars, loop, held, listener, shutdown, stage, faults>>

WatcherCloses ==
  /\ watcher = "flag"
  /\ watcher' = "close" /\ listener' = FALSE
  /\ Drop({c \in Conn : stage[c] = "backlog"})
  /\ UNCHANGED <<coreVars, env, appVars, loop, held, shutdown, faults>>

CloseActive ==
  /\ watcher = "close"
  /\ watcher' = "closed"
  /\ Drop({c \in Conn : stage[c] = "tracked"})
  /\ UNCHANGED <<coreVars, env, appVars, loop, held, listener, shutdown, faults>>

-----------------------------------------------------------------------------
\* Connections

DeviceActs(c) ==
  /\ Device(c)
  /\ UNCHANGED <<coreVars, env, appVars, adapterVars, stage, faults>>

\* Faulty variant: calls to the Core do not follow the context of the adapter.
BugBackgroundContext == Serving /\ Trusts(env.core, env.ingress)

\* A call to the Core succeeds while the Core serves, the two agree about the
\* token, and the context the connection was given is not cancelled.
Reachable == Serving /\ Trusts(env.core, env.ingress) /\ ~ctxDone

HandleFrame(c) ==
  /\ stage[c] = "tracked"
  /\ \E accepted, command \in (IF Reachable THEN BOOLEAN ELSE {FALSE}) :
       ServeFrame(c, accepted, command)
  /\ stage' = [stage EXCEPT ![c] = IF link'[c].open THEN @ ELSE "none"]
  /\ UNCHANGED <<coreVars, env, appVars, adapterVars, faults>>

\* The device hangs up, or neither a read nor watchIdle waits any longer.
HangUp(c) ==
  /\ stage[c] = "tracked" /\ Drop({c})
  /\ UNCHANGED <<coreVars, env, appVars, adapterVars, faults>>

-----------------------------------------------------------------------------
Process ==
  \/ IngressStart \/ CancelAll \/ Exit
  \/ \E p \in Component : Start(p) \/ Stop(p)

AcceptLoop == AcceptEnds \/ Check \/ Track \/ LoopEnds \/ \E c \in Conn : Accept(c)
Watcher == WatcherFlags \/ WatcherCloses \/ CloseActive

Next ==
  \/ CoreRuns \/ CoreEnds \/ Process \/ AcceptLoop \/ Watcher
  \/ StopSignal \/ AcceptFails
  \/ \E p \in Component : StartFails(p)
  \/ \E c \in Conn : Dial(c) \/ DeviceActs(c) \/ HandleFrame(c) \/ HangUp(c)

\* Every goroutine that can run does, and compose starts a container that ended.
Fairness ==
  /\ WF_vars(CoreRuns) /\ WF_vars(Process)
  /\ WF_vars(AcceptLoop) /\ WF_vars(Watcher)

Spec == Init /\ [][Next]_vars /\ Fairness

-----------------------------------------------------------------------------
\* Properties

\* Whatever the environment says, a container that runs does so with what the
\* other modules assume of their constants: batches, buffers, queues and timeouts
\* that are positive, page sizes in order, and a QoS MQTT knows, though it is cut
\* to a byte before it is checked (config.go:266, Validate).
RunsWithinAssumptions ==
  /\ process = "running" => IngressFit(Config)
  /\ ~At("down") => CoreFit(CoreLoad(env.core))

\* Wherever a migration is killed, what is recorded is there and no old command
\* is lost or in both tables; and the Core serves only a database that is
\* complete and gives the next command an id of its own (migrate.go:137-160).
MigratedWhole ==
  /\ \A f \in schema.recorded : TableOf(f) \in schema.tables
  /\ schema.old \cup schema.commands = schema.born /\ schema.old \cap schema.commands = {}
  /\ Serving =>
       /\ schema.recorded = All(Files) /\ schema.columns = All(Columns) /\ schema.old = {}
       /\ \A id \in schema.commands : id < schema.next

\* A connection that was accepted just before the shutdown and tracked just after
\* it stays open, but nobody can log in on it: once the active connections are
\* closed no session is authenticated (adapter.go:166-175).
StoppedServesNobody ==
  watcher = "closed" => \A c \in Conn : ~link[c].authenticated

\* However the containers end, in the middle of a migration, by an accept that
\* failed or by a signal, both are up in the end: the Core serves, and the
\* ingress, unless it is misconfigured, has every enabled component running.
Recovers ==
  <>[](/\ Serving
       /\ IngressAccepts(env.ingress) =>
            /\ process = "running"
            /\ \A p \in Component : component[p] = IF Enabled(p) THEN "up" ELSE "ended"
            /\ Enabled("tcp") => listener)
=============================================================================
