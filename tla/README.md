# Goster-IoT in TLA+

TLA+ models of Goster-IoT, the TLC runs that check them on small instances, and
theorems about them checked by TLAPS. Paths are relative to the repository root.

## 1. The system

Two Go processes and a web front end:

* the **Core** (`go/src`): the management API for people, the ingress RPCs
  (Connect/protobuf) for protocol adapters, and the database;
* **protocol-ingress** (`protocol-ingress`): adapters that terminate device
  protocols (custom TCP, MQTT) and turn them into ingress RPCs.

### Inventory

| Component | State | Operations | Talks to |
|---|---|---|---|
| Downlink queue (`message_queue.go`) | a bounded slice of messages per device, under a mutex | Enqueue, Dequeue, Requeue | downlink command service |
| Downlink command service and table (`downlink_command_service.go`, `storage/command`) | rows `device_commands` | Enqueue, PopDownlink, Requeue, MarkSent / Acked / Failed | API handler, ingress RPCs |
| Ingress RPC service (`web/ingress/service.go`) | none of its own | AuthenticateDevice, RegisterDevice, ReportHeartbeat, IngestEvents, PullCommands, UpdateCommandStatus | all Core services |
| RPC client (`coreclient/client.go`) | calls under way | one call per RPC, with a timeout | ingress service |
| Custom TCP adapter (`adapter/customtcp`) | per connection: device, inflight command and its sequence number, write counter, downlink loop index | handshake, authentication, registration, uplinks, downlink loop, ACK, requeue on close, shutdown | RPC client, device |
| Frame codec (`protocol/gosterwy`) | keys and frame counters of a connection | pack, unpack, key exchange | TCP adapter, device |
| MQTT adapter and broker (`adapter/mqtt`) | sessions per client id, bounded message channel, remembered devices | connect, publish, disconnect, map, pull-and-publish loop | RPC client, device |
| Normalizer (`normalizer`) | none | event kinds, parts of an event | both adapters |
| Device registry (`device_registry_service.go`, `storage/device`) | rows `devices`, token cache (`sync.Map`) | approve, reject, unblock, refresh, delete, register, provision, authenticate | API, ingress service |
| Presence and telemetry (`device_presence_*`, `telemetry_*`) | last-seen map, rows of metrics and logs | heartbeat, query, ingest | ingress service, registry hook |
| Access control (`access_control.go`) | none | the state of a door from stored signals | telemetry |
| Tenants (`storage/tenant`, `web/v1/tenants.go`, `invitations.go`) | `tenants`, `tenant_users`, `tenant_invitations` | create, invite, accept, reject, remove | API |
| Users and identity (`storage/user`, `storage/identity`, `web/v1/auth.go`) | accounts, roles in the legacy tenant, session cookies | register, login, logout | API |
| Login guard, CSRF, captcha (`web/v1/login_*`, `csrf.go`) | attempt counters, tokens | allow, record, reset; generate, validate | API |
| Tenant scope (`principal_resolver.go`, `middleware.go`) | none | tenant and permission of a request | every handler |
| Configuration (`config.go`, `app_config.go`) | set up once | defaults, normalization, validation | everything |
| Schema migration (`dbschema`) | `schema_migrations` and the tables | `db migrate` before every `serve` | database |
| App, servers, adapter registry (`app`, `server`, `cli`) | running components, tracked connections | start, fail, shut down, restart | process, compose |
| External entities (`external_entity_service.go`) | observations | upsert, list | nothing outside tests |
| Front end, generated bindings, deployment files | | | |

### What is hard, and what makes each part correct

* **Downlink delivery** runs through three processes: a device, a connection
  goroutine and the Core. A pull takes a message out of memory before the
  response arrives; any RPC may time out while, before or after it is executed;
  a device may answer late, twice, or after its connection was bound to another
  device; a closing connection puts its inflight command back while the
  device's next connection is already pulling; either process may stop between
  two steps. Correct: a command is never duplicated, not delivered again after
  its ACK, never confirmed by somebody else's ACK, delivered to its own device,
  retried while its connection breaks, and its row says what happened.
* **The device registry** has a cache in front of a table and takes no lock:
  every handler is a series of single accesses. Correct: what Authenticate
  accepts is what the table holds; a replaced token never comes back; only
  administrators take a device's authentication away.
* **Tenants**: authorisation and effect of a request are apart, invitations
  are decided by concurrent transactions and expire. Correct: nobody has a role
  without an accepted invitation to it; an invitation is decided once; a tenant
  keeps an administrator.
* **MQTT delivery**: commands are pulled in batches for every device that was
  heard of, published and reported SENT, while one goroutine handles the
  answers that come through a bounded channel; a new connection of a device
  replaces the old one, whose hook runs late. Correct: a command is published at
  most once, the row never runs ahead of what was published and answered, no
  command or answer is lost without a fault, and a connected device may publish.
* **Telemetry and presence**: a report is stored in several steps, its tenant
  is looked up on the way, its ACK does not depend on the result, and the device
  may be deleted and registered again meanwhile. Payloads name devices too.
  Correct: a report belongs to whom the connection or the token stands for; what
  was acknowledged can be read; nothing of a deleted device comes back; the door
  follows the newest signals in whatever order they come.
* **Accounts**: the first account becomes administrator by a count that was
  read before the INSERT; guard, password and CSRF token are separate calls of
  concurrent requests; a restart forgets some of it and migrates the rest.
  Correct: there is an administrator; guesses are bounded; a lock holds; a
  browser that may write goes on to.
* **Start and stop**: migrations can be killed between two statements; settings
  come from an environment nobody checks; a connection may be accepted while
  the others are being closed; the key of a connection changes while frames of
  both ends cross. Correct: nothing is lost by a migration; whatever runs has
  settings the other modules assume; a stopped adapter serves nobody; everything
  comes up again; every frame can be read when its turn comes.

`PROJECT.json` lists these hazards with their lines under `hazards`.

## 2. Modules

    DownlinkQueue          the bounded queue, as operators
      DownlinkCommands     rows, queues, handlers and RPCs of the Core; no Next
        CustomTcpDownlink  connections, wire, device, faults: Spec, FairSpec
          MCCustomTcpDownlink         constants for TLC
          CustomTcpDownlink_proofs    theorems
            CustomTcpLifecycle_proofs theorems: one copy, owners, rows, refinement
        MqttDownlink       broker hooks, message handler, downlink loop: Spec, FairSpec
          MCMqttDownlink
          MqttDownlink_proofs         theorems: one place, rows, refinement
    CommandLifecycle       what delivery promises; refined by both adapters
    DeviceRegistry         devices table, token cache, handlers
      MCDeviceRegistry
      DeviceRegistry_proofs
    DeviceTelemetry        messages, events, their storage, presence, the door
      MCDeviceTelemetry
      DeviceTelemetry_proofs
    TenantMembership       roles, invitations, handlers
      MCTenantMembership
      TenantMembership_proofs
    Accounts               registration, login guard, sessions, CSRF tokens
      MCAccounts
      Accounts_proofs
    ServiceConfig          what the programs make of their environments; operators
    SchemaMigration        db migrate, statement by statement; no Spec
    GosterChannel          keys, nonces and frames of TCP connections; no Spec
      Deployment           both containers, composed of the three: Spec
        MCDeployment
        Deployment_proofs

`map` in `PROJECT.json` names the lines every definition stands for.
Operators called `Bug...` are faulty variants that no specification uses; each
one, put in the place of the definition that follows it, breaks a property,
which shows that the property depends on that code.

### DownlinkQueue, DownlinkCommands

The queue operators are the effects of the methods under the mutex, with both
ways a full queue drops a message. `status` and `owner` are columns of
`device_commands`; `queue` is the in-memory map; `pushing` holds the commands
whose HTTP handler has inserted the row and not pushed the message yet.

A **call** is an RPC from its request to its response: `issued` (sent, not
executed), `pushed` (a requeue between the queue push and its UPDATE), `answered`
(the response is under way). `Abandon` is the client's timeout: the client goes
on, an unfinished request stays with the Core, which executes it later
(`ServeMark`, `ServeRequeue` of a call that is not `Live`; the repositories use
`context.Background()`) or never gets it (`LoseRequest`). `StoreError` and
`CoreRestart` are the Core's faults: a failing UPDATE; queues, handlers and calls
gone, rows kept. UpdateCommandStatus with REQUEUED refuses an empty payload
before it touches anything.

### CustomTcpDownlink

A `Client` is one connection, used once. `pc` is where its goroutine is:

| `pc` | code |
|---|---|
| `read` | blocked in the frame read of `handleConnection` |
| `pop`, `pulling` | downlink loop, PullCommands under way |
| `sending` | message popped, frame to be packed and written |
| `reporting` | UpdateCommandStatus (SENT, FAILED, ACKED) under way |
| `closing`, `requeueing`, `closed` | deferred `RequeueInflight` |

`held` is the loop's local `msg`, `target` the UUID that came with it, `inflight`
and `inflightSeq` fields of `session`, `writeSeq` the frame counter, `wire` and
`got` the frames on their way to and at the device. `ReadAck` lets the device
answer any frame it has ever received on that connection, any number of times
and in any order. `Rebind` is a second authentication or registration on the
same connection. `Shutdown` cancels the adapter's context (every later RPC fails
at once) and closes the connections; `IngressExit` is the end of the process,
by a kill or after a shutdown that waited for nobody.

`outcome` and `aired` are history variables that nothing in the system reads.

Abstractions: only downlink frames count in `writeSeq` (uplink ACKs take
numbers too, which never makes two downlink numbers equal); telemetry uplinks
and heartbeats are `ReadUplink`; the idle watchdog closes a connection only when it
is blocked in a read (its period is longer than an RPC timeout); commands that
map to no protocol code do not occur (the API and the normalizer admit the four
downlink commands only); the order of messages in one queue is kept.

### MqttDownlink

The adapter in its embedded mode. Three kinds of goroutine share the Core's calls:

| State | Code |
|---|---|
| `conn[k]` | the broker's connection `k` and the packet its goroutine works on: `live`, `checked` (OnACLCheck has loaded the session), `admitted` (and stored it back); `stop`: the broker or the device ended it, OnDisconnect is still to run |
| `session` | the keys of `embeddedBrokerHook.sessions`: client ids, which authentication makes equal to device UUIDs |
| `msgCh`, `main` | the channel and the goroutine that takes from it in `startEmbeddedBroker`, `reporting` while the RPC of an answer is under way |
| `devices` | `Adapter.devices` |
| `loop` | `runDownlinkLoop`: the rest of the round (`todo`), the device it is at, the rest of its batch |
| `reply[n]` | the commands PullCommands has popped for the loop's `n`-th pull |

`OnConnectAuthenticate` stores the session and only then does the broker stop
the connection with the same client id; that connection's `OnDisconnect` comes
at any time later. `ServePullCommands` pops one command per step, as other requests
of the Core may run in between, and goes on after its caller gave up. `reply` is
counted by attempts for that reason: a late pull must not add to the reply of a
newer one. A publish reaches the subscribed device or not (`Receive`). A connected
device answers any command, as often as it likes: `allowedTopic` looks at the topic,
and neither `updateCommandReceipt` nor the Core compares the command id of the
payload with what was delivered. So a command may be answered before it is
published, or by a device it was not meant for; an id without a row changes nothing.
`Stop` is the end of the ingress process, killed or stopped: a stop waits for
neither the messages in the channel nor the loop, so the two are alike.

`outcome` (whether an answer was handled, or the publish failed), `early` (the
commands answered before a device received them) and `replaced` are history
variables.

Left out: the external client mode, tokens in payloads and Zigbee2MQTT topics
(part of DeviceTelemetry; they carry no answers, and the node they make the adapter
remember has no queue to poll), uplinks that fail to map (they change nothing here), answers "queued" (the Core
refuses them), the normalizer (it cannot fail for commands), and refused
connections (they change no state).

### CommandLifecycle

What one command may go through, for people who do not want to read the other
modules: absent, waiting, taken, transmitted, then confirmed, rejected or lost,
with returns to waiting. `StageOf` in `CustomTcpDownlink` is the refinement
mapping: it derives the stage from where the message is (`Places`) and from
`outcome`. `LifecycleSpec` is the abstract specification under that mapping.
MQTT puts nothing back: `MqttDownlink` implements `OnceSpec`, the same without
`Return`. Its mapping never reaches "confirmed" either: an MQTT answer changes the
row and tells nothing about the delivery, so a command's last stages are
transmitted, rejected and lost.

### DeviceRegistry

`row` is (auth_status, token) of each device, `cache` the `tokenCache`, `job` the
handlers under way. Each action is one access: a management request is
CheckScope, Load, Evict and one of Approve, Withdraw, Refresh, Destroy; an
authentication is Authenticate (cache), LookUp (table), Remember (cache),
Describe (table); creating a device is CheckAbsent and an INSERT. `minted` makes
tokens fresh. `DatabaseError` is any access to a table that fails: the request ends, except
that RefreshToken and DeleteDevice take every error of LoadConfig for a device
without a token and go on without an eviction. `disturbed` is the history of devices
whose requests overlapped or went on in that way since the Core started; the
constant `DatabaseFails` switches failures off. Left out: tenant scope (the same for every access), the presence
hook (part of DeviceTelemetry), and `RevokeToken`, which nothing calls.

### DeviceTelemetry

From a message to what a reader of the API sees. `SendFrame` and `Publish` make
an event of a frame or a message, the way `session.go` and `mapper.go` do:
`Principal` and `Attributed` decide whose it is, `PartsOf` what has to be stored.
In the embedded mode every message comes from a connected device (`AllowedTopic`):
on its own topics the connection says who speaks, on the topics of zigbee2mqtt, which
every device may write, the topic's node does.
An event is a call of the Core until `Finish`; the Core resolves the tenant
(`Resolve`) and inserts (`Store`) once per part, in the order of `ingestOne`.
Any of these steps may fail, the caller may give up (`Timeout`) while the Core
goes on, the Core may restart, and the device may be deleted (`Destroy`, then the
hook `RemoveDevice`) and registered again by another tenant. `rows` are the
metrics and logs tables, `lastSeen` the presence map. `sent`, `acked`,
`disturbed` and `gone` are history variables: what was reported, acknowledged,
met by a fault, and stored before a deletion.

`QueryMetrics` returns every order the database may give points of one time in,
and `LatestSignal` is the pass over them that the door page makes for a signal. The
data type of a metric is cut to eight bits on the way, as in `metricPoints`.

Things a reader of the code may not expect and the model keeps: a TCP session
stays bound to a device that was deleted; a report of a device that is not
registered, or whose lookup failed, is filed under the default tenant; TCP
writes the ACK of a report although storing it failed; MQTT ignores the results;
states and availability have no table and are dropped.

Left out: the deadline after which a silent device counts as offline, time
ranges of queries, `idempotency_key` (nothing reads it), and command receipts
within `IngestEvents`, which no adapter sends.

### TenantMembership

One tenant created through the API. A request is authorised in `Ask...`
(`AskInvite` and `AskAdd` are the two routes that create an invitation) and
carried out later. Accepting and rejecting are split into the SELECT and the
UPDATE that decides, which under READ COMMITTED sees what is committed by then;
`age` is the clock relative to `expires_at` (0 before, 1 at, 2 after), since the
code compares with `After` in one place and `>` in the other. Left out:
UpdateTenant (the name, and a status nothing reads), and the roles user
administration writes into the legacy tenant (nothing calls it).

### Accounts

Registration is `CountAccounts` (the SELECT) and `Create` (INSERT, perhaps the
role, COMMIT). On SQLite the transaction cannot commit once another has
(`MayCommit`), on PostgreSQL it can. Login is `Allow`, then `VerifyFails` or
`LoginSucceeds`: the guard is asked before the password is compared and told
afterwards, so that several attempts are between the two. `attempts` is the
store of failures, pruned as the code prunes it: a set of failures, each with its
time and its number among those of the same time. It has an entry for each key,
which `loginAttemptKey` makes of the trimmed name in lower case and the address.
Accounts tell case apart, so `KeyOf` gives a user and a browser (which stands for its
address) any key, and two users may share one. `wrong` is the history of the wrong
passwords sent under a key since the last right one or the last restart, of which
nothing is pruned. A
browser holds two cookies, and takes over those of an answer when that arrives
(`Deliver`), or never (`Abandon`); `csrf` keeps one token per user name.
`Restart` is a new process: sessions, tokens and failures are gone, and `db
migrate` may have run on the tables (`MigratedRole`).

Left out: the captcha (an external service that lets a request pass or not),
permission changes by an administrator (no caller), cookies' ages, OAuth tables.

### ServiceConfig, SchemaMigration, GosterChannel, Deployment

`ServiceConfig` is what both programs make of their environment. A raw value is
unset, blank, a value of its kind or anything else. The ingress refuses what it
cannot use (`IngressValid`), the Core falls back to a default (`CoreValue`,
`Bounded`). `IngressFit` and `CoreFit` are what the other modules assume of
their constants.

`SchemaMigration` is the Core's process: `db migrate` statement by statement on
databases of three ages, then `serve`. `schema` is what is committed, `image`
what the open transaction sees; `Killed` ends the process anywhere. Of the data
only device commands are kept, which the second migration moves between tables;
statements that only create indexes are one with the table they belong to, wherever
their file has them.

`GosterChannel` holds both ends of a TCP connection: keys, frame counters, and
the frames under way with the key and the half of the nonces each was packed
with. `ServeFrame` is one turn of `handleConnection`; the device follows the
protocol's document. A key is a number, fresh for every exchange.

`Deployment` composes the three with the ingress process: `process`, its
components, the accept loop (`loop`, `held`), the goroutine that waits for the
context (`watcher`) and the stage of each connection. An action of a part leaves
the other parts alone; `Drop` closes connections in the channel and in the
adapter at once. `Reachable` is where they meet: a token is accepted only while
the Core serves, both containers have the same token, and the context lives.

Left out: names, addresses and topics, which default when blank and are never
refused; logging, connection pools, health and metrics pages; frame headers
and checksums.

## 3. Runs

All runs set `CHECK_DEADLOCK FALSE`: commands, TCP connections, tokens, reports
and invitations are used once, and when they are used up nothing is left to do;
an ingress whose environment is refused never starts.

| Run | Instance | Shows |
|---|---|---|
| `tcp_faults` | 1 device, 2 commands, 2 connections, capacity 1, one fault of any kind | a command is in one place until it is settled and in none afterwards (`OneCopyUntilSettled`); no false ACK; stop-and-wait; Requeue always finds room; delivery implements `CommandLifecycle` |
| `tcp_reconnect` | 2 devices, 3 commands (one oversized, one empty), 2 connections of which one breaks, capacity 3, batch 2, no faults | messages stay with their device, and without a fault and with `RoomForAll` nothing that can be requeued is lost (`KeptForOwner`); without a fault the row agrees with the session |
| `tcp_live` | 1 device, 2 commands, one connection that breaks and one that lasts | every command is settled |
| `registry` | 2 devices, 3 tokens, 2 handlers, restarts, database errors | the cache is exact as long as requests about one device do not overlap and none refreshes or deletes it after a failed read; retired tokens stay retired; nobody unapproved is accepted; only administrators withdraw; all with failing accesses to the tables |
| `tenant` | 2 users, 2 invitations, 2 handlers | every role is backed; invitations are decided once; how the last administrator can be lost |
| `mqtt_delivery` | 1 device, 2 commands, 2 connections, channel of 1, batch 2, no answers, one fault of any kind | a command is in one place, so it is published at most once, and none is lost without a fault (`OnePlace`); a session lasts unless the connection is taken over |
| `mqtt_answers` | 1 device, 1 command, 1 connection that comes back, channel of 1, answers acked and failed at any time, one fault except a stop | acked only if received or answered before that; without a fault the row agrees; delivery implements `OnceSpec` whatever is answered; the queue is polled; answers reach the row |
| `telemetry` | 2 devices, a Zigbee node, 2 tenants, one TCP session and MQTT in both modes, 2 reports, one fault or deletion | reports belong to whom the connection or token stands for; what was acknowledged can be read; nothing of a deleted device comes back; the door follows the newest signals |
| `accounts` | 2 users whose names differ in case, 2 browsers, 2 requests, both databases, limit 2, window 1, lock 2, one restart | there is an administrator; guesses are bounded; locks hold; a browser keeps its write access |
| `deployment` | 4 ingress and 2 Core environments, both databases, 3 ages of the tables, one connection of 4 frames, 2 faults or stops | settings fit the other modules; migrations lose nothing; frames can be read in turn and nonces are used once; a stopped adapter serves nobody; both containers come up |
| `registry_stale`, `mqtt_takeover` | smallest that shows it, `registry_stale` without database errors | the disagreements of section 5 |

### Bounds

`Capacity`, `MaxBatch`, `MaxFaults`, and the sizes of the sets. Capacity 1
with two commands makes the queue overflow both on Enqueue and on Requeue. Two
connections are what it takes for a stale and a current one; a third would
only repeat the stale one's part, which is over after its requeue. Two commands
of one kind (`MCSameCode`) make ACKs of different commands look alike, so that
only the sequence number tells them apart. One fault is enough to separate a
caller from its request; the theorems cover any number. In the registry three
tokens allow one to be replaced twice, and two handlers give every race of two
requests; in the tenant two users can remove each other and two invitations can
carry different roles to one user. For MQTT two connections are one that is
replaced and its successor, a channel of one message overflows with the second,
and a batch of two stops in its middle. Answers touch rows and not queues, so
`mqtt_delivery` leaves them out, and `mqtt_answers` has one command, whose answers
come in every order with its delivery; that any device may send them makes no
difference to the row, which has no trace of who did. Nothing is a counter without a bound:
`writeSeq`, `attempt` and `batch` grow only as connections pull and give up.

`telemetry`: two reports (`MaxReport`) are an earlier and a later one of one
device, of two devices, or of two sources; the readings are those of a door (no
signal, A off, and a type that becomes A in eight bits together with B), at two
times, so that a late report may hold an older signal. One fault or deletion
(`MaxFault`) separates a report from its result; a deleted device may be registered
again without limit. `accounts`: the limit (`MaxFailures`) of 2 is reached by
one request while the other is let in, under the one key of both names (other keys
have entries of their own); the clock (`MaxTime`) goes from the
start of a lock to its end; two tokens (`MaxToken`) are one and its replacement;
with a window shorter than the lock an entry is pruned while the lock runs.
`deployment`: four frames (`MaxFrame`) are handshake, token, key exchange and a
frame that crosses the exchange's answer; two faults (`MaxFault`) are a container
that ends and the other, or the same again while it starts. `OldId` is one
command, which is moved or not.

Symmetry is used for commands and connections of `tcp_faults` (its constants treat
them alike), devices, tokens and handlers, users and invitations, browsers and
requests; never in a run with a liveness property.

### Fairness

`FairSpec` of CustomTcpDownlink: goroutines that can run do run (weak fairness of
`Session(k)` except of the actions that break the connection, of the Core serving
each connection's calls, and of the push that ends the HTTP handler); a device
reads what was sent to it (`Receive`), goes on reporting (part of `Session`), and
answers a frame sooner or later although other uplinks come in between (strong
fairness of the matching `ReadAck`). Nothing makes users create commands, links
break or faults happen. `EventuallySettled` needs the answering device: the
code has no timeout for a missing downlink ACK, so without it a session waits
until its connection ends.

`FairSpec` of MqttDownlink: the message handler and the downlink loop run and the
Core serves pulls and the calls of either (weak fairness). Devices need not
connect, speak or answer.

`Spec` of Deployment: the migrator, App.Run and its components, the accept loop
and the shutdown goroutine run (weak fairness of each), and compose starts a
container that has ended (`restart: unless-stopped`), which is part of
`CoreRuns` and `Process`. Nothing makes devices act or faults happen; faults
are bounded, so `Recovers` says what holds once they have stopped.

## 4. Proofs

Every theorem is for all values of the constants that meet the named
assumptions; each module's invariant is inductive and is checked in the same
three steps (Init, every action, QED).

`CustomTcpDownlink_proofs`, for any sets of devices, commands and connections, any
capacity, batch size and number of faults. From `CapacityAssumption`,
`DistinctAssumption`, `PayloadAssumption`, `BatchAssumption`, `FaultAssumption`,
`ConnAssumption`:

* **TypeCorrect** `Spec => []TypeOK`. `TypeOK` is not inductive: a Core handler
  may only mark a command if its call carries one, and a session requeues to
  `target` and writes what it `held`. `TypeInv` adds that: `CoreInv` (calls that
  change a row carry a command; a command being pushed has an owner) and
  `SessionInv` (a served connection has a device, a message in hand has a
  target, `sending` holds a message).
* **RequeueAlwaysFits** `Spec => []RequeueNeverRefused`, by the invariant
  `QueuesBounded` (no queue is longer than its capacity): Requeue trims one
  message, so there is room, and `ErrDownlinkQueueFull` cannot happen. The lemmas
  at the top of the module say what the queue operators return.
* **AckedCommandsWereReceived** `Spec => []AckedWasReceived`. A row is set to
  acked by a call made earlier, for a reason that was true then; `AckInv` carries
  the reason along: sequence numbers are used once per connection
  (`FramesNumbered`), the frame with the remembered number is the inflight
  command's (`InflightFrame`), so a matching ACK is about a received command
  (`AckReportsReceived`), and what is received stays received.
* **OneFrameAtATime** `Spec => []StopAndWait`. `WaitInv` says why: a frame that was
  received has left the wire, a session that pulls, holds or writes a message waits
  for no ACK, so nothing of its own is on the wire when it writes; and an ACK that
  matches finds the wire empty, since the frame it answers was the only one.

`CustomTcpLifecycle_proofs` builds on these:

* **OneCopyAlways** `Spec => []OneCopyUntilSettled`. A command may be in a queue, in a
  call, in a session's hand, or in flight. `PlaceInv` says that no kind of place
  holds it twice and no two kinds hold it together, that what the queue or a
  call holds is unsettled, and that a command not created yet is nowhere. It needs
  `LiveInv`: each goroutine has at most one call that somebody waits for, of the
  kind its program counter stands at, so that a message in a result is not also in
  the session's hand. Every action then moves one message, or drops it.
* **ImplementsLifecycle** `Spec => LifecycleSpec`, the refinement that run
  `tcp_faults` checks. The stage of a command is read off its place (`StageIsMapped`,
  by OneCopyAlways), `CreatedInv` says that whatever is reported is about a command
  with a row, and `AiredInv` that every frame was transmitted before it was
  received. Each step is then one step of CommandLifecycle for the commands it
  moves, a loss, or a stutter.

* **MessagesAreKeptForTheirOwner** `Spec => []KeptForOwner`. `OwnerInv` says of every
  place a message can be in, that is of queues, calls, results, the session's hand and
  the inflight command, that it is its owner's; `CalmInv` that until the first fault
  every call is waited for. The rest is counting: a queue without repetitions
  that lacks a command is shorter than there are commands (`RoomForOneMore`), so
  with `RoomForAll` neither Enqueue nor Requeue drops one (`NoLoss`).
* **RowsTellTheOutcome** `Spec => []RowAgrees`. `RowInv` says, until the first
  fault, that a report on its way says what its session concluded or waits for
  (`ReportsAgree`), and that a row says what was so when it was written while what
  has changed since is being reported (`RowsAgree`).

`MqttDownlink_proofs`, for any devices, commands, connections, capacities, buffers,
batches and faults, from the assumptions of both of its modules:

* **TypeCorrect** `Spec => []TypeOK`. `TypeInv` adds who may issue which call
  (`CallInv`), that a call is given up only because of a fault (`AttemptInv`, which
  gives every pull its place in `reply`), which connections have a device and a
  packet (`BrokerInv`), and that the loop has a batch just when it publishes
  (`LoopInv`).
* **SessionsLast** `Spec => []SessionKept`, by `SessionInv`: a device that was never
  replaced has one connection only, so no hook of another can delete its session.
* **PublishedOnce** `Spec => []OnePlace`. `PlaceInv` says that queues, replies and batch
  hold no message twice (`OnceIn`, `NoRepeats`), that no two kinds of place hold it
  together, and that what is in a place is neither published nor answered
  (`Apart`). Each action moves one message or drops some. The third part of
  `OnePlace` is `NoLoss`: until the first fault every call is waited for
  (`NoFaultYet`), and a queue that lacks one of finitely many commands is shorter than
  their number (`ShorterThanSet`), so with `RoomForAll` it never has to drop one.
* **RowsAgree** `Spec => []RowAgrees`. A row gets its status from a report issued
  earlier; `Backed` is what made the report true, it holds of every report under way and
  of every row (`ReportInv`), and no step takes it back (`ResultsStay`). That an
  answer's command was received, or is among those answered before (`early`), comes from
  `MessageInv`, which follows answers through the hook and the channel; it is what
  keeps a row from saying acked because of a publish or a failed report. Until the first fault a row that still says queued after
  the publish has its report under way (`RowsCatchUp`).
* **ImplementsOnce** `Spec => OnceSpec`, the refinement run `mqtt_answers`
  checks.
  `Mapped` reads the stage off the places; a step is then one step of
  CommandLifecycle (`MovingIsAbstract`), a loss (`LosingIsAbstract`) or a stutter.

`TenantMembership_proofs`, for any sets of users, invitations and handlers, from
`NoUserAssumption`: **TypeCorrect**, **RolesAreBacked**, **AdministratorRemains** and
**InvitationsAreDecidedOnce**. The invariant is `TypeOK`, the two properties
themselves, and `RemovesAnother`: no handler under way removes the user it was
authorised for, so that a removal decided on a role that is still valid leaves
its author as an administrator. A decided invitation never changes
(`InvitationStep`), so it keeps backing the role it gave.

`DeviceRegistry_proofs`, for any devices, tokens and handlers: **TypeCorrect**,
**ApprovedOnly** (what a lookup, a cache entry or a handler knows was approved
when it was read: `KnownWasApproved`), **RetiredStaysRetired** and
**AdministratorsWithdraw**, which follow from the steps and `TypeOK` because a token
is minted once and each handler writes only what its own request asks for.
**SerialCacheIsExact** `Spec => []SerialUseIsExact`: `SerialInv` says, for a device whose
requests have neither overlapped nor gone on without an eviction since the Core started
(`disturbed`), that one handler at most works on it and that the
cache is exact even while it does (`Serial`), because what the handler has read is
still so when it evicts, saves or stores (`Steady`); `HeldIsMinted` says that no
handler holds a token that is yet to be generated.

`DeviceTelemetry_proofs`, for any devices, tenants, readings and faults:
**TypeCorrect** (`CallInv`: a call has a report), **ReportsBelongToOwners** (`SentOk`
says of every event with the UUID of a device that it is its owner's unless it has
none: an event of a Zigbee topic never has such a UUID, whichever device wrote it) and **DeletedStaysDeleted** (`GoneInv`: the
reports stored before a deletion have no call under way, so nothing can store them
again; presence of them is left only until the hook has run).
**AcknowledgedIsReadable** (`ReadInv`: a report whose call met no fault and whose
device is still there lacks only the parts its call has still to
store, and none once it was acknowledged) and **DoorShowsNewest**, which
is about a fold over a sequence of any length. On points sorted by time the fold has
a closed form, the last point of the type. The function that says so solves the
equation `FoldLeft` chooses its function by, so there is one; and two solutions agree,
because there is no first position at which they differ (`LeastNumber`, from the
library's well-founded relations). That a query returns each stored point is a
counting argument (`QueriesShowAll`), for which a message holds finitely many readings
(`ReadingAssumption`).

`Accounts_proofs`, for any users, browsers, requests, limits and clocks, users and
requests being finite: **TypeCorrect**, **LocksHold** and **WritersGoOn** (`AccountInv`: no lock
is longer than `Lockout` from now, so a further failure never shortens it; no CSRF
token is newer than the last one minted, so a new one differs), and
**AdministratorFromTheFirst** (`FirstInv`: a count is never ahead of the table,
and the administrators together with the registrations that counted nobody are at
most as many as the requests, or one on SQLite).
**GuessesStayBounded** `Spec => []GuessesBounded`, by `GuardInv`: the failures of a
key that the store counts and the attempts still being verified under that key, which
may add to them, are together fewer than the limit and the requests together, because
nobody is let in once the limit is reached; and by `NothingLost`: as long as a lock is
not shorter than the window, every wrong password of a window is still in the store,
pruned though it is, unless a right one or a restart has cleared it.

`Deployment_proofs` begins with ServiceConfig: **AcceptedIngressIsFit** and **CoreIsFit**
say that every environment that is accepted, and for the Core every one whatever,
gives settings the other modules' assumptions hold for. It carries that through every
restart (**RunsFit**, by `WasAccepted`: a process that runs has loaded its
environment) and proves **StoppedLogsNobodyIn**: `StopInv` says that only tracked
connections are authenticated, and that the shutdown goroutine acts only under a
cancelled context, which lasts until the process has ended; so a connection
tracked after `CloseActive` cannot reach the Core any more.
**MigrationsAreWhole** `Spec => []MigratedWhole`: `MigrationInv` says that
what a recorded file creates is in the committed database, and where the old
commands are (`Consistent`), and how far the image of an open transaction is from
it at each statement (`Transaction`), so that a migrator killed anywhere finds a
database it can go on from. **FramesAreInStep**
`Spec => []FramesInStep`: `LinksInv` describes a connection phase by phase (no key yet,
requested, answered, agreed), with the key either end has in each (`KeysInStep`),
and `NoncesCounted` that each end uses its own half of the nonces and numbers its
frames, so no nonce is used twice.

Every safety property that the passing runs check is proved. Only model-checked:
the liveness properties (`EventuallySettled`, `QueueIsPolled`, `AnswerIsRecorded`,
`Recovers`), since fairness and ENABLED are outside TLAPS's reach, and the two
disagreements of section 5, which are counterexamples.
No module uses a RECURSIVE operator.

## 5. Where code and documentation disagree

Shown by runs:

* `mqtt_takeover`: `docs/CONFIGURATION.md` lets a connected device publish under its
  topics. When it reconnects before its old connection is gone, the old one's
  OnDisconnect deletes the new session by client id, and every packet of the
  new connection is refused until it connects again.
* `registry_stale`: a status change or token refresh evicts the old token before
  it writes the row; an authentication in between caches the old token again,
  and it stays valid until the Core restarts.

`SessionKept` and `SerialUseIsExact` state what does hold around these.

Met while modelling, and kept in the modules as the code has them:

* Registry. RefreshToken, and DeleteDevice alike, takes every error of LoadConfig
  for a device without a token. When that SELECT fails nothing is evicted, the new
  token is written or the row deleted, and the old token stays valid until the Core
  restarts, although nothing ran beside the request (`registry_stale` with
  `DatabaseFails` and one handler finds this; `SerialUseIsExact` names it).
* Delivery. A downlink ACK is recorded as `acked`, which the API document says is
  only logged. A message without payload, which the API accepts, is not put back
  when its delivery fails, against the queue's interface. Requeue pushes the
  message and then sets the row to queued; another connection may confirm it in
  between, and the row of a confirmed command says queued for good (`RowAgrees`
  names exactly this). A key exchange closes the connection when a frame under
  the old key is still under way, for example the ACK of a command, which is then
  requeued and executed twice. Over MQTT any connected device may answer any
  command id, received or not, its own or not, and the row takes the answer
  (`RowAgrees` names exactly this with `early`).
* Telemetry. With the embedded broker every connected device may report for every
  Zigbee node: the broker lets it write the topics, and the report is filed under the
  node of the topic (`AttributedToOwner` covers registered devices only).
* Accounts. The login guard folds the case of names, and accounts do not: a right
  password of `Alice` deletes the failures and the lock of `alice` at the same address
  (`LockHolds` and `GuessesBounded` are stated per key for that reason). `db migrate` runs at each start of the deployment and on SQLite
  overwrites everybody's role in the legacy tenant with a column that is never
  written, the first administrator's included. The bound on guesses needs a
  window that is not longer than the lock, which the configuration does not ask for.
* Migration. An old database without the tables of external entities can never be
  upgraded, and on PostgreSQL the cast of old command ids in the second
  migration may fail for good. `serve` replaces `DB_SCHEMA_MODE` with `managed`,
  which `docs/CONFIGURATION.md` offers as a choice.
* Settings. A QoS of 256 is accepted, as 0. A blank CORE_TOKEN hides TOKEN, and a
  token with white space inside never matches. MQTT_MODE defaults to external
  where the document says embedded. The payload limit is 64 KiB in the code and
  1 MiB in the API document. READ_TIMEOUT closes a silent connection long before
  IDLE_TIMEOUT can. Another BASE_TOPIC leaves DOWNLINK_TOPIC and the
  subscriptions as they were.
* Shutdown. `serve` returns without waiting for its server's graceful shutdown.

## 6. Plan

Done: every module of section 2 with its runs. What remains worth doing, in this order:

1. Proofs: lemmas towards liveness that are within reach, that is, bounds on what each
   fair step still has to do (a command is transmitted at most once per connection).
2. Models: the client of an external MQTT broker and its reconnection; the deadline
   by which presence turns a device offline; the layout of frames.

Not modelled, and not planned: external entities (nothing outside tests calls
them), permission changes by an administrator and UpdateTenant (no caller, or no
effect on anything modelled), OAuth tables, logging, health and metrics pages,
connection pools, frame headers and checksums (single functions with unit
tests), the paho client's own reconnection, the user interface, generated bindings,
captcha and cryptographic libraries.
