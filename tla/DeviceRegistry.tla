---------------------------- MODULE DeviceRegistry ----------------------------
(***************************************************************************)
(* Device identity in the Core: the devices table, the token cache in      *)
(* front of it (device_registry_service.go) and the handlers that use      *)
(* them: the management API (web/v1/devices.go) and the ingress RPCs       *)
(* AuthenticateDevice and RegisterDevice (web/ingress/service.go).         *)
(*                                                                         *)
(* Every handler runs in a goroutine of its own and takes no lock: it is   *)
(* split at each access to the table or to the cache.                      *)
(***************************************************************************)
EXTENDS Naturals

CONSTANTS
  Device,         \* device uuids: the hash of a serial number and a MAC address
  Token,          \* the tokens generateSecureToken can return
  Handler,        \* requests that can run at the same time
  DatabaseFails,  \* whether an access to the tables may fail
  NoDevice,
  NoToken

ASSUME NoDeviceAssumption == NoDevice \notin Device
ASSUME NoTokenAssumption  == NoToken \notin Token
ASSUME FailureAssumption  == DatabaseFails \in BOOLEAN

VARIABLES
  row,        \* devices.auth_status and devices.token
  cache,      \* DeviceRegistryService.tokenCache
  minted,     \* tokens generated so far
  job,        \* what each handler is doing
  approved,   \* history: devices that were approved or provisioned once
  accepted,   \* history: devices AuthenticateDevice answered ACCEPTED for
  disturbed   \* history: devices two handlers worked on at the same time, or of
              \* which one worked without the row it had failed to read

tables == <<row, cache, minted>>
history == <<approved, accepted, disturbed>>
vars == <<tables, job, history>>

AuthStatus == {"authenticated", "refused", "pending"}
Absent == [st |-> "absent", tok |-> NoToken]

Updates == {"approve", "revoke", "unblock"}
Changes == Updates \cup {"refresh", "delete"}
Creations == {"register", "provision"}

Idle == [op |-> "none", dev |-> NoDevice, tok |-> NoToken, stage |-> "idle"]
Job ==
  {Idle} \cup
  [op: Changes, dev: Device, tok: Token \cup {NoToken}, stage: {"load", "evict", "save"}] \cup
  [op: Creations, dev: Device, tok: {NoToken}, stage: {"insert"}] \cup
  [op: {"auth"}, dev: {NoDevice}, tok: Token, stage: {"lookup"}] \cup
  [op: {"auth"}, dev: Device, tok: Token, stage: {"store", "describe"}]

\* The columns have the values the schema allows, and a token is in use only
\* after it was generated and by one device only (devices.token is UNIQUE).
TypeOK ==
  /\ row \in [Device -> {Absent} \cup [st: AuthStatus, tok: minted \cup {NoToken}]]
  /\ \A d, e \in Device : row[d].tok = row[e].tok => d = e \/ row[d].tok = NoToken
  /\ cache \in [Token -> Device \cup {NoDevice}]
  /\ minted \subseteq Token
  /\ job \in [Handler -> Job]
  /\ approved \subseteq Device
  /\ accepted \subseteq Device
  /\ disturbed \subseteq Device

Init ==
  /\ row = [d \in Device |-> Absent]
  /\ cache = [t \in Token |-> NoDevice]
  /\ minted = {}
  /\ job = [h \in Handler |-> Idle]
  /\ approved = {}
  /\ accepted = {}
  /\ disturbed = {}

Exists(d) == row[d] # Absent

\* The device a job is about; a token is looked up for the device that has it.
About(j) ==
  IF j.dev # NoDevice THEN {j.dev} ELSE {d \in Device : j.tok # NoToken /\ row[d].tok = j.tok}

\* Handler h takes on the job j.
Start(h, j) ==
  /\ job[h] = Idle
  /\ job' = [job EXCEPT ![h] = j]
  /\ disturbed' = disturbed \cup
       {d \in About(j) : \E g \in Handler : d \in About(job[g])}

Advance(h, stage) == job' = [job EXCEPT ![h].stage = stage]
Finish(h) == job' = [job EXCEPT ![h] = Idle]
At(h, ops, stage) == job[h].op \in ops /\ job[h].stage = stage

-----------------------------------------------------------------------------
(* The management API: approve, revoke, unblock, token/refresh, DELETE.    *)

\* ensureDeviceInScope: a device that is not there is answered 404.
CheckScope(h, op, d) ==
  /\ Exists(d)
  /\ Start(h, [op |-> op, dev |-> d, tok |-> NoToken, stage |-> "load"])
  /\ UNCHANGED <<tables, approved, accepted>>

\* LoadConfig.  An update of a device that is gone by now is answered 404;
\* RefreshToken and DeleteDevice go on without a token to forget, as they do
\* when the SELECT fails (DatabaseError).
Load(h) ==
  /\ At(h, Changes, "load")
  /\ IF ~Exists(job[h].dev) /\ job[h].op \in Updates
       THEN Finish(h)
       ELSE job' = [job EXCEPT ![h].tok = row[job[h].dev].tok, ![h].stage = "evict"]
  /\ UNCHANGED <<tables, history>>

\* Faulty variant, to test the properties: the loaded token stays cached.
BugEvict(h) ==
  /\ At(h, Changes, "evict")
  /\ Advance(h, "save")
  /\ UNCHANGED <<tables, history>>

\* tokenCache.Delete of the loaded token.
Evict(h) ==
  /\ At(h, Changes, "evict")
  /\ cache' = [t \in Token |-> IF t = job[h].tok THEN NoDevice ELSE cache[t]]
  /\ Advance(h, "save")
  /\ UNCHANGED <<row, minted, history>>

\* A token nobody has seen before.
Mint(t) == t \in Token \ minted /\ minted' = minted \cup {t}

\* An UPDATE of the row of a device; without a row it changes nothing.
Write(d, r) == row' = [row EXCEPT ![d] = IF Exists(d) THEN r ELSE @]

\* Faulty variant: approving keeps the token that was loaded.
BugApprove(h) ==
  /\ At(h, {"approve"}, "save")
  /\ \E t \in Token :
       /\ IF job[h].tok = NoToken THEN Mint(t) ELSE t = job[h].tok /\ UNCHANGED minted
       /\ Write(job[h].dev, [st |-> "authenticated", tok |-> t])
  /\ approved' = approved \cup {job[h].dev}
  /\ Finish(h)
  /\ UNCHANGED <<cache, accepted, disturbed>>

\* SaveMetadata with a new token.
Approve(h) ==
  /\ At(h, {"approve"}, "save")
  /\ \E t \in Token : Mint(t) /\ Write(job[h].dev, [st |-> "authenticated", tok |-> t])
  /\ approved' = approved \cup {job[h].dev}
  /\ Finish(h)
  /\ UNCHANGED <<cache, accepted, disturbed>>

\* SaveMetadata without a token: RejectDevice and UnblockDevice.
Withdraw(h) ==
  /\ At(h, {"revoke", "unblock"}, "save")
  /\ Write(job[h].dev, [st |-> IF job[h].op = "revoke" THEN "refused" ELSE "pending",
                        tok |-> NoToken])
  /\ Finish(h)
  /\ UNCHANGED <<cache, minted, history>>

\* Faulty variant: the new token may be one that is already in use.
BugRefresh(h) ==
  /\ At(h, {"refresh"}, "save")
  /\ \E t \in Token : Write(job[h].dev, [row[job[h].dev] EXCEPT !.tok = t])
  /\ Finish(h)
  /\ UNCHANGED <<cache, minted, history>>

\* UpdateToken, whatever the status of the device is.
Refresh(h) ==
  /\ At(h, {"refresh"}, "save")
  /\ \E t \in Token : Mint(t) /\ Write(job[h].dev, [row[job[h].dev] EXCEPT !.tok = t])
  /\ Finish(h)
  /\ UNCHANGED <<cache, history>>

\* DestroyDevice.
Destroy(h) ==
  /\ At(h, {"delete"}, "save")
  /\ row' = [row EXCEPT ![job[h].dev] = Absent]
  /\ Finish(h)
  /\ UNCHANGED <<cache, minted, history>>

-----------------------------------------------------------------------------
(* Creating devices: POST /devices and the ingress RPC RegisterDevice.     *)

\* The device is looked up first.  If it is there nothing changes: the API
\* answers 409, the RPC describes the device.
CheckAbsent(h, op, d) ==
  /\ ~Exists(d)
  /\ Start(h, [op |-> op, dev |-> d, tok |-> NoToken, stage |-> "insert"])
  /\ UNCHANGED <<tables, approved, accepted>>

\* Faulty variant: the INSERT replaces the row that is there.
BugInsertPending(h) ==
  /\ At(h, {"register"}, "insert")
  /\ row' = [row EXCEPT ![job[h].dev] = [st |-> "pending", tok |-> NoToken]]
  /\ Finish(h)
  /\ UNCHANGED <<cache, minted, history>>

\* RegisterDevice's INSERT; devices.uuid is the PRIMARY KEY.
InsertPending(h) ==
  /\ At(h, {"register"}, "insert")
  /\ row' = [row EXCEPT ![job[h].dev] =
               IF Exists(job[h].dev) THEN @ ELSE [st |-> "pending", tok |-> NoToken]]
  /\ Finish(h)
  /\ UNCHANGED <<cache, minted, history>>

\* ProvisionDevice's INSERT.
InsertAuthenticated(h) ==
  /\ At(h, {"provision"}, "insert")
  /\ \E t \in Token :
       /\ Mint(t)
       /\ row' = [row EXCEPT ![job[h].dev] =
                    IF Exists(job[h].dev) THEN @ ELSE [st |-> "authenticated", tok |-> t]]
  /\ approved' = approved \cup {job[h].dev}
  /\ Finish(h)
  /\ UNCHANGED <<cache, accepted, disturbed>>

-----------------------------------------------------------------------------
(* AuthenticateDevice.                                                     *)

\* tokenCache.Load
Authenticate(h, t) ==
  /\ t \in minted
  /\ Start(h, [op |-> "auth", dev |-> cache[t], tok |-> t,
               stage |-> IF cache[t] = NoDevice THEN "lookup" ELSE "describe"])
  /\ UNCHANGED <<tables, approved, accepted>>

\* Faulty variant: the status of the device is not looked at.
BugLookUp(h) ==
  /\ At(h, {"auth"}, "lookup")
  /\ \E d \in Device :
       /\ row[d].tok = job[h].tok
       /\ job' = [job EXCEPT ![h].dev = d, ![h].stage = "store"]
  /\ UNCHANGED <<tables, history>>

\* GetDeviceByToken: an unknown token, or one of a device that is not
\* authenticated, is turned down.
LookUp(h) ==
  /\ At(h, {"auth"}, "lookup")
  /\ \/ \E d \in Device :
          /\ row[d] = [st |-> "authenticated", tok |-> job[h].tok]
          /\ job' = [job EXCEPT ![h].dev = d, ![h].stage = "store"]
     \/ /\ \A d \in Device : row[d] # [st |-> "authenticated", tok |-> job[h].tok]
        /\ Finish(h)
  /\ UNCHANGED <<tables, history>>

\* tokenCache.Store
Remember(h) ==
  /\ At(h, {"auth"}, "store")
  /\ cache' = [cache EXCEPT ![job[h].tok] = job[h].dev]
  /\ Advance(h, "describe")
  /\ UNCHANGED <<row, minted, history>>

\* GetDeviceMetadata, then ACCEPTED; an error if the device is gone.
Describe(h) ==
  /\ At(h, {"auth"}, "describe")
  /\ accepted' = accepted \cup {d \in {job[h].dev} : Exists(d)}
  /\ Finish(h)
  /\ UNCHANGED <<tables, approved, disturbed>>

-----------------------------------------------------------------------------
\* The access of handler h to a table fails.  The request ends with an error,
\* except that RefreshToken and DeleteDevice take a failed LoadConfig for a
\* device that has no token to forget.
DatabaseError(h) ==
  /\ DatabaseFails
  /\ job[h].stage \in {"load", "save", "insert", "lookup", "describe"}
  /\ IF At(h, {"refresh", "delete"}, "load")
       THEN /\ Advance(h, "evict")
            /\ disturbed' = disturbed \cup {job[h].dev}
       ELSE /\ Finish(h)
            /\ UNCHANGED disturbed
  /\ UNCHANGED <<tables, approved, accepted>>

\* The Core restarts: the cache and the running handlers are gone, and with the
\* cache all that was disturbed in it.
Restart ==
  /\ cache' = [t \in Token |-> NoDevice]
  /\ job' = [h \in Handler |-> Idle]
  /\ disturbed' = {}
  /\ UNCHANGED <<row, minted, approved, accepted>>

Next ==
  \/ \E h \in Handler :
       \/ \E d \in Device :
            \/ \E op \in Changes : CheckScope(h, op, d)
            \/ \E op \in Creations : CheckAbsent(h, op, d)
       \/ Load(h) \/ Evict(h)
       \/ Approve(h) \/ Withdraw(h) \/ Refresh(h) \/ Destroy(h)
       \/ InsertPending(h) \/ InsertAuthenticated(h)
       \/ \E t \in Token : Authenticate(h, t)
       \/ LookUp(h) \/ Remember(h) \/ Describe(h)
       \/ DatabaseError(h)
  \/ Restart

Spec == Init /\ [][Next]_vars

-----------------------------------------------------------------------------
(* Properties.                                                             *)

Busy(d) == \E h \in Handler : d \in About(job[h])

\* A cached token is the token in the row of an authenticated device.
Current(t) == row[cache[t]] = [st |-> "authenticated", tok |-> t]

\* As long as the requests about one device come one after the other and none of
\* them has to refresh or delete it without its row, the cache never outlives a
\* change of that device: Authenticate answers what the table says, whatever goes
\* on with other devices, whichever other access to the tables fails, and afresh
\* after every restart of the Core.
SerialUseIsExact ==
  \A t \in Token :
    cache[t] \in Device /\ cache[t] \notin disturbed /\ ~Busy(cache[t]) => Current(t)

\* A token no row, no cache entry and no running Authenticate knows any more.
Retired(t) ==
  /\ t \in minted
  /\ cache[t] = NoDevice
  /\ \A d \in Device : row[d].tok # t
  /\ \A h \in Handler : At(h, {"auth"}, "store") => job[h].tok # t

\* A retired token never becomes valid again: no handler that loaded the row
\* earlier writes it back, whatever the order of the concurrent UPDATEs.
RetiredForGood == [][\A t \in Token : Retired(t) => Retired(t)']_vars

\* AuthenticateDevice accepts no device that nobody has approved or provisioned:
\* RefreshToken gives pending and refused devices a token too, but that token
\* does not let them in.
AcceptedWasApproved == accepted \subseteq approved

\* The registration a device sends again, in whatever race with the management
\* API, never takes an authenticated device's status or token away: only a
\* request of an administrator about that device does.
OnlyAdminsWithdraw ==
  [][\A d \in Device :
       row[d].st = "authenticated" /\ row'[d] # row[d] =>
         \E h \in Handler : At(h, Changes, "save") /\ job[h].dev = d]_vars

\* inter/device_manager_inter.go:43 has Authenticate verify that a token is valid,
\* and line 10 there names a token that is invalid or expired as its error: when
\* no request is running, no token that was replaced or revoked is in the cache.
WithdrawnIsRejected ==
  (\A h \in Handler : job[h] = Idle) =>
    \A t \in Token : cache[t] \in Device => Current(t)
=============================================================================
