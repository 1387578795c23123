------------------------ MODULE DeviceRegistry_proofs ------------------------
(***************************************************************************)
(* Theorems about the device registry, for any sets of devices, tokens and *)
(* handlers, and any number of restarts.                                   *)
(***************************************************************************)
EXTENDS DeviceRegistry, TLAPS

\* What a handler that has come to a stage holds: a device to write, or a token
\* that Authenticate was called with.
LEMMA StageHolds ==
  ASSUME TypeOK, NEW h \in Handler
  PROVE  /\ job[h] \in Job
         /\ \A ops \in {Changes, Updates, {"approve"}, {"refresh"}, {"delete"}, {"revoke", "unblock"}},
               s \in {"load", "evict", "save"} :
              At(h, ops, s) => job[h] \in [op: Changes, dev: Device, tok: Token \cup {NoToken},
                                           stage: {"load", "evict", "save"}]
         /\ \A ops \in {Creations, {"register"}, {"provision"}} :
              At(h, ops, "insert") => job[h].dev \in Device
         /\ At(h, {"auth"}, "lookup") =>
              job[h] = [op |-> "auth", dev |-> NoDevice, tok |-> job[h].tok, stage |-> "lookup"]
              /\ job[h].tok \in Token
         /\ \A s \in {"store", "describe"} :
              At(h, {"auth"}, s) => job[h] \in [op: {"auth"}, dev: Device, tok: Token,
                                                stage: {"store", "describe"}]
BY DEF TypeOK, Job, Idle, At, Changes, Updates, Creations

\* A handler that has read the row of its device ends, or holds the row's token.
LEMMA LoadStep ==
  ASSUME TypeOK, NEW h \in Handler, Load(h)
  PROVE  \/ Finish(h)
         \/ \E op \in Changes, d \in Device, u \in Token \cup {NoToken} :
              job' = [job EXCEPT ![h] = [op |-> op, dev |-> d, tok |-> u, stage |-> "evict"]]
<1>1. job[h] \in [op: Changes, dev: Device, tok: Token \cup {NoToken}, stage: {"load", "evict", "save"}]
  BY StageHolds DEF Load
<1>2. PICK op \in Changes, d \in Device, t \in Token \cup {NoToken}, s \in {"load", "evict", "save"} :
        job[h] = [op |-> op, dev |-> d, tok |-> t, stage |-> s]
  BY <1>1
<1>3. PICK u \in Token \cup {NoToken} : u = row[d].tok
  BY DEF TypeOK, Absent
<1>4. CASE job' = [job EXCEPT ![h].tok = row[job[h].dev].tok, ![h].stage = "evict"]
  <2>1. job[h].dev = d
    BY <1>2
  <2>2. job' = [job EXCEPT ![h].tok = u, ![h].stage = "evict"]
    BY <1>3, <1>4, <2>1
  <2>3. [job[h] EXCEPT !.tok = u] = [op |-> op, dev |-> d, tok |-> u, stage |-> s]
    BY <1>2
  <2>4. job \in [Handler -> Job]
    BY DEF TypeOK
  <2>5. job' = [[job EXCEPT ![h] = [op |-> op, dev |-> d, tok |-> u, stage |-> s]]
                  EXCEPT ![h].stage = "evict"]
    BY <1>2, <2>2, <2>3, <2>4
  <2>6. job' = [job EXCEPT ![h] = [op |-> op, dev |-> d, tok |-> u, stage |-> "evict"]]
    BY <1>2, <2>2, <2>3, <2>4, <2>5
  <2> QED BY <2>6
<1> QED BY <1>4 DEF Load

\* Such a handler is no Authenticate.
LEMMA LoadKeepsOperation ==
  ASSUME TypeOK, NEW h \in Handler, Load(h)
  PROVE  \A g \in Handler : job'[g] = job[g] \/ job'[g].op # "auth"
BY LoadStep DEF Finish, Idle, TypeOK, Changes, Updates

\* A failed access to the tables changes none of them: the handler ends, or it
\* goes on without the row of its device, which then counts as disturbed.
LEMMA ErrorStep ==
  ASSUME TypeOK, NEW h \in Handler, DatabaseError(h)
  PROVE  /\ UNCHANGED <<row, cache, minted, approved, accepted>>
         /\ \/ Finish(h) /\ UNCHANGED disturbed
            \/ \E op \in Changes, d \in Device, u \in Token \cup {NoToken} :
                 /\ job[h] = [op |-> op, dev |-> d, tok |-> u, stage |-> "load"]
                 /\ job' = [job EXCEPT ![h] = [op |-> op, dev |-> d, tok |-> u, stage |-> "evict"]]
                 /\ disturbed' = disturbed \cup {d}
<1>1. UNCHANGED <<row, cache, minted, approved, accepted>>
  BY DEF DatabaseError, tables
<1>2. CASE ~At(h, {"refresh", "delete"}, "load")
  BY <1>1, <1>2 DEF DatabaseError
<1>3. CASE At(h, {"refresh", "delete"}, "load")
  <2>1. At(h, Changes, "load")
    BY <1>3 DEF At, Changes
  <2>2. job[h] \in [op: Changes, dev: Device, tok: Token \cup {NoToken}, stage: {"load", "evict", "save"}]
    BY <2>1, StageHolds
  <2>3. PICK op \in Changes, d \in Device, u \in Token \cup {NoToken} :
          job[h] = [op |-> op, dev |-> d, tok |-> u, stage |-> "load"]
    BY <2>1, <2>2 DEF At
  <2>4. /\ job' = [job EXCEPT ![h] = [job[h] EXCEPT !.stage = "evict"]]
        /\ disturbed' = disturbed \cup {job[h].dev}
    BY <1>3 DEF DatabaseError, Advance
  <2>5. [job[h] EXCEPT !.stage = "evict"] = [op |-> op, dev |-> d, tok |-> u, stage |-> "evict"]
    BY <2>3
  <2>6. job[h].dev = d
    BY <2>3
  <2> QED BY <1>1, <2>3, <2>4, <2>5, <2>6
<1> QED BY <1>2, <1>3

\* Such a handler is no Authenticate either.
LEMMA ErrorKeepsOperation ==
  ASSUME TypeOK, NEW h \in Handler, DatabaseError(h)
  PROVE  \A g \in Handler : job'[g] = job[g] \/ job'[g].op # "auth"
BY ErrorStep DEF Finish, Idle, TypeOK, Changes, Updates

\* A freshly generated token goes to one row, and the table keeps its type and
\* its UNIQUE tokens.
LEMMA FreshTokenFits ==
  ASSUME TypeOK, NEW d \in Device, NEW t, Mint(t), NEW st \in AuthStatus,
         row' = [row EXCEPT ![d] = [st |-> st, tok |-> t]]
  PROVE  /\ row' \in [Device -> {Absent} \cup [st: AuthStatus, tok: minted' \cup {NoToken}]]
         /\ \A a, b \in Device : row'[a].tok = row'[b].tok => a = b \/ row'[a].tok = NoToken
         /\ minted' \subseteq Token
<1>1. t \in Token /\ t \notin minted /\ minted' = minted \cup {t} /\ t # NoToken
  BY NoTokenAssumption DEF Mint
<1>2. \A a \in Device : row[a] \in {Absent} \cup [st: AuthStatus, tok: minted \cup {NoToken}]
  BY DEF TypeOK
<1>3. \A a \in Device : row[a].tok \in minted \cup {NoToken}
  BY <1>2 DEF Absent
<1>4. \A a \in Device : row'[a] = IF a = d THEN [st |-> st, tok |-> t] ELSE row[a]
  BY DEF TypeOK
<1>5. \A a \in Device : row'[a] \in {Absent} \cup [st: AuthStatus, tok: minted' \cup {NoToken}]
  BY <1>1, <1>2, <1>4
<1>6. row' \in [Device -> {Absent} \cup [st: AuthStatus, tok: minted' \cup {NoToken}]]
  BY <1>5 DEF TypeOK
<1>7. ASSUME NEW a \in Device, NEW b \in Device, row'[a].tok = row'[b].tok
      PROVE  a = b \/ row'[a].tok = NoToken
  BY <1>1, <1>3, <1>4, <1>7 DEF TypeOK
<1> QED BY <1>1, <1>6, <1>7 DEF TypeOK

\* A row without a token, or no row, fits too.
LEMMA ClearedRowFits ==
  ASSUME TypeOK, NEW d \in Device, NEW r,
         r \in {Absent} \cup [st: AuthStatus, tok: {NoToken}],
         row' = [row EXCEPT ![d] = r], minted' = minted
  PROVE  /\ row' \in [Device -> {Absent} \cup [st: AuthStatus, tok: minted' \cup {NoToken}]]
         /\ \A a, b \in Device : row'[a].tok = row'[b].tok => a = b \/ row'[a].tok = NoToken
<1>1. r.tok = NoToken
  BY DEF Absent
<1>2. \A a \in Device : row'[a] = IF a = d THEN r ELSE row[a]
  BY DEF TypeOK
<1>3. \A a, b \in Device : row'[a].tok = row'[b].tok => a = b \/ row'[a].tok = NoToken
  BY <1>1, <1>2 DEF TypeOK
<1>4. \A a \in Device : row'[a] \in {Absent} \cup [st: AuthStatus, tok: minted \cup {NoToken}]
  BY <1>2 DEF TypeOK
<1> QED BY <1>3, <1>4 DEF TypeOK

TableFits ==
  /\ row \in [Device -> {Absent} \cup [st: AuthStatus, tok: minted \cup {NoToken}]]
  /\ \A d, e \in Device : row[d].tok = row[e].tok => d = e \/ row[d].tok = NoToken
  /\ minted \subseteq Token

\* The table, in every step.
LEMMA TableStep == TypeOK /\ [Next]_vars => TableFits'
<1> SUFFICES ASSUME TypeOK, [Next]_vars
             PROVE  TableFits'
  OBVIOUS
<1> USE DEF TableFits
<1>0. CASE UNCHANGED <<row, minted>>
  BY <1>0 DEF TypeOK
<1>1. ASSUME NEW h \in Handler, Approve(h)
      PROVE  TableFits'
  <2>1. job[h].dev \in Device
    BY <1>1, StageHolds DEF Approve
  <2>2. PICK t \in Token : Mint(t) /\ Write(job[h].dev, [st |-> "authenticated", tok |-> t])
    BY <1>1 DEF Approve
  <2>3. CASE Exists(job[h].dev)
    <3>1. row' = [row EXCEPT ![job[h].dev] = [st |-> "authenticated", tok |-> t]]
      BY <2>2, <2>3 DEF Write
    <3> QED BY <2>1, <2>2, <3>1, FreshTokenFits DEF AuthStatus
  <2>4. CASE ~Exists(job[h].dev)
    BY <2>1, <2>2, <2>4 DEF Write, TypeOK, Mint
  <2> QED BY <2>3, <2>4
<1>2. ASSUME NEW h \in Handler, Refresh(h)
      PROVE  TableFits'
  <2>1. job[h].dev \in Device
    BY <1>2, StageHolds DEF Refresh
  <2>2. PICK t \in Token : Mint(t) /\ Write(job[h].dev, [row[job[h].dev] EXCEPT !.tok = t])
    BY <1>2 DEF Refresh
  <2>3. CASE Exists(job[h].dev)
    <3>1. row[job[h].dev] \in [st: AuthStatus, tok: minted \cup {NoToken}]
      BY <2>1, <2>3 DEF TypeOK, Exists
    <3>2. [row[job[h].dev] EXCEPT !.tok = t] = [st |-> row[job[h].dev].st, tok |-> t]
      BY <3>1
    <3>3. row' = [row EXCEPT ![job[h].dev] = [st |-> row[job[h].dev].st, tok |-> t]]
      BY <2>2, <2>3, <3>2 DEF Write
    <3>4. row[job[h].dev].st \in AuthStatus
      BY <3>1
    <3> QED BY <2>1, <2>2, <3>3, <3>4, FreshTokenFits
  <2>4. CASE ~Exists(job[h].dev)
    BY <2>1, <2>2, <2>4 DEF Write, TypeOK, Mint
  <2> QED BY <2>3, <2>4
<1>3. ASSUME NEW h \in Handler, InsertAuthenticated(h)
      PROVE  TableFits'
  <2>1. job[h].dev \in Device
    BY <1>3, StageHolds DEF InsertAuthenticated
  <2>2. PICK t \in Token :
          /\ Mint(t)
          /\ row' = [row EXCEPT ![job[h].dev] =
                       IF Exists(job[h].dev) THEN @ ELSE [st |-> "authenticated", tok |-> t]]
    BY <1>3 DEF InsertAuthenticated
  <2>3. CASE ~Exists(job[h].dev)
    <3>1. row' = [row EXCEPT ![job[h].dev] = [st |-> "authenticated", tok |-> t]]
      BY <2>2, <2>3
    <3> QED BY <2>1, <2>2, <3>1, FreshTokenFits DEF AuthStatus
  <2>4. CASE Exists(job[h].dev)
    BY <2>1, <2>2, <2>4 DEF TypeOK, Mint
  <2> QED BY <2>3, <2>4
<1>4. ASSUME NEW h \in Handler, Withdraw(h) \/ Destroy(h) \/ InsertPending(h)
      PROVE  TableFits'
  <2>1. job[h].dev \in Device
    BY <1>4, StageHolds DEF Withdraw, Destroy, InsertPending
  <2>2. UNCHANGED minted
    BY <1>4 DEF Withdraw, Destroy, InsertPending
  <2>3. \/ UNCHANGED row
        \/ \E r \in {Absent} \cup [st: AuthStatus, tok: {NoToken}] :
             row' = [row EXCEPT ![job[h].dev] = r]
    BY <1>4, <2>1 DEF Withdraw, Destroy, InsertPending, Write, AuthStatus, TypeOK
  <2> QED BY <1>0, <2>1, <2>2, <2>3, ClearedRowFits DEF TypeOK
<1>5. ASSUME NEW h \in Handler,
             \/ \E d \in Device :
                  \/ \E op \in Changes : CheckScope(h, op, d)
                  \/ \E op \in Creations : CheckAbsent(h, op, d)
             \/ Load(h) \/ Evict(h)
             \/ \E t \in Token : Authenticate(h, t)
             \/ LookUp(h) \/ Remember(h) \/ Describe(h) \/ DatabaseError(h)
      PROVE  UNCHANGED <<row, minted>>
  BY <1>5 DEF CheckScope, CheckAbsent, Load, Evict, Authenticate, LookUp, Remember, Describe,
              DatabaseError, tables
<1>6. CASE Restart \/ UNCHANGED vars
  BY <1>0, <1>6 DEF Restart, vars, tables
<1> QED BY <1>0, <1>1, <1>2, <1>3, <1>4, <1>5, <1>6 DEF Next

\* The handlers, in every step: a handler that goes on keeps a device it may
\* write or a token it was called with.
LEMMA JobStep == TypeOK /\ [Next]_vars => job' \in [Handler -> Job]
<1> SUFFICES ASSUME TypeOK, [Next]_vars
             PROVE  job' \in [Handler -> Job]
  OBVIOUS
<1>0. Idle \in Job /\ job \in [Handler -> Job]
  BY DEF Job, TypeOK
<1>1. ASSUME NEW h \in Handler, NEW j \in Job, job' = [job EXCEPT ![h] = j]
      PROVE  job' \in [Handler -> Job]
  BY <1>0, <1>1
<1>2. ASSUME NEW h \in Handler, Finish(h)
      PROVE  job' \in [Handler -> Job]
  BY <1>0, <1>1, <1>2 DEF Finish
<1>3. ASSUME NEW h \in Handler, NEW d \in Device,
             \/ \E op \in Changes : CheckScope(h, op, d)
             \/ \E op \in Creations : CheckAbsent(h, op, d)
      PROVE  job' \in [Handler -> Job]
  BY <1>1, <1>3 DEF CheckScope, CheckAbsent, Start, Job
<1>4. ASSUME NEW h \in Handler, Load(h)
      PROVE  job' \in [Handler -> Job]
  <2>1. ASSUME NEW op \in Changes, NEW d \in Device, NEW u \in Token \cup {NoToken},
               job' = [job EXCEPT ![h] = [op |-> op, dev |-> d, tok |-> u, stage |-> "evict"]]
        PROVE  job' \in [Handler -> Job]
    BY <1>1, <2>1 DEF Job
  <2> QED BY <1>2, <1>4, <2>1, LoadStep
<1>5. ASSUME NEW h \in Handler, Evict(h)
      PROVE  job' \in [Handler -> Job]
  <2>1. job[h] \in [op: Changes, dev: Device, tok: Token \cup {NoToken}, stage: {"load", "evict", "save"}]
    BY <1>5, StageHolds DEF Evict
  <2>2. job' = [job EXCEPT ![h] = [job[h] EXCEPT !.stage = "save"]]
    BY <1>5 DEF Evict, Advance
  <2>3. [job[h] EXCEPT !.stage = "save"] \in Job
    BY <2>1 DEF Job
  <2> QED BY <1>1, <2>2, <2>3
<1>6. ASSUME NEW h \in Handler,
             \/ Approve(h) \/ Withdraw(h) \/ Refresh(h) \/ Destroy(h)
             \/ InsertPending(h) \/ InsertAuthenticated(h) \/ Describe(h)
      PROVE  job' \in [Handler -> Job]
  BY <1>2, <1>6 DEF Approve, Withdraw, Refresh, Destroy, InsertPending, InsertAuthenticated, Describe
<1>7. ASSUME NEW h \in Handler, NEW t \in Token, Authenticate(h, t)
      PROVE  job' \in [Handler -> Job]
  <2> DEFINE j == [op |-> "auth", dev |-> cache[t], tok |-> t,
                   stage |-> IF cache[t] = NoDevice THEN "lookup" ELSE "describe"]
  <2>1. job' = [job EXCEPT ![h] = j]
    BY <1>7 DEF Authenticate, Start
  <2>2. j \in Job
    BY <1>7 DEF TypeOK, Job
  <2> QED BY <1>1, <2>1, <2>2
<1>8. ASSUME NEW h \in Handler, LookUp(h)
      PROVE  job' \in [Handler -> Job]
  <2>1. job[h] = [op |-> "auth", dev |-> NoDevice, tok |-> job[h].tok, stage |-> "lookup"]
        /\ job[h].tok \in Token
    BY <1>8, StageHolds DEF LookUp
  <2>2. ASSUME NEW d \in Device, job' = [job EXCEPT ![h].dev = d, ![h].stage = "store"]
        PROVE  job' \in [Handler -> Job]
    <3> DEFINE j == [op |-> "auth", dev |-> d, tok |-> job[h].tok, stage |-> "store"]
    <3>1. job' = [job EXCEPT ![h] = j]
      BY <1>0, <2>1, <2>2
    <3>2. j \in Job
      BY <2>1 DEF Job
    <3> QED BY <1>1, <3>1, <3>2
  <2> QED BY <1>2, <1>8, <2>2 DEF LookUp
<1>9. ASSUME NEW h \in Handler, Remember(h)
      PROVE  job' \in [Handler -> Job]
  <2>1. job[h] \in [op: {"auth"}, dev: Device, tok: Token, stage: {"store", "describe"}]
    BY <1>9, StageHolds DEF Remember
  <2>2. job' = [job EXCEPT ![h] = [job[h] EXCEPT !.stage = "describe"]]
    BY <1>9 DEF Remember, Advance
  <2>3. [job[h] EXCEPT !.stage = "describe"] \in Job
    BY <2>1 DEF Job
  <2> QED BY <1>1, <2>2, <2>3
<1>10. CASE Restart \/ UNCHANGED vars
  BY <1>0, <1>10 DEF Restart, vars
<1>11. ASSUME NEW h \in Handler, DatabaseError(h)
       PROVE  job' \in [Handler -> Job]
  <2>1. ASSUME NEW op \in Changes, NEW d \in Device, NEW u \in Token \cup {NoToken},
               job' = [job EXCEPT ![h] = [op |-> op, dev |-> d, tok |-> u, stage |-> "evict"]]
        PROVE  job' \in [Handler -> Job]
    BY <1>1, <2>1 DEF Job
  <2> QED BY <1>2, <1>11, <2>1, ErrorStep
<1> QED BY <1>3, <1>4, <1>5, <1>6, <1>7, <1>8, <1>9, <1>10, <1>11 DEF Next

\* The cache and the histories, in every step.
LEMMA CacheStep ==
  TypeOK /\ [Next]_vars =>
    /\ cache' \in [Token -> Device \cup {NoDevice}]
    /\ approved' \subseteq Device /\ accepted' \subseteq Device /\ disturbed' \subseteq Device
<1> SUFFICES ASSUME TypeOK, [Next]_vars
             PROVE  /\ cache' \in [Token -> Device \cup {NoDevice}]
                    /\ approved' \subseteq Device /\ accepted' \subseteq Device
                    /\ disturbed' \subseteq Device
  OBVIOUS
<1> USE DEF TypeOK
<1>0. CASE UNCHANGED <<cache, history>>
  BY <1>0 DEF history
<1>1. ASSUME NEW h \in Handler, NEW j, j.dev \in Device \cup {NoDevice},
             Start(h, j), UNCHANGED <<cache, approved, accepted>>
      PROVE  /\ cache' \in [Token -> Device \cup {NoDevice}]
             /\ approved' \subseteq Device /\ accepted' \subseteq Device /\ disturbed' \subseteq Device
  <2>1. About(j) \subseteq Device
    BY <1>1 DEF About
  <2> QED BY <1>1, <2>1 DEF Start
<1>2. ASSUME NEW h \in Handler, NEW d \in Device,
             \/ \E op \in Changes : CheckScope(h, op, d)
             \/ \E op \in Creations : CheckAbsent(h, op, d)
      PROVE  /\ cache' \in [Token -> Device \cup {NoDevice}]
             /\ approved' \subseteq Device /\ accepted' \subseteq Device /\ disturbed' \subseteq Device
  BY <1>1, <1>2 DEF CheckScope, CheckAbsent, tables
<1>3. ASSUME NEW h \in Handler, NEW t \in Token, Authenticate(h, t)
      PROVE  /\ cache' \in [Token -> Device \cup {NoDevice}]
             /\ approved' \subseteq Device /\ accepted' \subseteq Device /\ disturbed' \subseteq Device
  BY <1>1, <1>3 DEF Authenticate, tables
<1>4. ASSUME NEW h \in Handler, Approve(h) \/ InsertAuthenticated(h)
      PROVE  /\ cache' = cache /\ accepted' = accepted /\ disturbed' = disturbed
             /\ approved' \subseteq Device
  <2>1. job[h].dev \in Device
    BY <1>4, StageHolds DEF Approve, InsertAuthenticated
  <2> QED BY <1>4, <2>1 DEF Approve, InsertAuthenticated
<1>5. ASSUME NEW h \in Handler, Describe(h)
      PROVE  /\ cache' = cache /\ approved' = approved /\ disturbed' = disturbed
             /\ accepted' \subseteq Device
  <2>1. job[h].dev \in Device
    BY <1>5, StageHolds DEF Describe
  <2> QED BY <1>5, <2>1 DEF Describe, tables
<1>6. ASSUME NEW h \in Handler, Evict(h)
      PROVE  cache' \in [Token -> Device \cup {NoDevice}] /\ UNCHANGED history
  BY <1>6 DEF Evict
<1>7. ASSUME NEW h \in Handler, Remember(h)
      PROVE  cache' \in [Token -> Device \cup {NoDevice}] /\ UNCHANGED history
  <2>1. job[h].dev \in Device /\ job[h].tok \in Token
    BY <1>7, StageHolds DEF Remember
  <2> QED BY <1>7, <2>1 DEF Remember
<1>8. ASSUME NEW h \in Handler,
             Load(h) \/ Withdraw(h) \/ Refresh(h) \/ Destroy(h) \/ InsertPending(h) \/ LookUp(h)
      PROVE  UNCHANGED <<cache, history>>
  BY <1>8 DEF Load, Withdraw, Refresh, Destroy, InsertPending, LookUp, tables
<1>9. CASE Restart
  BY <1>9 DEF Restart
<1>10. CASE UNCHANGED vars
  BY <1>0, <1>10 DEF vars, tables
<1>11. ASSUME NEW h \in Handler, DatabaseError(h)
       PROVE  UNCHANGED <<cache, approved, accepted>> /\ disturbed' \subseteq Device
  BY <1>11, ErrorStep
<1> QED
  BY <1>0, <1>2, <1>3, <1>4, <1>5, <1>6, <1>7, <1>8, <1>9, <1>10, <1>11 DEF Next, history

\* The devices table keeps the values the schema allows and its UNIQUE tokens, and
\* the cache, the handlers and the histories keep their types.
THEOREM TypeCorrect == Spec => []TypeOK
<1>1. Init => TypeOK
  BY DEF Init, TypeOK, Absent, Job
<1>2. TypeOK /\ [Next]_vars => TypeOK'
  BY TableStep, JobStep, CacheStep DEF TypeOK, TableFits
<1> QED BY <1>1, <1>2, PTL DEF Spec

-----------------------------------------------------------------------------
\* A device that is authenticated, cached, or on its way through Authenticate was
\* approved: the strengthening that makes AcceptedWasApproved inductive.
KnownWasApproved ==
  /\ \A d \in Device : row[d].st = "authenticated" => d \in approved
  /\ \A t \in Token : cache[t] \in Device => cache[t] \in approved
  /\ \A h \in Handler :
       At(h, {"auth"}, "store") \/ At(h, {"auth"}, "describe") => job[h].dev \in approved
  /\ AcceptedWasApproved

\* AuthenticateDevice accepts no device nobody has approved or provisioned, in
\* whatever order its accesses and those of the management API come.
THEOREM ApprovedOnly == Spec => []AcceptedWasApproved
<1>1. Init => KnownWasApproved
  BY NoDeviceAssumption
  DEF Init, KnownWasApproved, Absent, At, Idle, AcceptedWasApproved
<1>2. TypeOK /\ KnownWasApproved /\ [Next]_vars => KnownWasApproved'
  <2> SUFFICES ASSUME TypeOK, KnownWasApproved, [Next]_vars
               PROVE  KnownWasApproved'
    OBVIOUS
  <2>0. approved \subseteq approved'
    BY DEF Next, CheckScope, CheckAbsent, Load, Evict, Approve, Withdraw, Refresh, Destroy,
           InsertPending, InsertAuthenticated, Authenticate, LookUp, Remember, Describe,
           DatabaseError, Restart, vars, history
  <2>1. ASSUME NEW h \in Handler, Approve(h) \/ InsertAuthenticated(h)
        PROVE  KnownWasApproved'
    <3>1. job[h].dev \in Device /\ approved' = approved \cup {job[h].dev}
      BY <2>1, StageHolds DEF Approve, InsertAuthenticated
    <3>2. \A d \in Device : d # job[h].dev => row'[d] = row[d]
      BY <2>1 DEF Approve, InsertAuthenticated, Write, TypeOK
    <3>3. Finish(h) /\ UNCHANGED <<cache, accepted>>
      BY <2>1 DEF Approve, InsertAuthenticated
    <3> QED BY <3>1, <3>2, <3>3
            DEF KnownWasApproved, TypeOK, Finish, Idle, At, AcceptedWasApproved
  <2>2. ASSUME NEW h \in Handler,
               Withdraw(h) \/ Refresh(h) \/ Destroy(h) \/ InsertPending(h)
        PROVE  KnownWasApproved'
    <3>1. job[h].dev \in Device /\ Finish(h) /\ UNCHANGED <<cache, approved, accepted>>
      BY <2>2, StageHolds DEF Withdraw, Refresh, Destroy, InsertPending, history
    <3>2. \A d \in Device : row'[d].st = "authenticated" => row[d].st = "authenticated"
      <4>1. CASE Refresh(h)
        <5>1. ASSUME Exists(job[h].dev)
              PROVE  row[job[h].dev] \in [st: AuthStatus, tok: minted \cup {NoToken}]
          BY <3>1, <5>1 DEF TypeOK, Exists
        <5> QED BY <3>1, <4>1, <5>1 DEF Refresh, Write, TypeOK
      <4>2. CASE Withdraw(h)
        BY <3>1, <4>2 DEF Withdraw, Write, TypeOK
      <4>3. CASE Destroy(h) \/ InsertPending(h)
        BY <3>1, <4>3 DEF Destroy, InsertPending, TypeOK, Absent
      <4> QED BY <2>2, <4>1, <4>2, <4>3
    <3> QED BY <3>1, <3>2 DEF KnownWasApproved, TypeOK, Finish, Idle, At, AcceptedWasApproved
  <2>3. ASSUME NEW h \in Handler, LookUp(h)
        PROVE  KnownWasApproved'
    <3>1. UNCHANGED <<row, cache, approved, accepted>>
      BY <2>3 DEF LookUp, tables, history
    <3>2. CASE Finish(h)
      BY <3>1, <3>2 DEF KnownWasApproved, TypeOK, Finish, Idle, At, AcceptedWasApproved
    <3>3. ASSUME NEW d \in Device, row[d] = [st |-> "authenticated", tok |-> job[h].tok],
                 job' = [job EXCEPT ![h].dev = d, ![h].stage = "store"]
          PROVE  KnownWasApproved'
      <4>1. d \in approved
        BY <3>3 DEF KnownWasApproved
      <4>2. job[h] = [op |-> "auth", dev |-> NoDevice, tok |-> job[h].tok, stage |-> "lookup"]
        BY <2>3, StageHolds DEF LookUp
      <4>3. job' = [job EXCEPT ![h] = [op |-> "auth", dev |-> d, tok |-> job[h].tok,
                                       stage |-> "store"]]
        BY <3>3, <4>2 DEF TypeOK
      <4> QED BY <3>1, <4>1, <4>3 DEF KnownWasApproved, TypeOK, At, AcceptedWasApproved
    <3> QED BY <2>3, <3>2, <3>3 DEF LookUp
  <2>4. ASSUME NEW h \in Handler, NEW t \in Token, Authenticate(h, t)
        PROVE  KnownWasApproved'
    BY <2>4, NoDeviceAssumption
    DEF KnownWasApproved, TypeOK, Authenticate, Start, At, AcceptedWasApproved, tables
  <2>5. ASSUME NEW h \in Handler, Remember(h)
        PROVE  KnownWasApproved'
    <3>1. job[h] \in [op: {"auth"}, dev: Device, tok: Token, stage: {"store", "describe"}]
      BY <2>5, StageHolds DEF Remember
    <3>2. job[h].dev \in approved
      BY <2>5 DEF KnownWasApproved, Remember
    <3> QED BY <2>5, <3>1, <3>2
            DEF KnownWasApproved, TypeOK, Remember, Advance, At, AcceptedWasApproved, history
  <2>6. ASSUME NEW h \in Handler, Describe(h)
        PROVE  KnownWasApproved'
    BY <2>6 DEF KnownWasApproved, TypeOK, Describe, Finish, Idle, At, AcceptedWasApproved, tables
  <2>7. ASSUME NEW h \in Handler, NEW d \in Device,
               \/ \E op \in Changes : CheckScope(h, op, d)
               \/ \E op \in Creations : CheckAbsent(h, op, d)
        PROVE  KnownWasApproved'
    BY <2>7 DEF KnownWasApproved, TypeOK, CheckScope, CheckAbsent, Start, At,
                AcceptedWasApproved, tables, Changes, Updates, Creations
  <2>8. ASSUME NEW h \in Handler, Load(h)
        PROVE  KnownWasApproved'
    <3>1. job[h].op # "auth"
      BY <2>8 DEF Load, At, Changes, Updates
    <3>2. UNCHANGED <<row, cache, approved, accepted>>
      BY <2>8 DEF Load, tables, history
    <3>3. \A g \in Handler : job'[g] = job[g] \/ job'[g].op # "auth"
      BY <2>8, LoadKeepsOperation
    <3> QED BY <3>2, <3>3 DEF KnownWasApproved, At, AcceptedWasApproved
  <2>9. ASSUME NEW h \in Handler, Evict(h)
        PROVE  KnownWasApproved'
    <3>1. \A t \in Token : cache'[t] \in {cache[t], NoDevice}
      BY <2>9 DEF Evict
    <3>2. \A g \in Handler : job'[g] = job[g] \/ job'[g].op # "auth"
      BY <2>9 DEF Evict, Advance, At, Changes, Updates, TypeOK
    <3>3. UNCHANGED <<row, approved, accepted>>
      BY <2>9 DEF Evict, history
    <3> QED BY <3>1, <3>2, <3>3, NoDeviceAssumption DEF KnownWasApproved, At, AcceptedWasApproved
  <2>10. CASE Restart
    BY <2>10, NoDeviceAssumption
    DEF KnownWasApproved, Restart, At, Idle, AcceptedWasApproved
  <2>11. CASE UNCHANGED vars
    BY <2>11 DEF KnownWasApproved, vars, tables, history, At, AcceptedWasApproved
  <2>12. ASSUME NEW h \in Handler, DatabaseError(h)
         PROVE  KnownWasApproved'
    <3>1. UNCHANGED <<row, cache, approved, accepted>>
      BY <2>12, ErrorStep
    <3>2. \A g \in Handler : job'[g] = job[g] \/ job'[g].op # "auth"
      BY <2>12, ErrorKeepsOperation
    <3> QED BY <3>1, <3>2 DEF KnownWasApproved, At, AcceptedWasApproved
  <2> QED
    BY <2>1, <2>2, <2>3, <2>4, <2>5, <2>6, <2>7, <2>8, <2>9, <2>10, <2>11, <2>12 DEF Next
<1>3. KnownWasApproved => AcceptedWasApproved
  BY DEF KnownWasApproved
<1> QED BY <1>1, <1>2, <1>3, TypeCorrect, PTL DEF Spec

-----------------------------------------------------------------------------
\* No handler writes a retired token back, whatever row it loaded before: tokens
\* that are written are fresh, and cached only by who found them in a row.
THEOREM RetiredStaysRetired == Spec => RetiredForGood
<1>1. TypeOK /\ [Next]_vars => [\A t \in Token : Retired(t) => Retired(t)']_vars
  <2> SUFFICES ASSUME TypeOK, Next, NEW t \in Token, Retired(t)
               PROVE  Retired(t)'
    BY DEF vars, tables, history, Retired, At
  <2>0. t # NoToken
    BY NoTokenAssumption
  <2>1. t \in minted'
    BY DEF Next, CheckScope, CheckAbsent, Load, Evict, Approve, Withdraw, Refresh, Destroy, Mint,
           InsertPending, InsertAuthenticated, Authenticate, LookUp, Remember, Describe,
           DatabaseError, Restart, vars, tables, Retired
  <2>2. \A d \in Device : row'[d].tok # t
    <3>1. ASSUME NEW h \in Handler, Approve(h) \/ Refresh(h) \/ InsertAuthenticated(h)
          PROVE  \A d \in Device : row'[d].tok # t
      <4>1. CASE Refresh(h)
        <5>1. PICK u \in Token : Mint(u) /\ Write(job[h].dev, [row[job[h].dev] EXCEPT !.tok = u])
          BY <4>1 DEF Refresh
        <5>2. u # t
          BY <5>1 DEF Mint, Retired
        <5>3. job[h].dev \in Device
          BY <4>1, StageHolds DEF Refresh
        <5>4. Exists(job[h].dev) =>
                row[job[h].dev] \in [st: AuthStatus, tok: minted \cup {NoToken}]
          BY <5>3 DEF TypeOK, Exists
        <5> QED BY <5>1, <5>2, <5>3, <5>4 DEF Write, Retired, TypeOK
      <4>2. CASE Approve(h)
        <5>1. PICK u \in Token : Mint(u) /\ Write(job[h].dev, [st |-> "authenticated", tok |-> u])
          BY <4>2 DEF Approve
        <5> QED BY <5>1 DEF Mint, Write, Retired, TypeOK
      <4>3. CASE InsertAuthenticated(h)
        <5>1. PICK u \in Token :
                /\ Mint(u)
                /\ row' = [row EXCEPT ![job[h].dev] =
                             IF Exists(job[h].dev) THEN @ ELSE [st |-> "authenticated", tok |-> u]]
          BY <4>3 DEF InsertAuthenticated
        <5> QED BY <5>1 DEF Mint, Retired, TypeOK
      <4> QED BY <3>1, <4>1, <4>2, <4>3
    <3>2. ASSUME NEW h \in Handler, Withdraw(h) \/ Destroy(h) \/ InsertPending(h)
          PROVE  \A d \in Device : row'[d].tok # t
      BY <2>0, <3>2 DEF Withdraw, Destroy, InsertPending, Write, Absent, Retired, TypeOK
    <3>3. \/ UNCHANGED row
          \/ \E h \in Handler : \/ Approve(h) \/ Refresh(h) \/ InsertAuthenticated(h)
                                \/ Withdraw(h) \/ Destroy(h) \/ InsertPending(h)
      BY DEF Next, CheckScope, CheckAbsent, Load, Evict, Authenticate, LookUp, Remember, Describe,
             DatabaseError, Restart, tables
    <3> QED BY <3>1, <3>2, <3>3 DEF Retired
  <2>3. cache'[t] = NoDevice
    <3>1. ASSUME NEW h \in Handler, Remember(h)
          PROVE  cache'[t] = NoDevice
      BY <3>1 DEF Remember, Retired, TypeOK
    <3>2. ASSUME NEW h \in Handler, Evict(h)
          PROVE  cache'[t] = NoDevice
      BY <3>2 DEF Evict, Retired
    <3>3. CASE Restart
      BY <3>3 DEF Restart
    <3>4. UNCHANGED cache \/ Restart \/ \E h \in Handler : Remember(h) \/ Evict(h)
      BY DEF Next, CheckScope, CheckAbsent, Load, Approve, Withdraw, Refresh, Destroy,
             InsertPending, InsertAuthenticated, Authenticate, LookUp, Describe, DatabaseError,
             tables
    <3> QED BY <3>1, <3>2, <3>3, <3>4 DEF Retired
  <2>4. ASSUME NEW h \in Handler, At(h, {"auth"}, "store")'
        PROVE  job'[h].tok # t
    <3>1. ASSUME NEW g \in Handler, LookUp(g)
          PROVE  job'[h].tok # t
      <4>1. ASSUME NEW d \in Device, row[d] = [st |-> "authenticated", tok |-> job[g].tok],
                   job' = [job EXCEPT ![g].dev = d, ![g].stage = "store"]
            PROVE  job'[h].tok # t
        <5>1. job[g].tok # t
          BY <4>1 DEF Retired
        <5>2. job[g] = [op |-> "auth", dev |-> NoDevice, tok |-> job[g].tok, stage |-> "lookup"]
          BY <3>1, StageHolds DEF LookUp
        <5>3. job' = [job EXCEPT ![g] = [op |-> "auth", dev |-> d, tok |-> job[g].tok,
                                         stage |-> "store"]]
          BY <4>1, <5>2 DEF TypeOK
        <5> QED BY <2>4, <5>1, <5>3 DEF Retired, At, TypeOK
      <4>2. CASE Finish(g)
        BY <2>4, <4>2 DEF Finish, Idle, Retired, At, TypeOK
      <4> QED BY <3>1, <4>1, <4>2 DEF LookUp
    <3>2. ASSUME NEW g \in Handler, Load(g)
          PROVE  job'[h].tok # t
      <4>1. job'[h] = job[h] \/ job'[h].op # "auth"
        BY <3>2, LoadKeepsOperation
      <4> QED BY <2>4, <4>1 DEF Retired, At
    <3>3. ASSUME NEW g \in Handler, Evict(g) \/ Remember(g)
          PROVE  job'[h].tok # t
      <4>1. PICK s \in {"save", "describe"} : job' = [job EXCEPT ![g].stage = s]
        BY <3>3 DEF Evict, Remember, Advance
      <4>2. job[g] \in Job
        BY DEF TypeOK
      <4>3. [job[g] EXCEPT !.stage = s].stage = s
        BY <4>2 DEF Job, Idle
      <4>4. job'[h] = job[h] \/ job'[h].stage = s
        BY <4>1, <4>3 DEF TypeOK
      <4> QED BY <2>4, <4>4 DEF Retired, At
    <3>4. ASSUME NEW g \in Handler, Finish(g)
          PROVE  job'[h].tok # t
      BY <2>4, <3>4 DEF Finish, Idle, Retired, At, TypeOK
    <3>5. ASSUME NEW g \in Handler, NEW j, Start(g, j), j.stage # "store"
          PROVE  job'[h].tok # t
      BY <2>4, <3>5 DEF Start, Retired, At, TypeOK
    <3>6. ASSUME NEW g \in Handler,
                 \/ \E d \in Device :
                      \/ \E op \in Changes : CheckScope(g, op, d)
                      \/ \E op \in Creations : CheckAbsent(g, op, d)
                 \/ \E u \in Token : Authenticate(g, u)
          PROVE  job'[h].tok # t
      BY <3>5, <3>6 DEF CheckScope, CheckAbsent, Authenticate
    <3>7. ASSUME NEW g \in Handler,
                 \/ Approve(g) \/ Withdraw(g) \/ Refresh(g) \/ Destroy(g)
                 \/ InsertPending(g) \/ InsertAuthenticated(g) \/ Describe(g)
          PROVE  Finish(g)
      BY <3>7 DEF Approve, Withdraw, Refresh, Destroy, InsertPending, InsertAuthenticated, Describe
    <3>8. CASE Restart
      BY <2>4, <3>8 DEF Restart, Idle, At
    <3>9. ASSUME NEW g \in Handler, DatabaseError(g)
          PROVE  job'[h].tok # t
      <4>1. job'[h] = job[h] \/ job'[h].op # "auth"
        BY <3>9, ErrorKeepsOperation
      <4> QED BY <2>4, <4>1 DEF Retired, At
    <3> QED BY <3>1, <3>2, <3>3, <3>4, <3>6, <3>7, <3>8, <3>9 DEF Next
  <2> QED BY <2>1, <2>2, <2>3, <2>4 DEF Retired
<1> QED BY <1>1, TypeCorrect, PTL DEF Spec, RetiredForGood

\* A device's own registration never takes its status or token away: only a
\* request of an administrator about that device changes an authenticated row.
THEOREM AdministratorsWithdraw == Spec => OnlyAdminsWithdraw
<1>1. TypeOK /\ [Next]_vars =>
        [\A d \in Device :
           row[d].st = "authenticated" /\ row'[d] # row[d] =>
             \E h \in Handler : At(h, Changes, "save") /\ job[h].dev = d]_vars
  <2> SUFFICES ASSUME TypeOK, Next, NEW d \in Device,
                      row[d].st = "authenticated", row'[d] # row[d]
               PROVE  \E h \in Handler : At(h, Changes, "save") /\ job[h].dev = d
    OBVIOUS
  <2>1. Exists(d)
    BY DEF Exists, Absent
  <2>2. ASSUME NEW h \in Handler, InsertPending(h) \/ InsertAuthenticated(h)
        PROVE  FALSE
    <3>1. CASE job[h].dev = d
      BY <2>1, <2>2, <3>1 DEF InsertPending, InsertAuthenticated, TypeOK
    <3>2. CASE job[h].dev # d
      BY <2>2, <3>2 DEF InsertPending, InsertAuthenticated, TypeOK
    <3> QED BY <3>1, <3>2
  <2>3. ASSUME NEW h \in Handler, Approve(h) \/ Withdraw(h) \/ Refresh(h) \/ Destroy(h)
        PROVE  At(h, Changes, "save") /\ job[h].dev = d
    BY <2>3 DEF Approve, Withdraw, Refresh, Destroy, Write, TypeOK, At, Changes, Updates
  <2>4. \E h \in Handler : \/ Approve(h) \/ Withdraw(h) \/ Refresh(h) \/ Destroy(h)
                           \/ InsertPending(h) \/ InsertAuthenticated(h)
    BY DEF Next, CheckScope, CheckAbsent, Load, Evict, Authenticate, LookUp, Remember, Describe,
           DatabaseError, Restart, tables
  <2> QED BY <2>2, <2>3, <2>4
<1> QED BY <1>1, TypeCorrect, PTL DEF Spec, OnlyAdminsWithdraw

-----------------------------------------------------------------------------
(* The token cache and requests that come one after the other.             *)

\* What is known of a request about d while no other request about d has run.
Steady(d, j) ==
  j.dev = d =>
    /\ j.op \in Changes /\ j.stage = "evict" => j.tok = row[d].tok
    /\ j.op \in Changes /\ j.stage = "save" => \A t \in Token : cache[t] # d
    /\ j.op = "auth" /\ j.stage = "store" => row[d] = [st |-> "authenticated", tok |-> j.tok]

\* At most one request is about d, and the cache knows of d what the table says.
Serial(d) ==
  /\ \A g, h \in Handler : d \in About(job[g]) /\ d \in About(job[h]) => g = h
  /\ \A t \in Token : cache[t] = d => row[d] = [st |-> "authenticated", tok |-> t]
  /\ \A h \in Handler : Steady(d, job[h])

\* Handlers hold no token that is yet to be generated.
HeldIsMinted == \A h \in Handler : job[h].tok \in minted \cup {NoToken}

\* The requests about a device that were never two at a time keep its cache entry
\* exact, also while they run: the strengthening that makes SerialUseIsExact
\* inductive.
SerialInv == HeldIsMinted /\ \A d \in Device \ disturbed : Serial(d)

\* A step of handler h that leaves the table alone.
LEMMA ReadingStep ==
  ASSUME TypeOK, NEW d \in Device, Serial(d), NEW h \in Handler, NEW j,
         job' = [job EXCEPT ![h] = j], row' = row,
         d \in About(j) => d \in About(job[h]) \/ \A g \in Handler : d \notin About(job[g]),
         \A t \in Token : cache'[t] = d => row[d] = [st |-> "authenticated", tok |-> t],
         (\A t \in Token : cache'[t] = d => cache[t] = d) \/ d \in About(job[h]),
         Steady(d, j)'
  PROVE  Serial(d)'
<1>1. \A g \in Handler : job'[g] = IF g = h THEN j ELSE job[g]
  BY DEF TypeOK
<1>2. \A k : About(k)' = About(k)
  BY DEF About
<1>3. ASSUME NEW f \in Handler, NEW g \in Handler, d \in About(job'[f]), d \in About(job'[g])
      PROVE  f = g
  BY <1>1, <1>3 DEF Serial
<1>4. \A f, g \in Handler : d \in About(job[f])' /\ d \in About(job[g])' => f = g
  BY <1>2, <1>3
<1>5. \A t \in Token : cache'[t] = d => row'[d] = [st |-> "authenticated", tok |-> t]
  OBVIOUS
<1>6. ASSUME NEW g \in Handler, g # h
      PROVE  Steady(d, job[g])'
  <2>1. job'[g] = job[g] /\ Steady(d, job[g])
    BY <1>1, <1>6 DEF Serial
  <2>2. CASE \A t \in Token : cache'[t] = d => cache[t] = d
    BY <2>1, <2>2 DEF Steady
  <2>3. CASE d \in About(job[h])
    <3>1. d \notin About(job[g])
      BY <1>6, <2>3 DEF Serial
    <3>2. job[g].dev # d
      BY <3>1, NoDeviceAssumption DEF About
    <3> QED BY <2>1, <3>2 DEF Steady
  <2> QED BY <2>2, <2>3
<1>7. Steady(d, job[h])'
  BY <1>1
<1> QED BY <1>4, <1>5, <1>6, <1>7 DEF Serial

\* The step with which handler h has done with the device e: it writes the row of
\* e, without a token or with one nobody has seen.
LEMMA WritingStep ==
  ASSUME TypeOK, HeldIsMinted, NEW d \in Device, Serial(d), NEW h \in Handler,
         NEW e \in Device, job[h].dev = e, Finish(h), cache' = cache,
         \A a \in Device : a # e => row'[a] = row[a],
         row'[e] = row[e] \/ row'[e].tok \notin minted,
         d = e => row'[e] = row[e] \/ \A t \in Token : cache[t] # e
  PROVE  Serial(d)'
<1>1. \A g \in Handler : job'[g] = IF g = h THEN Idle ELSE job[g]
  BY DEF TypeOK, Finish
<1>2. About(Idle)' = {}
  BY DEF About, Idle
<1>3. e \in About(job[h])
  BY NoDeviceAssumption DEF About
<1>4. ASSUME NEW g \in Handler, d \in About(job[g])'
      PROVE  g # h /\ d \in About(job[g])
  <2>1. g # h /\ job'[g] = job[g]
    BY <1>1, <1>2, <1>4
  <2>2. CASE job[g].dev # NoDevice
    BY <1>4, <2>1, <2>2 DEF About
  <2>3. CASE job[g].dev = NoDevice
    <3>1. job[g].tok # NoToken /\ row'[d].tok = job[g].tok
      BY <1>4, <2>1, <2>3 DEF About
    <3>2. job[g].tok \in minted
      BY <3>1 DEF HeldIsMinted
    <3>3. row'[d] = row[d]
      BY <3>1, <3>2
    <3> QED BY <2>1, <2>3, <3>1, <3>3 DEF About
  <2> QED BY <2>2, <2>3
<1>5. \A f, g \in Handler : d \in About(job[f])' /\ d \in About(job[g])' => f = g
  BY <1>4 DEF Serial
<1>6. \A t \in Token : cache'[t] = d => row'[d] = [st |-> "authenticated", tok |-> t]
  BY DEF Serial
<1>7. ASSUME NEW g \in Handler
      PROVE  Steady(d, job[g])'
  <2>1. CASE g = h
    BY <1>1, <2>1, NoDeviceAssumption DEF Steady, Idle
  <2>2. CASE g # h
    <3>1. job'[g] = job[g] /\ Steady(d, job[g])
      BY <1>1, <2>2 DEF Serial
    <3>2. CASE job[g].dev = d
      <4>1. d # e
        BY <1>3, <2>2, <3>2, NoDeviceAssumption DEF Serial, About
      <4> QED BY <3>1, <4>1 DEF Steady
    <3>3. CASE job[g].dev # d
      BY <3>1, <3>3 DEF Steady
    <3> QED BY <3>2, <3>3
  <2> QED BY <2>1, <2>2
<1> QED BY <1>5, <1>6, <1>7 DEF Serial

\* A handler holds tokens that were generated before.
LEMMA HeldStep == TypeOK /\ HeldIsMinted /\ [Next]_vars => HeldIsMinted'
<1> SUFFICES ASSUME TypeOK, HeldIsMinted, [Next]_vars
             PROVE  HeldIsMinted'
  OBVIOUS
<1>0. minted \subseteq minted'
  BY DEF Next, CheckScope, CheckAbsent, Load, Evict, Approve, Withdraw, Refresh, Destroy, Mint,
         InsertPending, InsertAuthenticated, Authenticate, LookUp, Remember, Describe,
         DatabaseError, Restart, vars, tables
<1>1. ASSUME NEW h \in Handler, NEW j, job' = [job EXCEPT ![h] = j], j.tok \in minted \cup {NoToken}
      PROVE  HeldIsMinted'
  BY <1>0, <1>1 DEF HeldIsMinted, TypeOK
<1>2. ASSUME NEW h \in Handler, Finish(h)
      PROVE  HeldIsMinted'
  BY <1>1, <1>2 DEF Finish, Idle
<1>3. ASSUME NEW h \in Handler, NEW j, Start(h, j), j.tok \in minted \cup {NoToken}
      PROVE  HeldIsMinted'
  BY <1>1, <1>3 DEF Start
<1>4. ASSUME NEW h \in Handler, NEW d \in Device,
             \/ \E op \in Changes : CheckScope(h, op, d)
             \/ \E op \in Creations : CheckAbsent(h, op, d)
      PROVE  HeldIsMinted'
  BY <1>3, <1>4 DEF CheckScope, CheckAbsent
<1>5. ASSUME NEW h \in Handler, NEW t \in Token, Authenticate(h, t)
      PROVE  HeldIsMinted'
  BY <1>3, <1>5 DEF Authenticate
<1>6. ASSUME NEW h \in Handler, Load(h)
      PROVE  HeldIsMinted'
  <2>1. CASE Finish(h)
    BY <1>2, <2>1
  <2>2. CASE ~Finish(h)
    <3>1. job' = [job EXCEPT ![h].tok = row[job[h].dev].tok, ![h].stage = "evict"]
      BY <1>6, <2>2 DEF Load
    <3>2. job[h].dev \in Device
      BY <1>6, StageHolds DEF Load
    <3>3. row[job[h].dev].tok \in minted \cup {NoToken}
      BY <3>2 DEF TypeOK, Absent
    <3>4. job[h] \in Job /\ h \in DOMAIN job
      BY DEF TypeOK
    <3>5. job'[h] = [[job[h] EXCEPT !.tok = row[job[h].dev].tok] EXCEPT !.stage = "evict"]
          /\ \A g \in Handler : g # h => job'[g] = job[g]
      BY <3>1, <3>4 DEF TypeOK
    <3>6. job'[h].tok = row[job[h].dev].tok
      BY <3>4, <3>5 DEF Job, Idle
    <3> QED BY <1>0, <3>3, <3>5, <3>6 DEF HeldIsMinted
  <2> QED BY <2>1, <2>2
<1>7. ASSUME NEW h \in Handler, Evict(h) \/ Remember(h)
      PROVE  HeldIsMinted'
  <2>1. PICK s : job' = [job EXCEPT ![h] = [job[h] EXCEPT !.stage = s]]
    BY <1>7 DEF Evict, Remember, Advance
  <2>2. [job[h] EXCEPT !.stage = s].tok = job[h].tok
    BY DEF TypeOK, Job, Idle
  <2> QED BY <1>1, <2>1, <2>2 DEF HeldIsMinted
<1>8. ASSUME NEW h \in Handler, LookUp(h)
      PROVE  HeldIsMinted'
  <2>1. job[h] = [op |-> "auth", dev |-> NoDevice, tok |-> job[h].tok, stage |-> "lookup"]
    BY <1>8, StageHolds DEF LookUp
  <2>2. ASSUME NEW d \in Device, job' = [job EXCEPT ![h].dev = d, ![h].stage = "store"]
        PROVE  HeldIsMinted'
    <3>1. job' = [job EXCEPT ![h] = [op |-> "auth", dev |-> d, tok |-> job[h].tok, stage |-> "store"]]
      BY <2>1, <2>2 DEF TypeOK
    <3> QED BY <1>1, <3>1 DEF HeldIsMinted
  <2> QED BY <1>2, <1>8, <2>2 DEF LookUp
<1>9. ASSUME NEW h \in Handler,
             \/ Approve(h) \/ Withdraw(h) \/ Refresh(h) \/ Destroy(h)
             \/ InsertPending(h) \/ InsertAuthenticated(h) \/ Describe(h)
      PROVE  HeldIsMinted'
  BY <1>2, <1>9 DEF Approve, Withdraw, Refresh, Destroy, InsertPending, InsertAuthenticated, Describe
<1>10. CASE Restart
  BY <1>10 DEF Restart, Idle, HeldIsMinted
<1>11. CASE UNCHANGED vars
  BY <1>11 DEF vars, tables, HeldIsMinted
<1>12. ASSUME NEW h \in Handler, DatabaseError(h)
       PROVE  HeldIsMinted'
  <2>1. ASSUME NEW op \in Changes, NEW d \in Device, NEW u \in Token \cup {NoToken},
               job[h] = [op |-> op, dev |-> d, tok |-> u, stage |-> "load"],
               job' = [job EXCEPT ![h] = [op |-> op, dev |-> d, tok |-> u, stage |-> "evict"]]
        PROVE  HeldIsMinted'
    <3>1. u \in minted \cup {NoToken}
      BY <2>1 DEF HeldIsMinted
    <3> QED BY <1>1, <2>1, <3>1
  <2> QED BY <1>2, <1>12, <2>1, ErrorStep
<1> QED BY <1>4, <1>5, <1>6, <1>7, <1>8, <1>9, <1>10, <1>11, <1>12 DEF Next

\* A row is written by the request that holds its device, after the cache has
\* forgotten the device's token.
LEMMA SavingStep ==
  ASSUME TypeOK, HeldIsMinted, NEW d \in Device, Serial(d), NEW h \in Handler,
         Approve(h) \/ Withdraw(h) \/ Refresh(h) \/ Destroy(h)
  PROVE  Serial(d)'
<1>1. job[h].dev \in Device /\ Finish(h) /\ cache' = cache
  BY StageHolds DEF Approve, Withdraw, Refresh, Destroy
<1>2. At(h, Changes, "save")
  BY DEF Approve, Withdraw, Refresh, Destroy, At, Changes, Updates
<1> DEFINE e == job[h].dev
<1>3. \A a \in Device : a # e => row'[a] = row[a]
  BY DEF Approve, Withdraw, Refresh, Destroy, Write, TypeOK
<1>4. row'[e] = row[e] \/ row'[e].tok \notin minted
  <2>1. CASE Approve(h)
    BY <1>1, <2>1 DEF Approve, Write, Mint, TypeOK
  <2>2. CASE Withdraw(h) \/ Destroy(h)
    BY <1>1, <2>2, NoTokenAssumption DEF Withdraw, Destroy, Write, Absent, TypeOK
  <2>3. CASE Refresh(h)
    <3>1. PICK t \in Token : Mint(t) /\ Write(e, [row[e] EXCEPT !.tok = t])
      BY <2>3 DEF Refresh
    <3>2. CASE Exists(e)
      <4>1. row[e] \in [st: AuthStatus, tok: minted \cup {NoToken}]
        BY <1>1, <3>2 DEF Exists, TypeOK
      <4>2. row'[e] = [row[e] EXCEPT !.tok = t]
        BY <1>1, <3>1, <3>2 DEF Write, TypeOK
      <4> QED BY <3>1, <4>1, <4>2 DEF Mint
    <3>3. CASE ~Exists(e)
      BY <1>1, <3>1, <3>3 DEF Write, TypeOK
    <3> QED BY <3>2, <3>3
  <2> QED BY <2>1, <2>2, <2>3
<1>5. d = e => \A t \in Token : cache[t] # e
  BY <1>2 DEF Serial, Steady, At
<1> QED BY <1>1, <1>3, <1>4, <1>5, WritingStep

\* A row that is inserted is of a device the cache did not know.
LEMMA InsertingStep ==
  ASSUME TypeOK, HeldIsMinted, NEW d \in Device, Serial(d), NEW h \in Handler,
         InsertPending(h) \/ InsertAuthenticated(h)
  PROVE  Serial(d)'
<1> DEFINE e == job[h].dev
<1>1. e \in Device /\ Finish(h) /\ cache' = cache
  BY StageHolds DEF InsertPending, InsertAuthenticated
<1>2. \A a \in Device : a # e => row'[a] = row[a]
  BY DEF InsertPending, InsertAuthenticated, TypeOK
<1>3. row'[e] = row[e] \/ (row[e] = Absent /\ row'[e].tok \notin minted)
  <2>1. CASE InsertPending(h)
    <3>1. NoToken \notin minted
      BY NoTokenAssumption DEF TypeOK
    <3>2. row'[e] = IF Exists(e) THEN row[e] ELSE [st |-> "pending", tok |-> NoToken]
      BY <1>1, <2>1 DEF InsertPending, TypeOK
    <3> QED BY <3>1, <3>2 DEF Exists
  <2>2. CASE InsertAuthenticated(h)
    <3>1. PICK t \in Token :
            /\ t \notin minted
            /\ row' = [row EXCEPT ![e] = IF Exists(e) THEN @ ELSE [st |-> "authenticated", tok |-> t]]
      BY <2>2 DEF InsertAuthenticated, Mint
    <3>2. row'[e] = IF Exists(e) THEN row[e] ELSE [st |-> "authenticated", tok |-> t]
      BY <1>1, <3>1 DEF TypeOK
    <3> QED BY <3>1, <3>2 DEF Exists
  <2> QED BY <2>1, <2>2
<1>4. d = e => row'[e] = row[e] \/ \A t \in Token : cache[t] # e
  <2>1. \A t \in Token : cache[t] = d => row[d].st = "authenticated"
    <3>1. \A t \in Token : cache[t] = d => row[d] = [st |-> "authenticated", tok |-> t]
      BY DEF Serial
    <3>2. ASSUME NEW t \in Token, cache[t] = d
          PROVE  row[d].st = "authenticated"
      <4>1. row[d] = [st |-> "authenticated", tok |-> t]
        BY <3>1, <3>2
      <4> QED BY <4>1
    <3> QED BY <3>2
  <2>2. Absent.st # "authenticated"
    BY DEF Absent
  <2>3. CASE row[e] = Absent
    <3>1. ASSUME d = e, NEW t \in Token, cache[t] = e
          PROVE  FALSE
      BY <2>1, <2>2, <2>3, <3>1
    <3> QED BY <3>1
  <2>4. row'[e] = row[e] \/ row[e] = Absent
    BY <1>3
  <2> HIDE DEF e
  <2> QED BY <2>3, <2>4
<1> QED BY <1>1, <1>2, <1>3, <1>4, WritingStep

\* A request that begins: if another one about the same device is there, the
\* device counts as disturbed from then on.
LEMMA BeginningStep ==
  ASSUME TypeOK, NEW d \in Device, Serial(d), NEW h \in Handler, NEW j, Start(h, j),
         d \notin disturbed', UNCHANGED tables, j.stage \in {"load", "insert", "lookup", "describe"}
  PROVE  Serial(d)'
<1>1. d \in About(j) => \A g \in Handler : d \notin About(job[g])
  BY DEF Start
<1>2. job' = [job EXCEPT ![h] = j] /\ row' = row /\ cache' = cache
  BY DEF Start, tables
<1>3. Steady(d, j)'
  BY DEF Steady
<1>4. \A t \in Token : cache'[t] = d => row[d] = [st |-> "authenticated", tok |-> t]
  BY <1>2 DEF Serial
<1> QED BY <1>1, <1>2, <1>3, <1>4, ReadingStep

\* A request that goes on without writing a row.
LEMMA GoingOnStep ==
  ASSUME TypeOK, NEW d \in Device, Serial(d), NEW h \in Handler,
         Load(h) \/ Evict(h) \/ LookUp(h) \/ Remember(h) \/ Describe(h)
  PROVE  Serial(d)'
<1>1. row' = row
  BY DEF Load, Evict, LookUp, Remember, Describe, tables
<1>2. \A t \in Token : cache[t] = d => row[d] = [st |-> "authenticated", tok |-> t]
  BY DEF Serial
<1>3. ASSUME Finish(h), cache' = cache
      PROVE  Serial(d)'
  <2>1. About(Idle) = {} /\ Steady(d, Idle)'
    BY NoDeviceAssumption DEF About, Idle, Steady
  <2> QED BY <1>1, <1>2, <1>3, <2>1, ReadingStep DEF Finish
<1>4. CASE Load(h)
  <2>1. CASE ~Finish(h)
    <3>1. PICK op \in Changes, e \in Device, t \in Token \cup {NoToken}, s \in {"load", "evict", "save"} :
            job[h] = [op |-> op, dev |-> e, tok |-> t, stage |-> s]
      BY <1>4, StageHolds DEF Load
    <3>2. PICK u : u = row[e].tok
      OBVIOUS
    <3> DEFINE j == [op |-> op, dev |-> e, tok |-> u, stage |-> "evict"]
    <3>3. job' = [job EXCEPT ![h].tok = u, ![h].stage = "evict"] /\ cache' = cache
      BY <1>4, <2>1, <3>1, <3>2 DEF Load, tables
    <3>4. [job[h] EXCEPT !.tok = u] = [op |-> op, dev |-> e, tok |-> u, stage |-> s]
      BY <3>1
    <3>9. job \in [Handler -> Job]
      BY DEF TypeOK
    <3>5. job' = [[job EXCEPT ![h] = [op |-> op, dev |-> e, tok |-> u, stage |-> s]]
                    EXCEPT ![h].stage = "evict"]
      BY <3>1, <3>3, <3>4, <3>9
    <3>6. job' = [job EXCEPT ![h] = j]
      BY <3>1, <3>3, <3>4, <3>5, <3>9
    <3>7. About(j) = About(job[h])
      BY <3>1, NoDeviceAssumption DEF About
    <3>8. Steady(d, j)'
      BY <1>1, <3>2 DEF Steady, Changes, Updates
    <3> HIDE DEF j
    <3> QED BY <1>1, <1>2, <3>3, <3>6, <3>7, <3>8, ReadingStep
  <2> QED BY <1>3, <1>4, <2>1 DEF Load, tables
<1>5. CASE Evict(h)
  <2>1. job[h] \in [op: Changes, dev: Device, tok: Token \cup {NoToken}, stage: {"load", "evict", "save"}]
    BY <1>5, StageHolds DEF Evict
  <2>0. PICK j : j = [job[h] EXCEPT !.stage = "save"]
    OBVIOUS
  <2>2. job' = [job EXCEPT ![h] = j]
    BY <1>5, <2>0 DEF Evict, Advance
  <2>3. /\ \A t \in Token : cache'[t] = IF t = job[h].tok THEN NoDevice ELSE cache[t]
        /\ \A t \in Token : cache'[t] = d => cache[t] = d
    BY <1>5, NoDeviceAssumption DEF Evict
  <2>4. j.dev = job[h].dev /\ j.op = job[h].op /\ j.stage = "save" /\ j.op \in Changes /\ j.op # "auth"
    BY <2>0, <2>1 DEF Changes, Updates
  <2>5. About(j) = About(job[h])
    BY <2>1, <2>4, NoDeviceAssumption DEF About
  <2>6. Steady(d, j)'
    <3>1. ASSUME job[h].dev = d, NEW t \in Token, cache[t] = d
          PROVE  t = job[h].tok
      <4>1. job[h].tok = row[d].tok
        BY <1>5, <3>1 DEF Serial, Steady, Evict, At
      <4>2. row[d] = [st |-> "authenticated", tok |-> t]
        BY <1>2, <3>1
      <4> QED BY <4>1, <4>2
    <3>2. job[h].dev = d => \A t \in Token : cache'[t] # d
      BY <2>3, <3>1, NoDeviceAssumption
    <3> QED BY <2>4, <3>2 DEF Steady
  <2> QED BY <1>1, <1>2, <2>2, <2>3, <2>5, <2>6, ReadingStep
<1>6. CASE LookUp(h)
  <2>1. job[h] = [op |-> "auth", dev |-> NoDevice, tok |-> job[h].tok, stage |-> "lookup"]
        /\ job[h].tok \in Token /\ cache' = cache
    BY <1>6, StageHolds DEF LookUp, tables
  <2>2. ASSUME NEW a \in Device, row[a] = [st |-> "authenticated", tok |-> job[h].tok],
               job' = [job EXCEPT ![h].dev = a, ![h].stage = "store"]
        PROVE  Serial(d)'
    <3>0. PICK j : j = [op |-> "auth", dev |-> a, tok |-> job[h].tok, stage |-> "store"]
      OBVIOUS
    <3>1. job' = [job EXCEPT ![h] = j]
      BY <2>1, <2>2, <3>0 DEF TypeOK
    <3>2. d \in About(j) => d = a
      BY <3>0, NoDeviceAssumption DEF About
    <3>3. a \in About(job[h])
      <4>1. job[h].dev = NoDevice /\ job[h].tok # NoToken /\ row[a].tok = job[h].tok
        BY <2>1, <2>2, NoTokenAssumption
      <4> QED BY <4>1 DEF About
    <3>4. Steady(d, j)'
      BY <1>1, <2>2, <3>0 DEF Steady, Changes, Updates
    <3> QED BY <1>1, <1>2, <2>1, <3>1, <3>2, <3>3, <3>4, ReadingStep
  <2> QED BY <1>3, <1>6, <2>1, <2>2 DEF LookUp
<1>7. CASE Remember(h)
  <2>1. job[h] \in [op: {"auth"}, dev: Device, tok: Token, stage: {"store", "describe"}]
    BY <1>7, StageHolds DEF Remember
  <2>0. PICK j : j = [job[h] EXCEPT !.stage = "describe"]
    OBVIOUS
  <2>2. job' = [job EXCEPT ![h] = j]
    BY <1>7, <2>0 DEF Remember, Advance
  <2>3. \A t \in Token : cache'[t] = IF t = job[h].tok THEN job[h].dev ELSE cache[t]
    BY <1>7, <2>1 DEF Remember, TypeOK
  <2>4. j.dev = job[h].dev /\ j.stage = "describe"
    BY <2>0, <2>1
  <2>5. About(j) = About(job[h]) /\ job[h].dev \in About(job[h])
    BY <2>1, <2>4, NoDeviceAssumption DEF About
  <2>6. job[h].dev = d => row[d] = [st |-> "authenticated", tok |-> job[h].tok]
    BY <1>7, <2>1 DEF Serial, Steady, Remember, At
  <2>7. Steady(d, j)'
    BY <2>4 DEF Steady
  <2>8. \A t \in Token : cache'[t] = d => row[d] = [st |-> "authenticated", tok |-> t]
    BY <1>2, <2>3, <2>6
  <2>9. (\A t \in Token : cache'[t] = d => cache[t] = d) \/ d \in About(job[h])
    BY <2>3, <2>5
  <2> QED BY <1>1, <2>2, <2>5, <2>7, <2>8, <2>9, ReadingStep
<1>8. CASE Describe(h)
  BY <1>3, <1>8 DEF Describe, tables
<1> QED BY <1>4, <1>5, <1>6, <1>7, <1>8

\* A request whose access to the tables failed: it ends, or its device is disturbed.
LEMMA FailingStep ==
  ASSUME TypeOK, NEW d \in Device, Serial(d), NEW h \in Handler, DatabaseError(h),
         d \notin disturbed'
  PROVE  Serial(d)'
<1>1. row' = row /\ cache' = cache
  BY ErrorStep
<1>2. \A t \in Token : cache[t] = d => row[d] = [st |-> "authenticated", tok |-> t]
  BY DEF Serial
<1>3. CASE Finish(h)
  <2>1. About(Idle) = {} /\ Steady(d, Idle)'
    BY NoDeviceAssumption DEF About, Idle, Steady
  <2> QED BY <1>1, <1>2, <1>3, <2>1, ReadingStep DEF Finish
<1>4. ASSUME NEW op \in Changes, NEW e \in Device, NEW u \in Token \cup {NoToken},
             job' = [job EXCEPT ![h] = [op |-> op, dev |-> e, tok |-> u, stage |-> "evict"]],
             disturbed' = disturbed \cup {e}
      PROVE  Serial(d)'
  <2>1. PICK j : j = [op |-> op, dev |-> e, tok |-> u, stage |-> "evict"]
    OBVIOUS
  <2>2. d # e
    BY <1>4
  <2>3. d \notin About(j) /\ Steady(d, j)'
    BY <2>1, <2>2, NoDeviceAssumption DEF About, Steady
  <2>4. job' = [job EXCEPT ![h] = j]
    BY <1>4, <2>1
  <2> QED BY <1>1, <1>2, <2>3, <2>4, ReadingStep
<1> QED BY <1>3, <1>4, ErrorStep

\* As long as the requests about a device come one after the other and none has to
\* go on without the row it failed to read, what the token cache knows of it is
\* what the table says (device_registry_service.go:75-168), whichever other access
\* to the tables fails and however often the Core restarts.
THEOREM SerialCacheIsExact == Spec => []SerialUseIsExact
<1>1. Init => SerialInv
  <2> SUFFICES ASSUME Init
               PROVE  SerialInv
    OBVIOUS
  <2>1. \A h \in Handler : job[h] = Idle
    BY DEF Init
  <2>2. About(Idle) = {} /\ \A d \in Device : Steady(d, Idle)
    BY NoDeviceAssumption DEF About, Steady, Idle
  <2>3. \A t \in Token : cache[t] = NoDevice
    BY DEF Init
  <2>4. HeldIsMinted
    BY <2>1 DEF HeldIsMinted, Idle
  <2>5. \A d \in Device : Serial(d)
    BY <2>1, <2>2, <2>3, NoDeviceAssumption DEF Serial
  <2> QED BY <2>4, <2>5 DEF SerialInv
<1>2. TypeOK /\ SerialInv /\ [Next]_vars => SerialInv'
  <2> SUFFICES ASSUME TypeOK, SerialInv, [Next]_vars
               PROVE  SerialInv'
    OBVIOUS
  <2>1. HeldIsMinted /\ HeldIsMinted'
    BY HeldStep DEF SerialInv
  <2> SUFFICES ASSUME NEW d \in Device, d \notin disturbed'
               PROVE  Serial(d)'
    BY <2>1 DEF SerialInv
  <2>0. CASE Restart
    <3>1. \A h \in Handler : job'[h] = Idle
      BY <2>0 DEF Restart
    <3>2. About(Idle)' = {} /\ Steady(d, Idle)'
      BY NoDeviceAssumption DEF About, Steady, Idle
    <3>3. \A t \in Token : cache'[t] # d
      BY <2>0, NoDeviceAssumption DEF Restart
    <3> QED BY <3>1, <3>2, <3>3 DEF Serial
  <2> SUFFICES ASSUME ~Restart
               PROVE  Serial(d)'
    BY <2>0
  <2>2. disturbed \subseteq disturbed'
    <3>1. ASSUME NEW h \in Handler, NEW j, Start(h, j)
          PROVE  disturbed \subseteq disturbed'
      BY <3>1 DEF Start
    <3>2. ASSUME NEW h \in Handler, DatabaseError(h)
          PROVE  disturbed \subseteq disturbed'
      BY <3>2, ErrorStep
    <3>3. \/ UNCHANGED disturbed
          \/ \E h \in Handler, e \in Device :
               \/ \E op \in Changes : CheckScope(h, op, e)
               \/ \E op \in Creations : CheckAbsent(h, op, e)
          \/ \E h \in Handler, t \in Token : Authenticate(h, t)
          \/ \E h \in Handler : DatabaseError(h)
      BY DEF Next, Load, Evict, Approve, Withdraw, Refresh, Destroy, InsertPending,
             InsertAuthenticated, LookUp, Remember, Describe, vars, history
    <3> QED BY <3>1, <3>2, <3>3 DEF CheckScope, CheckAbsent, Authenticate
  <2>3. Serial(d)
    BY <2>2 DEF SerialInv
  <2>4. ASSUME NEW h \in Handler, NEW e \in Device,
               \/ \E op \in Changes : CheckScope(h, op, e)
               \/ \E op \in Creations : CheckAbsent(h, op, e)
        PROVE  Serial(d)'
    BY <2>3, <2>4, BeginningStep DEF CheckScope, CheckAbsent
  <2>5. ASSUME NEW h \in Handler, NEW t \in Token, Authenticate(h, t)
        PROVE  Serial(d)'
    BY <2>3, <2>5, BeginningStep DEF Authenticate
  <2>6. ASSUME NEW h \in Handler,
               Load(h) \/ Evict(h) \/ LookUp(h) \/ Remember(h) \/ Describe(h)
        PROVE  Serial(d)'
    BY <2>3, <2>6, GoingOnStep
  <2>7. ASSUME NEW h \in Handler, Approve(h) \/ Withdraw(h) \/ Refresh(h) \/ Destroy(h)
        PROVE  Serial(d)'
    BY <2>1, <2>3, <2>7, SavingStep
  <2>8. ASSUME NEW h \in Handler, InsertPending(h) \/ InsertAuthenticated(h)
        PROVE  Serial(d)'
    BY <2>1, <2>3, <2>8, InsertingStep
  <2>9. ASSUME NEW h \in Handler, DatabaseError(h)
        PROVE  Serial(d)'
    BY <2>3, <2>9, FailingStep
  <2>10. CASE UNCHANGED vars
    <3>1. UNCHANGED <<row, cache, job>>
      BY <2>10 DEF vars, tables
    <3>2. \A g \in Handler : About(job[g])' = About(job[g]) /\ (Steady(d, job[g])' <=> Steady(d, job[g]))
      BY <3>1 DEF About, Steady
    <3> QED BY <2>3, <3>1, <3>2 DEF Serial
  <2> QED BY <2>4, <2>5, <2>6, <2>7, <2>8, <2>9, <2>10 DEF Next
<1>3. SerialInv => SerialUseIsExact
  BY DEF SerialInv, Serial, SerialUseIsExact, Current
<1> QED BY <1>1, <1>2, <1>3, TypeCorrect, PTL DEF Spec
=============================================================================
