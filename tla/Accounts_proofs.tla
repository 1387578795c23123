--------------------------- MODULE Accounts_proofs ---------------------------
(***************************************************************************)
(* Theorems about accounts, for any finite sets of users and requests, any *)
(* browsers, any way to map user names and addresses to the keys of the    *)
(* login guard, any limits, times and number of restarts.                  *)
(***************************************************************************)
EXTENDS Accounts, FiniteSetTheorems, TLAPS

\* What the theorems need to know of the state: its types, except the failures
\* of the guard (GuardInv has them), that a lock is not longer than Lockout, and
\* that the last token is the newest.
AccountInv ==
  /\ driver \in Driver
  /\ account \subseteq User
  /\ role \in [User -> Role]
  /\ attempts = [k \in Key |-> attempts[k]]
  /\ \A k \in Key : attempts[k].until \in Nat /\ attempts[k].until <= now + Lockout
  /\ csrf \in [User -> Token]
  /\ minted \in Token
  /\ \A u \in User : csrf[u] <= minted
  /\ browser \in [Browser -> [user: User \cup {NoUser}, token: Token]]
  /\ req \in [Request -> Pending \cup {Idle}]
  /\ now \in Nat /\ restarts \in Nat

\* What a request under way is about.
LEMMA RequestKinds ==
  ASSUME AccountInv, NEW q \in Request
  PROVE  /\ req[q].pc = "inserting" =>
              req[q] \in [pc: {"inserting"}, user: User, from: Browser, seen: 0 .. Cardinality(User)]
         /\ req[q].pc = "verifying" =>
              req[q] \in [pc: {"verifying"}, user: User, from: Browser]
         /\ req[q].pc = "answered" =>
              req[q] \in [pc: {"answered"}, op: {"register", "login", "logout"}, user: User,
                          from: Browser, token: Token]
         /\ req[q].pc = "verifying" => KeyFor(q) \in Key
<1>1. req[q] \in Pending \cup {Idle}
  BY DEF AccountInv
<1>2. req[q].pc = "verifying" => req[q].user \in User /\ req[q].from \in Browser
  BY <1>1 DEF Pending, Idle
<1>3. req[q].pc = "verifying" => KeyFor(q) \in Key
  BY <1>2, KeyAssumption DEF KeyFor
<1> QED BY <1>1, <1>3 DEF Pending, Idle

\* A request that goes on stays one of the requests there are.
LEMMA RequestsTyped ==
  ASSUME AccountInv, NEW q \in Request, NEW r \in Pending \cup {Idle}, Becomes(q, r)
  PROVE  req' \in [Request -> Pending \cup {Idle}]
BY DEF AccountInv, Becomes

\* An entry of the login guard after a failure or a look at it.
LEMMA LocksBounded ==
  ASSUME NEW a, a.until \in Nat, now \in Nat, a.until <= now + Lockout
  PROVE  /\ Pruned(a).until \in Nat /\ Pruned(a).until <= now + Lockout
         /\ a.until > now => Pruned(a).until = a.until
         /\ WithFailure(a).until \in Nat /\ WithFailure(a).until <= now + Lockout
         /\ a.until > now => WithFailure(a).until >= a.until
BY GuardAssumption DEF Pruned, WithFailure

\* Every step keeps accounts, sessions and attempts well-formed.
LEMMA AccountInductive == Spec => []AccountInv
<1>0. 0 \in Token /\ Token \subseteq Nat /\ Lockout \in Nat
  BY AccountAssumption, GuardAssumption DEF Token
<1>1. Init => AccountInv
  BY <1>0 DEF Init, AccountInv, NoAttempts, NoToken, Role
<1>2. AccountInv /\ [Next]_vars => AccountInv'
  <2> SUFFICES ASSUME AccountInv, [Next]_vars
               PROVE  AccountInv'
    OBVIOUS
  <2>1. CASE UNCHANGED vars
    BY <2>1 DEF vars, tables, memory, AccountInv
  <2>2. ASSUME NEW q \in Request, NEW b \in Browser, NEW u \in User, CountAccounts(q, b, u)
        PROVE  AccountInv'
    <3> DEFINE r == [pc |-> "inserting", user |-> u, from |-> b, seen |-> Cardinality(account)]
    <3>1. Cardinality(account) \in 0 .. Cardinality(User)
      <4>1. Cardinality(account) <= Cardinality(User) /\ IsFiniteSet(account)
        BY FiniteAssumption, FS_Subset DEF AccountInv
      <4>2. Cardinality(account) \in Nat /\ Cardinality(User) \in Nat
        BY <4>1, FiniteAssumption, FS_CardinalityType
      <4> QED BY <4>1, <4>2
    <3>2. r \in Pending
      BY <3>1 DEF Pending
    <3>3. req' \in [Request -> Pending \cup {Idle}]
      BY <2>2, <3>2, RequestsTyped DEF CountAccounts
    <3> QED BY <2>2, <3>3 DEF CountAccounts, AccountInv, tables, memory
  <2>3. ASSUME NEW q \in Request, NEW b \in Browser, NEW u \in User, Allow(q, b, u)
        PROVE  AccountInv'
    <3>1. req' \in [Request -> Pending \cup {Idle}]
      <4>1. [pc |-> "verifying", user |-> u, from |-> b] \in Pending
        BY DEF Pending
      <4> QED BY <2>3, <4>1, RequestsTyped DEF Allow, AccountInv
    <3>2. attempts' = [attempts EXCEPT ![KeyOf[u][b]] = Pruned(@)] /\ now' = now
      BY <2>3 DEF Allow
    <3>3. attempts' = [k \in Key |-> attempts'[k]]
          /\ \A k \in Key : attempts'[k].until \in Nat /\ attempts'[k].until <= now' + Lockout
      BY <3>2, LocksBounded DEF AccountInv
    <3> QED BY <2>3, <3>1, <3>3 DEF Allow, AccountInv, tables
  <2>4. ASSUME NEW q \in Request, NEW b \in Browser, Logout(q, b)
        PROVE  AccountInv'
    <3>1. browser[b].user \in User
      BY <2>4 DEF Logout, MayWrite, SignedIn, AccountInv
    <3>2. [pc |-> "answered", op |-> "logout", user |-> browser[b].user, from |-> b,
           token |-> NoToken] \in Pending
      BY <1>0, <3>1 DEF Pending, NoToken
    <3>3. req' \in [Request -> Pending \cup {Idle}]
      BY <2>4, <3>2, RequestsTyped DEF Logout, Answer
    <3> QED BY <2>4, <3>3 DEF Logout, AccountInv, tables, memory
  <2>5. ASSUME NEW q \in Request, Create(q)
        PROVE  AccountInv'
    <3>1. req[q].user \in User /\ req[q].from \in Browser
      BY <2>5, RequestKinds DEF Create
    <3>2. [pc |-> "answered", op |-> "register", user |-> req[q].user, from |-> req[q].from,
           token |-> NoToken] \in Pending
      BY <1>0, <3>1 DEF Pending, NoToken
    <3>3. req' \in [Request -> Pending \cup {Idle}]
      BY <2>5, <3>2, RequestsTyped DEF Create, Answer
    <3>4. role' \in [User -> Role]
      BY <2>5 DEF Create, Promote, AccountInv, Role
    <3> QED BY <2>5, <3>1, <3>3, <3>4 DEF Create, AccountInv, memory
  <2>6. ASSUME NEW q \in Request, Abandon(q)
        PROVE  AccountInv'
    <3>1. req' \in [Request -> Pending \cup {Idle}]
      BY <2>6, RequestsTyped DEF Abandon
    <3> QED BY <2>6, <3>1 DEF Abandon, AccountInv, tables, memory
  <2>7. ASSUME NEW q \in Request, VerifyFails(q)
        PROVE  AccountInv'
    <3>1. req' \in [Request -> Pending \cup {Idle}]
      BY <2>7, RequestsTyped DEF VerifyFails
    <3>2. attempts' = [attempts EXCEPT ![KeyFor(q)] = WithFailure(@)] /\ now' = now
      BY <2>7 DEF VerifyFails
    <3>3. attempts' = [k \in Key |-> attempts'[k]]
          /\ \A k \in Key : attempts'[k].until \in Nat /\ attempts'[k].until <= now' + Lockout
      BY <3>2, LocksBounded DEF AccountInv
    <3> QED BY <2>7, <3>1, <3>3 DEF VerifyFails, AccountInv, tables
  <2>8. ASSUME NEW q \in Request, LoginSucceeds(q)
        PROVE  AccountInv'
    <3>1. req[q].user \in User /\ req[q].from \in Browser
      BY <2>8, RequestKinds DEF LoginSucceeds
    <3>2. minted + 1 \in Token /\ minted' = minted + 1
      BY <2>8, AccountAssumption DEF LoginSucceeds, AccountInv, Token
    <3>3. [pc |-> "answered", op |-> "login", user |-> req[q].user, from |-> req[q].from,
           token |-> minted + 1] \in Pending
      BY <3>1, <3>2 DEF Pending
    <3>4. req' \in [Request -> Pending \cup {Idle}]
      BY <2>8, <3>3, RequestsTyped DEF LoginSucceeds, Answer
    <3>5. csrf' \in [User -> Token] /\ \A u \in User : csrf'[u] <= minted'
      BY <1>0, <2>8, <3>2 DEF LoginSucceeds, AccountInv
    <3>6. attempts' = [attempts EXCEPT ![KeyFor(q)] = NoAttempts] /\ now' = now
      BY <2>8 DEF LoginSucceeds
    <3>7. attempts' = [k \in Key |-> attempts'[k]]
          /\ \A k \in Key : attempts'[k].until \in Nat /\ attempts'[k].until <= now' + Lockout
      <4>1. NoAttempts.until = 0 /\ now + Lockout \in Nat
        BY <1>0 DEF NoAttempts, AccountInv
      <4>2. \A k \in Key : attempts'[k] = IF k = KeyFor(q) THEN NoAttempts ELSE attempts[k]
        BY <3>6 DEF AccountInv
      <4>3. attempts' = [k \in Key |-> attempts'[k]]
        BY <3>6 DEF AccountInv
      <4> QED BY <3>6, <4>1, <4>2, <4>3 DEF AccountInv
    <3> QED BY <2>8, <3>2, <3>4, <3>5, <3>7 DEF LoginSucceeds, AccountInv, tables
  <2>9. ASSUME NEW q \in Request, Deliver(q)
        PROVE  AccountInv'
    <3>1. req[q].user \in User /\ req[q].from \in Browser /\ req[q].token \in Token
      BY <2>9, RequestKinds DEF Deliver
    <3>2. req' \in [Request -> Pending \cup {Idle}]
      BY <2>9, RequestsTyped DEF Deliver
    <3>3. browser' = [browser EXCEPT ![req[q].from] =
                        [user  |-> IF req[q].op = "logout" THEN NoUser ELSE req[q].user,
                         token |-> IF req[q].op = "login" THEN req[q].token ELSE @.token]]
      BY <2>9 DEF Deliver
    <3>4. browser' \in [Browser -> [user: User \cup {NoUser}, token: Token]]
      BY <3>1, <3>3 DEF AccountInv
    <3> QED BY <2>9, <3>2, <3>4 DEF Deliver, AccountInv, tables, memory
  <2>10. ASSUME NEW u \in User, TokenExpires(u)
         PROVE  AccountInv'
    <3>1. csrf' \in [User -> Token] /\ \A v \in User : csrf'[v] <= minted
      BY <1>0, <2>10 DEF TokenExpires, AccountInv, NoToken
    <3> QED BY <2>10, <3>1 DEF TokenExpires, AccountInv, tables
  <2>11. CASE Tick
    BY <1>0, <2>11 DEF Tick, AccountInv, tables, memory
  <2>12. CASE Restart
    <3>1. role' \in [User -> Role]
      BY <2>12 DEF Restart, MigratedRole, AccountInv, Role
    <3>2. browser' \in [Browser -> [user: User \cup {NoUser}, token: Token]]
      BY <2>12 DEF Restart, AccountInv
    <3>3. attempts' = [k \in Key |-> NoAttempts] /\ csrf' = [u \in User |-> 0] /\ now' = now
          /\ minted' = minted
      BY <2>12 DEF Restart, NoToken
    <3>4. /\ attempts' = [k \in Key |-> attempts'[k]] /\ csrf' \in [User -> Token]
          /\ \A k \in Key : attempts'[k].until \in Nat /\ attempts'[k].until <= now' + Lockout
          /\ \A u \in User : csrf'[u] <= minted'
      BY <1>0, <3>3 DEF NoAttempts, AccountInv
    <3>5. req' \in [Request -> Pending \cup {Idle}]
      BY <2>12 DEF Restart
    <3> QED BY <2>12, <3>1, <3>2, <3>3, <3>4, <3>5 DEF Restart, AccountInv
  <2> QED
    BY <2>1, <2>2, <2>3, <2>4, <2>5, <2>6, <2>7, <2>8, <2>9, <2>10, <2>11, <2>12 DEF Next
<1> QED BY <1>1, <1>2, PTL DEF Spec

-----------------------------------------------------------------------------
\* The lock of a key ends early only with the process or by the right password of
\* a request for a name of that key that was let in before it.
THEOREM LocksHold == Spec => LockHolds
<1>1. AccountInv /\ [Next]_vars =>
        [\A k \in Key :
           Locked(k) /\ attempts'[k].until < attempts[k].until =>
             \/ restarts' # restarts
             \/ \E q \in Request : req[q].pc = "verifying" /\ KeyFor(q) = k
                                     /\ req'[q].pc = "answered"]_vars
  <2> SUFFICES ASSUME AccountInv, Next, NEW k \in Key,
                      Locked(k), attempts'[k].until < attempts[k].until, restarts' = restarts
               PROVE  \E q \in Request : req[q].pc = "verifying" /\ KeyFor(q) = k
                                           /\ req'[q].pc = "answered"
    OBVIOUS
  <2>1. attempts[k].until \in Nat /\ now \in Nat /\ attempts[k].until <= now + Lockout
        /\ attempts[k].until > now
    BY DEF AccountInv, Locked
  <2>2. Pruned(attempts[k]).until = attempts[k].until
        /\ WithFailure(attempts[k]).until >= attempts[k].until
        /\ WithFailure(attempts[k]).until \in Nat
    BY <2>1, LocksBounded
  <2>3. ASSUME NEW q \in Request, NEW b \in Browser, NEW v \in User, Allow(q, b, v)
        PROVE  FALSE
    <3>1. attempts'[k] \in {attempts[k], Pruned(attempts[k])}
      BY <2>3 DEF Allow, AccountInv
    <3> QED BY <2>1, <2>2, <3>1
  <2>4. ASSUME NEW q \in Request, VerifyFails(q)
        PROVE  FALSE
    <3>1. attempts'[k] \in {attempts[k], WithFailure(attempts[k])}
      BY <2>4 DEF VerifyFails, AccountInv
    <3> QED BY <2>1, <2>2, <3>1
  <2>5. ASSUME NEW q \in Request, LoginSucceeds(q)
        PROVE  req[q].pc = "verifying" /\ KeyFor(q) = k /\ req'[q].pc = "answered"
    <3>1. req[q].pc = "verifying" /\ attempts' = [attempts EXCEPT ![KeyFor(q)] = NoAttempts]
      BY <2>5 DEF LoginSucceeds
    <3>2. KeyFor(q) = k
      <4>1. CASE KeyFor(q) # k
        <5>1. attempts'[k] = attempts[k]
          BY <3>1, <4>1 DEF AccountInv
        <5> QED BY <2>1, <5>1
      <4> QED BY <4>1
    <3>3. req'[q].pc = "answered"
      BY <2>5 DEF LoginSucceeds, Answer, Becomes, AccountInv
    <3> QED BY <3>1, <3>2, <3>3
  <2>6. attempts' # attempts
    BY <2>1
  <2>7. ~Restart
    BY DEF Restart, AccountInv
  <2> QED
    BY <2>3, <2>4, <2>5, <2>6, <2>7
    DEF Next, CountAccounts, Logout, Create, Abandon, Deliver, TokenExpires, Tick, memory
<1> QED BY <1>1, AccountInductive, PTL DEF Spec, LockHolds

\* A browser that may write goes on to, whatever the requests of others do, until
\* somebody logs in as the same user, its token is a day old or the Core restarts.
THEOREM WritersGoOn == Spec => WriteAccessKept
<1>1. AccountInv /\ [Next]_vars =>
        [\A b \in Browser :
           MayWrite(b) /\ ~MayWrite(b)' =>
             \/ browser'[b] # browser[b]
             \/ csrf'[browser[b].user] > csrf[browser[b].user]
             \/ req' = req /\ restarts' = restarts]_vars
  <2> SUFFICES ASSUME AccountInv, Next, NEW b \in Browser, MayWrite(b), ~MayWrite(b)',
                      browser'[b] = browser[b], ~(req' = req /\ restarts' = restarts)
               PROVE  csrf'[browser[b].user] > csrf[browser[b].user]
    OBVIOUS
  <2>1. browser[b].user \in account /\ browser[b].user \in User
    BY DEF MayWrite, SignedIn, AccountInv
  <2>2. ~Restart
    <3>1. ASSUME Restart
          PROVE  FALSE
      <4>1. browser[b] \in [user: User \cup {NoUser}, token: Token]
        BY DEF AccountInv
      <4>2. browser'[b].user = NoUser
        BY <3>1, <4>1 DEF Restart
      <4> QED BY <2>1, <4>2, AccountAssumption
    <3> QED BY <3>1
  <2>3. \A u \in User : ~TokenExpires(u)
    BY DEF TokenExpires
  <2>4. account \subseteq account'
    BY <2>2 DEF Next, CountAccounts, Allow, Logout, Create, Abandon, VerifyFails, LoginSucceeds,
               Deliver, TokenExpires, Tick, tables
  <2>5. csrf'[browser[b].user] # csrf[browser[b].user]
    BY <2>1, <2>4 DEF MayWrite, SignedIn, ValidToken
  <2>6. PICK q \in Request : LoginSucceeds(q)
    BY <2>2, <2>3, <2>5
    DEF Next, CountAccounts, Allow, Logout, Create, Abandon, VerifyFails, Deliver, Tick, memory
  <2>7. csrf'[browser[b].user] = minted + 1
    BY <2>1, <2>5, <2>6 DEF LoginSucceeds, AccountInv
  <2>8. csrf[browser[b].user] \in Nat /\ minted \in Nat /\ csrf[browser[b].user] <= minted
    BY <2>1 DEF AccountInv, Token
  <2> QED BY <2>7, <2>8
<1> QED BY <1>1, AccountInductive, PTL DEF Spec, WriteAccessKept

-----------------------------------------------------------------------------
\* Registrations that will make an administrator if they commit.
Early == {q \in Request : req[q].pc = "inserting" /\ req[q].seen = 0}

\* A count is never ahead of the table, so the first account was counted as the
\* first; and every administrator was made by a request that counted none, which
\* is where the bound on their number comes from.
FirstInv ==
  /\ Administrators \subseteq account
  /\ \A q \in Request : req[q].pc = "inserting" => req[q].seen <= Cardinality(account)
  /\ account # {} => Administrators # {} \/ (driver = "sqlite" /\ Demoted # {})
  /\ driver = "sqlite" => Cardinality(Administrators) <= 1
  /\ driver # "sqlite" => Cardinality(Administrators) + Cardinality(Early) <= Cardinality(Request)

\* The sets the invariant counts are finite.
LEMMA FiniteParts ==
  ASSUME AccountInv
  PROVE  /\ IsFiniteSet(account) /\ IsFiniteSet(Administrators) /\ IsFiniteSet(Early)
         /\ Cardinality(account) \in Nat /\ Cardinality(Administrators) \in Nat
         /\ Cardinality(Early) \in Nat /\ Cardinality(Request) \in Nat
         /\ Cardinality(Early) <= Cardinality(Request)
<1>1. account \in SUBSET User /\ Administrators \in SUBSET User /\ Early \in SUBSET Request
  BY DEF AccountInv, Administrators, Early
<1>2. IsFiniteSet(account) /\ IsFiniteSet(Administrators) /\ IsFiniteSet(Early)
      /\ Cardinality(Early) <= Cardinality(Request)
  BY <1>1, FiniteAssumption, FS_Subset
<1> QED BY <1>2, FiniteAssumption, FS_CardinalityType

\* Steps that make no account, change no role and count no accounts.
LEMMA FirstKept ==
  ASSUME AccountInv, AccountInv', FirstInv, UNCHANGED <<driver, account, role>>,
         \A q \in Request : req'[q].pc = "inserting" => req'[q] = req[q]
  PROVE  FirstInv'
<1>1. Early' \in SUBSET Early /\ IsFiniteSet(Early)
  BY FiniteParts DEF Early
<1>2. Cardinality(Early') <= Cardinality(Early)
  BY <1>1, FS_Subset
<1>3. Administrators' = Administrators /\ Demoted' = Demoted
  BY DEF Administrators, Demoted
<1>4. Cardinality(Early') \in Nat
  BY <1>1, FS_Subset, FS_CardinalityType
<1>5. driver' # "sqlite" =>
        Cardinality(Administrators') + Cardinality(Early') <= Cardinality(Request)
  BY <1>2, <1>3, <1>4, FiniteParts DEF FirstInv
<1> QED BY <1>3, <1>5 DEF FirstInv

\* A registration that commits.
LEMMA CreateStep ==
  ASSUME AccountInv, AccountInv', FirstInv, NEW q \in Request, Create(q)
  PROVE  FirstInv'
<1> DEFINE u == req[q].user
<1>1. u \in User /\ u \notin account /\ req[q].pc = "inserting" /\ req[q].seen \in Nat
  BY RequestKinds DEF Create
<1>2. /\ account' = account \cup {u} /\ driver' = driver
      /\ IF req[q].seen = 0 THEN Promote(u) ELSE UNCHANGED role
      /\ req' = [req EXCEPT ![q] = [pc |-> "answered", op |-> "register", user |-> u,
                                    from |-> req[q].from, token |-> NoToken]]
  BY DEF Create, Answer, Becomes
<1>3. /\ \A p \in Request : p # q => req'[p] = req[p]
      /\ req'[q].pc = "answered"
  BY <1>2 DEF AccountInv
<1>4. Cardinality(account') = Cardinality(account) + 1
  BY <1>1, <1>2, FiniteParts, FS_AddElement
<1>5. ASSUME NEW p \in Request, req'[p].pc = "inserting"
      PROVE  req'[p].seen <= Cardinality(account')
  <2>1. p # q /\ req'[p] = req[p]
    BY <1>3, <1>5
  <2>2. req[p].seen <= Cardinality(account) /\ req[p].seen \in Nat
    BY <1>5, <2>1, RequestKinds DEF FirstInv
  <2> QED BY <1>4, <2>1, <2>2, FiniteParts
<1>6. CASE req[q].seen = 0
  <2>1. role' = [role EXCEPT ![u] = "tenant_admin"]
    BY <1>2, <1>6 DEF Promote
  <2>2. Administrators' = Administrators \cup {u}
    BY <1>1, <2>1 DEF Administrators, AccountInv
  <2>3. u \notin Administrators
    BY <1>1 DEF FirstInv
  <2>4. Cardinality(Administrators') = Cardinality(Administrators) + 1
    BY <2>2, <2>3, FiniteParts, FS_AddElement
  <2>5. driver' = "sqlite" => Cardinality(Administrators') <= 1
    <3>1. SUFFICES ASSUME driver = "sqlite"
                   PROVE  Cardinality(Administrators') <= 1
      BY <1>2
    <3>2. Cardinality(account) = 0
      BY <1>6, <3>1 DEF Create, MayCommit
    <3>3. account = {}
      BY <3>2, FiniteParts, FS_EmptySet
    <3>4. Cardinality(Administrators) = 0
      BY <3>3, FS_EmptySet DEF FirstInv
    <3> QED BY <2>4, <3>4
  <2>6. Early' = Early \ {q} /\ q \in Early
    BY <1>1, <1>3, <1>6 DEF Early
  <2>7. Cardinality(Early') = Cardinality(Early) - 1
    BY <2>6, FiniteParts, FS_RemoveElement
  <2>8. driver' # "sqlite" =>
          Cardinality(Administrators') + Cardinality(Early') <= Cardinality(Request)
    BY <1>2, <2>4, <2>7, FiniteParts DEF FirstInv
  <2>9. Administrators' \subseteq account' /\ Administrators' # {}
    BY <1>2, <2>2 DEF FirstInv
  <2> QED BY <1>5, <2>5, <2>8, <2>9 DEF FirstInv
<1>7. CASE req[q].seen # 0
  <2>1. role' = role /\ Administrators' = Administrators /\ Demoted' = Demoted
    BY <1>2, <1>7 DEF Administrators, Demoted
  <2>2. account # {}
    <3>1. Cardinality(account) # 0
      BY <1>1, <1>7, FiniteParts DEF FirstInv
    <3> QED BY <3>1, FS_EmptySet
  <2>3. Early' = Early
    BY <1>1, <1>3, <1>7 DEF Early
  <2> QED BY <1>2, <1>5, <2>1, <2>2, <2>3 DEF FirstInv
<1> QED BY <1>6, <1>7

\* A request counts the accounts.
LEMMA CountStep ==
  ASSUME AccountInv, AccountInv', FirstInv, NEW q \in Request, NEW b \in Browser, NEW u \in User,
         CountAccounts(q, b, u)
  PROVE  FirstInv'
<1>1. UNCHANGED <<driver, account, role>>
  BY DEF CountAccounts, tables
<1>2. /\ \A p \in Request : p # q => req'[p] = req[p]
      /\ req'[q].pc = "inserting" /\ req'[q].seen = Cardinality(account)
  BY DEF CountAccounts, Becomes, AccountInv
<1>3. Administrators' = Administrators /\ Demoted' = Demoted
  BY <1>1 DEF Administrators, Demoted
<1>4. driver' # "sqlite" =>
        Cardinality(Administrators') + Cardinality(Early') <= Cardinality(Request)
  <2>1. CASE account = {}
    <3>1. Cardinality(Administrators') = 0
      BY <1>3, <2>1, FS_EmptySet DEF FirstInv
    <3>2. Early' \in SUBSET Request
      BY DEF Early
    <3>3. Cardinality(Early') <= Cardinality(Request) /\ Cardinality(Early') \in Nat
      BY <3>2, FiniteAssumption, FS_Subset, FS_CardinalityType
    <3> QED BY <3>1, <3>3, FiniteParts
  <2>2. CASE account # {}
    <3>1. Cardinality(account) # 0
      BY <2>2, FiniteParts, FS_EmptySet
    <3>2. Early' \in SUBSET Early
      BY <1>2, <3>1 DEF Early
    <3>3. Cardinality(Early') <= Cardinality(Early) /\ Cardinality(Early') \in Nat
      BY <3>2, FiniteParts, FS_Subset, FS_CardinalityType
    <3> QED BY <1>1, <1>3, <3>3, FiniteParts DEF FirstInv
  <2> QED BY <2>1, <2>2
<1>5. \A p \in Request : req'[p].pc = "inserting" => req'[p].seen <= Cardinality(account')
  BY <1>1, <1>2, FiniteParts DEF FirstInv
<1> QED BY <1>1, <1>3, <1>4, <1>5 DEF FirstInv

\* A restart, with or without the db migrate that takes roles away on SQLite.
LEMMA RestartStep ==
  ASSUME AccountInv, AccountInv', FirstInv, Restart
  PROVE  FirstInv'
<1>1. UNCHANGED <<driver, account>> /\ \A q \in Request : req'[q].pc = "idle"
  BY DEF Restart, Idle
<1>2. CASE role' = role
  BY <1>1, <1>2, FirstKept
<1>3. CASE role' = MigratedRole /\ driver = "sqlite"
  <2>1. \A u \in User : role'[u] = IF u \in account THEN "tenant_ro" ELSE role[u]
    BY <1>3 DEF MigratedRole
  <2>2. Administrators' = {}
    BY <2>1 DEF Administrators, FirstInv
  <2>3. account \subseteq Demoted'
    BY <2>1 DEF Demoted, AccountInv
  <2>4. Cardinality(Administrators') = 0
    BY <2>2, FS_EmptySet
  <2>5. Administrators' \subseteq account' /\ (account' # {} => Demoted' # {})
        /\ Cardinality(Administrators') <= 1
    BY <1>1, <2>2, <2>3, <2>4
  <2> QED BY <1>1, <1>3, <2>5 DEF FirstInv
<1>4. CASE role' = MigratedRole /\ driver # "sqlite"
  <2>1. role' = role
    BY <1>4 DEF MigratedRole, AccountInv
  <2> QED BY <1>1, <2>1, FirstKept
<1> QED BY <1>2, <1>3, <1>4 DEF Restart

\* However registrations overlap, the first account administers: there is an
\* administrator from the first account on, one on SQLite and at most one for
\* each request at a time on PostgreSQL, until db migrate takes the role away.
THEOREM AdministratorFromTheFirst == Spec => []FirstAccountAdministers
<1>1. Init /\ AccountInv => FirstInv
  <2> SUFFICES ASSUME Init, AccountInv
               PROVE  FirstInv
    OBVIOUS
  <2>1. account = {} /\ Administrators = {} /\ Early = {}
    BY DEF Init, Administrators, Early, Idle
  <2>2. Cardinality(Administrators) = 0 /\ Cardinality(Early) = 0
    BY <2>1, FS_EmptySet
  <2>3. \A q \in Request : req[q].pc = "idle"
    BY DEF Init, Idle
  <2> QED BY <2>1, <2>2, <2>3, FiniteParts DEF FirstInv
<1>2. AccountInv /\ AccountInv' /\ FirstInv /\ [Next]_vars => FirstInv'
  <2> SUFFICES ASSUME AccountInv, AccountInv', FirstInv, [Next]_vars
               PROVE  FirstInv'
    OBVIOUS
  <2>1. ASSUME NEW q \in Request, NEW r, r.pc # "inserting", Becomes(q, r),
               UNCHANGED <<driver, account, role>>
        PROVE  FirstInv'
    <3>1. \A p \in Request : req'[p] = IF p = q THEN r ELSE req[p]
      BY <2>1 DEF Becomes, AccountInv
    <3> QED BY <2>1, <3>1, FirstKept
  <2>2. ASSUME NEW q \in Request, NEW b \in Browser, NEW u \in User, Allow(q, b, u)
        PROVE  FirstInv'
    <3>1. CASE Locked(KeyOf[u][b])
      BY <2>2, <3>1, FirstKept DEF Allow, tables
    <3>2. CASE ~Locked(KeyOf[u][b])
      BY <2>1, <2>2, <3>2 DEF Allow, tables
    <3> QED BY <3>1, <3>2
  <2>3. ASSUME NEW q \in Request,
               (\E b \in Browser : Logout(q, b)) \/ LoginSucceeds(q)
        PROVE  FirstInv'
    BY <2>1, <2>3 DEF Logout, LoginSucceeds, Answer, tables
  <2>4. ASSUME NEW q \in Request, Abandon(q) \/ VerifyFails(q) \/ Deliver(q)
        PROVE  FirstInv'
    BY <2>1, <2>4 DEF Abandon, VerifyFails, Deliver, tables, Idle
  <2>5. CASE Tick \/ (\E u \in User : TokenExpires(u)) \/ UNCHANGED vars
    <3>1. UNCHANGED <<driver, account, role, req>>
      BY <2>5 DEF Tick, TokenExpires, tables, vars
    <3> QED BY <3>1, FirstKept
  <2> QED
    BY <2>2, <2>3, <2>4, <2>5, CreateStep, CountStep, RestartStep DEF Next
<1>3. AccountInv /\ FirstInv => FirstAccountAdministers
  BY FiniteParts DEF FirstInv, FirstAccountAdministers
<1> QED BY <1>1, <1>2, <1>3, AccountInductive, PTL DEF Spec

-----------------------------------------------------------------------------
\* An entry of the login guard at the time t: failures are told apart and none is
\* from the future, and if a lock lasts as long as failures count then there is
\* one until fewer than the limit count.
Entry(a, t) ==
  /\ a.failures \subseteq Failure /\ IsFiniteSet(a.failures)
  /\ \A f \in a.failures : f.at <= t /\ (f.at = t => f.nth < Cardinality(Counting(a, t)))
  /\ Window <= Lockout =>
       \A n \in Nat : n >= t /\ Cardinality(Counting(a, n)) >= MaxFailures => a.until > n

\* Requests that were let in and have still to compare a password.
Verifying(k) == {q \in Request : req[q].pc = "verifying" /\ KeyFor(q) = k}

\* The failures of a key that the store counts.
Stored(k) == Counting(attempts[k], now)

\* What counts and what may still be added to it stay below the bound, because
\* nobody is let in once the limit is reached: the strengthening that makes
\* GuessesBounded inductive.
GuardInv ==
  /\ now \in 1 .. MaxTime /\ restarts \in 0 .. MaxRestart
  /\ \A k \in Key :
       /\ Entry(attempts[k], now)
       /\ Window <= Lockout =>
            Cardinality(Stored(k)) + Cardinality(Verifying(k)) < MaxFailures + Cardinality(Request)

\* Counting failures are finitely many, and fewer later.
LEMMA CountingFinite ==
  ASSUME NEW a, IsFiniteSet(a.failures), a.failures \subseteq Failure,
         NEW t \in Nat, NEW n \in Nat, t <= n
  PROVE  /\ IsFiniteSet(Counting(a, t)) /\ Cardinality(Counting(a, t)) \in Nat
         /\ Cardinality(Counting(a, n)) \in Nat
         /\ Cardinality(Counting(a, n)) <= Cardinality(Counting(a, t))
<1>1. Counting(a, t) \in SUBSET a.failures
  BY DEF Counting
<1>2. IsFiniteSet(Counting(a, t))
  BY <1>1, FS_Subset
<1>3. ASSUME NEW f \in Counting(a, n)
      PROVE  f \in Counting(a, t)
  <2>1. f \in a.failures /\ f.at + Window > n
    BY DEF Counting
  <2>2. f.at \in Nat
    BY <2>1 DEF Failure
  <2> QED BY <2>1, <2>2, GuardAssumption DEF Counting
<1>4. Counting(a, n) \in SUBSET Counting(a, t)
  BY <1>3
<1>5. IsFiniteSet(Counting(a, n)) /\ Cardinality(Counting(a, n)) <= Cardinality(Counting(a, t))
  BY <1>2, <1>4, FS_Subset
<1> QED BY <1>2, <1>5, FS_CardinalityType

\* Requests that are let in are finitely many.
LEMMA VerifyingFinite ==
  ASSUME NEW k
  PROVE  /\ IsFiniteSet(Verifying(k)) /\ Cardinality(Verifying(k)) \in Nat
         /\ Cardinality(Verifying(k)) <= Cardinality(Request) /\ Cardinality(Request) \in Nat
<1>1. Verifying(k) \in SUBSET Request
  BY DEF Verifying
<1>2. IsFiniteSet(Verifying(k)) /\ Cardinality(Verifying(k)) <= Cardinality(Request)
  BY <1>1, FiniteAssumption, FS_Subset
<1> QED BY <1>2, FiniteAssumption, FS_CardinalityType

\* A key without failures.
LEMMA NoEntry ==
  ASSUME NEW t \in Nat
  PROVE  Entry(NoAttempts, t) /\ Cardinality(Counting(NoAttempts, t)) = 0
<1>1. NoAttempts.failures = {} /\ NoAttempts.until = 0
  BY DEF NoAttempts
<1>2. \A n : Counting(NoAttempts, n) = {}
  BY <1>1 DEF Counting
<1>3. IsFiniteSet({}) /\ Cardinality({}) = 0
  BY FS_EmptySet
<1> QED BY <1>1, <1>2, <1>3, GuardAssumption DEF Entry

\* A look at an entry drops what does not count and a lock that is over.
LEMMA EntryPruned ==
  ASSUME now \in Nat, NEW a, a.until \in Nat, Entry(a, now)
  PROVE  Entry(Pruned(a), now) /\ Counting(Pruned(a), now) = Counting(a, now)
<1>1. PICK p : p = Pruned(a)
  OBVIOUS
<1>2. /\ p.failures = Counting(a, now) /\ p.failures \subseteq a.failures
      /\ p.until = IF a.until > now THEN a.until ELSE 0
  BY <1>1 DEF Pruned, Counting
<1>3. ASSUME NEW n \in Nat, n >= now
      PROVE  Counting(p, n) = Counting(a, n)
  <2>1. \A f \in a.failures : f.at \in Nat
    BY DEF Entry, Failure
  <2>2. \A f \in a.failures : f.at + Window > n => f.at + Window > now
    BY <1>3, <2>1, GuardAssumption
  <2> QED BY <1>2, <2>2 DEF Counting
<1>4. IsFiniteSet(p.failures)
  BY <1>2, FS_Subset DEF Entry
<1>5. Counting(p, now) = Counting(a, now)
  BY <1>3
<1>6. \A f \in p.failures : f.at <= now /\ (f.at = now => f.nth < Cardinality(Counting(p, now)))
  BY <1>2, <1>5 DEF Entry
<1>7. ASSUME Window <= Lockout, NEW n \in Nat, n >= now, Cardinality(Counting(p, n)) >= MaxFailures
      PROVE  p.until > n
  <2>1. a.until > n
    BY <1>3, <1>7 DEF Entry
  <2> QED BY <1>2, <1>7, <2>1
<1>8. Entry(p, now)
  BY <1>2, <1>4, <1>6, <1>7 DEF Entry
<1> QED BY <1>1, <1>5, <1>8

\* A failure is one more that counts, and locks the key if it is one too many.
LEMMA EntryFailed ==
  ASSUME now \in 1 .. MaxTime, NEW a, Entry(a, now)
  PROVE  /\ Entry(WithFailure(a), now)
         /\ Cardinality(Counting(WithFailure(a), now)) = Cardinality(Counting(a, now)) + 1
         /\ Counting(WithFailure(a), now) =
              Counting(a, now) \cup {[at |-> now, nth |-> Cardinality(Counting(a, now))]}
         /\ [at |-> now, nth |-> Cardinality(Counting(a, now))] \in Failure
<1>0. now \in Nat /\ Window \in Nat \ {0} /\ Lockout \in Nat /\ MaxFailures \in Nat \ {0}
  BY GuardAssumption
<1>1. PICK w : w = WithFailure(a)
  OBVIOUS
<1>2. PICK old : old = Counting(a, now)
  OBVIOUS
<1>3. PICK new : new = [at |-> now, nth |-> Cardinality(old)]
  OBVIOUS
<1>4. IsFiniteSet(old) /\ Cardinality(old) \in Nat
  BY <1>0, <1>2, CountingFinite DEF Entry
<1>5. new \in Failure /\ new.at = now /\ new.nth = Cardinality(old)
  BY <1>3, <1>4 DEF Failure
<1>6. /\ old \subseteq Failure
      /\ \A f \in old : f.at <= now /\ (f.at = now => f.nth < Cardinality(old)) /\ f.at + Window > now
  BY <1>2 DEF Entry, Counting
<1>7. new \notin old
  BY <1>4, <1>5, <1>6
<1>8. PICK all : all = old \cup {new}
  OBVIOUS
<1>9. IsFiniteSet(all) /\ Cardinality(all) = Cardinality(old) + 1
  BY <1>4, <1>7, <1>8, FS_AddElement
<1>10. /\ w.failures = all
       /\ w.until = IF Cardinality(all) >= MaxFailures THEN now + Lockout ELSE Pruned(a).until
  <2>1. Failed(a) = all
    BY <1>2, <1>3, <1>8 DEF Failed
  <2> QED BY <1>1, <2>1 DEF WithFailure
<1>11. Counting(w, now) = all
  BY <1>0, <1>5, <1>6, <1>8, <1>10 DEF Counting
<1>12. all \subseteq Failure
       /\ \A f \in all : f.at <= now /\ (f.at = now => f.nth < Cardinality(all))
  <2>1. \A f \in old : f.nth \in Nat
    BY <1>6 DEF Failure
  <2> QED BY <1>0, <1>4, <1>5, <1>6, <1>8, <1>9, <2>1
<1>13. ASSUME Window <= Lockout, NEW n \in Nat, n >= now, Cardinality(Counting(w, n)) >= MaxFailures
       PROVE  w.until > n
  <2>1. Cardinality(Counting(w, n)) <= Cardinality(all) /\ Cardinality(Counting(w, n)) \in Nat
    BY <1>0, <1>9, <1>10, <1>11, <1>12, <1>13, CountingFinite
  <2>2. w.until = now + Lockout
    BY <1>0, <1>4, <1>9, <1>10, <1>13, <2>1
  <2>3. Counting(w, n) # {}
    BY <1>0, <1>13, FS_EmptySet
  <2>4. PICK f \in w.failures : f.at + Window > n
    BY <2>3 DEF Counting
  <2>5. f.at <= now /\ f.at \in Nat
    BY <1>10, <1>12, <2>4 DEF Failure
  <2> QED BY <1>0, <1>13, <2>2, <2>4, <2>5
<1>14. Entry(w, now)
  BY <1>9, <1>10, <1>11, <1>12, <1>13 DEF Entry
<1> QED BY <1>1, <1>2, <1>3, <1>5, <1>8, <1>9, <1>11, <1>14

\* Steps that leave the guard and whoever it let in alone.
LEMMA GuardKept ==
  ASSUME AccountInv, GuardInv, UNCHANGED <<attempts, now, restarts>>,
         \A q \in Request : req'[q].pc = "verifying" => req'[q] = req[q]
  PROVE  GuardInv'
<1>1. ASSUME NEW k \in Key, Window <= Lockout
      PROVE  Cardinality(Stored(k)') + Cardinality(Verifying(k)') < MaxFailures + Cardinality(Request)
  <2>1. Verifying(k)' \in SUBSET Verifying(k) /\ Stored(k)' = Stored(k)
    BY DEF Verifying, KeyFor, Stored
  <2>2. Cardinality(Verifying(k)') <= Cardinality(Verifying(k)) /\ Cardinality(Verifying(k)') \in Nat
    BY <2>1, VerifyingFinite, FS_Subset, FS_CardinalityType
  <2>3. Cardinality(Stored(k)) \in Nat
    BY CountingFinite DEF GuardInv, Entry, Stored
  <2>4. Cardinality(Verifying(k)) \in Nat /\ Cardinality(Request) \in Nat
    BY VerifyingFinite
  <2>5. Cardinality(Stored(k)) + Cardinality(Verifying(k)) < MaxFailures + Cardinality(Request)
    BY <1>1 DEF GuardInv
  <2> QED BY <2>1, <2>2, <2>3, <2>4, <2>5, GuardAssumption
<1> QED BY <1>1 DEF GuardInv

\* A request that asks the guard.
LEMMA AllowStep ==
  ASSUME AccountInv, GuardInv, NEW q \in Request, NEW b \in Browser, NEW u \in User, Allow(q, b, u)
  PROVE  GuardInv'
<1>0. PICK k \in Key : k = KeyOf[u][b]
  BY KeyAssumption
<1>1. /\ now' = now /\ restarts' = restarts /\ now \in Nat /\ req[q].pc = "idle"
      /\ attempts' = [attempts EXCEPT ![k] = Pruned(@)]
      /\ IF Locked(k) THEN req' = req ELSE Becomes(q, [pc |-> "verifying", user |-> u, from |-> b])
  BY <1>0 DEF Allow, AccountInv, Idle
<1>2. \A l \in Key : attempts'[l] = IF l = k THEN Pruned(attempts[k]) ELSE attempts[l]
  BY <1>1 DEF AccountInv
<1>3. \A l \in Key : Entry(attempts'[l], now') /\ Stored(l)' = Stored(l)
  BY <1>1, <1>2, EntryPruned DEF AccountInv, GuardInv, Stored
<1>4. ASSUME NEW l \in Key, Window <= Lockout
      PROVE  Cardinality(Stored(l)') + Cardinality(Verifying(l)') < MaxFailures + Cardinality(Request)
  <2>1. Cardinality(Stored(l)) + Cardinality(Verifying(l)) < MaxFailures + Cardinality(Request)
    BY <1>4 DEF GuardInv
  <2>2. CASE l = k /\ ~Locked(k)
    <3>1. Cardinality(Stored(k)) \in Nat
      BY <1>1, CountingFinite DEF GuardInv, Entry, Stored
    <3>2. attempts[k].until \in Nat /\ ~(attempts[k].until > now)
      BY <2>2 DEF AccountInv, Locked
    <3>3. ~(Cardinality(Stored(k)) >= MaxFailures)
      BY <1>1, <1>4, <3>2 DEF GuardInv, Entry, Stored
    <3>4. Verifying(l)' \in SUBSET Request
      BY DEF Verifying
    <3>5. Cardinality(Verifying(l)') <= Cardinality(Request) /\ Cardinality(Verifying(l)') \in Nat
      BY <3>4, FiniteAssumption, FS_Subset, FS_CardinalityType
    <3>6. Cardinality(Request) \in Nat
      BY FiniteAssumption, FS_CardinalityType
    <3> QED BY <1>3, <2>2, <3>1, <3>3, <3>5, <3>6, GuardAssumption
  <2>3. CASE l # k \/ Locked(k)
    <3>1. CASE Locked(k)
      <4>1. Verifying(l)' = Verifying(l)
        BY <1>1, <3>1 DEF Verifying, KeyFor
      <4> QED BY <1>3, <2>1, <4>1
    <3>2. CASE l # k /\ ~Locked(k)
      <4>1. \A p \in Request :
              req'[p] = IF p = q THEN [pc |-> "verifying", user |-> u, from |-> b] ELSE req[p]
        BY <1>1, <3>2 DEF Becomes, AccountInv
      <4>2. KeyFor(q)' = k
        BY <1>0, <4>1 DEF KeyFor
      <4>3. \A p \in Request : p # q => req'[p] = req[p] /\ KeyFor(p)' = KeyFor(p)
        BY <4>1 DEF KeyFor
      <4>4. Verifying(l)' = Verifying(l)
        BY <1>1, <3>2, <4>2, <4>3 DEF Verifying
      <4> QED BY <1>3, <2>1, <4>4
    <3> QED BY <2>3, <3>1, <3>2
  <2> QED BY <2>2, <2>3
<1> QED BY <1>1, <1>3, <1>4 DEF GuardInv

\* A wrong password.
LEMMA FailStep ==
  ASSUME AccountInv, GuardInv, NEW q \in Request, VerifyFails(q)
  PROVE  GuardInv'
<1>1. PICK k : k = KeyFor(q)
  OBVIOUS
<1>2. /\ k \in Key /\ now' = now /\ restarts' = restarts /\ now \in 1 .. MaxTime /\ now \in Nat
      /\ attempts' = [attempts EXCEPT ![k] = WithFailure(@)] /\ req' = [req EXCEPT ![q] = Idle]
      /\ req[q].pc = "verifying"
  BY <1>1, RequestKinds DEF VerifyFails, Becomes, GuardInv
<1>3. \A l \in Key : attempts'[l] = IF l = k THEN WithFailure(attempts[k]) ELSE attempts[l]
  BY <1>2 DEF AccountInv
<1>4. \A l \in Key : Entry(attempts'[l], now')
  BY <1>2, <1>3, EntryFailed DEF GuardInv
<1>5. /\ \A l \in Key : l # k => Stored(l)' = Stored(l) /\ Verifying(l)' = Verifying(l)
      /\ Verifying(k)' = Verifying(k) \ {q} /\ q \in Verifying(k)
  <2>1. /\ \A p \in Request : p # q => req'[p] = req[p] /\ KeyFor(p)' = KeyFor(p)
        /\ req'[q].pc = "idle"
    BY <1>2 DEF KeyFor, Idle, AccountInv
  <2>2. \A l \in Key : l # k => Verifying(l)' = Verifying(l)
    BY <1>1, <1>2, <2>1 DEF Verifying
  <2>3. Verifying(k)' = Verifying(k) \ {q} /\ q \in Verifying(k)
    BY <1>1, <1>2, <2>1 DEF Verifying
  <2>4. \A l \in Key : l # k => Stored(l)' = Stored(l)
    BY <1>2, <1>3 DEF Stored
  <2> QED BY <2>2, <2>3, <2>4
<1>6. Cardinality(Stored(k)') = Cardinality(Stored(k)) + 1 /\ Cardinality(Stored(k)) \in Nat
  <2>1. Entry(attempts[k], now)
    BY <1>2 DEF GuardInv
  <2>2. Cardinality(Counting(WithFailure(attempts[k]), now)) = Cardinality(Counting(attempts[k], now)) + 1
    BY <1>2, <2>1, EntryFailed
  <2>3. Cardinality(Counting(attempts[k], now)) \in Nat
    BY <1>2, <2>1, CountingFinite DEF Entry
  <2> QED BY <1>2, <1>3, <2>2, <2>3 DEF Stored
<1>7. Cardinality(Verifying(k)') = Cardinality(Verifying(k)) - 1
  BY <1>5, VerifyingFinite, FS_RemoveElement
<1>8. ASSUME NEW l \in Key, Window <= Lockout
      PROVE  Cardinality(Stored(l)') + Cardinality(Verifying(l)') < MaxFailures + Cardinality(Request)
  <2>1. Cardinality(Stored(l)) + Cardinality(Verifying(l)) < MaxFailures + Cardinality(Request)
    BY <1>8 DEF GuardInv
  <2>2. Cardinality(Verifying(k)) \in Nat /\ Cardinality(Request) \in Nat /\ MaxFailures \in Nat
    BY VerifyingFinite, GuardAssumption
  <2>3. CASE l = k
    <3>1. \A s, v \in Nat : (s + 1) + (v - 1) = s + v
      OBVIOUS
    <3>2. Cardinality(Stored(k)') + Cardinality(Verifying(k)')
            = Cardinality(Stored(k)) + Cardinality(Verifying(k))
      BY <1>6, <1>7, <2>2, <3>1
    <3> QED BY <2>1, <2>3, <3>2
  <2>4. CASE l # k
    <3>1. Stored(l)' = Stored(l) /\ Verifying(l)' = Verifying(l)
      BY <1>5, <2>4
    <3> QED BY <2>1, <3>1
  <2> QED BY <2>3, <2>4
<1> QED BY <1>2, <1>4, <1>8 DEF GuardInv

\* A right password, and a restart: nothing counts any more.
LEMMA ForgetStep ==
  ASSUME AccountInv, GuardInv, now' = now, restarts' \in 0 .. MaxRestart,
         \A k \in Key : attempts'[k] \in {attempts[k], NoAttempts},
         \A p \in Request : req'[p].pc = "verifying" => req'[p] = req[p]
  PROVE  GuardInv'
<1>1. now \in Nat /\ now' \in 1 .. MaxTime
  BY DEF GuardInv
<1>2. \A k \in Key : Entry(attempts'[k], now')
  BY <1>1, NoEntry DEF GuardInv
<1>3. ASSUME NEW k \in Key, Window <= Lockout
      PROVE  Cardinality(Stored(k)') + Cardinality(Verifying(k)') < MaxFailures + Cardinality(Request)
  <2>1. Verifying(k)' \in SUBSET Verifying(k)
    BY DEF Verifying, KeyFor
  <2>2. Cardinality(Verifying(k)') <= Cardinality(Verifying(k)) /\ Cardinality(Verifying(k)') \in Nat
    BY <2>1, VerifyingFinite, FS_Subset, FS_CardinalityType
  <2>3. Cardinality(Stored(k)) \in Nat
    BY <1>1, CountingFinite DEF GuardInv, Entry, Stored
  <2>4. Cardinality(Verifying(k)) \in Nat /\ Cardinality(Request) \in Nat
    BY VerifyingFinite
  <2>5. Cardinality(Stored(k)) + Cardinality(Verifying(k)) < MaxFailures + Cardinality(Request)
    BY <1>3 DEF GuardInv
  <2>6. Cardinality(Stored(k)') \in {Cardinality(Stored(k)), 0}
    BY <1>1, NoEntry DEF Stored
  <2> QED BY <2>2, <2>3, <2>4, <2>5, <2>6, GuardAssumption
<1> QED BY <1>1, <1>2, <1>3 DEF GuardInv

\* Time passes: less counts, and a lock that is over was the last of its failures.
LEMMA TickStep ==
  ASSUME AccountInv, GuardInv, Tick
  PROVE  GuardInv'
<1>1. now \in Nat /\ now' = now + 1 /\ now' \in 1 .. MaxTime /\ now <= now'
      /\ UNCHANGED <<attempts, req, restarts>>
  BY AccountAssumption DEF Tick, GuardInv, memory
<1>2. \A k \in Key : attempts[k].failures \subseteq Failure /\ IsFiniteSet(attempts[k].failures)
  BY DEF GuardInv, Entry
<1>3. ASSUME NEW k \in Key
      PROVE  Entry(attempts[k], now')
  <2>1. \A f \in attempts[k].failures : f.at <= now'  /\ f.at # now'
    BY <1>1, <1>2 DEF GuardInv, Entry, Failure
  <2> QED BY <1>1, <1>2, <2>1 DEF GuardInv, Entry
<1>4. ASSUME NEW k \in Key, Window <= Lockout
      PROVE  Cardinality(Stored(k)') + Cardinality(Verifying(k)') < MaxFailures + Cardinality(Request)
  <2>1. Stored(k)' = Counting(attempts[k], now') /\ Verifying(k)' = Verifying(k)
    BY <1>1 DEF Stored, Verifying, KeyFor
  <2>2. /\ Cardinality(Counting(attempts[k], now')) <= Cardinality(Stored(k))
        /\ Cardinality(Counting(attempts[k], now')) \in Nat /\ Cardinality(Stored(k)) \in Nat
    BY <1>1, <1>2, CountingFinite DEF Stored
  <2>3. Cardinality(Stored(k)) + Cardinality(Verifying(k)) < MaxFailures + Cardinality(Request)
    BY <1>4 DEF GuardInv
  <2>4. Cardinality(Verifying(k)) \in Nat /\ Cardinality(Request) \in Nat
    BY VerifyingFinite
  <2> QED BY <2>1, <2>2, <2>3, <2>4, GuardAssumption
<1> QED BY <1>1, <1>3, <1>4 DEF GuardInv

\* Every step keeps the guard's entries and its bound.
LEMMA GuardInductive == Spec => []GuardInv
<1>1. Init => GuardInv
  <2> SUFFICES ASSUME Init
               PROVE  GuardInv
    OBVIOUS
  <2>1. now = 1 /\ restarts = 0 /\ now \in 1 .. MaxTime /\ restarts \in 0 .. MaxRestart
    BY AccountAssumption DEF Init
  <2>2. ASSUME NEW k \in Key
        PROVE  Entry(attempts[k], now) /\ Cardinality(Stored(k)) = 0
    BY <2>1, <2>2, NoEntry DEF Init, Stored
  <2>3. ASSUME NEW k \in Key
        PROVE  Cardinality(Stored(k)) + Cardinality(Verifying(k)) < MaxFailures + Cardinality(Request)
    BY <2>2, VerifyingFinite, GuardAssumption
  <2> QED BY <2>1, <2>2, <2>3 DEF GuardInv
<1>2. AccountInv /\ GuardInv /\ [Next]_vars => GuardInv'
  <2> SUFFICES ASSUME AccountInv, GuardInv, [Next]_vars
               PROVE  GuardInv'
    OBVIOUS
  <2>1. ASSUME NEW q \in Request, NEW r, r.pc # "verifying", Becomes(q, r),
               UNCHANGED <<attempts, now, restarts>>
        PROVE  GuardInv'
    <3>1. \A p \in Request : req'[p] = IF p = q THEN r ELSE req[p]
      BY <2>1 DEF Becomes, AccountInv
    <3> QED BY <2>1, <3>1, GuardKept
  <2>2. ASSUME NEW q \in Request, Create(q) \/ Abandon(q) \/ Deliver(q)
        PROVE  GuardInv'
    BY <2>1, <2>2 DEF Create, Abandon, Deliver, Answer, memory, Idle
  <2>3. ASSUME NEW q \in Request, NEW b \in Browser, Logout(q, b)
        PROVE  GuardInv'
    BY <2>1, <2>3 DEF Logout, Answer, memory
  <2>4. ASSUME NEW q \in Request, NEW b \in Browser, NEW u \in User, CountAccounts(q, b, u)
        PROVE  GuardInv'
    BY <2>1, <2>4 DEF CountAccounts, memory
  <2>5. ASSUME NEW q \in Request, LoginSucceeds(q)
        PROVE  GuardInv'
    <3>1. UNCHANGED <<now, restarts>> /\ restarts \in 0 .. MaxRestart
          /\ attempts' = [attempts EXCEPT ![KeyFor(q)] = NoAttempts]
      BY <2>5 DEF LoginSucceeds, GuardInv
    <3>2. \A k \in Key : attempts'[k] \in {attempts[k], NoAttempts}
      BY <3>1 DEF AccountInv
    <3>3. PICK r : r.pc = "answered" /\ req' = [req EXCEPT ![q] = r]
      BY <2>5 DEF LoginSucceeds, Answer, Becomes
    <3>4. \A p \in Request : req'[p].pc = "verifying" => req'[p] = req[p]
      BY <3>3 DEF AccountInv
    <3> QED BY <3>1, <3>2, <3>4, ForgetStep
  <2>6. CASE Restart
    <3>1. now' = now /\ restarts' \in 0 .. MaxRestart
      BY <2>6, AccountAssumption DEF Restart, GuardInv
    <3>2. \A k \in Key : attempts'[k] = NoAttempts
      BY <2>6 DEF Restart
    <3>3. \A p \in Request : req'[p].pc = "idle"
      BY <2>6 DEF Restart, Idle
    <3> QED BY <3>1, <3>2, <3>3, ForgetStep
  <2>7. CASE (\E u \in User : TokenExpires(u)) \/ UNCHANGED vars
    <3>1. UNCHANGED <<attempts, now, restarts, req>>
      BY <2>7 DEF TokenExpires, vars, memory
    <3> QED BY <3>1, GuardKept
  <2> QED
    BY <2>2, <2>3, <2>4, <2>5, <2>6, <2>7, AllowStep, FailStep, TickStep DEF Next
<1> QED BY <1>1, <1>2, AccountInductive, PTL DEF Spec

\* The wrong passwords of the window that ends now are the failures the store
\* counts: it prunes none too early and forgets none that still counts.
NothingLost ==
  /\ wrong \in [Key -> SUBSET Failure]
  /\ \A k \in Key : Recent(k) = Stored(k)

LEMMA NothingLostInductive == Spec => []NothingLost
<1>1. Init => NothingLost
  BY DEF Init, NothingLost, Recent, Stored, Counting, NoAttempts
<1>2. AccountInv /\ GuardInv /\ NothingLost /\ [Next]_vars => NothingLost'
  <2> SUFFICES ASSUME AccountInv, GuardInv, NothingLost, [Next]_vars
               PROVE  NothingLost'
    OBVIOUS
  <2>1. ASSUME UNCHANGED <<attempts, wrong, now>>
        PROVE  NothingLost'
    BY <2>1 DEF NothingLost, Recent, Stored
  <2>2. ASSUME NEW q \in Request, NEW b \in Browser, NEW u \in User, Allow(q, b, u)
        PROVE  NothingLost'
    <3>1. PICK k \in Key : k = KeyOf[u][b]
      BY KeyAssumption
    <3>2. now' = now /\ wrong' = wrong /\ now \in Nat /\ attempts' = [attempts EXCEPT ![k] = Pruned(@)]
      BY <2>2, <3>1 DEF Allow, AccountInv
    <3>3. \A l \in Key : attempts'[l] = IF l = k THEN Pruned(attempts[k]) ELSE attempts[l]
      BY <3>2 DEF AccountInv
    <3>4. \A l \in Key : Stored(l)' = Stored(l)
      BY <3>2, <3>3, EntryPruned DEF AccountInv, GuardInv, Stored
    <3> QED BY <3>2, <3>4 DEF NothingLost, Recent
  <2>3. ASSUME NEW q \in Request, VerifyFails(q)
        PROVE  NothingLost'
    <3>1. PICK k \in Key : k = KeyFor(q)
      BY <2>3, RequestKinds DEF VerifyFails
    <3>2. PICK new : new = [at |-> now, nth |-> Cardinality(Stored(k))]
      OBVIOUS
    <3>3. Recent(k) = Stored(k)
      BY DEF NothingLost
    <3>4. /\ now' = now /\ now \in 1 .. MaxTime
          /\ attempts' = [attempts EXCEPT ![k] = WithFailure(@)]
          /\ wrong' = [wrong EXCEPT ![k] = @ \cup {new}]
      BY <2>3, <3>1, <3>2, <3>3 DEF VerifyFails, GuardInv
    <3>5. /\ Counting(WithFailure(attempts[k]), now) = Stored(k) \cup {new}
          /\ new \in Failure
      BY <3>2, <3>4, EntryFailed DEF GuardInv, Stored
    <3>6. new.at + Window > now
      BY <3>2, <3>4, GuardAssumption
    <3>7. /\ \A l \in Key : wrong'[l] = IF l = k THEN wrong[k] \cup {new} ELSE wrong[l]
          /\ wrong' \in [Key -> SUBSET Failure]
      BY <3>4, <3>5 DEF NothingLost
    <3>8. \A l \in Key : attempts'[l] = IF l = k THEN WithFailure(attempts[k]) ELSE attempts[l]
      BY <3>4 DEF AccountInv
    <3>9. Recent(k)' = Recent(k) \cup {new} /\ Stored(k)' = Stored(k) \cup {new}
      BY <3>4, <3>5, <3>6, <3>7, <3>8 DEF Recent, Stored
    <3>10. \A l \in Key : l # k => Recent(l)' = Recent(l) /\ Stored(l)' = Stored(l)
      BY <3>4, <3>7, <3>8 DEF Recent, Stored
    <3>11. \A l \in Key : Recent(l)' = Stored(l)'
      BY <3>3, <3>9, <3>10 DEF NothingLost
    <3> QED BY <3>7, <3>11 DEF NothingLost
  <2>4. ASSUME NEW q \in Request, LoginSucceeds(q)
        PROVE  NothingLost'
    <3>1. /\ now' = now /\ attempts' = [attempts EXCEPT ![KeyFor(q)] = NoAttempts]
          /\ wrong' = [wrong EXCEPT ![KeyFor(q)] = {}]
      BY <2>4 DEF LoginSucceeds
    <3>2. \A k \in Key : /\ attempts'[k] = IF k = KeyFor(q) THEN NoAttempts ELSE attempts[k]
                         /\ wrong'[k] = IF k = KeyFor(q) THEN {} ELSE wrong[k]
      BY <3>1 DEF AccountInv, NothingLost
    <3>3. \A k \in Key : Recent(k)' = Stored(k)'
      BY <3>1, <3>2 DEF NothingLost, Recent, Stored, Counting, NoAttempts
    <3> QED BY <3>1, <3>3 DEF NothingLost
  <2>5. CASE Tick
    <3>1. now' = now + 1 /\ now \in Nat /\ UNCHANGED <<attempts, wrong>>
      BY <2>5 DEF Tick, AccountInv, memory
    <3>2. ASSUME NEW k \in Key
          PROVE  Recent(k)' = Stored(k)'
      <4>1. Recent(k) = Stored(k)
        BY DEF NothingLost
      <4>2. \A f \in wrong[k] \cup attempts[k].failures : f.at \in Nat
        BY DEF NothingLost, GuardInv, Entry, Failure
      <4>3. \A f \in wrong[k] \cup attempts[k].failures :
              f.at + Window > now + 1 => f.at + Window > now
        BY <3>1, <4>2, GuardAssumption
      <4>4. Recent(k)' = {f \in Recent(k) : f.at + Window > now + 1}
        BY <3>1, <4>3 DEF Recent
      <4>5. Stored(k)' = {f \in Stored(k) : f.at + Window > now + 1}
        BY <3>1, <4>3 DEF Stored, Counting
      <4> QED BY <4>1, <4>4, <4>5
    <3> QED BY <3>1, <3>2 DEF NothingLost
  <2>6. CASE Restart
    <3>1. attempts' = [k \in Key |-> NoAttempts] /\ wrong' = [k \in Key |-> {}]
      BY <2>6 DEF Restart
    <3> QED BY <3>1 DEF NothingLost, Recent, Stored, Counting, NoAttempts
  <2> QED
    BY <2>1, <2>2, <2>3, <2>4, <2>5, <2>6
    DEF Next, CountAccounts, Logout, Create, Abandon, Deliver, TokenExpires, memory, vars
<1> QED BY <1>1, <1>2, AccountInductive, GuardInductive, PTL DEF Spec

\* Accounts, the guard's entries, sessions, tokens and requests are well typed:
\* a role is one of the three, and a lock ends within Lockout of the clock.
THEOREM TypeCorrect == Spec => []TypeOK
<1>1. AccountInv /\ GuardInv /\ NothingLost => TypeOK
  <2> SUFFICES ASSUME AccountInv, GuardInv, NothingLost
               PROVE  TypeOK
    OBVIOUS
  <2>1. now \in 1 .. MaxTime /\ MaxTime \in Nat /\ Lockout \in Nat
    BY AccountAssumption, GuardAssumption DEF GuardInv
  <2>2. \A k \in Key : attempts[k].until \in 0 .. MaxTime + Lockout
    BY <2>1 DEF AccountInv
  <2>3. \A k \in Key : attempts[k].failures \subseteq Failure
    BY DEF GuardInv, Entry
  <2> QED BY <2>2, <2>3 DEF AccountInv, GuardInv, NothingLost, TypeOK
<1> QED BY <1>1, AccountInductive, GuardInductive, NothingLostInductive, PTL

\* If a lock lasts as long as failures count: between two right passwords for names
\* of one key, and between two restarts, every window holds fewer wrong passwords
\* than the limit and one for each request that overlapped the lock, however
\* requests, looks at the guard, restarts and the clock interleave.
THEOREM GuessesStayBounded == Spec => []GuessesBounded
<1>1. GuardInv /\ NothingLost => GuessesBounded
  <2> SUFFICES ASSUME GuardInv, NothingLost, Window <= Lockout, NEW k \in Key
               PROVE  Cardinality(Recent(k)) < MaxFailures + Cardinality(Request)
    BY DEF GuessesBounded
  <2>1. Cardinality(Stored(k)) + Cardinality(Verifying(k)) < MaxFailures + Cardinality(Request)
    BY DEF GuardInv
  <2>2. Cardinality(Stored(k)) \in Nat /\ Recent(k) = Stored(k)
    BY CountingFinite DEF GuardInv, NothingLost, Entry, Stored
  <2> QED BY <2>1, <2>2, VerifyingFinite, GuardAssumption
<1> QED BY <1>1, GuardInductive, NothingLostInductive, PTL
=============================================================================
