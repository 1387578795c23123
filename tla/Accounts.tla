------------------------------ MODULE Accounts ------------------------------
(***************************************************************************)
(* Accounts of the management API: registration and the first              *)
(* administrator (storage/identity), login with its guard against guessed  *)
(* passwords (web/v1/login_guard.go, login_attempt_store_memory.go),       *)
(* sessions and CSRF tokens (web/v1/auth.go, csrf.go, middleware.go,       *)
(* identity), and what a restart and `db migrate` do to them.              *)
(*                                                                         *)
(* A browser holds two cookies: the session, which the Core only signs,    *)
(* and the CSRF token, which the Core remembers per user name.  Several    *)
(* requests may be under way, also from one browser.                       *)
(***************************************************************************)
EXTENDS Naturals, FiniteSets

CONSTANTS
  User, Browser, Request,
  NoUser,
  Key,          \* keys of the login guard
  KeyOf,        \* loginAttemptKey: the key of a user name sent from a browser
  Driver,       \* the database drivers to be looked at
  Visitor,      \* the users somebody logs in as, with the right or a wrong password
  MaxFailures,  \* LoginProtection.MaxFailures
  Window,       \* LoginProtection.Window
  Lockout,      \* LoginProtection.Lockout
  MaxTime,      \* bound of the clock
  MaxToken,     \* bound of the number of CSRF tokens
  MaxRestart    \* bound of the number of restarts

ASSUME DriverAssumption == Driver \subseteq {"sqlite", "postgres"}
ASSUME GuardAssumption ==
  /\ MaxFailures \in Nat \ {0} /\ Window \in Nat \ {0} /\ Lockout \in Nat \ {0}
\* Names that differ only in case have one key, and so have browsers that share an
\* address; accounts are told apart by case.
ASSUME KeyAssumption == KeyOf \in [User -> [Browser -> Key]]
ASSUME FiniteAssumption == IsFiniteSet(User) /\ IsFiniteSet(Request)
ASSUME AccountAssumption ==
  /\ NoUser \notin User /\ Visitor \subseteq User
  /\ MaxTime \in Nat \ {0} /\ MaxToken \in Nat /\ MaxRestart \in Nat

VARIABLES
  driver,    \* DB_DRIVER
  account,   \* the users table
  role,      \* tenant_users of the legacy tenant
  attempts,  \* InMemoryLoginAttemptStore.attempts
  wrong,     \* history: the wrong passwords for the names of each key, since the
             \* last right one or the start of the process
  csrf,      \* InMemoryCSRFStore.tokens, 0 if there is none or it expired
  minted,    \* the last CSRF token
  browser,   \* the cookies of each browser
  req,       \* the HTTP requests under way
  now,       \* the clock of the login guard
  restarts

tables == <<driver, account, role>>
memory == <<attempts, wrong, csrf, minted>>
vars == <<tables, memory, browser, req, now, restarts>>

Role == {"none", "tenant_ro", "tenant_admin"}
NoToken == 0
Token == 0 .. MaxToken
Idle == [pc |-> "idle"]

\* A LoginAttemptSnapshot: the failures and LockedUntil (0 is its zero value).  Of
\* a failure it has the time; nth tells those of the same time apart.
Failure == [at: 1 .. MaxTime, nth: Nat]
NoAttempts == [failures |-> {}, until |-> 0]

Pending ==
  [pc: {"inserting"}, user: User, from: Browser, seen: 0 .. Cardinality(User)] \cup
  [pc: {"verifying"}, user: User, from: Browser] \cup
  [pc: {"answered"}, op: {"register", "login", "logout"}, user: User, from: Browser,
   token: Token]

TypeOK ==
  /\ driver \in Driver
  /\ account \subseteq User
  /\ role \in [User -> Role]
  /\ \A k \in Key :
       /\ attempts[k].failures \subseteq Failure
       /\ attempts[k].until \in 0 .. MaxTime + Lockout
  /\ wrong \in [Key -> SUBSET Failure]
  /\ csrf \in [User -> Token]
  /\ minted \in Token
  /\ browser \in [Browser -> [user: User \cup {NoUser}, token: Token]]
  /\ req \in [Request -> Pending \cup {Idle}]
  /\ now \in 1 .. MaxTime
  /\ restarts \in 0 .. MaxRestart

Init ==
  /\ driver \in Driver
  /\ account = {}
  /\ role = [u \in User |-> "none"]
  /\ attempts = [k \in Key |-> NoAttempts]
  /\ wrong = [k \in Key |-> {}]
  /\ csrf = [u \in User |-> NoToken]
  /\ minted = NoToken
  /\ browser = [b \in Browser |-> [user |-> NoUser, token |-> NoToken]]
  /\ req = [q \in Request |-> Idle]
  /\ now = 1
  /\ restarts = 0

Becomes(q, record) == req' = [req EXCEPT ![q] = record]
Answer(q, op, u, b, t) ==
  Becomes(q, [pc |-> "answered", op |-> op, user |-> u, from |-> b, token |-> t])

-----------------------------------------------------------------------------
(* Registration.                                                           *)

\* A valid registration reaches Create, whose transaction counts the accounts.
CountAccounts(q, b, u) ==
  /\ req[q] = Idle
  /\ Becomes(q, [pc |-> "inserting", user |-> u, from |-> b, seen |-> Cardinality(account)])
  /\ UNCHANGED <<tables, memory, browser, now, restarts>>

\* SyncLegacyTenantRole
Promote(u) == role' = [role EXCEPT ![u] = "tenant_admin"]

\* Faulty variant: the count is taken on a connection of its own, before the
\* transaction.
BugMayCommit(q) == TRUE

\* The INSERT and the COMMIT.  On SQLite the transaction holds its snapshot from
\* the SELECT on and cannot write once another one has committed; PostgreSQL
\* runs it at READ COMMITTED.
MayCommit(q) == driver = "sqlite" => req[q].seen = Cardinality(account)

Create(q) ==
  /\ req[q].pc = "inserting"
  /\ req[q].user \notin account
  /\ MayCommit(q)
  /\ account' = account \cup {req[q].user}
  /\ IF req[q].seen = 0 THEN Promote(req[q].user) ELSE UNCHANGED role
  /\ Answer(q, "register", req[q].user, req[q].from, NoToken)
  /\ UNCHANGED <<driver, memory, browser, now, restarts>>

\* ErrUserFound, SQLITE_BUSY or another error rolls everything back; an answer is
\* lost on its way.
Abandon(q) ==
  /\ req[q].pc \in {"inserting", "answered"}
  /\ Becomes(q, Idle)
  /\ UNCHANGED <<tables, memory, browser, now, restarts>>

-----------------------------------------------------------------------------
(* Login.                                                                  *)

\* The failures that count at the time t.
Counting(a, t) == {f \in a.failures : f.at + Window > t}

\* Faulty variant: an entry without recent failures is dropped with its lock.
BugPruned(a) ==
  [failures |-> Counting(a, now),
   until |-> IF Counting(a, now) # {} /\ a.until > now THEN a.until ELSE 0]

\* prunedState: failures older than the window and a lock that is over go.
Pruned(a) ==
  [failures |-> Counting(a, now),
   until |-> IF a.until > now THEN a.until ELSE 0]

Locked(k) == attempts[k].until > now

\* loginGuard.Allow: a locked key is refused, otherwise the request goes on to
\* compare the password.
Allow(q, b, u) ==
  /\ req[q] = Idle
  /\ u \in Visitor
  /\ attempts' = [attempts EXCEPT ![KeyOf[u][b]] = Pruned(@)]
  /\ IF Locked(KeyOf[u][b])
       THEN UNCHANGED req
       ELSE Becomes(q, [pc |-> "verifying", user |-> u, from |-> b])
  /\ UNCHANGED <<tables, wrong, csrf, minted, browser, now, restarts>>

\* The failures that count, and the one that happens now.
Failed(a) ==
  Counting(a, now) \cup {[at |-> now, nth |-> Cardinality(Counting(a, now))]}

\* Faulty variant: locks one failure too late.
BugWithFailure(a) ==
  [failures |-> Failed(a),
   until |-> IF Cardinality(Failed(a)) > MaxFailures THEN now + Lockout ELSE Pruned(a).until]

\* InMemoryLoginAttemptStore.RecordFailure
WithFailure(a) ==
  [failures |-> Failed(a),
   until |-> IF Cardinality(Failed(a)) >= MaxFailures THEN now + Lockout ELSE Pruned(a).until]

KeyFor(q) == KeyOf[req[q].user][req[q].from]

\* The wrong passwords of the window that ends now.
Recent(k) == {f \in wrong[k] : f.at + Window > now}

\* No such account, or a wrong password.
VerifyFails(q) ==
  /\ req[q].pc = "verifying"
  /\ attempts' = [attempts EXCEPT ![KeyFor(q)] = WithFailure(@)]
  /\ wrong' = [wrong EXCEPT ![KeyFor(q)] =
                 @ \cup {[at |-> now, nth |-> Cardinality(Recent(KeyFor(q)))]}]
  /\ Becomes(q, Idle)
  /\ UNCHANGED <<tables, csrf, minted, browser, now, restarts>>

\* The right password: the entry of the key is deleted with its failures and its
\* lock, also those of other accounts with that key, and csrfStore.GenerateToken
\* replaces the user's previous token, whichever browser has it.
LoginSucceeds(q) ==
  /\ req[q].pc = "verifying"
  /\ req[q].user \in account
  /\ minted < MaxToken
  /\ minted' = minted + 1
  /\ attempts' = [attempts EXCEPT ![KeyFor(q)] = NoAttempts]
  /\ wrong' = [wrong EXCEPT ![KeyFor(q)] = {}]
  /\ csrf' = [csrf EXCEPT ![req[q].user] = minted + 1]
  /\ Answer(q, "login", req[q].user, req[q].from, minted + 1)
  /\ UNCHANGED <<tables, browser, now, restarts>>

-----------------------------------------------------------------------------
(* Authenticated requests.                                                 *)

\* CurrentUser: the session names a user of the table.
SignedIn(b) == browser[b].user \in account

\* ValidateCSRF
ValidToken(b) == browser[b].token # NoToken /\ csrf[browser[b].user] = browser[b].token

\* CSRFProtectionMiddleware lets a write of this browser pass.
MayWrite(b) == SignedIn(b) /\ ValidToken(b)

\* Faulty variant: the token of the user is dropped with his session.
BugLogout(q, b) ==
  /\ req[q] = Idle
  /\ MayWrite(b)
  /\ csrf' = [csrf EXCEPT ![browser[b].user] = NoToken]
  /\ Answer(q, "logout", browser[b].user, b, NoToken)
  /\ UNCHANGED <<tables, attempts, wrong, minted, browser, now, restarts>>

\* Logout changes nothing the Core reads again: its answer takes the cookie.
Logout(q, b) ==
  /\ req[q] = Idle
  /\ MayWrite(b)
  /\ Answer(q, "logout", browser[b].user, b, NoToken)
  /\ UNCHANGED <<tables, memory, browser, now, restarts>>

\* The browser takes over the cookies of an answer, in whatever order answers
\* arrive.  Registration opens a session and sets no CSRF cookie; logout
\* leaves the CSRF cookie alone.
Deliver(q) ==
  /\ req[q].pc = "answered"
  /\ LET a == req[q] IN
     browser' = [browser EXCEPT ![a.from] =
       [user  |-> IF a.op = "logout" THEN NoUser ELSE a.user,
        token |-> IF a.op = "login" THEN a.token ELSE @.token]]
  /\ Becomes(q, Idle)
  /\ UNCHANGED <<tables, memory, now, restarts>>

-----------------------------------------------------------------------------
(* Time, restarts and migrations.                                          *)

Tick ==
  /\ now < MaxTime
  /\ now' = now + 1
  /\ UNCHANGED <<tables, memory, browser, req, restarts>>

\* A day has passed since the login.
TokenExpires(u) ==
  /\ csrf[u] # NoToken
  /\ csrf' = [csrf EXCEPT ![u] = NoToken]
  /\ UNCHANGED <<tables, attempts, wrong, minted, browser, req, now, restarts>>

\* Faulty variant: a column never written counts as PermissionReadWrite.
BugMigratedRole ==
  [u \in User |-> IF driver = "sqlite" /\ u \in account THEN "tenant_rw" ELSE role[u]]

\* db migrate, run again on the tables of an earlier process.  On SQLite
\* applySQLiteCompatPost overwrites the roles with what users.permission says,
\* and Create leaves that column at PermissionNone.
MigratedRole ==
  [u \in User |-> IF driver = "sqlite" /\ u \in account THEN "tenant_ro" ELSE role[u]]

\* A new process has new cookie keys, no tokens and no failures; requests are
\* cut off.  The deployment runs db migrate first.
Restart ==
  /\ restarts < MaxRestart
  /\ restarts' = restarts + 1
  /\ role' \in {role, MigratedRole}
  /\ attempts' = [k \in Key |-> NoAttempts]
  /\ wrong' = [k \in Key |-> {}]
  /\ csrf' = [u \in User |-> NoToken]
  /\ browser' = [b \in Browser |-> [browser[b] EXCEPT !.user = NoUser]]
  /\ req' = [q \in Request |-> Idle]
  /\ UNCHANGED <<driver, account, minted, now>>

Next ==
  \/ \E q \in Request :
       \/ \E b \in Browser, u \in User : CountAccounts(q, b, u) \/ Allow(q, b, u)
       \/ \E b \in Browser : Logout(q, b)
       \/ Create(q) \/ Abandon(q)
       \/ VerifyFails(q) \/ LoginSucceeds(q)
       \/ Deliver(q)
  \/ \E u \in User : TokenExpires(u)
  \/ Tick \/ Restart

Spec == Init /\ [][Next]_vars

-----------------------------------------------------------------------------
(* Properties.                                                             *)

Administrators == {u \in User : role[u] = "tenant_admin"}
Demoted == {u \in User : role[u] = "tenant_ro"}

\* As soon as there is an account the legacy tenant has an administrator, and
\* requests that overlap make at most one on SQLite and one each on PostgreSQL.
\* The db migrate of a restart takes the role away from everybody on SQLite.
FirstAccountAdministers ==
  /\ account # {} => Administrators # {} \/ (driver = "sqlite" /\ Demoted # {})
  /\ Cardinality(Administrators) <= IF driver = "sqlite" THEN 1 ELSE Cardinality(Request)

\* If a lock lasts at least as long as failures count: of the wrong passwords sent
\* for the names of one key since the last right password for one of them or the
\* last restart, no window sees more than the limit and one for every further
\* request that was let in before the lock, whatever the guard has pruned.
GuessesBounded ==
  Window <= Lockout =>
    \A k \in Key : Cardinality(Recent(k)) < MaxFailures + Cardinality(Request)

\* A lock ends early only with the process, or because a request that was let in
\* before it, for a name with the same key, had the right password: of the account
\* that is locked, or of another one whose name differs in case.
LockHolds ==
  [][\A k \in Key :
       Locked(k) /\ attempts'[k].until < attempts[k].until =>
         \/ restarts' # restarts
         \/ \E q \in Request : req[q].pc = "verifying" /\ KeyFor(q) = k
                                 /\ req'[q].pc = "answered"]_vars

\* Nothing that others do ends a browser's ability to write, except another
\* login as the same user, a day's time and a restart of the Core.
WriteAccessKept ==
  [][\A b \in Browser :
       MayWrite(b) /\ ~MayWrite(b)' =>
         \/ browser'[b] # browser[b]
         \/ csrf'[browser[b].user] > csrf[browser[b].user]
         \/ req' = req /\ restarts' = restarts]_vars

=============================================================================
