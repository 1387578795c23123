--------------------------- MODULE TenantMembership ---------------------------
(***************************************************************************)
(* The members of one tenant created through the API: who has which role,  *)
(* how an administrator removes a member, and how invitations are created, *)
(* accepted, rejected and expire (web/v1/tenants.go, web/v1/invitations.go,*)
(* storage/tenant/repository.go).                                          *)
(*                                                                         *)
(* A request is authorised once, from the role read when it arrives, and   *)
(* works on the tables afterwards.  A transaction is split between its     *)
(* SELECT and the UPDATE that decides: under READ COMMITTED the latter     *)
(* evaluates its WHERE clause against what is committed by then.           *)
(***************************************************************************)
EXTENDS Naturals

CONSTANTS
  User,        \* usernames
  Invitation,  \* invitation ids newInvitationID can return
  Handler,     \* requests that can run at the same time
  NoUser

ASSUME NoUserAssumption == NoUser \notin User

VARIABLES
  role,     \* tenant_users.role, "none" without a row
  inv,      \* tenant_invitations
  age,      \* 0 before, 1 at, 2 after tenant_invitations.expires_at
  job,      \* what each handler is doing
  owner,    \* history: the creator of the tenant
  stale,    \* history: a member was removed by one who was no admin any more
  demoted   \* history: an admin accepted a lower role

history == <<owner, stale, demoted>>
vars == <<role, inv, age, job, history>>

Role == {"tenant_ro", "tenant_rw", "tenant_admin"}
NoInvitation == [st |-> "absent", user |-> NoUser, role |-> "none"]
Idle == [op |-> "none"]

Job ==
  {Idle} \cup
  [op: {"remove"}, by: User, who: User] \cup
  [op: {"invite"}, who: User, role: Role] \cup
  [op: {"accept", "reject"}, inv: Invitation, now: {0, 1}, stage: {"read", "decide"}]

TypeOK ==
  /\ role \in [User -> Role \cup {"none"}]
  /\ inv \in [Invitation -> {NoInvitation} \cup
                [st: {"pending", "accepted", "rejected"}, user: User, role: Role]]
  /\ age \in [Invitation -> 0 .. 2]
  /\ job \in [Handler -> Job]
  /\ owner \in User \cup {NoUser}
  /\ stale \in BOOLEAN /\ demoted \in BOOLEAN

Init ==
  /\ role = [u \in User |-> "none"]
  /\ inv = [i \in Invitation |-> NoInvitation]
  /\ age = [i \in Invitation |-> 0]
  /\ job = [h \in Handler |-> Idle]
  /\ owner = NoUser
  /\ stale = FALSE
  /\ demoted = FALSE

Admins == {u \in User : role[u] = "tenant_admin"}

Start(h, j) == job[h] = Idle /\ job' = [job EXCEPT ![h] = j]
Finish(h) == job' = [job EXCEPT ![h] = Idle]
Doing(h, ops) == job[h].op \in ops

-----------------------------------------------------------------------------
\* CreateTenantWithOwner: the tenant and its first admin in one transaction.
CreateTenantWithOwner(u) ==
  /\ owner = NoUser
  /\ owner' = u
  /\ role' = [role EXCEPT ![u] = "tenant_admin"]
  /\ UNCHANGED <<inv, age, job, stale, demoted>>

\* Faulty variant, to test the properties: administrators may remove themselves.
BugAskRemove(h, u, v) ==
  /\ u \in Admins
  /\ Start(h, [op |-> "remove", by |-> u, who |-> v])
  /\ UNCHANGED <<role, inv, age, history>>

\* DELETE /tenants/{id}/users/{v} by u: authorised, and not u itself.
AskRemove(h, u, v) ==
  /\ u \in Admins /\ v # u
  /\ Start(h, [op |-> "remove", by |-> u, who |-> v])
  /\ UNCHANGED <<role, inv, age, history>>

RemoveTenantUser(h) ==
  /\ Doing(h, {"remove"})
  /\ role' = [role EXCEPT ![job[h].who] = "none"]
  /\ stale' = (stale \/ job[h].by \notin Admins)
  /\ Finish(h)
  /\ UNCHANGED <<inv, age, owner, demoted>>

\* POST /tenants/{id}/invitations by an administrator.
AskInvite(h, v, r) ==
  /\ Admins # {}
  /\ Start(h, [op |-> "invite", who |-> v, role |-> r])
  /\ UNCHANGED <<role, inv, age, history>>

\* POST /tenants/{id}/users: nobody is added, the user is invited too.
AskAdd(h, v, r) ==
  /\ Admins # {}
  /\ Start(h, [op |-> "invite", who |-> v, role |-> r])
  /\ UNCHANGED <<role, inv, age, history>>

CreateTenantInvitation(h) ==
  /\ Doing(h, {"invite"})
  /\ \E i \in Invitation :
       /\ inv[i] = NoInvitation
       /\ inv' = [inv EXCEPT ![i] =
                    [st |-> "pending", user |-> job[h].who, role |-> job[h].role]]
  /\ Finish(h)
  /\ UNCHANGED <<role, age, history>>

-----------------------------------------------------------------------------
\* POST /invitations/{i}/accept or /reject by the user it is addressed to.
OpenInvitation(h, op, i) ==
  /\ inv[i] # NoInvitation
  /\ Start(h, [op |-> op, inv |-> i, now |-> 0, stage |-> "read"])
  /\ UNCHANGED <<role, inv, age, history>>

\* Faulty variant: the expiry is not checked after the SELECT.
BugReadInvitation(h) ==
  /\ Doing(h, {"accept", "reject"}) /\ job[h].stage = "read"
  /\ LET i == job[h].inv
     IN  IF inv[i].st # "pending"
           THEN Finish(h)
           ELSE job' = [job EXCEPT ![h].stage = "decide",
                                   ![h].now = IF job[h].op = "accept" THEN age[i] ELSE 0]
  /\ UNCHANGED <<role, inv, age, history>>

\* The SELECT of the transaction, the checks after it, and the clock.
ReadInvitation(h) ==
  /\ Doing(h, {"accept", "reject"}) /\ job[h].stage = "read"
  /\ LET i == job[h].inv
     IN  IF inv[i].st # "pending" \/ (job[h].op = "accept" /\ age[i] = 2)
           THEN Finish(h)
           ELSE job' = [job EXCEPT ![h].stage = "decide",
                                   ![h].now = IF job[h].op = "accept" THEN age[i] ELSE 0]
  /\ UNCHANGED <<role, inv, age, history>>

\* Faulty variant: the upsert is kept when the UPDATE hits no row.
BugAcceptInvitation(h) ==
  /\ Doing(h, {"accept"}) /\ job[h].stage = "decide"
  /\ LET i == job[h].inv
     IN  /\ role' = [role EXCEPT ![inv[i].user] = inv[i].role]
         /\ inv' = IF inv[i].st = "pending" /\ job[h].now = 0
                     THEN [inv EXCEPT ![i].st = "accepted"] ELSE inv
  /\ Finish(h)
  /\ UNCHANGED <<age, history>>

\* AcceptInvitation commits the upsert of the role together with the UPDATE of
\* a pending invitation whose expires_at is later than the clock it read; if
\* that hits no row both are rolled back.
AcceptInvitation(h) ==
  /\ Doing(h, {"accept"}) /\ job[h].stage = "decide"
  /\ LET i == job[h].inv
     IN  IF inv[i].st = "pending" /\ job[h].now = 0
           THEN /\ role' = [role EXCEPT ![inv[i].user] = inv[i].role]
                /\ inv' = [inv EXCEPT ![i].st = "accepted"]
                /\ demoted' = (demoted \/ (inv[i].user \in Admins /\ inv[i].role # "tenant_admin"))
           ELSE UNCHANGED <<role, inv, demoted>>
  /\ Finish(h)
  /\ UNCHANGED <<age, owner, stale>>

\* Faulty variant: the UPDATE does not ask for a pending invitation.
BugRejectInvitation(h) ==
  /\ Doing(h, {"reject"}) /\ job[h].stage = "decide"
  /\ inv' = [inv EXCEPT ![job[h].inv].st = "rejected"]
  /\ Finish(h)
  /\ UNCHANGED <<role, age, history>>

\* RejectInvitation, also of an invitation that has expired.
RejectInvitation(h) ==
  /\ Doing(h, {"reject"}) /\ job[h].stage = "decide"
  /\ inv' = [inv EXCEPT ![job[h].inv].st = IF @ = "pending" THEN "rejected" ELSE @]
  /\ Finish(h)
  /\ UNCHANGED <<role, age, history>>

\* Seven days pass.
PassTime(i) ==
  /\ inv[i] # NoInvitation /\ age[i] < 2
  /\ age' = [age EXCEPT ![i] = @ + 1]
  /\ UNCHANGED <<role, inv, job, history>>

Next ==
  \/ \E u \in User : CreateTenantWithOwner(u)
  \/ \E h \in Handler :
       \/ \E u, v \in User : AskRemove(h, u, v)
       \/ \E v \in User, r \in Role : AskInvite(h, v, r) \/ AskAdd(h, v, r)
       \/ \E op \in {"accept", "reject"}, i \in Invitation : OpenInvitation(h, op, i)
       \/ RemoveTenantUser(h) \/ CreateTenantInvitation(h)
       \/ ReadInvitation(h) \/ AcceptInvitation(h) \/ RejectInvitation(h)
  \/ \E i \in Invitation : PassTime(i)

Spec == Init /\ [][Next]_vars

-----------------------------------------------------------------------------
(* Properties.                                                             *)

\* Whoever has a role in the tenant created it or has accepted an invitation to
\* that very role: a rejected or expired invitation, or one that is rejected
\* while it is being accepted, gives nobody a role.
RoleIsBacked ==
  \A u \in User : role[u] # "none" =>
    \/ u = owner /\ role[u] = "tenant_admin"
    \/ \E i \in Invitation : inv[i] = [st |-> "accepted", user |-> u, role |-> role[u]]

\* An invitation is decided once: of two requests that both read it as pending
\* the second changes nothing.
DecidedOnce ==
  [][\A i \in Invitation :
       inv[i].st \in {"accepted", "rejected"} => inv'[i] = inv[i]]_vars

\* A tenant loses its last administrator in two ways only: one who was removed
\* meanwhile removes the other, or one accepts an invitation to a lower role.
AdminRemains == owner # NoUser /\ Admins = {} => stale \/ demoted
=============================================================================
