------------------------ MODULE TenantMembership_proofs ------------------------
(***************************************************************************)
(* Proofs about TenantMembership, for any users, invitations and handlers. *)
(***************************************************************************)
EXTENDS TenantMembership, TLAPS

\* An administrator never asks for his own removal.
RemovesAnother == \A h \in Handler : Doing(h, {"remove"}) => job[h].by # job[h].who

IInv == TypeOK /\ RoleIsBacked /\ RemovesAnother /\ AdminRemains

-----------------------------------------------------------------------------
(* Typing.                                                                 *)

\* What a request in hand says, by the kind of request.
LEMMA JobProperties ==
  ASSUME TypeOK, NEW h \in Handler
  PROVE  /\ Doing(h, {"remove"}) => job[h].by \in User /\ job[h].who \in User
         /\ Doing(h, {"invite"}) => job[h].who \in User /\ job[h].role \in Role
         /\ Doing(h, {"accept"}) \/ Doing(h, {"reject"}) \/ Doing(h, {"accept", "reject"}) =>
              job[h].inv \in Invitation
BY DEF TypeOK, Job, Idle, Doing

\* An invitation that was sent has an addressee and a role.
LEMMA InvitationProperties ==
  ASSUME TypeOK, NEW i \in Invitation, inv[i] # NoInvitation
  PROVE  /\ inv[i].user \in User /\ inv[i].role \in Role
         /\ inv[i] = [st |-> inv[i].st, user |-> inv[i].user, role |-> inv[i].role]
         /\ inv[i].st \in {"pending", "accepted", "rejected"}
BY DEF TypeOK, NoInvitation

\* Taking on a request or finishing one keeps the handlers well typed.
LEMMA JobStaysTyped ==
  ASSUME TypeOK, NEW h \in Handler, NEW j \in Job, Start(h, j) \/ Finish(h)
  PROVE  (job \in [Handler -> Job])'
BY DEF TypeOK, Start, Finish, Job

-----------------------------------------------------------------------------
(* The invariant.                                                          *)

\* An empty system has no member, so nobody without a right to it.
LEMMA InvariantInit == Init => IInv
<1> SUFFICES ASSUME Init PROVE IInv
  OBVIOUS
<1>1. TypeOK
  <2>1. Idle \in Job
    BY DEF Job
  <2>2. job \in [Handler -> Job]
    BY <2>1 DEF Init
  <2>3. inv \in [Invitation -> {NoInvitation}] /\ age \in [Invitation -> 0 .. 2]
    BY DEF Init
  <2> QED
    BY <2>2, <2>3 DEF Init, TypeOK
<1>2. RoleIsBacked /\ RemovesAnother /\ AdminRemains
  BY DEF Init, RoleIsBacked, RemovesAnother, AdminRemains, Doing, Idle
<1> QED
  BY <1>1, <1>2 DEF IInv

\* The request a handler works on does not matter to the tables.
LEMMA RequestsKeepInvariant ==
  ASSUME IInv, NEW h \in Handler, UNCHANGED <<role, inv, history>>,
         (age \in [Invitation -> 0 .. 2])',
         \/ Finish(h) \/ UNCHANGED job
         \/ \E j \in Job : job' = [job EXCEPT ![h] = j] /\ (j.op = "remove" => j.by # j.who)
  PROVE  IInv'
<1>1. (job \in [Handler -> Job])' /\ RemovesAnother'
  <2>1. CASE UNCHANGED job
    BY <2>1 DEF IInv, TypeOK, RemovesAnother, Doing
  <2>2. CASE Finish(h)
    <3>1. Idle \in Job /\ Idle.op \notin {"remove"}
      BY DEF Job, Idle
    <3> QED
      BY <2>2, <3>1 DEF IInv, TypeOK, RemovesAnother, Doing, Finish
  <2>3. CASE \E j \in Job : job' = [job EXCEPT ![h] = j] /\ (j.op = "remove" => j.by # j.who)
    BY <2>3 DEF IInv, TypeOK, RemovesAnother, Doing
  <2> QED
    BY <2>1, <2>2, <2>3
<1>2. TypeOK'
  BY <1>1 DEF IInv, TypeOK, history
<1>3. RoleIsBacked' /\ AdminRemains'
  BY DEF IInv, RoleIsBacked, AdminRemains, Admins, history
<1> QED
  BY <1>1, <1>2, <1>3 DEF IInv

\* CreateTenantWithOwner gives its creator the role nobody else can have yet.
LEMMA CreateKeepsInvariant ==
  ASSUME IInv, NEW u \in User, CreateTenantWithOwner(u)
  PROVE  IInv'
<1>1. TypeOK'
  BY DEF IInv, TypeOK, CreateTenantWithOwner, Role
<1>2. RoleIsBacked'
  <2> SUFFICES ASSUME NEW v \in User, role'[v] # "none"
               PROVE  \/ v = owner' /\ role'[v] = "tenant_admin"
                      \/ \E i \in Invitation :
                           inv'[i] = [st |-> "accepted", user |-> v, role |-> role'[v]]
    BY DEF RoleIsBacked
  <2>1. CASE v = u
    BY <2>1 DEF IInv, TypeOK, CreateTenantWithOwner
  <2>2. CASE v # u
    BY <2>2, NoUserAssumption DEF IInv, TypeOK, CreateTenantWithOwner, RoleIsBacked
  <2> QED
    BY <2>1, <2>2
<1>3. RemovesAnother'
  BY DEF IInv, RemovesAnother, Doing, CreateTenantWithOwner
<1>4. u \in Admins'
  BY DEF IInv, TypeOK, CreateTenantWithOwner, Admins
<1>5. AdminRemains'
  BY <1>4 DEF AdminRemains
<1> QED
  BY <1>1, <1>2, <1>3, <1>5 DEF IInv

\* RemoveTenantUser takes nobody's role but one, and never its caller's.
LEMMA RemoveKeepsInvariant ==
  ASSUME IInv, NEW h \in Handler, RemoveTenantUser(h)
  PROVE  IInv'
<1>1. job[h].by \in User /\ job[h].who \in User /\ job[h].by # job[h].who
  BY JobProperties DEF IInv, RemoveTenantUser, RemovesAnother
<1>2. /\ role' = [role EXCEPT ![job[h].who] = "none"]
      /\ stale' = (stale \/ job[h].by \notin Admins)
      /\ job' = [job EXCEPT ![h] = Idle]
      /\ UNCHANGED <<inv, age, owner, demoted>>
  BY DEF RemoveTenantUser, Finish
<1>3. TypeOK'
  <2>1. (job \in [Handler -> Job])'
    BY <1>2 DEF IInv, TypeOK, Job
  <2>2. (role \in [User -> Role \cup {"none"}])'
    BY <1>1, <1>2 DEF IInv, TypeOK
  <2>3. stale' \in BOOLEAN
    BY <1>2
  <2> QED
    BY <1>2, <2>1, <2>2, <2>3 DEF IInv, TypeOK
<1>4. \A v \in User : role'[v] # "none" => role'[v] = role[v]
  BY <1>1, <1>2 DEF IInv, TypeOK
<1>5. RoleIsBacked'
  BY <1>2, <1>4 DEF IInv, RoleIsBacked
<1>6. RemovesAnother'
  BY <1>2 DEF IInv, TypeOK, RemovesAnother, Doing, Idle
<1>7. AdminRemains'
  <2>1. CASE job[h].by \in Admins
    <3>1. job[h].by \in Admins'
      BY <1>1, <1>2, <2>1 DEF IInv, TypeOK, Admins
    <3> QED
      BY <3>1 DEF AdminRemains
  <2>2. CASE job[h].by \notin Admins
    BY <1>2, <2>2 DEF AdminRemains
  <2> QED
    BY <2>1, <2>2
<1> QED
  BY <1>3, <1>5, <1>6, <1>7 DEF IInv

\* A handler whose request is done keeps the administrators' requests apart.
LEMMA FinishKeepsJobs ==
  ASSUME IInv, NEW h \in Handler, Finish(h)
  PROVE  (job \in [Handler -> Job])' /\ RemovesAnother'
BY DEF IInv, TypeOK, RemovesAnother, Doing, Finish, Job, Idle

\* An invitation that is decided in a step was pending before it, so that it
\* backed nobody's role, and every other invitation stays as it is.
LEMMA InvitationStep ==
  ASSUME IInv, [Next]_vars, NEW i \in Invitation, inv[i].st \in {"accepted", "rejected"}
  PROVE  inv'[i] = inv[i]
<1>1. CASE UNCHANGED inv
  BY <1>1
<1>2. ASSUME NEW h \in Handler, CreateTenantInvitation(h) PROVE inv'[i] = inv[i]
  BY <1>2 DEF IInv, TypeOK, CreateTenantInvitation, NoInvitation
<1>3. ASSUME NEW h \in Handler, AcceptInvitation(h) PROVE inv'[i] = inv[i]
  BY <1>3 DEF IInv, TypeOK, AcceptInvitation
<1>4. ASSUME NEW h \in Handler, RejectInvitation(h) PROVE inv'[i] = inv[i]
  <2>1. /\ inv[i] = [st |-> inv[i].st, user |-> inv[i].user, role |-> inv[i].role]
        /\ inv[i].st # "pending"
    BY InvitationProperties DEF IInv, NoInvitation
  <2>2. inv' = [inv EXCEPT ![job[h].inv].st = IF @ = "pending" THEN "rejected" ELSE @]
    BY <1>4 DEF RejectInvitation
  <2>3. CASE job[h].inv = i
    <3>1. inv'[i] = [inv[i] EXCEPT !.st = inv[i].st]
      BY <2>1, <2>2, <2>3 DEF IInv, TypeOK
    <3> QED
      BY <2>1, <3>1
  <2>4. CASE job[h].inv # i
    BY <2>2, <2>4 DEF IInv, TypeOK
  <2> QED
    BY <2>3, <2>4
<1> QED
  BY <1>1, <1>2, <1>3, <1>4
  DEF Next, vars, CreateTenantWithOwner, AskRemove, RemoveTenantUser, AskInvite,
      AskAdd, OpenInvitation, ReadInvitation, PassTime

\* A new invitation and a rejection change no role.
LEMMA InvitationsKeepInvariant ==
  ASSUME IInv, NEW h \in Handler, CreateTenantInvitation(h) \/ RejectInvitation(h)
  PROVE  IInv'
<1>1. Finish(h) /\ UNCHANGED <<role, age, history>>
  BY DEF CreateTenantInvitation, RejectInvitation
<1>2. (job \in [Handler -> Job])' /\ RemovesAnother'
  BY <1>1, FinishKeepsJobs
<1>3. (inv \in [Invitation -> {NoInvitation} \cup
         [st: {"pending", "accepted", "rejected"}, user: User, role: Role]])'
  <2>1. CASE CreateTenantInvitation(h)
    <3>1. job[h].who \in User /\ job[h].role \in Role
      BY <2>1, JobProperties DEF IInv, CreateTenantInvitation
    <3> QED
      BY <2>1, <3>1 DEF IInv, TypeOK, CreateTenantInvitation
  <2>2. CASE RejectInvitation(h)
    <3> DEFINE i == job[h].inv
    <3>1. i \in Invitation
      BY <2>2, JobProperties DEF IInv, RejectInvitation
    <3>2. inv' = [inv EXCEPT ![i].st = IF @ = "pending" THEN "rejected" ELSE @]
      BY <2>2 DEF RejectInvitation
    <3>3. CASE inv[i] = NoInvitation
      <4>1. inv[i].st # "pending"
        BY <3>3 DEF NoInvitation
      <4> QED
        BY <3>1, <3>2, <3>3, <4>1 DEF IInv, TypeOK, NoInvitation
    <3>4. CASE inv[i] # NoInvitation
      BY <3>1, <3>2, <3>4, InvitationProperties DEF IInv, TypeOK
    <3> QED
      BY <3>3, <3>4
  <2> QED
    BY <2>1, <2>2
<1>4. TypeOK'
  BY <1>1, <1>2, <1>3 DEF IInv, TypeOK, history
<1>5. \A i \in Invitation : inv[i].st = "accepted" => inv'[i] = inv[i]
  <2>1. [Next]_vars
    BY DEF Next
  <2> QED
    BY <2>1, InvitationStep
<1>6. RoleIsBacked'
  BY <1>1, <1>5 DEF IInv, RoleIsBacked, history
<1>7. AdminRemains'
  BY <1>1 DEF IInv, AdminRemains, Admins, history
<1> QED
  BY <1>2, <1>4, <1>6, <1>7 DEF IInv

\* AcceptInvitation gives the role and decides the invitation, or does neither.
LEMMA AcceptKeepsInvariant ==
  ASSUME IInv, NEW h \in Handler, AcceptInvitation(h)
  PROVE  IInv'
<1> DEFINE i == job[h].inv
<1>1. i \in Invitation
  BY JobProperties DEF IInv, AcceptInvitation
<1>2. Finish(h) /\ UNCHANGED <<age, owner, stale>>
  BY DEF AcceptInvitation
<1>3. (job \in [Handler -> Job])' /\ RemovesAnother'
  BY <1>2, FinishKeepsJobs
<1>4. CASE inv[i].st = "pending" /\ job[h].now = 0
  <2>1. /\ inv[i].user \in User /\ inv[i].role \in Role
        /\ inv[i] = [st |-> "pending", user |-> inv[i].user, role |-> inv[i].role]
    BY <1>1, <1>4, InvitationProperties DEF IInv, NoInvitation
  <2>2. /\ role' = [role EXCEPT ![inv[i].user] = inv[i].role]
        /\ inv' = [inv EXCEPT ![i].st = "accepted"]
        /\ demoted' = (demoted \/ (inv[i].user \in Admins /\ inv[i].role # "tenant_admin"))
    BY <1>4 DEF AcceptInvitation
  <2>3. inv'[i] = [st |-> "accepted", user |-> inv[i].user, role |-> inv[i].role]
    BY <1>1, <2>1, <2>2 DEF IInv, TypeOK
  <2>4. TypeOK'
    <3>1. (role \in [User -> Role \cup {"none"}])' /\ demoted' \in BOOLEAN
      BY <2>1, <2>2 DEF IInv, TypeOK
    <3>2. (inv \in [Invitation -> {NoInvitation} \cup
             [st: {"pending", "accepted", "rejected"}, user: User, role: Role]])'
      BY <1>1, <2>1, <2>2, <2>3 DEF IInv, TypeOK
    <3> QED
      BY <1>2, <1>3, <3>1, <3>2 DEF IInv, TypeOK
  <2>5. RoleIsBacked'
    <3> SUFFICES ASSUME NEW v \in User, role'[v] # "none"
                 PROVE  \/ v = owner' /\ role'[v] = "tenant_admin"
                        \/ \E j \in Invitation :
                             inv'[j] = [st |-> "accepted", user |-> v, role |-> role'[v]]
      BY DEF RoleIsBacked
    <3>1. CASE v = inv[i].user
      BY <1>1, <2>2, <2>3, <3>1 DEF IInv, TypeOK
    <3>2. CASE v # inv[i].user
      <4>1. role'[v] = role[v]
        BY <2>2, <3>2 DEF IInv, TypeOK
      <4>2. \A j \in Invitation : inv[j].st = "accepted" => inv'[j] = inv[j]
        BY <1>1, <1>4, <2>2 DEF IInv, TypeOK
      <4> QED
        BY <1>2, <4>1, <4>2 DEF IInv, RoleIsBacked
    <3> QED
      BY <3>1, <3>2
  <2>6. AdminRemains'
    <3> SUFFICES ASSUME owner' # NoUser, Admins' = {}, ~stale', ~demoted' PROVE FALSE
      BY DEF AdminRemains
    <3>1. PICK u \in User : role[u] = "tenant_admin"
      BY <1>2, <2>2 DEF IInv, AdminRemains, Admins
    <3>2. role'[u] = "tenant_admin"
      BY <2>1, <2>2, <3>1 DEF IInv, TypeOK, Admins
    <3> QED
      BY <3>2 DEF Admins
  <2> QED
    BY <1>3, <2>4, <2>5, <2>6 DEF IInv
<1>5. CASE ~(inv[i].st = "pending" /\ job[h].now = 0)
  <2>1. UNCHANGED <<role, inv, age, history>>
    BY <1>2, <1>5 DEF AcceptInvitation, history
  <2> QED
    BY <1>2, <2>1, RequestsKeepInvariant DEF IInv, TypeOK
<1> QED
  BY <1>4, <1>5

\* Every step keeps the invariant.
LEMMA InvariantStep == IInv /\ [Next]_vars => IInv'
<1> SUFFICES ASSUME IInv, [Next]_vars PROVE IInv'
  OBVIOUS
<1>1. CASE UNCHANGED vars
  BY <1>1 DEF IInv, vars, history, TypeOK, RoleIsBacked, RemovesAnother, Doing, AdminRemains,
              Admins
<1>2. ASSUME NEW u \in User, CreateTenantWithOwner(u) PROVE IInv'
  BY <1>2, CreateKeepsInvariant
<1>3. ASSUME NEW h \in Handler, NEW u \in User, NEW v \in User, AskRemove(h, u, v)
      PROVE  IInv'
  <2> DEFINE j == [op |-> "remove", by |-> u, who |-> v]
  <2>1. j \in Job /\ job' = [job EXCEPT ![h] = j] /\ j.by # j.who
    BY <1>3 DEF AskRemove, Start, Job
  <2> QED
    BY <1>3, <2>1, RequestsKeepInvariant DEF AskRemove, IInv, TypeOK
<1>4. ASSUME NEW h \in Handler, NEW v \in User, NEW r \in Role,
             AskInvite(h, v, r) \/ AskAdd(h, v, r)
      PROVE  IInv'
  <2> DEFINE j == [op |-> "invite", who |-> v, role |-> r]
  <2>1. j \in Job /\ job' = [job EXCEPT ![h] = j] /\ j.op # "remove"
    BY <1>4 DEF AskInvite, AskAdd, Start, Job
  <2> QED
    BY <1>4, <2>1, RequestsKeepInvariant DEF AskInvite, AskAdd, IInv, TypeOK
<1>5. ASSUME NEW h \in Handler, NEW op \in {"accept", "reject"}, NEW i \in Invitation,
             OpenInvitation(h, op, i)
      PROVE  IInv'
  <2> DEFINE j == [op |-> op, inv |-> i, now |-> 0, stage |-> "read"]
  <2>1. j \in Job /\ job' = [job EXCEPT ![h] = j] /\ j.op # "remove"
    BY <1>5 DEF OpenInvitation, Start, Job
  <2> QED
    BY <1>5, <2>1, RequestsKeepInvariant DEF OpenInvitation, IInv, TypeOK
<1>6. ASSUME NEW h \in Handler, ReadInvitation(h) PROVE IInv'
  <2> DEFINE i == job[h].inv
             n == IF job[h].op = "accept" THEN age[i] ELSE 0
             R == [op: {"accept", "reject"}, inv: Invitation, now: {0, 1},
                   stage: {"read", "decide"}]
             j == [job[h] EXCEPT !.stage = "decide", !.now = n]
  <2>1. i \in Invitation /\ job[h] \in R
    BY <1>6, JobProperties DEF ReadInvitation, IInv, TypeOK, Job, Idle, Doing
  <2>2. UNCHANGED <<role, inv, age, history>>
    BY <1>6 DEF ReadInvitation
  <2>3. CASE Finish(h)
    BY <2>2, <2>3, RequestsKeepInvariant DEF IInv, TypeOK
  <2>4. CASE ~Finish(h)
    <3>1. /\ ~(job[h].op = "accept" /\ age[i] = 2)
          /\ job' = [job EXCEPT ![h].stage = "decide", ![h].now = n]
      BY <1>6, <2>4 DEF ReadInvitation
    <3>2. n \in {0, 1}
      BY <2>1, <3>1 DEF IInv, TypeOK
    <3>3. j \in R /\ j.op = job[h].op
      <4> HIDE DEF n
      <4> QED
        BY <2>1, <3>2
    <3>4. j \in Job /\ j.op # "remove"
      BY <2>1, <3>3 DEF Job
    <3>5. job' = [job EXCEPT ![h] = j]
      BY <3>1 DEF IInv, TypeOK
    <3> QED
      BY <2>2, <3>4, <3>5, RequestsKeepInvariant DEF IInv, TypeOK
  <2> QED
    BY <2>3, <2>4
<1>7. ASSUME NEW i \in Invitation, PassTime(i) PROVE IInv'
  <2>1. (age \in [Invitation -> 0 .. 2])'
    BY <1>7 DEF PassTime, IInv, TypeOK
  <2>2. UNCHANGED <<role, inv, job, history>>
    BY <1>7 DEF PassTime
  <2> QED
    BY <2>1, <2>2 DEF IInv, history, TypeOK, RoleIsBacked, RemovesAnother, Doing, AdminRemains,
                      Admins
<1> QED
  BY <1>1, <1>2, <1>3, <1>4, <1>5, <1>6, <1>7, RemoveKeepsInvariant,
     InvitationsKeepInvariant, AcceptKeepsInvariant
  DEF Next

\* The invariant holds in every reachable state.
LEMMA InvariantAlways == Spec => []IInv
BY InvariantInit, InvariantStep, PTL DEF Spec

-----------------------------------------------------------------------------
(* Theorems.                                                               *)

\* The tables stay well formed: AcceptInvitation never writes the role of an
\* invitation that is not there.
THEOREM TypeCorrect == Spec => []TypeOK
<1>1. IInv => TypeOK
  BY DEF IInv
<1> QED
  BY <1>1, InvariantAlways, PTL

\* Nobody has a role in the tenant who did not create it or accept an
\* invitation to that role (AcceptInvitation, storage/tenant/repository.go).
THEOREM RolesAreBacked == Spec => []RoleIsBacked
<1>1. IInv => RoleIsBacked
  BY DEF IInv
<1> QED
  BY <1>1, InvariantAlways, PTL

\* The tenant keeps an administrator but for the two ways AdminRemains names
\* (RemoveTenantUser and the check against removing oneself).
THEOREM AdministratorRemains == Spec => []AdminRemains
<1>1. IInv => AdminRemains
  BY DEF IInv
<1> QED
  BY <1>1, InvariantAlways, PTL

\* However many requests decide an invitation at the same time, the first
\* decision stands (the guarded UPDATEs of Accept- and RejectInvitation).
THEOREM InvitationsAreDecidedOnce == Spec => DecidedOnce
<1>1. IInv /\ [Next]_vars =>
        [\A i \in Invitation :
           inv[i].st \in {"accepted", "rejected"} => inv'[i] = inv[i]]_vars
  BY InvitationStep
<1> QED
  BY <1>1, InvariantAlways, PTL DEF Spec, DecidedOnce
=============================================================================
