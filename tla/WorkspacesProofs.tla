---------------------------- MODULE WorkspacesProofs ----------------------------
(*****************************************************************************)
(* Workspaces for any number of accounts, tenants, users, invitations and    *)
(* requests.  What is proved of the rows rests on what a request in the      *)
(* middle of its statements may still rely on: the invitation it looked up   *)
(* is never deleted, the user row the admin just inserted is referred to by  *)
(* no membership, and a principal that was authorised had a write role.      *)
(*****************************************************************************)
EXTENDS Workspaces, FiniteSetTheorems, TLAPS

AcceptPcs == {"accept_lookup", "expire", "accept_check", "accept_commit"}
WorkspacePcs == {"workspace_slug", "workspace_commit"}

RequestRecords ==
  [pc : Pcs, subject : Subjects \cup {None}, invite : Invites \cup {None},
   tenant : Tenants \cup {None}, slug : 0..MaxSlugs, role : Roles, user : Users \cup {None}]

InvitationRecords ==
  [status : {"none", "pending", "accepted", "revoked", "expired"}, due : BOOLEAN,
   tenant : Tenants \cup {None}, role : Roles, invited_by : Users \cup {None}]

TenantRecords == [status : {"none", "provisioning", "active", "suspended"}, slug : 0..MaxSlugs]

MembershipRecords ==
  [tenant : Tenants \cup {None}, role : Roles, user : Users \cup {None}]

Unreferenced(u) == \A s \in Subjects : memberships[s].user # u

(* What a request may rely on between two of its statements.                 *)
Stands(x) ==
  /\ x.pc \in AcceptPcs =>
       x.subject \in Subjects /\ x.invite \in Invites /\ invitations[x.invite].status # "none"
  /\ x.pc \in WorkspacePcs => x.subject \in Subjects
  /\ x.pc = "provision_upsert" =>
       /\ x.subject \in Subjects /\ x.tenant \in Tenants
       /\ x.user \in users /\ Unreferenced(x.user)
  /\ x.pc = "authorised" => <<x.user, x.tenant>> \in admins

RequestsStand ==
  /\ \A q \in Requests : Stands(request[q])
  /\ \A p, q \in Requests :
       /\ request[p].pc = "provision_upsert" /\ request[q].pc = "provision_upsert"
       /\ request[p].user = request[q].user
       => p = q

MembershipsStand ==
  \A s \in Subjects :
    /\ memberships[s].user \in users \cup {None}
    /\ memberships[s].role \in WriteRoles => <<memberships[s].user, memberships[s].tenant>> \in admins

(* OneWorkspacePerAccount without counting: whoever entered a workspace has  *)
(* a membership, which bars the way to the next.                             *)
EntersOnce ==
  \A s \in Subjects :
    /\ \A i \in Invites : s \in joined[i] => memberships[s] # NoMembership
    /\ \A t \in Tenants : creator[t] = s => memberships[s] # NoMembership
    /\ \A i, j \in Invites : s \in joined[i] /\ s \in joined[j] => i = j
    /\ \A t, u \in Tenants : creator[t] = s /\ creator[u] = s => t = u
    /\ \A i \in Invites, t \in Tenants : ~ (s \in joined[i] /\ creator[t] = s)

Strays == {u \in users : Unreferenced(u)}

StraysAreCounted == IsFiniteSet(Strays) /\ Cardinality(Strays) <= provisioned.count

WorkspaceInvariant ==
  /\ RowsAreTyped
  /\ RequestsStand
  /\ MembershipsStand
  /\ AcceptedMeansJoined
  /\ EntersOnce
  /\ MembershipIsKept
  /\ StraysAreCounted
  /\ InvitersWereAdmins

-------------------------------------------------------------------------------
(* NoMembership names no user and no writer.                                 *)
LEMMA NobodyIsUser ==
  /\ NoMembership.user = None /\ NoMembership.role = "viewer"
  /\ None \notin Users /\ None \notin Subjects /\ None \notin Invites /\ None \notin Tenants
  BY NoneAssumption DEF NoMembership

LEMMA InitInvariant == Init => WorkspaceInvariant
<1> SUFFICES ASSUME Init PROVE WorkspaceInvariant
  OBVIOUS
<1> USE NobodyIsUser, SlugAssumption DEF Init
<1>1. RowsAreTyped
  BY DEF RowsAreTyped, NoTenant, NoMembership, NoInvite, NoRequest, Pcs, Roles
<1>2. RequestsStand /\ MembershipsStand
  BY DEF RequestsStand, MembershipsStand, Stands, NoRequest, NoMembership, AcceptPcs, WorkspacePcs,
         WriteRoles
<1>3. AcceptedMeansJoined /\ InvitersWereAdmins
  BY DEF AcceptedMeansJoined, InvitersWereAdmins, NoInvite
<1>4. EntersOnce /\ MembershipIsKept
  BY DEF EntersOnce, MembershipIsKept
<1>5. StraysAreCounted
  <2>1. Strays = {}
    BY DEF Strays
  <2>2. QED  BY <2>1, FS_EmptySet DEF StraysAreCounted
<1>6. QED  BY <1>1, <1>2, <1>3, <1>4, <1>5 DEF WorkspaceInvariant

LEMMA IdleStands == NoRequest \in RequestRecords /\ NoRequest.pc = "idle"
  BY SlugAssumption DEF NoRequest, RequestRecords, Pcs, Roles

(* One request moves and what the others rely on stays: rows are added, and  *)
(* no membership takes the user another request of the admin has inserted.   *)
LEMMA OthersStand ==
  ASSUME RowsAreTyped, RequestsStand, NEW q \in Requests, NEW next,
         request' = [request EXCEPT ![q] = next],
         Stands(next)', next.pc # "provision_upsert",
         users \subseteq users', admins \subseteq admins',
         \A i \in Invites : invitations[i].status # "none" => invitations'[i].status # "none",
         \A p \in Requests \ {q}, s \in Subjects :
           request[p].pc = "provision_upsert" => memberships'[s].user # request[p].user
  PROVE  RequestsStand'
<1>1. ASSUME NEW p \in Requests
      PROVE  Stands(request[p])'
  <2>1. CASE p = q
    <3>1. request'[p] = next
      BY <2>1 DEF RowsAreTyped
    <3>2. QED  BY <3>1 DEF Stands
  <2>2. CASE p # q
    <3>1. request'[p] = request[p] /\ Stands(request[p])
      BY <2>2 DEF RowsAreTyped, RequestsStand
    <3>2. request[p].pc = "provision_upsert" => \A s \in Subjects : memberships'[s].user # request[p].user
      BY <2>2
    <3>3. QED  BY <3>1, <3>2 DEF Stands, Unreferenced
  <2>3. QED  BY <2>1, <2>2
<1>2. \A p \in Requests : request'[p].pc = "provision_upsert" => p # q /\ request'[p] = request[p]
  BY DEF RowsAreTyped
<1>3. QED  BY <1>1, <1>2 DEF RequestsStand

(* A request that moves and writes nothing.                                  *)
LEMMA QuietStep ==
  ASSUME WorkspaceInvariant, NEW q \in Requests, NEW next \in RequestRecords,
         Stands(next), next.pc # "provision_upsert",
         request' = [request EXCEPT ![q] = next],
         UNCHANGED <<data, history>>
  PROVE  WorkspaceInvariant'
<1> USE DEF WorkspaceInvariant, data, history
<1>1. RowsAreTyped'
  BY DEF RowsAreTyped, RequestRecords
<1>2. Stands(next)'
  BY DEF Stands, Unreferenced
<1>3. \A p \in Requests, s \in Subjects :
        request[p].pc = "provision_upsert" => memberships'[s].user # request[p].user
  BY DEF RequestsStand, Stands, Unreferenced
<1>4. RequestsStand'
  BY <1>2, <1>3, OthersStand
<1>5. MembershipsStand' /\ AcceptedMeansJoined' /\ EntersOnce' /\ MembershipIsKept' /\ InvitersWereAdmins'
  BY DEF MembershipsStand, AcceptedMeansJoined, EntersOnce, MembershipIsKept, InvitersWereAdmins
<1>6. Strays' = Strays
  BY DEF Strays, Unreferenced
<1>7. StraysAreCounted'
  BY <1>6 DEF StraysAreCounted
<1>8. QED  BY <1>1, <1>4, <1>5, <1>7

LEMMA RefuseStep ==
  ASSUME WorkspaceInvariant, NEW q \in Requests, Refuse(q)
  PROVE  WorkspaceInvariant'
<1>1. Stands(NoRequest)
  BY IdleStands DEF Stands, AcceptPcs, WorkspacePcs
<1>2. request' = [request EXCEPT ![q] = NoRequest] /\ UNCHANGED <<data, history>>
  BY DEF Refuse, Done, Goto
<1>3. QED  BY <1>1, <1>2, IdleStands, QuietStep

(* The steps of a request that only read.                                    *)
ReadStep(q) ==
  \/ \E s \in Subjects : Authenticate(q, s)
  \/ \E s \in Subjects, i \in Invites : AcceptRequest(q, s, i)
  \/ AcceptLookup(q)
  \/ AcceptCheck(q)
  \/ \E s \in Subjects : CreateWorkspace(q, s)
  \/ ResolveSlug(q)
  \/ Fail(q)

LEMMA ReadStepKeeps ==
  ASSUME WorkspaceInvariant, NEW q \in Requests, ReadStep(q)
  PROVE  WorkspaceInvariant'
<1>1. request[q] \in RequestRecords /\ Stands(request[q])
  BY DEF WorkspaceInvariant, RowsAreTyped, RequestRecords, RequestsStand
<1>2. ASSUME NEW s \in Subjects, Authenticate(q, s)
      PROVE  WorkspaceInvariant'
  <2>1. /\ request' = [request EXCEPT ![q] = Principal(s)] /\ UNCHANGED <<data, history>>
        /\ memberships[s].role \in WriteRoles
    BY <1>2 DEF Authenticate, Goto
  <2>2. Principal(s) \in RequestRecords
    BY IdleStands DEF WorkspaceInvariant, RowsAreTyped, Principal, RequestRecords, NoRequest, Pcs
  <2>3. /\ Principal(s).pc = "authorised" /\ Principal(s).user = memberships[s].user
        /\ Principal(s).tenant = memberships[s].tenant
    BY DEF Principal, NoRequest
  <2>4. Stands(Principal(s))
    BY <2>1, <2>3 DEF WorkspaceInvariant, MembershipsStand, Stands, AcceptPcs, WorkspacePcs
  <2>5. QED  BY <2>1, <2>2, <2>3, <2>4, QuietStep
<1>3. ASSUME NEW s \in Subjects, NEW i \in Invites, AcceptRequest(q, s, i)
      PROVE  WorkspaceInvariant'
  <2> DEFINE next == [NoRequest EXCEPT !.pc = "accept_lookup", !.subject = s, !.invite = i]
  <2>1. /\ request' = [request EXCEPT ![q] = next] /\ UNCHANGED <<data, history>>
        /\ invitations[i].status # "none"
    BY <1>3 DEF AcceptRequest, Goto
  <2>2. next \in RequestRecords
    BY IdleStands DEF RequestRecords, NoRequest, Pcs
  <2>3. next.pc = "accept_lookup" /\ next.subject = s /\ next.invite = i
    BY DEF NoRequest
  <2> HIDE DEF next
  <2>4. Stands(next)
    BY <2>1, <2>3 DEF Stands, WorkspacePcs
  <2>5. QED  BY <2>1, <2>2, <2>3, <2>4, QuietStep
<1>4. ASSUME NEW next, NEW pc \in AcceptPcs, request[q].pc \in AcceptPcs,
             next = [request[q] EXCEPT !.pc = pc],
             Goto(q, next), UNCHANGED <<data, history>>
      PROVE  WorkspaceInvariant'
  <2>1. next \in RequestRecords
    BY <1>1, <1>4 DEF RequestRecords, AcceptPcs, Pcs
  <2>2. /\ next.pc = pc /\ next.subject = request[q].subject /\ next.invite = request[q].invite
    BY <1>1, <1>4 DEF RequestRecords
  <2>3. Stands(next)
    BY <1>1, <1>4, <2>2 DEF Stands, AcceptPcs, WorkspacePcs
  <2>4. QED  BY <1>4, <2>1, <2>2, <2>3, QuietStep DEF Goto, AcceptPcs
<1>5. ASSUME AcceptLookup(q)
      PROVE  WorkspaceInvariant'
  <2>1. /\ request[q].pc = "accept_lookup" /\ UNCHANGED <<data, history>>
        /\ \/ Goto(q, [request[q] EXCEPT !.pc = "expire"])
           \/ Goto(q, [request[q] EXCEPT !.pc = "accept_check"])
           \/ Done(q)
    BY <1>5 DEF AcceptLookup
  <2>2. CASE Done(q)
    BY <2>1, <2>2, RefuseStep DEF Refuse
  <2>3. CASE Goto(q, [request[q] EXCEPT !.pc = "expire"])
    BY <1>4, <2>1, <2>3 DEF AcceptPcs
  <2>4. CASE Goto(q, [request[q] EXCEPT !.pc = "accept_check"])
    BY <1>4, <2>1, <2>4 DEF AcceptPcs
  <2>5. QED  BY <2>1, <2>2, <2>3, <2>4
<1>6. ASSUME AcceptCheck(q)
      PROVE  WorkspaceInvariant'
  <2>1. /\ request[q].pc = "accept_check" /\ UNCHANGED <<data, history>>
        /\ Done(q) \/ Goto(q, [request[q] EXCEPT !.pc = "accept_commit"])
    BY <1>6 DEF AcceptCheck
  <2>2. CASE Done(q)
    BY <2>1, <2>2, RefuseStep DEF Refuse
  <2>3. CASE Goto(q, [request[q] EXCEPT !.pc = "accept_commit"])
    BY <1>4, <2>1, <2>3 DEF AcceptPcs
  <2>4. QED  BY <2>1, <2>2, <2>3
<1>7. ASSUME NEW s \in Subjects, CreateWorkspace(q, s)
      PROVE  WorkspaceInvariant'
  <2> DEFINE next == [NoRequest EXCEPT !.pc = "workspace_slug", !.subject = s]
  <2>1. request' = [request EXCEPT ![q] = next] /\ UNCHANGED <<data, history>>
    BY <1>7 DEF CreateWorkspace, Goto
  <2>2. next \in RequestRecords
    BY IdleStands DEF RequestRecords, NoRequest, Pcs
  <2>3. next.pc = "workspace_slug" /\ next.subject = s
    BY DEF NoRequest
  <2> HIDE DEF next
  <2>4. Stands(next)
    BY <2>3 DEF Stands, AcceptPcs
  <2>5. QED  BY <2>1, <2>2, <2>3, <2>4, QuietStep
<1>8. ASSUME ResolveSlug(q)
      PROVE  WorkspaceInvariant'
  <2>1. /\ request[q].pc = "workspace_slug" /\ UNCHANGED <<data, history>>
        /\ \/ Done(q)
           \/ \E slug \in 1..MaxSlugs : Goto(q, [request[q] EXCEPT !.pc = "workspace_commit", !.slug = slug])
    BY <1>8 DEF ResolveSlug
  <2>2. CASE Done(q)
    BY <2>1, <2>2, RefuseStep DEF Refuse
  <2>3. ASSUME NEW slug \in 1..MaxSlugs,
               Goto(q, [request[q] EXCEPT !.pc = "workspace_commit", !.slug = slug])
        PROVE  WorkspaceInvariant'
    <3> DEFINE next == [request[q] EXCEPT !.pc = "workspace_commit", !.slug = slug]
    <3>1. next \in RequestRecords
      <4>1. slug \in 0..MaxSlugs /\ "workspace_commit" \in Pcs
        BY SlugAssumption DEF Pcs
      <4>2. QED  BY <1>1, <4>1 DEF RequestRecords
    <3>2. next.pc = "workspace_commit" /\ next.subject = request[q].subject
      BY <1>1 DEF RequestRecords
    <3>3. request' = [request EXCEPT ![q] = next]
      BY <2>3 DEF Goto
    <3> HIDE DEF next
    <3>4. Stands(next)
      BY <1>1, <2>1, <3>2 DEF Stands, AcceptPcs, WorkspacePcs
    <3>5. QED  BY <2>1, <3>1, <3>2, <3>3, <3>4, QuietStep
  <2>4. QED  BY <2>1, <2>2, <2>3
<1>9. ASSUME Fail(q)
      PROVE  WorkspaceInvariant'
  BY <1>9, RefuseStep DEF Fail
<1>10. QED  BY <1>2, <1>3, <1>5, <1>6, <1>7, <1>8, <1>9 DEF ReadStep

-------------------------------------------------------------------------------
(* The steps that write invitations.                                         *)

(* The row is changed in its status or its due date only, and not to         *)
(* accepted nor from it: whoever joined through it keeps what it offered.    *)
InvitationKeeps(i) ==
  /\ invitations'[i].tenant = invitations[i].tenant /\ invitations'[i].role = invitations[i].role
  /\ invitations'[i].invited_by = invitations[i].invited_by
  /\ invitations'[i].status # "none" <=> invitations[i].status # "none"
  /\ invitations'[i].status = "accepted" <=> invitations[i].status = "accepted"

(* ... or it is inserted by a request that was authorised for the tenant.    *)
InvitationInserted(i) ==
  /\ invitations[i].status = "none"
  /\ invitations'[i].status = "pending"
  /\ <<invitations'[i].invited_by, invitations'[i].tenant>> \in admins

LEMMA InvitationStep ==
  ASSUME WorkspaceInvariant, RowsAreTyped', RequestsStand',
         \A i \in Invites : InvitationKeeps(i) \/ InvitationInserted(i),
         UNCHANGED <<tenants, users, memberships, history>>
  PROVE  WorkspaceInvariant'
<1> USE DEF WorkspaceInvariant, history
<1>1. MembershipsStand' /\ EntersOnce'
  BY DEF MembershipsStand, EntersOnce
<1>2. AcceptedMeansJoined' /\ InvitersWereAdmins'
  BY DEF AcceptedMeansJoined, InvitersWereAdmins, InvitationKeeps, InvitationInserted
<1>3. ASSUME NEW s \in Subjects \ provisioned'.subjects
      PROVE  /\ \A t \in Tenants : creator'[t] = s =>
                  memberships'[s].tenant = t /\ memberships'[s].role = "tenant_admin"
             /\ \A i \in Invites : s \in joined'[i] =>
                  /\ memberships'[s].tenant = invitations'[i].tenant
                  /\ memberships'[s].role = invitations'[i].role
  <2>1. \A i \in Invites : s \in joined[i] => invitations[i].status = "accepted"
    BY DEF AcceptedMeansJoined
  <2>2. \A i \in Invites : s \in joined[i] => InvitationKeeps(i)
    BY <2>1 DEF InvitationInserted
  <2>3. QED  BY <2>2 DEF MembershipIsKept, InvitationKeeps
<1>4. MembershipIsKept'
  BY <1>3 DEF MembershipIsKept
<1>5. Strays' = Strays
  BY DEF Strays, Unreferenced
<1>6. StraysAreCounted'
  BY <1>5 DEF StraysAreCounted
<1>7. QED  BY <1>1, <1>2, <1>4, <1>6

(* A request that wrote an invitation, or one that just ended.               *)
LEMMA DoneStands ==
  ASSUME WorkspaceInvariant, NEW q \in Requests, Done(q), UNCHANGED <<users, memberships, history>>,
         \A i \in Invites : invitations[i].status # "none" => invitations'[i].status # "none"
  PROVE  RequestsStand'
<1>1. Stands(NoRequest)'
  BY IdleStands DEF Stands, AcceptPcs, WorkspacePcs
<1>2. \A p \in Requests, s \in Subjects :
        request[p].pc = "provision_upsert" => memberships'[s].user # request[p].user
  BY DEF WorkspaceInvariant, RequestsStand, Stands, Unreferenced
<1>3. request' = [request EXCEPT ![q] = NoRequest]
  BY DEF Done, Goto
<1>4. QED  BY <1>1, <1>2, <1>3, IdleStands, OthersStand DEF WorkspaceInvariant, history

LEMMA UpdateIfPendingKeeps ==
  ASSUME RowsAreTyped, NEW i, NEW status \in {"revoked", "expired"}, UpdateIfPending(i, status), i \in Invites
  PROVE  /\ invitations' \in [Invites -> InvitationRecords]
         /\ \A j \in Invites : InvitationKeeps(j)
<1>1. invitations \in [Invites -> InvitationRecords]
  BY DEF RowsAreTyped, InvitationRecords
<1>2. CASE invitations[i].status # "pending"
  BY <1>1, <1>2 DEF UpdateIfPending, InvitationKeeps
<1>3. CASE invitations[i].status = "pending"
  <2> DEFINE row == [invitations[i] EXCEPT !.status = status]
  <2>1. invitations' = [invitations EXCEPT ![i] = row]
    BY <1>3 DEF UpdateIfPending
  <2>2. /\ row \in InvitationRecords
        /\ row.status = status /\ row.tenant = invitations[i].tenant
        /\ row.role = invitations[i].role /\ row.invited_by = invitations[i].invited_by
    BY <1>1 DEF InvitationRecords
  <2> HIDE DEF row
  <2>3. invitations' \in [Invites -> InvitationRecords]
    BY <1>1, <2>1, <2>2
  <2>4. invitations'[i] = row /\ \A j \in Invites \ {i} : invitations'[j] = invitations[j]
    BY <1>1, <2>1
  <2>5. \A j \in Invites : InvitationKeeps(j)
    BY <1>3, <2>2, <2>4 DEF InvitationKeeps
  <2>6. QED  BY <2>3, <2>5
<1>4. QED  BY <1>2, <1>3

LEMMA RequestEndTyped ==
  ASSUME RowsAreTyped, NEW q \in Requests, Done(q)
  PROVE  request' \in [Requests -> RequestRecords]
  BY IdleStands DEF RowsAreTyped, Done, Goto, RequestRecords

LEMMA CreateInvitationStep ==
  ASSUME WorkspaceInvariant, NEW q \in Requests, NEW i \in Invites, NEW role \in Roles,
         CreateInvitation(q, i, role)
  PROVE  WorkspaceInvariant'
<1> DEFINE t == request[q].tenant
           u == request[q].user
           row == [status |-> "pending", due |-> FALSE, tenant |-> t, role |-> role, invited_by |-> u]
<1>1. /\ Done(q) /\ invitations[i] = NoInvite
      /\ invitations' = [invitations EXCEPT ![i] = row]
      /\ UNCHANGED <<tenants, users, memberships, history>>
  BY DEF CreateInvitation, Authorised, InsertInvitation
<1>2. <<u, t>> \in admins /\ u \in Users /\ t \in Tenants
  BY DEF CreateInvitation, Authorised, WorkspaceInvariant, RequestsStand, Stands, RowsAreTyped
<1>3. row.status = "pending" /\ row.tenant = t /\ row.invited_by = u
  OBVIOUS
<1>4. row \in InvitationRecords
  BY <1>2 DEF InvitationRecords
<1> HIDE DEF t, u, row
<1>5. invitations'[i] = row /\ \A j \in Invites \ {i} : invitations'[j] = invitations[j]
  BY <1>1 DEF WorkspaceInvariant, RowsAreTyped
<1>6. \A j \in Invites : InvitationKeeps(j) \/ InvitationInserted(j)
  BY <1>1, <1>2, <1>3, <1>5 DEF InvitationKeeps, InvitationInserted, NoInvite
<1>7. RowsAreTyped'
  BY <1>1, <1>4, RequestEndTyped DEF WorkspaceInvariant, RowsAreTyped, history, RequestRecords, InvitationRecords
<1>8. RequestsStand'
  BY <1>1, <1>6, DoneStands DEF InvitationKeeps, InvitationInserted
<1>9. QED  BY <1>1, <1>6, <1>7, <1>8, InvitationStep

LEMMA PendingStep ==
  ASSUME WorkspaceInvariant, NEW q \in Requests, NEW i \in Invites, NEW status \in {"revoked", "expired"},
         UpdateIfPending(i, status), Done(q), UNCHANGED <<tenants, users, memberships, history>>
  PROVE  WorkspaceInvariant'
<1> USE DEF WorkspaceInvariant
<1>1. \A j \in Invites : InvitationKeeps(j)
  BY UpdateIfPendingKeeps
<1>2. RowsAreTyped'
  BY UpdateIfPendingKeeps, RequestEndTyped DEF RowsAreTyped, history, RequestRecords, InvitationRecords
<1>3. RequestsStand'
  BY <1>1, DoneStands DEF InvitationKeeps
<1>4. QED  BY <1>1, <1>2, <1>3, InvitationStep

LEMMA TimePassesStep ==
  ASSUME WorkspaceInvariant, NEW i \in Invites, TimePasses(i)
  PROVE  WorkspaceInvariant'
<1> USE DEF WorkspaceInvariant
<1>1. /\ invitations' = [invitations EXCEPT ![i].due = TRUE]
      /\ UNCHANGED <<tenants, users, memberships, request, history>>
  BY DEF TimePasses
<1>2. invitations \in [Invites -> InvitationRecords]
  BY DEF RowsAreTyped, InvitationRecords
<1> DEFINE row == [invitations[i] EXCEPT !.due = TRUE]
<1>3. invitations' = [invitations EXCEPT ![i] = row]
  BY <1>1
<1>4. /\ row \in InvitationRecords
      /\ row.status = invitations[i].status /\ row.tenant = invitations[i].tenant
      /\ row.role = invitations[i].role /\ row.invited_by = invitations[i].invited_by
  BY <1>2 DEF InvitationRecords
<1> HIDE DEF row
<1>5. invitations' \in [Invites -> InvitationRecords]
  BY <1>2, <1>3, <1>4
<1>6. invitations'[i] = row /\ \A j \in Invites \ {i} : invitations'[j] = invitations[j]
  BY <1>2, <1>3
<1>7. \A j \in Invites : InvitationKeeps(j)
  BY <1>4, <1>6 DEF InvitationKeeps
<1>8. RowsAreTyped'
  BY <1>1, <1>5 DEF RowsAreTyped, history, InvitationRecords
<1>9. RequestsStand'
  BY <1>1, <1>7 DEF RequestsStand, Stands, Unreferenced, InvitationKeeps, history
<1>10. QED  BY <1>1, <1>7, <1>8, <1>9, InvitationStep

-------------------------------------------------------------------------------
(* The steps that write tenants only.                                        *)

LEMMA TenantWrite ==
  ASSUME WorkspaceInvariant, UNCHANGED <<users, memberships, invitations, history>>,
         tenants' \in [Tenants -> TenantRecords],
         UNCHANGED request \/ \E q \in Requests : Done(q)
  PROVE  WorkspaceInvariant'
<1> USE DEF WorkspaceInvariant, history
<1>1. RowsAreTyped'
  <2>1. request' \in [Requests -> RequestRecords]
    BY RequestEndTyped DEF RowsAreTyped, RequestRecords
  <2>2. QED  BY <2>1 DEF RowsAreTyped, RequestRecords, TenantRecords
<1>2. RequestsStand'
  <2>1. CASE UNCHANGED request
    BY <2>1 DEF RequestsStand, Stands, Unreferenced
  <2>2. CASE \E q \in Requests : Done(q)
    BY <2>2, DoneStands
  <2>3. QED  BY <2>1, <2>2
<1>3. MembershipsStand' /\ AcceptedMeansJoined' /\ EntersOnce' /\ MembershipIsKept' /\ InvitersWereAdmins'
  BY DEF MembershipsStand, AcceptedMeansJoined, EntersOnce, MembershipIsKept, InvitersWereAdmins
<1>4. Strays' = Strays
  BY DEF Strays, Unreferenced
<1>5. StraysAreCounted'
  BY <1>4 DEF StraysAreCounted
<1>6. QED  BY <1>1, <1>2, <1>3, <1>5

LEMMA SetStatusTyped ==
  ASSUME RowsAreTyped, NEW t, NEW status \in {"active", "suspended"}, SetStatus(t, status)
  PROVE  tenants' \in [Tenants -> TenantRecords]
<1>1. tenants \in [Tenants -> TenantRecords]
  BY DEF RowsAreTyped, TenantRecords
<1> DEFINE row == [tenants[t] EXCEPT !.status = status]
<1>2. tenants' = [tenants EXCEPT ![t] = row]
  BY DEF SetStatus
<1>3. t \in Tenants => row \in TenantRecords
  BY <1>1 DEF TenantRecords
<1> HIDE DEF row
<1>4. QED  BY <1>1, <1>2, <1>3

LEMMA TenantSteps ==
  ASSUME WorkspaceInvariant, TenantStep \/ \E q \in Requests : CompleteOnboarding(q)
  PROVE  WorkspaceInvariant'
<1>1. ASSUME NEW t \in Tenants, NEW slug \in 1..MaxSlugs, CreateTenant(t, slug)
      PROVE  WorkspaceInvariant'
  <2>1. tenants' \in [Tenants -> TenantRecords]
    BY <1>1, SlugAssumption DEF CreateTenant, WorkspaceInvariant, RowsAreTyped, TenantRecords
  <2>2. QED  BY <1>1, <2>1, TenantWrite DEF CreateTenant
<1>2. ASSUME NEW t \in Tenants, NEW status \in {"active", "suspended"}, UpdateTenant(t, status)
      PROVE  WorkspaceInvariant'
  BY <1>2, SetStatusTyped, TenantWrite DEF UpdateTenant, WorkspaceInvariant
<1>3. ASSUME NEW q \in Requests, CompleteOnboarding(q)
      PROVE  WorkspaceInvariant'
  BY <1>3, SetStatusTyped, TenantWrite DEF CompleteOnboarding, Authorised, WorkspaceInvariant
<1>4. QED  BY <1>1, <1>2, <1>3 DEF TenantStep

-------------------------------------------------------------------------------
(* The steps that write users and memberships.                               *)

(* A new user and the first membership of an account, in one transaction.    *)
Enrolled(s, u, t, role) ==
  /\ memberships[s] = NoMembership
  /\ u \in Users \ users
  /\ users' = users \cup {u}
  /\ memberships' = [memberships EXCEPT ![s] = [tenant |-> t, role |-> role, user |-> u]]
  /\ NoteRole(u, t, role)

LEMMA EnrolledRow ==
  ASSUME RowsAreTyped, NEW s \in Subjects, NEW u, NEW t \in Tenants, NEW role \in Roles,
         Enrolled(s, u, t, role)
  PROVE  /\ memberships' \in [Subjects -> MembershipRecords]
         /\ memberships'[s].user = u /\ memberships'[s].tenant = t /\ memberships'[s].role = role
         /\ memberships'[s] # NoMembership
         /\ \A r \in Subjects \ {s} : memberships'[r] = memberships[r]
         /\ users' \subseteq Users
         /\ admins' \subseteq Users \X Tenants /\ admins \subseteq admins'
         /\ role \in WriteRoles => <<u, t>> \in admins'
<1>1. memberships \in [Subjects -> MembershipRecords]
  BY DEF RowsAreTyped, MembershipRecords
<1> DEFINE row == [tenant |-> t, role |-> role, user |-> u]
<1>2. /\ row \in MembershipRecords
      /\ row.user = u /\ row.tenant = t /\ row.role = role
  BY DEF Enrolled, MembershipRecords
<1>3. memberships' = [memberships EXCEPT ![s] = row]
  BY DEF Enrolled
<1> HIDE DEF row
<1>4. memberships' \in [Subjects -> MembershipRecords] /\ memberships'[s] = row
      /\ \A r \in Subjects \ {s} : memberships'[r] = memberships[r]
  BY <1>1, <1>2, <1>3
<1>5. memberships'[s] # NoMembership
  BY <1>2, <1>4, NobodyIsUser DEF Enrolled
<1>6. users' \subseteq Users /\ admins' \subseteq Users \X Tenants /\ admins \subseteq admins'
      /\ (role \in WriteRoles => <<u, t>> \in admins')
  BY DEF Enrolled, NoteRole, RowsAreTyped
<1>7. QED  BY <1>2, <1>4, <1>5, <1>6

(* Nobody loses a user by it, and the new user is referred to.               *)
LEMMA EnrolledRows ==
  ASSUME WorkspaceInvariant, NEW s \in Subjects, NEW u, NEW t \in Tenants, NEW role \in Roles,
         Enrolled(s, u, t, role), UNCHANGED provisioned
  PROVE  MembershipsStand' /\ StraysAreCounted'
<1> USE DEF WorkspaceInvariant
<1>1. /\ memberships'[s].user = u /\ memberships'[s].tenant = t /\ memberships'[s].role = role
      /\ \A r \in Subjects \ {s} : memberships'[r] = memberships[r]
      /\ admins \subseteq admins'
      /\ role \in WriteRoles => <<u, t>> \in admins'
  BY EnrolledRow
<1>2. users' = users \cup {u} /\ memberships[s].user \notin users /\ u \notin users
  BY NobodyIsUser DEF Enrolled, RowsAreTyped
<1>3. MembershipsStand'
  BY <1>1, <1>2 DEF MembershipsStand
<1>4. Strays' = Strays
  BY <1>1, <1>2 DEF Strays, Unreferenced
<1>5. StraysAreCounted'
  BY <1>4 DEF StraysAreCounted
<1>6. QED  BY <1>3, <1>5

(* What the other requests rely on.                                          *)
LEMMA EnrolledStand ==
  ASSUME WorkspaceInvariant, NEW s \in Subjects, NEW u, NEW t \in Tenants, NEW role \in Roles,
         Enrolled(s, u, t, role), NEW q \in Requests, Done(q),
         \A i \in Invites : invitations[i].status # "none" => invitations'[i].status # "none"
  PROVE  RequestsStand'
<1>1. /\ memberships'[s].user = u /\ \A r \in Subjects \ {s} : memberships'[r] = memberships[r]
      /\ admins \subseteq admins'
  BY EnrolledRow DEF WorkspaceInvariant
<1>2. u \notin users /\ users' = users \cup {u}
  BY DEF Enrolled
<1>3. \A p \in Requests, r \in Subjects :
        request[p].pc = "provision_upsert" => memberships'[r].user # request[p].user
  <2>1. \A p \in Requests : request[p].pc = "provision_upsert" =>
          request[p].user \in users /\ Unreferenced(request[p].user)
    BY DEF WorkspaceInvariant, RequestsStand, Stands
  <2>2. QED  BY <1>1, <1>2, <2>1 DEF Unreferenced
<1>4. Stands(NoRequest)'
  BY IdleStands DEF Stands, AcceptPcs, WorkspacePcs
<1>5. request' = [request EXCEPT ![q] = NoRequest]
  BY DEF Done, Goto
<1>6. QED  BY <1>1, <1>2, <1>3, <1>4, <1>5, IdleStands, OthersStand DEF WorkspaceInvariant

(* accept_invitation: the account had no membership, so it had entered       *)
(* nothing before.                                                           *)
LEMMA AcceptStep ==
  ASSUME WorkspaceInvariant, NEW q \in Requests, AcceptCommit(q)
  PROVE  WorkspaceInvariant'
<1> DEFINE s == request[q].subject
           i == request[q].invite
           t == invitations[i].tenant
           role == invitations[i].role
<1> USE DEF WorkspaceInvariant
<1>1. CASE Refuse(q)
  BY <1>1, RefuseStep
<1>2. ASSUME NEW u \in Users \ users, UniqueKeyFree(s), Join(s, i, u), Done(q)
      PROVE  WorkspaceInvariant'
  <2>1. s \in Subjects /\ i \in Invites /\ invitations[i].status # "none"
    BY DEF AcceptCommit, RequestsStand, Stands, AcceptPcs
  <2> HIDE DEF s, i
  <2>2. t \in Tenants /\ role \in Roles
    <3>1. <<invitations[i].invited_by, t>> \in Users \X Tenants
      BY <2>1 DEF InvitersWereAdmins, RowsAreTyped
    <3>2. role \in Roles
      BY <2>1 DEF RowsAreTyped
    <3>3. QED  BY <3>1, <3>2
  <2>3. /\ Enrolled(s, u, t, role)
        /\ invitations' = [invitations EXCEPT ![i].status = "accepted"]
        /\ joined' = [joined EXCEPT ![i] = @ \cup {s}]
        /\ UNCHANGED <<tenants, creator, provisioned>>
    BY <1>2 DEF Join, Enrolled, UniqueKeyFree
  <2> HIDE DEF t, role
  <2>4. invitations \in [Invites -> InvitationRecords]
    BY DEF RowsAreTyped, InvitationRecords
  <2>5. /\ invitations' \in [Invites -> InvitationRecords]
        /\ invitations'[i].status = "accepted"
        /\ \A j \in Invites \ {i} : invitations'[j].status = invitations[j].status
        /\ \A j \in Invites :
             /\ invitations'[j].tenant = invitations[j].tenant
             /\ invitations'[j].role = invitations[j].role
             /\ invitations'[j].invited_by = invitations[j].invited_by
    <3> DEFINE row == [invitations[i] EXCEPT !.status = "accepted"]
    <3>1. /\ row \in InvitationRecords /\ row.status = "accepted"
          /\ row.tenant = invitations[i].tenant /\ row.role = invitations[i].role
          /\ row.invited_by = invitations[i].invited_by
      BY <2>1, <2>4 DEF InvitationRecords
    <3>2. invitations' = [invitations EXCEPT ![i] = row]
      BY <2>3
    <3> HIDE DEF row
    <3>3. /\ invitations' \in [Invites -> InvitationRecords] /\ invitations'[i] = row
          /\ \A j \in Invites \ {i} : invitations'[j] = invitations[j]
      BY <2>1, <2>4, <3>1, <3>2
    <3>4. QED  BY <3>1, <3>3
  <2>6. /\ joined' \in [Invites -> SUBSET Subjects]
        /\ joined'[i] = joined[i] \cup {s}
        /\ \A j \in Invites \ {i} : joined'[j] = joined[j]
    BY <2>1, <2>3 DEF RowsAreTyped
  <2>7. /\ memberships' \in [Subjects -> MembershipRecords]
        /\ memberships'[s].user = u /\ memberships'[s].tenant = t /\ memberships'[s].role = role
        /\ memberships'[s] # NoMembership
        /\ \A r \in Subjects \ {s} : memberships'[r] = memberships[r]
        /\ users' \subseteq Users
        /\ admins' \subseteq Users \X Tenants /\ admins \subseteq admins'
    BY <2>1, <2>2, <2>3, EnrolledRow
  <2>8. RowsAreTyped'
    BY <1>2, <2>3, <2>5, <2>6, <2>7, RequestEndTyped
    DEF RowsAreTyped, RequestRecords, InvitationRecords, MembershipRecords
  <2>9. \A j \in Invites : invitations[j].status # "none" => invitations'[j].status # "none"
    BY <2>5
  <2>10. MembershipsStand' /\ StraysAreCounted'
    BY <2>1, <2>2, <2>3, EnrolledRows
  <2>11. RequestsStand'
    BY <1>2, <2>1, <2>2, <2>3, <2>9, EnrolledStand
  <2>12. AcceptedMeansJoined'
    BY <2>5, <2>6 DEF AcceptedMeansJoined
  <2>13. InvitersWereAdmins'
    BY <2>1, <2>5, <2>7 DEF InvitersWereAdmins
  <2>14. (\A j \in Invites : s \notin joined[j]) /\ \A w \in Tenants : creator[w] # s
    BY <2>1, <2>3 DEF Enrolled, EntersOnce
  <2>15. EntersOnce'
    BY <2>3, <2>6, <2>7, <2>14 DEF EntersOnce
  <2>16. MembershipIsKept'
    BY <2>3, <2>5, <2>6, <2>7, <2>14 DEF MembershipIsKept, t, role
  <2>17. QED  BY <2>8, <2>10, <2>11, <2>12, <2>13, <2>15, <2>16
<1>3. QED  BY <1>1, <1>2 DEF AcceptCommit

(* create_workspace: the same, for the creator.                              *)
LEMMA CommitStep ==
  ASSUME WorkspaceInvariant, NEW q \in Requests, CommitWorkspace(q)
  PROVE  WorkspaceInvariant'
<1> DEFINE s == request[q].subject
           slug == request[q].slug
<1> USE DEF WorkspaceInvariant
<1>1. CASE Refuse(q)
  BY <1>1, RefuseStep
<1>2. ASSUME NEW t \in Tenants, NEW u \in Users \ users, UniqueKeyFree(s), Done(q),
             tenants' = [tenants EXCEPT ![t] = [status |-> "provisioning", slug |-> slug]],
             users' = users \cup {u},
             memberships' = [memberships EXCEPT ![s] = [tenant |-> t, role |-> "tenant_admin", user |-> u]],
             creator' = [creator EXCEPT ![t] = s],
             NoteRole(u, t, "tenant_admin"),
             UNCHANGED <<invitations, joined, provisioned>>
      PROVE  WorkspaceInvariant'
  <2>1. s \in Subjects /\ slug \in 0..MaxSlugs
    BY DEF CommitWorkspace, RequestsStand, Stands, WorkspacePcs, RowsAreTyped
  <2>2. Enrolled(s, u, t, "tenant_admin") /\ "tenant_admin" \in Roles
    BY <1>2 DEF Enrolled, UniqueKeyFree, Roles
  <2>3. tenants' \in [Tenants -> TenantRecords]
    BY <1>2, <2>1 DEF RowsAreTyped, TenantRecords
  <2> HIDE DEF s, slug
  <2>4. /\ creator' \in [Tenants -> Subjects \cup {None}]
        /\ creator'[t] = s /\ \A w \in Tenants \ {t} : creator'[w] = creator[w]
    BY <1>2, <2>1 DEF RowsAreTyped
  <2>5. /\ memberships' \in [Subjects -> MembershipRecords]
        /\ memberships'[s].tenant = t /\ memberships'[s].role = "tenant_admin"
        /\ memberships'[s] # NoMembership
        /\ \A r \in Subjects \ {s} : memberships'[r] = memberships[r]
        /\ users' \subseteq Users
        /\ admins' \subseteq Users \X Tenants /\ admins \subseteq admins'
    <3> DEFINE role == "tenant_admin"
    <3>1. RowsAreTyped
      OBVIOUS
    <3>2. role \in Roles /\ Enrolled(s, u, t, role)
      BY <2>2
    <3> HIDE DEF role, WorkspaceInvariant
    <3>3. /\ memberships' \in [Subjects -> MembershipRecords]
          /\ memberships'[s].tenant = t /\ memberships'[s].role = role
          /\ memberships'[s] # NoMembership
          /\ \A r \in Subjects \ {s} : memberships'[r] = memberships[r]
          /\ users' \subseteq Users
          /\ admins' \subseteq Users \X Tenants /\ admins \subseteq admins'
      BY <2>1, <3>1, <3>2, EnrolledRow
    <3>4. QED  BY <3>3 DEF role
  <2>6. RowsAreTyped'
    BY <1>2, <2>3, <2>4, <2>5, RequestEndTyped DEF RowsAreTyped, RequestRecords, TenantRecords, MembershipRecords
  <2>7. MembershipsStand' /\ StraysAreCounted'
    BY <1>2, <2>1, <2>2, EnrolledRows
  <2>8. RequestsStand'
    BY <1>2, <2>1, <2>2, EnrolledStand
  <2>9. AcceptedMeansJoined' /\ InvitersWereAdmins'
    BY <1>2, <2>5 DEF AcceptedMeansJoined, InvitersWereAdmins
  <2>10. (\A j \in Invites : s \notin joined[j]) /\ \A w \in Tenants : creator[w] # s
    BY <2>1, <2>2 DEF Enrolled, EntersOnce
  <2>11. EntersOnce'
    BY <1>2, <2>4, <2>5, <2>10 DEF EntersOnce
  <2>12. MembershipIsKept'
    BY <1>2, <2>4, <2>5, <2>10 DEF MembershipIsKept
  <2>13. QED  BY <2>6, <2>7, <2>8, <2>9, <2>11, <2>12
<1>3. QED  BY <1>1, <1>2 DEF CommitWorkspace

(* create_membership, first transaction: one more user nobody refers to.     *)
LEMMA ProvisionUserStep ==
  ASSUME WorkspaceInvariant, NEW q \in Requests, NEW s \in Subjects, NEW t \in Tenants,
         NEW role \in Roles, ProvisionUser(q, s, t, role)
  PROVE  WorkspaceInvariant'
<1> USE DEF WorkspaceInvariant
<1>1. PICK u \in Users \ users :
        /\ users' = users \cup {u}
        /\ Goto(q, [NoRequest EXCEPT !.pc = "provision_upsert", !.subject = s, !.tenant = t,
                                     !.role = role, !.user = u])
  BY DEF ProvisionUser
<1>2. /\ provisioned' = [provisioned EXCEPT !.count = @ + 1] /\ provisioned.count < MaxAdmin
      /\ UNCHANGED <<tenants, memberships, invitations, joined, creator, admins>>
  BY DEF ProvisionUser
<1> DEFINE next == [NoRequest EXCEPT !.pc = "provision_upsert", !.subject = s, !.tenant = t,
                                     !.role = role, !.user = u]
<1>3. next \in RequestRecords
  <2>1. u \in Users /\ "provision_upsert" \in Pcs /\ 0 \in 0..MaxSlugs
    BY SlugAssumption DEF Pcs
  <2>2. QED  BY <2>1 DEF RequestRecords, NoRequest
<1>4. /\ next.pc = "provision_upsert" /\ next.subject = s /\ next.tenant = t /\ next.user = u
      /\ request' = [request EXCEPT ![q] = next]
  BY <1>1 DEF NoRequest, Goto
<1> HIDE DEF next
<1>5. /\ request' \in [Requests -> RequestRecords] /\ request'[q] = next
      /\ \A p \in Requests \ {q} : request'[p] = request[p]
  BY <1>3, <1>4 DEF RowsAreTyped, RequestRecords
<1>6. /\ provisioned'.subjects = provisioned.subjects /\ provisioned'.count = provisioned.count + 1
      /\ provisioned' \in [subjects : SUBSET Subjects, count : 0..MaxAdmin] /\ provisioned.count \in Nat
  BY <1>2, SlugAssumption DEF RowsAreTyped
<1>7. RowsAreTyped'
  BY <1>1, <1>2, <1>5, <1>6 DEF RowsAreTyped, RequestRecords
<1>8. \A r \in Subjects : memberships[r].user # u
  BY NobodyIsUser DEF MembershipsStand
<1>9. RequestsStand'
  <2>1. Stands(next)'
    BY <1>1, <1>2, <1>4, <1>8 DEF Stands, Unreferenced, AcceptPcs, WorkspacePcs
  <2>2. \A p \in Requests \ {q} : Stands(request[p])
    BY DEF RequestsStand
  <2>3. \A p \in Requests \ {q} : Stands(request[p])'
    BY <1>1, <1>2, <1>5, <2>2 DEF Stands, Unreferenced
  <2>4. \A p \in Requests : Stands(request[p])'
    BY <1>5, <2>1, <2>3 DEF Stands
  <2>5. \A p \in Requests \ {q} : request'[p].pc = "provision_upsert" => request'[p].user \in users
    BY <1>5, <2>2 DEF Stands
  <2>6. ASSUME NEW p \in Requests, NEW o \in Requests,
               request'[p].pc = "provision_upsert", request'[o].pc = "provision_upsert",
               request'[p].user = request'[o].user
        PROVE  p = o
    BY <1>1, <1>4, <1>5, <2>5, <2>6 DEF RequestsStand
  <2>7. QED  BY <2>4, <2>6 DEF RequestsStand
<1>10. MembershipsStand'
  BY <1>1, <1>2 DEF MembershipsStand
<1>11. AcceptedMeansJoined' /\ EntersOnce' /\ MembershipIsKept' /\ InvitersWereAdmins'
  BY <1>2, <1>6 DEF AcceptedMeansJoined, EntersOnce, MembershipIsKept, InvitersWereAdmins
<1>12. StraysAreCounted'
  <2>1. Strays' = Strays \cup {u} /\ u \notin Strays
    BY <1>1, <1>2, <1>8 DEF Strays, Unreferenced
  <2>2. IsFiniteSet(Strays) /\ Cardinality(Strays) <= provisioned.count /\ Cardinality(Strays) \in Nat
    BY FS_CardinalityType DEF StraysAreCounted
  <2>3. IsFiniteSet(Strays') /\ Cardinality(Strays') = Cardinality(Strays) + 1
    BY <2>1, <2>2, FS_AddElement
  <2>4. QED  BY <1>6, <2>2, <2>3 DEF StraysAreCounted
<1>13. QED  BY <1>7, <1>9, <1>10, <1>11, <1>12

(* ... second transaction: that user is referred to, in place of the one the *)
(* account had.                                                              *)
LEMMA ProvisionUpsertStep ==
  ASSUME WorkspaceInvariant, NEW q \in Requests, ProvisionUpsert(q)
  PROVE  WorkspaceInvariant'
<1> DEFINE s == request[q].subject
           t == request[q].tenant
           u == request[q].user
           role == request[q].role
           row == [tenant |-> t, role |-> role, user |-> u]
<1> USE DEF WorkspaceInvariant
<1>1. /\ s \in Subjects /\ t \in Tenants /\ u \in users /\ Unreferenced(u)
      /\ request[q].pc = "provision_upsert"
  BY DEF ProvisionUpsert, RequestsStand, Stands
<1>2. role \in Roles /\ u \in Users
  BY <1>1 DEF RowsAreTyped
<1>3. /\ memberships' = [memberships EXCEPT ![s] = row]
      /\ provisioned' = [provisioned EXCEPT !.subjects = @ \cup {s}]
      /\ NoteRole(u, t, role)
      /\ Done(q)
      /\ UNCHANGED <<tenants, users, invitations, joined, creator>>
  BY DEF ProvisionUpsert
<1>4. /\ row \in MembershipRecords /\ row.tenant = t /\ row.role = role /\ row.user = u
      /\ row # NoMembership
  BY <1>1, <1>2, NobodyIsUser DEF MembershipRecords, NoMembership
<1>5. \A p \in Requests \ {q} :
        request[p].pc = "provision_upsert" => request[p].user # u /\ Unreferenced(request[p].user)
  BY <1>1 DEF RequestsStand, Stands
<1> HIDE DEF s, t, u, role, row
<1>6. /\ memberships' \in [Subjects -> MembershipRecords] /\ memberships'[s] = row
      /\ \A r \in Subjects \ {s} : memberships'[r] = memberships[r]
  BY <1>1, <1>3, <1>4 DEF RowsAreTyped, MembershipRecords
<1>7. /\ admins' \subseteq Users \X Tenants /\ admins \subseteq admins'
      /\ role \in WriteRoles => <<u, t>> \in admins'
  BY <1>1, <1>2, <1>3 DEF NoteRole, RowsAreTyped
<1>8. /\ provisioned'.subjects = provisioned.subjects \cup {s} /\ provisioned'.count = provisioned.count
      /\ provisioned' \in [subjects : SUBSET Subjects, count : 0..MaxAdmin]
  BY <1>1, <1>3 DEF RowsAreTyped
<1>9. RowsAreTyped'
  BY <1>3, <1>6, <1>7, <1>8, RequestEndTyped DEF RowsAreTyped, RequestRecords, MembershipRecords
<1>10. RequestsStand'
  <2>1. Stands(NoRequest)'
    BY IdleStands DEF Stands, AcceptPcs, WorkspacePcs
  <2>2. request' = [request EXCEPT ![q] = NoRequest]
    BY <1>3 DEF Done, Goto
  <2>3. \A p \in Requests \ {q}, r \in Subjects :
          request[p].pc = "provision_upsert" => memberships'[r].user # request[p].user
    BY <1>4, <1>5, <1>6 DEF Unreferenced
  <2>4. QED  BY <1>3, <1>7, <2>1, <2>2, <2>3, IdleStands, OthersStand
<1>11. MembershipsStand'
  BY <1>1, <1>3, <1>4, <1>6, <1>7 DEF MembershipsStand
<1>12. AcceptedMeansJoined' /\ InvitersWereAdmins'
  BY <1>3, <1>7 DEF AcceptedMeansJoined, InvitersWereAdmins
<1>13. EntersOnce'
  BY <1>3, <1>4, <1>6 DEF EntersOnce
<1>14. MembershipIsKept'
  BY <1>3, <1>6, <1>8 DEF MembershipIsKept
<1>15. StraysAreCounted'
  <2>1. u \in Strays /\ IsFiniteSet(Strays) /\ Cardinality(Strays) <= provisioned.count
    BY <1>1 DEF Strays, StraysAreCounted
  <2>2. Strays' \subseteq (Strays \ {u}) \cup {memberships[s].user}
    BY <1>1, <1>3, <1>4, <1>6 DEF Strays, Unreferenced
  <2> DEFINE left == (Strays \ {u}) \cup {memberships[s].user}
  <2>3. IsFiniteSet(Strays \ {u}) /\ Cardinality(Strays \ {u}) = Cardinality(Strays) - 1
    BY <2>1, FS_RemoveElement
  <2>4. /\ Cardinality(Strays) \in Nat /\ Cardinality(Strays \ {u}) \in Nat
        /\ IsFiniteSet(left)
        /\ \/ Cardinality(left) = Cardinality(Strays \ {u})
           \/ Cardinality(left) = Cardinality(Strays \ {u}) + 1
    BY <2>1, <2>3, FS_AddElement, FS_CardinalityType
  <2>5. IsFiniteSet(Strays') /\ Cardinality(Strays') <= Cardinality(left) /\ Cardinality(Strays') \in Nat
    BY <2>2, <2>4, FS_Subset, FS_CardinalityType
  <2>6. provisioned.count \in Nat
    BY SlugAssumption DEF RowsAreTyped
  <2> HIDE DEF left
  <2>7. Cardinality(Strays') <= provisioned.count
    BY <2>1, <2>3, <2>4, <2>5, <2>6
  <2>8. QED  BY <1>8, <2>5, <2>7 DEF StraysAreCounted
<1>16. QED  BY <1>9, <1>10, <1>11, <1>12, <1>13, <1>14, <1>15

-------------------------------------------------------------------------------
LEMMA NextInvariant == WorkspaceInvariant /\ [Next]_vars => WorkspaceInvariant'
<1> SUFFICES ASSUME WorkspaceInvariant, [Next]_vars PROVE WorkspaceInvariant'
  OBVIOUS
<1>1. ASSUME NEW q \in Requests, RequestStep(q)
      PROVE  WorkspaceInvariant'
  <2>1. \/ ReadStep(q) \/ Expire(q) \/ AcceptCommit(q) \/ CommitWorkspace(q) \/ ProvisionUpsert(q)
        \/ \E s \in Subjects, t \in Tenants, role \in Roles : ProvisionUser(q, s, t, role)
    BY <1>1 DEF RequestStep, ReadStep
  <2>2. CASE ReadStep(q)
    BY <2>2, ReadStepKeeps
  <2>3. CASE Expire(q)
    <3>1. request[q].invite \in Invites
      BY <2>3 DEF Expire, WorkspaceInvariant, RequestsStand, Stands, AcceptPcs
    <3>2. QED  BY <2>3, <3>1, PendingStep DEF Expire
  <2>4. CASE AcceptCommit(q)
    BY <2>4, AcceptStep
  <2>5. CASE CommitWorkspace(q)
    BY <2>5, CommitStep
  <2>6. CASE ProvisionUpsert(q)
    BY <2>6, ProvisionUpsertStep
  <2>7. ASSUME NEW s \in Subjects, NEW t \in Tenants, NEW role \in Roles, ProvisionUser(q, s, t, role)
        PROVE  WorkspaceInvariant'
    BY <2>7, ProvisionUserStep
  <2>8. QED  BY <2>1, <2>2, <2>3, <2>4, <2>5, <2>6, <2>7
<1>2. ASSUME NEW q \in Requests, MemberStep(q)
      PROVE  WorkspaceInvariant'
  <2>1. ASSUME NEW s \in Subjects, Authenticate(q, s)
        PROVE  WorkspaceInvariant'
    BY <2>1, ReadStepKeeps DEF ReadStep
  <2>2. ASSUME NEW i \in Invites, NEW role \in Roles, CreateInvitation(q, i, role)
        PROVE  WorkspaceInvariant'
    BY <2>2, CreateInvitationStep
  <2>3. ASSUME NEW i \in Invites, Revoke(q, i)
        PROVE  WorkspaceInvariant'
    BY <2>3, PendingStep DEF Revoke, Authorised
  <2>4. CASE CompleteOnboarding(q)
    BY <2>4, TenantSteps
  <2>5. QED  BY <1>2, <2>1, <2>2, <2>3, <2>4 DEF MemberStep
<1>3. ASSUME NEW i \in Invites, TimePasses(i)
      PROVE  WorkspaceInvariant'
  BY <1>3, TimePassesStep
<1>4. CASE TenantStep
  BY <1>4, TenantSteps
<1>5. CASE UNCHANGED vars
  BY <1>5, TenantWrite DEF vars, data, WorkspaceInvariant, RowsAreTyped, TenantRecords
<1>6. QED  BY <1>1, <1>2, <1>3, <1>4, <1>5 DEF Next

LEMMA WorkspaceHolds == Spec => []WorkspaceInvariant
  BY InitInvariant, NextInvariant, PTL DEF Spec

-------------------------------------------------------------------------------
(* Slugs.  What the rows above leave open is whether two tenants share one:  *)
(* a slug is checked again when it is inserted, and whoever writes a status  *)
(* names a tenant that exists, having read it from a row that does.          *)

TenantsSlugged ==
  /\ \A t \in Tenants : TenantExists(t) <=> tenants[t].slug # 0
  /\ \A t, u \in Tenants : tenants[t].slug = tenants[u].slug /\ tenants[t].slug # 0 => t = u

(* What a request carries from one statement to the next.                    *)
Carries(x) ==
  /\ x.pc = "workspace_commit" => x.slug # 0
  /\ x.pc = "provision_upsert" => TenantExists(x.tenant)

RequestsCarry == \A q \in Requests : Carries(request[q])

AdminsHaveTenants == \A u \in Users, t \in Tenants : <<u, t>> \in admins => TenantExists(t)

SlugInvariant == TenantsSlugged /\ RequestsCarry /\ AdminsHaveTenants

(* The writes to tenants: a status, or a row with a slug nobody has.         *)
StatusWritten == \E t \in Tenants, status \in {"active", "suspended"} : TenantExists(t) /\ SetStatus(t, status)

TenantInserted(t, slug) ==
  /\ ~TenantExists(t) /\ SlugKeyFree(slug)
  /\ \E status \in {"provisioning", "active"} :
       tenants' = [tenants EXCEPT ![t] = [status |-> status, slug |-> slug]]

TenantsGrow == \A t \in Tenants : TenantExists(t) => TenantExists(t)'

LEMMA InitSlugs == Init => SlugInvariant
  BY DEF Init, SlugInvariant, TenantsSlugged, RequestsCarry, Carries, AdminsHaveTenants,
         TenantExists, NoTenant, NoRequest

LEMMA StatusKeepsSlugs ==
  ASSUME RowsAreTyped, TenantsSlugged, StatusWritten
  PROVE  TenantsSlugged' /\ TenantsGrow
<1>1. PICK t \in Tenants, status \in {"active", "suspended"} : TenantExists(t) /\ SetStatus(t, status)
  BY DEF StatusWritten
<1>2. tenants \in [Tenants -> TenantRecords]
  BY DEF RowsAreTyped, TenantRecords
<1> DEFINE row == [tenants[t] EXCEPT !.status = status]
<1>3. tenants' = [tenants EXCEPT ![t] = row] /\ row.status # "none" /\ row.slug = tenants[t].slug
  BY <1>1, <1>2 DEF SetStatus, TenantRecords
<1> HIDE DEF row
<1>4. tenants'[t] = row /\ \A u \in Tenants \ {t} : tenants'[u] = tenants[u]
  BY <1>2, <1>3
<1>5. \A u \in Tenants : tenants'[u].slug = tenants[u].slug /\ (TenantExists(u) <=> TenantExists(u)')
  BY <1>1, <1>3, <1>4 DEF TenantExists
<1>6. QED  BY <1>5 DEF TenantsSlugged, TenantsGrow

LEMMA InsertKeepsSlugs ==
  ASSUME RowsAreTyped, TenantsSlugged, NEW t \in Tenants, NEW slug, slug # 0, TenantInserted(t, slug)
  PROVE  TenantsSlugged' /\ TenantsGrow /\ TenantExists(t)'
<1>1. PICK status \in {"provisioning", "active"} :
        tenants' = [tenants EXCEPT ![t] = [status |-> status, slug |-> slug]]
  BY DEF TenantInserted
<1>2. /\ tenants'[t].status # "none" /\ tenants'[t].slug = slug
      /\ \A u \in Tenants \ {t} : tenants'[u] = tenants[u]
  BY <1>1 DEF RowsAreTyped
<1>3. \A u \in Tenants : TenantExists(u) => tenants[u].slug # slug
  BY DEF TenantInserted, SlugKeyFree, TakenSlugs
<1>4. \A u \in Tenants : tenants[u].slug # slug
  BY <1>3 DEF TenantsSlugged
<1>5. TenantsGrow /\ TenantExists(t)'
  BY <1>2 DEF TenantsGrow, TenantExists
<1>6. TenantsSlugged'
  BY <1>2, <1>4 DEF TenantsSlugged, TenantExists
<1>7. QED  BY <1>5, <1>6

(* A request that moves on, or ends, with tenants only added.                *)
LEMMA OthersCarry ==
  ASSUME WorkspaceInvariant, RequestsCarry, TenantsGrow, NEW q \in Requests,
         \A p \in Requests \ {q} : request'[p] = request[p],
         Carries(request[q])'
  PROVE  RequestsCarry'
<1>1. ASSUME NEW p \in Requests \ {q}
      PROVE  Carries(request[p])'
  <2>1. Carries(request[p]) /\ request'[p] = request[p]
    BY DEF RequestsCarry
  <2>2. request[p].pc = "provision_upsert" => request[p].tenant \in Tenants
    BY DEF WorkspaceInvariant, RequestsStand, Stands
  <2>3. QED  BY <2>1, <2>2 DEF Carries, TenantsGrow
<1>2. QED  BY <1>1 DEF RequestsCarry, Carries

LEMMA MovedRequest ==
  ASSUME RowsAreTyped, NEW q \in Requests, NEW next, Goto(q, next)
  PROVE  request'[q] = next /\ \A p \in Requests \ {q} : request'[p] = request[p]
  BY DEF RowsAreTyped, Goto

LEMMA DoneCarries ==
  ASSUME WorkspaceInvariant, RequestsCarry, TenantsGrow, NEW q \in Requests, Done(q)
  PROVE  RequestsCarry'
<1>1. request'[q] = NoRequest /\ \A p \in Requests \ {q} : request'[p] = request[p]
  BY MovedRequest DEF Done, WorkspaceInvariant
<1>2. Carries(request[q])'
  BY <1>1 DEF Carries, NoRequest
<1>3. QED  BY <1>1, <1>2, OthersCarry

(* A request that only reads, or inserts no tenant and makes no admin.       *)
LEMMA QuietSlugs ==
  ASSUME WorkspaceInvariant, SlugInvariant, UNCHANGED <<tenants, admins>>,
         \/ UNCHANGED request
         \/ \E q \in Requests : Done(q)
         \/ \E q \in Requests, next \in RequestRecords : Goto(q, next) /\ Carries(next)
  PROVE  SlugInvariant'
<1>1. TenantsSlugged' /\ AdminsHaveTenants' /\ TenantsGrow
  BY DEF SlugInvariant, TenantsSlugged, AdminsHaveTenants, TenantsGrow, TenantExists
<1>2. RequestsCarry'
  <2>1. CASE UNCHANGED request
    BY <2>1 DEF SlugInvariant, RequestsCarry, Carries, TenantExists
  <2>2. CASE \E q \in Requests : Done(q)
    BY <1>1, <2>2, DoneCarries DEF SlugInvariant
  <2>3. ASSUME NEW q \in Requests, NEW next \in RequestRecords, Goto(q, next), Carries(next)
        PROVE  RequestsCarry'
    <3>1. request'[q] = next /\ \A p \in Requests \ {q} : request'[p] = request[p]
      BY <2>3, MovedRequest DEF WorkspaceInvariant
    <3>2. Carries(request[q])'
      BY <2>3, <3>1 DEF Carries, TenantExists
    <3>3. QED  BY <1>1, <3>1, <3>2, OthersCarry DEF SlugInvariant
  <2>4. QED  BY <2>1, <2>2, <2>3
<1>3. QED  BY <1>1, <1>2 DEF SlugInvariant

(* A request that makes somebody an admin of a tenant there is, and ends.    *)
LEMMA AdminSlugs ==
  ASSUME WorkspaceInvariant, RequestsCarry, AdminsHaveTenants, TenantsGrow, TenantsSlugged',
         NEW q \in Requests, Done(q), NEW u, NEW t \in Tenants, NEW role,
         TenantExists(t)', NoteRole(u, t, role)
  PROVE  SlugInvariant'
<1>1. RequestsCarry'
  BY DoneCarries
<1>2. admins' \subseteq admins \cup {<<u, t>>}
  BY DEF NoteRole
<1>3. AdminsHaveTenants'
  BY <1>2 DEF AdminsHaveTenants, TenantsGrow
<1>4. QED  BY <1>1, <1>3 DEF SlugInvariant

LEMMA RequestSlugs ==
  ASSUME WorkspaceInvariant, SlugInvariant, NEW q \in Requests, RequestStep(q)
  PROVE  SlugInvariant'
<1>1. request[q] \in RequestRecords /\ Stands(request[q]) /\ Carries(request[q])
  BY DEF WorkspaceInvariant, RowsAreTyped, RequestRecords, RequestsStand, SlugInvariant, RequestsCarry
<1>2. TenantsSlugged /\ RequestsCarry /\ AdminsHaveTenants
  BY DEF SlugInvariant
<1>3. UNCHANGED tenants => TenantsGrow /\ TenantsSlugged'
  BY <1>2 DEF TenantsGrow, TenantsSlugged, TenantExists
<1>4. CASE Refuse(q)
  BY <1>4, QuietSlugs DEF Refuse, data, history
<1>5. ASSUME NEW s \in Subjects, NEW i \in Invites, AcceptRequest(q, s, i)
      PROVE  SlugInvariant'
  <2> DEFINE next == [NoRequest EXCEPT !.pc = "accept_lookup", !.subject = s, !.invite = i]
  <2>1. next \in RequestRecords /\ next.pc = "accept_lookup"
    BY IdleStands DEF RequestRecords, NoRequest, Pcs
  <2>2. Goto(q, next) /\ UNCHANGED <<tenants, admins>>
    BY <1>5 DEF AcceptRequest, data, history
  <2> HIDE DEF next
  <2>3. QED  BY <2>1, <2>2, QuietSlugs DEF Carries
<1>6. ASSUME NEW pc \in AcceptPcs, Goto(q, [request[q] EXCEPT !.pc = pc]), UNCHANGED <<data, history>>
      PROVE  SlugInvariant'
  <2> DEFINE next == [request[q] EXCEPT !.pc = pc]
  <2>1. next \in RequestRecords /\ next.pc = pc
    BY <1>1 DEF RequestRecords, AcceptPcs, Pcs
  <2>2. Goto(q, next) /\ UNCHANGED <<tenants, admins>>
    BY <1>6 DEF data, history
  <2> HIDE DEF next
  <2>3. QED  BY <2>1, <2>2, QuietSlugs DEF Carries, AcceptPcs
<1>7. CASE AcceptLookup(q)
  <2>1. /\ UNCHANGED <<data, history>>
        /\ \/ \E pc \in AcceptPcs : Goto(q, [request[q] EXCEPT !.pc = pc])
           \/ Done(q)
    BY <1>7 DEF AcceptLookup, AcceptPcs
  <2>2. QED  BY <1>4, <1>6, <2>1 DEF Refuse
<1>8. CASE AcceptCheck(q)
  <2>1. /\ UNCHANGED <<data, history>>
        /\ \/ \E pc \in AcceptPcs : Goto(q, [request[q] EXCEPT !.pc = pc])
           \/ Done(q)
    BY <1>8 DEF AcceptCheck, AcceptPcs
  <2>2. QED  BY <1>4, <1>6, <2>1 DEF Refuse
<1>9. CASE Expire(q)
  BY <1>9, QuietSlugs DEF Expire, history
<1>10. CASE AcceptCommit(q)
  <2>1. CASE Refuse(q)
    BY <1>4, <2>1
  <2> DEFINE i == request[q].invite
  <2>2. ASSUME NEW u \in Users, Join(request[q].subject, i, u), Done(q)
        PROVE  SlugInvariant'
    <3>1. /\ i \in Invites
          /\ <<invitations[i].invited_by, invitations[i].tenant>> \in admins
      BY <1>1, <1>10 DEF AcceptCommit, Stands, AcceptPcs, WorkspaceInvariant, InvitersWereAdmins
    <3>2. /\ invitations[i].tenant \in Tenants /\ invitations[i].invited_by \in Users
          /\ <<invitations[i].invited_by, invitations[i].tenant>> \in admins
      BY <3>1 DEF WorkspaceInvariant, RowsAreTyped
    <3> PICK t \in Tenants : t = invitations[i].tenant
      BY <3>2
    <3>3. TenantExists(t) /\ UNCHANGED tenants /\ NoteRole(u, t, invitations[i].role)
      BY <1>2, <2>2, <3>1, <3>2 DEF AdminsHaveTenants, Join
    <3>4. TenantExists(t)'
      BY <3>3 DEF TenantExists
    <3>5. QED  BY <1>2, <1>3, <2>2, <3>2, <3>3, <3>4, AdminSlugs
  <2>3. QED  BY <1>10, <2>1, <2>2 DEF AcceptCommit
<1>11. ASSUME NEW s \in Subjects, CreateWorkspace(q, s)
       PROVE  SlugInvariant'
  <2> DEFINE next == [NoRequest EXCEPT !.pc = "workspace_slug", !.subject = s]
  <2>1. next \in RequestRecords /\ next.pc = "workspace_slug"
    BY IdleStands DEF RequestRecords, NoRequest, Pcs
  <2>2. Goto(q, next) /\ UNCHANGED <<tenants, admins>>
    BY <1>11 DEF CreateWorkspace, data, history
  <2> HIDE DEF next
  <2>3. QED  BY <2>1, <2>2, QuietSlugs DEF Carries
<1>12. CASE ResolveSlug(q)
  <2>1. /\ UNCHANGED <<data, history>>
        /\ \/ Done(q)
           \/ \E slug \in 1..MaxSlugs : Goto(q, [request[q] EXCEPT !.pc = "workspace_commit", !.slug = slug])
    BY <1>12 DEF ResolveSlug
  <2>2. ASSUME NEW slug \in 1..MaxSlugs,
               Goto(q, [request[q] EXCEPT !.pc = "workspace_commit", !.slug = slug])
        PROVE  SlugInvariant'
    <3> DEFINE next == [request[q] EXCEPT !.pc = "workspace_commit", !.slug = slug]
    <3>1. slug \in 0..MaxSlugs /\ slug # 0 /\ "workspace_commit" \in Pcs
      BY SlugAssumption DEF Pcs
    <3>2. next \in RequestRecords /\ next.pc = "workspace_commit" /\ next.slug = slug
      BY <1>1, <3>1 DEF RequestRecords
    <3>3. Goto(q, next) /\ UNCHANGED <<tenants, admins>>
      BY <2>1, <2>2 DEF data, history
    <3> HIDE DEF next
    <3>4. QED  BY <3>1, <3>2, <3>3, QuietSlugs DEF Carries
  <2>3. QED  BY <1>4, <2>1, <2>2 DEF Refuse
<1>13. CASE CommitWorkspace(q)
  <2>1. CASE Refuse(q)
    BY <1>4, <2>1
  <2>2. ASSUME NEW t \in Tenants, NEW u \in Users, TenantInserted(t, request[q].slug),
               NoteRole(u, t, "tenant_admin"), Done(q)
        PROVE  SlugInvariant'
    <3>1. request[q].slug # 0
      BY <1>1, <1>13 DEF CommitWorkspace, Carries
    <3>2. TenantsSlugged' /\ TenantsGrow /\ TenantExists(t)'
      BY <1>2, <2>2, <3>1, InsertKeepsSlugs DEF WorkspaceInvariant
    <3>3. QED  BY <1>2, <2>2, <3>2, AdminSlugs
  <2>3. QED  BY <1>13, <2>1, <2>2 DEF CommitWorkspace, TenantInserted
<1>14. ASSUME NEW s \in Subjects, NEW t \in Tenants, NEW role \in Roles, ProvisionUser(q, s, t, role)
       PROVE  SlugInvariant'
  <2>1. PICK u \in Users \ users :
          Goto(q, [NoRequest EXCEPT !.pc = "provision_upsert", !.subject = s, !.tenant = t,
                                    !.role = role, !.user = u])
    BY <1>14 DEF ProvisionUser
  <2> DEFINE next == [NoRequest EXCEPT !.pc = "provision_upsert", !.subject = s, !.tenant = t,
                                       !.role = role, !.user = u]
  <2>2. u \in Users /\ "provision_upsert" \in Pcs /\ 0 \in 0..MaxSlugs
    BY SlugAssumption DEF Pcs
  <2>3. next \in RequestRecords /\ next.pc = "provision_upsert" /\ next.tenant = t
    BY <2>2 DEF RequestRecords, NoRequest
  <2>4. Goto(q, next) /\ TenantExists(t) /\ UNCHANGED <<tenants, admins>>
    BY <1>14, <2>1 DEF ProvisionUser
  <2> HIDE DEF next
  <2>5. QED  BY <2>3, <2>4, QuietSlugs DEF Carries
<1>15. CASE ProvisionUpsert(q)
  <2>1. request[q].tenant \in Tenants /\ TenantExists(request[q].tenant)
    BY <1>1, <1>15 DEF ProvisionUpsert, Stands, Carries
  <2> PICK t \in Tenants : t = request[q].tenant
    BY <2>1
  <2>2. Done(q) /\ UNCHANGED tenants /\ NoteRole(request[q].user, t, request[q].role)
    BY <1>15 DEF ProvisionUpsert
  <2>3. TenantExists(t)'
    BY <2>1, <2>2 DEF TenantExists
  <2>4. QED  BY <1>2, <1>3, <2>1, <2>2, <2>3, AdminSlugs
<1>16. CASE Fail(q)
  BY <1>4, <1>16 DEF Fail
<1>17. QED  BY <1>5, <1>7, <1>8, <1>9, <1>10, <1>11, <1>12, <1>13, <1>14, <1>15, <1>16 DEF RequestStep

LEMMA StatusSlugs ==
  ASSUME WorkspaceInvariant, SlugInvariant, StatusWritten, UNCHANGED admins,
         UNCHANGED request \/ \E q \in Requests : Done(q)
  PROVE  SlugInvariant'
<1>1. TenantsSlugged' /\ TenantsGrow
  BY StatusKeepsSlugs DEF WorkspaceInvariant, SlugInvariant
<1>2. AdminsHaveTenants'
  BY <1>1 DEF SlugInvariant, AdminsHaveTenants, TenantsGrow
<1>3. RequestsCarry'
  <2>1. CASE UNCHANGED request
    <3>1. \A q \in Requests : request[q].pc = "provision_upsert" => request[q].tenant \in Tenants
      BY DEF WorkspaceInvariant, RequestsStand, Stands
    <3>2. QED  BY <1>1, <2>1, <3>1 DEF SlugInvariant, RequestsCarry, Carries, TenantsGrow
  <2>2. CASE \E q \in Requests : Done(q)
    BY <1>1, <2>2, DoneCarries DEF SlugInvariant
  <2>3. QED  BY <2>1, <2>2
<1>4. QED  BY <1>1, <1>2, <1>3 DEF SlugInvariant

LEMMA MemberSlugs ==
  ASSUME WorkspaceInvariant, SlugInvariant, NEW q \in Requests, MemberStep(q)
  PROVE  SlugInvariant'
<1>1. ASSUME NEW s \in Subjects, Authenticate(q, s)
      PROVE  SlugInvariant'
  <2>1. Goto(q, Principal(s)) /\ UNCHANGED <<tenants, admins>>
    BY <1>1 DEF Authenticate, data, history
  <2>2. Principal(s) \in RequestRecords /\ Principal(s).pc = "authorised"
    BY IdleStands DEF WorkspaceInvariant, RowsAreTyped, Principal, RequestRecords, NoRequest, Pcs
  <2>3. QED  BY <2>1, <2>2, QuietSlugs DEF Carries
<1>2. ASSUME NEW i \in Invites, NEW role \in Roles, CreateInvitation(q, i, role)
      PROVE  SlugInvariant'
  BY <1>2, QuietSlugs DEF CreateInvitation, Authorised, history
<1>3. ASSUME NEW i \in Invites, Revoke(q, i)
      PROVE  SlugInvariant'
  BY <1>3, QuietSlugs DEF Revoke, Authorised, history
<1>4. CASE CompleteOnboarding(q)
  <2>1. /\ request[q].pc = "authorised" /\ Done(q) /\ SetStatus(request[q].tenant, "active")
        /\ UNCHANGED admins
    BY <1>4 DEF CompleteOnboarding, Authorised, history
  <2>2. <<request[q].user, request[q].tenant>> \in admins
    BY <2>1 DEF WorkspaceInvariant, RequestsStand, Stands
  <2>3. request[q].user \in Users /\ request[q].tenant \in Tenants
    BY <2>2 DEF WorkspaceInvariant, RowsAreTyped
  <2>4. TenantExists(request[q].tenant)
    BY <2>2, <2>3 DEF SlugInvariant, AdminsHaveTenants
  <2>5. StatusWritten
    BY <2>1, <2>3, <2>4 DEF StatusWritten
  <2>6. QED  BY <2>1, <2>5, StatusSlugs
<1>5. QED  BY <1>1, <1>2, <1>3, <1>4 DEF MemberStep

LEMMA NextSlugs == WorkspaceInvariant /\ SlugInvariant /\ [Next]_vars => SlugInvariant'
<1> SUFFICES ASSUME WorkspaceInvariant, SlugInvariant, [Next]_vars PROVE SlugInvariant'
  OBVIOUS
<1>1. ASSUME NEW q \in Requests, RequestStep(q) \/ MemberStep(q)
      PROVE  SlugInvariant'
  BY <1>1, RequestSlugs, MemberSlugs
<1>2. ASSUME NEW i \in Invites, TimePasses(i)
      PROVE  SlugInvariant'
  BY <1>2, QuietSlugs DEF TimePasses, history
<1>3. ASSUME NEW t \in Tenants, NEW slug \in 1..MaxSlugs, CreateTenant(t, slug)
      PROVE  SlugInvariant'
  <2>1. TenantInserted(t, slug) /\ slug # 0 /\ UNCHANGED <<request, admins>>
    BY <1>3, SlugAssumption DEF CreateTenant, TenantInserted, history
  <2>2. TenantsSlugged' /\ TenantsGrow
    BY <2>1, InsertKeepsSlugs DEF WorkspaceInvariant, SlugInvariant
  <2>3. AdminsHaveTenants'
    BY <2>1, <2>2 DEF SlugInvariant, AdminsHaveTenants, TenantsGrow
  <2>4. \A q \in Requests : request[q].pc = "provision_upsert" => request[q].tenant \in Tenants
    BY DEF WorkspaceInvariant, RequestsStand, Stands
  <2>5. RequestsCarry'
    BY <2>1, <2>2, <2>4 DEF SlugInvariant, RequestsCarry, Carries, TenantsGrow
  <2>6. QED  BY <2>2, <2>3, <2>5 DEF SlugInvariant
<1>4. ASSUME NEW t \in Tenants, NEW status \in {"active", "suspended"}, UpdateTenant(t, status)
      PROVE  SlugInvariant'
  <2>1. StatusWritten /\ UNCHANGED <<request, admins>>
    BY <1>4 DEF UpdateTenant, StatusWritten, history
  <2>2. QED  BY <2>1, StatusSlugs
<1>5. CASE UNCHANGED vars
  BY <1>5, QuietSlugs DEF vars, data, history
<1>6. QED  BY <1>1, <1>2, <1>3, <1>4, <1>5 DEF Next, TenantStep

LEMMA SlugsHold == Spec => []SlugInvariant
  BY InitSlugs, NextSlugs, WorkspaceHolds, PTL DEF Spec

(* Every row, request and history is of its kind; every tenant has one of    *)
(* the candidates as its slug, and no two have the same, although requests   *)
(* that overlap may resolve the same free one (resolve_unique_slug,          *)
(* create_workspace, create_tenant).                                         *)
THEOREM WorkspaceTypeCorrect == Spec => []TypeOK
<1>1. WorkspaceInvariant /\ SlugInvariant => TypeOK
  BY DEF WorkspaceInvariant, SlugInvariant, TenantsSlugged, TypeOK, SlugsAreUnique
<1>2. QED  BY <1>1, WorkspaceHolds, SlugsHold, PTL

(* revoke and get_by_token never rewrite the row of an invitation somebody   *)
(* joined through, nor does the acceptance of one that was revoked meanwhile *)
(* leave a row that says otherwise (WorkspaceInviteRepository).              *)
THEOREM AcceptedIsJoined == Spec => []AcceptedMeansJoined
  BY WorkspaceHolds, PTL DEF WorkspaceInvariant

(* The creator of a workspace and whoever accepted an invitation hold the    *)
(* membership they were given until the admin replaces it.                   *)
THEOREM MembersStayMembers == Spec => []MembershipIsKept
  BY WorkspaceHolds, PTL DEF WorkspaceInvariant

(* Whoever invited into a workspace had a write role in it.                  *)
THEOREM InvitersHadAuthority == Spec => []InvitersWereAdmins
  BY WorkspaceHolds, PTL DEF WorkspaceInvariant

(* A set none of whose elements differ has one element at most.              *)
LEMMA AtMostOneElement ==
  ASSUME NEW S, \A x, y \in S : x = y
  PROVE  (S = {} /\ Cardinality(S) = 0) \/ Cardinality(S) = 1
<1>1. CASE S = {}
  BY <1>1, FS_EmptySet
<1>2. CASE S # {}
  <2>1. PICK x \in S : S = {x}
    BY <1>2
  <2>2. QED  BY <2>1, FS_Singleton
<1>3. QED  BY <1>1, <1>2

(* However many requests an account has in flight, it creates one workspace  *)
(* or joins through one invitation (accept_invitation, create_workspace).    *)
THEOREM OneEntryPerAccount == Spec => []OneWorkspacePerAccount
<1>1. WorkspaceInvariant => OneWorkspacePerAccount
  <2> SUFFICES ASSUME EntersOnce, NEW s \in Subjects
               PROVE  Cardinality({i \in Invites : s \in joined[i]})
                        + Cardinality({t \in Tenants : creator[t] = s}) <= 1
    BY DEF WorkspaceInvariant, OneWorkspacePerAccount
  <2> DEFINE J == {i \in Invites : s \in joined[i]}
             C == {t \in Tenants : creator[t] = s}
  <2>1. (\A i, j \in J : i = j) /\ (\A t, u \in C : t = u) /\ (J = {} \/ C = {})
    BY DEF EntersOnce
  <2> HIDE DEF J, C
  <2>2. (J = {} /\ Cardinality(J) = 0) \/ Cardinality(J) = 1
    BY <2>1, AtMostOneElement
  <2>3. (C = {} /\ Cardinality(C) = 0) \/ Cardinality(C) = 1
    BY <2>1, AtMostOneElement
  <2>4. Cardinality(J) + Cardinality(C) <= 1
    BY <2>1, <2>2, <2>3, FS_EmptySet
  <2>5. QED  BY <2>4 DEF J, C
<1>2. QED  BY <1>1, WorkspaceHolds, PTL

(* A sign-up that fails at any statement leaves no user row behind; each     *)
(* run of the admin's create_membership leaves at most one.                  *)
THEOREM NoStrayUsers == Spec => []StrayUsersAreProvisioned
<1>1. WorkspaceInvariant => StrayUsersAreProvisioned
  BY DEF WorkspaceInvariant, StraysAreCounted, StrayUsersAreProvisioned, Strays, Unreferenced
<1>2. QED  BY <1>1, WorkspaceHolds, PTL

===============================================================================
