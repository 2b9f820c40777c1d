------------------------------- MODULE Workspaces -------------------------------
(*****************************************************************************)
(* Tenants, users, memberships and invitations: how an account comes to      *)
(* belong to a workspace.  Every request runs a few statements, each its own *)
(* transaction unless it is said to belong to one; the unique keys on slugs  *)
(* and on (auth_issuer, auth_subject) are what serialises them.              *)
(*****************************************************************************)
EXTENDS Integers, FiniteSets

CONSTANTS
  Subjects,     \* accounts, as (auth_issuer, auth_subject) of a token
  Tenants,      \* tenant ids
  Users,        \* ids of user rows
  Invites,      \* invitation ids
  Requests,     \* the requests the API may be serving at once
  Matching,     \* Matching[i]: accounts whose e-mail claim i does not refuse
  MaxSlugs,     \* slug_candidates: how many slugs one name may get
  MaxAdmin,     \* bound: memberships the admin provisions
  None

ASSUME MatchingAssumption == Matching \in [Invites -> SUBSET Subjects]
ASSUME NoneAssumption == None \notin Subjects \cup Tenants \cup Users \cup Invites
ASSUME SlugAssumption == MaxSlugs \in Nat \ {0} /\ MaxAdmin \in Nat

(* super_admin, which only the admin gives, may do within its tenant what    *)
(* tenant_admin may; the admin routes themselves are taken as authorised.    *)
Roles == {"tenant_admin", "viewer"}
WriteRoles == {"tenant_admin"}

VARIABLES
  tenants,      \* tenants[t]: status and slug; the onboarding state is left out
  users,        \* the user rows there are
  memberships,  \* memberships[s]: the row of the account, or NoMembership
  invitations,  \* invitations[i]: the row; due: expires_at has passed
  request,      \* request[q]: where a request stands
  joined,       \* history: accounts that accepted an invitation
  creator,      \* history: the account that created a workspace
  provisioned,  \* history: the accounts the admin provisioned, and how often
  admins        \* history: the users that had a write role, with the tenant

data    == <<tenants, users, memberships, invitations>>
history == <<joined, creator, provisioned, admins>>
vars    == <<data, request, history>>

NoTenant     == [status |-> "none", slug |-> 0]
NoMembership == [tenant |-> None, role |-> "viewer", user |-> None]
NoInvite     == [status |-> "none", due |-> FALSE, tenant |-> None, role |-> "viewer",
                 invited_by |-> None]
NoRequest    == [pc |-> "idle", subject |-> None, invite |-> None, tenant |-> None,
                 slug |-> 0, role |-> "viewer", user |-> None]

Pcs == {"idle", "accept_lookup", "expire", "accept_check", "accept_commit",
        "workspace_slug", "workspace_commit", "provision_upsert", "authorised"}

Init ==
  /\ tenants = [t \in Tenants |-> NoTenant]
  /\ users = {}
  /\ memberships = [s \in Subjects |-> NoMembership]
  /\ invitations = [i \in Invites |-> NoInvite]
  /\ request = [q \in Requests |-> NoRequest]
  /\ joined = [i \in Invites |-> {}]
  /\ creator = [t \in Tenants |-> None]
  /\ provisioned = [subjects |-> {}, count |-> 0]
  /\ admins = {}

TenantExists(t) == tenants[t].status # "none"
TakenSlugs == {tenants[t].slug : t \in {u \in Tenants : TenantExists(u)}}

(* The SELECT on active memberships; nothing ever makes one inactive.        *)
HasMembership(s) == memberships[s] # NoMembership

(* Mutant: the table has no unique key.                                      *)
NoUniqueKey(s) == s \in Subjects

(* The unique key on (auth_issuer, auth_subject), at the insert.             *)
UniqueKeyFree(s) == memberships[s] = NoMembership

(* Mutant: only resolve_unique_slug looks at the slugs there are.            *)
NoSlugKey(slug) == slug \in 1..MaxSlugs

(* The unique key on slug, at the insert.                                    *)
SlugKeyFree(slug) == slug \notin TakenSlugs

(* What is remembered of a membership that is written.                       *)
NoteRole(u, t, role) ==
  admins' = IF role \in WriteRoles THEN admins \cup {<<u, t>>} ELSE admins

Goto(q, next) == request' = [request EXCEPT ![q] = next]
Done(q) == Goto(q, NoRequest)

(* The request answers an error and has written nothing.                     *)
Refuse(q) ==
  /\ Done(q)
  /\ UNCHANGED <<data, history>>

-------------------------------------------------------------------------------
(* Every request of a member reads the membership first and acts on what it  *)
(* read: the principal is not looked at again.                               *)

(* resolve_membership: the tenant and the role of the account.               *)
Principal(s) == [NoRequest EXCEPT !.pc = "authorised", !.subject = s,
                                  !.tenant = memberships[s].tenant, !.user = memberships[s].user]

(* Mutant: the route depends on get_principal alone.                         *)
AuthenticateMember(q, s) ==
  /\ request[q].pc = "idle"
  /\ HasMembership(s)
  /\ Goto(q, Principal(s))
  /\ UNCHANGED <<data, history>>

(* require_write_access; a suspended tenant is as good as an active one.     *)
Authenticate(q, s) ==
  /\ request[q].pc = "idle"
  /\ HasMembership(s)
  /\ memberships[s].role \in WriteRoles
  /\ Goto(q, Principal(s))
  /\ UNCHANGED <<data, history>>

Authorised(q) == request[q].pc = "authorised" /\ Done(q)

-------------------------------------------------------------------------------
(* Invitations.                                                              *)

InsertInvitation(i, t, role, u) ==
  invitations' = [invitations EXCEPT
    ![i] = [status |-> "pending", due |-> FALSE, tenant |-> t, role |-> role, invited_by |-> u]]

CreateInvitation(q, i, role) ==
  /\ Authorised(q)
  /\ invitations[i] = NoInvite
  /\ InsertInvitation(i, request[q].tenant, role, request[q].user)
  /\ UNCHANGED <<tenants, users, memberships, history>>

TimePasses(i) ==
  /\ invitations[i].status # "none"
  /\ invitations' = [invitations EXCEPT ![i].due = TRUE]
  /\ UNCHANGED <<tenants, users, memberships, request, history>>

(* Mutant: the WHERE clause only names the invitation.                       *)
UpdateAnyway(i, status) ==
  invitations' = IF invitations[i].status # "none"
                   THEN [invitations EXCEPT ![i].status = status] ELSE invitations

(* UPDATE ... WHERE status = 'pending', of revoke and of get_by_token.       *)
UpdateIfPending(i, status) ==
  invitations' = IF invitations[i].status = "pending"
                   THEN [invitations EXCEPT ![i].status = status] ELSE invitations

(* The WHERE clause of revoke names the tenant too; 404 otherwise.           *)
Revoke(q, i) ==
  /\ Authorised(q)
  /\ invitations[i].tenant = request[q].tenant
  /\ UpdateIfPending(i, "revoked")
  /\ UNCHANGED <<tenants, users, memberships, history>>

(* POST /accept and GET /preview both begin with get_by_token.               *)
AcceptRequest(q, s, i) ==
  /\ request[q].pc = "idle"
  /\ invitations[i].status # "none"
  /\ Goto(q, [NoRequest EXCEPT !.pc = "accept_lookup", !.subject = s, !.invite = i])
  /\ UNCHANGED <<data, history>>

(* The row is read; a pending one that is due will be marked expired, one    *)
(* that is not pending, or not for this account, is refused.                 *)
AcceptLookup(q) ==
  LET i == request[q].invite
      pending == invitations[i].status = "pending"
  IN /\ request[q].pc = "accept_lookup"
     /\ CASE pending /\ invitations[i].due ->
               Goto(q, [request[q] EXCEPT !.pc = "expire"])
          [] pending /\ ~invitations[i].due /\ request[q].subject \in Matching[i] ->
               Goto(q, [request[q] EXCEPT !.pc = "accept_check"])
          [] OTHER -> Done(q)
     /\ UNCHANGED <<data, history>>

Expire(q) ==
  /\ request[q].pc = "expire"
  /\ UpdateIfPending(request[q].invite, "expired")
  /\ Done(q)
  /\ UNCHANGED <<tenants, users, memberships, history>>

(* The transaction of accept_invitation opens with the membership check.     *)
AcceptCheck(q) ==
  /\ request[q].pc = "accept_check"
  /\ IF HasMembership(request[q].subject)
       THEN Done(q) ELSE Goto(q, [request[q] EXCEPT !.pc = "accept_commit"])
  /\ UNCHANGED <<data, history>>

(* INSERT user, INSERT membership, UPDATE invitation, which names the        *)
(* invitation and not its status.                                            *)
Join(s, i, u) ==
  /\ users' = users \cup {u}
  /\ memberships' = [memberships EXCEPT
       ![s] = [tenant |-> invitations[i].tenant, role |-> invitations[i].role, user |-> u]]
  /\ invitations' = [invitations EXCEPT ![i].status = "accepted"]
  /\ joined' = [joined EXCEPT ![i] = @ \cup {s}]
  /\ NoteRole(u, invitations[i].tenant, invitations[i].role)
  /\ UNCHANGED <<tenants, creator, provisioned>>

(* Mutant: the membership is upserted, as the admin's create_membership does.*)
AcceptUpserts(q) ==
  /\ request[q].pc = "accept_commit"
  /\ \E u \in Users \ users : Join(request[q].subject, request[q].invite, u)
  /\ Done(q)

(* Mutant: the user row is committed before the membership is inserted.      *)
AcceptInTwoTransactions(q) ==
  /\ request[q].pc = "accept_commit"
  /\ \E u \in Users \ users :
       IF UniqueKeyFree(request[q].subject)
         THEN Join(request[q].subject, request[q].invite, u)
         ELSE users' = users \cup {u} /\ UNCHANGED <<tenants, memberships, invitations, history>>
  /\ Done(q)

(* The three writes commit together; a membership that another transaction   *)
(* inserted meanwhile breaks the unique key and rolls all of them back.      *)
AcceptCommit(q) ==
  /\ request[q].pc = "accept_commit"
  /\ \/ /\ UniqueKeyFree(request[q].subject)
        /\ \E u \in Users \ users : Join(request[q].subject, request[q].invite, u)
        /\ Done(q)
     \/ /\ ~UniqueKeyFree(request[q].subject)
        /\ Refuse(q)

-------------------------------------------------------------------------------
(* Workspaces.                                                               *)

(* POST /v1/workspaces: has_membership, before the transaction.              *)
CreateWorkspace(q, s) ==
  /\ request[q].pc = "idle"
  /\ ~HasMembership(s)
  /\ Goto(q, [NoRequest EXCEPT !.pc = "workspace_slug", !.subject = s])
  /\ UNCHANGED <<data, history>>

(* resolve_unique_slug: the first candidate no tenant has, or 409.           *)
ResolveSlug(q) ==
  LET free == (1..MaxSlugs) \ TakenSlugs
  IN /\ request[q].pc = "workspace_slug"
     /\ IF free = {} THEN Done(q)
        ELSE \E slug \in free :
               /\ \A other \in free : slug <= other
               /\ Goto(q, [request[q] EXCEPT !.pc = "workspace_commit", !.slug = slug])
     /\ UNCHANGED <<data, history>>

(* Tenant, user and membership, or nothing when a unique key is broken.      *)
CommitWorkspace(q) ==
  LET s == request[q].subject
      slug == request[q].slug
      valid == SlugKeyFree(slug) /\ UniqueKeyFree(s)
  IN /\ request[q].pc = "workspace_commit"
     /\ \/ /\ valid
           /\ \E t \in Tenants, u \in Users \ users :
                /\ ~TenantExists(t)
                /\ tenants' = [tenants EXCEPT
                     ![t] = [status |-> "provisioning", slug |-> slug]]
                /\ users' = users \cup {u}
                /\ memberships' = [memberships EXCEPT
                     ![s] = [tenant |-> t, role |-> "tenant_admin", user |-> u]]
                /\ creator' = [creator EXCEPT ![t] = s]
                /\ NoteRole(u, t, "tenant_admin")
           /\ Done(q)
           /\ UNCHANGED <<invitations, joined, provisioned>>
        \/ ~valid /\ Refuse(q)

SetStatus(t, status) == tenants' = [tenants EXCEPT ![t].status = status]

(* update_onboarding_state with ONBOARDING_COMPLETE, from any status; the    *)
(* other states of ONBOARDING_STATES leave the status alone.                 *)
CompleteOnboarding(q) ==
  /\ Authorised(q)
  /\ SetStatus(request[q].tenant, "active")
  /\ UNCHANGED <<users, memberships, invitations, history>>

-------------------------------------------------------------------------------
(* The admin routes.                                                         *)

(* A slug that is taken breaks the unique key and answers 409.               *)
CreateTenant(t, slug) ==
  /\ ~TenantExists(t)
  /\ SlugKeyFree(slug)
  /\ tenants' = [tenants EXCEPT
       ![t] = [status |-> "active", slug |-> slug]]
  /\ UNCHANGED <<users, memberships, invitations, request, history>>

UpdateTenant(t, status) ==
  /\ TenantExists(t)
  /\ SetStatus(t, status)
  /\ UNCHANGED <<users, memberships, invitations, request, history>>

(* create_membership: the user row is a transaction of its own ...           *)
ProvisionUser(q, s, t, role) ==
  /\ request[q].pc = "idle"
  /\ TenantExists(t)
  /\ provisioned.count < MaxAdmin
  /\ \E u \in Users \ users :
       /\ users' = users \cup {u}
       /\ Goto(q, [NoRequest EXCEPT !.pc = "provision_upsert", !.subject = s, !.tenant = t,
                                    !.role = role, !.user = u])
  /\ provisioned' = [provisioned EXCEPT !.count = @ + 1]
  /\ UNCHANGED <<tenants, memberships, invitations, joined, creator, admins>>

(* ... and the membership is inserted, or the one of the account replaced.   *)
ProvisionUpsert(q) ==
  LET s == request[q].subject
  IN /\ request[q].pc = "provision_upsert"
     /\ memberships' = [memberships EXCEPT
          ![s] = [tenant |-> request[q].tenant, role |-> request[q].role, user |-> request[q].user]]
     /\ provisioned' = [provisioned EXCEPT !.subjects = @ \cup {s}]
     /\ NoteRole(request[q].user, request[q].tenant, request[q].role)
     /\ Done(q)
     /\ UNCHANGED <<tenants, users, invitations, joined, creator>>

(* The process dies or a statement raises: what is not committed is gone.    *)
Fail(q) ==
  /\ request[q].pc # "idle"
  /\ Refuse(q)

RequestStep(q) ==
  \/ \E s \in Subjects, i \in Invites : AcceptRequest(q, s, i)
  \/ AcceptLookup(q)
  \/ Expire(q)
  \/ AcceptCheck(q)
  \/ AcceptCommit(q)
  \/ \E s \in Subjects : CreateWorkspace(q, s)
  \/ ResolveSlug(q)
  \/ CommitWorkspace(q)
  \/ \E s \in Subjects, t \in Tenants, role \in Roles : ProvisionUser(q, s, t, role)
  \/ ProvisionUpsert(q)
  \/ Fail(q)

MemberStep(q) ==
  \/ \E s \in Subjects : Authenticate(q, s)
  \/ \E i \in Invites, role \in Roles : CreateInvitation(q, i, role)
  \/ \E i \in Invites : Revoke(q, i)
  \/ CompleteOnboarding(q)

TenantStep ==
  \/ \E t \in Tenants, slug \in 1..MaxSlugs : CreateTenant(t, slug)
  \/ \E t \in Tenants, status \in {"active", "suspended"} : UpdateTenant(t, status)

Next ==
  \/ \E q \in Requests : RequestStep(q) \/ MemberStep(q)
  \/ \E i \in Invites : TimePasses(i)
  \/ TenantStep

Spec == Init /\ [][Next]_vars

-------------------------------------------------------------------------------

RowsAreTyped ==
  /\ tenants \in [Tenants -> [status : {"none", "provisioning", "active", "suspended"},
                              slug : 0..MaxSlugs]]
  /\ users \subseteq Users
  /\ memberships \in [Subjects -> [tenant : Tenants \cup {None}, role : Roles,
                                   user : Users \cup {None}]]
  /\ invitations \in [Invites -> [status : {"none", "pending", "accepted", "revoked", "expired"},
                                  due : BOOLEAN, tenant : Tenants \cup {None}, role : Roles,
                                  invited_by : Users \cup {None}]]
  /\ request \in [Requests -> [pc : Pcs, subject : Subjects \cup {None},
                               invite : Invites \cup {None}, tenant : Tenants \cup {None},
                               slug : 0..MaxSlugs, role : Roles, user : Users \cup {None}]]
  /\ joined \in [Invites -> SUBSET Subjects]
  /\ creator \in [Tenants -> Subjects \cup {None}]
  /\ provisioned \in [subjects : SUBSET Subjects, count : 0..MaxAdmin]
  /\ admins \subseteq Users \X Tenants

(* Slug 0 is none: every tenant there is has a slug, and has it alone.       *)
SlugsAreUnique ==
  /\ \A t \in Tenants : TenantExists(t) => tenants[t].slug # 0
  /\ \A t, u \in Tenants : tenants[t].slug = tenants[u].slug /\ tenants[t].slug # 0 => t = u

(* Every variable holds a value of its kind, and every tenant has one of the *)
(* candidates as its slug, which it shares with no other: not even when two  *)
(* requests resolve the same free slug, or none is left                      *)
(* (resolve_unique_slug, create_workspace, create_tenant).                   *)
TypeOK == RowsAreTyped /\ SlugsAreUnique

(* The invitation row and the memberships agree: it reads accepted exactly   *)
(* when an account joined through it, although revoke and get_by_token       *)
(* write the status without looking at the memberships.                      *)
AcceptedMeansJoined ==
  \A i \in Invites : invitations[i].status = "accepted" <=> joined[i] # {}

(* An account enters one workspace on its own: whatever requests it has in   *)
(* flight, it creates one workspace or joins through one invitation.         *)
OneWorkspacePerAccount ==
  \A s \in Subjects :
    Cardinality({i \in Invites : s \in joined[i]}) + Cardinality({t \in Tenants : creator[t] = s}) <= 1

(* A workspace never exists without the membership of its creator, and an    *)
(* account that joined has the role it was offered, until the admin          *)
(* provisions the account anew.                                              *)
MembershipIsKept ==
  \A s \in Subjects \ provisioned.subjects :
    /\ \A t \in Tenants : creator[t] = s =>
         memberships[s].tenant = t /\ memberships[s].role = "tenant_admin"
    /\ \A i \in Invites : s \in joined[i] =>
         memberships[s].tenant = invitations[i].tenant /\ memberships[s].role = invitations[i].role

(* User rows no membership refers to come from the two transactions of the   *)
(* admin's create_membership only, one for each; a sign-up that fails at any *)
(* statement leaves none.                                                    *)
StrayUsersAreProvisioned ==
  Cardinality({u \in users : \A s \in Subjects : memberships[s].user # u}) <= provisioned.count

(* Authority is handed down: whoever invited into a workspace administered   *)
(* it, although the admin may provision the inviter elsewhere, or as viewer, *)
(* while the request is under way.                                           *)
InvitersWereAdmins ==
  \A i \in Invites :
    invitations[i].status # "none" => <<invitations[i].invited_by, invitations[i].tenant>> \in admins

(* "invitation already accepted": an invitation lets in one account.         *)
InvitationUsedOnce ==
  \A i \in Invites : Cardinality(joined[i]) <= 1

===============================================================================
