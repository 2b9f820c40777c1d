------------------------------- MODULE AdminReads ------------------------------
(*****************************************************************************)
(* The operator's view of all tenants: the overview, which counts scans one  *)
(* status after the other, and the list of recent scans.  Each is a loop of  *)
(* one statement per tenant, while the scans it looks at move along the life *)
(* cycle that ScanPipeline is shown to implement, slips included.  The model *)
(* begins when a request does, with scans in any of the Starts.              *)
(*****************************************************************************)
EXTENDS ScanLifecycle, Integers, FiniteSets, SequencesExt

CONSTANTS
  Tenants,   \* tenant ids
  Home,      \* Home[s]: the tenant of scan s
  Limit,     \* limit of GET /admin/scans
  Filters,   \* the statuses an operator filters by, AnyStatus for no filter
  AnyStatus,
  Starts,    \* the statuses scans may have when the request begins
  MaxMoves   \* bound: status changes while a request is served

ASSUME AdminAssumption ==
  /\ IsFiniteSet(Tenants) /\ IsFiniteSet(Scans)
  /\ Home \in [Scans -> Tenants]
  /\ AnyStatus \notin ScanStatus
  /\ Filters \subseteq ScanStatus \cup {AnyStatus}
  /\ Limit \in Nat \ {0}
  /\ Starts \subseteq ScanStatus \cup {"absent"}
  /\ MaxMoves \in Nat

VARIABLES
  tenants,   \* platform.tenants, the newest first
  updated,   \* updated[s]: its updated_at, above 0 if set since the request began
  request,   \* where the request in hand stands and what it has read
  clock,     \* status changes since the request began
  steady     \* history: the scans that have been under way since it began

vars == <<status, disturbed, tenants, updated, request, clock, steady>>

NoRequest == [kind |-> "none"]

Recorded == {s \in Scans : status[s] # "absent"}

(* Not terminal, and past the request that created it.                       *)
UnderWay == {s \in Scans : status[s] \in ScanStatus \ (TERMINAL_STATUSES \cup {"created"})}

Init ==
  /\ status \in [Scans -> Starts]
  /\ disturbed \in BOOLEAN
  /\ tenants \in SetToSeqs(Tenants) \cup SetToSeqs({Home[s] : s \in Recorded})
  /\ updated \in [Scans -> (1 - Cardinality(Scans))..0]
  /\ \A s, t \in Recorded : s # t => updated[s] # updated[t]
  /\ \A s \in Scans \ Recorded : updated[s] = 0
  /\ request = NoRequest
  /\ clock = 0
  /\ steady = {}

(* POST /admin/tenants, or a workspace somebody creates.                     *)
CreateTenant(t) ==
  /\ t \notin ToSet(tenants)
  /\ tenants' = <<t>> \o tenants
  /\ UNCHANGED <<status, disturbed, updated, request, clock, steady>>

(* Every write of a status sets updated_at = now().                          *)
MoveScan(s) ==
  /\ request.kind \in {"overview", "list"}
  /\ Home[s] \in ToSet(tenants)
  /\ disturbed' \in {disturbed, TRUE}
  /\ Create(s) \/ Transition(s) \/ Slip(s)
  /\ clock < MaxMoves
  /\ clock' = clock + 1
  /\ updated' = [updated EXCEPT ![s] = clock']
  /\ steady' = steady \cap UnderWay'
  /\ UNCHANGED <<tenants, request>>

-------------------------------------------------------------------------------
(* Mutant: the statuses are counted from the end of the pipeline.            *)
CountedBackwards == <<"failed", "evaluating", "ingesting", "collecting", "queued">>

(* What admin_overview counts, in the order it counts it.                    *)
Counted == <<"failed", "queued", "collecting", "ingesting", "evaluating">>

(* admin_overview, up to its first list_tenants.  failed and active are the  *)
(* scans its counts are made of, hidden those a count came upon in a status  *)
(* that is under way and not among Counted.                                  *)
BeginOverview ==
  /\ request.kind = "none"
  /\ request' = [kind |-> "overview", column |-> 1, left |-> tenants,
                 failed |-> {}, active |-> {}, hidden |-> {}]
  /\ steady' = UnderWay
  /\ UNCHANGED <<status, disturbed, tenants, updated, clock>>

(* count_scans_by_status: one tenant after the other.                        *)
CountTenant ==
  LET st   == Counted[request.column]
      here == {s \in Scans : Home[s] = Head(request.left)}
      hits == {s \in here : status[s] = st}
  IN /\ request.kind = "overview" /\ request.left # <<>>
     /\ request' = [request EXCEPT
          !.left   = Tail(@),
          !.failed = IF st = "failed" THEN @ \cup hits ELSE @,
          !.active = IF st = "failed" THEN @ ELSE @ \cup hits,
          !.hidden = @ \cup {s \in here \cap UnderWay : status[s] \notin ToSet(Counted)}]
     /\ UNCHANGED <<status, disturbed, tenants, updated, clock, steady>>

(* The next status, with a list_tenants of its own.                          *)
NextColumn ==
  /\ request.kind = "overview" /\ request.left = <<>>
  /\ request.column < Len(Counted)
  /\ request' = [request EXCEPT !.column = @ + 1, !.left = tenants]
  /\ UNCHANGED <<status, disturbed, tenants, updated, clock, steady>>

ServeOverview ==
  /\ request.kind = "overview" /\ request.left = <<>>
  /\ request.column = Len(Counted)
  /\ request' = [request EXCEPT !.kind = "overview served"]
  /\ UNCHANGED <<status, disturbed, tenants, updated, clock, steady>>

(* list_admin_scans, up to list_tenants.                                     *)
BeginList(filter) ==
  /\ request.kind = "none"
  /\ request' = [kind |-> "list", filter |-> filter, left |-> tenants, rows |-> {}]
  /\ UNCHANGED <<status, disturbed, tenants, updated, clock, steady>>

(* The first Limit rows in the order of updated_at DESC, which no two share. *)
Latest(rows) == {r \in rows : Cardinality({q \in rows : q.at > r.at}) < Limit}

Asked(s) == s \in Recorded /\ request.filter \in {AnyStatus, status[s]}

Row(s) == [scan |-> s, at |-> updated[s]]

(* AdminRepository.list_scans: LIMIT applies to every tenant.                *)
ListTenant ==
  LET here == {s \in Scans : Asked(s) /\ Home[s] = Head(request.left)}
  IN /\ request.kind = "list" /\ request.left # <<>>
     /\ request' = [request EXCEPT !.left = Tail(@),
                                   !.rows = @ \cup Latest({Row(s) : s \in here})]
     /\ UNCHANGED <<status, disturbed, tenants, updated, clock, steady>>

(* Mutant: reverse=True is forgotten.                                        *)
MergeOldest(rows) == {r \in rows : Cardinality({q \in rows : q.at < r.at}) < Limit}

Merge(rows) == Latest(rows)

ServeList ==
  /\ request.kind = "list" /\ request.left = <<>>
  /\ request' = [request EXCEPT !.kind = "list served", !.rows = Merge(@)]
  /\ UNCHANGED <<status, disturbed, tenants, updated, clock, steady>>

Next ==
  \/ \E t \in Tenants : CreateTenant(t)
  \/ \E s \in Scans : MoveScan(s)
  \/ BeginOverview
  \/ CountTenant
  \/ NextColumn
  \/ ServeOverview
  \/ \E filter \in Filters : BeginList(filter)
  \/ ListTenant
  \/ ServeList

Spec == Init /\ [][Next]_vars

-------------------------------------------------------------------------------
(* A scan that is under way from the beginning of the overview to its end is *)
(* among the active ones although it moves between the counts, because they  *)
(* follow the pipeline and a scan never goes back.  What they can miss is a  *)
(* scan found waiting as collected or inventory_ready, which no count asks   *)
(* for (admin_overview).                                                     *)
OverviewMissesOnlyHandOffs ==
  request.kind = "overview served" => steady \ request.hidden \subseteq request.active

Ahead(s) == {x \in Recorded : updated[x] > updated[s]}

(* A scan that does not move while the list is read, and that fewer than     *)
(* Limit scans were updated after, is in it if its status is asked for, at   *)
(* whichever tenant it is and wherever the loop stood when others moved      *)
(* (AdminRepository.list_scans).                                             *)
RecentScansAreListed ==
  request.kind = "list served" =>
    \A s \in Recorded :
      /\ Asked(s)
      /\ updated[s] <= 0
      /\ Cardinality(Ahead(s)) < Limit
      => \E row \in request.rows : row.scan = s

===============================================================================
