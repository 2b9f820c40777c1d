---------------------------- MODULE AdminReadProofs ----------------------------
(*****************************************************************************)
(* What the operator reads is complete, for any number of tenants, scans and *)
(* moves.  A scan that stays under way is counted, or it is still at or      *)
(* before the status asked for next at its tenant: OverviewInvariant.  A     *)
(* recent scan that does not move is listed, or its tenant has still to be   *)
(* asked, and whatever is ahead of it is ahead of it for good: ListInvariant.*)
(*****************************************************************************)
EXTENDS AdminReads, FiniteSetTheorems, TLAPS

Passing == {"queued", "collecting", "collected", "ingesting", "inventory_ready", "evaluating"}

LEMMA UnderWayIsPassing == UnderWay = {s \in Scans : status[s] \in Passing}
BY DEF UnderWay, ScanStatus, TERMINAL_STATUSES, Passing

LEMMA StagesInOrder ==
  /\ Stage["created"] = 0 /\ Stage["queued"] = 1 /\ Stage["collecting"] = 2
  /\ Stage["collected"] = 3 /\ Stage["ingesting"] = 4 /\ Stage["inventory_ready"] = 5
  /\ Stage["evaluating"] = 6
BY DEF Stage, ScanStatus

StatusTypeOK == status \in [Scans -> ScanStatus \cup {"absent"}]

(* A step never takes a scan that stays under way to an earlier stage.       *)
LEMMA MovesForward ==
  ASSUME StatusTypeOK, NEW s \in Scans, Create(s) \/ Transition(s) \/ Slip(s)
  PROVE  /\ StatusTypeOK'
         /\ \A t \in UnderWay \cap UnderWay' : Stage[status[t]] <= Stage[status'[t]]
         /\ \A t \in Scans : status'[t] # "absent" => status[t] # "absent" \/ t = s
<1> DEFINE old == status[s]
<1>1. old \in ScanStatus \cup {"absent"}
  BY DEF StatusTypeOK
<1>2. PICK target \in ScanStatus :
        /\ status' = [status EXCEPT ![s] = target]
        /\ old \in Passing /\ target \in Passing => Stage[old] <= Stage[target]
  <2>1. CASE Create(s)
    BY <2>1 DEF Create, ScanStatus, Passing
  <2>2. CASE Transition(s)
    <3>1. PICK target \in ALLOWED_TRANSITIONS[old] : status' = [status EXCEPT ![s] = target]
      BY <2>2 DEF Transition
    <3>2. old \in ScanStatus
      BY <2>2 DEF Transition
    <3>3. target \in ScanStatus /\ (old \in Passing /\ target \in Passing => Stage[old] <= Stage[target])
      BY <3>2, StagesInOrder DEF ALLOWED_TRANSITIONS, ScanStatus, Passing
    <3>4. QED  BY <3>1, <3>3
  <2>3. CASE Slip(s)
    <3>1. PICK target \in ScanStatus :
            /\ \/ target = "failed"
               \/ /\ target # "failed"
                  /\ \/ old = "failed" /\ Stage[target] >= Stage["evaluating"]
                     \/ old # "failed" /\ Stage[target] > Stage[old]
            /\ status' = [status EXCEPT ![s] = target]
      BY <2>3 DEF Slip
    <3>2. old \in Passing /\ target \in Passing => Stage[old] <= Stage[target]
      <4> HAVE old \in Passing /\ target \in Passing
      <4>1. Stage[target] > Stage[old]
        BY <3>1 DEF Passing
      <4>2. Stage[old] \in Int /\ Stage[target] \in Int
        BY StagesInOrder DEF Passing
      <4>3. QED  BY <4>1, <4>2
    <3>3. QED  BY <3>1, <3>2
  <2>4. QED  BY <2>1, <2>2, <2>3
<1>3. StatusTypeOK'
  BY <1>2 DEF StatusTypeOK
<1>4. \A t \in Scans : status'[t] = IF t = s THEN target ELSE status[t]
  BY <1>2 DEF StatusTypeOK
<1>5. ASSUME NEW t \in UnderWay \cap UnderWay'
      PROVE  Stage[status[t]] <= Stage[status'[t]]
  <2>1. t \in Scans /\ status[t] \in Passing /\ status'[t] \in Passing
    BY <1>5, UnderWayIsPassing DEF UnderWay, ScanStatus, TERMINAL_STATUSES, Passing
  <2>2. CASE t = s
    BY <1>2, <1>4, <2>1, <2>2
  <2>3. CASE t # s
    <3>1. status'[t] = status[t] /\ Stage[status[t]] \in Int
      BY <1>4, <2>1, <2>3, StagesInOrder DEF Passing
    <3>2. QED  BY <3>1
  <2>4. QED  BY <2>2, <2>3
<1>6. QED  BY <1>3, <1>4, <1>5

-------------------------------------------------------------------------------
(* What a loop over tenants takes off its list, and what a list that grows   *)
(* still holds.                                                              *)
LEMMA TakeFirst ==
  ASSUME NEW S, NEW q \in Seq(S), q # <<>>
  PROVE  /\ Tail(q) \in Seq(S)
         /\ \A t : t # Head(q) => (t \in ToSet(q) <=> t \in ToSet(Tail(q)))
<1>1. Len(q) \in Nat \ {0} /\ DOMAIN q = 1..Len(q)
  OBVIOUS
<1>2. /\ Tail(q) \in Seq(S) /\ DOMAIN Tail(q) = 1..(Len(q) - 1)
      /\ \A i \in 1..(Len(q) - 1) : Tail(q)[i] = q[i + 1]
  OBVIOUS
<1>3. Head(q) = q[1]
  OBVIOUS
<1>4. ASSUME NEW t, t # Head(q), t \in ToSet(q)
      PROVE  t \in ToSet(Tail(q))
  <2>1. PICK i \in 1..Len(q) : q[i] = t
    BY <1>1, <1>4 DEF ToSet
  <2>2. i - 1 \in 1..(Len(q) - 1) /\ (i - 1) + 1 = i
    BY <1>1, <1>3, <1>4, <2>1
  <2>3. Tail(q)[i - 1] = t
    BY <1>2, <2>1, <2>2
  <2>4. QED  BY <1>2, <2>2, <2>3 DEF ToSet
<1>5. ASSUME NEW t, t \in ToSet(Tail(q))
      PROVE  t \in ToSet(q)
  <2>1. PICK i \in 1..(Len(q) - 1) : Tail(q)[i] = t
    BY <1>2, <1>5 DEF ToSet
  <2>2. i + 1 \in 1..Len(q) /\ q[i + 1] = t
    BY <1>1, <1>2, <2>1
  <2>3. QED  BY <1>1, <2>2 DEF ToSet
<1>6. QED  BY <1>2, <1>4, <1>5

LEMMA PutFirst ==
  ASSUME NEW S, NEW q \in Seq(S), NEW t \in S
  PROVE  <<t>> \o q \in Seq(S) /\ ToSet(q) \subseteq ToSet(<<t>> \o q)
<1>1. Len(q) \in Nat /\ DOMAIN q = 1..Len(q)
  OBVIOUS
<1>2. /\ <<t>> \o q \in Seq(S) /\ DOMAIN (<<t>> \o q) = 1..(Len(q) + 1)
      /\ \A i \in 1..Len(q) : (<<t>> \o q)[i + 1] = q[i]
  OBVIOUS
<1>3. ASSUME NEW i \in 1..Len(q)
      PROVE  q[i] \in ToSet(<<t>> \o q)
  <2>1. i + 1 \in 1..(Len(q) + 1)
    BY <1>1
  <2>2. QED  BY <1>2, <2>1 DEF ToSet
<1>4. QED  BY <1>1, <1>2, <1>3 DEF ToSet

(* A list of the elements of a finite set, each once, leaves none out.       *)
LEMMA ListsAll ==
  ASSUME NEW S, IsFiniteSet(S), NEW q \in SetToSeqs(S)
  PROVE  q \in Seq(S) /\ S \subseteq ToSet(q)
<1> DEFINE n == Cardinality(S)
<1>1. n \in Nat
  BY FS_CardinalityType
<1>2. q \in [1..n -> S] /\ \A i, j \in 1..n : i # j => q[i] # q[j]
  BY DEF SetToSeqs
<1>3. q \in Injection(1..n, S)
  BY <1>2 DEF Injection, IsInjective
<1>4. IsFiniteSet(1..n) /\ Cardinality(1..n) = n
  <2>1. IsFiniteSet(1..n) /\ Cardinality(1..n) = IF 1 > n THEN 0 ELSE n - 1 + 1
    BY <1>1, FS_Interval
  <2> HIDE DEF n
  <2>2. QED  BY <1>1, <2>1
<1>5. q \in Surjection(1..n, S)
  BY <1>3, <1>4, FS_Injection
<1> HIDE DEF n
<1>6. q \in Seq(S) /\ DOMAIN q = 1..n
  BY <1>1, <1>2
<1>7. \A t \in S : \E i \in 1..n : q[i] = t
  BY <1>5 DEF Surjection
<1>8. QED  BY <1>6, <1>7 DEF ToSet

-------------------------------------------------------------------------------
OverviewRequests ==
  [kind : {"overview"}, column : 1..5, left : Seq(Tenants),
   failed : SUBSET Scans, active : SUBSET Scans, hidden : SUBSET Scans]

(* The column that will be counted next at the tenant of s.                  *)
Due(s) == IF Home[s] \in ToSet(request.left) THEN request.column ELSE request.column + 1

ListRequests ==
  [kind : {"list"}, filter : Filters, left : Seq(Tenants), rows : SUBSET [scan : Scans, at : Int]]

(* Nothing was updated later than now.                                       *)
StampsOK ==
  /\ clock \in Nat
  /\ updated \in [Scans -> Int]
  /\ \A s \in Scans : updated[s] <= clock

ListTypeOK == request.kind = "list" => request \in ListRequests

(* The tenants are known before their scans.                                 *)
TenantsKnown ==
  /\ tenants \in Seq(Tenants)
  /\ \A s \in Scans : status[s] # "absent" => Home[s] \in ToSet(tenants)

(* A scan that stays under way is among those counted or hidden, or has not  *)
(* come further than the column that is due at its tenant.                   *)
SteadyAreAhead ==
  request.kind = "overview" =>
    /\ request \in OverviewRequests
    /\ steady \subseteq UnderWay
    /\ \A s \in steady \ (request.active \cup request.hidden) :
         Due(s) # 1 => Due(s) <= 5 /\ Stage[Counted[Due(s)]] <= Stage[status[s]]

OverviewInvariant ==
  /\ StatusTypeOK
  /\ TenantsKnown
  /\ SteadyAreAhead
  /\ OverviewMissesOnlyHandOffs

LEMMA InitOverview == Init => OverviewInvariant
<1> SUFFICES ASSUME Init PROVE OverviewInvariant
  OBVIOUS
<1>1. StatusTypeOK
  BY AdminAssumption DEF Init, StatusTypeOK
<1>2. TenantsKnown
  <2> DEFINE homes == {Home[s] : s \in Recorded}
  <2>1. homes \subseteq Tenants /\ IsFiniteSet(Tenants)
    BY AdminAssumption DEF Recorded
  <2>2. IsFiniteSet(homes)
    BY <2>1, FS_Subset
  <2>3. tenants \in SetToSeqs(Tenants) \/ tenants \in SetToSeqs(homes)
    BY DEF Init
  <2>4. \A s \in Scans : status[s] # "absent" => Home[s] \in homes
    BY DEF Recorded
  <2> HIDE DEF homes
  <2>5. CASE tenants \in SetToSeqs(Tenants)
    BY <2>1, <2>4, <2>5, ListsAll DEF TenantsKnown
  <2>6. CASE tenants \in SetToSeqs(homes)
    <3>1. tenants \in Seq(homes) /\ homes \subseteq ToSet(tenants)
      BY <2>2, <2>6, ListsAll
    <3>2. tenants \in Seq(Tenants)
      BY <2>1, <3>1
    <3>3. QED  BY <2>4, <3>1, <3>2 DEF TenantsKnown
  <2>7. QED  BY <2>3, <2>5, <2>6
<1>3. SteadyAreAhead /\ OverviewMissesOnlyHandOffs
  BY DEF Init, NoRequest, SteadyAreAhead, OverviewMissesOnlyHandOffs
<1>4. QED  BY <1>1, <1>2, <1>3 DEF OverviewInvariant

(* What is asked for in which order.                                         *)
LEMMA CountedInOrder ==
  /\ Len(Counted) = 5
  /\ ToSet(Counted) = {"failed", "queued", "collecting", "ingesting", "evaluating"}
  /\ Counted[1] = "failed" /\ Counted[2] = "queued" /\ Counted[3] = "collecting"
  /\ Counted[4] = "ingesting" /\ Counted[5] = "evaluating"
<1>1. Len(Counted) = 5 /\ DOMAIN Counted = 1..5
  BY DEF Counted
<1>2. /\ Counted[1] = "failed" /\ Counted[2] = "queued" /\ Counted[3] = "collecting"
      /\ Counted[4] = "ingesting" /\ Counted[5] = "evaluating"
  BY DEF Counted
<1>3. ToSet(Counted) = {Counted[1], Counted[2], Counted[3], Counted[4], Counted[5]}
  <2>1. 1..5 = {1, 2, 3, 4, 5}
    OBVIOUS
  <2>2. QED  BY <1>1, <2>1 DEF ToSet
<1>4. QED  BY <1>1, <1>2, <1>3

(* A scan seen with a status that is asked for, but not this one, has its    *)
(* turn in a later column.                                                   *)
LEMMA LaterColumn ==
  ASSUME NEW c \in 1..5, NEW st \in Passing \cap ToSet(Counted), st # Counted[c],
         c # 1 => Stage[Counted[c]] <= Stage[st]
  PROVE  c + 1 <= 5 /\ Stage[Counted[c + 1]] <= Stage[st]
<1>1. st \in {"queued", "collecting", "ingesting", "evaluating"}
  BY CountedInOrder DEF Passing
<1>2. c = 1 \/ c = 2 \/ c = 3 \/ c = 4 \/ c = 5
  OBVIOUS
<1>3. QED  BY <1>1, <1>2, CountedInOrder, StagesInOrder

LEMMA MoveScanKeeps ==
  ASSUME OverviewInvariant, NEW s \in Scans, MoveScan(s)
  PROVE  OverviewInvariant'
<1>1. /\ Create(s) \/ Transition(s) \/ Slip(s)
      /\ Home[s] \in ToSet(tenants)
      /\ steady' = steady \cap UnderWay'
      /\ tenants' = tenants /\ request' = request
      /\ request.kind \in {"overview", "list"}
  BY DEF MoveScan
<1>2. /\ StatusTypeOK'
      /\ \A t \in UnderWay \cap UnderWay' : Stage[status[t]] <= Stage[status'[t]]
      /\ \A t \in Scans : status'[t] # "absent" => status[t] # "absent" \/ t = s
  BY <1>1, MovesForward DEF OverviewInvariant
<1>3. TenantsKnown'
  BY <1>1, <1>2 DEF OverviewInvariant, TenantsKnown
<1>4. SteadyAreAhead'
  <2> SUFFICES ASSUME request.kind = "overview"
               PROVE  SteadyAreAhead'
    BY <1>1 DEF SteadyAreAhead
  <2>1. /\ request \in OverviewRequests /\ steady \subseteq UnderWay
        /\ \A t \in steady \ (request.active \cup request.hidden) :
             Due(t) # 1 => Due(t) <= 5 /\ Stage[Counted[Due(t)]] <= Stage[status[t]]
    BY DEF OverviewInvariant, SteadyAreAhead
  <2>2. \A t : Due(t)' = Due(t)
    BY <1>1 DEF Due
  <2>3. ASSUME NEW t \in steady' \ (request.active \cup request.hidden), Due(t) # 1
        PROVE  Due(t) <= 5 /\ Stage[Counted[Due(t)]] <= Stage[status'[t]]
    <3>1. t \in UnderWay \cap UnderWay' /\ Due(t) \in 2..5
          /\ Stage[Counted[Due(t)]] <= Stage[status[t]]
      BY <1>1, <2>1, <2>3 DEF Due, OverviewRequests
    <3>2. status[t] \in Passing /\ status'[t] \in Passing
      BY <3>1, UnderWayIsPassing DEF UnderWay, ScanStatus, TERMINAL_STATUSES, Passing
    <3>3. Stage[status[t]] \in Int /\ Stage[status'[t]] \in Int
      BY <3>2, StagesInOrder DEF Passing
    <3>4. Stage[Counted[Due(t)]] \in Int
      BY <3>1, CountedInOrder, StagesInOrder
    <3>5. QED  BY <1>2, <3>1, <3>3, <3>4
  <2>4. QED  BY <1>1, <2>1, <2>2, <2>3 DEF SteadyAreAhead
<1>5. OverviewMissesOnlyHandOffs'
  BY <1>1 DEF OverviewMissesOnlyHandOffs
<1>6. QED  BY <1>2, <1>3, <1>4, <1>5 DEF OverviewInvariant

LEMMA CountTenantKeeps ==
  ASSUME OverviewInvariant, CountTenant
  PROVE  OverviewInvariant'
<1> DEFINE st   == Counted[request.column]
           here == {s \in Scans : Home[s] = Head(request.left)}
           hits == {s \in here : status[s] = st}
           new  == {s \in here \cap UnderWay : status[s] \notin ToSet(Counted)}
<1>1. /\ request.kind = "overview" /\ request.left # <<>>
      /\ request' = [request EXCEPT
           !.left   = Tail(@),
           !.failed = IF st = "failed" THEN @ \cup hits ELSE @,
           !.active = IF st = "failed" THEN @ ELSE @ \cup hits,
           !.hidden = @ \cup new]
      /\ UNCHANGED <<status, tenants, steady>>
  BY DEF CountTenant
<1>2. /\ request \in OverviewRequests /\ steady \subseteq UnderWay
      /\ \A s \in steady \ (request.active \cup request.hidden) :
           Due(s) # 1 => Due(s) <= 5 /\ Stage[Counted[Due(s)]] <= Stage[status[s]]
  BY <1>1 DEF OverviewInvariant, SteadyAreAhead
<1>3. /\ Tail(request.left) \in Seq(Tenants)
      /\ \A t : t # Head(request.left) =>
           (t \in ToSet(request.left) <=> t \in ToSet(Tail(request.left)))
      /\ Head(request.left) \in ToSet(request.left)
  <2>1. request.left \in Seq(Tenants)
    BY <1>2 DEF OverviewRequests
  <2>2. Head(request.left) \in ToSet(request.left)
    BY <1>1, <2>1 DEF ToSet
  <2>3. QED  BY <1>1, <2>1, <2>2, TakeFirst
<1>4. hits \subseteq Scans /\ new \subseteq Scans
  OBVIOUS
<1> HIDE DEF hits, new
<1>5. /\ request'.kind = "overview" /\ request'.column = request.column
      /\ request'.left = Tail(request.left)
      /\ request'.active = IF st = "failed" THEN request.active ELSE request.active \cup hits
      /\ request'.hidden = request.hidden \cup new
      /\ request' \in OverviewRequests
  BY <1>1, <1>2, <1>3, <1>4 DEF OverviewRequests
<1>6. ASSUME NEW s \in steady \ (request'.active \cup request'.hidden), Due(s)' # 1
      PROVE  Due(s)' <= 5 /\ Stage[Counted[Due(s)']] <= Stage[status[s]]
  <2>1. s \in steady \ (request.active \cup request.hidden) /\ s \in UnderWay /\ s \in Scans
    BY <1>2, <1>5 DEF UnderWay
  <2>2. status[s] \in Passing /\ request.column \in 1..5
    BY <1>2, <2>1, UnderWayIsPassing DEF OverviewRequests
  <2>3. CASE Home[s] # Head(request.left)
    <3>1. Due(s)' = Due(s)
      BY <1>3, <1>5, <2>3 DEF Due
    <3>2. QED  BY <1>2, <1>6, <2>1, <3>1
  <2>4. CASE Home[s] = Head(request.left)
    <3>1. Due(s) = request.column
      BY <1>3, <2>4 DEF Due
    <3>2. status[s] # st
      <4>1. st # "failed" => s \notin hits
        BY <1>5
      <4>2. QED  BY <2>1, <2>2, <2>4, <4>1 DEF hits, Passing
    <3>3. status[s] \in ToSet(Counted)
      BY <1>5, <2>1, <2>4 DEF new
    <3>4. request.column # 1 => Stage[Counted[request.column]] <= Stage[status[s]]
      BY <1>2, <2>1, <3>1
    <3>5. request.column + 1 <= 5 /\ Stage[Counted[request.column + 1]] <= Stage[status[s]]
      BY <2>2, <3>2, <3>3, <3>4, LaterColumn
    <3>6. Due(s)' = request.column \/ Due(s)' = request.column + 1
      BY <1>5 DEF Due
    <3>7. QED  BY <1>6, <2>2, <3>4, <3>5, <3>6
  <2>5. QED  BY <2>3, <2>4
<1>7. SteadyAreAhead'
  BY <1>1, <1>2, <1>5, <1>6 DEF SteadyAreAhead, UnderWay
<1>8. QED  BY <1>1, <1>5, <1>7 DEF OverviewInvariant, StatusTypeOK, TenantsKnown, OverviewMissesOnlyHandOffs

(* What the statement of one tenant adds to the list, and what is served.    *)
LEMMA ListedSoFar ==
  ASSUME ListTypeOK, ListTenant, StampsOK
  PROVE  LET here == {s \in Scans : Asked(s) /\ Home[s] = Head(request.left)}
         IN /\ request.kind = "list" /\ request'.kind = "list" /\ request.left # <<>>
            /\ request' \in ListRequests /\ request'.filter = request.filter
            /\ request'.left = Tail(request.left)
            /\ request'.rows = request.rows \cup Latest({Row(s) : s \in here})
            /\ UNCHANGED <<status, tenants, updated, clock>>
<1> DEFINE here == {s \in Scans : Asked(s) /\ Home[s] = Head(request.left)}
           new  == Latest({Row(s) : s \in here})
<1>1. /\ request.kind = "list" /\ request.left # <<>>
      /\ request' = [request EXCEPT !.left = Tail(@), !.rows = @ \cup new]
      /\ UNCHANGED <<status, tenants, updated, clock>>
  BY DEF ListTenant
<1>2. new \subseteq [scan : Scans, at : Int]
  <2>1. \A s \in here : Row(s) \in [scan : Scans, at : Int]
    BY DEF Row, StampsOK
  <2>2. QED  BY <2>1 DEF Latest
<1> HIDE DEF new
<1>3. request \in ListRequests
  BY <1>1 DEF ListTypeOK
<1>4. Tail(request.left) \in Seq(Tenants)
  BY <1>1, <1>3, TakeFirst DEF ListRequests
<1>5. /\ request' \in ListRequests /\ request'.filter = request.filter
      /\ request'.left = Tail(request.left) /\ request'.rows = request.rows \cup new
      /\ request'.kind = "list"
  BY <1>1, <1>2, <1>3, <1>4 DEF ListRequests
<1>6. QED  BY <1>1, <1>5 DEF new

LEMMA ListedAtLast ==
  ASSUME ListTypeOK, ServeList
  PROVE  /\ request.kind = "list" /\ request'.kind = "list served" /\ request.left = <<>>
         /\ request'.filter = request.filter /\ request'.rows = Latest(request.rows)
         /\ UNCHANGED <<status, tenants, updated, clock>>
<1>1. /\ request.kind = "list" /\ request.left = <<>>
      /\ request' = [request EXCEPT !.kind = "list served", !.rows = Latest(@)]
      /\ UNCHANGED <<status, tenants, updated, clock>>
  BY DEF ServeList, Merge
<1>2. request \in ListRequests
  BY <1>1 DEF ListTypeOK
<1>3. QED  BY <1>1, <1>2 DEF ListRequests

LEMMA NextOverview == OverviewInvariant /\ ListTypeOK /\ StampsOK /\ [Next]_vars => OverviewInvariant'
<1> SUFFICES ASSUME OverviewInvariant, ListTypeOK, StampsOK, [Next]_vars PROVE OverviewInvariant'
  OBVIOUS
<1>1. ASSUME NEW t \in Tenants, CreateTenant(t)
      PROVE  OverviewInvariant'
  <2>1. tenants' = <<t>> \o tenants /\ UNCHANGED <<status, request, steady>>
    BY <1>1 DEF CreateTenant
  <2>2. tenants' \in Seq(Tenants) /\ ToSet(tenants) \subseteq ToSet(tenants')
    BY <2>1, PutFirst DEF OverviewInvariant, TenantsKnown
  <2>3. QED  BY <2>1, <2>2 DEF OverviewInvariant, StatusTypeOK, TenantsKnown, SteadyAreAhead, Due,
                OverviewMissesOnlyHandOffs, UnderWay
<1>2. ASSUME NEW s \in Scans, MoveScan(s)
      PROVE  OverviewInvariant'
  BY <1>2, MoveScanKeeps
<1>3. CASE BeginOverview
  <2>1. /\ request' = [kind |-> "overview", column |-> 1, left |-> tenants,
                       failed |-> {}, active |-> {}, hidden |-> {}]
        /\ steady' = UnderWay /\ UNCHANGED <<status, tenants>>
    BY <1>3 DEF BeginOverview
  <2>2. request' \in OverviewRequests /\ request'.kind = "overview"
        /\ request'.left = tenants /\ request'.column = 1
    <3>1. tenants \in Seq(Tenants) /\ 1 \in 1..5
      BY DEF OverviewInvariant, TenantsKnown
    <3>2. {} \in SUBSET Scans
      OBVIOUS
    <3>3. request' \in OverviewRequests
      BY <2>1, <3>1, <3>2 DEF OverviewRequests
    <3>4. QED  BY <2>1, <3>3
  <2>3. \A s \in UnderWay : Due(s)' = 1
    BY <2>1, <2>2 DEF Due, UnderWay, OverviewInvariant, TenantsKnown, ScanStatus
  <2>4. SteadyAreAhead'
    BY <2>1, <2>2, <2>3 DEF SteadyAreAhead, UnderWay
  <2>5. QED  BY <2>1, <2>2, <2>4 DEF OverviewInvariant, StatusTypeOK, TenantsKnown, OverviewMissesOnlyHandOffs
<1>4. CASE CountTenant
  BY <1>4, CountTenantKeeps
<1>5. CASE NextColumn
  <2>1. /\ request.kind = "overview" /\ request.left = <<>> /\ request.column < 5
        /\ request' = [request EXCEPT !.column = @ + 1, !.left = tenants]
        /\ UNCHANGED <<status, tenants, steady>>
    BY <1>5, CountedInOrder DEF NextColumn
  <2>2. /\ request \in OverviewRequests /\ steady \subseteq UnderWay
        /\ \A s \in steady \ (request.active \cup request.hidden) :
             Due(s) # 1 => Due(s) <= 5 /\ Stage[Counted[Due(s)]] <= Stage[status[s]]
    BY <2>1 DEF OverviewInvariant, SteadyAreAhead
  <2>3. /\ request'.kind = "overview" /\ request'.column = request.column + 1
        /\ request'.left = tenants /\ request'.active = request.active
        /\ request'.hidden = request.hidden /\ request' \in OverviewRequests
    <3>1. tenants \in Seq(Tenants)
      BY DEF OverviewInvariant, TenantsKnown
    <3>2. request.column \in 1..5 /\ request.column + 1 \in 1..5
      BY <2>1, <2>2 DEF OverviewRequests
    <3>3. request' = [request EXCEPT !.column = request.column + 1, !.left = tenants]
      BY <2>1
    <3>4. request' \in OverviewRequests
      BY <2>2, <3>1, <3>2, <3>3 DEF OverviewRequests
    <3>5. QED  BY <2>1, <2>2, <3>3, <3>4 DEF OverviewRequests
  <2>4. \A s \in steady : Due(s)' = request.column + 1 /\ Due(s) = request.column + 1
    <3>1. \A s \in steady : Home[s] \in ToSet(tenants)
      BY <2>2 DEF UnderWay, ScanStatus, OverviewInvariant, TenantsKnown
    <3>2. ToSet(<<>>) = {}
      BY DEF ToSet
    <3>3. QED  BY <2>1, <2>3, <3>1, <3>2 DEF Due
  <2>5. SteadyAreAhead'
    BY <2>1, <2>2, <2>3, <2>4 DEF SteadyAreAhead, UnderWay
  <2>6. QED  BY <2>1, <2>3, <2>5 DEF OverviewInvariant, StatusTypeOK, TenantsKnown, OverviewMissesOnlyHandOffs
<1>6. CASE ServeOverview
  <2>1. /\ request.kind = "overview" /\ request.left = <<>> /\ request.column = 5
        /\ request' = [request EXCEPT !.kind = "overview served"]
        /\ UNCHANGED <<status, tenants, steady>>
    BY <1>6, CountedInOrder DEF ServeOverview
  <2>2. /\ request \in OverviewRequests
        /\ \A s \in steady \ (request.active \cup request.hidden) : Due(s) # 1 => Due(s) <= 5
    BY <2>1 DEF OverviewInvariant, SteadyAreAhead
  <2>3. \A s : Due(s) = 6
    <3>1. ToSet(<<>>) = {}
      BY DEF ToSet
    <3>2. \A s : Home[s] \notin ToSet(request.left)
      BY <2>1, <3>1
    <3>3. request.column = 5
      BY <2>1
    <3>4. request.column + 1 = 6
      BY <3>3
    <3>5. QED  BY <3>2, <3>4 DEF Due
  <2>4. steady \subseteq request.active \cup request.hidden
    BY <2>2, <2>3
  <2>5. request'.kind = "overview served" /\ request'.active = request.active
        /\ request'.hidden = request.hidden
    BY <2>1, <2>2 DEF OverviewRequests
  <2>6. QED  BY <2>1, <2>4, <2>5 DEF OverviewInvariant, StatusTypeOK, TenantsKnown, SteadyAreAhead,
                OverviewMissesOnlyHandOffs
<1>7. ASSUME NEW filter \in Filters, BeginList(filter)
      PROVE  OverviewInvariant'
  <2>1. request'.kind = "list" /\ UNCHANGED <<status, tenants>>
    BY <1>7 DEF BeginList
  <2>2. QED  BY <2>1 DEF OverviewInvariant, StatusTypeOK, TenantsKnown, SteadyAreAhead,
                OverviewMissesOnlyHandOffs
<1>8. CASE ListTenant \/ ServeList
  <2>1. /\ request.kind = "list" /\ UNCHANGED <<status, tenants>>
        /\ \/ ListTenant /\ request'.kind = "list"
           \/ ServeList /\ request'.kind = "list served"
    BY <1>8, ListedSoFar, ListedAtLast DEF ListTenant, ServeList
  <2>2. request'.kind \in {"list", "list served"}
    BY <2>1
  <2>3. QED  BY <2>1, <2>2 DEF OverviewInvariant, StatusTypeOK, TenantsKnown, SteadyAreAhead,
                OverviewMissesOnlyHandOffs
<1>9. CASE UNCHANGED vars
  BY <1>9 DEF vars, OverviewInvariant, StatusTypeOK, TenantsKnown, SteadyAreAhead, Due,
     OverviewMissesOnlyHandOffs, UnderWay
<1>10. QED  BY <1>1, <1>2, <1>3, <1>4, <1>5, <1>6, <1>7, <1>8, <1>9 DEF Next

-------------------------------------------------------------------------------
(* No two places of a list hold the same.                                    *)
EachOnce(q) == \A i, j \in DOMAIN q : q[i] = q[j] => i = j

(* A recent scan that has not moved.                                         *)
Wanted(s) == s \in Recorded /\ Asked(s) /\ updated[s] <= 0 /\ Cardinality(Ahead(s)) < Limit

(* The tenants still to be asked are asked once, a scan is listed once and   *)
(* with a stamp no later than the one it has, and a wanted scan is listed or *)
(* its tenant has still to be asked.                                         *)
RowsStand ==
  request.kind = "list" =>
    /\ EachOnce(request.left)
    /\ \A r \in request.rows :
         r.scan \in Recorded /\ r.at <= updated[r.scan] /\ Home[r.scan] \notin ToSet(request.left)
    /\ \A r, q \in request.rows : r.scan = q.scan => r = q
    /\ \A s \in Scans : Wanted(s) => Home[s] \in ToSet(request.left) \/ Row(s) \in request.rows

ListInvariant ==
  /\ StampsOK
  /\ ListTypeOK
  /\ EachOnce(tenants)
  /\ RowsStand
  /\ RecentScansAreListed

(* What is taken off a list without doubles is not in the rest.              *)
LEMMA TakenOnce ==
  ASSUME NEW S, NEW q \in Seq(S), q # <<>>, EachOnce(q)
  PROVE  EachOnce(Tail(q)) /\ Head(q) \notin ToSet(Tail(q)) /\ ToSet(Tail(q)) \subseteq ToSet(q)
<1>1. Len(q) \in Nat \ {0} /\ DOMAIN q = 1..Len(q) /\ Head(q) = q[1]
  OBVIOUS
<1>2. /\ DOMAIN Tail(q) = 1..(Len(q) - 1)
      /\ \A i \in 1..(Len(q) - 1) : Tail(q)[i] = q[i + 1] /\ i + 1 \in 1..Len(q)
  OBVIOUS
<1>3. ASSUME NEW i \in DOMAIN Tail(q), NEW j \in DOMAIN Tail(q), Tail(q)[i] = Tail(q)[j]
      PROVE  i = j
  <2>1. q[i + 1] = q[j + 1] /\ i + 1 \in DOMAIN q /\ j + 1 \in DOMAIN q
    BY <1>1, <1>2, <1>3
  <2>2. i + 1 = j + 1
    BY <2>1 DEF EachOnce
  <2>3. QED  BY <1>1, <1>2, <2>2
<1>4. ASSUME NEW i \in DOMAIN Tail(q)
      PROVE  Tail(q)[i] # Head(q) /\ Tail(q)[i] \in ToSet(q)
  <2>1. Tail(q)[i] = q[i + 1] /\ i + 1 \in DOMAIN q /\ 1 \in DOMAIN q /\ i + 1 # 1
    BY <1>1, <1>2
  <2>2. q[i + 1] # q[1]
    BY <2>1 DEF EachOnce
  <2>3. QED  BY <1>1, <2>1, <2>2 DEF ToSet
<1>5. QED  BY <1>3, <1>4 DEF EachOnce, ToSet

LEMMA PutOnce ==
  ASSUME NEW S, NEW q \in Seq(S), NEW t \in S, EachOnce(q), t \notin ToSet(q)
  PROVE  EachOnce(<<t>> \o q)
<1> DEFINE p == <<t>> \o q
<1>1. Len(q) \in Nat /\ DOMAIN q = 1..Len(q) /\ DOMAIN p = 1..(Len(q) + 1)
  OBVIOUS
<1>2. p[1] = t /\ \A i \in 2..(Len(q) + 1) : p[i] = q[i - 1] /\ i - 1 \in DOMAIN q
  OBVIOUS
<1> HIDE DEF p
<1>3. ASSUME NEW i \in DOMAIN p, NEW j \in DOMAIN p, p[i] = p[j]
      PROVE  i = j
  <2>1. CASE i = 1 /\ j # 1
    BY <1>1, <1>2, <1>3, <2>1 DEF ToSet
  <2>2. CASE j = 1 /\ i # 1
    BY <1>1, <1>2, <1>3, <2>2 DEF ToSet
  <2>3. CASE i # 1 /\ j # 1
    <3>1. q[i - 1] = q[j - 1] /\ i - 1 \in DOMAIN q /\ j - 1 \in DOMAIN q
      BY <1>1, <1>2, <1>3, <2>3
    <3>2. i - 1 = j - 1
      BY <3>1 DEF EachOnce
    <3>3. QED  BY <1>1, <3>2
  <2>4. QED  BY <2>1, <2>2, <2>3
<1>4. QED  BY <1>3 DEF EachOnce, p

(* Rows that are listed once and with stamps no later than the scans have    *)
(* now are no more than the scans ahead.                                     *)
LEMMA FewRowsAhead ==
  ASSUME StampsOK, NEW s \in Recorded, NEW rows \in SUBSET [scan : Scans, at : Int],
         \A r \in rows : r.scan \in Recorded /\ r.at <= updated[r.scan],
         \A r, q \in rows : r.scan = q.scan => r = q,
         Cardinality(Ahead(s)) < Limit
  PROVE  Cardinality({q \in rows : q.at > updated[s]}) < Limit
<1> DEFINE front == {q \in rows : q.at > updated[s]}
           f     == [q \in front |-> q.scan]
<1>1. s \in Scans /\ Recorded \subseteq Scans
  BY DEF Recorded
<1>2. IsFiniteSet(Ahead(s))
  BY <1>1, AdminAssumption, FS_Subset DEF Ahead
<1>3. ASSUME NEW q \in front
      PROVE  q.scan \in Ahead(s)
  <2>1. q.scan \in Recorded /\ q.at \in Int /\ q.at <= updated[q.scan] /\ q.at > updated[s]
    OBVIOUS
  <2>2. updated[q.scan] \in Int /\ updated[s] \in Int
    BY <1>1, <2>1 DEF StampsOK
  <2>3. QED  BY <2>1, <2>2 DEF Ahead
<1>4. f \in Injection(front, Ahead(s))
  BY <1>3 DEF Injection, IsInjective
<1>5. IsFiniteSet(front) /\ Cardinality(front) <= Cardinality(Ahead(s))
  BY <1>2, <1>4, FS_Injection
<1>6. Cardinality(front) \in Nat /\ Cardinality(Ahead(s)) \in Nat /\ Limit \in Nat
  BY <1>2, <1>5, FS_CardinalityType, AdminAssumption
<1>7. QED  BY <1>5, <1>6

LEMMA InitList == Init => ListInvariant
<1> SUFFICES ASSUME Init PROVE ListInvariant
  OBVIOUS
<1>1. StampsOK
  <2>1. Cardinality(Scans) \in Nat
    BY FS_CardinalityType, AdminAssumption
  <2>2. QED  BY <2>1 DEF Init, StampsOK
<1>2. EachOnce(tenants)
  BY DEF Init, SetToSeqs, EachOnce
<1>3. ListTypeOK /\ RowsStand /\ RecentScansAreListed
  BY DEF Init, NoRequest, ListTypeOK, RowsStand, RecentScansAreListed
<1>4. QED  BY <1>1, <1>2, <1>3 DEF ListInvariant

(* A scan that moves gets ahead of those that do not, and stays there.       *)
LEMMA MoveKeepsRows ==
  ASSUME OverviewInvariant, ListInvariant, NEW m \in Scans, MoveScan(m)
  PROVE  ListInvariant'
<1>1. /\ Create(m) \/ Transition(m) \/ Slip(m)
      /\ clock' = clock + 1 /\ updated' = [updated EXCEPT ![m] = clock']
      /\ tenants' = tenants /\ request' = request
      /\ request.kind \in {"overview", "list"}
  BY DEF MoveScan
<1>2. StatusTypeOK /\ StatusTypeOK'
  BY <1>1, MovesForward DEF OverviewInvariant
<1>3. StampsOK' /\ updated'[m] = clock + 1 /\ clock \in Nat
  BY <1>1 DEF ListInvariant, StampsOK
<1>4. \A s \in Scans \ {m} : status'[s] = status[s] /\ updated'[s] = updated[s]
  BY <1>1, <1>2 DEF Create, Transition, Slip, StatusTypeOK, ListInvariant, StampsOK
<1>5. Recorded \subseteq Recorded' /\ Recorded' \subseteq Recorded \cup {m} /\ m \in Recorded'
  <2>1. status'[m] # "absent"
    BY <1>1, <1>2 DEF Create, Transition, Slip, StatusTypeOK, ScanStatus, ALLOWED_TRANSITIONS
  <2>2. QED  BY <1>4, <2>1 DEF Recorded
<1>6. ASSUME NEW s \in Scans, Wanted(s)'
      PROVE  Wanted(s) /\ Row(s)' = Row(s)
  <2>1. s \in Recorded' /\ Asked(s)' /\ updated'[s] <= 0 /\ Cardinality(Ahead(s)') < Limit
    BY <1>6 DEF Wanted, Ahead
  <2>2. s # m
    BY <1>3, <2>1
  <2>3. status'[s] = status[s] /\ updated'[s] = updated[s] /\ s \in Recorded
    BY <1>4, <1>5, <2>1, <2>2
  <2>4. Asked(s)
    BY <1>1, <2>1, <2>3 DEF Asked
  <2>5. Ahead(s) \subseteq Ahead(s)'
    <3>1. ASSUME NEW x \in Ahead(s)
          PROVE  x \in Ahead(s)'
      <4>1. x \in Scans /\ x \in Recorded' /\ updated[x] > updated[s]
        BY <1>5 DEF Ahead, Recorded
      <4>2. CASE x = m
        <5>1. updated'[s] \in Int
          BY <1>3 DEF StampsOK
        <5>2. updated'[x] > updated'[s]
          BY <1>3, <2>1, <4>2, <5>1
        <5>3. QED  BY <4>1, <5>2 DEF Ahead
      <4>3. CASE x # m
        BY <1>4, <2>3, <4>1, <4>3 DEF Ahead
      <4>4. QED  BY <4>2, <4>3
    <3>2. QED  BY <3>1
  <2>6. Cardinality(Ahead(s)) < Limit
    <3>1. Ahead(s)' \subseteq Scans
      BY DEF Ahead, Recorded
    <3>2. IsFiniteSet(Ahead(s)')
      BY <3>1, AdminAssumption, FS_Subset
    <3>3. /\ IsFiniteSet(Ahead(s)) /\ Cardinality(Ahead(s)) <= Cardinality(Ahead(s)')
      BY <2>5, <3>2, FS_Subset
    <3>4. Cardinality(Ahead(s)) \in Nat /\ Cardinality(Ahead(s)') \in Nat /\ Limit \in Nat
      BY <3>2, <3>3, FS_CardinalityType, AdminAssumption
    <3>5. QED  BY <2>1, <3>3, <3>4
  <2>7. QED  BY <2>1, <2>3, <2>4, <2>6 DEF Wanted, Row
<1>7. RowsStand'
  <2> SUFFICES ASSUME request.kind = "list"
               PROVE  RowsStand'
    BY <1>1 DEF RowsStand
  <2>1. /\ EachOnce(request.left)
        /\ \A r \in request.rows :
             r.scan \in Recorded /\ r.at <= updated[r.scan]
             /\ Home[r.scan] \notin ToSet(request.left)
        /\ \A r, q \in request.rows : r.scan = q.scan => r = q
        /\ \A s \in Scans : Wanted(s) => Home[s] \in ToSet(request.left) \/ Row(s) \in request.rows
        /\ request \in ListRequests
    BY DEF ListInvariant, RowsStand, ListTypeOK
  <2>2. ASSUME NEW r \in request.rows
        PROVE  r.scan \in Recorded' /\ r.at <= updated'[r.scan]
    <3>1. r.scan \in Scans /\ r.at \in Int /\ r.scan \in Recorded /\ r.at <= updated[r.scan]
      BY <2>1 DEF ListRequests
    <3>2. updated[r.scan] \in Int /\ updated[r.scan] <= clock
      BY <3>1 DEF ListInvariant, StampsOK
    <3>3. CASE r.scan = m
      BY <1>3, <1>5, <3>1, <3>2, <3>3
    <3>4. CASE r.scan # m
      BY <1>4, <1>5, <3>1, <3>4
    <3>5. QED  BY <3>3, <3>4
  <2>3. ASSUME NEW s \in Scans, Wanted(s)'
        PROVE  Home[s] \in ToSet(request.left) \/ Row(s)' \in request.rows
    BY <1>6, <2>1, <2>3
  <2>4. QED  BY <1>1, <2>1, <2>2, <2>3 DEF RowsStand
<1>8. QED  BY <1>1, <1>3, <1>7 DEF ListInvariant, ListTypeOK, RecentScansAreListed

(* A wanted scan is on the page of its tenant.                               *)
LEMMA ListTenantKeeps ==
  ASSUME OverviewInvariant, ListInvariant, ListTenant
  PROVE  ListInvariant'
<1> DEFINE here == {s \in Scans : Asked(s) /\ Home[s] = Head(request.left)}
           all  == {Row(s) : s \in here}
           new  == Latest(all)
<1>1. /\ request.kind = "list" /\ request'.kind = "list" /\ request.left # <<>>
      /\ request' \in ListRequests /\ request'.filter = request.filter
      /\ request'.left = Tail(request.left)
      /\ request'.rows = request.rows \cup new
      /\ UNCHANGED <<status, tenants, updated, clock>>
  BY ListedSoFar DEF ListInvariant
<1>2. /\ EachOnce(request.left)
      /\ \A r \in request.rows :
           r.scan \in Recorded /\ r.at <= updated[r.scan]
           /\ Home[r.scan] \notin ToSet(request.left)
      /\ \A r, q \in request.rows : r.scan = q.scan => r = q
      /\ \A s \in Scans : Wanted(s) => Home[s] \in ToSet(request.left) \/ Row(s) \in request.rows
      /\ request \in ListRequests /\ StampsOK
  BY <1>1 DEF ListInvariant, RowsStand, ListTypeOK
<1>3. /\ EachOnce(Tail(request.left))
      /\ Head(request.left) \notin ToSet(Tail(request.left))
      /\ Head(request.left) \in ToSet(request.left)
      /\ ToSet(Tail(request.left)) \subseteq ToSet(request.left)
      /\ \A t : t # Head(request.left) =>
           (t \in ToSet(request.left) <=> t \in ToSet(Tail(request.left)))
  <2>1. request.left \in Seq(Tenants)
    BY <1>2 DEF ListRequests
  <2>2. Head(request.left) \in ToSet(request.left)
    BY <1>1, <2>1 DEF ToSet
  <2>3. QED  BY <1>1, <1>2, <2>1, <2>2, TakeFirst, TakenOnce
<1>4. ASSUME NEW r \in all
      PROVE  /\ r \in [scan : Scans, at : Int] /\ r.scan \in Recorded /\ r.at = updated[r.scan]
             /\ Home[r.scan] = Head(request.left) /\ r = Row(r.scan)
  BY <1>2 DEF Row, Asked, StampsOK
<1>5. new \subseteq all
  BY DEF Latest
<1>6. ASSUME NEW s \in here, Cardinality(Ahead(s)) < Limit
      PROVE  Row(s) \in new
  <2>1. s \in Recorded /\ Row(s) \in all /\ Row(s).at = updated[s]
    BY DEF Asked, Row
  <2>2. \A r \in all : r.scan \in Recorded /\ r.at <= updated[r.scan]
    <3>1. ASSUME NEW r \in all
          PROVE  r.at <= updated[r.scan]
      BY <1>4
    <3>2. QED  BY <1>4, <3>1
  <2>3. \A r, q \in all : r.scan = q.scan => r = q
    BY <1>4
  <2>4. all \in SUBSET [scan : Scans, at : Int]
    BY <1>4
  <2> HIDE DEF all
  <2>5. Cardinality({q \in all : q.at > updated[s]}) < Limit
    BY <1>2, <1>6, <2>1, <2>2, <2>3, <2>4, FewRowsAhead
  <2>6. QED  BY <2>1, <2>5 DEF Latest
<1> HIDE DEF new, all
<1>7. ASSUME NEW r \in request'.rows
      PROVE  r.scan \in Recorded /\ r.at <= updated[r.scan] /\ Home[r.scan] \notin ToSet(request'.left)
  <2>1. CASE r \in request.rows
    BY <1>1, <1>2, <1>3, <2>1
  <2>2. CASE r \in new
    <3>1. r \in all
      BY <1>5, <2>2
    <3>2. r.at <= updated[r.scan]
      BY <1>4, <3>1
    <3>3. QED  BY <1>1, <1>3, <1>4, <3>1, <3>2
  <2>3. QED  BY <1>1, <1>7, <2>1, <2>2
<1>8. ASSUME NEW r \in request'.rows, NEW q \in request'.rows, r.scan = q.scan
      PROVE  r = q
  <2>1. \A x \in request.rows : Home[x.scan] # Head(request.left)
    BY <1>2, <1>3
  <2>2. \A x \in new : Home[x.scan] = Head(request.left) /\ x = Row(x.scan)
    BY <1>4, <1>5
  <2>3. QED  BY <1>1, <1>2, <1>8, <2>1, <2>2
<1>9. ASSUME NEW s \in Scans, Wanted(s)
      PROVE  Home[s] \in ToSet(request'.left) \/ Row(s) \in request'.rows
  <2>1. CASE Home[s] = Head(request.left)
    <3>1. s \in here /\ Cardinality(Ahead(s)) < Limit
      BY <1>9, <2>1 DEF Wanted
    <3>2. QED  BY <1>1, <1>6, <3>1
  <2>2. CASE Home[s] # Head(request.left)
    BY <1>1, <1>2, <1>3, <1>9, <2>2
  <2>3. QED  BY <2>1, <2>2
<1>10. \A s : Wanted(s)' <=> Wanted(s)
  BY <1>1 DEF Wanted, Asked, Ahead, Recorded
<1>11. RowsStand'
  BY <1>1, <1>3, <1>7, <1>8, <1>9, <1>10 DEF RowsStand, Recorded, Row
<1>12. QED  BY <1>1, <1>11 DEF ListInvariant, StampsOK, ListTypeOK, RecentScansAreListed

(* And the cut of all pages leaves it in.                                    *)
LEMMA ServeListKeeps ==
  ASSUME OverviewInvariant, ListInvariant, ServeList
  PROVE  ListInvariant'
<1>1. /\ request.kind = "list" /\ request'.kind = "list served" /\ request.left = <<>>
      /\ request'.filter = request.filter /\ request'.rows = Latest(request.rows)
      /\ UNCHANGED <<status, tenants, updated, clock>>
  BY ListedAtLast DEF ListInvariant
<1>2. /\ \A r \in request.rows : r.scan \in Recorded /\ r.at <= updated[r.scan]
      /\ \A r, q \in request.rows : r.scan = q.scan => r = q
      /\ \A s \in Scans : Wanted(s) => Home[s] \in ToSet(request.left) \/ Row(s) \in request.rows
      /\ request.rows \in SUBSET [scan : Scans, at : Int] /\ StampsOK
  BY <1>1 DEF ListInvariant, RowsStand, ListTypeOK, ListRequests
<1>3. ASSUME NEW s \in Scans, Wanted(s)
      PROVE  \E row \in request'.rows : row.scan = s
  <2>1. ToSet(<<>>) = {}
    BY DEF ToSet
  <2>2. Row(s) \in request.rows
    BY <1>1, <1>2, <1>3, <2>1
  <2>3. s \in Recorded /\ Cardinality(Ahead(s)) < Limit
    BY <1>3 DEF Wanted
  <2>4. Cardinality({q \in request.rows : q.at > updated[s]}) < Limit
    BY <1>2, <2>3, FewRowsAhead
  <2>5. Row(s).scan = s /\ Row(s).at = updated[s]
    BY DEF Row
  <2>6. Row(s) \in Latest(request.rows)
    BY <2>2, <2>4, <2>5 DEF Latest
  <2>7. QED  BY <1>1, <2>5, <2>6
<1>4. RecentScansAreListed'
  <2>1. ASSUME NEW s \in Recorded', Asked(s)', updated'[s] <= 0, Cardinality(Ahead(s)') < Limit
        PROVE  \E row \in request'.rows : row.scan = s
    <3>1. s \in Scans /\ Wanted(s)
      BY <1>1, <2>1 DEF Wanted, Asked, Ahead, Recorded
    <3>2. QED  BY <1>3, <3>1
  <2>2. QED  BY <2>1 DEF RecentScansAreListed
<1>5. QED  BY <1>1, <1>2, <1>4 DEF ListInvariant, StampsOK, ListTypeOK, RowsStand

LEMMA NextList == OverviewInvariant /\ ListInvariant /\ [Next]_vars => ListInvariant'
<1> SUFFICES ASSUME OverviewInvariant, ListInvariant, [Next]_vars PROVE ListInvariant'
  OBVIOUS
<1>1. ASSUME NEW t \in Tenants, CreateTenant(t)
      PROVE  ListInvariant'
  <2>1. /\ t \notin ToSet(tenants) /\ tenants' = <<t>> \o tenants
        /\ UNCHANGED <<status, updated, request, clock>>
    BY <1>1 DEF CreateTenant
  <2>2. EachOnce(tenants')
    BY <2>1, PutOnce DEF OverviewInvariant, TenantsKnown, ListInvariant
  <2>3. QED  BY <2>1, <2>2 DEF ListInvariant, StampsOK, ListTypeOK, RowsStand, Wanted, Asked, Ahead,
                Recorded, Row, RecentScansAreListed
<1>2. ASSUME NEW s \in Scans, MoveScan(s)
      PROVE  ListInvariant'
  BY <1>2, MoveKeepsRows
<1>3. CASE BeginOverview \/ CountTenant \/ NextColumn \/ ServeOverview
  <2>1. request'.kind \in {"overview", "overview served"} /\ UNCHANGED <<tenants, updated, clock>>
    <3>1. CASE BeginOverview
      BY <3>1 DEF BeginOverview
    <3>2. CASE CountTenant
      <4>1. /\ request.kind = "overview" /\ UNCHANGED <<tenants, updated, clock>>
            /\ \E left, failed, active, hidden :
                 request' = [request EXCEPT !.left = left, !.failed = failed, !.active = active,
                                            !.hidden = hidden]
        BY <3>2, Zenon DEF CountTenant
      <4>2. request \in OverviewRequests
        BY <4>1 DEF OverviewInvariant, SteadyAreAhead
      <4>3. QED  BY <4>1, <4>2 DEF OverviewRequests
    <3>3. CASE NextColumn \/ ServeOverview
      <4>1. /\ request.kind = "overview" /\ UNCHANGED <<tenants, updated, clock>>
            /\ \/ \E column : request' = [request EXCEPT !.column = column, !.left = tenants]
               \/ request' = [request EXCEPT !.kind = "overview served"]
        BY <3>3, Zenon DEF NextColumn, ServeOverview
      <4>2. request \in OverviewRequests
        BY <4>1 DEF OverviewInvariant, SteadyAreAhead
      <4>3. QED  BY <4>1, <4>2 DEF OverviewRequests
    <3>4. QED  BY <1>3, <3>1, <3>2, <3>3
  <2>2. QED  BY <2>1 DEF ListInvariant, StampsOK, ListTypeOK, RowsStand, RecentScansAreListed
<1>4. ASSUME NEW filter \in Filters, BeginList(filter)
      PROVE  ListInvariant'
  <2>1. /\ request' = [kind |-> "list", filter |-> filter, left |-> tenants, rows |-> {}]
        /\ UNCHANGED <<status, tenants, updated, clock>>
    BY <1>4 DEF BeginList
  <2>2. /\ request'.kind = "list" /\ request'.left = tenants /\ request'.rows = {}
        /\ request' \in ListRequests
    <3>1. tenants \in Seq(Tenants) /\ {} \in SUBSET [scan : Scans, at : Int]
      BY DEF OverviewInvariant, TenantsKnown
    <3>2. QED  BY <1>4, <2>1, <3>1 DEF ListRequests
  <2>3. \A s \in Recorded' : Home[s] \in ToSet(tenants)
    BY <2>1 DEF OverviewInvariant, TenantsKnown, Recorded
  <2>4. RowsStand'
    BY <2>1, <2>2, <2>3 DEF ListInvariant, RowsStand, Wanted
  <2>5. QED  BY <2>1, <2>2, <2>4 DEF ListInvariant, StampsOK, ListTypeOK, RecentScansAreListed
<1>5. CASE ListTenant
  BY <1>5, ListTenantKeeps
<1>6. CASE ServeList
  BY <1>6, ServeListKeeps
<1>7. CASE UNCHANGED vars
  BY <1>7 DEF vars, ListInvariant, StampsOK, ListTypeOK, RowsStand, Wanted, Asked, Ahead, Recorded,
     Row, RecentScansAreListed
<1>8. QED  BY <1>1, <1>2, <1>3, <1>4, <1>5, <1>6, <1>7 DEF Next

-------------------------------------------------------------------------------
(* What the two requests rely on while scans move, whatever is between two   *)
(* of their statements.                                                      *)
THEOREM AdminReadsHold == Spec => [](OverviewInvariant /\ ListInvariant)
<1>1. ListInvariant => ListTypeOK /\ StampsOK
  BY DEF ListInvariant
<1>2. QED  BY <1>1, InitOverview, InitList, NextOverview, NextList, PTL DEF Spec

(* The counts of the overview, taken one status and one tenant after the     *)
(* other while scans move, miss a scan that is under way all the time only   *)
(* if a count came upon it between two stages (admin_overview).              *)
THEOREM OverviewIsComplete == Spec => []OverviewMissesOnlyHandOffs
<1>1. OverviewInvariant => OverviewMissesOnlyHandOffs
  BY DEF OverviewInvariant
<1>2. QED  BY <1>1, AdminReadsHold, PTL

(* A recent scan that does not move is on the list, wherever the loop over   *)
(* the tenants stood when others moved (AdminRepository.list_scans).         *)
THEOREM ListIsComplete == Spec => []RecentScansAreListed
<1>1. ListInvariant => RecentScansAreListed
  BY DEF ListInvariant
<1>2. QED  BY <1>1, AdminReadsHold, PTL

===============================================================================
