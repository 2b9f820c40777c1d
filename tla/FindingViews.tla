----------------------------- MODULE FindingViews ------------------------------
(*****************************************************************************)
(* What a client sees of the findings of one scan: risk-summary,             *)
(* fix-priorities and the risk of a resource.  Each of them lists            *)
(* findings.findings once, up to a limit, in the order of the severity TEXT  *)
(* (critical, high, info, low, medium), and ranks what it got in Python.     *)
(*****************************************************************************)
EXTENDS RiskRanking

CONSTANTS
  Rows,          \* the rows findings.findings may hold for the scan
  MaxRows,       \* bound: rows stored
  Inventory,     \* the resources of the scan
  PageLimit,     \* limit=500 of risk-summary and fix-priorities
  ResourceLimit, \* limit=100 of list_by_resource
  TopN,          \* top_n of risk-summary
  MaxItems       \* limit of fix-priorities

Severities == {"critical", "high", "medium", "low", "info"}

(* Ids of policies and resources are numbers in the order of their texts.    *)
(* The identity policies of the catalogue are about identities, and one      *)
(* (AWS_IAM_012) about compute instances: none is about a place for data.    *)
ASSUME ViewsAssumption ==
  /\ \A x \in Rows :
       /\ x.policy \in Int /\ x.resource \in Inventory \cap Int
       /\ x.severity \in Severities
       /\ x.result \in {"pass", "fail", "error"}
       /\ x.minutes \in Nat
       /\ x.iam => ~ Sensitive(x)
  /\ IsFiniteSet(Inventory)
  /\ {MaxRows, PageLimit, ResourceLimit, TopN, MaxItems} \subseteq Nat \ {0}

VARIABLES
  findings, \* the rows stored
  view      \* the last response, NoView before one

vars == <<findings, view>>

NoView == [kind |-> "none"]

Init == findings = {} /\ view = NoView

(* UNIQUE (tenant_id, scan_id, policy_id, resource_id)                       *)
StoreFinding ==
  /\ view = NoView
  /\ Cardinality(findings) < MaxRows
  /\ \E x \in Rows :
       /\ \A y \in findings : y.policy # x.policy \/ y.resource # x.resource
       /\ findings' = findings \cup {x}
  /\ UNCHANGED view

-------------------------------------------------------------------------------
TextOrder(s) ==
  CASE s = "critical" -> 0 [] s = "high" -> 1 [] s = "info" -> 2 [] s = "low" -> 3
    [] s = "medium" -> 4

(* Mutant: ORDER BY policy_id, resource_id                                   *)
OrderWithoutSeverity(x) == <<x.policy, x.resource>>

(* ORDER BY severity, policy_id, resource_id                                 *)
QueryOrder(x) == <<TextOrder(x.severity), x.policy, x.resource>>

(* list_findings: the first limit rows of those its WHERE clause selects.    *)
Page(rows, limit) ==
  FirstN(InOrder(rows, {p \in rows \X rows : Before(QueryOrder(p[1]), QueryOrder(p[2]))}), limit)

Fails(s) == ElementsAt(s, {i \in DOMAIN s : s[i].result = "fail"})

Failing(rows) == {x \in rows : x.result = "fail"}

Elements(s) == {s[i] : i \in DOMAIN s}

OfSeverity(rows, sev) == {x \in rows : x.severity = sev}

(* GET /scans/{id}/risk-summary lists findings of every result.              *)
GetRiskSummary ==
  LET page  == Page(findings, PageLimit)
      fails == Fails(page)
      risky == {fails[i].resource : i \in DOMAIN fails}
  IN /\ view = NoView
     /\ view' = [kind |-> "summary", page |-> page,
          counts    |-> [sev \in Severities |-> Cardinality(OfSeverity(Elements(fails), sev))],
          protected |-> Cardinality(Inventory) - Cardinality(risky),
          top       |-> TopRisks(Sorted(fails), TopN)]
     /\ UNCHANGED findings

(* GET /scans/{id}/fix-priorities lists failures only.                       *)
GetFixPriorities ==
  /\ view = NoView
  /\ view' = [kind |-> "priorities",
              items |-> FirstN(Sorted(Page(Failing(findings), PageLimit)), MaxItems)]
  /\ UNCHANGED findings

(* Mutant: list_by_resource is called without result="fail".                 *)
RowsOfResourceAll(r) == {x \in findings : x.resource = r}

RowsOfResource(r) == {x \in Failing(findings) : x.resource = r}

(* build_resource_risk: the level of the least SEVERITY_ORDER.               *)
RiskLevel(s) ==
  IF s = <<>> THEN "healthy"
  ELSE CHOOSE sev \in {s[i].severity : i \in DOMAIN s} :
         \A i \in DOMAIN s : SeverityOrder(sev) <= SeverityOrder(s[i].severity)

(* GET /assets/{id}/risk                                                     *)
GetAssetRisk(r) ==
  LET fails == Fails(Page(RowsOfResource(r), ResourceLimit))
  IN /\ view = NoView
     /\ view' = [kind |-> "resource", resource |-> r, level |-> RiskLevel(fails),
                 items |-> Sorted(fails)]
     /\ UNCHANGED findings

Next ==
  \/ StoreFinding
  \/ GetRiskSummary
  \/ GetFixPriorities
  \/ \E r \in Inventory : GetAssetRisk(r)

Spec == Init /\ [][Next]_vars

-------------------------------------------------------------------------------
Served(kind) == view.kind = kind

(* The bonuses of the risk score never lift a failure over one of a higher   *)
(* severity: the fix list starts with the most severe ones, whatever their   *)
(* exposure (compute_risk_signals, fix_priority_sort_key).                   *)
SevereFirst ==
  Served("priorities") =>
    \A i, j \in DOMAIN view.items : i < j =>
      SeverityOrder(view.items[i].severity) <= SeverityOrder(view.items[j].severity)

(* The top risks are of different policies, and a failure of the page that   *)
(* is not among them has its policy there at a place no worse, or found the  *)
(* list full of failures that rank no worse than it (build_risk_summary).    *)
TopRisksAreTheWorst ==
  Served("summary") =>
    /\ \A i, j \in DOMAIN view.top : view.top[i].policy = view.top[j].policy => i = j
    /\ \A x \in Failing(Elements(view.page)) :
         LET NoWorse(t) == ~ Before(SortKey(x), SortKey(t))
         IN \/ \E i \in DOMAIN view.top :
                 view.top[i].policy = x.policy /\ NoWorse(view.top[i])
            \/ Len(view.top) = TopN /\ \A i \in DOMAIN view.top : NoWorse(view.top[i])

Grave == {"critical", "high"}

(* Two cuts, the query's by the text of the severity and the list's by rank, *)
(* and yet no critical or high failure is missing from the fix list while a  *)
(* lesser one is in it, or while there is room.  Of medium and low failures  *)
(* this is not true: the text sorts low first.                               *)
WorstAreNotCut ==
  Served("priorities") =>
    \A x \in Failing(findings) \ Elements(view.items) : x.severity \in Grave =>
      /\ Len(view.items) \in {PageLimit, MaxItems}
      /\ \A i \in DOMAIN view.items :
           SeverityOrder(view.items[i].severity) <= SeverityOrder(x.severity)

(* The counts of the risk summary never exceed the failures there are; they  *)
(* and the number of protected resources are exact while all rows fit the    *)
(* page; and beyond it critical and high failures are missing from the count *)
(* only when the page is full of rows at least as severe, passed ones        *)
(* included (get_scan_risk_summary).                                         *)
CountsMissOnlyTheLesser ==
  Served("summary") =>
    LET N(sev) == Cardinality(OfSeverity(Failing(findings), sev))
        fits   == Cardinality(findings) <= PageLimit
    IN /\ \A sev \in Severities : view.counts[sev] <= N(sev) /\ (fits => view.counts[sev] = N(sev))
       /\ fits => view.protected =
            Cardinality({r \in Inventory : \A x \in Failing(findings) : x.resource # r})
       /\ \A sev \in Grave : view.counts[sev] < N(sev) =>
            /\ Len(view.page) = PageLimit
            /\ \A x \in Elements(view.page) : SeverityOrder(x.severity) <= SeverityOrder(sev)

(* A resource is called healthy only if none of its findings fails, and the  *)
(* level is that of the worst failure although the query may cut the list in *)
(* the order of the severity text (list_by_resource, build_resource_risk).   *)
(* Cut between medium and low, the level may only be too low.                *)
RiskLevelIsTheWorst ==
  Served("resource") =>
    LET mine == {x \in Failing(findings) : x.resource = view.resource}
        Worst(sev) == /\ OfSeverity(mine, sev) # {}
                      /\ \A x \in mine : SeverityOrder(sev) <= SeverityOrder(x.severity)
    IN /\ view.level = "healthy" <=> mine = {}
       /\ \A sev \in Grave : view.level = sev <=> Worst(sev)
       /\ mine # {} /\ Cardinality(mine) <= ResourceLimit => Worst(view.level)

===============================================================================
