------------------------------ MODULE ScanReports ------------------------------
(*****************************************************************************)
(* The read side: the reports the API builds on a scan while the policy      *)
(* worker of ComplianceResults may still be writing it.  Every report makes  *)
(* several queries, each a transaction of its own, so the tables may change  *)
(* between two of them.                                                      *)
(*****************************************************************************)
EXTENDS ComplianceResults

CONSTANTS
  Inventory,       \* assets.resources of the scan
  PolicySeverity,  \* PolicySeverity[p]: severity of policy p, copied to findings
  CustomerVisible, \* the frameworks customers may read; all are scored
  FindingsLimit    \* limit=500 of risk-summary and fix-priorities

ASSUME ReportAssumption ==
  /\ \A m \in Matches : m[2] \in Inventory /\ m[1] \in DOMAIN PolicySeverity
  /\ CustomerVisible \subseteq Frameworks
  /\ FindingsLimit \in Nat
  /\ IsFiniteSet(Inventory)

VARIABLE reader \* the locals of one request

ReportKinds == {"matrix", "risk", "priorities", "coverage"}

NoRequest ==
  [pc |-> "idle", kind |-> "none", customer |-> TRUE, seen |-> "none", rows |-> {},
   framework |-> NoFramework, score |-> NoRow, controls |-> {}, run |-> "none", total |-> 0]

ReportsInit == Init /\ reader = NoRequest

(* ORDER BY severity sorts the text of the column.                           *)
TextOrder(s) ==
  CASE s = "critical" -> 0 [] s = "high" -> 1 [] s = "info" -> 2 [] s = "low" -> 3
    [] s = "medium" -> 4

(* list_findings: the first limit rows ORDER BY severity, policy, resource;  *)
(* which of two rows of one severity comes first is left open.               *)
Pages(rows, limit) ==
  {page \in SUBSET rows :
     /\ Cardinality(page) = (IF Cardinality(rows) < limit THEN Cardinality(rows) ELSE limit)
     /\ \A x \in page, y \in rows \ page :
          TextOrder(PolicySeverity[x.policy]) <= TextOrder(PolicySeverity[y.policy])}

-------------------------------------------------------------------------------
(* A request arrives; ScanService.get_scan reads the scan's row.  Only the   *)
(* matrix tells a super_admin from a customer.                               *)
Request(kind, customer) ==
  /\ reader.pc \in {"idle", "done"}
  /\ customer \/ kind = "matrix"
  /\ \E f \in Frameworks :
       reader' = [NoRequest EXCEPT !.kind = kind, !.customer = customer, !.seen = scanStatus,
                    !.framework = f,
                    !.pc = CASE kind = "matrix" -> "framework"
                             [] kind \in {"risk", "priorities"} -> "rows"
                             [] kind = "coverage" -> "run"]
  /\ UNCHANGED <<tables, worker, faults>>

(* risk-summary lists findings of every result, fix-priorities failures only.*)
ReadRows ==
  /\ reader.pc = "rows"
  /\ \E page \in Pages(IF reader.kind = "priorities" THEN OfResult(findings, "fail")
                       ELSE findings, FindingsLimit) :
       reader' = [reader EXCEPT !.rows = page,
                    !.pc = IF reader.kind = "priorities" THEN "done" ELSE "framework"]
  /\ UNCHANGED <<tables, worker, faults>>

(* Where get_scan_compliance goes when it has nothing: the matrix answers    *)
(* 404, the risk summary goes on without a score.                            *)
WithoutScore == IF reader.kind = "risk" THEN "total" ELSE "done"

MayRead == reader.customer => reader.framework \in CustomerVisible

(* get_scan_compliance: a framework the caller may not see is not found.     *)
ReadFramework ==
  /\ reader.pc = "framework"
  /\ reader' = [reader EXCEPT !.pc = IF MayRead THEN "score" ELSE WithoutScore]
  /\ UNCHANGED <<tables, worker, faults>>

(* get_scan_compliance: no score row, no report.                             *)
ReadScore ==
  /\ reader.pc = "score"
  /\ reader' = [reader EXCEPT !.score = scanScores[reader.framework],
       !.pc = IF scanScores[reader.framework] # NoRow THEN "controls" ELSE WithoutScore]
  /\ UNCHANGED <<tables, worker, faults>>

(* get_scan_compliance: then the control rows that are there.                *)
ReadControls ==
  /\ reader.pc = "controls"
  /\ reader' = [reader EXCEPT
       !.controls = {<<c, controlResults[c].status>> :
                       c \in {d \in ControlsOf(reader.framework) : controlResults[d] # NoRow}},
       !.pc = IF reader.kind = "risk" THEN "total" ELSE "done"]
  /\ UNCHANGED <<tables, worker, faults>>

(* risk-summary: assets.count                                                *)
CountAssets ==
  /\ reader.pc = "total"
  /\ reader' = [reader EXCEPT !.total = Cardinality(Inventory), !.pc = "done"]
  /\ UNCHANGED <<tables, worker, faults>>

(* policy_coverage: the evaluation run ...                                   *)
ReadRun ==
  /\ reader.pc = "run"
  /\ reader' = [reader EXCEPT !.run = run, !.pc = "by_result"]
  /\ UNCHANGED <<tables, worker, faults>>

(* ... and the findings counted by result, and again by policy.              *)
ReadCounts ==
  /\ reader.pc = "by_result"
  /\ reader' = [reader EXCEPT !.rows = findings, !.pc = "done"]
  /\ UNCHANGED <<tables, worker, faults>>

ReportStep ==
  \/ \E kind \in ReportKinds, customer \in BOOLEAN : Request(kind, customer)
  \/ ReadRows
  \/ ReadFramework
  \/ ReadScore
  \/ ReadControls
  \/ CountAssets
  \/ ReadRun
  \/ ReadCounts

Next == (WorkerStep /\ UNCHANGED reader) \/ ReportStep

vars == <<tables, worker, faults, reader>>

Spec == ReportsInit /\ [][Next]_vars

-------------------------------------------------------------------------------
Served(kind) == reader.pc = "done" /\ reader.kind = kind

(* build_resource_inventory_stats                                            *)
AtRisk(rows) == {x.resource : x \in OfResult(rows, "fail")}

Protected ==
  IF reader.total < Cardinality(AtRisk(reader.rows)) THEN 0
  ELSE reader.total - Cardinality(AtRisk(reader.rows))

(* A matrix that is served at all is whole: every control of the framework   *)
(* is in it and the summary, read in an earlier transaction, counts exactly  *)
(* those controls, though the worker may be half way through the next        *)
(* framework (get_scan_compliance).                                          *)
MatrixIsWhole ==
  Served("matrix") /\ reader.score # NoRow =>
    LET N(st) == Cardinality({e \in reader.controls : e[2] = st})
    IN /\ {e[1] : e \in reader.controls} = ControlsOf(reader.framework)
       /\ reader.score.pass = N("pass")
       /\ reader.score.fail = N("fail")
       /\ reader.score.error = N("error")
       /\ reader.score.not_assessed = N("not_assessed")
       /\ reader.score.manual = N("manual")

(* A client that saw the scan completed gets, from every request after that, *)
(* reports on all of the evaluation: the stored score of the framework if it *)
(* may read it, and none if not; and, while the findings fit the page, a row *)
(* for every policy and asset, and as many protected resources as have no    *)
(* failing finding.                                                          *)
CompletedReportsAreWhole ==
  reader.seen = "completed" =>
    /\ Served("matrix") \/ Served("risk") =>
         /\ scanScores[reader.framework] # NoRow
         /\ reader.score = IF MayRead THEN scanScores[reader.framework] ELSE NoRow
    /\ Served("risk") /\ Cardinality(Matches) <= FindingsLimit =>
         /\ {<<x.policy, x.resource>> : x \in reader.rows} = Matches
         /\ Protected = Cardinality(Inventory \ AtRisk(findings))
    /\ Served("priorities") /\ Cardinality(Matches) <= FindingsLimit =>
         reader.rows = OfResult(findings, "fail")

(* The totals of a finished evaluation run agree with the findings counted   *)
(* in the next query (policy_coverage, complete_evaluation_run).             *)
CoverageAddsUp ==
  Served("coverage") /\ reader.run.status = "completed" =>
    /\ reader.run.findings = Cardinality(reader.rows)
    /\ reader.run.fails = Cardinality(OfResult(reader.rows, "fail"))

===============================================================================
