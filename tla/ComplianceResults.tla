--------------------------- MODULE ComplianceResults ---------------------------
(*****************************************************************************)
(* One evaluation of a scan as findings/repository.py and compliance/mapper  *)
(* carry it out: every policy is evaluated on every asset it matches, one    *)
(* upsert per finding; then each framework is mapped, one upsert per control *)
(* and a last one for the score.  ScanPipeline shows that a scan is          *)
(* evaluated by one worker at a time; here that worker is followed down to   *)
(* the single finding, control and score.  It may stop for good after any    *)
(* statement: nothing below assumes that it goes on.                         *)
(*****************************************************************************)
EXTENDS Integers, FiniteSets

CONSTANTS
  Matches,     \* <<policy, asset>> pairs where policy.matches_asset(asset)
  Controls,    \* rows of compliance_v2.controls that are enabled
  FrameworkOf, \* FrameworkOf[c]: the framework of control c
  PoliciesOf,  \* PoliciesOf[c]: its mapped_policy_ids
  ManualOnes,  \* the controls whose assessment_type is manual
  NoFramework, \* no framework is being mapped
  MaxFaults    \* bound: statements that raise

ASSUME CatalogAssumption ==
  /\ \A m \in Matches : m = <<m[1], m[2]>>
  /\ DOMAIN FrameworkOf = Controls
  /\ DOMAIN PoliciesOf = Controls
  /\ ManualOnes \subseteq Controls
  /\ \A c \in Controls : FrameworkOf[c] # NoFramework
  /\ MaxFaults \in Nat
  /\ IsFiniteSet(Controls)

VARIABLES
  scanStatus, \* platform.scans.status
  run,        \* findings.evaluation_runs, its one row
  findings,   \* findings.findings
  controlResults, \* compliance_v2.control_results
  scanScores, \* compliance_v2.scan_scores
  worker,     \* the locals of the policy worker
  faults

tables == <<scanStatus, run, findings, controlResults, scanScores>>

Frameworks == {FrameworkOf[c] : c \in Controls}

ControlsOf(f) == {c \in Controls : FrameworkOf[c] = f}

Results == {"pass", "fail", "error"}

(* A row of findings.findings, unique per policy and resource.               *)
Finding(m, result) == [policy |-> m[1], resource |-> m[2], result |-> result]

AllFindings == {Finding(m, r) : m \in Matches, r \in Results}

SameKey(x, y) == x.policy = y.policy /\ x.resource = y.resource

OfResult(rows, result) == {x \in rows : x.result = result}

NoRow == [status |-> "absent"]

Init ==
  /\ scanStatus = "evaluating"
  /\ run = [status |-> "running", findings |-> 0, fails |-> 0]
  /\ findings = {}
  /\ controlResults = [c \in Controls |-> NoRow]
  /\ scanScores = [f \in Frameworks |-> NoRow]
  /\ worker = [pc |-> "evaluate", todo |-> Matches, fails |-> 0, count |-> 0,
               frameworks |-> Frameworks, framework |-> NoFramework,
               controls |-> {}, read |-> {}]
  /\ faults = 0

-------------------------------------------------------------------------------
(* Mutant: whatever evaluate_policy_logic raises counts as a failure.        *)
CountsErrors(result) == IF result = "pass" THEN 0 ELSE 1

(* What a finding adds to fail_count.                                        *)
CountsAsFail(result) == IF result = "fail" THEN 1 ELSE 0

(* A statement that raises sends the worker to the except branch.            *)
Failing == [worker EXCEPT !.pc = "fail_run", !.todo = {}, !.frameworks = {},
                          !.framework = NoFramework, !.controls = {}]

(* A committed write: the worker goes on to next, or its connection is lost  *)
(* before the answer arrives and the statement raises.                       *)
Then(next) ==
  \/ worker' = next /\ UNCHANGED faults
  \/ faults < MaxFaults /\ faults' = faults + 1 /\ worker' = Failing

(* INSERT .. ON CONFLICT (tenant_id, scan_id, policy_id, resource_id)        *)
UpsertFinding(x) == findings' = {y \in findings : ~ SameKey(x, y)} \cup {x}

(* One turn of the inner loop of evaluate_scan: the logic is evaluated, an   *)
(* exception becomes the result "error", and the finding is upserted.        *)
EvaluateAsset ==
  /\ worker.pc = "evaluate"
  /\ \E m \in worker.todo, result \in Results :
       /\ UpsertFinding(Finding(m, result))
       /\ Then([worker EXCEPT !.todo = @ \ {m}, !.count = @ + 1,
                              !.fails = @ + CountsAsFail(result)])
  /\ UNCHANGED <<scanStatus, run, controlResults, scanScores>>

(* complete_evaluation_run                                                   *)
CompleteRun ==
  /\ worker.pc = "evaluate"
  /\ worker.todo = {}
  /\ run' = [status |-> "completed", findings |-> worker.count, fails |-> worker.fails]
  /\ Then([worker EXCEPT !.pc = "next_framework"])
  /\ UNCHANGED <<scanStatus, findings, controlResults, scanScores>>

(* map_scan: the next framework; its controls are listed and the findings of *)
(* the scan are read.                                                        *)
ReadFindings ==
  /\ worker.pc = "next_framework"
  /\ \E f \in worker.frameworks :
       worker' = [worker EXCEPT !.pc = "controls", !.framework = f,
                    !.frameworks = @ \ {f}, !.controls = ControlsOf(f), !.read = findings]
  /\ UNCHANGED <<tables, faults>>

-------------------------------------------------------------------------------
MappedFindings(c, rows) == {x \in rows : x.policy \in PoliciesOf[c]}

(* Mutant: a policy whose evaluation raised does not stand in the way.       *)
StatusIgnoresErrors(c, rows) ==
  LET mine == MappedFindings(c, rows)
  IN CASE c \in ManualOnes               -> "manual"
       [] c \notin ManualOnes /\ mine = {} -> "not_assessed"
       [] c \notin ManualOnes /\ mine # {} ->
            IF OfResult(mine, "fail") # {} THEN "fail" ELSE "pass"

(* _aggregate_control: the status of a control.  A control that maps to no   *)
(* policy and one whose policies matched no asset are both not assessed.     *)
ControlStatus(c, rows) ==
  LET mine == MappedFindings(c, rows)
  IN CASE c \in ManualOnes -> "manual"
       [] c \notin ManualOnes /\ mine = {} -> "not_assessed"
       [] c \notin ManualOnes /\ OfResult(mine, "fail") # {} -> "fail"
       [] OTHER -> IF OfResult(mine, "error") # {} THEN "error" ELSE "pass"

AggregateControl(c, rows) ==
  LET mine == IF c \in ManualOnes THEN {} ELSE MappedFindings(c, rows)
  IN [status     |-> ControlStatus(c, rows),
      fail_count |-> Cardinality(OfResult(mine, "fail")),
      pass_count |-> Cardinality(OfResult(mine, "pass")),
      failing    |-> OfResult(mine, "fail")]

(* Decimal(pass) / Decimal(assessed) * 100, quantized to 0.01 half up: the   *)
(* score in hundredths.                                                      *)
HalfUp(passed, assessed) ==
  IF assessed = 0 THEN 0 ELSE (20000 * passed + assessed) \div (2 * assessed)

(* Mutant: a control in error is left out of what was assessed.              *)
ScoreWithoutErrors(f, rows) ==
  LET N(st) == Cardinality({c \in ControlsOf(f) : ControlStatus(c, rows) = st})
  IN [score |-> HalfUp(N("pass"), N("pass") + N("fail")),
      pass |-> N("pass"), fail |-> N("fail"), error |-> N("error"),
      not_assessed |-> N("not_assessed"), manual |-> N("manual"),
      total |-> Cardinality(ControlsOf(f))]

(* _compute_score over the aggregates of one framework                       *)
ComputeScore(f, rows) ==
  LET N(st) == Cardinality({c \in ControlsOf(f) : ControlStatus(c, rows) = st})
  IN [score |-> HalfUp(N("pass"), N("pass") + N("fail") + N("error")),
      pass |-> N("pass"), fail |-> N("fail"), error |-> N("error"),
      not_assessed |-> N("not_assessed"), manual |-> N("manual"),
      total |-> Cardinality(ControlsOf(f))]

(* One turn of the loop of _map_single_framework.                            *)
UpsertControlResult ==
  /\ worker.pc = "controls"
  /\ \E c \in worker.controls :
       /\ controlResults' = [controlResults EXCEPT ![c] = AggregateControl(c, worker.read)]
       /\ Then([worker EXCEPT !.controls = @ \ {c}])
  /\ UNCHANGED <<scanStatus, run, findings, scanScores>>

AfterFramework ==
  [worker EXCEPT !.framework = NoFramework,
     !.pc = IF worker.frameworks = {} THEN "set_final" ELSE "next_framework"]

StoreScore(f) == scanScores' = [scanScores EXCEPT ![f] = ComputeScore(f, worker.read)]

(* Mutant: the score is stored before the last control result is.            *)
UpsertScoreEarly ==
  /\ worker.pc = "controls"
  /\ \/ /\ scanScores[worker.framework] = NoRow
        /\ StoreScore(worker.framework)
        /\ UNCHANGED worker
     \/ /\ scanScores[worker.framework] # NoRow
        /\ worker.controls = {}
        /\ worker' = AfterFramework
        /\ UNCHANGED scanScores
  /\ UNCHANGED <<scanStatus, run, findings, controlResults, faults>>

(* The last statement of _map_single_framework.                              *)
UpsertScanScore ==
  /\ worker.pc = "controls"
  /\ worker.controls = {}
  /\ StoreScore(worker.framework)
  /\ Then(AfterFramework)
  /\ UNCHANGED <<scanStatus, run, findings, controlResults>>

-------------------------------------------------------------------------------
(* Mutant: the scan is completed as soon as its evaluation run is.           *)
SetFinalEarly ==
  /\ worker.pc \in {"next_framework", "set_final"}
  /\ scanStatus' = "completed"
  /\ worker' = [worker EXCEPT !.pc = IF @ = "set_final" THEN "timeline" ELSE @]
  /\ UNCHANGED <<run, findings, controlResults, scanScores, faults>>

(* update_status with COMPLETED or COMPLETED_WITH_ERRORS: one state here.    *)
SetFinal ==
  /\ worker.pc = "set_final"
  /\ scanStatus' = "completed"
  /\ Then([worker EXCEPT !.pc = "timeline"])
  /\ UNCHANGED <<run, findings, controlResults, scanScores>>

(* The three append_event calls, which the try block covers too.             *)
AppendTimeline ==
  /\ worker.pc = "timeline"
  /\ worker' = [worker EXCEPT !.pc = "done"]
  /\ UNCHANGED <<tables, faults>>

(* A query raises, or a write that was not committed does.                   *)
StatementRaises ==
  /\ worker.pc \in {"evaluate", "next_framework", "controls", "set_final", "timeline"}
  /\ faults < MaxFaults
  /\ faults' = faults + 1
  /\ worker' = Failing
  /\ UNCHANGED tables

(* except Exception: the run is failed, its counters are reset ...           *)
FailRun ==
  /\ worker.pc = "fail_run"
  /\ run' = [status |-> "failed", findings |-> 0, fails |-> 0]
  /\ worker' = [worker EXCEPT !.pc = "fail_scan"]
  /\ UNCHANGED <<scanStatus, findings, controlResults, scanScores, faults>>

(* ... and so is the scan.  What was stored stays.                           *)
FailScan ==
  /\ worker.pc = "fail_scan"
  /\ scanStatus' = "failed"
  /\ worker' = [worker EXCEPT !.pc = "done"]
  /\ UNCHANGED <<run, findings, controlResults, scanScores, faults>>

WorkerStep ==
  \/ EvaluateAsset
  \/ CompleteRun
  \/ ReadFindings
  \/ UpsertControlResult
  \/ UpsertScanScore
  \/ SetFinal
  \/ AppendTimeline
  \/ StatementRaises
  \/ FailRun
  \/ FailScan

(* A stored control result can be read off the findings the tables hold: it  *)
(* passes only on evidence, fails exactly when one of its policies does, and *)
(* lists exactly the findings that fail (_aggregate_control).                *)
FollowsFindings(c, row) ==
  LET mine == MappedFindings(c, findings)
      failed == {x \in mine : x.result = "fail"}
  IN IF c \in ManualOnes THEN row.status = "manual" /\ row.failing = {}
     ELSE /\ row.status = "pass" <=> mine # {} /\ \A x \in mine : x.result = "pass"
          /\ row.status = "fail" <=> failed # {}
          /\ row.status = "not_assessed" <=> mine = {}
          /\ row.failing = failed

(* Every stored control result follows from the findings, and once the score *)
(* of its framework is stored or the scan is completed none is missing       *)
(* (_map_single_framework, PolicyWorker.handle_event).                       *)
ControlsFollowFindings ==
  \A c \in Controls :
    /\ controlResults[c] # NoRow => FollowsFindings(c, controlResults[c])
    /\ scanScores[FrameworkOf[c]] # NoRow \/ scanStatus = "completed" => controlResults[c] # NoRow

StoredWith(f, st) == {c \in ControlsOf(f) : controlResults[c].status = st}

(* A stored score counts the stored control results of its framework, each   *)
(* once, and is the share that passed of those assessed, to the nearest      *)
(* hundredth (_compute_score).                                               *)
ScoreMatchesControls ==
  \A f \in Frameworks : scanScores[f] # NoRow =>
    LET row == scanScores[f]
        assessed == Cardinality(StoredWith(f, "pass") \cup StoredWith(f, "fail")
                                  \cup StoredWith(f, "error"))
        distance == row.score * assessed - 10000 * row.pass
    IN /\ row.pass = Cardinality(StoredWith(f, "pass"))
       /\ row.fail = Cardinality(StoredWith(f, "fail"))
       /\ row.error = Cardinality(StoredWith(f, "error"))
       /\ row.total = assessed + row.not_assessed + row.manual
       /\ IF assessed = 0 THEN row.score = 0
          ELSE -assessed < 2 * distance /\ 2 * distance <= assessed

===============================================================================
