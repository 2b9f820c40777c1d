---------------------------- MODULE ScanReportProofs ----------------------------
(*****************************************************************************)
(* ScanReports and ComplianceResults for any catalogue, inventory and page   *)
(* size.  The argument is that the findings no longer change once anything   *)
(* stands on them: the first control result, score or completed run is       *)
(* written when every policy has been evaluated on every asset it matches.   *)
(* So a stored row is a function of the findings the table holds now, and    *)
(* what a report read in one transaction still holds in the next.            *)
(*****************************************************************************)
EXTENDS ScanReports, FiniteSetTheorems, TLAPS

WorkerPcs ==
  {"evaluate", "next_framework", "controls", "set_final", "timeline", "fail_run", "fail_scan", "done"}

MappingPcs == {"next_framework", "controls", "set_final", "timeline"}

Workers ==
  [pc : WorkerPcs, todo : SUBSET Matches, fails : Nat, count : Nat,
   frameworks : SUBSET Frameworks, framework : Frameworks \cup {NoFramework},
   controls : SUBSET Controls, read : SUBSET AllFindings]

EvaluationTypeOK ==
  /\ findings \subseteq AllFindings
  /\ DOMAIN controlResults = Controls
  /\ DOMAIN scanScores = Frameworks
  /\ controlResults = [c \in Controls |-> controlResults[c]]
  /\ scanScores = [f \in Frameworks |-> scanScores[f]]
  /\ worker \in Workers

Key(x) == <<x.policy, x.resource>>

(* The policies and assets that have been evaluated.                         *)
Evaluated == {Key(x) : x \in findings}

(* One finding for each of them; the worker counts them one by one.          *)
FindingsAreKeyed ==
  /\ IsFiniteSet(findings)
  /\ \A x, y \in findings : SameKey(x, y) => x = y
  /\ worker.pc = "evaluate" =>
       /\ Evaluated = Matches \ worker.todo
       /\ worker.count = Cardinality(findings)
       /\ worker.fails = Cardinality(OfResult(findings, "fail"))
       /\ run.status = "running"
       /\ scanStatus # "completed"
       /\ \A c \in Controls : controlResults[c] = NoRow
       /\ \A f \in Frameworks : scanScores[f] = NoRow

(* A completed run has counted them all.                                     *)
CompletedRun(r) ==
  r.status = "completed" =>
    /\ worker.pc # "evaluate"
    /\ r.findings = Cardinality(findings)
    /\ r.fails = Cardinality(OfResult(findings, "fail"))

(* What is stored follows from the findings.                                 *)
StoredRowsFollow ==
  /\ \A c \in Controls : controlResults[c] # NoRow => controlResults[c] = AggregateControl(c, findings)
  /\ \A f \in Frameworks : scanScores[f] # NoRow =>
       /\ scanScores[f] = ComputeScore(f, findings)
       /\ \A c \in ControlsOf(f) : controlResults[c] # NoRow

(* How far the mapping of the frameworks is.                                 *)
MappingInOrder ==
  /\ worker.pc \in MappingPcs =>
       /\ Evaluated = Matches
       /\ \A f \in Frameworks \ worker.frameworks : f # worker.framework => scanScores[f] # NoRow
  /\ worker.pc = "controls" =>
       /\ worker.read = findings
       /\ worker.framework \in Frameworks
       /\ worker.controls \subseteq ControlsOf(worker.framework)
       /\ \A c \in ControlsOf(worker.framework) \ worker.controls : controlResults[c] # NoRow
  /\ worker.pc \in {"evaluate", "next_framework", "set_final", "timeline"} => worker.framework = NoFramework
  /\ worker.pc \in {"set_final", "timeline"} => worker.frameworks = {}
  /\ worker.pc = "evaluate" => worker.frameworks = Frameworks

Finished ==
  /\ worker.pc # "evaluate"
  /\ Evaluated = Matches
  /\ \A f \in Frameworks : scanScores[f] # NoRow

CompletedIsFinished == scanStatus = "completed" => Finished

EvaluationInvariant ==
  /\ EvaluationTypeOK
  /\ FindingsAreKeyed
  /\ CompletedRun(run)
  /\ StoredRowsFollow
  /\ MappingInOrder
  /\ CompletedIsFinished

-------------------------------------------------------------------------------
(* What a request has read and the tables still say.                         *)
MatrixRead ==
  reader.score # NoRow =>
    /\ scanScores[reader.framework] # NoRow
    /\ reader.score = ComputeScore(reader.framework, findings)
    /\ reader.pc \in {"total", "done"} =>
         reader.controls = {<<c, ControlStatus(c, findings)>> : c \in ControlsOf(reader.framework)}

SeenFinished == reader.seen = "completed" => Finished

(* The first limit rows are all rows when there are no more.                 *)
RowsRead ==
  reader.seen = "completed" =>
    /\ reader.kind \in {"matrix", "risk"} /\ reader.pc \in {"controls", "total", "done"} =>
         (reader.score # NoRow <=> MayRead)
    /\ Cardinality(Matches) <= FindingsLimit =>
         /\ reader.kind = "risk" /\ reader.pc \in {"framework", "score", "controls", "total", "done"} =>
              reader.rows = findings
         /\ reader.kind = "priorities" /\ reader.pc = "done" => reader.rows = OfResult(findings, "fail")
    /\ reader.kind = "risk" /\ reader.pc = "done" => reader.total = Cardinality(Inventory)

CoverageRead ==
  reader.kind = "coverage" /\ reader.pc \in {"by_result", "done"} /\ reader.run.status = "completed" =>
    /\ CompletedRun(reader.run)
    /\ reader.pc = "done" => reader.rows = findings

ReaderFits ==
  /\ reader = [pc |-> reader.pc, kind |-> reader.kind, customer |-> reader.customer,
               seen |-> reader.seen, rows |-> reader.rows,
               framework |-> reader.framework, score |-> reader.score, controls |-> reader.controls,
               run |-> reader.run, total |-> reader.total]
  /\ reader.pc # "idle" => reader.framework \in Frameworks
  /\ reader.pc = "idle" => reader = NoRequest
  /\ reader.pc = "rows" => reader.kind \in {"risk", "priorities"} /\ reader.score = NoRow
  /\ reader.pc \in {"framework", "score"} => reader.kind \in {"risk", "matrix"} /\ reader.score = NoRow
  /\ reader.pc = "score" => MayRead
  /\ reader.pc = "controls" => reader.kind \in {"risk", "matrix"}
  /\ reader.pc = "total" => reader.kind = "risk"
  /\ reader.pc \in {"run", "by_result"} => reader.kind = "coverage" /\ reader.score = NoRow

ReportInvariant ==
  /\ EvaluationInvariant
  /\ ReaderFits
  /\ MatrixRead
  /\ SeenFinished
  /\ RowsRead
  /\ CoverageRead

-------------------------------------------------------------------------------
(* Operators.                                                                *)

(* A row that is stored is not the row that is absent.                       *)
LEMMA StoredIsRow ==
  ASSUME NEW c, NEW f, NEW rows
  PROVE  AggregateControl(c, rows) # NoRow /\ ComputeScore(f, rows) # NoRow
<1>1. NoRow.status = "absent" /\ "score" \notin DOMAIN NoRow
  BY DEF NoRow
<1>2. AggregateControl(c, rows).status = ControlStatus(c, rows)
  BY DEF AggregateControl
<1>3. ControlStatus(c, rows) \in {"manual", "not_assessed", "fail", "error", "pass"}
  BY DEF ControlStatus
<1>4. "score" \in DOMAIN ComputeScore(f, rows)
  BY DEF ComputeScore
<1>5. QED  BY <1>1, <1>2, <1>3, <1>4

LEMMA FrameworkFacts ==
  /\ NoFramework \notin Frameworks
  /\ \A f \in Frameworks : ControlsOf(f) \subseteq Controls
  /\ \A f : IsFiniteSet(ControlsOf(f))
<1>1. \A f : ControlsOf(f) \subseteq Controls
  BY DEF ControlsOf
<1>2. \A f : IsFiniteSet(ControlsOf(f))
  BY <1>1, CatalogAssumption, FS_Subset
<1>3. QED  BY <1>1, <1>2, CatalogAssumption DEF Frameworks

(* The failures among finitely many findings are finitely many.              *)
LEMMA SomeAreFinite ==
  ASSUME NEW rows, IsFiniteSet(rows), NEW result
  PROVE  /\ IsFiniteSet(OfResult(rows, result))
         /\ Cardinality(OfResult(rows, result)) \in Nat
         /\ Cardinality(OfResult(rows, result)) <= Cardinality(rows)
         /\ Cardinality(rows) \in Nat
<1>1. OfResult(rows, result) \subseteq rows
  BY DEF OfResult
<1>2. QED  BY <1>1, FS_Subset, FS_CardinalityType

(* What becomes of the worker's locals when a statement raises.              *)
LEMMA FailingWorker ==
  ASSUME EvaluationTypeOK
  PROVE  Failing \in Workers /\ Failing.pc = "fail_run"
  BY DEF EvaluationTypeOK, Workers, WorkerPcs, Failing

-------------------------------------------------------------------------------
(* The worker, statement by statement.                                       *)

LEMMA InitEvaluation == Init => EvaluationInvariant
<1> SUFFICES ASSUME Init PROVE EvaluationInvariant
  OBVIOUS
<1> USE DEF Init
<1>1. EvaluationTypeOK
  BY DEF EvaluationTypeOK, Workers, WorkerPcs
<1>2. FindingsAreKeyed
  <2>1. Evaluated = Matches \ worker.todo
    BY DEF Evaluated
  <2>2. OfResult(findings, "fail") = {}
    BY DEF OfResult
  <2>3. IsFiniteSet(findings) /\ Cardinality(findings) = 0 /\ Cardinality(OfResult(findings, "fail")) = 0
    BY <2>2, FS_EmptySet
  <2>4. QED  BY <2>1, <2>3 DEF FindingsAreKeyed
<1>3. CompletedRun(run) /\ CompletedIsFinished
  BY DEF CompletedRun, CompletedIsFinished
<1>4. StoredRowsFollow
  BY DEF StoredRowsFollow
<1>5. MappingInOrder
  BY DEF MappingInOrder, MappingPcs
<1>6. QED  BY <1>1, <1>2, <1>3, <1>4, <1>5 DEF EvaluationInvariant

(* The pair that is evaluated has no finding yet: its row is one more.       *)
LEMMA EvaluateAssetKeeps ==
  ASSUME EvaluationInvariant, EvaluateAsset
  PROVE  EvaluationInvariant'
<1> USE DEF EvaluationInvariant
<1>1. PICK m \in worker.todo, result \in Results :
        /\ UpsertFinding(Finding(m, result))
        /\ Then([worker EXCEPT !.todo = @ \ {m}, !.count = @ + 1,
                               !.fails = @ + CountsAsFail(result)])
  BY DEF EvaluateAsset
<1>2. worker.pc = "evaluate" /\ UNCHANGED <<scanStatus, run, controlResults, scanScores>>
  BY DEF EvaluateAsset
<1> DEFINE x == Finding(m, result)
<1>3. m \in Matches /\ m = <<m[1], m[2]>>
  BY <1>1, CatalogAssumption DEF EvaluationTypeOK, Workers
<1>4. /\ x.policy = m[1] /\ x.resource = m[2] /\ x.result = result /\ Key(x) = m
      /\ x \in AllFindings
  BY <1>3 DEF Finding, Key, AllFindings
<1>5. findings' = {y \in findings : ~ SameKey(x, y)} \cup {x}
  BY <1>1 DEF UpsertFinding
<1> HIDE DEF x
<1>6. \A y \in findings : ~ SameKey(x, y) /\ ~ SameKey(y, x)
  <2>1. \A y \in findings : Key(y) \in Evaluated
    BY DEF Evaluated
  <2>2. m \notin Evaluated
    BY <1>1, <1>2 DEF FindingsAreKeyed
  <2>3. QED  BY <1>4, <2>1, <2>2 DEF SameKey, Key
<1>7. findings' = findings \cup {x} /\ x \notin findings
  BY <1>5, <1>6 DEF SameKey
<1>8. IsFiniteSet(findings) /\ Cardinality(findings) \in Nat
  BY FS_CardinalityType DEF FindingsAreKeyed
<1>9. IsFiniteSet(findings') /\ Cardinality(findings') = Cardinality(findings) + 1
  BY <1>7, <1>8, FS_AddElement
<1>10. Cardinality(OfResult(findings, "fail")') = Cardinality(OfResult(findings, "fail")) + CountsAsFail(result)
  <2>1. IsFiniteSet(OfResult(findings, "fail")) /\ Cardinality(OfResult(findings, "fail")) \in Nat
    BY <1>8, SomeAreFinite
  <2>2. CASE result = "fail"
    <3>1. OfResult(findings, "fail")' = OfResult(findings, "fail") \cup {x} /\ x \notin OfResult(findings, "fail")
      BY <1>4, <1>7, <2>2 DEF OfResult
    <3>2. QED  BY <2>1, <2>2, <3>1, FS_AddElement DEF CountsAsFail
  <2>3. CASE result # "fail"
    <3>1. OfResult(findings, "fail")' = OfResult(findings, "fail")
      BY <1>4, <1>7, <2>3 DEF OfResult
    <3>2. QED  BY <2>1, <2>3, <3>1 DEF CountsAsFail
  <2>4. QED  BY <2>2, <2>3
<1>11. Evaluated' = Evaluated \cup {m}
  BY <1>4, <1>7 DEF Evaluated
<1>12. \A y, z \in findings' : SameKey(y, z) => y = z
  BY <1>6, <1>7 DEF FindingsAreKeyed
<1>13. /\ run.status = "running" /\ scanStatus # "completed"
       /\ \A c \in Controls : controlResults[c] = NoRow
       /\ \A f \in Frameworks : scanScores[f] = NoRow
       /\ worker.framework = NoFramework /\ worker.frameworks = Frameworks
  BY <1>2 DEF FindingsAreKeyed, MappingInOrder
<1>14. CompletedRun(run)' /\ CompletedIsFinished' /\ StoredRowsFollow'
  BY <1>2, <1>13 DEF CompletedRun, CompletedIsFinished, StoredRowsFollow
<1>15. CASE worker' = Failing
  <2>1. worker' \in Workers /\ worker'.pc = "fail_run"
    BY <1>15, FailingWorker
  <2>2. EvaluationTypeOK'
    BY <1>2, <1>4, <1>7, <2>1 DEF EvaluationTypeOK
  <2>3. FindingsAreKeyed' /\ MappingInOrder'
    BY <1>9, <1>12, <2>1 DEF FindingsAreKeyed, MappingInOrder, MappingPcs
  <2>4. QED  BY <1>14, <2>2, <2>3
<1>16. CASE worker' = [worker EXCEPT !.todo = @ \ {m}, !.count = @ + 1, !.fails = @ + CountsAsFail(result)]
  <2>1. worker \in Workers
    BY DEF EvaluationTypeOK
  <2>2. CountsAsFail(result) \in Nat
    BY DEF CountsAsFail
  <2>3. /\ worker' \in Workers
        /\ worker'.pc = "evaluate" /\ worker'.todo = worker.todo \ {m}
        /\ worker'.count = worker.count + 1 /\ worker'.fails = worker.fails + CountsAsFail(result)
        /\ worker'.framework = worker.framework /\ worker'.frameworks = worker.frameworks
    <3>1. /\ worker.todo \ {m} \in SUBSET Matches /\ worker.count + 1 \in Nat
          /\ worker.fails + CountsAsFail(result) \in Nat
      BY <2>1, <2>2 DEF Workers
    <3>2. QED  BY <1>2, <1>16, <2>1, <3>1 DEF Workers
  <2>4. EvaluationTypeOK'
    BY <1>2, <1>4, <1>7, <2>3 DEF EvaluationTypeOK
  <2>5. Evaluated' = Matches \ worker'.todo
    BY <1>1, <1>2, <1>3, <1>11, <2>3 DEF FindingsAreKeyed
  <2>6. worker'.count = Cardinality(findings') /\ worker'.fails = Cardinality(OfResult(findings, "fail")')
    BY <1>2, <1>9, <1>10, <2>3 DEF FindingsAreKeyed
  <2>7. FindingsAreKeyed'
    BY <1>2, <1>9, <1>12, <1>13, <2>5, <2>6 DEF FindingsAreKeyed
  <2>8. MappingInOrder'
    BY <1>13, <2>3 DEF MappingInOrder, MappingPcs
  <2>9. QED  BY <1>14, <2>4, <2>7, <2>8
<1>17. QED  BY <1>1, <1>15, <1>16 DEF Then

(* The steps that leave the findings alone: what the findings, the stored    *)
(* rows and the worker say of each other is all there is to show.            *)
LEMMA FindingsStay ==
  ASSUME EvaluationInvariant, findings' = findings, worker' \in Workers,
         worker'.pc # "evaluate",
         DOMAIN controlResults' = Controls, DOMAIN scanScores' = Frameworks,
         controlResults' = [c \in Controls |-> controlResults'[c]],
         scanScores' = [f \in Frameworks |-> scanScores'[f]],
         CompletedRun(run)', StoredRowsFollow', MappingInOrder', CompletedIsFinished'
  PROVE  EvaluationInvariant'
<1> USE DEF EvaluationInvariant
<1>1. EvaluationTypeOK'
  BY DEF EvaluationTypeOK
<1>2. FindingsAreKeyed'
  BY DEF FindingsAreKeyed
<1>3. QED  BY <1>1, <1>2

(* The worker gives up: what is stored stays.                                *)
LEMMA FailingKeeps ==
  ASSUME EvaluationInvariant, UNCHANGED <<findings, controlResults, scanScores>>,
         worker' \in Workers, worker'.pc \in {"fail_run", "fail_scan", "done"},
         CompletedRun(run)', CompletedIsFinished'
  PROVE  EvaluationInvariant'
<1> USE DEF EvaluationInvariant
<1>1. StoredRowsFollow'
  BY DEF StoredRowsFollow
<1>2. MappingInOrder'
  BY DEF MappingInOrder, MappingPcs
<1>3. QED  BY <1>1, <1>2, FindingsStay DEF EvaluationTypeOK

LEMMA FinishedStays ==
  ASSUME UNCHANGED <<findings, scanScores>>, worker'.pc # "evaluate", Finished
  PROVE  Finished'
  BY DEF Finished, Evaluated

LEMMA CompleteRunKeeps ==
  ASSUME EvaluationInvariant, CompleteRun
  PROVE  EvaluationInvariant'
<1> USE DEF EvaluationInvariant
<1>1. /\ worker.pc = "evaluate" /\ worker.todo = {}
      /\ run' = [status |-> "completed", findings |-> worker.count, fails |-> worker.fails]
      /\ UNCHANGED <<scanStatus, findings, controlResults, scanScores>>
      /\ worker' = [worker EXCEPT !.pc = "next_framework"] \/ worker' = Failing
  BY DEF CompleteRun, Then
<1>2. /\ Evaluated = Matches
      /\ worker.count = Cardinality(findings) /\ worker.fails = Cardinality(OfResult(findings, "fail"))
      /\ scanStatus # "completed" /\ worker.framework = NoFramework
  BY <1>1 DEF FindingsAreKeyed, MappingInOrder
<1>3. worker'.pc \in {"next_framework", "fail_run"} => CompletedRun(run)'
  BY <1>1, <1>2 DEF CompletedRun, OfResult
<1>4. CompletedIsFinished'
  BY <1>1, <1>2 DEF CompletedIsFinished
<1>5. CASE worker' = Failing
  BY <1>1, <1>3, <1>4, <1>5, FailingWorker, FailingKeeps
<1>6. CASE worker' = [worker EXCEPT !.pc = "next_framework"]
  <2>1. /\ worker' \in Workers /\ worker'.pc = "next_framework"
        /\ worker'.frameworks = worker.frameworks /\ worker'.framework = NoFramework
    BY <1>2, <1>6 DEF EvaluationTypeOK, Workers, WorkerPcs
  <2>2. StoredRowsFollow'
    BY <1>1 DEF StoredRowsFollow
  <2>3. worker.frameworks = Frameworks
    BY <1>1 DEF MappingInOrder
  <2>4. MappingInOrder'
    BY <1>1, <1>2, <2>1, <2>3 DEF MappingInOrder, Evaluated
  <2>5. QED  BY <1>1, <1>3, <1>4, <2>1, <2>2, <2>4, FindingsStay DEF EvaluationTypeOK
<1>7. QED  BY <1>1, <1>5, <1>6

LEMMA ReadFindingsKeeps ==
  ASSUME EvaluationInvariant, ReadFindings
  PROVE  EvaluationInvariant'
<1> USE DEF EvaluationInvariant, tables
<1>1. PICK f \in worker.frameworks :
        worker' = [worker EXCEPT !.pc = "controls", !.framework = f,
                     !.frameworks = @ \ {f}, !.controls = ControlsOf(f), !.read = findings]
  BY DEF ReadFindings
<1>2. worker.pc = "next_framework" /\ UNCHANGED tables
  BY DEF ReadFindings
<1>3. f \in Frameworks /\ ControlsOf(f) \subseteq Controls
  BY <1>1, FrameworkFacts DEF EvaluationTypeOK, Workers
<1>4. /\ worker' \in Workers
      /\ worker'.pc = "controls" /\ worker'.framework = f
      /\ worker'.frameworks = worker.frameworks \ {f}
      /\ worker'.controls = ControlsOf(f) /\ worker'.read = findings
  BY <1>1, <1>3 DEF EvaluationTypeOK, Workers, WorkerPcs
<1>5. CompletedRun(run)' /\ StoredRowsFollow' /\ CompletedIsFinished'
  BY <1>2, <1>4 DEF CompletedRun, StoredRowsFollow, CompletedIsFinished, Finished, Evaluated
<1>6. worker.framework = NoFramework /\ Evaluated = Matches
      /\ \A g \in Frameworks \ worker.frameworks : scanScores[g] # NoRow
  BY <1>2, FrameworkFacts DEF MappingInOrder, MappingPcs
<1>7. MappingInOrder'
  BY <1>2, <1>3, <1>4, <1>6 DEF MappingInOrder, Evaluated
<1>8. QED  BY <1>2, <1>4, <1>5, <1>7, FindingsStay DEF EvaluationTypeOK

LEMMA UpsertControlResultKeeps ==
  ASSUME EvaluationInvariant, UpsertControlResult
  PROVE  EvaluationInvariant'
<1> USE DEF EvaluationInvariant
<1>1. PICK c \in worker.controls :
        /\ controlResults' = [controlResults EXCEPT ![c] = AggregateControl(c, worker.read)]
        /\ worker' = [worker EXCEPT !.controls = @ \ {c}] \/ worker' = Failing
  BY DEF UpsertControlResult, Then
<1>2. worker.pc = "controls" /\ UNCHANGED <<scanStatus, run, findings, scanScores>>
  BY DEF UpsertControlResult
<1>3. worker.read = findings /\ worker.framework \in Frameworks /\ c \in Controls
  BY <1>1, <1>2 DEF MappingInOrder, EvaluationTypeOK, Workers
<1>4. /\ DOMAIN controlResults' = Controls
      /\ controlResults' = [d \in Controls |-> controlResults'[d]]
      /\ controlResults'[c] = AggregateControl(c, findings)
      /\ \A d \in Controls \ {c} : controlResults'[d] = controlResults[d]
  BY <1>1, <1>3 DEF EvaluationTypeOK
<1>5. \A d \in Controls : controlResults[d] # NoRow => controlResults'[d] # NoRow
  BY <1>4, StoredIsRow
<1>6. StoredRowsFollow'
  BY <1>2, <1>4, <1>5, FrameworkFacts DEF StoredRowsFollow
<1>7. worker'.pc # "evaluate" => CompletedRun(run)' /\ CompletedIsFinished'
  BY <1>2 DEF CompletedRun, CompletedIsFinished, Finished, Evaluated
<1>8. CASE worker' = Failing
  <2>1. worker' \in Workers /\ worker'.pc = "fail_run"
    BY <1>8, FailingWorker
  <2>2. MappingInOrder'
    BY <2>1 DEF MappingInOrder, MappingPcs
  <2>3. QED  BY <1>2, <1>4, <1>6, <1>7, <2>1, <2>2, FindingsStay DEF EvaluationTypeOK
<1>9. CASE worker' = [worker EXCEPT !.controls = @ \ {c}]
  <2>1. /\ worker' \in Workers
        /\ worker'.pc = "controls" /\ worker'.framework = worker.framework
        /\ worker'.frameworks = worker.frameworks
        /\ worker'.controls = worker.controls \ {c} /\ worker'.read = worker.read
    BY <1>2, <1>9 DEF EvaluationTypeOK, Workers
  <2>2. controlResults'[c] # NoRow
    BY <1>4, StoredIsRow
  <2>3. \A d \in ControlsOf(worker.framework) \ worker'.controls : controlResults'[d] # NoRow
    BY <1>2, <1>5, <2>1, <2>2, FrameworkFacts DEF MappingInOrder
  <2>4. MappingInOrder'
    BY <1>2, <2>1, <2>3 DEF MappingInOrder, MappingPcs, Evaluated
  <2>5. QED  BY <1>2, <1>4, <1>6, <1>7, <2>1, <2>4, FindingsStay DEF EvaluationTypeOK
<1>10. QED  BY <1>1, <1>8, <1>9

(* The score is written when every control of the framework has its row.     *)
LEMMA UpsertScanScoreKeeps ==
  ASSUME EvaluationInvariant, UpsertScanScore
  PROVE  EvaluationInvariant'
<1> DEFINE f == worker.framework
<1> USE DEF EvaluationInvariant
<1>1. /\ worker.pc = "controls" /\ worker.controls = {}
      /\ scanScores' = [scanScores EXCEPT ![f] = ComputeScore(f, worker.read)]
      /\ worker' = AfterFramework \/ worker' = Failing
      /\ UNCHANGED <<scanStatus, run, findings, controlResults>>
  BY DEF UpsertScanScore, Then, StoreScore
<1>2. /\ worker.read = findings /\ f \in Frameworks /\ Evaluated = Matches
      /\ \A c \in ControlsOf(f) : controlResults[c] # NoRow
      /\ \A g \in Frameworks \ worker.frameworks : g # f => scanScores[g] # NoRow
  BY <1>1 DEF MappingInOrder, MappingPcs
<1> HIDE DEF f
<1>3. /\ DOMAIN scanScores' = Frameworks
      /\ scanScores' = [g \in Frameworks |-> scanScores'[g]]
      /\ scanScores'[f] = ComputeScore(f, findings)
      /\ \A g \in Frameworks \ {f} : scanScores'[g] = scanScores[g]
  BY <1>1, <1>2 DEF EvaluationTypeOK
<1>4. \A g \in Frameworks : scanScores[g] # NoRow \/ g = f => scanScores'[g] # NoRow
  BY <1>3, StoredIsRow
<1>5. StoredRowsFollow'
  BY <1>1, <1>2, <1>3 DEF StoredRowsFollow
<1>6. worker'.pc # "evaluate" => CompletedRun(run)' /\ CompletedIsFinished'
  BY <1>1, <1>4 DEF CompletedRun, CompletedIsFinished, Finished, Evaluated
<1>7. CASE worker' = Failing
  <2>1. worker' \in Workers /\ worker'.pc = "fail_run"
    BY <1>7, FailingWorker
  <2>2. MappingInOrder'
    BY <2>1 DEF MappingInOrder, MappingPcs
  <2>3. QED  BY <1>1, <1>3, <1>5, <1>6, <2>1, <2>2, FindingsStay DEF EvaluationTypeOK
<1>8. CASE worker' = AfterFramework
  <2>1. /\ worker' \in Workers
        /\ worker'.pc = (IF worker.frameworks = {} THEN "set_final" ELSE "next_framework")
        /\ worker'.framework = NoFramework /\ worker'.frameworks = worker.frameworks
    BY <1>8 DEF AfterFramework, EvaluationTypeOK, Workers, WorkerPcs
  <2>2. \A g \in Frameworks \ worker.frameworks : scanScores'[g] # NoRow
    BY <1>2, <1>4
  <2>3. MappingInOrder'
    BY <1>1, <1>2, <2>1, <2>2 DEF MappingInOrder, MappingPcs, Evaluated
  <2>4. QED  BY <1>1, <1>3, <1>5, <1>6, <2>1, <2>3, FindingsStay DEF EvaluationTypeOK
<1>9. QED  BY <1>1, <1>7, <1>8

(* The status is completed when every framework has its score.               *)
LEMMA SetFinalKeeps ==
  ASSUME EvaluationInvariant, SetFinal
  PROVE  EvaluationInvariant'
<1> USE DEF EvaluationInvariant
<1>1. /\ worker.pc = "set_final"
      /\ worker' = [worker EXCEPT !.pc = "timeline"] \/ worker' = Failing
      /\ UNCHANGED <<run, findings, controlResults, scanScores>>
  BY DEF SetFinal, Then
<1>2. /\ Evaluated = Matches /\ worker.framework = NoFramework /\ worker.frameworks = {}
      /\ \A f \in Frameworks : scanScores[f] # NoRow
  BY <1>1, FrameworkFacts DEF MappingInOrder, MappingPcs
<1>3. worker'.pc # "evaluate" => CompletedRun(run)' /\ Finished'
  BY <1>1, <1>2 DEF CompletedRun, Finished, Evaluated
<1>4. CASE worker' = Failing
  BY <1>1, <1>3, <1>4, FailingWorker, FailingKeeps DEF CompletedIsFinished
<1>5. CASE worker' = [worker EXCEPT !.pc = "timeline"]
  <2>1. /\ worker' \in Workers /\ worker'.pc = "timeline"
        /\ worker'.framework = NoFramework /\ worker'.frameworks = {}
    BY <1>2, <1>5 DEF EvaluationTypeOK, Workers, WorkerPcs
  <2>2. StoredRowsFollow'
    BY <1>1 DEF StoredRowsFollow
  <2>3. MappingInOrder'
    BY <1>1, <1>2, <2>1 DEF MappingInOrder, MappingPcs, Evaluated
  <2>4. QED  BY <1>1, <1>3, <2>1, <2>2, <2>3, FindingsStay DEF EvaluationTypeOK, CompletedIsFinished
<1>6. QED  BY <1>1, <1>4, <1>5

(* The steps after the last write, and the two of the except branch.         *)
LEMMA LastStepsKeep ==
  ASSUME EvaluationInvariant, AppendTimeline \/ StatementRaises \/ FailRun \/ FailScan
  PROVE  EvaluationInvariant'
<1> USE DEF EvaluationInvariant, tables
<1>1. /\ UNCHANGED <<findings, controlResults, scanScores>>
      /\ worker' \in Workers /\ worker'.pc \in {"fail_run", "fail_scan", "done"}
  <2>1. CASE StatementRaises
    BY <2>1, FailingWorker DEF StatementRaises
  <2>2. CASE AppendTimeline \/ FailRun \/ FailScan
    BY <2>2 DEF AppendTimeline, FailRun, FailScan, EvaluationTypeOK, Workers, WorkerPcs
  <2>3. QED  BY <2>1, <2>2
<1>2. run' = run \/ run'.status = "failed"
  BY DEF AppendTimeline, StatementRaises, FailRun, FailScan
<1>3. CompletedRun(run)'
  BY <1>1, <1>2 DEF CompletedRun
<1>4. scanStatus' = scanStatus \/ scanStatus' = "failed"
  BY DEF AppendTimeline, StatementRaises, FailRun, FailScan
<1>5. CompletedIsFinished'
  BY <1>1, <1>4, FinishedStays DEF CompletedIsFinished
<1>6. QED  BY <1>1, <1>3, <1>5, FailingKeeps

LEMMA WorkerKeeps ==
  ASSUME EvaluationInvariant, WorkerStep
  PROVE  EvaluationInvariant'
  BY EvaluateAssetKeeps, CompleteRunKeeps, ReadFindingsKeeps, UpsertControlResultKeeps,
     UpsertScanScoreKeeps, SetFinalKeeps, LastStepsKeep DEF WorkerStep

-------------------------------------------------------------------------------
(* The reader.                                                               *)

(* Counting the values of an injective function counts its arguments.        *)
LEMMA CountByBijection ==
  ASSUME NEW S, IsFiniteSet(S), NEW T, NEW f \in [S -> T],
         \A x, y \in S : f[x] = f[y] => x = y,
         \A t \in T : \E x \in S : f[x] = t
  PROVE  IsFiniteSet(T) /\ Cardinality(T) = Cardinality(S)
<1>1. f \in Bijection(S, T)
  BY DEF Bijection, Injection, Surjection, IsInjective
<1>2. ExistsBijection(S, T)
  BY <1>1 DEF ExistsBijection
<1>3. QED  BY <1>2, FS_Bijection

(* There are as many findings as pairs evaluated.                            *)
LEMMA AsManyFindings ==
  ASSUME FindingsAreKeyed, Evaluated = Matches
  PROVE  IsFiniteSet(findings) /\ Cardinality(findings) = Cardinality(Matches)
<1> DEFINE key == [x \in findings |-> Key(x)]
<1>1. key \in [findings -> Matches]
  BY DEF Evaluated
<1>2. \A x, y \in findings : key[x] = key[y] => x = y
  BY DEF FindingsAreKeyed, SameKey, Key
<1>3. \A m \in Matches : \E x \in findings : key[x] = m
  BY DEF Evaluated
<1> HIDE DEF key
<1>4. QED  BY <1>1, <1>2, <1>3, CountByBijection DEF FindingsAreKeyed

(* A page that may hold all the rows holds all of them.                      *)
LEMMA PageIsWhole ==
  ASSUME NEW rows, IsFiniteSet(rows), Cardinality(rows) <= FindingsLimit,
         NEW page \in Pages(rows, FindingsLimit)
  PROVE  page = rows
<1>1. page \in SUBSET rows /\ Cardinality(page) = Cardinality(rows)
  <2>1. Cardinality(rows) \in Nat /\ FindingsLimit \in Nat
    BY FS_CardinalityType, ReportAssumption
  <2>2. Cardinality(page) = (IF Cardinality(rows) < FindingsLimit THEN Cardinality(rows) ELSE FindingsLimit)
    BY DEF Pages
  <2>3. QED  BY <2>1, <2>2 DEF Pages
<1>2. QED  BY <1>1, FS_Subset

(* What any statement of the worker leaves as it was.                        *)
LEMMA WorkerIsMonotone ==
  ASSUME EvaluationInvariant, WorkerStep
  PROVE  /\ worker.pc # "evaluate" => findings' = findings /\ worker'.pc # "evaluate"
         /\ \A f \in Frameworks : scanScores[f] # NoRow => scanScores'[f] # NoRow
<1> USE DEF tables
<1>1. worker \in Workers /\ Failing.pc # "evaluate"
  BY FailingWorker DEF EvaluationInvariant, EvaluationTypeOK
<1>2. worker.pc # "evaluate" => findings' = findings
  BY DEF WorkerStep, EvaluateAsset, CompleteRun, ReadFindings, UpsertControlResult, UpsertScanScore,
     SetFinal, AppendTimeline, StatementRaises, FailRun, FailScan
<1>3. worker.pc # "evaluate" => worker'.pc # "evaluate"
  BY <1>1 DEF WorkerStep, EvaluateAsset, CompleteRun, ReadFindings, UpsertControlResult, UpsertScanScore,
     SetFinal, AppendTimeline, StatementRaises, FailRun, FailScan, Then, AfterFramework, Workers
<1>4. \A f \in Frameworks : scanScores[f] # NoRow => scanScores'[f] # NoRow
  <2>1. CASE UpsertScanScore
    <3>1. scanScores' = [scanScores EXCEPT ![worker.framework] = ComputeScore(worker.framework, worker.read)]
      BY <2>1 DEF UpsertScanScore, StoreScore
    <3>2. QED  BY <3>1, StoredIsRow DEF EvaluationInvariant, EvaluationTypeOK
  <2>2. CASE ~ UpsertScanScore
    <3>1. scanScores' = scanScores
      BY <2>2 DEF WorkerStep, EvaluateAsset, CompleteRun, ReadFindings, UpsertControlResult,
         SetFinal, AppendTimeline, StatementRaises, FailRun, FailScan
    <3>2. QED  BY <3>1
  <2>3. QED  BY <2>1, <2>2
<1>5. QED  BY <1>2, <1>3, <1>4

(* What a report has read holds while the worker goes on.                    *)
LEMMA ReportSurvivesWorker ==
  ASSUME ReportInvariant, WorkerStep, UNCHANGED reader
  PROVE  ReportInvariant'
<1> USE DEF ReportInvariant
<1>1. EvaluationInvariant'
  BY WorkerKeeps
<1>2. /\ worker.pc # "evaluate" => findings' = findings /\ worker'.pc # "evaluate"
      /\ \A f \in Frameworks : scanScores[f] # NoRow => scanScores'[f] # NoRow
      /\ worker.pc = "evaluate" => \A f \in Frameworks : scanScores[f] = NoRow
  BY WorkerIsMonotone DEF EvaluationInvariant, FindingsAreKeyed
<1>3. Finished => Finished' /\ findings' = findings
  BY <1>2 DEF Finished, Evaluated
<1>4. ReaderFits' /\ (MayRead' <=> MayRead)
  BY DEF ReaderFits, MayRead
<1>5. reader.score # NoRow => reader.framework \in Frameworks
  BY DEF ReaderFits, NoRequest
<1>6. MatrixRead'
  BY <1>2, <1>5 DEF MatrixRead
<1>7. SeenFinished'
  BY <1>3 DEF SeenFinished
<1>8. RowsRead'
  BY <1>3, <1>4 DEF RowsRead, SeenFinished
<1>9. CoverageRead'
  BY <1>2 DEF CoverageRead, CompletedRun
<1>10. QED  BY <1>1, <1>4, <1>6, <1>7, <1>8, <1>9

LEMMA TablesKeepEvaluation ==
  ASSUME EvaluationInvariant, UNCHANGED <<tables, worker>>
  PROVE  EvaluationInvariant' /\ (Finished <=> Finished')
  BY DEF tables, EvaluationInvariant, EvaluationTypeOK, FindingsAreKeyed, CompletedRun, StoredRowsFollow,
         MappingInOrder, CompletedIsFinished, Finished, Evaluated

(* A request starts with nothing read but the status of the scan.            *)
LEMMA RequestKeeps ==
  ASSUME ReportInvariant, NEW kind \in ReportKinds, NEW customer \in BOOLEAN, Request(kind, customer)
  PROVE  ReportInvariant'
<1> USE DEF ReportInvariant
<1>1. EvaluationInvariant' /\ (Finished <=> Finished') /\ UNCHANGED <<tables, worker>>
  BY TablesKeepEvaluation DEF Request
<1>2. PICK f \in Frameworks :
        reader' = [NoRequest EXCEPT !.kind = kind, !.customer = customer, !.seen = scanStatus,
                    !.framework = f,
                    !.pc = CASE kind = "matrix" -> "framework"
                             [] kind \in {"risk", "priorities"} -> "rows"
                             [] kind = "coverage" -> "run"]
  BY DEF Request
<1> DEFINE pc == CASE kind = "matrix" -> "framework"
                   [] kind \in {"risk", "priorities"} -> "rows"
                   [] kind = "coverage" -> "run"
<1>3. /\ kind = "matrix" => pc = "framework"
      /\ kind \in {"risk", "priorities"} => pc = "rows"
      /\ kind = "coverage" => pc = "run"
      /\ kind \in {"matrix", "risk", "priorities", "coverage"}
  BY DEF ReportKinds
<1>4. reader' = [pc |-> pc, kind |-> kind, customer |-> customer,
                 seen |-> scanStatus, rows |-> {}, framework |-> f,
                 score |-> NoRow, controls |-> {}, run |-> "none", total |-> 0]
  BY <1>2 DEF NoRequest
<1> HIDE DEF pc
<1>5. /\ reader'.pc = pc /\ reader'.kind = kind /\ reader'.seen = scanStatus
      /\ reader'.framework = f /\ reader'.score = NoRow
  BY <1>4
<1>6. ReaderFits'
  <2>1. reader' = [pc |-> reader'.pc, kind |-> reader'.kind, customer |-> reader'.customer,
                   seen |-> reader'.seen, rows |-> reader'.rows,
                   framework |-> reader'.framework, score |-> reader'.score, controls |-> reader'.controls,
                   run |-> reader'.run, total |-> reader'.total]
    BY <1>4
  <2>2. QED  BY <1>3, <1>5, <2>1 DEF ReaderFits
<1>7. MatrixRead'
  BY <1>5 DEF MatrixRead
<1>8. SeenFinished'
  BY <1>1, <1>5 DEF SeenFinished, EvaluationInvariant, CompletedIsFinished
<1>9. RowsRead'
  BY <1>3, <1>5 DEF RowsRead
<1>10. CoverageRead'
  BY <1>3, <1>5 DEF CoverageRead
<1>11. QED  BY <1>1, <1>6, <1>7, <1>8, <1>9, <1>10

LEMMA ReadRowsKeeps ==
  ASSUME ReportInvariant, ReadRows
  PROVE  ReportInvariant'
<1> USE DEF ReportInvariant
<1>1. EvaluationInvariant' /\ (Finished <=> Finished') /\ UNCHANGED <<tables, worker>>
  BY TablesKeepEvaluation DEF ReadRows
<1> DEFINE listed == IF reader.kind = "priorities" THEN OfResult(findings, "fail") ELSE findings
           pc == IF reader.kind = "priorities" THEN "done" ELSE "framework"
<1>2. PICK page \in Pages(listed, FindingsLimit) : reader' = [reader EXCEPT !.rows = page, !.pc = pc]
  BY DEF ReadRows
<1>3. reader.pc = "rows" /\ reader.kind \in {"risk", "priorities"} /\ reader.score = NoRow
      /\ reader.framework \in Frameworks
  BY DEF ReadRows, ReaderFits
<1>4. /\ reader' = [pc |-> pc, kind |-> reader.kind, customer |-> reader.customer,
                    seen |-> reader.seen, rows |-> page,
                    framework |-> reader.framework, score |-> reader.score, controls |-> reader.controls,
                    run |-> reader.run, total |-> reader.total]
  BY <1>2 DEF ReaderFits
<1>5. (reader.kind = "priorities" /\ pc = "done") \/ (reader.kind = "risk" /\ pc = "framework")
  <2>1. CASE reader.kind = "priorities"
    BY <2>1
  <2>2. CASE reader.kind = "risk"
    BY <2>2
  <2>3. QED  BY <1>3, <2>1, <2>2
<1>6. Finished /\ Cardinality(Matches) <= FindingsLimit => page = listed
  <2>1. SUFFICES ASSUME Finished, Cardinality(Matches) <= FindingsLimit
                 PROVE  IsFiniteSet(listed) /\ Cardinality(listed) <= FindingsLimit
    BY <1>2, PageIsWhole
  <2>2. IsFiniteSet(findings) /\ Cardinality(findings) = Cardinality(Matches)
    BY <2>1, AsManyFindings DEF EvaluationInvariant, Finished
  <2>3. FindingsLimit \in Nat
    BY ReportAssumption
  <2>4. QED  BY <2>1, <2>2, <2>3, SomeAreFinite
<1> HIDE DEF pc, listed
<1>7. /\ reader'.pc = pc /\ reader'.kind = reader.kind /\ reader'.seen = reader.seen
      /\ reader'.rows = page /\ reader'.framework = reader.framework /\ reader'.score = NoRow
  BY <1>3, <1>4
<1>8. ReaderFits'
  <2>1. reader' = [pc |-> reader'.pc, kind |-> reader'.kind, customer |-> reader'.customer,
                   seen |-> reader'.seen, rows |-> reader'.rows,
                   framework |-> reader'.framework, score |-> reader'.score, controls |-> reader'.controls,
                   run |-> reader'.run, total |-> reader'.total]
    BY <1>4
  <2>2. QED  BY <1>3, <1>5, <1>7, <2>1 DEF ReaderFits
<1>9. MatrixRead' /\ SeenFinished' /\ CoverageRead'
  BY <1>1, <1>3, <1>7 DEF MatrixRead, SeenFinished, CoverageRead
<1>10. RowsRead'
  BY <1>1, <1>5, <1>6, <1>7 DEF RowsRead, SeenFinished, listed, tables, OfResult
<1>11. QED  BY <1>1, <1>8, <1>9, <1>10

(* A framework that may be read is looked up; the others have no score.      *)
LEMMA ReadFrameworkKeeps ==
  ASSUME ReportInvariant, ReadFramework
  PROVE  ReportInvariant'
<1> USE DEF ReportInvariant
<1>1. EvaluationInvariant' /\ (Finished <=> Finished') /\ UNCHANGED <<tables, worker>>
  BY TablesKeepEvaluation DEF ReadFramework
<1> DEFINE pc == IF MayRead THEN "score" ELSE WithoutScore
<1>2. /\ reader.pc = "framework" /\ reader.kind \in {"risk", "matrix"} /\ reader.score = NoRow
      /\ reader.framework \in Frameworks
  BY DEF ReadFramework, ReaderFits
<1>3. reader' = [pc |-> pc, kind |-> reader.kind, customer |-> reader.customer,
                 seen |-> reader.seen, rows |-> reader.rows,
                 framework |-> reader.framework, score |-> reader.score, controls |-> reader.controls,
                 run |-> reader.run, total |-> reader.total]
  BY DEF ReadFramework, ReaderFits
<1>4. /\ MayRead => pc = "score"
      /\ ~MayRead => (reader.kind = "risk" /\ pc = "total") \/ (reader.kind = "matrix" /\ pc = "done")
  BY <1>2 DEF WithoutScore
<1>5. UNCHANGED <<findings, scanScores>>
  BY <1>1 DEF tables
<1> HIDE DEF pc
<1>6. /\ reader'.pc = pc /\ reader'.kind = reader.kind /\ reader'.customer = reader.customer
      /\ reader'.seen = reader.seen /\ reader'.rows = reader.rows
      /\ reader'.framework = reader.framework /\ reader'.score = NoRow
  BY <1>2, <1>3
<1>7. MayRead' <=> MayRead
  BY <1>6 DEF MayRead
<1>8. ReaderFits'
  <2>1. reader' = [pc |-> reader'.pc, kind |-> reader'.kind, customer |-> reader'.customer,
                   seen |-> reader'.seen, rows |-> reader'.rows,
                   framework |-> reader'.framework, score |-> reader'.score, controls |-> reader'.controls,
                   run |-> reader'.run, total |-> reader'.total]
    BY <1>3
  <2>2. QED  BY <1>2, <1>4, <1>6, <1>7, <2>1 DEF ReaderFits
<1>9. MatrixRead' /\ SeenFinished' /\ CoverageRead'
  BY <1>1, <1>2, <1>6 DEF MatrixRead, SeenFinished, CoverageRead
<1>10. RowsRead'
  <2>1. reader'.pc \in {"controls", "total", "done"} => ~MayRead
    BY <1>4, <1>6
  <2>2. reader.kind # "priorities" /\ (reader.kind = "risk" => pc # "done")
    BY <1>2, <1>4
  <2>3. QED  BY <1>2, <1>5, <1>6, <1>7, <2>1, <2>2 DEF RowsRead
<1>11. QED  BY <1>1, <1>8, <1>9, <1>10

LEMMA ReadScoreKeeps ==
  ASSUME ReportInvariant, ReadScore
  PROVE  ReportInvariant'
<1> USE DEF ReportInvariant
<1>1. EvaluationInvariant' /\ (Finished <=> Finished') /\ UNCHANGED <<tables, worker>>
  BY TablesKeepEvaluation DEF ReadScore
<1> DEFINE score == scanScores[reader.framework]
           pc == IF score # NoRow THEN "controls" ELSE WithoutScore
<1>2. /\ reader.pc = "score" /\ reader.kind \in {"risk", "matrix"} /\ reader.framework \in Frameworks
      /\ MayRead
  BY DEF ReadScore, ReaderFits
<1>3. reader' = [pc |-> pc, kind |-> reader.kind, customer |-> reader.customer,
                 seen |-> reader.seen, rows |-> reader.rows,
                 framework |-> reader.framework, score |-> score, controls |-> reader.controls,
                 run |-> reader.run, total |-> reader.total]
  BY DEF ReadScore, ReaderFits
<1>4. /\ score # NoRow => pc = "controls" /\ score = ComputeScore(reader.framework, findings)
      /\ score = NoRow => (reader.kind = "risk" /\ pc = "total") \/ (reader.kind = "matrix" /\ pc = "done")
      /\ Finished => score # NoRow
  BY <1>2 DEF EvaluationInvariant, StoredRowsFollow, Finished, WithoutScore
<1>5. UNCHANGED <<findings, scanScores>>
  BY <1>1 DEF tables
<1>6. scanScores'[reader.framework] = score
  BY <1>5
<1> HIDE DEF pc, score
<1>7. /\ reader'.pc = pc /\ reader'.kind = reader.kind /\ reader'.seen = reader.seen
      /\ reader'.rows = reader.rows /\ reader'.framework = reader.framework /\ reader'.score = score
  BY <1>3
<1>8. MayRead'
  BY <1>2, <1>3 DEF MayRead
<1>9. ReaderFits'
  <2>1. reader' = [pc |-> reader'.pc, kind |-> reader'.kind, customer |-> reader'.customer,
                   seen |-> reader'.seen, rows |-> reader'.rows,
                   framework |-> reader'.framework, score |-> reader'.score, controls |-> reader'.controls,
                   run |-> reader'.run, total |-> reader'.total]
    BY <1>3
  <2>2. QED  BY <1>2, <1>4, <1>7, <1>8, <2>1 DEF ReaderFits
<1>10. MatrixRead'
  BY <1>4, <1>5, <1>6, <1>7 DEF MatrixRead
<1>11. SeenFinished' /\ CoverageRead'
  BY <1>1, <1>2, <1>7 DEF SeenFinished, CoverageRead
<1>12. RowsRead'
  BY <1>2, <1>4, <1>5, <1>7, <1>8 DEF RowsRead, SeenFinished
<1>13. QED  BY <1>1, <1>9, <1>10, <1>11, <1>12

(* By the time a score is there, so are the rows of its controls.            *)
LEMMA ReadControlsKeeps ==
  ASSUME ReportInvariant, ReadControls
  PROVE  ReportInvariant'
<1> USE DEF ReportInvariant
<1>1. EvaluationInvariant' /\ (Finished <=> Finished') /\ UNCHANGED <<tables, worker>>
  BY TablesKeepEvaluation DEF ReadControls
<1> DEFINE f == reader.framework
           shown == {<<c, controlResults[c].status>> : c \in {d \in ControlsOf(f) : controlResults[d] # NoRow}}
           pc == IF reader.kind = "risk" THEN "total" ELSE "done"
<1>2. reader.pc = "controls" /\ reader.kind \in {"risk", "matrix"} /\ f \in Frameworks
  BY DEF ReadControls, ReaderFits
<1>3. reader' = [pc |-> pc, kind |-> reader.kind, customer |-> reader.customer,
                 seen |-> reader.seen, rows |-> reader.rows,
                 framework |-> f, score |-> reader.score, controls |-> shown,
                 run |-> reader.run, total |-> reader.total]
  BY DEF ReadControls, ReaderFits
<1>4. ASSUME scanScores[f] # NoRow
      PROVE  shown = {<<c, ControlStatus(c, findings)>> : c \in ControlsOf(f)}
  <2>1. \A c \in ControlsOf(f) : controlResults[c] # NoRow /\ c \in Controls
    BY <1>2, <1>4, FrameworkFacts DEF EvaluationInvariant, StoredRowsFollow
  <2>2. \A c \in ControlsOf(f) : controlResults[c] = AggregateControl(c, findings)
    BY <2>1 DEF EvaluationInvariant, StoredRowsFollow
  <2>3. ASSUME NEW c \in ControlsOf(f)
        PROVE  controlResults[c].status = ControlStatus(c, findings)
    <3>1. AggregateControl(c, findings).status = ControlStatus(c, findings)
      BY DEF AggregateControl
    <3>2. QED  BY <2>2, <3>1
  <2>4. QED  BY <2>1, <2>3
<1>5. UNCHANGED <<findings, scanScores>>
  BY <1>1 DEF tables
<1>6. pc \in {"total", "done"} /\ (pc = "total" => reader.kind = "risk") /\ (reader.kind = "risk" => pc = "total")
  OBVIOUS
<1> HIDE DEF pc, shown
<1>7. /\ reader'.pc = pc /\ reader'.kind = reader.kind /\ reader'.seen = reader.seen
      /\ reader'.rows = reader.rows /\ reader'.framework = f /\ reader'.score = reader.score
      /\ reader'.controls = shown /\ reader'.customer = reader.customer
  BY <1>3
<1>8. ReaderFits'
  <2>1. reader' = [pc |-> reader'.pc, kind |-> reader'.kind, customer |-> reader'.customer,
                   seen |-> reader'.seen, rows |-> reader'.rows,
                   framework |-> reader'.framework, score |-> reader'.score, controls |-> reader'.controls,
                   run |-> reader'.run, total |-> reader'.total]
    BY <1>3
  <2>2. QED  BY <1>2, <1>6, <1>7, <2>1 DEF ReaderFits
<1>9. MatrixRead'
  BY <1>4, <1>5, <1>7 DEF MatrixRead
<1>10. SeenFinished' /\ CoverageRead'
  BY <1>1, <1>2, <1>7 DEF SeenFinished, CoverageRead
<1>11. RowsRead'
  <2>1. MayRead' <=> MayRead
    BY <1>7 DEF MayRead
  <2>2. QED  BY <1>2, <1>5, <1>6, <1>7, <2>1 DEF RowsRead
<1>12. QED  BY <1>1, <1>8, <1>9, <1>10, <1>11

LEMMA CountAssetsKeeps ==
  ASSUME ReportInvariant, CountAssets
  PROVE  ReportInvariant'
<1> USE DEF ReportInvariant
<1>1. EvaluationInvariant' /\ (Finished <=> Finished') /\ UNCHANGED <<tables, worker>>
  BY TablesKeepEvaluation DEF CountAssets
<1>2. reader.pc = "total" /\ reader.kind = "risk" /\ reader.framework \in Frameworks
  BY DEF CountAssets, ReaderFits
<1>3. reader' = [pc |-> "done", kind |-> reader.kind, customer |-> reader.customer,
                 seen |-> reader.seen, rows |-> reader.rows,
                 framework |-> reader.framework, score |-> reader.score, controls |-> reader.controls,
                 run |-> reader.run, total |-> Cardinality(Inventory)]
  BY DEF CountAssets, ReaderFits
<1>4. UNCHANGED <<findings, scanScores>>
  BY <1>1 DEF tables
<1>5. /\ reader'.pc = "done" /\ reader'.kind = reader.kind /\ reader'.seen = reader.seen
      /\ reader'.rows = reader.rows /\ reader'.framework = reader.framework /\ reader'.score = reader.score
      /\ reader'.controls = reader.controls /\ reader'.total = Cardinality(Inventory)
      /\ reader'.customer = reader.customer
  BY <1>3
<1>6. ReaderFits'
  <2>1. reader' = [pc |-> reader'.pc, kind |-> reader'.kind, customer |-> reader'.customer,
                   seen |-> reader'.seen, rows |-> reader'.rows,
                   framework |-> reader'.framework, score |-> reader'.score, controls |-> reader'.controls,
                   run |-> reader'.run, total |-> reader'.total]
    BY <1>3
  <2>2. QED  BY <1>2, <1>5, <2>1 DEF ReaderFits
<1>7. MatrixRead' /\ SeenFinished' /\ CoverageRead'
  BY <1>1, <1>2, <1>4, <1>5 DEF MatrixRead, SeenFinished, CoverageRead
<1>8. RowsRead'
  <2>1. MayRead' <=> MayRead
    BY <1>5 DEF MayRead
  <2>2. QED  BY <1>2, <1>4, <1>5, <2>1 DEF RowsRead
<1>9. QED  BY <1>1, <1>6, <1>7, <1>8

LEMMA CoverageKeeps ==
  ASSUME ReportInvariant, ReadRun \/ ReadCounts
  PROVE  ReportInvariant'
<1> USE DEF ReportInvariant
<1>1. EvaluationInvariant' /\ (Finished <=> Finished') /\ UNCHANGED <<tables, worker>>
  BY TablesKeepEvaluation DEF ReadRun, ReadCounts
<1>2. /\ reader.pc \in {"run", "by_result"} /\ reader.kind = "coverage" /\ reader.score = NoRow
      /\ reader.framework \in Frameworks
  BY DEF ReadRun, ReadCounts, ReaderFits
<1>3. UNCHANGED <<findings, run, worker>>
  BY <1>1 DEF tables
<1>4. CASE ReadRun
  <2>1. reader' = [pc |-> "by_result", kind |-> reader.kind, customer |-> reader.customer,
                   seen |-> reader.seen, rows |-> reader.rows,
                   framework |-> reader.framework, score |-> reader.score, controls |-> reader.controls,
                   run |-> run, total |-> reader.total]
    BY <1>4 DEF ReadRun, ReaderFits
  <2>2. /\ reader'.pc = "by_result" /\ reader'.kind = "coverage" /\ reader'.seen = reader.seen
        /\ reader'.framework = reader.framework /\ reader'.score = NoRow /\ reader'.run = run
    BY <1>2, <2>1
  <2>3. reader' = [pc |-> reader'.pc, kind |-> reader'.kind, customer |-> reader'.customer,
                   seen |-> reader'.seen, rows |-> reader'.rows,
                   framework |-> reader'.framework, score |-> reader'.score, controls |-> reader'.controls,
                   run |-> reader'.run, total |-> reader'.total]
    BY <2>1
  <2>4. ReaderFits'
    BY <1>2, <2>2, <2>3 DEF ReaderFits
  <2>5. CoverageRead'
    BY <1>3, <2>2 DEF CoverageRead, EvaluationInvariant, CompletedRun, OfResult
  <2>6. MatrixRead' /\ SeenFinished' /\ RowsRead'
    BY <1>1, <2>2 DEF MatrixRead, SeenFinished, RowsRead
  <2>7. QED  BY <1>1, <2>4, <2>5, <2>6
<1>5. CASE ReadCounts
  <2>1. reader' = [pc |-> "done", kind |-> reader.kind, customer |-> reader.customer,
                   seen |-> reader.seen, rows |-> findings,
                   framework |-> reader.framework, score |-> reader.score, controls |-> reader.controls,
                   run |-> reader.run, total |-> reader.total]
        /\ reader.pc = "by_result"
    BY <1>5 DEF ReadCounts, ReaderFits
  <2>2. /\ reader'.pc = "done" /\ reader'.kind = "coverage" /\ reader'.seen = reader.seen
        /\ reader'.framework = reader.framework /\ reader'.score = NoRow /\ reader'.run = reader.run
        /\ reader'.rows = findings
    BY <1>2, <2>1
  <2>3. reader' = [pc |-> reader'.pc, kind |-> reader'.kind, customer |-> reader'.customer,
                   seen |-> reader'.seen, rows |-> reader'.rows,
                   framework |-> reader'.framework, score |-> reader'.score, controls |-> reader'.controls,
                   run |-> reader'.run, total |-> reader'.total]
    BY <2>1
  <2>4. ReaderFits'
    BY <1>2, <2>2, <2>3 DEF ReaderFits
  <2>5. CoverageRead'
    BY <1>2, <1>3, <2>1, <2>2 DEF CoverageRead, CompletedRun, OfResult
  <2>6. MatrixRead' /\ SeenFinished' /\ RowsRead'
    BY <1>1, <2>2 DEF MatrixRead, SeenFinished, RowsRead
  <2>7. QED  BY <1>1, <2>4, <2>5, <2>6
<1>6. QED  BY <1>4, <1>5

LEMMA InitReport == ReportsInit => ReportInvariant
<1> SUFFICES ASSUME ReportsInit PROVE ReportInvariant
  OBVIOUS
<1>1. EvaluationInvariant
  BY InitEvaluation DEF ReportsInit
<1>2. reader = NoRequest
  BY DEF ReportsInit
<1>3. ReaderFits
  BY <1>2 DEF ReaderFits, NoRequest
<1>4. MatrixRead /\ SeenFinished /\ RowsRead /\ CoverageRead
  BY <1>2 DEF MatrixRead, SeenFinished, RowsRead, CoverageRead, NoRequest
<1>5. QED  BY <1>1, <1>3, <1>4 DEF ReportInvariant

LEMMA NextReport == ReportInvariant /\ [Next]_vars => ReportInvariant'
<1> SUFFICES ASSUME ReportInvariant, [Next]_vars PROVE ReportInvariant'
  OBVIOUS
<1>1. CASE WorkerStep /\ UNCHANGED reader
  BY <1>1, ReportSurvivesWorker
<1>2. CASE ReportStep
  BY <1>2, RequestKeeps, ReadRowsKeeps, ReadFrameworkKeeps, ReadScoreKeeps, ReadControlsKeeps,
     CountAssetsKeeps, CoverageKeeps
  DEF ReportStep
<1>3. CASE UNCHANGED vars
  <2>1. EvaluationInvariant' /\ (Finished <=> Finished') /\ UNCHANGED <<tables, worker, reader>>
    BY <1>3, TablesKeepEvaluation DEF vars, ReportInvariant
  <2>2. UNCHANGED <<findings, scanScores, worker, reader>>
    BY <2>1 DEF tables
  <2>3. QED
    BY <2>1, <2>2 DEF ReportInvariant, ReaderFits, MatrixRead, SeenFinished, RowsRead, CoverageRead, CompletedRun,
            MayRead
<1>4. QED  BY <1>1, <1>2, <1>3 DEF Next

LEMMA ReportsHold == Spec => []ReportInvariant
  BY InitReport, NextReport, PTL DEF Spec

-------------------------------------------------------------------------------
(* The properties.                                                           *)

(* A control passes on evidence and fails on a failure: what is stored of it *)
(* can be read off the findings, and when the score of its framework is      *)
(* stored or the scan completed, something is (_aggregate_control,           *)
(* _map_single_framework).                                                   *)
THEOREM ControlsStandOnFindings == Spec => []ControlsFollowFindings
<1>1. ASSUME ReportInvariant, NEW c \in Controls, controlResults[c] # NoRow
      PROVE  FollowsFindings(c, controlResults[c])
  <2> DEFINE mine == MappedFindings(c, findings)
             row == AggregateControl(c, findings)
  <2>1. controlResults[c] = row
    BY <1>1 DEF ReportInvariant, EvaluationInvariant, StoredRowsFollow
  <2>2. row.status = ControlStatus(c, findings)
        /\ row.failing = OfResult(IF c \in ManualOnes THEN {} ELSE mine, "fail")
    BY DEF AggregateControl
  <2>3. \A x \in mine : x.result \in Results
    BY <1>1 DEF ReportInvariant, EvaluationInvariant, EvaluationTypeOK, AllFindings, Finding, MappedFindings
  <2> HIDE DEF row
  <2>4. CASE c \in ManualOnes
    BY <2>1, <2>2, <2>4 DEF ControlStatus, OfResult, FollowsFindings
  <2>5. CASE c \notin ManualOnes
    <3> DEFINE failed == OfResult(mine, "fail")
               wrong == OfResult(mine, "error")
               status == ControlStatus(c, findings)
    <3>1. status = CASE c \in ManualOnes -> "manual"
                     [] c \notin ManualOnes /\ mine = {} -> "not_assessed"
                     [] c \notin ManualOnes /\ failed # {} -> "fail"
                     [] OTHER -> IF wrong # {} THEN "error" ELSE "pass"
      BY DEF ControlStatus
    <3>2. mine = {} => failed = {}
      BY DEF OfResult
    <3>3. failed = {} /\ wrong = {} <=> \A x \in mine : x.result = "pass"
      BY <2>3 DEF OfResult, Results
    <3>4. failed = {x \in mine : x.result = "fail"} /\ row.failing = failed
      BY <2>2, <2>5 DEF OfResult
    <3> HIDE DEF failed, wrong, status, mine
    <3>5. /\ status = "pass" <=> mine # {} /\ failed = {} /\ wrong = {}
          /\ status = "fail" <=> failed # {}
          /\ status = "not_assessed" <=> mine = {}
      BY <2>5, <3>1, <3>2
    <3>6. row.status = status
      BY <2>2 DEF status
    <3>7. QED
      BY <2>1, <2>5, <3>3, <3>4, <3>5, <3>6 DEF mine, FollowsFindings
  <2>6. QED  BY <2>4, <2>5
<1>2. ASSUME ReportInvariant, NEW c \in Controls,
             scanScores[FrameworkOf[c]] # NoRow \/ scanStatus = "completed"
      PROVE  controlResults[c] # NoRow
  <2>1. FrameworkOf[c] \in Frameworks /\ c \in ControlsOf(FrameworkOf[c])
    BY DEF Frameworks, ControlsOf
  <2>2. scanScores[FrameworkOf[c]] # NoRow
    BY <1>2, <2>1 DEF ReportInvariant, EvaluationInvariant, CompletedIsFinished, Finished
  <2>3. QED  BY <2>1, <2>2, <1>2 DEF ReportInvariant, EvaluationInvariant, StoredRowsFollow
<1>3. ReportInvariant => ControlsFollowFindings
  BY <1>1, <1>2 DEF ControlsFollowFindings
<1>4. QED  BY <1>3, ReportsHold, PTL

(* Rounding half up: the quotient is within half a unit of the fraction.     *)
LEMMA RoundsHalfUp ==
  ASSUME NEW p \in Nat, NEW n \in Nat, n > 0
  PROVE  /\ HalfUp(p, n) \in Nat
         /\ -n < 2 * (HalfUp(p, n) * n - 10000 * p)
         /\ 2 * (HalfUp(p, n) * n - 10000 * p) <= n
<1> DEFINE b == 2 * n
           a == 20000 * p + n
           h == a \div b
<1>1. a \in Nat /\ b \in Nat /\ b > 0
  OBVIOUS
<1>2. HalfUp(p, n) = h
  BY DEF HalfUp
<1> HIDE DEF a, b
<1>3. h \in Nat /\ b * h <= a /\ a < b * h + b
  BY <1>1
<1> HIDE DEF h
<1>4. b * h = 2 * (h * n)
  BY <1>3 DEF b
<1>5. 2 * (h * n) <= 20000 * p + n /\ 20000 * p + n < 2 * (h * n) + 2 * n
  BY <1>3, <1>4 DEF a, b
<1>6. h * n \in Nat
  BY <1>3
<1>7. QED  BY <1>2, <1>3, <1>5, <1>6

Statuses == {"pass", "fail", "error", "not_assessed", "manual"}

(* The controls of a framework by the status the findings give them.         *)
OfStatus(f, st) == {c \in ControlsOf(f) : ControlStatus(c, findings) = st}

LEMMA StatusesPartition ==
  ASSUME NEW f
  PROVE  /\ \A st \in Statuses : IsFiniteSet(OfStatus(f, st)) /\ Cardinality(OfStatus(f, st)) \in Nat
         /\ Cardinality(OfStatus(f, "pass") \cup OfStatus(f, "fail") \cup OfStatus(f, "error"))
              = Cardinality(OfStatus(f, "pass")) + Cardinality(OfStatus(f, "fail"))
                  + Cardinality(OfStatus(f, "error"))
         /\ Cardinality(ControlsOf(f))
              = Cardinality(OfStatus(f, "pass")) + Cardinality(OfStatus(f, "fail"))
                  + Cardinality(OfStatus(f, "error")) + Cardinality(OfStatus(f, "not_assessed"))
                  + Cardinality(OfStatus(f, "manual"))
<1> DEFINE P == OfStatus(f, "pass")
           F == OfStatus(f, "fail")
           E == OfStatus(f, "error")
           N == OfStatus(f, "not_assessed")
           M == OfStatus(f, "manual")
<1>1. \A st \in Statuses : OfStatus(f, st) \subseteq ControlsOf(f)
  BY DEF OfStatus
<1>2. \A st \in Statuses : IsFiniteSet(OfStatus(f, st)) /\ Cardinality(OfStatus(f, st)) \in Nat
  BY <1>1, FrameworkFacts, FS_Subset, FS_CardinalityType
<1>3. \A c : ControlStatus(c, findings) \in Statuses
  BY DEF ControlStatus, Statuses
<1>4. ControlsOf(f) = (((P \cup F) \cup E) \cup N) \cup M
  BY <1>3 DEF OfStatus, Statuses
<1>5. /\ P \cap F = {} /\ (P \cup F) \cap E = {} /\ ((P \cup F) \cup E) \cap N = {}
      /\ (((P \cup F) \cup E) \cup N) \cap M = {}
  BY DEF OfStatus
<1>6. /\ IsFiniteSet(P) /\ IsFiniteSet(F) /\ IsFiniteSet(E) /\ IsFiniteSet(N) /\ IsFiniteSet(M)
      /\ Cardinality(P) \in Nat /\ Cardinality(F) \in Nat /\ Cardinality(E) \in Nat
      /\ Cardinality(N) \in Nat /\ Cardinality(M) \in Nat
  BY <1>2 DEF Statuses
<1> HIDE DEF P, F, E, N, M
<1>7. ASSUME NEW S, NEW T, IsFiniteSet(S), IsFiniteSet(T), S \cap T = {}
      PROVE  IsFiniteSet(S \cup T) /\ Cardinality(S \cup T) = Cardinality(S) + Cardinality(T)
  <2>1. Cardinality(S \cap T) = 0
    BY <1>7, FS_EmptySet
  <2>2. Cardinality(S) \in Nat /\ Cardinality(T) \in Nat
    BY <1>7, FS_CardinalityType
  <2>3. /\ IsFiniteSet(S \cup T)
        /\ Cardinality(S \cup T) = Cardinality(S) + Cardinality(T) - Cardinality(S \cap T)
    BY <1>7, FS_Union
  <2>4. QED  BY <2>1, <2>2, <2>3
<1>8. IsFiniteSet(P \cup F) /\ Cardinality(P \cup F) = Cardinality(P) + Cardinality(F)
  BY <1>5, <1>6, <1>7
<1>9. /\ IsFiniteSet((P \cup F) \cup E)
      /\ Cardinality((P \cup F) \cup E) = Cardinality(P) + Cardinality(F) + Cardinality(E)
  BY <1>5, <1>6, <1>7, <1>8
<1>10. /\ IsFiniteSet(((P \cup F) \cup E) \cup N)
       /\ Cardinality(((P \cup F) \cup E) \cup N)
            = Cardinality(P) + Cardinality(F) + Cardinality(E) + Cardinality(N)
  BY <1>5, <1>6, <1>7, <1>9
<1>11. Cardinality(ControlsOf(f))
         = Cardinality(P) + Cardinality(F) + Cardinality(E) + Cardinality(N) + Cardinality(M)
  BY <1>4, <1>5, <1>6, <1>7, <1>10
<1>12. QED  BY <1>2, <1>9, <1>11 DEF P, F, E, N, M

LEMMA ScoreFields ==
  ASSUME NEW f
  PROVE  LET row == ComputeScore(f, findings)
             N(st) == Cardinality(OfStatus(f, st))
         IN /\ row.pass = N("pass") /\ row.fail = N("fail") /\ row.error = N("error")
            /\ row.not_assessed = N("not_assessed") /\ row.manual = N("manual")
            /\ row.total = Cardinality(ControlsOf(f))
            /\ row.score = HalfUp(N("pass"), N("pass") + N("fail") + N("error"))
  BY DEF ComputeScore, OfStatus

(* A score counts every stored control result of its framework once and is   *)
(* the share that passed, to the nearest hundredth (_compute_score).         *)
THEOREM ScoresCountControls == Spec => []ScoreMatchesControls
<1>1. ReportInvariant => ScoreMatchesControls
  <2> SUFFICES ASSUME ReportInvariant, NEW f \in Frameworks, scanScores[f] # NoRow
               PROVE  LET row == scanScores[f]
                          assessed == Cardinality(StoredWith(f, "pass") \cup StoredWith(f, "fail")
                                                    \cup StoredWith(f, "error"))
                          distance == row.score * assessed - 10000 * row.pass
                      IN /\ row.pass = Cardinality(StoredWith(f, "pass"))
                         /\ row.fail = Cardinality(StoredWith(f, "fail"))
                         /\ row.error = Cardinality(StoredWith(f, "error"))
                         /\ row.total = assessed + row.not_assessed + row.manual
                         /\ IF assessed = 0 THEN row.score = 0
                            ELSE -assessed < 2 * distance /\ 2 * distance <= assessed
    BY DEF ScoreMatchesControls
  <2> DEFINE row == scanScores[f]
             assessed == Cardinality(OfStatus(f, "pass") \cup OfStatus(f, "fail") \cup OfStatus(f, "error"))
  <2>1. /\ row = ComputeScore(f, findings)
        /\ \A c \in ControlsOf(f) : controlResults[c] # NoRow
    BY DEF ReportInvariant, EvaluationInvariant, StoredRowsFollow
  <2>2. ASSUME NEW c \in ControlsOf(f)
        PROVE  controlResults[c].status = ControlStatus(c, findings)
    <3>1. controlResults[c] = AggregateControl(c, findings)
      BY <2>1, FrameworkFacts DEF ReportInvariant, EvaluationInvariant, StoredRowsFollow
    <3>2. AggregateControl(c, findings).status = ControlStatus(c, findings)
      BY DEF AggregateControl
    <3>3. QED  BY <3>1, <3>2
  <2>3. \A st \in Statuses : StoredWith(f, st) = OfStatus(f, st)
    BY <2>2 DEF StoredWith, OfStatus
  <2>4. /\ row.pass = Cardinality(OfStatus(f, "pass")) /\ row.fail = Cardinality(OfStatus(f, "fail"))
        /\ row.error = Cardinality(OfStatus(f, "error"))
        /\ row.not_assessed = Cardinality(OfStatus(f, "not_assessed"))
        /\ row.manual = Cardinality(OfStatus(f, "manual"))
        /\ row.total = Cardinality(ControlsOf(f))
        /\ row.score = HalfUp(row.pass, row.pass + row.fail + row.error)
    BY <2>1, ScoreFields
  <2>5. /\ row.pass \in Nat /\ row.fail \in Nat /\ row.error \in Nat /\ row.not_assessed \in Nat
        /\ row.manual \in Nat
        /\ assessed = row.pass + row.fail + row.error
        /\ row.total = assessed + row.not_assessed + row.manual
    BY <2>4, StatusesPartition DEF Statuses
  <2> HIDE DEF row, assessed
  <2>6. row.score = HalfUp(row.pass, assessed)
    BY <2>4, <2>5
  <2>7. assessed = 0 => row.score = 0
    BY <2>6 DEF HalfUp
  <2>8. assessed # 0 =>
          /\ -assessed < 2 * (row.score * assessed - 10000 * row.pass)
          /\ 2 * (row.score * assessed - 10000 * row.pass) <= assessed
    <3>1. SUFFICES ASSUME assessed # 0
                   PROVE  /\ -assessed < 2 * (HalfUp(row.pass, assessed) * assessed - 10000 * row.pass)
                          /\ 2 * (HalfUp(row.pass, assessed) * assessed - 10000 * row.pass) <= assessed
      BY <2>6
    <3>2. assessed \in Nat /\ assessed > 0 /\ row.pass \in Nat
      BY <2>5, <3>1
    <3>3. QED  BY <3>2, RoundsHalfUp
  <2>9. assessed = Cardinality(StoredWith(f, "pass") \cup StoredWith(f, "fail") \cup StoredWith(f, "error"))
    BY <2>3 DEF assessed, Statuses
  <2>10. /\ row.pass = Cardinality(StoredWith(f, "pass")) /\ row.fail = Cardinality(StoredWith(f, "fail"))
         /\ row.error = Cardinality(StoredWith(f, "error"))
    BY <2>3, <2>4 DEF Statuses
  <2>11. QED
    BY <2>5, <2>7, <2>8, <2>9, <2>10 DEF row
<1>2. QED  BY <1>1, ReportsHold, PTL

(* The rows of the matrix that have a status are as many as the controls.    *)
LEMMA MatrixCounts ==
  ASSUME NEW f, NEW st \in Statuses, NEW shown,
         shown = {<<c, ControlStatus(c, findings)>> : c \in ControlsOf(f)}
  PROVE  Cardinality({e \in shown : e[2] = st}) = Cardinality(OfStatus(f, st))
<1> DEFINE entry == [c \in OfStatus(f, st) |-> <<c, st>>]
           T == {e \in shown : e[2] = st}
<1>1. entry \in [OfStatus(f, st) -> T]
  BY DEF OfStatus
<1>2. \A x, y \in OfStatus(f, st) : entry[x] = entry[y] => x = y
  OBVIOUS
<1>3. \A e \in T : \E c \in OfStatus(f, st) : entry[c] = e
  BY DEF OfStatus
<1>4. IsFiniteSet(OfStatus(f, st))
  BY StatusesPartition
<1> HIDE DEF entry, T
<1>5. Cardinality(T) = Cardinality(OfStatus(f, st))
  BY <1>1, <1>2, <1>3, <1>4, CountByBijection
<1>6. QED  BY <1>5 DEF T

(* A matrix that is served at all is whole, though its rows and its summary  *)
(* are read in two transactions (get_scan_compliance).                       *)
THEOREM MatricesAreWhole == Spec => []MatrixIsWhole
<1>1. ReportInvariant => MatrixIsWhole
  <2> DEFINE f == reader.framework
             N(st) == Cardinality({e \in reader.controls : e[2] = st})
  <2> SUFFICES ASSUME ReportInvariant, Served("matrix"), reader.score # NoRow
               PROVE  /\ {e[1] : e \in reader.controls} = ControlsOf(f)
                      /\ reader.score.pass = N("pass")
                      /\ reader.score.fail = N("fail")
                      /\ reader.score.error = N("error")
                      /\ reader.score.not_assessed = N("not_assessed")
                      /\ reader.score.manual = N("manual")
    BY DEF MatrixIsWhole
  <2>1. /\ reader.score = ComputeScore(f, findings)
        /\ reader.controls = {<<c, ControlStatus(c, findings)>> : c \in ControlsOf(f)}
    BY DEF ReportInvariant, MatrixRead, Served
  <2>2. {e[1] : e \in reader.controls} = ControlsOf(f)
    <3>1. ASSUME NEW c \in ControlsOf(f)
          PROVE  c \in {e[1] : e \in reader.controls}
      <4>1. <<c, ControlStatus(c, findings)>> \in reader.controls
        BY <2>1
      <4>2. <<c, ControlStatus(c, findings)>>[1] = c
        OBVIOUS
      <4>3. QED  BY <4>1, <4>2, Zenon
    <3>2. ASSUME NEW e \in reader.controls
          PROVE  e[1] \in ControlsOf(f)
      BY <2>1
    <3>3. QED  BY <3>1, <3>2
  <2>3. \A st \in Statuses : N(st) = Cardinality(OfStatus(f, st))
    BY <2>1, MatrixCounts
  <2> HIDE DEF N
  <2>4. /\ reader.score.pass = N("pass") /\ reader.score.fail = N("fail") /\ reader.score.error = N("error")
        /\ reader.score.not_assessed = N("not_assessed") /\ reader.score.manual = N("manual")
    BY <2>1, <2>3, ScoreFields DEF Statuses
  <2>5. QED  BY <2>2, <2>4
<1>2. QED  BY <1>1, ReportsHold, PTL

(* After a client saw the scan completed, every report it asks for is on the *)
(* whole evaluation, with the score of every framework that the caller may   *)
(* see and of no other (get_scan_risk_summary, get_scan_fix_priorities,      *)
(* get_scan_compliance).                                                     *)
THEOREM ReportsAreWhole == Spec => []CompletedReportsAreWhole
<1>1. ReportInvariant => CompletedReportsAreWhole
  <2> SUFFICES ASSUME ReportInvariant, reader.seen = "completed"
               PROVE  /\ Served("matrix") \/ Served("risk") =>
                           /\ scanScores[reader.framework] # NoRow
                           /\ reader.score = IF MayRead THEN scanScores[reader.framework] ELSE NoRow
                      /\ Served("risk") /\ Cardinality(Matches) <= FindingsLimit =>
                           /\ {<<x.policy, x.resource>> : x \in reader.rows} = Matches
                           /\ Protected = Cardinality(Inventory \ AtRisk(findings))
                      /\ Served("priorities") /\ Cardinality(Matches) <= FindingsLimit =>
                           reader.rows = OfResult(findings, "fail")
    BY DEF CompletedReportsAreWhole
  <2>1. Evaluated = Matches
    BY DEF ReportInvariant, SeenFinished, Finished
  <2>2. ASSUME Served("matrix") \/ Served("risk")
        PROVE  /\ scanScores[reader.framework] # NoRow
               /\ reader.score = IF MayRead THEN scanScores[reader.framework] ELSE NoRow
    <3>1. reader.score # NoRow <=> MayRead
      BY <2>2 DEF ReportInvariant, RowsRead, Served
    <3>2. reader.framework \in Frameworks
      BY <2>2 DEF ReportInvariant, ReaderFits, Served
    <3>3. /\ scanScores[reader.framework] # NoRow
          /\ scanScores[reader.framework] = ComputeScore(reader.framework, findings)
      BY <3>2 DEF ReportInvariant, EvaluationInvariant, SeenFinished, Finished, StoredRowsFollow
    <3>4. MayRead => reader.score = ComputeScore(reader.framework, findings)
      BY <3>1 DEF ReportInvariant, MatrixRead
    <3>5. QED  BY <3>1, <3>3, <3>4
  <2>3. Served("priorities") /\ Cardinality(Matches) <= FindingsLimit =>
          reader.rows = OfResult(findings, "fail")
    BY DEF ReportInvariant, RowsRead, Served
  <2>4. ASSUME Served("risk"), Cardinality(Matches) <= FindingsLimit
        PROVE  /\ {<<x.policy, x.resource>> : x \in reader.rows} = Matches
               /\ Protected = Cardinality(Inventory \ AtRisk(findings))
    <3>1. reader.rows = findings /\ reader.total = Cardinality(Inventory)
      BY <2>4 DEF ReportInvariant, RowsRead, Served
    <3>2. {<<x.policy, x.resource>> : x \in reader.rows} = Matches
      BY <2>1, <3>1 DEF Evaluated, Key
    <3>3. AtRisk(findings) \subseteq Inventory
      <4>1. \A x \in findings : x.resource \in Inventory
        BY ReportAssumption DEF ReportInvariant, EvaluationInvariant, EvaluationTypeOK, AllFindings, Finding
      <4>2. QED  BY <4>1 DEF AtRisk, OfResult
    <3>4. /\ IsFiniteSet(AtRisk(findings)) /\ Cardinality(AtRisk(findings)) <= Cardinality(Inventory)
          /\ Cardinality(AtRisk(findings)) \in Nat /\ Cardinality(Inventory) \in Nat
      BY <3>3, ReportAssumption, FS_Subset, FS_CardinalityType
    <3>5. Inventory \cap AtRisk(findings) = AtRisk(findings)
      BY <3>3
    <3>6. Cardinality(Inventory \ AtRisk(findings)) = Cardinality(Inventory) - Cardinality(AtRisk(findings))
      BY <3>5, ReportAssumption, FS_Difference
    <3>7. Protected = Cardinality(Inventory) - Cardinality(AtRisk(findings))
      BY <3>1, <3>4 DEF Protected
    <3>8. QED  BY <3>2, <3>6, <3>7
  <2>5. QED  BY <2>2, <2>3, <2>4
<1>2. QED  BY <1>1, ReportsHold, PTL

(* The totals of a completed run agree with the findings the next query      *)
(* counts (policy_coverage, complete_evaluation_run).                        *)
THEOREM CoverageIsExact == Spec => []CoverageAddsUp
<1>1. ReportInvariant => CoverageAddsUp
  BY DEF ReportInvariant, CoverageRead, CompletedRun, CoverageAddsUp, Served
<1>2. QED  BY <1>1, ReportsHold, PTL

===============================================================================
