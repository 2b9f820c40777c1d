----------------------------- MODULE PolicyWorker ------------------------------
(*****************************************************************************)
(* policy/worker.py with the calls it makes: evaluate_scan of                *)
(* findings/repository.py and ComplianceMapper.map_scan.  An exception       *)
(* before start_evaluation_run returns is logged and the envelope is gone;   *)
(* a later one runs the except branch, which fails the run and the scan.     *)
(*****************************************************************************)
EXTENDS ScanStore

CONSTANT PolicyWorkers

VARIABLE policy
  \* policy[w]: pc, the scan in hand, the assets not yet evaluated, the
  \* frameworks not yet mapped and the final status

PolicyPcs ==
  {"idle", "append_evaluate", "check_status", "set_evaluating", "start_run",
   "list_assets", "upsert_finding", "complete_run", "map_controls", "map_score",
   "get_run", "set_final", "append_policy_completed", "append_compliance_updated",
   "append_scan_completed", "fail_run", "set_failed", "append_scan_failed"}

PolicyIdle ==
  [pc |-> "idle", scan |-> None, todo |-> {}, frameworks |-> {}, final |-> "completed"]

PolicyInit == policy = [w \in PolicyWorkers |-> PolicyIdle]

PolicyGoto(w, pc) ==
  policy' = [policy EXCEPT ![w] = IF pc = "idle" THEN PolicyIdle ELSE [@ EXCEPT !.pc = pc]]

(* A database statement: go on, or raise and go to the handler.              *)
PolicyCall(w, at, row, next, handler) ==
  /\ policy[w].pc = at
  /\ \/ /\ Write(policy[w].scan, row)
        /\ PolicyGoto(w, next)
        /\ UNCHANGED faults
     \/ /\ Raises
        /\ WriteOrNot(policy[w].scan, row)
        /\ PolicyGoto(w, handler)
  /\ UNCHANGED <<integration, collectJobs, platformEvents, policyQueue, crashes>>

(* A query that changes nothing may still raise.                             *)
PolicyQueryRaises(w, handler) ==
  /\ Raises
  /\ PolicyGoto(w, handler)
  /\ UNCHANGED <<db, integration, collectJobs, platformEvents, policyQueue, crashes>>

PolicyPop(w) ==
  /\ policy[w].pc = "idle"
  /\ policyQueue # <<>>
  /\ policy' = [policy EXCEPT ![w] =
       [PolicyIdle EXCEPT !.pc = "append_evaluate", !.scan = Head(policyQueue)]]
  /\ policyQueue' = Tail(policyQueue)
  /\ UNCHANGED <<db, integration, collectJobs, platformEvents, faults, crashes>>

PolicyAppendEvaluate(w) ==
  PolicyCall(w, "append_evaluate", append_event(policy[w].scan, "policy.evaluate"),
             "check_status", "idle")

(* The status is read here and acted on in the next statement.               *)
Evaluable == {"inventory_ready", "completed_with_errors"}

PolicyCheckStatus(w) ==
  /\ policy[w].pc = "check_status"
  /\ \/ /\ PolicyGoto(w, IF db[policy[w].scan].status \in Evaluable
                         THEN "set_evaluating" ELSE "idle")
        /\ UNCHANGED store
     \/ PolicyQueryRaises(w, "idle")

PolicySetEvaluating(w) ==
  PolicyCall(w, "set_evaluating", update_status(policy[w].scan, "evaluating"),
             "start_run", "idle")

(* start_evaluation_run: upsert, back to running                             *)
PolicyStartRun(w) ==
  PolicyCall(w, "start_run", [db[policy[w].scan] EXCEPT !.evaluation = "running"],
             "list_assets", "idle")

(* assets.list(limit=5000): all of the inventory, or its first AssetLimit.   *)
Listed(inventory) ==
  {assets \in SUBSET inventory :
     assets = inventory \/ Cardinality(assets) = AssetLimit}

PolicyListAssets(w) ==
  /\ policy[w].pc = "list_assets"
  /\ \/ /\ \E assets \in Listed(db[policy[w].scan].inventory) :
             /\ Cardinality(assets) <= AssetLimit
             /\ policy' = [policy EXCEPT ![w].todo = assets,
                  ![w].pc = IF assets = {} THEN "complete_run" ELSE "upsert_finding"]
        /\ UNCHANGED store
     \/ PolicyQueryRaises(w, "fail_run")

(* Mutant: a finding that cannot be stored ends the loop, not the run.       *)
PolicyUpsertSwallows(w) ==
  /\ policy[w].pc = "upsert_finding"
  /\ \E r \in policy[w].todo :
       LET row == [db[policy[w].scan] EXCEPT !.findings = @ \cup {r}]
       IN \/ /\ Write(policy[w].scan, row)
             /\ policy' = [policy EXCEPT ![w].todo = @ \ {r},
                  ![w].pc = IF policy[w].todo = {r} THEN "complete_run" ELSE @]
             /\ UNCHANGED faults
          \/ /\ Raises
             /\ UNCHANGED db
             /\ PolicyGoto(w, "complete_run")
  /\ UNCHANGED <<integration, collectJobs, platformEvents, policyQueue, crashes>>

(* evaluate_scan: the findings of one asset are upserted.                    *)
PolicyUpsertFinding(w) ==
  /\ policy[w].pc = "upsert_finding"
  /\ \E r \in policy[w].todo :
       LET row == [db[policy[w].scan] EXCEPT !.findings = @ \cup {r}]
       IN \/ /\ Write(policy[w].scan, row)
             /\ policy' = [policy EXCEPT ![w].todo = @ \ {r},
                  ![w].pc = IF policy[w].todo = {r} THEN "complete_run" ELSE @]
             /\ UNCHANGED faults
          \/ /\ Raises
             /\ WriteOrNot(policy[w].scan, row)
             /\ PolicyGoto(w, "fail_run")
  /\ UNCHANGED <<integration, collectJobs, platformEvents, policyQueue, crashes>>

(* map_scan when no framework is left: a missing primary raises LookupError. *)
MappedPc == IF Primary \in Frameworks THEN "get_run" ELSE "fail_run"

PolicyCompleteRun(w) ==
  LET row == [db[policy[w].scan] EXCEPT !.evaluation = "completed"]
  IN /\ policy[w].pc = "complete_run"
     /\ \/ /\ Write(policy[w].scan, row)
           /\ policy' = [policy EXCEPT ![w].frameworks = Frameworks,
                ![w].pc = IF Frameworks = {} THEN MappedPc ELSE "map_controls"]
           /\ UNCHANGED faults
        \/ /\ Raises
           /\ WriteOrNot(policy[w].scan, row)
           /\ PolicyGoto(w, "fail_run")
     /\ UNCHANGED <<integration, collectJobs, platformEvents, policyQueue, crashes>>

(* _map_single_framework: the control results of one framework ...           *)
PolicyMapControls(w) ==
  \E f \in policy[w].frameworks :
    PolicyCall(w, "map_controls", [db[policy[w].scan] EXCEPT !.controls = @ \cup {f}],
               "map_score", "fail_run")

(* Mutant: map_scan returns as soon as the primary framework is scored.      *)
PolicyMapPrimaryOnly(w) ==
  /\ policy[w].pc = "map_score"
  /\ \E f \in policy[w].frameworks \cap db[policy[w].scan].controls :
       /\ Write(policy[w].scan, [db[policy[w].scan] EXCEPT !.scores = @ \cup {f}])
       /\ policy' = [policy EXCEPT ![w].frameworks = @ \ {f},
            ![w].pc = IF f = Primary THEN "get_run" ELSE "map_controls"]
  /\ UNCHANGED <<integration, collectJobs, platformEvents, policyQueue, faults, crashes>>

(* ... then its score, computed from the findings read for those controls.   *)
PolicyMapScore(w) ==
  /\ policy[w].pc = "map_score"
  /\ \E f \in policy[w].frameworks \cap db[policy[w].scan].controls :
       LET row == [db[policy[w].scan] EXCEPT !.scores = @ \cup {f}]
       IN \/ /\ Write(policy[w].scan, row)
             /\ policy' = [policy EXCEPT ![w].frameworks = @ \ {f},
                  ![w].pc = IF policy[w].frameworks = {f} THEN MappedPc ELSE "map_controls"]
             /\ UNCHANGED faults
          \/ /\ Raises
             /\ WriteOrNot(policy[w].scan, row)
             /\ PolicyGoto(w, "fail_run")
  /\ UNCHANGED <<integration, collectJobs, platformEvents, policyQueue, crashes>>

(* Mutant: any collection that did not fail counts as completed.             *)
PolicyGetRunLenient(w) ==
  /\ policy[w].pc = "get_run"
  /\ policy' = [policy EXCEPT ![w].pc = "set_final", ![w].final =
       IF db[policy[w].scan].run # "failed" THEN "completed" ELSE "completed_with_errors"]
  /\ UNCHANGED store

(* Mutant: the status of the collection run is taken over as it is.          *)
PolicyGetRunVerbatim(w) ==
  /\ policy[w].pc = "get_run"
  /\ policy' = [policy EXCEPT ![w].pc = "set_final", ![w].final = db[policy[w].scan].run]
  /\ UNCHANGED store

(* get_collection_run decides the final status.                              *)
PolicyGetRun(w) ==
  /\ policy[w].pc = "get_run"
  /\ \/ /\ policy' = [policy EXCEPT ![w].pc = "set_final",
             ![w].final = IF db[policy[w].scan].run = "completed"
                          THEN "completed" ELSE "completed_with_errors"]
        /\ UNCHANGED store
     \/ PolicyQueryRaises(w, "fail_run")

PolicySetFinal(w) ==
  PolicyCall(w, "set_final", update_status(policy[w].scan, policy[w].final),
             "append_policy_completed", "fail_run")

PolicyAppendPolicyCompleted(w) ==
  PolicyCall(w, "append_policy_completed", append_event(policy[w].scan, "policy.completed"),
             "append_compliance_updated", "fail_run")

PolicyAppendComplianceUpdated(w) ==
  PolicyCall(w, "append_compliance_updated",
             append_event(policy[w].scan, "compliance.updated"),
             "append_scan_completed", "fail_run")

ScanCompleted(st) ==
  IF st = "completed" THEN "scan.completed:completed"
                      ELSE "scan.completed:completed_with_errors"

PolicyAppendScanCompleted(w) ==
  PolicyCall(w, "append_scan_completed",
             append_event(policy[w].scan, ScanCompleted(policy[w].final)),
             "idle", "fail_run")

(* except Exception: fail the run, fail the scan, record it.  The branch     *)
(* covers the statements after the final status too.                         *)
PolicyFailRun(w) ==
  PolicyCall(w, "fail_run", [db[policy[w].scan] EXCEPT !.evaluation = "failed"],
             "set_failed", "idle")

PolicySetFailed(w) ==
  PolicyCall(w, "set_failed", update_status(policy[w].scan, "failed"),
             "append_scan_failed", "idle")

PolicyAppendScanFailed(w) ==
  PolicyCall(w, "append_scan_failed",
             append_event(policy[w].scan, "scan.completed:failed"), "idle", "idle")

PolicyCrash(w) ==
  /\ policy[w].pc # "idle"
  /\ Dies
  /\ PolicyGoto(w, "idle")
  /\ UNCHANGED <<db, integration, collectJobs, platformEvents, policyQueue, faults>>

PolicyStep(w) ==
  \/ PolicyPop(w)
  \/ PolicyAppendEvaluate(w)
  \/ PolicyCheckStatus(w)
  \/ PolicySetEvaluating(w)
  \/ PolicyStartRun(w)
  \/ PolicyListAssets(w)
  \/ PolicyUpsertFinding(w)
  \/ PolicyCompleteRun(w)
  \/ PolicyMapControls(w)
  \/ PolicyMapScore(w)
  \/ PolicyGetRun(w)
  \/ PolicySetFinal(w)
  \/ PolicyAppendPolicyCompleted(w)
  \/ PolicyAppendComplianceUpdated(w)
  \/ PolicyAppendScanCompleted(w)
  \/ PolicyFailRun(w)
  \/ PolicySetFailed(w)
  \/ PolicyAppendScanFailed(w)

PolicyNext == \E w \in PolicyWorkers : PolicyStep(w) \/ PolicyCrash(w)

PolicyTypeOK ==
  /\ policy \in [PolicyWorkers ->
       [pc : PolicyPcs, scan : Scans \cup {None}, todo : SUBSET Resources,
        frameworks : SUBSET Frameworks, final : {"completed", "completed_with_errors"}]]
  /\ \A w \in PolicyWorkers : policy[w].pc # "idle" => policy[w].scan \in Scans

===============================================================================
