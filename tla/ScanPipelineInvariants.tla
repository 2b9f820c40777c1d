------------------------ MODULE ScanPipelineInvariants -------------------------
(*****************************************************************************)
(* Why a scan is evaluated once, on the whole of its inventory: the report   *)
(* of its collector (collection.completed or .failed) exists once, it is     *)
(* consumed by one ingest worker, and the envelope that worker publishes is  *)
(* the only policy.evaluate the scan ever has.  The conjunction is inductive *)
(* for any number of workers, raised calls and crashes.                      *)
(*****************************************************************************)
EXTENDS ScanPipeline

(* The last envelope a collector sends for a scan.                           *)
Report(e) == e.type # "collection.started"

ReportQueued(s) ==
  \E i \in 1..Len(platformEvents) : Report(platformEvents[i]) /\ platformEvents[i].scan = s

HoldsReport(w, s) ==
  /\ ingest[w].pc # "idle"
  /\ Report(ingest[w].msg)
  /\ ingest[w].msg.scan = s

(* The job of a scan is queued once, by a request that does nothing more.    *)
JobQueuedOnce ==
  \A s \in Scans :
    /\ collector[s] # "idle" => s \notin collectJobs
    /\ collector[s] # "idle" \/ s \in collectJobs => api[s] \in {"done", "error"}

(* A scan has one report, on the queue or in the hands of one worker.        *)
OneReport ==
  /\ \A i \in 1..Len(platformEvents) :
       Report(platformEvents[i]) => collector[platformEvents[i].scan] = "done"
  /\ \A i, j \in 1..Len(platformEvents) :
       /\ Report(platformEvents[i])
       /\ Report(platformEvents[j])
       /\ platformEvents[i].scan = platformEvents[j].scan
       => i = j
  /\ \A w \in IngestWorkers, s \in Scans :
       HoldsReport(w, s) => collector[s] = "done" /\ ~ReportQueued(s)
  /\ \A v, w \in IngestWorkers, s \in Scans :
       HoldsReport(v, s) /\ HoldsReport(w, s) => v = w

(* Once policy.evaluate is out the report is gone, or its worker is in the   *)
(* handler of a push that raised.                                            *)
HandedOff ==
  \A s \in Scans : Announced(s) =>
    /\ collector[s] = "done"
    /\ ~ReportQueued(s)
    /\ \A w \in IngestWorkers : HoldsReport(w, s) => ingest[w].pc = "on_error"

(* The inventory of a scan is empty until its report is taken.               *)
UntouchedInventory ==
  \A s \in Scans : collector[s] # "done" \/ ReportQueued(s) => db[s].inventory = {}

PcsOf(type) ==
  CASE type = "collection.started"   -> {"set_collecting", "run_running"}
    [] type = "collection.failed"    ->
         {"set_failed", "run_failed", "mark_invalid", "append_scan_completed"}
    [] type = "collection.completed" ->
         {"set_collected", "run_collected", "mark_invalid", "set_ingesting", "read_snapshot",
          "insert_resources", "insert_relationships", "set_inventory_ready",
          "append_inventory_updated", "publish", "on_error"}

(* What a worker that ingests a snapshot has written at each of its steps:    *)
(* row is the row of its scan and todo the resources it has left to insert.  *)
IngestingAt(pc, msg, todo, row) ==
  /\ pc \in {"append_event", "set_collected", "run_collected", "mark_invalid",
            "set_ingesting", "read_snapshot"} => row.inventory = {}
  /\ pc \in {"mark_invalid", "set_ingesting", "read_snapshot", "insert_resources"}
       => row.manifest = msg.snap
  /\ pc = "insert_resources" => row.inventory \cup todo = row.manifest
  /\ pc \in {"insert_relationships", "set_inventory_ready", "append_inventory_updated", "publish"}
       => row.inventory = row.manifest
  /\ pc \in {"set_inventory_ready", "append_inventory_updated", "publish"} => row.relationships
  /\ pc = "publish" => "inventory.updated" \in row.timeline

Ingesting(w) == IngestingAt(ingest[w].pc, ingest[w].msg, ingest[w].todo, db[ingest[w].msg.scan])

IngestProgress ==
  \A w \in IngestWorkers : ingest[w].pc # "idle" =>
    /\ ingest[w].pc \in {"append_event"} \cup PcsOf(ingest[w].msg.type)
    /\ ingest[w].msg.type = "collection.completed" => Ingesting(w)

IdleHoldsNothing ==
  \A w \in PolicyWorkers : policy[w].pc = "idle" => policy[w].scan = None

HandOffInvariant ==
  /\ TypeOK
  /\ JobQueuedOnce
  /\ OneReport
  /\ HandedOff
  /\ UntouchedInventory
  /\ IngestProgress
  /\ IdleHoldsNothing
  /\ OneEvaluator
  /\ EvaluationSeesWholeInventory

-------------------------------------------------------------------------------

(* A policy worker has begun to store findings of scan s.                    *)
EarlyPcs ==
  {"append_evaluate", "check_status", "set_evaluating", "start_run", "list_assets"}

(* The evaluation of s is still ahead, if it comes at all.                   *)
EvaluationAhead(s) ==
  \/ collector[s] # "done"
  \/ ReportQueued(s)
  \/ \E w \in IngestWorkers : HoldsReport(w, s) /\ ingest[w].pc # "on_error"
  \/ \E i \in 1..Len(policyQueue) : policyQueue[i] = s
  \/ \E w \in PolicyWorkers : policy[w].scan = s /\ policy[w].pc \in EarlyPcs

NotFinished(s) == db[s].status \notin {"completed", "completed_with_errors"}

UntouchedResults ==
  \A s \in Scans : EvaluationAhead(s) =>
    db[s].findings = {} /\ db[s].scores = {} /\ NotFinished(s)

(* What a worker that evaluates a scan has written at each of its steps.     *)
EvaluatingProgress(w) ==
  LET pc  == policy[w].pc
      row == db[policy[w].scan]
      all == row.findings \cup policy[w].todo
  IN /\ pc \in {"upsert_finding", "complete_run"} => row.scores = {}
     /\ pc = "upsert_finding" =>
          /\ all \subseteq row.inventory
          /\ all = row.inventory \/ Cardinality(all) = AssetLimit
     /\ pc \in {"complete_run", "map_controls", "map_score", "get_run", "set_final"}
          => Evaluated(policy[w].scan)
     /\ pc \in {"map_controls", "map_score"} => row.scores \cup policy[w].frameworks = Frameworks
     /\ pc \in {"get_run", "set_final"} => row.scores = Frameworks /\ Primary \in Frameworks
     /\ pc \in {"upsert_finding", "complete_run", "map_controls", "map_score", "get_run", "set_final"}
          => NotFinished(policy[w].scan)

PolicyProgress ==
  \A w \in PolicyWorkers : policy[w].pc # "idle" => EvaluatingProgress(w)

ResultInvariant ==
  /\ UntouchedResults
  /\ PolicyProgress
  /\ ScoresStandOnAllFindings
  /\ CompletedMeansScored

-------------------------------------------------------------------------------

(* What is on record of a scan at each step of the worker that evaluates it. *)
RecordedAt(pc, row) ==
  /\ pc # "append_evaluate" => "policy.evaluate" \in row.timeline
  /\ pc = "append_policy_completed" => Primary \in row.scores
  /\ pc \in {"append_compliance_updated", "append_scan_completed"}
       => "policy.completed" \in row.timeline
  /\ pc = "append_scan_completed" => "compliance.updated" \in row.timeline

(* An envelope in hand is on record once its worker acts on it.             *)
EnvelopesRecorded ==
  \A w \in IngestWorkers : ingest[w].pc \notin {"idle", "append_event"} =>
    ingest[w].msg.type \in db[ingest[w].msg.scan].timeline

(* ... and so is the collection of every scan handed over for evaluation.    *)
CollectionRecorded ==
  \A s \in Scans : Announced(s) => "collection.completed" \in db[s].timeline

EvaluationRecorded ==
  \A w \in PolicyWorkers : policy[w].pc # "idle" =>
    RecordedAt(policy[w].pc, db[policy[w].scan])

RecordInvariant ==
  /\ EnvelopesRecorded
  /\ CollectionRecorded
  /\ EvaluationRecorded
  /\ TimelineInOrder

-------------------------------------------------------------------------------

(* The status of a scan, with one ingest worker: what it is at each step of  *)
(* the process that has the scan in hand, and where it stays while the scan  *)
(* waits in a queue.  No writer looks at the status it replaces, so this is  *)
(* what makes every write a step forward.                                    *)
OneIngestWorker == \A v, w \in IngestWorkers : v = w

Disturbed == faults > 0 \/ crashes > 0

Holds(w, s) == ingest[w].pc # "idle" /\ ingest[w].msg.scan = s

StartedQueued(s) ==
  \E i \in 1..Len(platformEvents) : ~Report(platformEvents[i]) /\ platformEvents[i].scan = s

(* Of two envelopes of a scan on the queue the first is collection.started,  *)
(* the second the report.                                                    *)
EventsInOrder ==
  \A i, j \in 1..Len(platformEvents) :
    i < j /\ platformEvents[i].scan = platformEvents[j].scan
      => ~Report(platformEvents[i]) /\ Report(platformEvents[j])

(* A scan that is being created, waits for a collector or for its report.    *)
WaitingFits(s) ==
  LET st == db[s].status
  IN /\ api[s] \in {"idle", "create"} => st = "absent"
     /\ api[s] = "queue" => st = "created"
     /\ api[s] = "push" \/ s \in collectJobs \/ StartedQueued(s) => st = "queued"
     /\ StartedQueued(s) => collector[s] = "running" \/ ReportQueued(s)
     /\ collector[s] = "running" \/ ReportQueued(s) =>
          \/ st = "collecting"
          \/ /\ st = "queued"
             /\ \/ StartedQueued(s)
                \/ Disturbed
                \/ \E w \in IngestWorkers : Holds(w, s) /\ ~Report(ingest[w].msg)

(* The row of a scan whose envelope e an ingest worker has in hand at pc.    *)
IngestFits(e, pc, row) ==
  LET st == row.status
  IN /\ ~Report(e) => st = IF pc = "run_running" THEN "collecting" ELSE "queued"
     /\ Report(e) =>
          /\ st # "absent"
          /\ pc \in {"append_event", "set_collected", "set_failed"} =>
               st = "collecting" \/ (st = "queued" /\ Disturbed)
          /\ pc \in {"run_failed", "append_scan_completed"} => st = "failed"
          /\ pc = "on_error" => faults > 0
     /\ e.type = "collection.failed" /\ pc = "mark_invalid" => st = "failed"
     /\ e.type = "collection.completed" =>
          /\ pc \in {"run_collected", "mark_invalid", "set_ingesting"} => st = "collected"
          /\ pc \in {"read_snapshot", "insert_resources", "insert_relationships",
                     "set_inventory_ready"} => st = "ingesting"
          /\ pc \in {"append_inventory_updated", "publish"} => st = "inventory_ready"
          /\ pc \in {"mark_invalid", "set_ingesting", "read_snapshot", "insert_resources",
                     "insert_relationships", "set_inventory_ready", "append_inventory_updated",
                     "publish"} => row.run = e.status

HeldFits(w, s) ==
  Holds(w, s) =>
    /\ collector[s] # "idle"
    /\ ~StartedQueued(s)
    /\ IngestFits(ingest[w].msg, ingest[w].pc, db[s])

(* The row of a scan that was handed over: the handler of a push that raised *)
(* may still fail it.                                                        *)
Handed(row) ==
  /\ row.status \in {"inventory_ready", "evaluating", "completed", "completed_with_errors", "failed"}
  /\ row.run \in CollectionStatuses

PolicyFits(x, row) ==
  LET Or(st) == row.status = st \/ (row.status = "failed" /\ faults > 0)
  IN /\ Handed(row)
     /\ x.pc \in {"append_evaluate", "check_status", "set_evaluating"} => Or("inventory_ready")
     /\ x.pc \in {"start_run", "list_assets", "upsert_finding", "complete_run", "map_controls",
                  "map_score", "get_run", "set_final"} => Or("evaluating")
     /\ x.pc \in {"fail_run", "set_failed"} => row.status = "evaluating" \/ faults > 0
     /\ x.pc = "set_final" => x.final = row.run

EvaluationFits(s) ==
  /\ (\E i \in 1..Len(policyQueue) : policyQueue[i] = s) =>
       /\ Handed(db[s])
       /\ db[s].status = "inventory_ready" \/ (db[s].status = "failed" /\ faults > 0)
  /\ \A w \in PolicyWorkers : policy[w].scan = s => PolicyFits(policy[w], db[s])
  /\ db[s].status \in {"completed", "completed_with_errors"} => db[s].status = db[s].run

ScanFits(s) ==
  /\ WaitingFits(s)
  /\ \A w \in IngestWorkers : HeldFits(w, s)
  /\ EvaluationFits(s)

StatusInvariant == EventsInOrder /\ \A s \in Scans : ScanFits(s)

===============================================================================
