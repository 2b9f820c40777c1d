------------------------------ MODULE ScanService ------------------------------
(*****************************************************************************)
(* ScanService.create_scan, one request per scan id, and the collectors that *)
(* consume the jobs it queues.  The collectors live in another repository;   *)
(* they are modelled by the messages the ingest worker expects of them.      *)
(*****************************************************************************)
EXTENDS ScanStore

VARIABLES
  api,        \* api[s]: where the create_scan request of s stands
  collector   \* collector[s]: where the collection of s stands

ApiPcs == {"idle", "create", "queue", "push", "done", "error"}
CollectorPcs == {"idle", "running", "done"}

ServiceInit ==
  /\ api = [s \in Scans |-> "idle"]
  /\ collector = [s \in Scans |-> "idle"]

ApiGoto(s, pc) == api' = [api EXCEPT ![s] = pc]

(* The integration is read once; it is not looked at again.                  *)
ReadIntegration(s) ==
  /\ api[s] = "idle"
  /\ integration = "active"
  /\ ApiGoto(s, "create")
  /\ UNCHANGED <<store, collector>>

(* A statement of create_scan; if it raises the request answers 500.         *)
ApiCall(s, at, row, next) ==
  /\ api[s] = at
  /\ \/ /\ Write(s, row)
        /\ ApiGoto(s, next)
        /\ UNCHANGED faults
     \/ /\ Raises
        /\ WriteOrNot(s, row)
        /\ ApiGoto(s, "error")
  /\ UNCHANGED <<integration, collectJobs, platformEvents, policyQueue, crashes, collector>>

(* ScanRepository.create: scan row and collection run in one transaction.    *)
CreateScan(s) == ApiCall(s, "create", update_status(s, "created"), "queue")

QueueScan(s) == ApiCall(s, "queue", update_status(s, "queued"), "push")

(* Mutant: a push that raises is logged and the request answers 201.         *)
PushJobSwallows(s) ==
  /\ api[s] = "push"
  /\ ApiGoto(s, "done")
  /\ \/ /\ collectJobs' = collectJobs \cup {s}
        /\ UNCHANGED faults
     \/ /\ Raises
        /\ UNCHANGED collectJobs
  /\ UNCHANGED <<db, integration, platformEvents, policyQueue, crashes, collector>>

(* _build_collection_job, then lpush on the provider's queue.                *)
PushJob(s) ==
  /\ api[s] = "push"
  /\ \/ /\ collectJobs' = collectJobs \cup {s}
        /\ ApiGoto(s, "done")
        /\ UNCHANGED faults
     \/ /\ Raises
        /\ collectJobs' \in {collectJobs, collectJobs \cup {s}}
        /\ ApiGoto(s, "error")
  /\ UNCHANGED <<db, integration, platformEvents, policyQueue, crashes, collector>>

(* The API process dies in the middle of the request.                        *)
ApiCrash(s) ==
  /\ api[s] \in {"create", "queue", "push"}
  /\ Dies
  /\ ApiGoto(s, "error")
  /\ UNCHANGED <<db, integration, collectJobs, platformEvents, policyQueue, faults, collector>>

Send(event) == platformEvents' = Append(platformEvents, event)

CollectionStarted(s) ==
  [type |-> "collection.started", scan |-> s, status |-> "completed", snap |-> {}, auth |-> FALSE]

CollectionFailed(s, auth) ==
  [type |-> "collection.failed", scan |-> s, status |-> "completed", snap |-> {}, auth |-> auth]

CollectionCompleted(s, status, snap, auth) ==
  [type |-> "collection.completed", scan |-> s, status |-> status, snap |-> snap, auth |-> auth]

(* A collector takes the job and announces it.                               *)
CollectorStart(s) ==
  /\ s \in collectJobs
  /\ collectJobs' = collectJobs \ {s}
  /\ collector' = [collector EXCEPT ![s] = "running"]
  /\ Send(CollectionStarted(s))
  /\ UNCHANGED <<db, integration, policyQueue, faults, crashes, api>>

(* The collector reports the end of the collection, exactly once.            *)
CollectorFinish(s) ==
  /\ collector[s] = "running"
  /\ collector' = [collector EXCEPT ![s] = "done"]
  /\ \E auth \in AuthErrors :
       \/ Send(CollectionFailed(s, auth))
       \/ \E status \in CollectionStatuses, snap \in Snapshots :
            Send(CollectionCompleted(s, status, snap, auth))
  /\ UNCHANGED <<db, integration, collectJobs, policyQueue, faults, crashes, api>>

ApiStep(s) == CreateScan(s) \/ QueueScan(s) \/ PushJob(s)

CollectorStep(s) == CollectorStart(s) \/ CollectorFinish(s)

ServiceNext ==
  \E s \in Scans : ReadIntegration(s) \/ ApiStep(s) \/ ApiCrash(s) \/ CollectorStep(s)

ServiceTypeOK ==
  /\ api \in [Scans -> ApiPcs]
  /\ collector \in [Scans -> CollectorPcs]

===============================================================================
