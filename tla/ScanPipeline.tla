----------------------------- MODULE ScanPipeline ------------------------------
(*****************************************************************************)
(* The scan pipeline: create_scan requests, collectors, ingest workers and   *)
(* policy workers around one database and one Redis.                         *)
(*                                                                           *)
(*   POST /v1/scans -> collect queue -> collector -> platform:events         *)
(*     -> ingest worker -> platform:policy.evaluate -> policy worker         *)
(*****************************************************************************)
EXTENDS ScanService, IngestWorker, PolicyWorker

vars == <<store, api, collector, ingest, policy>>

Init ==
  /\ StoreInit
  /\ ServiceInit
  /\ IngestInit
  /\ PolicyInit

Next ==
  \/ ServiceNext /\ UNCHANGED <<ingest, policy>>
  \/ IngestNext /\ UNCHANGED <<api, collector, policy>>
  \/ PolicyNext /\ UNCHANGED <<api, collector, ingest>>
  \/ (ReactivateIntegration \/ RedisRestart) /\ UNCHANGED <<api, collector, ingest, policy>>

Spec == Init /\ [][Next]_vars

(* A request that was accepted runs on, collectors finish what they take,    *)
(* and the loops of run_forever keep popping: brpop returns while a list is  *)
(* not empty, and every awaited call returns or raises.                      *)
Fairness ==
  /\ \A s \in Scans :
       /\ WF_vars(ApiStep(s) /\ UNCHANGED <<ingest, policy>>)
       /\ WF_vars(CollectorStep(s) /\ UNCHANGED <<ingest, policy>>)
  /\ \A w \in IngestWorkers : WF_vars(IngestStep(w) /\ UNCHANGED <<api, collector, policy>>)
  /\ \A w \in PolicyWorkers : WF_vars(PolicyStep(w) /\ UNCHANGED <<api, collector, ingest>>)

FairSpec == Spec /\ Fairness

-------------------------------------------------------------------------------

(* Every variable holds a value of its kind, and a worker that is not idle   *)
(* has an envelope in hand.                                                  *)
TypeOK ==
  /\ StoreTypeOK
  /\ ServiceTypeOK
  /\ IngestTypeOK
  /\ PolicyTypeOK

(* A policy worker has passed the status check and works on scan s.          *)
Evaluating(w, s) ==
  policy[w].scan = s /\ policy[w].pc \notin {"idle", "append_evaluate", "check_status"}

Announced(s) ==
  \/ \E i \in 1..Len(policyQueue) : policyQueue[i] = s
  \/ \E w \in PolicyWorkers : policy[w].scan = s

(* The inventory is whole before evaluation can begin: once policy.evaluate  *)
(* is on the queue or in a worker's hands, every resource of the manifest    *)
(* and the relationships are in the database, whatever call raised before.   *)
EvaluationSeesWholeInventory ==
  \A s \in Scans : Announced(s) =>
    /\ db[s].inventory = db[s].manifest
    /\ db[s].relationships
    /\ "inventory.updated" \in db[s].timeline

(* No two workers hold the envelope of one scan, nor does one hold it while  *)
(* it is on the queue.                                                       *)
OneEvaluator ==
  /\ \A v, w \in PolicyWorkers :
       policy[v].scan = policy[w].scan /\ policy[v].scan # None => v = w
  /\ \A i, j \in 1..Len(policyQueue) : policyQueue[i] = policyQueue[j] => i = j
  /\ \A i \in 1..Len(policyQueue), w \in PolicyWorkers : policyQueue[i] # policy[w].scan

AwaitsEvaluation(s) ==
  \/ \E i \in 1..Len(policyQueue) : policyQueue[i] = s
  \/ \E w \in PolicyWorkers :
       /\ policy[w].scan = s
       /\ policy[w].pc \in {"append_evaluate", "check_status", "set_evaluating", "start_run", "list_assets"}

(* A scan is evaluated once.  Two workers never do it at a time: the check   *)
(* of the status and the write of evaluating, two transactions, are never    *)
(* raced.  Nor is it done again later: a scan that waits for its evaluation  *)
(* has no findings, no scores and no final status, although a worker accepts *)
(* one that reads completed_with_errors.                                     *)
SingleEvaluation ==
  /\ OneEvaluator
  /\ \A s \in Scans : AwaitsEvaluation(s) =>
       /\ db[s].findings = {} /\ db[s].scores = {}
       /\ db[s].status \notin {"completed", "completed_with_errors"}

(* The findings cover the inventory, or as much of it as assets.list yields. *)
Evaluated(s) ==
  /\ db[s].findings \subseteq db[s].inventory
  /\ db[s].findings = db[s].inventory \/ Cardinality(db[s].findings) = AssetLimit

(* No framework is scored from part of the findings: evaluate_scan and       *)
(* map_scan may fail half way, yet a stored score stands for all assets      *)
(* evaluated.                                                                *)
ScoresStandOnAllFindings ==
  \A s \in Scans : db[s].scores # {} => Evaluated(s)

(* A scan that reads completed or completed_with_errors has every framework  *)
(* scored, the primary among them, and every asset evaluated, although the   *)
(* status, the findings and the scores are written by separate statements.   *)
CompletedMeansScored ==
  \A s \in Scans : db[s].status \in {"completed", "completed_with_errors"} =>
    /\ Primary \in db[s].scores
    /\ db[s].scores = Frameworks
    /\ Evaluated(s)

(* The timeline tells stages in order: evaluation after the inventory, a     *)
(* policy result after the primary score, the end of the scan after the      *)
(* compliance summary.                                                       *)
TimelineInOrder ==
  \A s \in Scans : LET seen == db[s].timeline IN
    /\ "policy.evaluate" \in seen => {"collection.completed", "inventory.updated"} \subseteq seen
    /\ "policy.completed" \in seen => Primary \in db[s].scores
    /\ {"scan.completed:completed", "scan.completed:completed_with_errors"} \cap seen # {}
         => {"policy.evaluate", "policy.completed", "compliance.updated"} \subseteq seen

(* The final status tells whether the collection had errors, although        *)
(* collection_runs.status is read in one transaction and the scan's status   *)
(* is written in another.                                                    *)
FinalStatusMatchesCollection ==
  \A s \in Scans :
    /\ db[s].status = "completed" => db[s].run = "completed"
    /\ db[s].status = "completed_with_errors" => db[s].run = "completed_with_errors"

(* A scan answered with 201 has a job on the queue or a collector that took  *)
(* it, whatever raised; only a Redis that lost its lists takes that away.    *)
(* The row was committed as queued before the push.                          *)
AcceptedIsCollected ==
  \A s \in Scans :
    api[s] = "done" => s \in collectJobs \/ collector[s] # "idle" \/ crashes > 0

(* completed and failed have no entry in ALLOWED_TRANSITIONS: a scan that    *)
(* reads so keeps reading so.                                                *)
TerminalIsFinal ==
  [][\A s \in Scans :
       db[s].status \in {"completed", "failed"} => db'[s].status = db[s].status]_vars

(* A terminal status is overwritten only after some call raised: crashes,    *)
(* lost queues and interleavings alone never reopen a scan, although no      *)
(* writer of scans.status looks at the status it replaces.                   *)
ReopenedOnlyAfterRaise ==
  [][\A s \in Scans :
       faults = 0 /\ db[s].status \in {"completed", "failed"}
         => db'[s].status = db[s].status]_vars

(* The detailed specification moves a scan only along ALLOWED_TRANSITIONS    *)
(* while no call raises and no process dies; afterwards it never moves one   *)
(* back to an earlier stage.  No writer of scans.status looks at the status  *)
(* it replaces: the order is kept by the queues alone.                       *)
Lifecycle == INSTANCE ScanLifecycle WITH
  status    <- [s \in Scans |-> db[s].status],
  disturbed <- faults + crashes > 0

LifecycleRefined == Lifecycle!LifecycleSpec

Terminal(s) == db[s].status \in TERMINAL_STATUSES

(* A scan whose job was queued ends in one of TERMINAL_STATUSES and stays    *)
(* there, which a client that polls GET /v1/scans/{id} waits for, unless a   *)
(* call raised or a process died.                                            *)
PollingEnds ==
  \A s \in Scans : <>[](api[s] = "done" => Terminal(s) \/ faults + crashes > 0)

(* Workers in the part of a handler that an except branch covers.            *)
IngestTries(s) ==
  \E w \in IngestWorkers :
    /\ ingest[w].pc \notin {"idle", "append_event"}
    /\ ingest[w].msg.type = "collection.completed"
    /\ ingest[w].msg.scan = s

PolicyTries(s) ==
  \E w \in PolicyWorkers :
    Evaluating(w, s) /\ policy[w].pc \notin {"set_evaluating", "start_run"}

(* The except branches of the two workers leave no scan half way: whichever  *)
(* call raises, a collection that is being ingested ends handed over or in   *)
(* a terminal status, and an evaluation ends in a terminal status, unless    *)
(* the branch itself raises or its process dies.                             *)
RaisedCallsAreReported ==
  \A s \in Scans :
    /\ IngestTries(s) ~> (Terminal(s) \/ Announced(s) \/ faults > 1 \/ crashes > 0)
    /\ PolicyTries(s) ~> (Terminal(s) \/ faults > 1 \/ crashes > 0)

===============================================================================
