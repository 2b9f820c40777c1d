----------------------------- MODULE IngestWorker ------------------------------
(*****************************************************************************)
(* assets/ingest/worker.py.  A worker pops one envelope of platform:events   *)
(* at a time and runs handle_event on it; each await on the database, S3 or  *)
(* Redis is one step.  An exception outside _handle_collection_completed is  *)
(* logged and the envelope is gone (run_forever); one inside it marks the    *)
(* scan failed.                                                              *)
(*****************************************************************************)
EXTENDS ScanStore

CONSTANT IngestWorkers

VARIABLE ingest   \* ingest[w]: pc, the envelope in hand, resources left to insert

IngestPcs ==
  {"idle", "append_event",
   "set_collecting", "run_running",
   "set_failed", "run_failed", "append_scan_completed",
   "set_collected", "run_collected", "mark_invalid", "set_ingesting",
   "read_snapshot", "insert_resources", "insert_relationships",
   "set_inventory_ready", "append_inventory_updated", "publish", "on_error"}

NoEvent ==
  [type |-> "none", scan |-> None, status |-> "completed", snap |-> {}, auth |-> FALSE]

IngestIdle == [pc |-> "idle", msg |-> NoEvent, todo |-> {}]

IngestInit == ingest = [w \in IngestWorkers |-> IngestIdle]

IngestScan(w) == ingest[w].msg.scan

(* Control moves to pc; at idle the envelope is dropped.                     *)
IngestGoto(w, pc) ==
  ingest' = [ingest EXCEPT ![w] = IF pc = "idle" THEN IngestIdle ELSE [@ EXCEPT !.pc = pc]]

(* A database statement: go on, or raise and go to the handler.              *)
IngestCall(w, at, row, next, handler) ==
  /\ ingest[w].pc = at
  /\ \/ /\ Write(IngestScan(w), row)
        /\ IngestGoto(w, next)
        /\ UNCHANGED faults
     \/ /\ Raises
        /\ WriteOrNot(IngestScan(w), row)
        /\ IngestGoto(w, handler)
  /\ UNCHANGED <<integration, collectJobs, platformEvents, policyQueue, crashes>>

(* brpop: the envelope leaves the list before it is handled.                 *)
IngestPop(w) ==
  /\ ingest[w].pc = "idle"
  /\ platformEvents # <<>>
  /\ ingest' = [ingest EXCEPT ![w] =
       [pc |-> "append_event", msg |-> Head(platformEvents), todo |-> {}]]
  /\ platformEvents' = Tail(platformEvents)
  /\ UNCHANGED <<db, integration, collectJobs, policyQueue, faults, crashes>>

(* handle_event records the envelope, then branches on its type.             *)
FirstStep(type) ==
  CASE type = "collection.started"   -> "set_collecting"
    [] type = "collection.failed"    -> "set_failed"
    [] type = "collection.completed" -> "set_collected"

IngestAppendEvent(w) ==
  IngestCall(w, "append_event",
             append_event(IngestScan(w), ingest[w].msg.type),
             FirstStep(ingest[w].msg.type), "idle")

IngestSetCollecting(w) ==
  IngestCall(w, "set_collecting", update_status(IngestScan(w), "collecting"),
             "run_running", "idle")

IngestRunRunning(w) ==
  IngestCall(w, "run_running", [db[IngestScan(w)] EXCEPT !.run = "running"],
             "idle", "idle")

IngestSetFailed(w) ==
  IngestCall(w, "set_failed", update_status(IngestScan(w), "failed"),
             "run_failed", "idle")

IngestRunFailed(w) ==
  IngestCall(w, "run_failed", [db[IngestScan(w)] EXCEPT !.run = "failed"],
             "mark_invalid", "idle")

(* Mutant: the return that ends the collection.failed branch is missing.     *)
IngestFallThrough(w) ==
  IngestCall(w, "append_scan_completed",
             append_event(IngestScan(w), "scan.completed:failed"), "set_collected", "idle")

IngestAppendScanCompleted(w) ==
  IngestCall(w, "append_scan_completed",
             append_event(IngestScan(w), "scan.completed:failed"), "idle", "idle")

IngestSetCollected(w) ==
  IngestCall(w, "set_collected", update_status(IngestScan(w), "collected"),
             "run_collected", "on_error")

IngestRunCollected(w) ==
  IngestCall(w, "run_collected",
             [db[IngestScan(w)] EXCEPT !.run = ingest[w].msg.status,
                                       !.manifest = ingest[w].msg.snap],
             "mark_invalid", "on_error")

(* Mutant: a collection that had errors is dropped before it is ingested.    *)
IngestMarkInvalidStops(w) ==
  LET failed == ingest[w].msg.type = "collection.failed"
      errors == ingest[w].msg.status = "completed_with_errors"
      next   == IF failed THEN "append_scan_completed" ELSE "set_ingesting"
  IN /\ ingest[w].pc = "mark_invalid"
     /\ integration' = IF ingest[w].msg.auth THEN "invalid" ELSE integration
     /\ IngestGoto(w, IF errors /\ ~failed THEN "idle" ELSE next)
     /\ UNCHANGED <<db, collectJobs, platformEvents, policyQueue, faults, crashes>>

(* _maybe_mark_integration_invalid, in both branches that call it.           *)
IngestMarkInvalid(w) ==
  LET completed == ingest[w].msg.type = "collection.completed"
      marked    == IF ingest[w].msg.auth THEN "invalid" ELSE integration
  IN /\ ingest[w].pc = "mark_invalid"
     /\ \/ /\ integration' = marked
           /\ IngestGoto(w, IF completed THEN "set_ingesting" ELSE "append_scan_completed")
           /\ UNCHANGED faults
        \/ /\ Raises
           /\ integration' \in {integration, marked}
           /\ IngestGoto(w, IF completed THEN "on_error" ELSE "idle")
     /\ UNCHANGED <<db, collectJobs, platformEvents, policyQueue, crashes>>

(* Mutant: a scan is left as collected while its snapshot is ingested.       *)
IngestSkipIngesting(w) ==
  IngestCall(w, "set_ingesting", db[IngestScan(w)], "read_snapshot", "on_error")

IngestSetIngesting(w) ==
  IngestCall(w, "set_ingesting", update_status(IngestScan(w), "ingesting"),
             "read_snapshot", "on_error")

(* Mutant: the snapshot is read outside the try of handle_event.             *)
IngestReadSnapshotUnguarded(w) ==
  LET snap == ingest[w].msg.snap
  IN /\ ingest[w].pc = "read_snapshot"
     /\ \/ /\ ingest' = [ingest EXCEPT ![w].todo = snap,
                ![w].pc = IF snap = {} THEN "insert_relationships" ELSE "insert_resources"]
           /\ UNCHANGED faults
        \/ /\ Raises
           /\ IngestGoto(w, "idle")
     /\ UNCHANGED <<db, integration, collectJobs, platformEvents, policyQueue, crashes>>

(* Manifest, bronze files and collection run are read and normalised; the    *)
(* resources of the snapshot are what is left to insert.                     *)
IngestReadSnapshot(w) ==
  LET snap == ingest[w].msg.snap
  IN /\ ingest[w].pc = "read_snapshot"
     /\ \/ /\ ingest' = [ingest EXCEPT ![w].todo = snap,
                ![w].pc = IF snap = {} THEN "insert_relationships" ELSE "insert_resources"]
           /\ UNCHANGED faults
        \/ /\ Raises
           /\ IngestGoto(w, "on_error")
     /\ UNCHANGED <<db, integration, collectJobs, platformEvents, policyQueue, crashes>>

(* Mutant: insert_resources returns from inside its loop.                    *)
IngestInsertFirst(w) ==
  /\ ingest[w].pc = "insert_resources"
  /\ \E r \in ingest[w].todo :
       /\ Write(IngestScan(w), [db[IngestScan(w)] EXCEPT !.inventory = @ \cup {r}])
       /\ IngestGoto(w, "insert_relationships")
  /\ UNCHANGED <<integration, collectJobs, platformEvents, policyQueue, faults, crashes>>

(* insert_resources: one statement per resource, duplicates ignored.         *)
IngestInsertResource(w) ==
  /\ ingest[w].pc = "insert_resources"
  /\ \E r \in ingest[w].todo :
       LET row == [db[IngestScan(w)] EXCEPT !.inventory = @ \cup {r}]
       IN \/ /\ Write(IngestScan(w), row)
             /\ ingest' = [ingest EXCEPT ![w].todo = @ \ {r},
                  ![w].pc = IF ingest[w].todo = {r} THEN "insert_relationships" ELSE @]
             /\ UNCHANGED faults
          \/ /\ Raises
             /\ WriteOrNot(IngestScan(w), row)
             /\ IngestGoto(w, "on_error")
  /\ UNCHANGED <<integration, collectJobs, platformEvents, policyQueue, crashes>>

IngestInsertRelationships(w) ==
  IngestCall(w, "insert_relationships",
             [db[IngestScan(w)] EXCEPT !.relationships = TRUE],
             "set_inventory_ready", "on_error")

(* Mutant: inventory.updated is not recorded before the hand-off.            *)
IngestReadyUnrecorded(w) ==
  IngestCall(w, "set_inventory_ready", update_status(IngestScan(w), "inventory_ready"),
             "publish", "on_error")

IngestSetInventoryReady(w) ==
  IngestCall(w, "set_inventory_ready", update_status(IngestScan(w), "inventory_ready"),
             "append_inventory_updated", "on_error")

(* count_resources only reads; it and the append fail into the same handler. *)
IngestAppendInventoryUpdated(w) ==
  IngestCall(w, "append_inventory_updated",
             append_event(IngestScan(w), "inventory.updated"), "publish", "on_error")

(* Mutant: an lpush that raises is retried.                                  *)
IngestPublishRetry(w) ==
  LET pushed == Append(policyQueue, IngestScan(w))
  IN /\ ingest[w].pc = "publish"
     /\ \/ /\ policyQueue' = pushed
           /\ IngestGoto(w, "idle")
           /\ UNCHANGED faults
        \/ /\ Raises
           /\ policyQueue' \in {policyQueue, pushed}
           /\ UNCHANGED ingest
     /\ UNCHANGED <<db, integration, collectJobs, platformEvents, crashes>>

(* publish_policy_evaluate: an lpush that raises may have reached the list.  *)
IngestPublish(w) ==
  LET pushed == Append(policyQueue, IngestScan(w))
  IN /\ ingest[w].pc = "publish"
     /\ \/ /\ policyQueue' = pushed
           /\ IngestGoto(w, "idle")
           /\ UNCHANGED faults
        \/ /\ Raises
           /\ policyQueue' \in {policyQueue, pushed}
           /\ IngestGoto(w, "on_error")
     /\ UNCHANGED <<db, integration, collectJobs, platformEvents, crashes>>

(* except Exception around _handle_collection_completed                      *)
IngestOnError(w) ==
  IngestCall(w, "on_error", update_status(IngestScan(w), "failed"), "idle", "idle")

(* The process dies; docker restarts it with no memory of the envelope.      *)
IngestCrash(w) ==
  /\ ingest[w].pc # "idle"
  /\ Dies
  /\ IngestGoto(w, "idle")
  /\ UNCHANGED <<db, integration, collectJobs, platformEvents, policyQueue, faults>>

IngestStep(w) ==
  \/ IngestPop(w)
  \/ IngestAppendEvent(w)
  \/ IngestSetCollecting(w)
  \/ IngestRunRunning(w)
  \/ IngestSetFailed(w)
  \/ IngestRunFailed(w)
  \/ IngestAppendScanCompleted(w)
  \/ IngestSetCollected(w)
  \/ IngestRunCollected(w)
  \/ IngestMarkInvalid(w)
  \/ IngestSetIngesting(w)
  \/ IngestReadSnapshot(w)
  \/ IngestInsertResource(w)
  \/ IngestInsertRelationships(w)
  \/ IngestSetInventoryReady(w)
  \/ IngestAppendInventoryUpdated(w)
  \/ IngestPublish(w)
  \/ IngestOnError(w)

IngestNext == \E w \in IngestWorkers : IngestStep(w) \/ IngestCrash(w)

IngestTypeOK ==
  /\ ingest \in [IngestWorkers ->
                   [pc : IngestPcs, msg : Events \cup {NoEvent}, todo : SUBSET Resources]]
  /\ \A w \in IngestWorkers : ingest[w].pc # "idle" => ingest[w].msg \in Events

===============================================================================
