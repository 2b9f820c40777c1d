------------------------------- MODULE ScanStore -------------------------------
(*****************************************************************************)
(* What the processes of the scan pipeline share: the rows PostgreSQL keeps  *)
(* for each scan, the integration the scans run on and the Redis lists.      *)
(*                                                                           *)
(* DatabasePool runs every statement in a transaction of its own, so one     *)
(* statement is one step.  A statement or a push that raises (connection     *)
(* lost, command_timeout) may or may not have taken effect.                  *)
(*****************************************************************************)
EXTENDS Naturals, Sequences, FiniteSets, ScanModel

CONSTANTS
  Scans,        \* scan ids a bounded run may create
  Resources,    \* resource ids a snapshot may hold
  Snapshots,    \* the inventories a collector may upload (sets of resources)
  AuthErrors,   \* whether collections may run into authentication errors
  Frameworks,   \* the SCAN_FRAMEWORK_IDS that are seeded in the database
  Primary,      \* CUSTOMER_PRIMARY_FRAMEWORK
  AssetLimit,   \* limit of assets.list in the policy worker (5000)
  None,         \* no scan
  MaxFaults,    \* bound: calls that raise
  MaxCrashes    \* bound: processes that die and queues that are lost

ASSUME StoreAssumption ==
  /\ Snapshots \subseteq SUBSET Resources
  /\ AuthErrors \subseteq BOOLEAN
  /\ None \notin Scans
  /\ AssetLimit \in Nat
  /\ MaxFaults \in Nat
  /\ MaxCrashes \in Nat

VARIABLES
  db,             \* db[s]: the rows of scan s in every table
  integration,    \* platform.integrations.status of the scanned account
  collectJobs,    \* platform:collect.*, scans whose job waits for a collector
  platformEvents, \* platform:events, oldest first (lpush / brpop)
  policyQueue,    \* platform:policy.evaluate, oldest first
  faults,         \* calls that have raised so far
  crashes         \* processes that have died so far

store == <<db, integration, collectJobs, platformEvents, policyQueue, faults, crashes>>

CollectionStatuses == {"completed", "completed_with_errors"}

(* Entries of assets.collection_events; a scan.completed entry carries the   *)
(* status of its payload.                                                    *)
TimelineEvents ==
  {"collection.started", "collection.completed", "collection.failed",
   "inventory.updated", "policy.evaluate", "policy.completed",
   "compliance.updated", "scan.completed:completed",
   "scan.completed:completed_with_errors", "scan.completed:failed"}

(* An envelope on platform:events.  snap is the inventory the manifest URI   *)
(* leads to; auth tells whether the payload's errors make                    *)
(* mark_invalid_if_azure_auth_failure act.                                   *)
Events ==
  [type : {"collection.started", "collection.completed", "collection.failed"},
   scan : Scans, status : CollectionStatuses, snap : SUBSET Resources, auth : BOOLEAN]

Rows ==
  [status        : ScanStatus \cup {"absent"},
   run           : {"pending", "running", "failed"} \cup CollectionStatuses,
   manifest      : SUBSET Resources,
   inventory     : SUBSET Resources,
   relationships : BOOLEAN,
   evaluation    : {"absent", "running", "completed", "failed"},
   findings      : SUBSET Resources,
   controls      : SUBSET Frameworks,
   scores        : SUBSET Frameworks,
   timeline      : SUBSET TimelineEvents]

NoRow ==
  [status |-> "absent", run |-> "pending", manifest |-> {}, inventory |-> {},
   relationships |-> FALSE, evaluation |-> "absent", findings |-> {},
   controls |-> {}, scores |-> {}, timeline |-> {}]

StoreInit ==
  /\ db = [s \in Scans |-> NoRow]
  /\ integration = "active"
  /\ collectJobs = {}
  /\ platformEvents = <<>>
  /\ policyQueue = <<>>
  /\ faults = 0
  /\ crashes = 0

(* A call that raises is counted.                                            *)
Raises ==
  /\ faults < MaxFaults
  /\ faults' = faults + 1

(* A process that dies is counted.                                           *)
Dies ==
  /\ crashes < MaxCrashes
  /\ crashes' = crashes + 1

(* One statement writes row for scan s.                                      *)
Write(s, row) == db' = [db EXCEPT ![s] = row]

(* The statement raised: its transaction was committed or it was not.        *)
WriteOrNot(s, row) == db' = db \/ Write(s, row)

(* ScanRepository.update_status: no condition on the status it replaces.     *)
update_status(s, st) == [db[s] EXCEPT !.status = st]

(* AssetWriter.append_event                                                  *)
append_event(s, type) == [db[s] EXCEPT !.timeline = @ \cup {type}]

(* POST .../verify or .../rotate-secret with working credentials.            *)
ReactivateIntegration ==
  /\ integration = "invalid"
  /\ integration' = "active"
  /\ UNCHANGED <<db, collectJobs, platformEvents, policyQueue, faults, crashes>>

(* The Redis container has no volume: a restart empties every list.          *)
RedisRestart ==
  /\ Dies
  /\ collectJobs' = {}
  /\ platformEvents' = <<>>
  /\ policyQueue' = <<>>
  /\ UNCHANGED <<db, integration, faults>>

StoreTypeOK ==
  /\ db \in [Scans -> Rows]
  /\ integration \in {"active", "invalid"}
  /\ collectJobs \subseteq Scans
  /\ platformEvents \in Seq(Events)
  /\ policyQueue \in Seq(Scans)
  /\ faults \in Nat
  /\ crashes \in Nat

===============================================================================
