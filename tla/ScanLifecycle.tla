----------------------------- MODULE ScanLifecycle -----------------------------
(*****************************************************************************)
(* The life cycle a scan row promises: created once, then moved along        *)
(* ALLOWED_TRANSITIONS; and what is left of that promise once a call raised  *)
(* or a process died, when a scan may skip a stage or fail but never goes    *)
(* back to an earlier one.  It says nothing of workers and queues;           *)
(* ScanPipeline is the detailed specification of how the code moves a scan.  *)
(*****************************************************************************)
EXTENDS Naturals, ScanModel

CONSTANT Scans

VARIABLES
  status,     \* status[s]: platform.scans.status, "absent" before the row
  disturbed   \* a call has raised or a process has died

LifecycleInit ==
  /\ status = [s \in Scans |-> "absent"]
  /\ disturbed = FALSE

(* ScanRepository.create inserts the row as created.                         *)
Create(s) ==
  /\ status[s] = "absent"
  /\ status' = [status EXCEPT ![s] = "created"]

(* A status change assert_transition accepts.                                *)
Transition(s) ==
  /\ status[s] \in ScanStatus
  /\ \E target \in ALLOWED_TRANSITIONS[status[s]] :
       status' = [status EXCEPT ![s] = target]

(* How far a scan has come, as ALLOWED_TRANSITIONS orders the statuses.      *)
Stage ==
  [st \in ScanStatus \ {"failed"} |->
     CASE st = "created"         -> 0
       [] st = "queued"          -> 1
       [] st = "collecting"      -> 2
       [] st = "collected"       -> 3
       [] st = "ingesting"       -> 4
       [] st = "inventory_ready" -> 5
       [] st = "evaluating"      -> 6
       [] OTHER                  -> 7]

(* A status change the table does not list: a later stage, or failed; and    *)
(* a failed scan whose evaluation was under way is evaluated all the same.   *)
Slip(s) ==
  /\ disturbed'
  /\ status[s] \in ScanStatus
  /\ \E target \in ScanStatus :
       /\ \/ target = "failed"
          \/ /\ target # "failed"
             /\ \/ status[s] = "failed" /\ Stage[target] >= Stage["evaluating"]
                \/ status[s] # "failed" /\ Stage[target] > Stage[status[s]]
       /\ status' = [status EXCEPT ![s] = target]

LifecycleNext ==
  /\ disturbed => disturbed'
  /\ \/ UNCHANGED status
     \/ \E s \in Scans : Create(s) \/ Transition(s) \/ Slip(s)

LifecycleSpec == LifecycleInit /\ [][LifecycleNext]_<<status, disturbed>>

===============================================================================
