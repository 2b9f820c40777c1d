------------------------------- MODULE ScanModel -------------------------------
(*****************************************************************************)
(* platform/models/scan.py: the statuses of a scan and the table of          *)
(* transitions that assert_transition consults.                              *)
(*****************************************************************************)

ScanStatus ==
  {"created", "queued", "collecting", "collected", "ingesting",
   "inventory_ready", "evaluating", "completed", "completed_with_errors",
   "failed"}

TERMINAL_STATUSES == {"completed", "completed_with_errors", "failed"}

(* A status with no entry in the table has no successor.                     *)
ALLOWED_TRANSITIONS ==
  [st \in ScanStatus |->
     CASE st = "created"               -> {"queued", "failed"}
       [] st = "queued"                -> {"collecting", "failed"}
       [] st = "collecting"            -> {"collected", "completed_with_errors", "failed"}
       [] st = "collected"             -> {"ingesting", "failed"}
       [] st = "ingesting"             -> {"inventory_ready", "completed_with_errors", "failed"}
       [] st = "inventory_ready"       -> {"evaluating", "failed"}
       [] st = "completed_with_errors" -> {"evaluating", "failed"}
       [] st = "evaluating"            -> {"completed", "completed_with_errors", "failed"}
       [] OTHER                        -> {}]

===============================================================================
