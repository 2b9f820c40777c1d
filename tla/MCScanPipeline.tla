---------------------------- MODULE MCScanPipeline -----------------------------
(* Instances of ScanPipeline for TLC.                                        *)
EXTENDS ScanPipelineInvariants, TLC

CONSTANTS s1, s2, r1, r2, i1, i2, p1, p2

(* An account with nothing in it, and one with two resources.                *)
MCSnapshots == {{}, {r1, r2}}

MCSomeResource == {{r1}}

(* Interchangeable identities; not used where liveness is checked.           *)
MCSymmetry ==
  UNION {Permutations(Scans), Permutations(Resources),
         Permutations(IngestWorkers), Permutations(PolicyWorkers)}

===============================================================================
