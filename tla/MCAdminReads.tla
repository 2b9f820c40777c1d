----------------------------- MODULE MCAdminReads ------------------------------
(* Two tenants, the first with two scans.                                    *)
EXTENDS AdminReads

CONSTANTS s1, s2, s3, t1, t2, any

MCHome == [s \in Scans |-> IF s = s3 THEN t2 ELSE t1]

MCFilters == {any, "failed"}

===============================================================================
