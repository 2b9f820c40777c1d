---------------------------- MODULE MCFindingViews -----------------------------
(*****************************************************************************)
(* Policies of every severity of the catalogue (info is not among them) for  *)
(* every class of resource; two buckets and two identities, the first bucket *)
(* open to the internet.  A policy's number grows against its severity, so   *)
(* that an order by number is not one by severity.  The medium one of class  *)
(* other is an identity policy, as AWS_IAM_012 is.                           *)
(*****************************************************************************)
EXTENDS FindingViews

Levels == <<"critical", "high", "medium", "low">>

Classes == <<"bucket", "database", "identity", "other">>

(* Resource n of class c is 10 * c + n.                                      *)
MCInventory == {11, 12, 21, 31, 32, 41}

Row(s, c, n, r) ==
  [policy |-> 10 * c - s, severity |-> Levels[s], class |-> Classes[c],
   resource |-> 10 * c + n, result |-> r,
   exposed |-> n = 1, public |-> c = 2, mapped |-> c # 3,
   iam |-> c = 3 \/ (c = 4 /\ s = 3),
   minutes |-> IF c = 4 THEN 0 ELSE 5 * c]

MCRows ==
  {Row(s, c, 1, "fail") : s \in 1..4, c \in 1..4}
    \cup {Row(s, 1, 2, "fail") : s \in {1, 3}}
    \cup {Row(s, 3, 2, r) : s \in {2}, r \in {"fail", "pass"}}
    \cup {Row(s, 1, 1, r) : s \in {1, 2}, r \in {"pass"}}
    \cup {Row(1, 3, 1, "error"), Row(2, 3, 1, "pass"), Row(1, 3, 2, "pass")}

===============================================================================
