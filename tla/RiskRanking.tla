------------------------------ MODULE RiskRanking ------------------------------
(*****************************************************************************)
(* findings/experience.py: the order in which failures are shown.  A finding *)
(* is a record of what the ranking looks at: its policy, severity, the class *)
(* of its resource type, whether its evidence exposes it to the internet,    *)
(* whether its policy is one of the public ones or (iam) of the identity     *)
(* ones, whether it maps to a framework and how long the fix takes.          *)
(*****************************************************************************)
EXTENDS Integers, Sequences, FiniteSets

SeverityOrder(s) ==
  CASE s = "critical" -> 0 [] s = "high" -> 1 [] s = "medium" -> 2 [] s = "low" -> 3
    [] s = "info" -> 4

SeverityRiskBase(s) ==
  CASE s = "critical" -> 92 [] s = "high" -> 72 [] s = "medium" -> 48 [] s = "low" -> 28
    [] s = "info" -> 12

(* DATA_SENSITIVE_TYPES: buckets, file systems and database instances.       *)
Sensitive(x) == x.class \in {"bucket", "database"}

(* _internet_exposed: only a bucket can be.                                  *)
Internet(x) == x.class = "bucket" /\ x.exposed

Public(x) == Internet(x) \/ x.public

(* _identity_exposure: the resource, or a policy AWS_IAM_... or AZURE_ID_... *)
Identity(x) == x.class = "identity" \/ x.iam

AtMost100(n) == IF n > 100 THEN 100 ELSE n

(* Mutant: the exposure of a bucket weighs one point more.                   *)
RiskScoreExposureHeavier(x) ==
  AtMost100(SeverityRiskBase(x.severity)
    + (IF Internet(x) THEN 13 ELSE 0) + (IF Sensitive(x) THEN 8 ELSE 0)
    + (IF Public(x) /\ ~ Internet(x) THEN 6 ELSE 0) + (IF Identity(x) THEN 5 ELSE 0))

(* compute_risk_signals: capping after each addend or at the end is the same.*)
RiskScore(x) ==
  AtMost100(SeverityRiskBase(x.severity)
    + (IF Internet(x) THEN 12 ELSE 0) + (IF Sensitive(x) THEN 8 ELSE 0)
    + (IF Public(x) /\ ~ Internet(x) THEN 6 ELSE 0) + (IF Identity(x) THEN 5 ELSE 0))

Rank(b) == IF b THEN 0 ELSE 1

(* fix_priority_sort_key: a remediation of 0 minutes counts as 99.           *)
SortKey(x) ==
  <<-RiskScore(x), SeverityOrder(x.severity), Rank(Internet(x)), Rank(Sensitive(x)),
    Rank(x.mapped), IF x.minutes = 0 THEN 99 ELSE x.minutes>>

(* Tuples are compared element by element.                                   *)
Before(k, l) ==
  \E i \in DOMAIN k : k[i] < l[i] /\ \A j \in 1..(i - 1) : k[j] = l[j]

(* The elements of S in the order R, a set of pairs that compares any two.   *)
InOrder(S, R) ==
  LET Place(x) == Cardinality({y \in S : <<y, x>> \in R}) + 1
  IN [n \in 1..Cardinality(S) |-> CHOOSE x \in S : Place(x) = n]

(* list.sort is stable: of two equal keys the one listed first stays first.  *)
Earlier(s) ==
  {p \in (DOMAIN s) \X (DOMAIN s) :
     \/ Before(SortKey(s[p[1]]), SortKey(s[p[2]]))
     \/ SortKey(s[p[1]]) = SortKey(s[p[2]]) /\ p[1] < p[2]}

Sorted(s) == LET places == InOrder(DOMAIN s, Earlier(s)) IN [n \in DOMAIN s |-> s[places[n]]]

(* The elements of s at the places P, in the order they have in s.           *)
ElementsAt(s, P) ==
  LET places == InOrder(P, {p \in P \X P : p[1] < p[2]})
  IN [n \in 1..Cardinality(P) |-> s[places[n]]]

FirstN(s, n) == SubSeq(s, 1, IF Len(s) < n THEN Len(s) ELSE n)

(* The places of s that are the first of their policy.                       *)
FirstOfPolicy(s) ==
  {i \in DOMAIN s : \A j \in 1..(i - 1) : s[j].policy # s[i].policy}

(* s without the findings of a policy that stands earlier in it.             *)
OncePerPolicy(s) == ElementsAt(s, FirstOfPolicy(s))

(* Mutant: the page is cut to top_n before policies are counted once.        *)
TopRisksCutFirst(s, n) == OncePerPolicy(FirstN(s, n))

(* build_risk_summary: each policy once, by its worst finding, up to top_n.  *)
TopRisks(s, n) == FirstN(OncePerPolicy(s), n)

===============================================================================
