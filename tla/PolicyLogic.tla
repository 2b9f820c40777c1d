------------------------------ MODULE PolicyLogic ------------------------------
(*****************************************************************************)
(* policy/engine/evaluator.py: whether a policy fails on an asset.  A policy *)
(* is a tree of field checks under "and" and "or"; it fails when the tree is *)
(* true.  Here it is the list of the nodes in the order of the file: the     *)
(* root comes first, and a node names its conditions by their places in the  *)
(* list, all of them after its own.  Python's values are kept apart as far   *)
(* as the operators tell them apart: numbers (True is 1), texts, None and no *)
(* value.  A comparison Python refuses and an unknown operator raise, and    *)
(* the exception leaves every compound above: evaluate_scan stores it as the *)
(* result "error".                                                           *)
(*****************************************************************************)
EXTENDS SequencesExt

CONSTANT Missing   \* the path leads nowhere (_MISSING)

(* Python's values; False is the number 0, as == says.                       *)
Num(i) == [kind |-> "number", n |-> i]
Text(i) == [kind |-> "text", n |-> i]
PyNone == [kind |-> "none", n |-> 0]
PyFalse == Num(0)

ASSUME MissingAssumption == Missing \notin {PyFalse, PyNone}

(* What Python computes for a condition: a truth value, or an exception.     *)
Truth(b) == IF b THEN "true" ELSE "false"
Raised == "raised"

Ordered == {"gt", "gte", "lt", "lte"}

(* bool(x): zero, the empty text and None are false.                         *)
Truthy(v) == v.kind # "none" /\ v.n # 0

(* x > y and its kin: numbers with numbers and texts with texts.             *)
Comparable(v, w) == v.kind = w.kind /\ v.kind # "none"

Compare(op, v, w) ==
  \/ op = "gt" /\ v.n > w.n
  \/ op = "gte" /\ v.n >= w.n
  \/ op = "lt" /\ v.n < w.n
  \/ op = "lte" /\ v.n <= w.n

(* _field_check: an absent value satisfies "missing" and nothing else, and   *)
(* it is tested before the operator is known to be one.                      *)
FieldCheck(node, actual) ==
  LET op == node.operator
  IN IF op = "missing" THEN Truth(actual = Missing)
     ELSE IF op = "exists" THEN Truth(actual # Missing)
     ELSE IF actual = Missing THEN Truth(FALSE)
     ELSE IF op \in Ordered /\ ~ Comparable(actual, node.expected) THEN Raised
     ELSE CASE op \in Ordered -> Truth(Compare(op, actual, node.expected))
            [] op = "eq" -> Truth(actual = node.expected)
            [] op = "ne" -> Truth(actual # node.expected)
            [] op = "in" -> Truth(actual \in node.expected)
            [] op = "not_in" -> Truth(actual \notin node.expected)
            [] op = "true" -> Truth(Truthy(actual))
            [] op = "false" -> Truth(~ Truthy(actual))
            [] OTHER -> Raised

(* Mutant: any(...) and all(...) over a generator stop at the first answer.  *)
CompoundShortCircuits(op, results) ==
  LET decides == Truth(op = "or")
      stops == {i \in DOMAIN results : results[i] \in {decides, Raised}}
      first == CHOOSE i \in stops : \A j \in stops : i <= j
  IN IF op \notin {"and", "or"} THEN Raised
     ELSE IF stops = {} THEN Truth(op = "and") ELSE results[first]

(* _compound: every condition is evaluated before the operator is applied.   *)
Compound(op, results) ==
  LET holds == {i \in DOMAIN results : results[i] = "true"}
  IN IF op \notin {"and", "or"} \/ \E i \in DOMAIN results : results[i] = Raised
     THEN Raised
     ELSE Truth(IF op = "and" THEN holds = DOMAIN results ELSE holds # {})

(* evaluate_condition at every node: _field_check, _compound, ValueError.    *)
Values(logic, a) ==
  LET value[i \in DOMAIN logic] ==
        LET node == logic[i]
        IN IF node.type = "field_check" THEN FieldCheck(node, a[node.path])
           ELSE IF node.type = "compound"
           THEN Compound(node.operator, [k \in DOMAIN node.conditions |-> value[node.conditions[k]]])
           ELSE Raised
  IN value

(* evaluate_policy_logic: only the root may be "fail_when", which wraps one  *)
(* condition; anywhere else evaluate_condition refuses it.                   *)
Top(logic) == IF logic[1].type = "fail_when" THEN logic[1].condition ELSE 1

Evaluate(logic, a) == Values(logic, a)[Top(logic)]

(* evaluate_scan: result = "fail" if failed else "pass", or "error"          *)
Result(logic, a) ==
  LET failed == Evaluate(logic, a)
  IN IF failed = Raised THEN "error" ELSE IF failed = "true" THEN "fail" ELSE "pass"

(* PolicyDefinition.matches_asset                                            *)
MatchesAsset(policy, a) ==
  /\ a.provider = policy.provider
  /\ a.resource_type = policy.resource_type
  /\ policy.provider_type # "any" => a.provider_type = policy.provider_type
-------------------------------------------------------------------------------
(* What makes a list of nodes a tree that was read from a file.              *)
IsLogic(logic) ==
  /\ logic # <<>>
  /\ logic \in Seq(Range(logic))
  /\ \A i \in DOMAIN logic :
       /\ logic[i].type = "fail_when" => logic[i].condition \in (i + 1)..Len(logic)
       /\ logic[i].type = "compound" => logic[i].conditions \in Seq((i + 1)..Len(logic))

(* The same policy with every list of conditions in the reverse order.       *)
Reversed(logic) ==
  [i \in DOMAIN logic |->
     IF logic[i].type # "compound" THEN logic[i]
     ELSE [type |-> "compound", operator |-> logic[i].operator,
           conditions |-> Reverse(logic[i].conditions)]]

===============================================================================
