--------------------------- MODULE MCAssetEvaluation ---------------------------
(*****************************************************************************)
(* Two kinds of snapshots: one trail with every combination of values, under *)
(* many policies; and files of every provider type with up to two items over *)
(* two regions and two names, under the policies that tell identities apart. *)
(*****************************************************************************)
EXTENDS AssetEvaluation

MCValues == {Num(0), Num(1), Num(2), Text(0), Text(1), PyNone, Absent}

Leaf(p, op, e) == [type |-> "field_check", path |-> p, operator |-> op, expected |-> e]

LeavesOf(p) ==
  {Leaf(p, op, Num(1)) : op \in {"eq", "ne", "gt", "gte", "lt", "lte"}}
    \cup {Leaf(p, op, {Num(1), Text(1)}) : op \in {"in", "not_in"}}
    \cup {Leaf(p, op, PyNone) : op \in {"true", "false", "missing", "exists", "like"}}

Node(op, places) == [type |-> "compound", operator |-> op, conditions |-> places]

FailWhen(place) == [type |-> "fail_when", condition |-> place]

Pairs ==
  {<<Node(op, <<2, 3>>), x, y>> : op \in {"and", "or", "xor"}, x \in LeavesOf("plain"), y \in LeavesOf("nested")}

Deep ==
  {<<FailWhen(2), Node(op, <<3, 4>>), Leaf("plain", top, Num(1)),
     Node(sub, <<5, 6>>), Leaf("nested", left, PyNone), Leaf("plain", "lt", Num(1))>>
     : op \in {"and", "or"}, sub \in {"and", "or"}, top \in {"eq", "ne", "gt"}, left \in {"true", "exists"}}

FailClosed ==
  <<FailWhen(2), Node("or", <<3, 4>>), Leaf("defaulted", "missing", PyNone), Leaf("defaulted", "eq", PyFalse)>>

(* The catalogue's form, and what evaluate_condition refuses.                *)
Wrapped ==
  {<<FailWhen(2), l>> : l \in LeavesOf("plain")} \cup {<<FailWhen(2), FailWhen(3), Leaf("plain", "true", PyNone)>>}

Logics ==
  {<<l>> : l \in LeavesOf("plain")} \cup Pairs \cup Deep \cup Wrapped
    \cup {FailClosed, <<Node("and", <<>>)>>, <<Node("or", <<>>)>>}

ResourceType(type) ==
  CASE type \in {"aws_ec2_instance", "azure_virtual_machine"} -> "compute.instance"
    [] type \in {"aws_iam_account", "aws_iam_account_password_policy", "azure_subscription"} ->
         "identity.account"
    [] OTHER -> type

NewItem(type, region, name, given, network, plain, defaulted, nested) ==
  [type |-> type, region |-> region, name |-> name, given |-> given, network |-> network,
   plain |-> plain, defaulted |-> defaulted, nested |-> nested]

File(type, items) ==
  [provider_type |-> type, resource_type |-> ResourceType(type), items |-> items]

(* A replication group may be encrypted.                                     *)
Encryptions(type) == IF type = Cache THEN {Absent, Num(1)} ELSE {Absent}

Networks(type) == IF type \in {"aws_ec2_instance", "azure_virtual_machine"} THEN {"", "one"} ELSE {""}

ItemsOf(type) ==
  {NewItem(type, region, name, given, network, Absent, encrypted, Absent) :
     region \in {"east", "west"}, name \in {"one", "two"}, given \in BOOLEAN,
     network \in Networks(type), encrypted \in Encryptions(type)}

FewItemsOf(type) == {i \in ItemsOf(type) : i.given /\ i.name = "one"}

Representatives ==
  {"aws_ec2_vpc", "aws_ec2_instance", "azure_virtual_machine", "azure_virtual_network",
   "aws_account_ebs_encryption", "aws_iam_account", "azure_subscription", Bucket, Cache}

ValueSnapshots ==
  {<<File("aws_cloudtrail_trail", <<NewItem("aws_cloudtrail_trail", "east", "one", TRUE, "", p, d, n)>>)>> :
     p \in MCValues, n \in MCValues, d \in {Absent, Num(1)}}

(* A region has one recorder and one detector, and what is delivered twice   *)
(* is delivered the same.                                                    *)
Agree(i, j) ==
  i.region = j.region /\ (i.type \in RegionalDefault \/ i.name = j.name) => i = j

OneFile(type) ==
  {<<File(type, <<i>>)>> : i \in ItemsOf(type)}
    \cup {<<File(type, p)>> : p \in {q \in ItemsOf(type) \X ItemsOf(type) : Agree(q[1], q[2])}}

TwoFiles ==
  UNION {{<<File(t, <<i, j>>), File(u, <<k>>)>> : i \in FewItemsOf(t), j \in FewItemsOf(t), k \in FewItemsOf(u)} :
           t \in Representatives, u \in Representatives}

MCSnapshots ==
  ValueSnapshots \cup UNION {OneFile(t) : t \in KnownTypes \cup {"aws_sns_topic"}} \cup TwoFiles

Policy(provider, resource_type, provider_type, logic) ==
  [provider |-> provider, resource_type |-> resource_type, provider_type |-> provider_type, logic |-> logic]

(* The trail is judged by every logic; the others by two policies about the  *)
(* kind of their first file, one of which does not name a provider type.     *)
MCPolicies(snapshot) ==
  LET first == snapshot[1]
  IN IF snapshot \in ValueSnapshots
     THEN {Policy("aws", first.resource_type, "aws_cloudtrail_trail", l) : l \in Logics}
     ELSE {Policy(Provider(first.provider_type), first.resource_type, t, FailClosed) :
             t \in {"any", first.provider_type}}

===============================================================================
