---------------------------- MODULE AssetEvaluation ----------------------------
(*****************************************************************************)
(* From bronze files to verdicts: the ingest worker normalises every file of *)
(* a snapshot, stores the rows and then the relationships, and the policy    *)
(* worker judges a policy on the rows it reads back.  Each is done by one    *)
(* process at a time (see ScanPipeline); what raises here and when is        *)
(* modelled there too, and here only what the data of the snapshot decide.   *)
(*****************************************************************************)
EXTENDS AssetNormalizer

CONSTANTS
  Snapshots,   \* sequences of bronze files
  Policies(_)  \* the policies judged on a snapshot

(* The items of a snapshot, each at <<file, place in the file>>.             *)
Delivered(snapshot) == UNION {{f} \X DOMAIN snapshot[f].items : f \in DOMAIN snapshot}

ItemOf(snapshot, at) == snapshot[at[1]].items[at[2]]

(* What an account can deliver.  A collection plugin writes items of one     *)
(* provider type under one resource type; a region has one recorder and one  *)
(* detector, and a replication group is delivered with its ARN or without.   *)
IsSnapshot(snapshot) ==
  /\ snapshot \in Seq(Range(snapshot))
  /\ \A f \in DOMAIN snapshot : snapshot[f].items \in Seq(Range(snapshot[f].items))
  /\ \A f, g \in DOMAIN snapshot :
       snapshot[f].provider_type = snapshot[g].provider_type
         => snapshot[f].resource_type = snapshot[g].resource_type
  /\ \A at \in Delivered(snapshot) :
       LET item == ItemOf(snapshot, at)
       IN item.type = snapshot[at[1]].provider_type /\ (item.type = Cache => item.region # "")
  /\ \A a, b \in Delivered(snapshot) :
       LET i == ItemOf(snapshot, a)
           j == ItemOf(snapshot, b)
       IN i.type \in RegionalDefault \cup {Cache} /\ CloudIdentity(i) = CloudIdentity(j)
            => i.name = j.name /\ i.given = j.given

ASSUME SnapshotAssumption == \A s \in Snapshots : IsSnapshot(s)

ASSUME PolicyAssumption == \A s \in Snapshots : \A p \in Policies(s) : IsLogic(p.logic)

VARIABLES
  bronze,      \* the files of the snapshot
  policy,      \* the policy under evaluation
  pc,
  next,        \* the file normalised next
  resources,   \* normalised rows not stored yet
  rels,        \* relationships not stored yet
  rows,        \* assets.resources of the scan, by resource_id
  edges,       \* assets.relationships of the scan
  verdicts     \* findings of the policy, by resource_id

vars == <<bronze, policy, pc, next, resources, rels, rows, edges, verdicts>>

NoRows == [id \in {} |-> {}]

Init ==
  /\ bronze \in Snapshots
  /\ policy \in Policies(bronze)
  /\ pc = "normalize"
  /\ next = 1
  /\ resources = <<>>
  /\ rels = {}
  /\ rows = NoRows
  /\ edges = {}
  /\ verdicts = NoRows

(* for bronze in bronze_files: one item without its identity fails the whole *)
(* ingestion, and every file is normalised before the first row is stored.   *)
NormalizeFile ==
  /\ pc = "normalize" /\ next \in DOMAIN bronze
  /\ IF RaisesKeyError(bronze[next])
     THEN pc' = "failed" /\ UNCHANGED <<next, resources, rels>>
     ELSE /\ resources' = resources \o NormalizeBronze(bronze[next]).resources
          /\ rels' = rels \cup NormalizeBronze(bronze[next]).relationships
          /\ next' = next + 1
          /\ UNCHANGED pc
  /\ UNCHANGED <<bronze, policy, rows, edges, verdicts>>

NormalizedAll ==
  /\ pc = "normalize" /\ next \notin DOMAIN bronze
  /\ pc' = "insert_resources"
  /\ UNCHANGED <<bronze, policy, next, resources, rels, rows, edges, verdicts>>

(* ON CONFLICT (tenant_id, scan_id, resource_id) DO NOTHING                  *)
InsertResource ==
  /\ pc = "insert_resources"
  /\ IF resources = <<>> THEN pc' = "insert_relationships" /\ UNCHANGED <<resources, rows>>
     ELSE LET row == Head(resources)
          IN /\ rows' = [id \in DOMAIN rows \cup {row.id} |-> IF id \in DOMAIN rows THEN rows[id] ELSE row]
             /\ resources' = Tail(resources)
             /\ UNCHANGED pc
  /\ UNCHANGED <<bronze, policy, next, rels, edges, verdicts>>

InsertRelationships ==
  /\ pc = "insert_relationships"
  /\ edges' = edges \cup rels
  /\ rels' = {}
  /\ pc' = "evaluate"
  /\ UNCHANGED <<bronze, policy, next, resources, rows, verdicts>>

(* evaluate_scan for one policy: the rows that match, each judged once.      *)
EvaluatePolicy ==
  /\ pc = "evaluate"
  /\ LET matched == {id \in DOMAIN rows : MatchesAsset(policy, rows[id])}
     IN verdicts' = [id \in matched |-> Result(policy.logic, rows[id].properties)]
  /\ pc' = "done"
  /\ UNCHANGED <<bronze, policy, next, resources, rels, rows, edges>>

Next == NormalizeFile \/ NormalizedAll \/ InsertResource \/ InsertRelationships \/ EvaluatePolicy

Spec == Init /\ [][Next]_vars
-------------------------------------------------------------------------------
Collected == Delivered(bronze)

Item(at) == ItemOf(bronze, at)

(* Replication groups without ARN of one name in two regions share an id.    *)
AmbiguousCaches ==
  \E a, b \in Collected :
    /\ Item(a).type = Cache /\ Item(b).type = Cache
    /\ ~ Item(a).given /\ ~ Item(b).given
    /\ Item(a).region # Item(b).region /\ Item(a).name = Item(b).name

Subject(at) ==
  LET f == bronze[at[1]]
  IN /\ f.provider_type \in KnownTypes
     /\ f.resource_type = policy.resource_type
     /\ policy.provider_type \in {"any", f.provider_type}
     /\ Provider(f.provider_type) = policy.provider

(* Every resource of the kind a policy is about gets a verdict of its own,   *)
(* and nothing else gets one: no two resources of different regions or kinds *)
(* share a row, and a resource delivered twice has one (normalize_bronze,    *)
(* insert_resources, matches_asset).                                         *)
EveryResourceIsJudged ==
  pc = "done" /\ ~ AmbiguousCaches =>
    Cardinality(DOMAIN verdicts) = Cardinality({CloudIdentity(Item(at)) : at \in {c \in Collected : Subject(c)}})

(* A relationship leads from a stored resource to the network it names, when *)
(* that network is in the snapshot (normalizer.py:168 builds the ARN the VPC *)
(* was stored under).                                                        *)
RelationshipsConnect ==
  \A at \in Collected :
    LET item == Item(at)
    IN /\ pc = "done" /\ item.type = "aws_ec2_instance" /\ item.network # ""
       /\ \E v \in Collected : /\ Item(v).type = "aws_ec2_vpc" /\ Item(v).name = item.network
                               /\ Item(v).region = item.region
       => \E e \in edges : e[1] = ResourceId(item) /\ {e[1], e[2]} \subseteq DOMAIN rows

(* A policy that fails a resource for lacking a setting or having it off, as *)
(* 17 of the catalogue's do.                                                 *)
AbsentOrOff(logic) ==
  LET top == logic[Top(logic)]
      leaves == {logic[top.conditions[k]] : k \in DOMAIN top.conditions}
  IN /\ top.type = "compound" /\ top.operator = "or"
     /\ \A l \in leaves : l.type = "field_check"
     /\ {[path |-> l.path, operator |-> l.operator] : l \in leaves}
          = {[path |-> "defaulted", operator |-> o] : o \in {"missing", "eq"}}
     /\ \A l \in leaves : l.operator = "eq" => l.expected = PyFalse

(* Such a policy fails the resources whose collector left the setting out,   *)
(* because the normalizer stores "off" for it (normalizer.py:154 and others).*)
(* Another resource must not have taken the row: AmbiguousCaches again.      *)
UndeliveredFailsClosed ==
  pc = "done" /\ AbsentOrOff(policy.logic) /\ ~ AmbiguousCaches =>
    \A at \in Collected :
      /\ Subject(at) /\ Item(at).defaulted = Absent
      /\ \A c \in Collected : CloudIdentity(Item(c)) = CloudIdentity(Item(at)) => Item(c) = Item(at)
      => verdicts[ResourceId(Item(at))] = "fail"

(* The order in which a catalogue file lists its conditions has no influence *)
(* on a verdict, whatever they raise (_compound evaluates all of them).      *)
OrderIsIrrelevant ==
  pc = "done" =>
    \A id \in DOMAIN verdicts : verdicts[id] = Result(Reversed(policy.logic), rows[id].properties)

(* policy/catalog/policies/AWS_LOG_003.yaml: "CloudTrail trails must encrypt *)
(* logs with a KMS key": a resource without the setting a policy calls       *)
(* missing fails it.                                                         *)
MissingSettingFails ==
  LET top == policy.logic[Top(policy.logic)]
  IN pc = "done" /\ top.type = "field_check" /\ top.operator = "missing" /\ top.path = "plain" =>
       \A at \in Collected :
         Subject(at) /\ Item(at).plain = Absent => verdicts[ResourceId(Item(at))] = "fail"

===============================================================================
