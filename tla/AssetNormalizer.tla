---------------------------- MODULE AssetNormalizer ----------------------------
(*****************************************************************************)
(* assets/ingest/normalizer.py: from the items a collector delivered to the  *)
(* rows of the inventory.  An item is a cloud resource: its provider type,   *)
(* region and name, whether the key its identity is taken from was delivered *)
(* (given), the networks it is attached to, and three properties, one for    *)
(* each way the normalizer fills a property in.  An identity is a tuple      *)
(* <<type, region, name>>; Absent is a key the collector left out.           *)
(*****************************************************************************)
EXTENDS PolicyLogic

CONSTANT Absent   \* the collector left the key out

Global == "global"

(* Provider types by the rule that names their resources.  The item's own    *)
(* ARN or Azure id, KeyError without it:                                     *)
IamTypes == {"aws_iam_user", "aws_iam_server_certificate", "aws_iam_access_analyzer"}
DatabaseTypes ==
  {"aws_rds_instance", "aws_rds_cluster", "aws_rds_snapshot", "aws_dynamodb_table"}
GovernanceTypes == {"aws_cloudtrail_trail", "aws_kms_key", "aws_ec2_vpc", "aws_securityhub_hub"}
AzureOwnTypes ==
  {"azure_storage_account", "azure_network_security_group", "azure_virtual_network",
   "azure_virtual_machine", "azure_managed_disk", "azure_key_vault", "azure_sql_server",
   "azure_postgresql_server"}
OwnId == IamTypes \cup DatabaseTypes \cup GovernanceTypes \cup AzureOwnTypes
           \cup {"aws_lambda_function"}

(* An ARN built from the region and the item's own name, KeyError without it:*)
Regional ==
  {"aws_ec2_instance", "aws_efs_file_system", "aws_ec2_security_group", "aws_ec2_ami",
   "aws_ebs_snapshot", "aws_ebs_volume", "aws_ec2_network_acl"}

(* The same, with a stand-in for a name that was not delivered:              *)
RegionalDefault == {"aws_config_configuration_recorder", "aws_guardduty_detector"}

(* One resource in each region, and one in the account:                      *)
RegionSingletons == {"aws_account_ebs_encryption", "aws_ec2_account_setting"}
AccountSingletons ==
  {"aws_iam_account", "aws_iam_account_password_policy", "azure_subscription", "azure_defender"}

Bucket == "aws_s3_bucket"
Cache == "aws_elasticache_replication_group"

KnownTypes ==
  OwnId \cup Regional \cup RegionalDefault \cup RegionSingletons \cup AccountSingletons
    \cup {Bucket, Cache}

(* _cloud_provider: by the prefix of the provider type                       *)
Provider(type) ==
  IF type \in AzureOwnTypes \cup {"azure_subscription", "azure_defender"} THEN "azure" ELSE "aws"

(* item["Arn"] and the like of an item that does not have it.                *)
KeyError(item) ==
  ~ item.given /\ item.type \in OwnId \cup Regional \cup {Bucket}

(* Mutant: the account's singletons forget the region they are in.           *)
ResourceIdGlobalSingletons(item) ==
  CASE item.type \in OwnId \cup Regional -> <<item.type, item.region, item.name>>
    [] item.type \in RegionalDefault ->
         <<item.type, item.region, IF item.given THEN item.name ELSE "default">>
    [] item.type \in RegionSingletons \cup AccountSingletons -> <<item.type, Global, "account">>
    [] item.type = Bucket -> <<item.type, Global, item.name>>
    [] item.type = Cache ->
         IF item.given THEN <<item.type, item.region, item.name>> ELSE <<item.type, "", item.name>>

(* resource_id.  A replication group without an ARN goes by its bare name.   *)
(* The account id and the partition of an ARN are left out, as one for all   *)
(* items of a scan; the region is taken as delivered.                        *)
ResourceId(item) ==
  CASE item.type \in OwnId \cup Regional -> <<item.type, item.region, item.name>>
    [] item.type \in RegionalDefault ->
         <<item.type, item.region, IF item.given THEN item.name ELSE "default">>
    [] item.type \in RegionSingletons -> <<item.type, item.region, "default">>
    [] item.type \in AccountSingletons -> <<item.type, Global, "account">>
    [] item.type = Bucket -> <<item.type, Global, item.name>>
    [] item.type = Cache ->
         IF item.given THEN <<item.type, item.region, item.name>> ELSE <<item.type, "", item.name>>

(* item.get(key): the key is always in the stored properties.                *)
Plain(v) == IF v = Absent THEN PyNone ELSE v

(* item.get(key, False).  A few settings of instances default to on instead. *)
(* Mutant: the default is forgotten.                                         *)
DefaultForgotten(v) == Plain(v)
Defaulted(v) == IF v = Absent THEN PyFalse ELSE v

(* A key inside the block item.get("PublicAccessBlock", {})                  *)
Nested(v) == IF v = Absent THEN Missing ELSE v

Properties(item) ==
  [plain |-> Plain(item.plain), defaulted |-> Defaulted(item.defaulted),
   nested |-> Nested(item.nested)]

(* _append_resource                                                          *)
Row(item, resource_type) ==
  [id |-> ResourceId(item), provider |-> Provider(item.type), provider_type |-> item.type,
   resource_type |-> resource_type, properties |-> Properties(item)]

(* The ARN an instance's relationship names its VPC by.  The code builds it  *)
(* with the partition "aws" and the account id of the scan, while the row of *)
(* the VPC has the ARN delivered for it, here of the same two.  Delivered    *)
(* ids of the networks of a virtual machine are used as they are.            *)
VpcWithoutRegion(item) == <<"aws_ec2_vpc", Global, item.network>>
VpcArn(item) == <<"aws_ec2_vpc", item.region, item.network>>

Relationships(item) ==
  IF item.network = "" THEN {}
  ELSE CASE item.type = "aws_ec2_instance" -> {<<ResourceId(item), VpcArn(item), "member_of">>}
         [] item.type = "azure_virtual_machine" ->
              {<<ResourceId(item), <<"azure_virtual_network", item.region, item.network>>, "member_of">>,
               <<ResourceId(item), <<"azure_network_security_group", item.region, item.network>>,
                 "protected_by">>}
         [] OTHER -> {}

(* normalize_bronze: items of a type it does not know are skipped.           *)
NormalizeBronze(bronze) ==
  IF bronze.provider_type \notin KnownTypes THEN [resources |-> <<>>, relationships |-> {}]
  ELSE [resources |-> [i \in DOMAIN bronze.items |-> Row(bronze.items[i], bronze.resource_type)],
        relationships |-> UNION {Relationships(bronze.items[i]) : i \in DOMAIN bronze.items}]

RaisesKeyError(bronze) ==
  /\ bronze.provider_type \in KnownTypes
  /\ \E i \in DOMAIN bronze.items : KeyError(bronze.items[i])
-------------------------------------------------------------------------------
(* What tells two resources apart in the cloud.                              *)
CloudIdentity(item) ==
  CASE item.type \in AccountSingletons -> <<item.type>>
    [] item.type \in RegionSingletons \cup RegionalDefault -> <<item.type, item.region>>
    [] item.type = Bucket -> <<item.type, item.name>>
    [] OTHER -> <<item.type, item.region, item.name>>

===============================================================================
