# Specifications of the DRANTIQ platform backend

TLA+ modules, TLC configurations and TLAPS proofs for the Python backend under
`src/src/platform_backend`: the API, the ingest worker and the policy worker
that turn a cloud account into an inventory, findings and compliance scores.
Paths below are relative to `src/src/platform_backend` unless they start with
`src/`. `PROJECT.json` maps every definition to the lines it stands for.

## 1. The system

```
 POST /v1/scans          platform:collect.<provider>           platform:events
 api: create_scan  ---->  Redis list  ---->  collector  ---->   Redis list
                                            (other repo)            |
                                                                    v
 GET reports  <----  PostgreSQL  <----  policy worker  <----  ingest worker
                                              ^                     |
                                              +--- Redis list ------+
                                             platform:policy.evaluate
```

Everything meets in one PostgreSQL database and one Redis. `DatabasePool` opens
a transaction per statement unless a repository asks for a longer one, queues
are `lpush`/`brpop` lists (an element that is popped is gone), the Redis
container has no volume, and containers restart when they die. No lock, no
`SELECT ... FOR UPDATE` and no conditional status write exists, except the two
`WHERE status = 'pending'` updates of invitations; unique keys do the rest.

| component | state | operations | what makes it hard | what makes it correct |
|---|---|---|---|---|
| scan service (`platform/services/scan_service.py`) | scan and collection-run rows | create_scan, reads | three calls, each may raise after taking effect | a scan that was answered 201 has a job, and ends |
| collectors (another repository) | one job | started, completed, failed | only their messages are known | taken as sending one report |
| ingest worker (`assets/ingest/worker.py`) | an envelope in hand | handle_event, two except branches | some fifteen awaits per envelope, crash loses the envelope | nothing is evaluated before the inventory is whole |
| normaliser, writer (`assets/ingest`) | resources, relationships | normalize_bronze, inserts | forty identity rules, ON CONFLICT DO NOTHING | no resource vanishes in another one |
| policy worker (`policy/worker.py`) | an envelope in hand | handle_event, except branch | status checked and written in two transactions | one evaluation, scores that stand on all findings |
| policy logic (`policy/engine/evaluator.py`) | none | field checks, compounds | null, absent and raising operands | a verdict that follows the settings delivered |
| findings, compliance (`findings/repository.py`, `compliance/`) | evaluation run, findings, control results, scores | upserts | one statement per row | counts, controls and scores agree |
| reports (`api/routes/scans.py`, `compliance.py`) | none | risk summary, fix list, matrix, coverage | several reads while the worker writes, page limits | a report that is served is whole |
| risk ranking (`findings/experience.py`) | none | risk signals, sort key, the lists built on them | additive bonuses, lists cut twice, by the text of the severity and by rank | severity is never outbid, the worst is never cut |
| admin reads (`api/routes/admin.py`, `platform/repositories/admin.py`) | none | overview, list_scans | one statement per tenant and status while scans move | no active scan slips through, no recent one is cut |
| Azure integrations (`scan_service.py`, `platform/integrations`) | the row: secret, status | register, verify, rotate, mark invalid | a call to Azure between read and write | only verified secrets, no invalid without a reason, no stale verdict after Azure answered |
| workspaces, invitations, admin (`platform/repositories`) | tenants, users, memberships, invitations | create, accept, revoke, expire, provision | check and write in different transactions | one workspace per account, no slug twice, authority handed down |
| identity (`identity/`) | none | resolve_membership, require_write_access | the principal is stale while used | whoever invites administered |
| rate limit (`api/middleware/security.py`) | Redis keys, a dictionary | dispatch | two counters, a clock read twice | refusals are earned, the quota at most doubles, plus one quota per lost counter |
| billing, health, observability, settings, catalogue loading, encryption at rest | see PROJECT.json | | stubs, static data or library calls | not modelled |

`PROJECT.json` lists all parts with their status, and 40 hazards at the lines
where they bite, each with the properties that watch it.

## 2. The modules

| module | models | built on |
|---|---|---|
| `ScanModel` | statuses, `ALLOWED_TRANSITIONS` | |
| `ScanLifecycle` | abstract specification of a scan's status | `ScanModel` |
| `ScanStore` | database rows, queues, calls that raise, Redis restart | `ScanModel` |
| `ScanService` | `create_scan`, and collectors by their messages | `ScanStore` |
| `IngestWorker` | `handle_event`, `_handle_collection_completed` | `ScanStore` |
| `PolicyWorker` | `handle_event` of the policy worker | `ScanStore` |
| `ScanPipeline` | the three composed; fairness; properties | the five above |
| `ScanPipelineInvariants` | the inductive invariants | `ScanPipeline` |
| `ScanPipelineProofs` | TLAPS proofs | `ScanPipelineInvariants` |
| `ComplianceResults` | one evaluation, finding by finding, control by control | |
| `ScanReports` | the reports read while that goes on | `ComplianceResults` |
| `ScanReportProofs` | TLAPS proofs about both | `ScanReports` |
| `PolicyLogic` | the logic of a policy, a list of nodes, over small values | |
| `AssetNormalizer` | identities, defaults, relationships per provider type | `PolicyLogic` |
| `AssetEvaluation` | bronze files, one by one, to verdicts | `AssetNormalizer` |
| `AssetEvaluationProofs` | TLAPS proofs about the three | `AssetEvaluation` |
| `RiskRanking` | risk score and order of failures: operators only | |
| `FindingViews`, `FindingViewProofs` | risk summary, fix priorities, risk of a resource, with their limits | `RiskRanking` |
| `AdminReads`, `AdminReadProofs` | the operator's overview and scan list, while scans move | `ScanLifecycle` |
| `AzureIntegration`, `AzureIntegrationProofs` | integration row, requests, collections | |
| `Workspaces`, `WorkspacesProofs` | tenants, memberships, invitations, the admin | |
| `RateLimit`, `RateLimitProofs` | the middleware | |
| `MC...` | instances for TLC | |

### The scan pipeline

`db[s]` is the row of scan `s` in every table; `platformEvents`, `policyQueue`
and `collectJobs` are the Redis lists. An API request, a collector and each
worker have a `pc`; between two values of it lies one awaited call whose place
in the order matters. Calls that only read what no property tells apart, or what
nobody else writes, are joined with their neighbour. A statement either commits, or
raises having committed or not (`WriteOrNot`, counted by `Raises`); a push
likewise. A raise takes the worker where the code's `except` takes it: the ingest
worker to `on_error`, which marks the scan failed, or, outside
`_handle_collection_completed`, to the log and the next envelope; the policy
worker to `fail_run` and the rest of its except branch (run failed, scan failed,
`scan.completed`), or, before `start_run`, to the next envelope. `IngestCrash` and
`PolicyCrash` forget the envelope in hand, `RedisRestart` all queues. A snapshot is a set of resources; which ones
ingestion inserts follows the manifest. `AssetLimit` is the `limit=5000` of
`assets.list`.

`ScanPipeline` treats `evaluate_scan` and `map_scan` by the statements that
decide between whole and partial results; `ComplianceResults` opens them up to
the single upsert. It follows one worker, which is what `OneEvaluationPerScan`,
proved for the pipeline, permits. Its worker may stop at any statement (no
property assumes it goes on), so a crash needs no action of its own. `completed`
and `completed_with_errors` are one state there.

`ScanReports` adds one request at a time: each query of a report is a step. The
order of two rows of one severity on a page is left open. Every framework of the
registry is scored, but `src/generated/migrations/017_commercial_compliance.sql:16`
makes `cis_aws_v6` invisible to customers; `CustomerVisible` is the set of the
others. A customer's request asks for the framework before its score
(`ReadFramework`): of a hidden one the matrix is answered 404 and the risk
summary goes on without a score. A `super_admin` sees the matrix of either
(`MayRead`).

`AssetEvaluation` keeps, of a bronze item, its type, region, name, whether the
collector gave an explicit id, its network, and three properties, which stand
for the ways `normalize_bronze` fills properties in: copied (`plain`), replaced
by a default that means "off" when absent (`defaulted`), and reached through a
nested dictionary (`nested`). A few EC2 defaults are "on"; they are not
represented, and `UndeliveredFailsClosed` speaks of the ones that are off. An id
leaves out the account, which is that of the scan, and the partition, which the
code writes as `aws` in every ARN it makes; the region is taken as delivered.
`NormalizeFile` is one turn of the worker's loop over the files; a row is stored by
`InsertResource`, one at a time, `ON CONFLICT DO NOTHING`.

Snapshots are ones an account can have (`IsSnapshot`): a file has items of one
provider type, a provider type one resource type, a region one recorder and one
detector, and a replication group has a region and is delivered with its ARN or
without, not both. Replication groups without an ARN share an id across regions:
`AmbiguousCaches` names that case, and `EveryResourceIsJudged` and
`UndeliveredFailsClosed` exclude it.

A policy (`PolicyLogic`) is the list of its nodes as the YAML file has them, the root
first; a compound names its conditions by their places, which come later in the
list (`IsLogic`). `Values` is the value of every node, `evaluate_condition` called
on each. `fail_when` wraps one condition at the root; below it,
`evaluate_condition` refuses it, and the verdict is `error`.

### Views of the findings

`FindingViews` stores any set of findings, up to `MaxRows`, and serves one
response from it. A response is one query, cut at its limit in the order
`severity, policy_id, resource_id` of the SQL, in which the severity is TEXT
(critical, high, info, low, medium), and then ranking in Python
(`RiskRanking`). The limits of the code (500, 100) are `PageLimit` and
`ResourceLimit`; `TopN` and `MaxItems` are the parameters of the requests. The
instance has no finding of severity `info`: no policy of the catalogue has it
(`info` with every bonus, 32, would rank before a plain `low`, 28). A policy is
about identity by its resource type or by the prefix of its id
(`findings/experience.py:177`), which is the field `iam` of a finding: AWS_IAM_012
is about instances. `ViewsAssumption` says that no policy with that prefix is
about a bucket, a database or a file system, as in the catalogue; otherwise the
bonuses of one finding would add up to 25, more than lie between two severities. Unlike `ScanReports`, the rows do not change while a request reads them, because it
reads them once.

### The operator's view

`AdminReads` composes the admin routes with the ABSTRACT life cycle: a scan moves
as `ScanLifecycle` allows, slips included, which `ScanProgress` shows the pipeline
to implement. Each statement of `admin_overview` (a status, a tenant) and of
`list_scans` (a tenant) is a step; `list_tenants` runs again for every status.
`updated_at` is the number of the last move, below 1 for those made before the
request began, so that the first `Limit` rows of a table or of the merged list are those
with fewer than `Limit` later ones. Counts are kept as the sets of scans
they count, so that a property can speak of a scan. Every write of a status is a
move, one that sets the same status again excepted. The rest of the overview
(tenants, users, integrations, queue depths) counts what does not move in stages
and is left out, and so is `get_scan_detail`.

### Azure integrations

The row holds which secret is stored, not its encryption. A verify or rotate
request reads, waits for Azure, and writes; `azure` may change its mind about a
secret at any time; a lost call is an outage, and `MaxOutages` bounds those. A
verdict is one of four: accepted, rejected at the token, forbidden at the subscription,
and `missing`, a lookup of the subscription that goes on failing in a way that does not count
as authentication (SubscriptionNotFound, `src/tests/test_azure_auth_errors.py:39`); it lasts
until Azure changes its mind. A refused and an unreachable token
request lead to the same writes and are one outcome (`token_failed`). `VerifyFailureIsAuth` follows the
error strings the code matches: every failure of the token request counts as
authentication. A collection takes the secret stored when its scan is created
and reports later; of the report only what
`mark_invalid_if_azure_auth_failure` looks at is kept (`Gist`: whether it blames the
secret, and whether the worker will mark the integration for it). `vouched` and `refused` are history.

### Workspaces

A request is a `pc` and what it read. A slug is chosen by reading which are free
(`resolve_unique_slug`) and inserted later, under its unique key
(`SlugKeyFree`): of two requests that chose one, the second raises. `AcceptCheck` and `AcceptCommit` are the
check and the writes of one transaction under READ COMMITTED: the unique key
on (auth_issuer, auth_subject) decides at the insert. A member's request first
reads its principal (`Authenticate`) and acts on it later. `super_admin`, which
only the admin gives, may do in its tenant what `tenant_admin` may, and is not
told apart; the admin routes are taken as authorised. The onboarding text and
the plan are kept out: no decision reads them. `joined`, `creator`, `admins` and
`provisioned` are history.

### Rate limit

A request computes its Redis key, waits, and decides on the answer; if the
pipeline raises, counted or not, the process counts it in the minute the clock
shows then. `RedisForgets` is a restart or an expiry. The process itself is
not restarted: a restart would empty the dictionary and, while Redis is away,
begin the quota once more.

## 3. The runs

| run | instance | what it shows |
|---|---|---|
| `ScanFaults` | 1 scan, 2 resources, 2 ingest and 2 policy workers, 2 frameworks, AssetLimit 1, 2 raises, 2 crashes | an accepted scan has a job, one evaluation at a time and none after another began, the inventory is whole before it, scores stand on all findings, completed means scored, the timeline is in order |
| `ScanProgress` | 2 scans, 1 resource, 1 ingest and 1 policy worker, 1 raise, 1 crash, `FairSpec` | refinement of `ScanLifecycle`, final status follows the collection, only a raise reopens a scan, a raise inside a try is reported, every queued scan ends |
| `ScanTerminalOverwritten` | 1 scan, 1 raise | violation, see section 6 |
| `ScanReports` | 3 assets, 3 matches, 7 controls in 2 frameworks, one of them hidden from customers, page of 3, 1 raise | controls follow findings and none is missing, scores follow controls, served reports are whole, a hidden framework is not served to customers |
| `AssetVerdicts` | see below | identities, relationships, verdicts |
| `TrailWithoutKeyPasses` | the same | violation |
| `FindingViews` | every set of up to 4 findings of 3 policies and resources, page of 3, 2 per resource, top 2, 2 fixes | severity first, top risks the worst, nothing grave is cut, counts and levels exact up to the limits |
| `AdminReads` | 3 scans of 2 tenants, any order, 4 starting statuses, 2 moves, limit 1 | no active scan slips through the counts, recent scans are listed |
| `AzureStatus` | 2 secrets, 2 requests, 1 collection, up to 3 errors, 1 outage | stored secrets were accepted, invalid has a reason, a stale verdict does not last once Azure keeps accepting or refusing |
| `Workspaces` | 2 accounts, 2 tenants, 3 users, 2 invitations, 2 requests, 1 slug, 1 provisioning | see below |
| `InviteUsedTwice` | 3 accounts, 1 tenant, 1 invitation, 2 requests | violation |
| `RateLimit` | 2 clients, 2 requests, limit 1, 2 minutes, 5 arrivals, 1 loss | refusals earned, quota at most doubled, plus once per lost counter |

**Why the bounds suffice.** Two workers of a kind are what a race needs, and the
invariants proved in section 5 cover any number. `ScanFaults` has two raises
because the second strikes the handler of the first, and two crashes because a
worker and the queue may both go; AssetLimit 1 under two resources makes the
limit bite. Scans interact only through queues, workers and the integration, so
the two of `ScanProgress` show head-of-line effects: one scan's raise or crash
must not stop the other. It has one raise and one crash, since its properties
say what holds until something goes wrong, and right after it went wrong once;
no authentication errors, whose only effect on scans is one more statement; and
no symmetry, which would be unsound for liveness; `AzureStatus` has none for the
same reason. The three controls with two policies give every
mixture of pass, fail, error and unmapped, and the framework with three
assessed controls makes rounding happen. `ComplianceResults` needs one raise: a
raise ends the worker's work. `AssetVerdicts` takes a trail with every combination
of absent, null, two texts and three numbers under every pair of field checks
(`and`, `or`, an unknown operator), nested trees and `fail_when` in and out of place,
and files of every known provider type with up to two items over two regions and
two names, replication groups encrypted or not, plus pairs of files of nine
representative types: an identity collision is between two items. What the
instance delivers twice it delivers the same; the proofs do not need that.
Three errors in an Azure report reach the threshold of the code. In `Workspaces`
one slug makes `resolve_unique_slug` run out, and two requests resolve the same one, the third user row is the one a
race would leave behind, and two requests are what every
race over one row needs. In `RateLimit` a limit of one is used up, doubled by a failover
and refused within five arrivals; counters are compared with the limit only, so
a larger one adds length and no case. In `FindingViews` four rows overflow a page
of three, three of one resource its limit of two, and the rows range over the
severities and results that a cut can confuse. In `AdminReads` a third scan makes
a tenant's page overflow, and two moves put two scans, or one scan twice, between
two statements.

**Deadlock.** A pipeline whose scans are all done, a policy judged on one
snapshot, a response that was served and a clock that reached its last
minute stop properly: these runs say `CHECK_DEADLOCK FALSE`. The Azure,
workspace and report models never stop, and their runs check it.

**What the workspace invariants say.** `TypeOK` holds that no two tenants have one
slug, besides the types of the rows. `AcceptedMeansJoined`: status and
membership agree, whatever revoke, preview and accept overlap.
`OneWorkspacePerAccount`: two requests of one account do not put it in two
places, although `create_workspace` checks outside its transaction.
`MembershipIsKept`, `StrayUsersAreProvisioned`: what is written together is
never seen apart. `InvitersWereAdmins`: a principal that was demoted or moved
while its request ran may still invite, but only into a tenant it administered.

**Fairness.** `FairSpec` asks for weak fairness of every request, collector and
worker separately. It is what the code gives: uvicorn serves a request it
accepted, `run_forever` pops for ever, `brpop` returns when a list is not empty,
and every awaited call has a timeout or returns. It is assumed in `ScanProgress`
only. Its liveness properties name what defeats them: `PollingEnds` holds while
nothing has raised or died, and `RaisedCallsAreReported` says that a call that
raises inside a try is answered by the except branch, unless the branch raises
too or its process dies. `StaleVerdictsDoNotLast` assumes no fairness but states its
premise: Azure settles on accepting or refusing, and verify is called, and
answers, again and again. It promises nothing where the lookup of the
subscription fails otherwise for ever (section 6).

**Mutants.** Each property is shown to depend on the code: for every one,
PROJECT.json holds a plausible bug (a dropped guard, an unconditional update, a
default kept out, a limit off by one) that makes the same run report it
violated.

## 4. Refinement

`ScanLifecycle` is what `platform/models/scan.py` promises, and what is left of
it when something goes wrong: a row is created and then moves along
`ALLOWED_TRANSITIONS`; once a call has raised or a process has died
(`disturbed`), a scan may also slip, that is skip stages or fail from any of
them, but never go back to an earlier stage. No writer of `scans.status` on the
pipeline consults the table. `LifecycleRefined`, with `status` mapped to
`db[s].status` and `disturbed` to `faults + crashes > 0`, is checked in
`ScanProgress`: with one ingest worker the order is kept nevertheless, because
queues are in order and an envelope is consumed once. With two ingest workers a
late `collection.started` puts a scan back to collecting without any fault; this
is the composition the deployment does not use (one container per worker), and
the reason for the single worker in the run. `AdminReads` is built on the same
abstract specification.

The run has two scans; `PipelineRefinesLifecycle` proves the same refinement for
any number of scans, policy workers, raised calls and crashes. Its hypothesis
`OneIngestWorker` is the deployment: `src/deploy/ec2/docker-compose.prod.yml:42`
starts one such container without replicas, and `src/docs/DEV_DOCKER.md:54` says
"only run one ingest".

## 5. What is proved

| theorem | module | for every |
|---|---|---|
| `TypeCorrect`, `HandOffHolds`, `OneEvaluationPerScan`, `InventoryBeforeEvaluation`, `ResultsHold`, `ScoresAreWhole`, `CompletedIsScored` | `ScanPipelineProofs` | set of scans, resources, frameworks, workers; bounds on raises and crashes |
| `RecordsHold`, `TimelineTellsStages`, `AcceptedHasJob` | `ScanPipelineProofs` | the same |
| `StatusHolds`, `FinalStatusIsRight`, `OnlyARaiseReopens`, `PipelineRefinesLifecycle` | `ScanPipelineProofs` | the same, with one ingest worker (`OneIngestWorker`) |
| `IntegrationTypeCorrect`, `OnlyVerifiedSecretsStored`, `InvalidHasReason` | `AzureIntegrationProofs` | set of secrets, requests, collections; bound on errors and outages |
| `RefusalsAreJustified`, `FailoverAtMostDoubles` (twice the limit, plus the limit per lost counter) | `RateLimitProofs` | set of clients, finite set of requests in flight, limit, clock, number of outages |
| `ControlsStandOnFindings`, `ScoresCountControls`, `MatricesAreWhole`, `ReportsAreWhole`, `CoverageIsExact` | `ScanReportProofs` | catalogue of policies and controls, inventory, mapping, page size, number of raises |
| `ViewsHold`, `FixListStartsWithSevere`, `TopRisksAreWorst`, `GraveAreListed`, `CountsAreHonest`, `LevelIsHonest` | `FindingViewProofs` | set of rows a table may hold, finite inventory, every limit; the second for tables without severity info (`NoInfo`) |
| `WorkspaceTypeCorrect`, `AcceptedIsJoined`, `OneEntryPerAccount`, `MembersStayMembers`, `NoStrayUsers`, `InvitersHadAuthority` | `WorkspacesProofs` | set of accounts, tenants, users, invitations, slugs and requests |
| `InventoryHolds`, `ResourcesAreJudged`, `InstancesReachTheirNetwork`, `JudgedByOwnSettings`, `UndeliveredFails`, `AnyOrderAgrees`, `OrderHasNoInfluence` | `AssetEvaluationProofs` | snapshot an account can deliver (any number of files, items, regions, names and values) and policy of any size and depth |
| `AdminReadsHold`, `OverviewIsComplete`, `ListIsComplete` | `AdminReadProofs` | finite set of scans and of tenants, the tenant of each, limit, filters, number of moves |

Assumptions are the named ones, and TLC evaluates them in every run:
`StoreAssumption` (the dummy value is not a scan, snapshots are sets of
resources, bounds are naturals), `NoneAssumption` and `BoundsAssumption` of
the Azure module, `LimitAssumption`, `CatalogAssumption` and
`ReportAssumption` (shape of the catalogue tables), `ViewsAssumption`
(fields of a finding, positive limits), `MatchingAssumption`,
`NoneAssumption` and `SlugAssumption` of the workspaces, `AdminAssumption`,
`MissingAssumption` (no value is not a value), `SnapshotAssumption` and
`PolicyAssumption` (what is delivered satisfies `IsSnapshot`, what is judged `IsLogic`). Some sets are
assumed finite, which they are in any run of the code: the requests in
flight, the controls of the catalogue, the assets of an account, the
inventory, and the tenants and scans an operator looks at. Without it a sum or a
limit over them would have no value; in `Workspaces` the accounts,
users, tenants and invitations need no such assumption.

**The hand-off.** `SingleEvaluation` says that at most one worker evaluates a scan,
and that a scan whose evaluation is still to come has no results, so that
there is no second evaluation after the first. It is not inductive: nothing in the policy
worker prevents two, since it reads the status at `worker.py:70` and
writes it at `:84`. What prevents them is upstream. The job of a scan is queued
once (`JobQueuedOnce`); so its collector sends one report, which is on the queue
or with one worker (`OneReport`); once `policy.evaluate` is out, the report is
gone or its worker is already in the handler of a push that raised
(`HandedOff`), from which it publishes nothing. Meanwhile the inventory is empty
until the report is taken (`UntouchedInventory`) and what a worker has written
is known at each of its steps (`IngestProgress`), which gives
`EvaluationSeesWholeInventory`. `HandOffInvariant` is the conjunction, with
`OneEvaluator`, the first half of `SingleEvaluation`; the second half follows
from `UntouchedResults` below. The proof
first says what a step may do to rows, queues and workers (`IngestStepEffect`,
`PolicyStepEffect`, lemmas per action) and then that such an effect keeps the invariant.
It rests on collectors reporting once per job, which is external to this
repository.

**The results.** `CompletedMeansScored` is not inductive either: what a worker
stores is whole only if nobody changes the inventory or the scores under its
hands. `ResultInvariant` adds that a scan has no findings, no scores and no
final status while its evaluation may still come (`UntouchedResults`, from
`EvaluationAhead`), and what the worker has stored at each of its steps
(`EvaluatingProgress`). `HandOffInvariant` gives that nothing is ahead any more
once a worker stores findings (`NothingAhead`). All steps of requests,
collectors, ingest workers and Redis, and most of the policy workers, are then
one lemma (`QuietStepKeepsResults`: they store no results, bring no evaluation
back, and change an inventory only while the evaluation is ahead); the seven
that list, evaluate, map and finish are `WorkingStepKeepsResults`.

**The timeline.** Two kinds of workers append to it, so `TimelineInOrder` needs what
each of them has on record when it acts: an envelope is recorded before its
branch runs (`EnvelopesRecorded`), hence `collection.completed` before
`policy.evaluate` is published (`CollectionRecorded`), and a policy worker has
recorded one entry before it comes to the next (`EvaluationRecorded`). With
`HandOffInvariant` (`inventory.updated` is there before the hand-off) and
`ResultInvariant` (the primary is scored before the final status is set) this
is `RecordInvariant`. A scan may be failed and reopened by raised calls (section
6): its timeline keeps the order even then. `AcceptedIsCollected` is inductive on
top of `TypeOK`.

**The status.** No writer of `scans.status` looks at the status it replaces, so
none of the three status theorems is inductive, and with two ingest workers
they are false. With one, the order of the messages does what the writers do
not: of two envelopes of a scan on `platform:events` the first is
`collection.started` and the second the report (`EventsInOrder`), and the
worker is done with the first before it pops the second. `WaitingFits`,
`HeldFits` and `EvaluationFits` say what the row holds while the scan waits for
a request, a collector, the queue or a policy worker, and at each step of the worker that
has it in hand (`IngestFits`, `PolicyFits`); where a raised call or a crash can have
left something else, they say what. That a scan has one report and one
evaluation is taken from `HandOffInvariant`. TLC checked the conjunction on one
and two scans before the proof. A step that moves a status is then of two
kinds only, a transition of the table or a slip after a disturbance, which is the
refinement; that nothing leaves a final status without a raise, and that the final
status is the status of the run, are read off the same invariant.

**Azure.** `IntegrationInvariant` adds that an answer held by a request is
evidence (`AnswersAreEvidence`: "ok" means the secret is in `vouched`, an
authentication failure means a refusal or an outage), the same for collections
(`ReportsAreEvidence`), and that requests wait only when a row exists
(`WaitersHaveRow`). Verify and rotate are one lemma, `FinishStep`.

**Rate limit.** `LimitInvariant` adds `CountsAreCounted`: no counter shows more than
was counted for that client in that minute, in Redis, in the dictionary, and in
the answer a request holds while the clock moves on.

For `QuotaAtMostDoubles` it is not enough to know what a counter shows: requests
that have been counted and not yet answered will be let through as well.
`RedisQuota` says that those admitted in a minute and those still holding a
number within the limit (`Waiting`) are together no more than the limit for each
lost counter plus what the present one has given out (`Spent`). `LocalQuota` is
the simpler side: the dictionary forgets nothing, so its count is all that was
counted. The proof counts the waiting requests by removing and adding one.

**Findings, controls, scores and reports.** `ControlsFollowFindings` compares a
stored row with the findings the table holds NOW, and a report compares rows it
read at different times. Both are true because the findings no longer change
once anything stands on them: `FindingsAreKeyed` says that while the worker still
evaluates there is one finding for each policy and asset it is done with, and no
control result, score or completed run. So `StoredRowsFollow`: a control result
is `AggregateControl` of the findings, a score `ComputeScore` of them, and where a
score is stored, or the scan is completed, the rows of its controls are all
there; the lemmas
about the two operators (a status partitions the controls, `RoundsHalfUp`) then
give the properties. For the reader, what it has read the tables still say
(`MatrixRead`, `RowsRead`, `CoverageRead`), and a client that saw the scan completed
has seen the end of all this (`SeenFinished`): it is served the score of every
framework it may read, and of no other. That the number of rows is the
number of distinct controls is `CountByBijection`.

**Views of the findings.** The table is cut twice, by the query in the order of
the severity's text and by the view in the order of the ranking, and each view
says something about rows it does not show. All lists are built from one
operator, `InOrder`, which puts each element at the place that the number of
elements before it gives. `InOrderLists` proves, by counting and without
induction, that this is a bijection that respects the order; `SortedSorts`,
`ElementsAtPicks`, `PageIsFirst` and `OncePerPolicyPicks` are its instances.
Two lemmas connect the orders: `RankFollowsSeverity` (the bonuses of a score
are at most 20, the distance of the bases at least that, except between low and
info) and `TextKeepsGrave` (critical and high sort first as text too). They say why the
properties are stated about critical and high only, and why `SevereFirst` needs
`NoInfo`: an exposed bucket of severity info scores 32, a plain low finding 28. The
policies under `src/policy/catalog` have four severities, and info is not among them.

**Workspaces.** The unique keys decide at the insert, but what is inserted was
read before. `RequestsStand` says what a waiting request may still rely on: the
invitation it found is never deleted, the user the admin inserted is referred
to by no membership and held by no other request, a principal that was
authorised has administered its tenant. `MembershipsStand` is the same for the
rows. That a tenant keeps its slug, and shares it with nobody, needs a second
invariant (`SlugInvariant`): a slug is written only at the insert, under its key
(`TenantsSlugged`), and the writes of a status, which name a tenant by what a
request or an invitation carries, reach only tenants that exist
(`RequestsCarry`, `AdminsHaveTenants`). `EntersOnce` states `OneWorkspacePerAccount` without counting (whoever entered
has a membership, which bars the next entry), from which the counted form
follows. Strays are counted without assuming finitely many users: each step adds
at most one, so their set stays finite (`StraysAreCounted`).

**The operator's view.** What a scan does between two statements is any step of
`ScanLifecycle`, so the proofs stand on the one fact that a step leading from one
status under way to another never leads back (`MovesForward`).
`SteadyAreAhead` then says of a scan that stays under way and is not yet counted that
its stage is at or after the one its tenant is asked for next (`Due`); a count that
does not meet it finds it later in the order of `Counted`, or between two stages.
For the list, `RowsStand` says of a recent scan that does not move that it is
listed or its tenant has still to be asked. Whoever is ahead of it stays ahead,
moved or not, a tenant is asked once (`EachOnce`) and a listed row is never newer
than its scan; hence fewer than `Limit` rows are ever before it (`FewRowsAhead`), which
serves for the cut of its tenant and for the cut of the merged list.

**Assets and verdicts.** What is said of delivered items holds at the end only, and
between the item and its verdict lie a list of rows that shrinks and a table that
silently refuses a second row of an id. `InventoryInvariant` says that every row,
stored or waiting, is that of an item of a file that was normalised
(`RowsAreDelivered`), that every such item has its row waiting or its id taken
(`ItemsAreKept`), the same of relationships, and that verdicts are those of the
rows. TLC checked it on the snapshots of `AssetVerdicts` before the proof.

`IdsAreIdentities` is about the forty rules of `resource_id`: a provider type is
named by one rule (`OneRulePerType`), each rule makes a tuple of what tells its
resources apart (`Identities`), so two items share an id exactly if they are one
resource, the ambiguous replication groups excepted. Ids with a verdict and cloud
resources a policy is about are then in bijection, which is
`EveryResourceIsJudged`; and the row of an id is that of the item in question, so
a verdict is what the policy says of the item's own settings (`VerdictsAreOwn`, which
TLC checked before and no run states; it excepts `AmbiguousCaches` and a resource
delivered twice with different settings, of which one is kept), and `UndeliveredFailsClosed` follows. The
proof failed at first for a good
reason: without ARN, an unencrypted replication group is hidden behind an
encrypted one of the same name in another region (section 6).

A recursive function is what its equation says only if some function satisfies the
equation. For the nodes of a policy `ValuesAreComputed` shows that one does: if
some stretch at the end of the list had no values, there would be a shortest such
stretch (`LeastNumber`, from the well-foundedness of the naturals), and
one node less has values, which give it its own (`ValueFromLater`). In the same way
two policies whose compounds have the same conditions in any order cannot differ
at a node, since they would not at the last one (`ReorderedHasTheSameResult`). That a
compound does not see the order is where the code evaluates all conditions
before `all` and `any` (`CompoundIgnoresOrder`).

**Only model-checked.** Liveness (`PollingEnds`, `RaisedCallsAreReported`,
`StaleVerdictsDoNotLast`), which is out of the prover's reach. Every other property
of a passing run is a theorem. The three violations are TLC's as well: they are
counterexamples.

## 6. Where the code and what is said of it differ

Three runs end in a counterexample; PROJECT.json quotes the lines.

* **`ScanTerminalOverwritten`.** A publish that raises after its envelope reached
  Redis marks the scan failed; the policy worker, which had read
  `inventory_ready`, then sets evaluating and completed. And a statement that
  raises after the final status was written turns completed into failed.
  `ReopenedOnlyAfterRaise` shows that nothing less than a raise does it.
* **`InviteUsedTwice`.** The status of an invitation is checked before the
  transaction that accepts it, and the last `UPDATE` names only the id: two
  accounts join through one invitation.
* **`TrailWithoutKeyPasses`.** `normalize_bronze` stores
  `"kms_key_id": item.get("KmsKeyId")`, null for a trail without a key; the operator
  `missing` holds only for a path that is not there. AWS_LOG_003 passes every
  trail and AWS_IAM_012 every instance. Of the same family: AWS_IAM_003 ends in
  `error` when the length is not delivered; AWS_IAM_004, AWS_IAM_005,
  AZURE_CMP_002 and AZURE_STG_003 pass on a null; AWS_S3_002 passes when the
  keys of the public access block are absent, since `ne` on a missing path is false.

Also seen while modelling, without a run of their own:

* A lost `collection.started` (a raise outside the guarded part is only logged)
  lets a scan go from queued to collected, against `ALLOWED_TRANSITIONS`.
* One raised call or a crash can leave a scan in a non-terminal status for ever:
  no envelope is redelivered and no scan times out.
  `src/deploy/ec2/PRE_CUSTOMER_CHECKLIST.md` says "Workers drop failed jobs today".
* A verify or a collection that took the old secret marks an integration invalid
  after it was rotated and healed (`scan_service.py:312`, `:395`).
  `StaleVerdictsDoNotLast` shows how it heals: by a verify, never by itself. An
  unreachable token endpoint marks it invalid too.
* A verify whose lookup of the subscription fails without counting as
  authentication (404 SubscriptionNotFound) leaves the status as it is
  (`scan_service.py:311`). If Azure goes on answering so, the integration stays
  active, or invalid, for ever, whatever was true before.
* `cis_aws_v6` is scanned and scored, and no customer can read its score: the
  risk summary of a completed scan has none, its matrix is a 404.
* Of an account with more than 5000 resources the rest is not evaluated
  (`policy/worker.py:88`): the scan completes, and nothing in its status tells.
* An invitation that was revoked after the check of a running acceptance is
  accepted all the same, and reads accepted.
* Risk summary and fix priorities compute over a page of 500: beyond it, failing
  resources count as protected, and, since severity is sorted as text, medium
  failures are cut before low ones. Passed rows of high severity push failures
  of medium and low severity off the page of the risk summary. Of critical and
  high failures `FindingViews` shows that none is lost to a lesser row.
* A risk summary of a scan still being evaluated may join partial findings with
  no score, or findings read before with a score written after.
* The score of a framework weighs all controls alike (`compliance/mapper.py:114`).
  `api/routes/scans.py:212` and `api/routes/compliance.py:60` call it "Weighted
  security assessment score".
* A compound `and` with no conditions fails.
* Replication groups of one name in two regions, delivered without ARN, share an
  id (`normalizer.py:234`): the second is not stored, and an encrypted one passes
  for an unencrypted one. This was found by the proof of `UndeliveredFailsClosed`.
* A `tenant_admin` of a suspended workspace lifts the suspension with
  ONBOARDING_COMPLETE (`platform/repositories/workspace.py:142`); no code
  looks at the status of the tenant when it authenticates.
* `create_membership` leaves a user row behind whenever its upsert fails or
  replaces another membership.
* Admin overview counts scans by status one query after the other: a moving scan
  may be counted twice, and one found as collected or inventory_ready is in
  none of the counts. `OverviewMissesOnlyHandOffs` shows that no other active scan
  is missed, because the statuses are counted in the order of the pipeline.

## 7. Not modelled

Collectors beyond their messages; row-level security; token verification and
the development header; encryption of secrets; formatting, texts, logs and
health; the loading of policies and frameworks from static files; billing (a
stub that overwrites a plan nothing reads); single-query reads, among them the
list of affected resources, asset search, inventory-completeness and the queue
depths of the admin overview; `get_scan_detail` of the admin, two statements
without a decision between them. Time exists only
where a decision reads it: the expiry of an invitation and the minute of the
rate limit.

## 8. Plan

Done, in this order: the pipeline with its store, service and workers; its
invariants and proofs; Azure integrations with proofs; workspaces; the evaluation
in detail and the reports on it; ranking; rate limit with proofs; assets and
policy logic; faults and crashes in the refinement and in the liveness of the
pipeline; the views of the findings; the operator's overview on the abstract life
cycle; stale Azure verdicts; frameworks hidden from customers; unique slugs; policies as lists of nodes, and the proofs about assets
and verdicts.

Next, models:

1. A restart of the API process in `RateLimit`, which loses the dictionary.
2. Token verification and principal resolution of `identity/` as a component of
   its own, composed with `Workspaces`.
3. Asset search and tenant scoping, with `X-Tenant` and row-level security.
4. Billing webhook and catalogue packs, if they gain state that decisions read.

Next, proofs:

1. The status theorems without `OneIngestWorker`, for a weaker statement: with two
   ingest workers only the hand-off, the results and the timeline are proved.
2. That the worker of `ComplianceResults` implements the two statements
   `ScanPipeline` keeps of it.

## 9. Running it

```
tlc -workers 2 -config ScanFaults.cfg MCScanPipeline    # about a minute each
tlapm ScanPipelineProofs.tla                             # the longest proof, some ten minutes
```

Every run ends within five minutes on two workers; the largest have a few
million states.
