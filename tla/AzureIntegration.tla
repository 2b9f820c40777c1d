---------------------------- MODULE AzureIntegration ----------------------------
(*****************************************************************************)
(* One Azure integration: its stored client secret and its status, written   *)
(* without a lock by verify and rotate-secret requests, which read the row,  *)
(* wait for Azure and then write, and by the reports of collections, whose   *)
(* jobs carry the secret that was stored when the scan was created.          *)
(*****************************************************************************)
EXTENDS Integers, FiniteSets

CONSTANTS
  Secrets,      \* the client secrets of the service principal
  None,
  Requests,     \* the requests the API may be serving at once
  Collections,  \* the collections that may run at once
  MaxErrors,    \* bound: errors one collection reports
  MaxOutages    \* bound: answers lost between the API and Azure

ASSUME NoneAssumption == None \notin Secrets
ASSUME BoundsAssumption == MaxErrors \in Nat /\ MaxOutages \in Nat

VARIABLES
  integration,  \* the row: secret and status, or no row yet
  azure,        \* azure[k]: what Azure makes of secret k
  outages,
  request,      \* request[q]: where a verify or rotate request stands
  collection,   \* collection[c]: where a collection stands
  vouched,      \* history: the secret of the registration, and those Azure accepted
  refused       \* history: Azure has refused a secret

history == <<vouched, refused>>
vars    == <<integration, azure, outages, request, collection, vouched, refused>>

(* What Azure makes of a secret: no token for it, a token that may not read  *)
(* the subscription, a token under which the lookup fails otherwise, or a    *)
(* token that works.                                                         *)
Verdicts == {"rejected", "forbidden", "missing", "accepted"}

Answers == {"ok", "token_failed", "lookup_forbidden", "other"}

(* Mutant: a forbidden lookup of the subscription is not among the markers.  *)
VerifyFailureIsToken(answer) == answer = "token_failed"

(* verify_failure_is_auth, on what verify_subscription_access raises.  Every *)
(* failure of the token request says "Azure AD token request failed", which  *)
(* is one of the markers, be it an HTTP error or no connection at all.       *)
VerifyFailureIsAuth(answer) ==
  answer \in {"token_failed", "lookup_forbidden"}

(* What a collection reports: collection.failed has an error, both events    *)
(* may have a list of errors, hits of which are about authentication.        *)
Reports ==
  { r \in [error : {"none", "auth", "other"}, hits : 0..MaxErrors,
           total : 0..MaxErrors, empty : BOOLEAN] : r.hits <= r.total }

CollectionErrorsIndicateAuthFailure(report) ==
  report.total > 0 /\ report.hits = report.total

(* Mutant: errors of any kind mark the integration.                          *)
ShouldMarkOnAnyError(report) ==
  report.error # "none" \/ report.total >= 3

ShouldMark(report) ==
  \/ report.error = "auth"
  \/ /\ CollectionErrorsIndicateAuthFailure(report)
     /\ report.empty \/ report.total >= 3

(* All that matters of a report: whether it blames the secret, and whether   *)
(* the ingest worker will mark the integration for it.                       *)
Gist(report) ==
  [blames |-> report.error = "auth" \/ report.hits > 0, mark |-> ShouldMark(report)]

Gists == {Gist(report) : report \in Reports}

Idle == [op |-> "none", pc |-> "idle", secret |-> None, answer |-> "other"]
NotCollecting == [pc |-> "idle", secret |-> None, mark |-> FALSE]

Init ==
  /\ integration = [secret |-> None, status |-> "none"]
  /\ azure \in [Secrets -> Verdicts]
  /\ outages = 0
  /\ request = [q \in Requests |-> Idle]
  /\ collection = [c \in Collections |-> NotCollecting]
  /\ vouched = {}
  /\ refused = FALSE

Exists == integration.status # "none"

update_status(status) == integration' = [integration EXCEPT !.status = status]

(* register_azure stores the secret unverified, with the default status.     *)
NewRow(k) == [secret |-> k, status |-> "active"]

(* A second registration for the subscription breaks the unique key and      *)
(* answers 409.                                                              *)
Register(k) ==
  /\ ~Exists
  /\ integration' = NewRow(k)
  /\ vouched' = {k}
  /\ UNCHANGED <<azure, outages, request, collection, refused>>

(* Azure itself: secrets expire, are revoked and created, roles come and go, *)
(* and so do subscriptions.                                                  *)
AzureChanges(k, verdict) ==
  /\ azure[k] # verdict
  /\ azure' = [azure EXCEPT ![k] = verdict]
  /\ UNCHANGED <<integration, outages, request, collection, history>>

(* Mutant: a missing row is not answered with 404.                           *)
StartWithoutRow(q, op, k) ==
  /\ request[q].pc = "idle"
  /\ request' = [request EXCEPT ![q] = [op |-> op, pc |-> "asked", secret |-> k, answer |-> "other"]]
  /\ UNCHANGED <<integration, azure, outages, collection, history>>

Start(q, op, k) ==
  /\ request[q].pc = "idle"
  /\ Exists
  /\ request' = [request EXCEPT ![q] = [op |-> op, pc |-> "asked", secret |-> k, answer |-> "other"]]
  /\ UNCHANGED <<integration, azure, outages, collection, history>>

(* verify_azure tests the secret it reads from the row.                      *)
VerifyRead(q) == Start(q, "verify", integration.secret)

(* rotate_azure_secret tests the secret of its request.                      *)
RotateRead(q, k) == Start(q, "rotate", k)

(* A lookup that ends with any other error, SubscriptionNotFound say, is not *)
(* about authentication, however often it is repeated.                       *)
AzureAnswers(k) ==
  CASE azure[k] = "accepted"  -> "ok"
    [] azure[k] = "forbidden" -> "lookup_forbidden"
    [] azure[k] = "missing"   -> "other"
    [] azure[k] = "rejected"  -> "token_failed"

Answered(q, answer) ==
  [op |-> request[q].op, pc |-> "answered", secret |-> request[q].secret, answer |-> answer]

(* verify_subscription_access, in a thread: a token, then the subscription.  *)
AzureDecides(q) ==
  LET k == request[q].secret
      answer == AzureAnswers(k)
  IN /\ request[q].pc = "asked"
     /\ request' = [request EXCEPT ![q] = Answered(q, answer)]
     /\ vouched' = IF azure[k] = "accepted" THEN vouched \cup {k} ELSE vouched
     /\ refused' = (refused \/ azure[k] \in {"rejected", "forbidden"})
     /\ UNCHANGED <<integration, azure, outages, collection>>

(* The network or Azure fails, in either of the two calls.                   *)
AzureUnavailable(q, answer) ==
  /\ request[q].pc = "asked"
  /\ outages < MaxOutages
  /\ outages' = outages + 1
  /\ request' = [request EXCEPT ![q] = Answered(q, answer)]
  /\ UNCHANGED <<integration, azure, collection, history>>

Finish(q, op) ==
  /\ request[q].pc = "answered"
  /\ request[q].op = op
  /\ request' = [request EXCEPT ![q] = Idle]
  /\ UNCHANGED <<azure, outages, collection, history>>

VerifyFinish(q) ==
  /\ Finish(q, "verify")
  /\ CASE request[q].answer = "ok" -> update_status("active")
       [] VerifyFailureIsAuth(request[q].answer) -> update_status("invalid")
       [] OTHER -> UNCHANGED integration

(* Mutant: the new secret is stored before Azure's answer is looked at.      *)
RotateUnchecked(q) ==
  /\ Finish(q, "rotate")
  /\ integration' = [secret |-> request[q].secret, status |-> "active"]

(* A refused new secret marks the integration although the row keeps the old *)
(* one; an accepted one replaces secret and status in one UPDATE.            *)
RotateFinish(q) ==
  /\ Finish(q, "rotate")
  /\ CASE request[q].answer = "ok" ->
            integration' = [secret |-> request[q].secret, status |-> "active"]
       [] VerifyFailureIsAuth(request[q].answer) -> update_status("invalid")
       [] OTHER -> UNCHANGED integration

(* create_scan refuses an integration that is not active;                    *)
(* _build_azure_collection_job decrypts the secret into the job.             *)
CollectStart(c) ==
  /\ collection[c].pc = "idle"
  /\ integration.status = "active"
  /\ collection' = [collection EXCEPT
                      ![c] = [pc |-> "running", secret |-> integration.secret, mark |-> FALSE]]
  /\ UNCHANGED <<integration, azure, outages, request, history>>

(* The collector, of which only its report is known: errors about            *)
(* authentication come from a secret Azure rejects at some moment of the run.*)
CollectReport(c, gist) ==
  LET k == collection[c].secret
  IN /\ collection[c].pc = "running"
     /\ gist.blames => azure[k] = "rejected"
     /\ collection' = [collection EXCEPT
                         ![c] = [pc |-> "reported", secret |-> k, mark |-> gist.mark]]
     /\ refused' = (refused \/ gist.blames)
     /\ UNCHANGED <<integration, azure, outages, request, vouched>>

(* mark_invalid_if_azure_auth_failure, called by the ingest worker.  The row *)
(* it reads first only tells the provider, which never changes.              *)
MarkInvalid(c) ==
  /\ collection[c].pc = "reported"
  /\ collection' = [collection EXCEPT ![c] = NotCollecting]
  /\ IF collection[c].mark THEN update_status("invalid") ELSE UNCHANGED integration
  /\ UNCHANGED <<azure, outages, request, history>>

RequestStep(q) ==
  \/ VerifyRead(q)
  \/ \E k \in Secrets : RotateRead(q, k)
  \/ AzureDecides(q)
  \/ \E answer \in {"token_failed", "other"} : AzureUnavailable(q, answer)
  \/ VerifyFinish(q)
  \/ RotateFinish(q)

CollectionStep(c) ==
  \/ CollectStart(c)
  \/ \E gist \in Gists : CollectReport(c, gist)
  \/ MarkInvalid(c)

Next ==
  \/ \E k \in Secrets : Register(k)
  \/ \E k \in Secrets, verdict \in Verdicts : AzureChanges(k, verdict)
  \/ \E q \in Requests : RequestStep(q)
  \/ \E c \in Collections : CollectionStep(c)

Spec == Init /\ [][Next]_vars

-------------------------------------------------------------------------------

(* Every variable holds a value of its kind, and whoever waits for Azure or  *)
(* for a collector has a secret in hand.                                     *)
TypeOK ==
  /\ integration \in [secret : Secrets \cup {None}, status : {"none", "active", "invalid"}]
  /\ azure \in [Secrets -> Verdicts]
  /\ outages \in 0..MaxOutages
  /\ request \in [Requests -> [op : {"none", "verify", "rotate"}, pc : {"idle", "asked", "answered"},
                               secret : Secrets \cup {None}, answer : Answers]]
  /\ collection \in [Collections -> [pc : {"idle", "running", "reported"},
                                     secret : Secrets \cup {None}, mark : BOOLEAN]]
  /\ vouched \subseteq Secrets
  /\ refused \in BOOLEAN
  /\ Exists => integration.secret \in Secrets
  /\ \A q \in Requests : request[q].pc # "idle" => request[q].secret \in Secrets
  /\ \A c \in Collections : collection[c].pc # "idle" => collection[c].secret \in Secrets

(* Verify before saving: whatever requests overlap, the stored secret is the *)
(* one the integration was registered with, or one Azure accepted from the   *)
(* API; nothing a verify or a collection does later changes it.              *)
StoredSecretWasAccepted ==
  Exists => integration.secret \in vouched

(* An integration is invalid only after Azure refused a secret of it, or     *)
(* could not be reached; neither reports with other errors nor a subscription*)
(* that is not found ever mark it.                                           *)
InvalidNeedsRefusal ==
  integration.status = "invalid" => refused \/ outages > 0

(* Azure stays as it is, answers, and nobody asks for another rotation.      *)
Settled ==
  /\ UNCHANGED <<azure, outages>>
  /\ \A q \in Requests : request'[q].op = "rotate" => request[q].op = "rotate"

(* The status that is true of the stored secret, which verify can tell only  *)
(* of a secret Azure accepts or refuses.                                     *)
StatusIsTrue ==
  /\ Exists
  /\ azure[integration.secret] = "accepted" => integration.status = "active"
  /\ azure[integration.secret] \in {"rejected", "forbidden"} => integration.status = "invalid"

(* Verify, rotate-secret and the reports of collections write verdicts on    *)
(* secrets that may have been replaced meanwhile.  Such a verdict does not   *)
(* last: once Azure has settled on accepting or refusing the stored secret   *)
(* and verify is called again and again, the status comes to be true of it   *)
(* and stays so, whatever was under way before.  Where the lookup goes on    *)
(* failing otherwise nothing is promised: verify then leaves the status as   *)
(* it is (verify_azure, mark_invalid_if_azure_auth_failure).                 *)
StaleVerdictsDoNotLast ==
  <>[][Settled]_vars /\ []<><<\E q \in Requests : VerifyFinish(q)>>_vars => <>[]StatusIsTrue

===============================================================================
