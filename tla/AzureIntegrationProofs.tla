------------------------- MODULE AzureIntegrationProofs -------------------------
(*****************************************************************************)
(* AzureIntegration for every set of secrets, requests and collections:      *)
(* only verified secrets are stored, and an integration is invalid for a     *)
(* reason.  The inductive invariant adds what an answer, or a report, that   *)
(* has not been acted upon yet says about the past.                          *)
(*****************************************************************************)
EXTENDS AzureIntegration, TLAPS

HasReason == refused \/ outages > 0

(* An answer in hand was given: an "ok" for an accepted secret, and one that *)
(* will mark the integration for a reason that stays true.                   *)
AnswersAreEvidence ==
  \A q \in Requests : request[q].pc = "answered" =>
    /\ request[q].answer = "ok" => request[q].secret \in vouched
    /\ VerifyFailureIsAuth(request[q].answer) => HasReason

ReportsAreEvidence ==
  \A c \in Collections : collection[c].mark => refused

(* The row is never deleted: whoever has read it will find it.               *)
WaitersHaveRow ==
  /\ \A q \in Requests : request[q].pc # "idle" => Exists
  /\ \A c \in Collections : collection[c].pc # "idle" => Exists

IntegrationInvariant ==
  /\ TypeOK
  /\ WaitersHaveRow
  /\ StoredSecretWasAccepted
  /\ InvalidNeedsRefusal
  /\ AnswersAreEvidence
  /\ ReportsAreEvidence

LEMMA InitInvariant == Init => IntegrationInvariant
<1> SUFFICES ASSUME Init PROVE IntegrationInvariant
  OBVIOUS
<1>1. refused \in BOOLEAN
  BY Zenon DEF Init
<1>2. TypeOK
  BY <1>1, NoneAssumption, BoundsAssumption DEF Init, TypeOK, Idle, NotCollecting, Exists, Answers
<1>3. QED
  BY <1>2, NoneAssumption
  DEF Init, IntegrationInvariant, StoredSecretWasAccepted, InvalidNeedsRefusal,
      AnswersAreEvidence, ReportsAreEvidence, WaitersHaveRow, Idle, NotCollecting, Exists

(* A collection marks the integration only for errors about authentication.  *)
LEMMA MarkIsBlame ==
  ASSUME NEW gist \in Gists
  PROVE  gist.mark \in BOOLEAN /\ (gist.mark => gist.blames)
<1>1. PICK report \in Reports : gist = Gist(report)
  BY DEF Gists
<1>2. gist.mark = ShouldMark(report) /\ gist.blames = (report.error = "auth" \/ report.hits > 0)
  BY <1>1 DEF Gist
<1>3. ShouldMark(report) => report.error = "auth" \/ report.hits > 0
  BY BoundsAssumption DEF Reports, ShouldMark, CollectionErrorsIndicateAuthFailure
<1>4. ShouldMark(report) \in BOOLEAN
  BY DEF ShouldMark, CollectionErrorsIndicateAuthFailure
<1>5. QED  BY <1>2, <1>3, <1>4

LEMMA RegisterStep ==
  ASSUME IntegrationInvariant, NEW k \in Secrets, Register(k)
  PROVE  IntegrationInvariant'
  BY NoneAssumption
  DEF IntegrationInvariant, Register, NewRow, history, TypeOK, StoredSecretWasAccepted,
      InvalidNeedsRefusal, AnswersAreEvidence, ReportsAreEvidence, WaitersHaveRow, HasReason,
      VerifyFailureIsAuth, Exists

LEMMA AzureChangesStep ==
  ASSUME IntegrationInvariant, NEW k \in Secrets,
         NEW verdict \in Verdicts, AzureChanges(k, verdict)
  PROVE  IntegrationInvariant'
  BY DEF IntegrationInvariant, AzureChanges, history, TypeOK, StoredSecretWasAccepted,
      InvalidNeedsRefusal, AnswersAreEvidence, ReportsAreEvidence, WaitersHaveRow, HasReason,
      VerifyFailureIsAuth, Exists

LEMMA StartStep ==
  ASSUME IntegrationInvariant, NEW q \in Requests, NEW op \in {"verify", "rotate"},
         NEW k \in Secrets, Start(q, op, k)
  PROVE  IntegrationInvariant'
<1>1. TypeOK'
  BY DEF IntegrationInvariant, Start, history, TypeOK, Exists, Answers
<1>2. StoredSecretWasAccepted' /\ InvalidNeedsRefusal' /\ ReportsAreEvidence' /\ WaitersHaveRow'
  BY DEF IntegrationInvariant, Start, history, StoredSecretWasAccepted,
      InvalidNeedsRefusal, ReportsAreEvidence, WaitersHaveRow, Exists
<1>3. AnswersAreEvidence'
  BY DEF IntegrationInvariant, Start, history, TypeOK, AnswersAreEvidence, HasReason,
      VerifyFailureIsAuth
<1> QED BY <1>1, <1>2, <1>3 DEF IntegrationInvariant

LEMMA DecideStep ==
  ASSUME IntegrationInvariant, NEW q \in Requests, AzureDecides(q)
  PROVE  IntegrationInvariant'
<1> DEFINE k == request[q].secret
           answer == AzureAnswers(k)
<1>1. k \in Secrets
  BY DEF IntegrationInvariant, AzureDecides, TypeOK
<1>2. /\ answer \in Answers
      /\ answer = "ok" <=> azure[k] = "accepted"
      /\ VerifyFailureIsAuth(answer) <=> azure[k] \in {"rejected", "forbidden"}
  BY <1>1 DEF IntegrationInvariant, TypeOK, Verdicts, AzureAnswers, Answers, VerifyFailureIsAuth
<1>3. (VerifyFailureIsAuth(answer) => refused') /\ (refused => refused')
  BY <1>2 DEF AzureDecides
<1>4. refused' \in BOOLEAN
  BY Zenon DEF AzureDecides
<1>5. /\ answer = "ok" => k \in vouched'
      /\ vouched \subseteq vouched' /\ vouched' \subseteq vouched \cup {k}
      /\ request' = [request EXCEPT ![q] = Answered(q, answer)]
      /\ UNCHANGED <<integration, azure, outages, collection>>
  BY <1>2 DEF AzureDecides
<1> HIDE DEF answer
<1>6. TypeOK'
  <2>1. Answered(q, answer) \in [op : {"none", "verify", "rotate"}, pc : {"idle", "asked", "answered"},
                                secret : Secrets \cup {None}, answer : Answers]
    BY <1>2 DEF IntegrationInvariant, Answered, TypeOK, Answers
  <2>2. Answered(q, answer).secret \in Secrets
    BY <1>1 DEF Answered
  <2> QED BY <1>1, <1>5, <1>4, <2>1, <2>2 DEF IntegrationInvariant, TypeOK, Exists
<1>7. StoredSecretWasAccepted' /\ InvalidNeedsRefusal' /\ ReportsAreEvidence'
  BY <1>5, <1>3 DEF IntegrationInvariant, StoredSecretWasAccepted, InvalidNeedsRefusal,
      ReportsAreEvidence, Exists
<1>8. WaitersHaveRow'
  BY <1>5 DEF IntegrationInvariant, AzureDecides, WaitersHaveRow, Exists
<1>9. AnswersAreEvidence'
  <2>1. \A r \in Requests : r # q => request'[r] = request[r]
    BY <1>5 DEF IntegrationInvariant, TypeOK
  <2>2. request'[q].secret = k /\ request'[q].answer = answer
    BY <1>5 DEF IntegrationInvariant, TypeOK, Answered
  <2>3. HasReason => HasReason'
    BY <1>5, <1>3 DEF HasReason
  <2>4. VerifyFailureIsAuth(answer) => HasReason'
    BY <1>3 DEF HasReason
  <2>5. QED  BY <1>5, <2>1, <2>2, <2>3, <2>4 DEF IntegrationInvariant, AnswersAreEvidence, VerifyFailureIsAuth
<1> QED BY <1>6, <1>7, <1>9, <1>8 DEF IntegrationInvariant

LEMMA UnavailableStep ==
  ASSUME IntegrationInvariant, NEW q \in Requests,
         NEW answer \in {"token_failed", "other"}, AzureUnavailable(q, answer)
  PROVE  IntegrationInvariant'
<1>1. TypeOK'
  <2>1. outages' \in 0..MaxOutages
    BY BoundsAssumption DEF IntegrationInvariant, AzureUnavailable, TypeOK
  <2>2. Answered(q, answer) \in [op : {"none", "verify", "rotate"}, pc : {"idle", "asked", "answered"},
                                secret : Secrets \cup {None}, answer : Answers]
    BY DEF IntegrationInvariant, Answered, TypeOK, Answers
  <2>3. Answered(q, answer).secret \in Secrets
    BY DEF IntegrationInvariant, AzureUnavailable, Answered, TypeOK
  <2> QED BY <2>1, <2>2, <2>3 DEF IntegrationInvariant, AzureUnavailable, history, TypeOK, Exists
<1>2. StoredSecretWasAccepted' /\ InvalidNeedsRefusal' /\ ReportsAreEvidence' /\ WaitersHaveRow'
  BY BoundsAssumption
  DEF IntegrationInvariant, AzureUnavailable, Answered, history, TypeOK, StoredSecretWasAccepted,
      InvalidNeedsRefusal, ReportsAreEvidence, WaitersHaveRow, Exists
<1>3. AnswersAreEvidence'
  BY BoundsAssumption
  DEF IntegrationInvariant, AzureUnavailable, Answered, history, TypeOK, AnswersAreEvidence,
      HasReason, VerifyFailureIsAuth
<1> QED BY <1>1, <1>2, <1>3 DEF IntegrationInvariant

(* A handler whose answer has come writes the row and ends: the secret is    *)
(* replaced by an accepted one or kept, and the status says invalid only for *)
(* a reason.                                                                 *)
LEMMA FinishStep ==
  ASSUME IntegrationInvariant, NEW q \in Requests, NEW op \in {"verify", "rotate"},
         Finish(q, op), Exists,
         integration' \in [secret : Secrets, status : {"active", "invalid"}] \cup {integration},
         integration'.secret # integration.secret => integration'.secret \in vouched,
         integration'.status = "invalid" => integration.status = "invalid" \/ HasReason
  PROVE  IntegrationInvariant'
<1>1. TypeOK' /\ Exists'
  BY NoneAssumption DEF IntegrationInvariant, Finish, history, TypeOK, Idle, Exists, Answers
<1>2. StoredSecretWasAccepted' /\ InvalidNeedsRefusal'
  BY DEF IntegrationInvariant, Finish, history, StoredSecretWasAccepted, InvalidNeedsRefusal,
      HasReason
<1>3. ReportsAreEvidence' /\ WaitersHaveRow'
  BY <1>1 DEF IntegrationInvariant, Finish, history, ReportsAreEvidence, WaitersHaveRow
<1>4. AnswersAreEvidence'
  BY DEF IntegrationInvariant, Finish, history, TypeOK, AnswersAreEvidence, HasReason,
      VerifyFailureIsAuth, Idle
<1> QED BY <1>1, <1>2, <1>3, <1>4 DEF IntegrationInvariant

LEMMA VerifyStep ==
  ASSUME IntegrationInvariant, NEW q \in Requests, VerifyFinish(q)
  PROVE  IntegrationInvariant'
<1>1. Finish(q, "verify") /\ Exists
  BY DEF IntegrationInvariant, VerifyFinish, Finish, WaitersHaveRow
<1>2. \/ integration' = integration
      \/ integration' = [integration EXCEPT !.status = "active"]
      \/ integration' = [integration EXCEPT !.status = "invalid"] /\ HasReason
  BY DEF IntegrationInvariant, VerifyFinish, Finish, update_status, AnswersAreEvidence
<1>3. integration \in [secret : Secrets, status : {"active", "invalid"}]
  BY <1>1 DEF IntegrationInvariant, TypeOK, Exists
<1> QED BY <1>1, <1>2, <1>3, FinishStep

LEMMA RotateStep ==
  ASSUME IntegrationInvariant, NEW q \in Requests, RotateFinish(q)
  PROVE  IntegrationInvariant'
<1>1. Finish(q, "rotate") /\ Exists
  BY DEF IntegrationInvariant, RotateFinish, Finish, WaitersHaveRow
<1>2. request[q].secret \in Secrets /\ (request[q].answer = "ok" => request[q].secret \in vouched)
  BY DEF IntegrationInvariant, RotateFinish, Finish, TypeOK, AnswersAreEvidence
<1>3. \/ integration' = integration
      \/ /\ integration' = [secret |-> request[q].secret, status |-> "active"]
         /\ request[q].answer = "ok"
      \/ integration' = [integration EXCEPT !.status = "invalid"] /\ HasReason
  BY DEF IntegrationInvariant, RotateFinish, Finish, update_status, AnswersAreEvidence
<1>4. integration \in [secret : Secrets, status : {"active", "invalid"}]
  BY <1>1 DEF IntegrationInvariant, TypeOK, Exists
<1> QED BY <1>1, <1>2, <1>3, <1>4, FinishStep

LEMMA CollectStep ==
  ASSUME IntegrationInvariant, NEW c \in Collections, CollectStart(c)
  PROVE  IntegrationInvariant'
<1>1. integration.secret \in Secrets /\ Exists
  BY DEF IntegrationInvariant, CollectStart, TypeOK, Exists
<1>2. TypeOK'
  BY <1>1 DEF IntegrationInvariant, CollectStart, history, TypeOK, Exists
<1>5. WaitersHaveRow'
  BY <1>1 DEF IntegrationInvariant, CollectStart, history, WaitersHaveRow, Exists
<1>3. StoredSecretWasAccepted' /\ InvalidNeedsRefusal' /\ AnswersAreEvidence'
  BY DEF IntegrationInvariant, CollectStart, history, StoredSecretWasAccepted,
      InvalidNeedsRefusal, AnswersAreEvidence, HasReason, VerifyFailureIsAuth, Exists
<1>4. ReportsAreEvidence'
  BY DEF IntegrationInvariant, CollectStart, history, TypeOK, ReportsAreEvidence
<1> QED BY <1>2, <1>3, <1>4, <1>5 DEF IntegrationInvariant

LEMMA ReportStep ==
  ASSUME IntegrationInvariant, NEW c \in Collections, NEW gist \in Gists, CollectReport(c, gist)
  PROVE  IntegrationInvariant'
<1> PICK mark \in BOOLEAN : mark = gist.mark
  BY MarkIsBlame
<1>1. collection[c].secret \in Secrets /\ collection[c].pc = "running"
  BY DEF IntegrationInvariant, CollectReport, TypeOK
<1>2. /\ collection' = [collection EXCEPT ![c] = [pc |-> "reported",
                                            secret |-> collection[c].secret, mark |-> mark]]
      /\ UNCHANGED <<integration, azure, outages, request, vouched>>
  BY DEF CollectReport
<1>3. (mark => refused') /\ (refused => refused')
  BY MarkIsBlame DEF CollectReport
<1>4. TypeOK' /\ WaitersHaveRow'
  <2>1. refused' \in BOOLEAN
    BY Zenon DEF CollectReport
  <2>2. collection' \in [Collections -> [pc : {"idle", "running", "reported"},
                                        secret : Secrets \cup {None}, mark : BOOLEAN]]
    BY <1>1, <1>2 DEF IntegrationInvariant, TypeOK
  <2>3. Exists' /\ Exists
    BY <1>1, <1>2 DEF IntegrationInvariant, WaitersHaveRow, Exists
  <2>4. \A d \in Collections : collection'[d].secret = collection[d].secret
                               /\ (d # c => collection'[d] = collection[d])
    BY <1>2 DEF IntegrationInvariant, TypeOK
  <2>5. \A d \in Collections : collection'[d].pc # "idle" => collection'[d].secret \in Secrets
    BY <1>1, <2>4 DEF IntegrationInvariant, TypeOK
  <2>6. TypeOK'
    BY <1>2, <2>1, <2>2, <2>3, <2>5 DEF IntegrationInvariant, TypeOK, Exists
  <2> QED BY <1>2, <2>3, <2>6 DEF WaitersHaveRow
<1>5. StoredSecretWasAccepted' /\ InvalidNeedsRefusal'
  BY <1>2, <1>3 DEF IntegrationInvariant, StoredSecretWasAccepted, InvalidNeedsRefusal, Exists
<1>6. AnswersAreEvidence' /\ ReportsAreEvidence'
  BY <1>2, <1>3 DEF IntegrationInvariant, TypeOK, AnswersAreEvidence, ReportsAreEvidence, HasReason,
      VerifyFailureIsAuth
<1> QED BY <1>4, <1>5, <1>6 DEF IntegrationInvariant

LEMMA MarkStep ==
  ASSUME IntegrationInvariant, NEW c \in Collections, MarkInvalid(c)
  PROVE  IntegrationInvariant'
<1>1. Exists /\ integration \in [secret : Secrets, status : {"active", "invalid"}]
  BY DEF IntegrationInvariant, MarkInvalid, TypeOK, WaitersHaveRow, Exists
<1>2. \/ integration' = integration
      \/ integration' = [integration EXCEPT !.status = "invalid"] /\ refused
  BY DEF IntegrationInvariant, MarkInvalid, update_status, ReportsAreEvidence
<1>3. TypeOK' /\ WaitersHaveRow'
  BY <1>1, <1>2
  DEF IntegrationInvariant, MarkInvalid, history, TypeOK, WaitersHaveRow, Exists, NotCollecting
<1>4. StoredSecretWasAccepted' /\ InvalidNeedsRefusal'
  BY <1>1, <1>2
  DEF IntegrationInvariant, MarkInvalid, history, StoredSecretWasAccepted, InvalidNeedsRefusal,
      Exists
<1>5. AnswersAreEvidence' /\ ReportsAreEvidence'
  BY DEF IntegrationInvariant, MarkInvalid, history, TypeOK, AnswersAreEvidence,
      ReportsAreEvidence, HasReason, VerifyFailureIsAuth, NotCollecting
<1> QED BY <1>3, <1>4, <1>5 DEF IntegrationInvariant

LEMMA StutterStep ==
  ASSUME IntegrationInvariant, UNCHANGED vars
  PROVE  IntegrationInvariant'
  BY DEF IntegrationInvariant, vars, TypeOK, StoredSecretWasAccepted, InvalidNeedsRefusal,
      AnswersAreEvidence, ReportsAreEvidence, WaitersHaveRow, HasReason, VerifyFailureIsAuth, Exists

LEMMA NextInvariant == IntegrationInvariant /\ [Next]_vars => IntegrationInvariant'
<1> SUFFICES ASSUME IntegrationInvariant, [Next]_vars PROVE IntegrationInvariant'
  OBVIOUS
<1>1. CASE \E k \in Secrets : Register(k)
  BY <1>1, RegisterStep
<1>2. CASE \E k \in Secrets, verdict \in Verdicts : AzureChanges(k, verdict)
  BY <1>2, AzureChangesStep
<1>3. ASSUME NEW q \in Requests, RequestStep(q) PROVE IntegrationInvariant'
  <2>1. CASE VerifyRead(q)
    <3>1. integration.secret \in Secrets
      BY <2>1 DEF VerifyRead, Start, IntegrationInvariant, TypeOK
    <3> QED BY <2>1, <3>1, StartStep DEF VerifyRead
  <2>2. CASE \E k \in Secrets : RotateRead(q, k)
    BY <2>2, StartStep DEF RotateRead
  <2>3. CASE AzureDecides(q)
    BY <2>3, DecideStep
  <2>4. CASE \E answer \in {"token_failed", "other"} : AzureUnavailable(q, answer)
    BY <2>4, UnavailableStep
  <2>5. CASE VerifyFinish(q)
    BY <2>5, VerifyStep
  <2>6. CASE RotateFinish(q)
    BY <2>6, RotateStep
  <2> QED BY <1>3, <2>1, <2>2, <2>3, <2>4, <2>5, <2>6 DEF RequestStep
<1>4. ASSUME NEW c \in Collections, CollectionStep(c) PROVE IntegrationInvariant'
  BY <1>4, CollectStep, ReportStep, MarkStep DEF CollectionStep
<1>5. CASE UNCHANGED vars
  BY <1>5, StutterStep
<1> QED BY <1>1, <1>2, <1>3, <1>4, <1>5 DEF Next

(* The the requests and the collections are well formed for ever.       *)
THEOREM IntegrationTypeCorrect == Spec => []TypeOK
  BY InitInvariant, NextInvariant, PTL DEF Spec, IntegrationInvariant

(* No overlap of registrations, verifications, rotations and collections     *)
(* ever stores a secret Azure did not accept from the API, save the one the  *)
(* integration was registered with.                                          *)
THEOREM OnlyVerifiedSecretsStored == Spec => []StoredSecretWasAccepted
  BY InitInvariant, NextInvariant, PTL DEF Spec, IntegrationInvariant

(* An integration is never marked invalid without a refusal or an outage.    *)
THEOREM InvalidHasReason == Spec => []InvalidNeedsRefusal
  BY InitInvariant, NextInvariant, PTL DEF Spec, IntegrationInvariant

===============================================================================
