------------------------- MODULE ScanPipelineProofs -------------------------
(* Proofs about ScanPipeline, for every set of scans, resources, frameworks   *)
(* and workers and any number of raised calls and crashes.  Five parts, each  *)
(* on top of those before it:                                                 *)
(*   - types;                                                                 *)
(*   - the hand-off: a scan is evaluated by one policy worker at most, and    *)
(*     only on the whole of its inventory (HandOffInvariant);                 *)
(*   - the results: no framework is scored from part of the findings, and a   *)
(*     completed scan has every score (ResultInvariant);                      *)
(*   - the timeline, which tells the stages in order (RecordInvariant), and   *)
(*     the job of a scan that was answered 201;                               *)
(*   - the status: with one ingest worker every step moves it as              *)
(*     ScanLifecycle allows, so the pipeline implements its abstract          *)
(*     specification, a terminal status is overwritten only after a call      *)
(*     raised, and the final status tells whether the collection had errors   *)
(*     (StatusInvariant).                                                     *)
EXTENDS ScanPipelineInvariants, TLAPS

(*****************************************************************************)
(* Type correctness                                                          *)
(*****************************************************************************)

(* What the generic statements of the components preserve.                   *)
LEMMA WriteType ==
  ASSUME db \in [Scans -> Rows], NEW s \in Scans, NEW row \in Rows,
         Write(s, row) \/ WriteOrNot(s, row)
  PROVE  db' \in [Scans -> Rows]
  BY DEF Write, WriteOrNot

LEMMA UpdateStatusType ==
  ASSUME db \in [Scans -> Rows], NEW s \in Scans, NEW st \in ScanStatus
  PROVE  update_status(s, st) \in Rows
  BY DEF update_status, Rows

LEMMA AppendEventType ==
  ASSUME db \in [Scans -> Rows], NEW s \in Scans, NEW e \in TimelineEvents
  PROVE  append_event(s, e) \in Rows
  BY DEF append_event, Rows

LEMMA ServiceType ==
  TypeOK /\ ServiceNext => StoreTypeOK' /\ ServiceTypeOK'
<1> SUFFICES ASSUME TypeOK, NEW s \in Scans,
                    ReadIntegration(s) \/ ApiStep(s) \/ ApiCrash(s) \/ CollectorStep(s)
             PROVE  StoreTypeOK' /\ ServiceTypeOK'
  BY DEF ServiceNext
<1> USE DEF TypeOK, StoreTypeOK, ServiceTypeOK, ApiPcs, CollectorPcs, ApiGoto
<1>a. StoreAssumption
  BY StoreAssumption
<1>1. CASE ReadIntegration(s)
  BY <1>1 DEF ReadIntegration, store
<1>2. ASSUME NEW at, NEW row \in Rows, NEW next \in ApiPcs, ApiCall(s, at, row, next)
      PROVE  StoreTypeOK' /\ ServiceTypeOK'
  BY <1>2, WriteType DEF ApiCall, Raises
<1>3. CASE CreateScan(s)
  <2>1. update_status(s, "created") \in Rows
    BY UpdateStatusType DEF ScanStatus
  <2> QED BY <1>2, <1>3, <2>1 DEF CreateScan
<1>4. CASE QueueScan(s)
  <2>1. update_status(s, "queued") \in Rows
    BY UpdateStatusType DEF ScanStatus
  <2> QED BY <1>2, <1>4, <2>1 DEF QueueScan
<1>5. CASE PushJob(s)
  BY <1>5 DEF PushJob, Raises
<1>6. CASE ApiCrash(s)
  BY <1>6 DEF ApiCrash, Dies
<1>7. CASE CollectorStart(s)
  <2>1. CollectionStarted(s) \in Events
    BY DEF CollectionStarted, Events, CollectionStatuses
  <2> QED BY <1>7, <2>1 DEF CollectorStart, Send
<1>8. CASE CollectorFinish(s)
  <2>1. PICK e \in Events : Send(e)
    <3>1. \A auth \in BOOLEAN : CollectionFailed(s, auth) \in Events
      BY DEF CollectionFailed, Events, CollectionStatuses
    <3>2. \A auth \in BOOLEAN, status \in CollectionStatuses, snap \in Snapshots :
            CollectionCompleted(s, status, snap, auth) \in Events
      BY <1>a DEF CollectionCompleted, Events, StoreAssumption
    <3> QED BY <1>a, <1>8, <3>1, <3>2 DEF CollectorFinish, StoreAssumption
  <2> QED BY <1>8, <2>1 DEF CollectorFinish, Send
<1> QED BY <1>1, <1>3, <1>4, <1>5, <1>6, <1>7, <1>8 DEF ApiStep, CollectorStep

LEMMA IngestGotoType ==
  ASSUME IngestTypeOK, NEW w \in IngestWorkers, NEW pc \in IngestPcs,
         ingest[w].pc # "idle", IngestGoto(w, pc)
  PROVE  IngestTypeOK'
  BY DEF IngestTypeOK, IngestGoto, IngestIdle, IngestPcs

LEMMA IngestCallType ==
  ASSUME TypeOK, NEW w \in IngestWorkers, NEW at \in IngestPcs \ {"idle"}, NEW row \in Rows,
         NEW next \in IngestPcs, NEW handler \in IngestPcs,
         IngestCall(w, at, row, next, handler)
  PROVE  StoreTypeOK' /\ IngestTypeOK'
<1>1. ingest[w].pc # "idle" /\ IngestScan(w) \in Scans
  BY DEF TypeOK, IngestTypeOK, IngestCall, IngestScan, Events
<1>2. IngestTypeOK'
  BY <1>1, IngestGotoType DEF TypeOK, IngestCall
<1>3. db' \in [Scans -> Rows]
  BY <1>1, WriteType DEF TypeOK, StoreTypeOK, IngestCall
<1> QED BY <1>2, <1>3 DEF TypeOK, StoreTypeOK, IngestCall, Raises

LEMMA IngestType ==
  TypeOK /\ IngestNext => StoreTypeOK' /\ IngestTypeOK'
<1> SUFFICES ASSUME TypeOK, NEW w \in IngestWorkers, IngestStep(w) \/ IngestCrash(w)
             PROVE  StoreTypeOK' /\ IngestTypeOK'
  BY DEF IngestNext
<1> DEFINE s == IngestScan(w)
<1>t. /\ db \in [Scans -> Rows]
      /\ ingest[w] \in [pc : IngestPcs, msg : Events \cup {NoEvent}, todo : SUBSET Resources]
  BY DEF TypeOK, StoreTypeOK, IngestTypeOK
<1>m. ASSUME ingest[w].pc # "idle"
      PROVE  ingest[w].msg \in Events /\ s \in Scans
  BY <1>m DEF TypeOK, IngestTypeOK, IngestScan, Events
<1>st. ASSUME ingest[w].pc # "idle", NEW st \in ScanStatus
       PROVE  update_status(s, st) \in Rows
  BY <1>st, <1>m, <1>t, UpdateStatusType
<1>ev. ASSUME ingest[w].pc # "idle", NEW e \in TimelineEvents
       PROVE  append_event(s, e) \in Rows
  BY <1>ev, <1>m, <1>t, AppendEventType
<1>1. CASE IngestPop(w)
  BY <1>1 DEF IngestPop, TypeOK, StoreTypeOK, IngestTypeOK, IngestPcs
<1>2. CASE IngestAppendEvent(w)
  <2>1. ingest[w].pc = "append_event"
    BY <1>2 DEF IngestAppendEvent, IngestCall
  <2>2. /\ ingest[w].msg.type \in TimelineEvents
        /\ FirstStep(ingest[w].msg.type) \in IngestPcs
    BY <2>1, <1>m DEF Events, TimelineEvents, FirstStep, IngestPcs
  <2>3. append_event(s, ingest[w].msg.type) \in Rows
    BY <2>1, <2>2, <1>ev
  <2> QED BY <1>2, <2>2, <2>3, IngestCallType DEF IngestAppendEvent, IngestPcs
<1>3. CASE IngestSetCollecting(w)
  <2>1. update_status(s, "collecting") \in Rows
    BY <1>3, <1>st DEF IngestSetCollecting, IngestCall, ScanStatus
  <2> QED BY <1>3, <2>1, IngestCallType DEF IngestSetCollecting, IngestPcs
<1>4. CASE IngestRunRunning(w)
  <2>1. [db[s] EXCEPT !.run = "running"] \in Rows
    BY <1>4, <1>m, <1>t DEF IngestRunRunning, IngestCall, Rows
  <2> QED BY <1>4, <2>1, IngestCallType DEF IngestRunRunning, IngestPcs
<1>5. CASE IngestSetFailed(w)
  <2>1. update_status(s, "failed") \in Rows
    BY <1>5, <1>st DEF IngestSetFailed, IngestCall, ScanStatus
  <2> QED BY <1>5, <2>1, IngestCallType DEF IngestSetFailed, IngestPcs
<1>6. CASE IngestRunFailed(w)
  <2>1. [db[s] EXCEPT !.run = "failed"] \in Rows
    BY <1>6, <1>m, <1>t DEF IngestRunFailed, IngestCall, Rows
  <2> QED BY <1>6, <2>1, IngestCallType DEF IngestRunFailed, IngestPcs
<1>7. CASE IngestAppendScanCompleted(w)
  <2>1. append_event(s, "scan.completed:failed") \in Rows
    BY <1>7, <1>ev DEF IngestAppendScanCompleted, IngestCall, TimelineEvents
  <2> QED BY <1>7, <2>1, IngestCallType DEF IngestAppendScanCompleted, IngestPcs
<1>8. CASE IngestSetCollected(w)
  <2>1. update_status(s, "collected") \in Rows
    BY <1>8, <1>st DEF IngestSetCollected, IngestCall, ScanStatus
  <2> QED BY <1>8, <2>1, IngestCallType DEF IngestSetCollected, IngestPcs
<1>9. CASE IngestRunCollected(w)
  <2>1. [db[s] EXCEPT !.run = ingest[w].msg.status, !.manifest = ingest[w].msg.snap] \in Rows
    <3>1. /\ ingest[w].msg.status \in CollectionStatuses
          /\ ingest[w].msg.snap \in SUBSET Resources
          /\ db[s] \in Rows
      BY <1>9, <1>m, <1>t DEF IngestRunCollected, IngestCall, Events
    <3> QED BY <3>1 DEF Rows
  <2> QED BY <1>9, <2>1, IngestCallType DEF IngestRunCollected, IngestPcs
<1>10. CASE IngestMarkInvalid(w)
  <2>1. IngestTypeOK'
    BY <1>10, IngestGotoType DEF IngestMarkInvalid, TypeOK, IngestPcs
  <2> QED BY <1>10, <2>1 DEF IngestMarkInvalid, TypeOK, StoreTypeOK, Raises
<1>11. CASE IngestSetIngesting(w)
  <2>1. update_status(s, "ingesting") \in Rows
    BY <1>11, <1>st DEF IngestSetIngesting, IngestCall, ScanStatus
  <2> QED BY <1>11, <2>1, IngestCallType DEF IngestSetIngesting, IngestPcs
<1>12. CASE IngestReadSnapshot(w)
  <2>1. ingest[w].msg \in Events /\ ingest[w].msg.snap \in SUBSET Resources
    BY <1>12, <1>m DEF IngestReadSnapshot, Events
  <2>2. IngestTypeOK'
    <3>1. CASE IngestGoto(w, "on_error")
      BY <1>12, <3>1, IngestGotoType DEF IngestReadSnapshot, TypeOK, IngestPcs
    <3> QED BY <1>12, <2>1, <3>1 DEF IngestReadSnapshot, TypeOK, IngestTypeOK, IngestPcs
  <2> QED BY <1>12, <2>2 DEF IngestReadSnapshot, TypeOK, StoreTypeOK, Raises
<1>13. CASE IngestInsertResource(w)
  <2>1. s \in Scans
    BY <1>13, <1>m DEF IngestInsertResource
  <2>2. PICK r \in ingest[w].todo :
          /\ \/ /\ Write(s, [db[s] EXCEPT !.inventory = @ \cup {r}])
                /\ ingest' = [ingest EXCEPT ![w].todo = @ \ {r},
                     ![w].pc = IF ingest[w].todo = {r} THEN "insert_relationships" ELSE @]
                /\ UNCHANGED faults
             \/ /\ Raises
                /\ WriteOrNot(s, [db[s] EXCEPT !.inventory = @ \cup {r}])
                /\ IngestGoto(w, "on_error")
    BY <1>13 DEF IngestInsertResource
  <2>3. [db[s] EXCEPT !.inventory = @ \cup {r}] \in Rows
    BY <1>t, <2>1, <2>2 DEF Rows
  <2>4. db' \in [Scans -> Rows]
    BY <1>t, <2>1, <2>2, <2>3, WriteType
  <2>5. IngestTypeOK'
    <3>1. CASE IngestGoto(w, "on_error")
      BY <1>13, <3>1, IngestGotoType DEF IngestInsertResource, TypeOK, IngestPcs
    <3> QED BY <1>13, <2>2, <3>1 DEF IngestInsertResource, TypeOK, IngestTypeOK, IngestPcs
  <2> QED BY <1>13, <2>2, <2>4, <2>5 DEF IngestInsertResource, TypeOK, StoreTypeOK, Raises
<1>14. CASE IngestInsertRelationships(w)
  <2>1. [db[s] EXCEPT !.relationships = TRUE] \in Rows
    BY <1>14, <1>m, <1>t DEF IngestInsertRelationships, IngestCall, Rows
  <2> QED BY <1>14, <2>1, IngestCallType DEF IngestInsertRelationships, IngestPcs
<1>15. CASE IngestSetInventoryReady(w)
  <2>1. update_status(s, "inventory_ready") \in Rows
    BY <1>15, <1>st DEF IngestSetInventoryReady, IngestCall, ScanStatus
  <2> QED BY <1>15, <2>1, IngestCallType DEF IngestSetInventoryReady, IngestPcs
<1>16. CASE IngestAppendInventoryUpdated(w)
  <2>1. append_event(s, "inventory.updated") \in Rows
    BY <1>16, <1>ev DEF IngestAppendInventoryUpdated, IngestCall, TimelineEvents
  <2> QED BY <1>16, <2>1, IngestCallType DEF IngestAppendInventoryUpdated, IngestPcs
<1>17. CASE IngestPublish(w)
  <2>1. IngestTypeOK'
    BY <1>17, IngestGotoType DEF IngestPublish, TypeOK, IngestPcs
  <2>2. policyQueue' \in Seq(Scans)
    <3>1. IngestScan(w) \in Scans
      BY <1>17, <1>m DEF IngestPublish
    <3>2. Append(policyQueue, IngestScan(w)) \in Seq(Scans)
      BY <3>1 DEF TypeOK, StoreTypeOK
    <3> QED BY <1>17, <3>2 DEF IngestPublish, TypeOK, StoreTypeOK
  <2> QED BY <1>17, <2>1, <2>2 DEF IngestPublish, TypeOK, StoreTypeOK, Raises
<1>18. CASE IngestOnError(w)
  <2>1. update_status(s, "failed") \in Rows
    BY <1>18, <1>st DEF IngestOnError, IngestCall, ScanStatus
  <2> QED BY <1>18, <2>1, IngestCallType DEF IngestOnError, IngestPcs
<1>19. CASE IngestCrash(w)
  <2>1. IngestTypeOK'
    BY <1>19, IngestGotoType DEF IngestCrash, TypeOK, IngestPcs
  <2> QED BY <1>19, <2>1 DEF IngestCrash, TypeOK, StoreTypeOK, Dies
<1> QED
  BY <1>1, <1>2, <1>3, <1>4, <1>5, <1>6, <1>7, <1>8, <1>9, <1>10, <1>11, <1>12,
     <1>13, <1>14, <1>15, <1>16, <1>17, <1>18, <1>19 DEF IngestStep


LEMMA PolicyGotoType ==
  ASSUME PolicyTypeOK, NEW w \in PolicyWorkers, NEW pc \in PolicyPcs,
         policy[w].pc # "idle", PolicyGoto(w, pc)
  PROVE  PolicyTypeOK'
  BY DEF PolicyTypeOK, PolicyGoto, PolicyIdle, PolicyPcs

LEMMA PolicyCallType ==
  ASSUME TypeOK, NEW w \in PolicyWorkers, NEW at \in PolicyPcs \ {"idle"}, NEW row \in Rows,
         NEW next \in PolicyPcs, NEW handler \in PolicyPcs,
         PolicyCall(w, at, row, next, handler)
  PROVE  StoreTypeOK' /\ PolicyTypeOK'
<1>1. policy[w].pc # "idle" /\ policy[w].scan \in Scans
  BY DEF TypeOK, PolicyTypeOK, PolicyCall
<1>2. PolicyTypeOK'
  BY <1>1, PolicyGotoType DEF TypeOK, PolicyCall
<1>3. db' \in [Scans -> Rows]
  BY <1>1, WriteType DEF TypeOK, StoreTypeOK, PolicyCall
<1> QED BY <1>2, <1>3 DEF TypeOK, StoreTypeOK, PolicyCall, Raises

LEMMA PolicyQueryRaisesType ==
  ASSUME TypeOK, NEW w \in PolicyWorkers, NEW handler \in PolicyPcs,
         policy[w].pc # "idle", PolicyQueryRaises(w, handler)
  PROVE  StoreTypeOK' /\ PolicyTypeOK'
<1>1. PolicyTypeOK'
  BY PolicyGotoType DEF TypeOK, PolicyQueryRaises
<1> QED BY <1>1 DEF TypeOK, StoreTypeOK, PolicyQueryRaises, Raises

LEMMA PolicyType ==
  TypeOK /\ PolicyNext => StoreTypeOK' /\ PolicyTypeOK'
<1> SUFFICES ASSUME TypeOK, NEW w \in PolicyWorkers, PolicyStep(w) \/ PolicyCrash(w)
             PROVE  StoreTypeOK' /\ PolicyTypeOK'
  BY DEF PolicyNext
<1> DEFINE s == policy[w].scan
<1>t. /\ db \in [Scans -> Rows]
      /\ policy[w] \in
           [pc : PolicyPcs, scan : Scans \cup {None}, todo : SUBSET Resources,
            frameworks : SUBSET Frameworks, final : {"completed", "completed_with_errors"}]
  BY DEF TypeOK, StoreTypeOK, PolicyTypeOK
<1>m. ASSUME policy[w].pc # "idle"
      PROVE  s \in Scans /\ db[s] \in Rows
  BY <1>m, <1>t DEF TypeOK, PolicyTypeOK
<1>st. ASSUME policy[w].pc # "idle", NEW st \in ScanStatus
       PROVE  update_status(s, st) \in Rows
  BY <1>st, <1>m, <1>t, UpdateStatusType
<1>ev. ASSUME policy[w].pc # "idle", NEW e \in TimelineEvents
       PROVE  append_event(s, e) \in Rows
  BY <1>ev, <1>m, <1>t, AppendEventType
<1>p. MappedPc \in PolicyPcs
  BY DEF MappedPc, PolicyPcs
<1>1. CASE PolicyPop(w)
  <2>1. Head(policyQueue) \in Scans /\ Tail(policyQueue) \in Seq(Scans)
    BY <1>1 DEF PolicyPop, TypeOK, StoreTypeOK
  <2>2. PolicyTypeOK'
    BY <1>1, <2>1 DEF PolicyPop, TypeOK, PolicyTypeOK, PolicyIdle, PolicyPcs
  <2> QED BY <1>1, <2>1, <2>2 DEF PolicyPop, TypeOK, StoreTypeOK
<1>2. CASE PolicyAppendEvaluate(w)
  <2>1. append_event(s, "policy.evaluate") \in Rows
    BY <1>2, <1>ev DEF PolicyAppendEvaluate, PolicyCall, TimelineEvents
  <2> QED BY <1>2, <2>1, PolicyCallType DEF PolicyAppendEvaluate, PolicyPcs
<1>3. CASE PolicyCheckStatus(w)
  <2>1. CASE PolicyQueryRaises(w, "idle")
    BY <1>3, <2>1, PolicyQueryRaisesType DEF PolicyCheckStatus, PolicyPcs
  <2>2. CASE ~PolicyQueryRaises(w, "idle")
    <3>1. PolicyTypeOK'
      <4> DEFINE pc == IF db[policy[w].scan].status \in Evaluable
                       THEN "set_evaluating" ELSE "idle"
      <4>1. PolicyGoto(w, pc)
        BY <1>3, <2>2 DEF PolicyCheckStatus
      <4>2. pc \in PolicyPcs /\ policy[w].pc # "idle"
        BY <1>3 DEF PolicyCheckStatus, PolicyPcs
      <4> HIDE DEF pc
      <4> QED BY <4>1, <4>2, PolicyGotoType DEF TypeOK
    <3> QED BY <1>3, <2>2, <3>1 DEF PolicyCheckStatus, TypeOK, StoreTypeOK, store
  <2> QED BY <2>1, <2>2
<1>4. CASE PolicySetEvaluating(w)
  <2>1. update_status(s, "evaluating") \in Rows
    BY <1>4, <1>st DEF PolicySetEvaluating, PolicyCall, ScanStatus
  <2> QED BY <1>4, <2>1, PolicyCallType DEF PolicySetEvaluating, PolicyPcs
<1>5. CASE PolicyStartRun(w)
  <2>1. [db[s] EXCEPT !.evaluation = "running"] \in Rows
    BY <1>5, <1>m DEF PolicyStartRun, PolicyCall, Rows
  <2> QED BY <1>5, <2>1, PolicyCallType DEF PolicyStartRun, PolicyPcs
<1>6. CASE PolicyListAssets(w)
  <2>1. CASE PolicyQueryRaises(w, "fail_run")
    BY <1>6, <2>1, PolicyQueryRaisesType DEF PolicyListAssets, PolicyPcs
  <2>2. CASE ~PolicyQueryRaises(w, "fail_run")
    <3>1. PICK assets \in SUBSET db[s].inventory :
            policy' = [policy EXCEPT ![w].todo = assets,
                  ![w].pc = IF assets = {} THEN "complete_run" ELSE "upsert_finding"]
      BY <1>6, <2>2 DEF PolicyListAssets, Listed
    <3>2. assets \in SUBSET Resources
      BY <1>6, <1>m DEF PolicyListAssets, Rows
    <3>3. PolicyTypeOK'
      <4>1. policy[w].pc = "list_assets" /\ s \in Scans
        BY <1>6, <1>m DEF PolicyListAssets
      <4> DEFINE pc == IF assets = {} THEN "complete_run" ELSE "upsert_finding"
      <4>2. pc \in PolicyPcs
        BY DEF PolicyPcs
      <4>3. policy' = [policy EXCEPT ![w].todo = assets, ![w].pc = pc]
        BY <3>1
      <4> HIDE DEF pc
      <4> QED BY <3>2, <4>1, <4>2, <4>3 DEF TypeOK, PolicyTypeOK
    <3> QED BY <1>6, <2>2, <3>3 DEF PolicyListAssets, TypeOK, StoreTypeOK, store
  <2> QED BY <2>1, <2>2
<1>7. CASE PolicyUpsertFinding(w)
  <2>1. PICK r \in policy[w].todo :
          LET row == [db[s] EXCEPT !.findings = @ \cup {r}]
          IN \/ /\ Write(s, row)
                /\ policy' = [policy EXCEPT ![w].todo = @ \ {r},
                     ![w].pc = IF policy[w].todo = {r} THEN "complete_run" ELSE @]
                /\ UNCHANGED faults
             \/ /\ Raises
                /\ WriteOrNot(s, row)
                /\ PolicyGoto(w, "fail_run")
    BY <1>7 DEF PolicyUpsertFinding
  <2>2. s \in Scans /\ [db[s] EXCEPT !.findings = @ \cup {r}] \in Rows
    BY <1>7, <1>m, <1>t DEF PolicyUpsertFinding, Rows
  <2>3. db' \in [Scans -> Rows]
    BY <1>t, <2>1, <2>2, WriteType
  <2>4. PolicyTypeOK'
    <3>1. CASE PolicyGoto(w, "fail_run")
      BY <1>7, <3>1, PolicyGotoType DEF PolicyUpsertFinding, TypeOK, PolicyPcs
    <3> QED BY <1>7, <1>m, <2>1, <3>1 DEF PolicyUpsertFinding, TypeOK, PolicyTypeOK, PolicyPcs
  <2> QED BY <1>7, <2>1, <2>3, <2>4 DEF PolicyUpsertFinding, TypeOK, StoreTypeOK, Raises
<1>8. CASE PolicyCompleteRun(w)
  <2>1. s \in Scans /\ [db[s] EXCEPT !.evaluation = "completed"] \in Rows
    BY <1>8, <1>m DEF PolicyCompleteRun, Rows
  <2>2. db' \in [Scans -> Rows]
    BY <1>8, <1>t, <2>1, WriteType DEF PolicyCompleteRun
  <2>3. PolicyTypeOK'
    <3>1. CASE PolicyGoto(w, "fail_run")
      BY <1>8, <3>1, PolicyGotoType DEF PolicyCompleteRun, TypeOK, PolicyPcs
    <3> QED BY <1>8, <1>m, <1>p, <3>1 DEF PolicyCompleteRun, TypeOK, PolicyTypeOK, PolicyPcs
  <2> QED BY <1>8, <2>2, <2>3 DEF PolicyCompleteRun, TypeOK, StoreTypeOK, Raises
<1>9. CASE PolicyMapControls(w)
  <2>1. PICK f \in policy[w].frameworks :
          PolicyCall(w, "map_controls", [db[s] EXCEPT !.controls = @ \cup {f}],
                     "map_score", "fail_run")
    BY <1>9 DEF PolicyMapControls
  <2>2. [db[s] EXCEPT !.controls = @ \cup {f}] \in Rows
    BY <1>m, <1>t, <2>1 DEF PolicyCall, Rows
  <2> QED BY <2>1, <2>2, PolicyCallType DEF PolicyPcs
<1>10. CASE PolicyMapScore(w)
  <2>1. PICK f \in policy[w].frameworks \cap db[s].controls :
          LET row == [db[s] EXCEPT !.scores = @ \cup {f}]
          IN \/ /\ Write(s, row)
                /\ policy' = [policy EXCEPT ![w].frameworks = @ \ {f},
                     ![w].pc = IF policy[w].frameworks = {f} THEN MappedPc ELSE "map_controls"]
                /\ UNCHANGED faults
             \/ /\ Raises
                /\ WriteOrNot(s, row)
                /\ PolicyGoto(w, "fail_run")
    BY <1>10 DEF PolicyMapScore
  <2>2. s \in Scans /\ [db[s] EXCEPT !.scores = @ \cup {f}] \in Rows
    BY <1>10, <1>m, <1>t DEF PolicyMapScore, Rows
  <2>3. db' \in [Scans -> Rows]
    BY <1>t, <2>1, <2>2, WriteType
  <2>4. PolicyTypeOK'
    <3>1. CASE PolicyGoto(w, "fail_run")
      BY <1>10, <3>1, PolicyGotoType DEF PolicyMapScore, TypeOK, PolicyPcs
    <3> QED BY <1>10, <1>m, <1>p, <2>1, <3>1 DEF PolicyMapScore, TypeOK, PolicyTypeOK, PolicyPcs
  <2> QED BY <1>10, <2>1, <2>3, <2>4 DEF PolicyMapScore, TypeOK, StoreTypeOK, Raises
<1>11. CASE PolicyGetRun(w)
  <2>1. CASE PolicyQueryRaises(w, "fail_run")
    BY <1>11, <2>1, PolicyQueryRaisesType DEF PolicyGetRun, PolicyPcs
  <2>2. CASE ~PolicyQueryRaises(w, "fail_run")
    <3>1. PolicyTypeOK'
      BY <1>11, <1>m, <2>2 DEF PolicyGetRun, TypeOK, PolicyTypeOK, PolicyPcs
    <3> QED BY <1>11, <2>2, <3>1 DEF PolicyGetRun, TypeOK, StoreTypeOK, store
  <2> QED BY <2>1, <2>2
<1>12. CASE PolicySetFinal(w)
  <2>1. update_status(s, policy[w].final) \in Rows
    BY <1>12, <1>st, <1>t DEF PolicySetFinal, PolicyCall, ScanStatus
  <2> QED BY <1>12, <2>1, PolicyCallType DEF PolicySetFinal, PolicyPcs
<1>13. CASE PolicyAppendPolicyCompleted(w)
  <2>1. append_event(s, "policy.completed") \in Rows
    BY <1>13, <1>ev DEF PolicyAppendPolicyCompleted, PolicyCall, TimelineEvents
  <2> QED BY <1>13, <2>1, PolicyCallType DEF PolicyAppendPolicyCompleted, PolicyPcs
<1>14. CASE PolicyAppendComplianceUpdated(w)
  <2>1. append_event(s, "compliance.updated") \in Rows
    BY <1>14, <1>ev DEF PolicyAppendComplianceUpdated, PolicyCall, TimelineEvents
  <2> QED BY <1>14, <2>1, PolicyCallType DEF PolicyAppendComplianceUpdated, PolicyPcs
<1>15. CASE PolicyAppendScanCompleted(w)
  <2>1. append_event(s, ScanCompleted(policy[w].final)) \in Rows
    BY <1>15, <1>ev DEF PolicyAppendScanCompleted, PolicyCall, TimelineEvents, ScanCompleted
  <2> QED BY <1>15, <2>1, PolicyCallType DEF PolicyAppendScanCompleted, PolicyPcs
<1>16. CASE PolicyFailRun(w)
  <2>1. [db[s] EXCEPT !.evaluation = "failed"] \in Rows
    BY <1>16, <1>m DEF PolicyFailRun, PolicyCall, Rows
  <2> QED BY <1>16, <2>1, PolicyCallType DEF PolicyFailRun, PolicyPcs
<1>17. CASE PolicySetFailed(w)
  <2>1. update_status(s, "failed") \in Rows
    BY <1>17, <1>st DEF PolicySetFailed, PolicyCall, ScanStatus
  <2> QED BY <1>17, <2>1, PolicyCallType DEF PolicySetFailed, PolicyPcs
<1>18. CASE PolicyAppendScanFailed(w)
  <2>1. append_event(s, "scan.completed:failed") \in Rows
    BY <1>18, <1>ev DEF PolicyAppendScanFailed, PolicyCall, TimelineEvents
  <2> QED BY <1>18, <2>1, PolicyCallType DEF PolicyAppendScanFailed, PolicyPcs
<1>19. CASE PolicyCrash(w)
  <2>1. PolicyTypeOK'
    BY <1>19, PolicyGotoType DEF PolicyCrash, TypeOK, PolicyPcs
  <2> QED BY <1>19, <2>1 DEF PolicyCrash, TypeOK, StoreTypeOK, Dies
<1> QED
  BY <1>1, <1>2, <1>3, <1>4, <1>5, <1>6, <1>7, <1>8, <1>9, <1>10, <1>11, <1>12,
     <1>13, <1>14, <1>15, <1>16, <1>17, <1>18, <1>19 DEF PolicyStep

LEMMA InitType == Init => TypeOK
<1> SUFFICES ASSUME Init PROVE TypeOK
  OBVIOUS
<1>1. StoreTypeOK
  <2>1. NoRow \in Rows
    BY DEF NoRow, Rows
  <2> QED BY <2>1 DEF Init, StoreInit, StoreTypeOK
<1>2. ServiceTypeOK
  BY DEF Init, ServiceInit, ServiceTypeOK, ApiPcs, CollectorPcs
<1>3. IngestTypeOK
  BY DEF Init, IngestInit, IngestTypeOK, IngestIdle, IngestPcs
<1>4. PolicyTypeOK
  <2>1. PolicyIdle \in
          [pc : PolicyPcs, scan : Scans \cup {None}, todo : SUBSET Resources,
           frameworks : SUBSET Frameworks, final : {"completed", "completed_with_errors"}]
    BY DEF PolicyIdle, PolicyPcs
  <2>2. \A w \in PolicyWorkers : policy[w] = PolicyIdle /\ policy[w].pc = "idle"
    BY DEF Init, PolicyInit, PolicyIdle
  <2>3. policy \in [PolicyWorkers ->
          [pc : PolicyPcs, scan : Scans \cup {None}, todo : SUBSET Resources,
           frameworks : SUBSET Frameworks, final : {"completed", "completed_with_errors"}]]
    BY <2>1 DEF Init, PolicyInit
  <2> QED BY <2>2, <2>3 DEF PolicyTypeOK
<1> QED BY <1>1, <1>2, <1>3, <1>4 DEF TypeOK

LEMMA NextType == TypeOK /\ [Next]_vars => TypeOK'
<1> SUFFICES ASSUME TypeOK, [Next]_vars PROVE TypeOK'
  OBVIOUS
<1>1. CASE ServiceNext /\ UNCHANGED <<ingest, policy>>
  BY <1>1, ServiceType DEF TypeOK, IngestTypeOK, PolicyTypeOK
<1>2. CASE IngestNext /\ UNCHANGED <<api, collector, policy>>
  BY <1>2, IngestType DEF TypeOK, ServiceTypeOK, PolicyTypeOK
<1>3. CASE PolicyNext /\ UNCHANGED <<api, collector, ingest>>
  BY <1>3, PolicyType DEF TypeOK, ServiceTypeOK, IngestTypeOK
<1>4. CASE /\ ReactivateIntegration \/ RedisRestart
           /\ UNCHANGED <<api, collector, ingest, policy>>
  <2>1. StoreTypeOK'
    <3>1. CASE ReactivateIntegration
      BY <3>1 DEF ReactivateIntegration, TypeOK, StoreTypeOK
    <3>2. CASE RedisRestart
      BY <3>2 DEF RedisRestart, Dies, TypeOK, StoreTypeOK
    <3> QED BY <1>4, <3>1, <3>2
  <2> QED BY <1>4, <2>1 DEF TypeOK, ServiceTypeOK, IngestTypeOK, PolicyTypeOK
<1>5. CASE UNCHANGED vars
  BY <1>5 DEF vars, store, TypeOK, StoreTypeOK, ServiceTypeOK, IngestTypeOK, PolicyTypeOK
<1> QED BY <1>1, <1>2, <1>3, <1>4, <1>5 DEF Next

(* Every reachable state of the pipeline is well typed, and a worker that is  *)
(* not idle holds the envelope it popped.                                     *)
THEOREM TypeCorrect == Spec => []TypeOK
  BY InitType, NextType, PTL DEF Spec

(*****************************************************************************)
(* The hand-off                                                              *)
(*****************************************************************************)

(* The rows the hand-off depends on are left alone.                           *)
SameIntake(s) ==
  /\ db'[s].inventory = db[s].inventory
  /\ db'[s].manifest = db[s].manifest
  /\ db'[s].relationships = db[s].relationships
  /\ db[s].timeline \subseteq db'[s].timeline

(*****************************************************************************)
(* What one step of an ingest worker may do                                  *)
(*****************************************************************************)

IngestEffect(w) ==
  LET s    == IngestScan(w)
      type == ingest[w].msg.type
  IN /\ UNCHANGED <<collectJobs, platformEvents>>
     /\ \A v \in IngestWorkers \ {w} : ingest'[v] = ingest[v]
     /\ \A t \in Scans \ {s} : db'[t] = db[t]
     /\ \/ ingest'[w].pc = "idle"
        \/ /\ ingest'[w].msg = ingest[w].msg
           /\ ingest'[w].pc \in PcsOf(type)
           /\ type = "collection.completed" => Ingesting(w)'
     /\ type # "collection.completed" \/ ingest[w].pc = "on_error" => SameIntake(s)
     /\ ingest[w].pc = "on_error" => ingest'[w].pc = "idle"
     /\ \/ UNCHANGED policyQueue
        \/ /\ ingest[w].pc = "publish"
           /\ policyQueue' = Append(policyQueue, s)
           /\ ingest'[w].pc \in {"idle", "on_error"}
           /\ UNCHANGED db

LEMMA IngestCallEffect ==
  ASSUME TypeOK, NEW w \in IngestWorkers, NEW at \in IngestPcs \ {"idle"}, NEW row \in Rows,
         NEW next \in IngestPcs, NEW handler \in IngestPcs,
         IngestCall(w, at, row, next, handler)
  PROVE  /\ ingest[w].pc = at
         /\ ingest[w].msg \in Events
         /\ IngestScan(w) \in Scans
         /\ UNCHANGED <<collectJobs, platformEvents, policyQueue>>
         /\ \A v \in IngestWorkers \ {w} : ingest'[v] = ingest[v]
         /\ \A t \in Scans \ {IngestScan(w)} : db'[t] = db[t]
         /\ \/ /\ db'[IngestScan(w)] = row
               /\ next = "idle" => ingest'[w].pc = "idle"
               /\ next # "idle" => /\ ingest'[w].pc = next
                                   /\ ingest'[w].msg = ingest[w].msg
                                   /\ ingest'[w].todo = ingest[w].todo
            \/ /\ db'[IngestScan(w)] \in {db[IngestScan(w)], row}
               /\ handler = "idle" => ingest'[w].pc = "idle"
               /\ handler # "idle" => /\ ingest'[w].pc = handler
                                      /\ ingest'[w].msg = ingest[w].msg
<1>1. /\ ingest[w].pc = at
      /\ ingest[w].msg \in Events
      /\ IngestScan(w) \in Scans
      /\ UNCHANGED <<collectJobs, platformEvents, policyQueue>>
  BY DEF IngestCall, TypeOK, IngestTypeOK, IngestScan, Events
<1>2. \A t \in Scans \ {IngestScan(w)} : db'[t] = db[t]
  BY DEF IngestCall, Write, WriteOrNot, TypeOK, StoreTypeOK
<1>3. \A v \in IngestWorkers \ {w} : ingest'[v] = ingest[v]
  BY DEF IngestCall, IngestGoto, TypeOK, IngestTypeOK
<1>4. ASSUME NEW pc \in IngestPcs, IngestGoto(w, pc)
      PROVE  /\ pc = "idle" => ingest'[w].pc = "idle"
             /\ pc # "idle" => /\ ingest'[w].pc = pc
                               /\ ingest'[w].msg = ingest[w].msg
                               /\ ingest'[w].todo = ingest[w].todo
  BY <1>4 DEF IngestGoto, TypeOK, IngestTypeOK, IngestIdle
<1>5. ASSUME Write(IngestScan(w), row)
      PROVE  db'[IngestScan(w)] = row
  BY <1>1, <1>5 DEF Write, TypeOK, StoreTypeOK
<1>6. CASE Write(IngestScan(w), row) /\ IngestGoto(w, next)
  BY <1>1, <1>2, <1>3, <1>4, <1>5, <1>6
<1>7. CASE WriteOrNot(IngestScan(w), row) /\ IngestGoto(w, handler)
  BY <1>1, <1>2, <1>3, <1>4, <1>5, <1>7 DEF WriteOrNot
<1> QED BY <1>6, <1>7 DEF IngestCall

(* A statement of an ingest worker, from what its row and its next step are.  *)
LEMMA IngestCallLift ==
  ASSUME TypeOK, NEW w \in IngestWorkers, NEW at \in IngestPcs \ {"idle", "publish"},
         NEW row \in Rows, NEW next \in IngestPcs, NEW handler \in {"idle", "on_error"},
         IngestCall(w, at, row, next, handler),
         next = "idle" \/ next \in PcsOf(ingest[w].msg.type),
         handler = "idle" \/ handler \in PcsOf(ingest[w].msg.type),
         at = "on_error" => next = "idle" /\ handler = "idle",
         ingest[w].msg.type # "collection.completed" \/ at = "on_error" =>
           /\ row.inventory = db[IngestScan(w)].inventory
           /\ row.manifest = db[IngestScan(w)].manifest
           /\ row.relationships = db[IngestScan(w)].relationships
           /\ db[IngestScan(w)].timeline \subseteq row.timeline,
         ingest[w].msg.type = "collection.completed" =>
           next = "idle" \/ IngestingAt(next, ingest[w].msg, ingest[w].todo, row)
  PROVE  ingest[w].pc # "idle" /\ IngestEffect(w)
<1> DEFINE s == IngestScan(w)
<1> handler \in IngestPcs
  BY DEF IngestPcs
<1>1. /\ ingest[w].pc = at
      /\ ingest[w].msg \in Events
      /\ s \in Scans
      /\ UNCHANGED <<collectJobs, platformEvents, policyQueue>>
      /\ \A v \in IngestWorkers \ {w} : ingest'[v] = ingest[v]
      /\ \A t \in Scans \ {s} : db'[t] = db[t]
  BY IngestCallEffect
<1>2. \/ /\ db'[s] = row
         /\ next = "idle" => ingest'[w].pc = "idle"
         /\ next # "idle" => /\ ingest'[w].pc = next
                             /\ ingest'[w].msg = ingest[w].msg
                             /\ ingest'[w].todo = ingest[w].todo
      \/ /\ db'[s] \in {db[s], row}
         /\ handler = "idle" => ingest'[w].pc = "idle"
         /\ handler # "idle" => /\ ingest'[w].pc = handler
                                /\ ingest'[w].msg = ingest[w].msg
  BY IngestCallEffect
<1>3. db'[s] \in {db[s], row}
  BY <1>2
<1>4. ingest[w].msg.type # "collection.completed" \/ at = "on_error" => SameIntake(s)
  BY <1>3 DEF SameIntake
<1>5. at = "on_error" => ingest'[w].pc = "idle"
  BY <1>2
<1>6. ASSUME ingest'[w].pc # "idle"
      PROVE  /\ ingest'[w].msg = ingest[w].msg
             /\ ingest'[w].pc \in PcsOf(ingest[w].msg.type)
             /\ ingest[w].msg.type = "collection.completed" => Ingesting(w)'
  <2>1. /\ ingest'[w].msg = ingest[w].msg
        /\ ingest'[w].pc \in PcsOf(ingest[w].msg.type)
    BY <1>2, <1>6
  <2>2. IngestingAt("on_error", ingest'[w].msg, ingest'[w].todo, db'[s])
    BY DEF IngestingAt
  <2>3. ingest[w].msg.type = "collection.completed"
          => IngestingAt(ingest'[w].pc, ingest'[w].msg, ingest'[w].todo, db'[s])
    BY <1>2, <1>6, <2>2
  <2> QED BY <2>1, <2>3 DEF Ingesting, IngestScan
<1> QED BY <1>1, <1>4, <1>5, <1>6 DEF IngestEffect

LEMMA IngestStepEffect ==
  ASSUME HandOffInvariant, NEW w \in IngestWorkers,
         IngestStep(w) \/ IngestCrash(w), ~IngestPop(w)
  PROVE  ingest[w].pc # "idle" /\ IngestEffect(w)
<1> DEFINE s    == IngestScan(w)
           row  == db[s]
           type == ingest[w].msg.type
           todo == ingest[w].todo
<1>t. /\ TypeOK
      /\ db \in [Scans -> Rows]
      /\ ingest \in [IngestWorkers ->
           [pc : IngestPcs, msg : Events \cup {NoEvent}, todo : SUBSET Resources]]
      /\ IngestProgress
  BY DEF HandOffInvariant, TypeOK, StoreTypeOK, IngestTypeOK
<1>m. ASSUME ingest[w].pc # "idle"
      PROVE  /\ ingest[w].msg \in Events
             /\ s \in Scans
             /\ row \in Rows
             /\ ingest[w].pc = "append_event" \/ ingest[w].pc \in PcsOf(type)
             /\ type \in {"collection.started", "collection.completed", "collection.failed"}
             /\ type = "collection.completed" => IngestingAt(ingest[w].pc, ingest[w].msg, todo, row)
  <2>1. ingest[w].msg \in Events /\ s \in Scans
    BY <1>m, <1>t DEF TypeOK, IngestTypeOK, IngestScan, Events
  <2>2. row \in Rows
    BY <2>1, <1>t
  <2>3. type \in {"collection.started", "collection.completed", "collection.failed"}
    BY <2>1 DEF Events
  <2>4. /\ ingest[w].pc = "append_event" \/ ingest[w].pc \in PcsOf(type)
        /\ type = "collection.completed" => Ingesting(w)
    BY <1>m, <1>t DEF IngestProgress
  <2> QED BY <2>1, <2>2, <2>3, <2>4 DEF Ingesting, IngestScan
<1>1. CASE IngestSetCollecting(w)
  <2> DEFINE new == update_status(s, "collecting")
  <2>1. ingest[w].pc = "set_collecting"
    BY <1>1 DEF IngestSetCollecting, IngestCall
  <2>2. type = "collection.started"
    BY <2>1, <1>m DEF PcsOf
  <2>3. new \in Rows
    BY <2>1, <1>m DEF Rows, Events, update_status, ScanStatus
  <2>4. /\ new.inventory = row.inventory
        /\ new.manifest = row.manifest
        /\ new.relationships = row.relationships
        /\ row.timeline \subseteq new.timeline
    BY <2>1, <1>m DEF Rows, update_status
  <2>5. IngestCall(w, "set_collecting", new, "run_running", "idle")
    BY <1>1 DEF IngestSetCollecting
  <2>6. "run_running" \in PcsOf(type)
    BY <2>2 DEF PcsOf
  <2> HIDE DEF new
  <2> QED BY <2>1, <2>2, <2>3, <2>4, <2>5, <2>6, <1>t, IngestCallLift DEF IngestPcs
<1>2. CASE IngestRunRunning(w)
  <2> DEFINE new == [db[s] EXCEPT !.run = "running"]
  <2>1. ingest[w].pc = "run_running"
    BY <1>2 DEF IngestRunRunning, IngestCall
  <2>2. type = "collection.started"
    BY <2>1, <1>m DEF PcsOf
  <2>3. new \in Rows
    BY <2>1, <1>m DEF Rows, Events
  <2>4. /\ new.inventory = row.inventory
        /\ new.manifest = row.manifest
        /\ new.relationships = row.relationships
        /\ row.timeline \subseteq new.timeline
    BY <2>1, <1>m DEF Rows
  <2>5. IngestCall(w, "run_running", new, "idle", "idle")
    BY <1>2 DEF IngestRunRunning
  <2> HIDE DEF new
  <2> QED BY <2>1, <2>2, <2>3, <2>4, <2>5, <1>t, IngestCallLift DEF IngestPcs
<1>3. CASE IngestSetFailed(w)
  <2> DEFINE new == update_status(s, "failed")
  <2>1. ingest[w].pc = "set_failed"
    BY <1>3 DEF IngestSetFailed, IngestCall
  <2>2. type = "collection.failed"
    BY <2>1, <1>m DEF PcsOf
  <2>3. new \in Rows
    BY <2>1, <1>m DEF Rows, Events, update_status, ScanStatus
  <2>4. /\ new.inventory = row.inventory
        /\ new.manifest = row.manifest
        /\ new.relationships = row.relationships
        /\ row.timeline \subseteq new.timeline
    BY <2>1, <1>m DEF Rows, update_status
  <2>5. IngestCall(w, "set_failed", new, "run_failed", "idle")
    BY <1>3 DEF IngestSetFailed
  <2>6. "run_failed" \in PcsOf(type)
    BY <2>2 DEF PcsOf
  <2> HIDE DEF new
  <2> QED BY <2>1, <2>2, <2>3, <2>4, <2>5, <2>6, <1>t, IngestCallLift DEF IngestPcs
<1>4. CASE IngestRunFailed(w)
  <2> DEFINE new == [db[s] EXCEPT !.run = "failed"]
  <2>1. ingest[w].pc = "run_failed"
    BY <1>4 DEF IngestRunFailed, IngestCall
  <2>2. type = "collection.failed"
    BY <2>1, <1>m DEF PcsOf
  <2>3. new \in Rows
    BY <2>1, <1>m DEF Rows, Events
  <2>4. /\ new.inventory = row.inventory
        /\ new.manifest = row.manifest
        /\ new.relationships = row.relationships
        /\ row.timeline \subseteq new.timeline
    BY <2>1, <1>m DEF Rows
  <2>5. IngestCall(w, "run_failed", new, "mark_invalid", "idle")
    BY <1>4 DEF IngestRunFailed
  <2>6. "mark_invalid" \in PcsOf(type)
    BY <2>2 DEF PcsOf
  <2> HIDE DEF new
  <2> QED BY <2>1, <2>2, <2>3, <2>4, <2>5, <2>6, <1>t, IngestCallLift DEF IngestPcs
<1>5. CASE IngestAppendScanCompleted(w)
  <2> DEFINE new == append_event(s, "scan.completed:failed")
  <2>1. ingest[w].pc = "append_scan_completed"
    BY <1>5 DEF IngestAppendScanCompleted, IngestCall
  <2>2. type = "collection.failed"
    BY <2>1, <1>m DEF PcsOf
  <2>3. new \in Rows
    BY <2>1, <1>m DEF Rows, Events, append_event, TimelineEvents
  <2>4. /\ new.inventory = row.inventory
        /\ new.manifest = row.manifest
        /\ new.relationships = row.relationships
        /\ row.timeline \subseteq new.timeline
    BY <2>1, <1>m DEF Rows, append_event
  <2>5. IngestCall(w, "append_scan_completed", new, "idle", "idle")
    BY <1>5 DEF IngestAppendScanCompleted
  <2> HIDE DEF new
  <2> QED BY <2>1, <2>2, <2>3, <2>4, <2>5, <1>t, IngestCallLift DEF IngestPcs
<1>6. CASE IngestSetCollected(w)
  <2> DEFINE new == update_status(s, "collected")
  <2>1. ingest[w].pc = "set_collected"
    BY <1>6 DEF IngestSetCollected, IngestCall
  <2>2. type = "collection.completed"
    BY <2>1, <1>m DEF PcsOf
  <2>3. new \in Rows
    BY <2>1, <1>m DEF Rows, Events, update_status, ScanStatus
  <2>4. IngestingAt("run_collected", ingest[w].msg, todo, new)
    BY <2>1, <2>2, <1>m DEF Rows, IngestingAt, update_status
  <2>5. IngestCall(w, "set_collected", new, "run_collected", "on_error")
    BY <1>6 DEF IngestSetCollected
  <2>6. "run_collected" \in PcsOf(type) /\ "on_error" \in PcsOf(type)
    BY <2>2 DEF PcsOf
  <2> HIDE DEF new
  <2> QED BY <2>1, <2>2, <2>3, <2>4, <2>5, <2>6, <1>t, IngestCallLift DEF IngestPcs
<1>7. CASE IngestRunCollected(w)
  <2> DEFINE new == [db[s] EXCEPT !.run = ingest[w].msg.status, !.manifest = ingest[w].msg.snap]
  <2>1. ingest[w].pc = "run_collected"
    BY <1>7 DEF IngestRunCollected, IngestCall
  <2>2. type = "collection.completed"
    BY <2>1, <1>m DEF PcsOf
  <2>3. new \in Rows
    BY <2>1, <1>m DEF Rows, Events, CollectionStatuses
  <2>4. IngestingAt("mark_invalid", ingest[w].msg, todo, new)
    BY <2>1, <2>2, <1>m DEF Rows, IngestingAt
  <2>5. IngestCall(w, "run_collected", new, "mark_invalid", "on_error")
    BY <1>7 DEF IngestRunCollected
  <2>6. "mark_invalid" \in PcsOf(type) /\ "on_error" \in PcsOf(type)
    BY <2>2 DEF PcsOf
  <2> HIDE DEF new
  <2> QED BY <2>1, <2>2, <2>3, <2>4, <2>5, <2>6, <1>t, IngestCallLift DEF IngestPcs
<1>8. CASE IngestSetIngesting(w)
  <2> DEFINE new == update_status(s, "ingesting")
  <2>1. ingest[w].pc = "set_ingesting"
    BY <1>8 DEF IngestSetIngesting, IngestCall
  <2>2. type = "collection.completed"
    BY <2>1, <1>m DEF PcsOf
  <2>3. new \in Rows
    BY <2>1, <1>m DEF Rows, Events, update_status, ScanStatus
  <2>4. IngestingAt("read_snapshot", ingest[w].msg, todo, new)
    BY <2>1, <2>2, <1>m DEF Rows, IngestingAt, update_status
  <2>5. IngestCall(w, "set_ingesting", new, "read_snapshot", "on_error")
    BY <1>8 DEF IngestSetIngesting
  <2>6. "read_snapshot" \in PcsOf(type) /\ "on_error" \in PcsOf(type)
    BY <2>2 DEF PcsOf
  <2> HIDE DEF new
  <2> QED BY <2>1, <2>2, <2>3, <2>4, <2>5, <2>6, <1>t, IngestCallLift DEF IngestPcs
<1>9. CASE IngestInsertRelationships(w)
  <2> DEFINE new == [db[s] EXCEPT !.relationships = TRUE]
  <2>1. ingest[w].pc = "insert_relationships"
    BY <1>9 DEF IngestInsertRelationships, IngestCall
  <2>2. type = "collection.completed"
    BY <2>1, <1>m DEF PcsOf
  <2>3. new \in Rows
    BY <2>1, <1>m DEF Rows, Events
  <2>4. IngestingAt("set_inventory_ready", ingest[w].msg, todo, new)
    BY <2>1, <2>2, <1>m DEF Rows, IngestingAt
  <2>5. IngestCall(w, "insert_relationships", new, "set_inventory_ready", "on_error")
    BY <1>9 DEF IngestInsertRelationships
  <2>6. "set_inventory_ready" \in PcsOf(type) /\ "on_error" \in PcsOf(type)
    BY <2>2 DEF PcsOf
  <2> HIDE DEF new
  <2> QED BY <2>1, <2>2, <2>3, <2>4, <2>5, <2>6, <1>t, IngestCallLift DEF IngestPcs
<1>10. CASE IngestSetInventoryReady(w)
  <2> DEFINE new == update_status(s, "inventory_ready")
  <2>1. ingest[w].pc = "set_inventory_ready"
    BY <1>10 DEF IngestSetInventoryReady, IngestCall
  <2>2. type = "collection.completed"
    BY <2>1, <1>m DEF PcsOf
  <2>3. new \in Rows
    BY <2>1, <1>m DEF Rows, Events, update_status, ScanStatus
  <2>4. IngestingAt("append_inventory_updated", ingest[w].msg, todo, new)
    BY <2>1, <2>2, <1>m DEF Rows, IngestingAt, update_status
  <2>5. IngestCall(w, "set_inventory_ready", new, "append_inventory_updated", "on_error")
    BY <1>10 DEF IngestSetInventoryReady
  <2>6. "append_inventory_updated" \in PcsOf(type) /\ "on_error" \in PcsOf(type)
    BY <2>2 DEF PcsOf
  <2> HIDE DEF new
  <2> QED BY <2>1, <2>2, <2>3, <2>4, <2>5, <2>6, <1>t, IngestCallLift DEF IngestPcs
<1>11. CASE IngestAppendInventoryUpdated(w)
  <2> DEFINE new == append_event(s, "inventory.updated")
  <2>1. ingest[w].pc = "append_inventory_updated"
    BY <1>11 DEF IngestAppendInventoryUpdated, IngestCall
  <2>2. type = "collection.completed"
    BY <2>1, <1>m DEF PcsOf
  <2>3. new \in Rows
    BY <2>1, <1>m DEF Rows, Events, append_event, TimelineEvents
  <2>4. IngestingAt("publish", ingest[w].msg, todo, new)
    BY <2>1, <2>2, <1>m DEF Rows, IngestingAt, append_event
  <2>5. IngestCall(w, "append_inventory_updated", new, "publish", "on_error")
    BY <1>11 DEF IngestAppendInventoryUpdated
  <2>6. "publish" \in PcsOf(type) /\ "on_error" \in PcsOf(type)
    BY <2>2 DEF PcsOf
  <2> HIDE DEF new
  <2> QED BY <2>1, <2>2, <2>3, <2>4, <2>5, <2>6, <1>t, IngestCallLift DEF IngestPcs
<1>12. CASE IngestOnError(w)
  <2> DEFINE new == update_status(s, "failed")
  <2>1. ingest[w].pc = "on_error"
    BY <1>12 DEF IngestOnError, IngestCall
  <2>2. type = "collection.completed"
    BY <2>1, <1>m DEF PcsOf
  <2>3. new \in Rows
    BY <2>1, <1>m DEF Rows, Events, update_status, ScanStatus
  <2>4. /\ new.inventory = row.inventory
        /\ new.manifest = row.manifest
        /\ new.relationships = row.relationships
        /\ row.timeline \subseteq new.timeline
    BY <2>1, <1>m DEF Rows, update_status
  <2>5. IngestCall(w, "on_error", new, "idle", "idle")
    BY <1>12 DEF IngestOnError
  <2> HIDE DEF new
  <2> QED BY <2>1, <2>2, <2>3, <2>4, <2>5, <1>t, IngestCallLift DEF IngestPcs
<1>13. CASE IngestAppendEvent(w)
  <2> DEFINE new  == append_event(s, type)
             next == FirstStep(type)
  <2>1. ingest[w].pc = "append_event"
    BY <1>13 DEF IngestAppendEvent, IngestCall
  <2>2. new \in Rows
    BY <2>1, <1>m DEF Rows, append_event, TimelineEvents
  <2>3. /\ new.inventory = row.inventory
        /\ new.manifest = row.manifest
        /\ new.relationships = row.relationships
        /\ row.timeline \subseteq new.timeline
    BY <2>1, <1>m DEF Rows, append_event
  <2>4. next \in PcsOf(type) /\ next \in IngestPcs
    BY <2>1, <1>m DEF FirstStep, PcsOf, IngestPcs
  <2>5. type = "collection.completed" => IngestingAt(next, ingest[w].msg, todo, new)
    BY <2>1, <2>3, <1>m DEF IngestingAt, FirstStep
  <2>6. IngestCall(w, "append_event", new, next, "idle")
    BY <1>13 DEF IngestAppendEvent
  <2> HIDE DEF new, next
  <2> QED BY <2>1, <2>2, <2>3, <2>4, <2>5, <2>6, <1>t, IngestCallLift DEF IngestPcs
<1>g. ASSUME NEW pc \in IngestPcs, IngestGoto(w, pc)
      PROVE  /\ \A v \in IngestWorkers \ {w} : ingest'[v] = ingest[v]
             /\ pc = "idle" => ingest'[w].pc = "idle"
             /\ pc # "idle" => /\ ingest'[w].pc = pc
                               /\ ingest'[w].msg = ingest[w].msg
                               /\ ingest'[w].todo = ingest[w].todo
  BY <1>g, <1>t DEF IngestGoto, IngestIdle
<1>e. IngestingAt("on_error", ingest'[w].msg, ingest'[w].todo, db'[ingest'[w].msg.scan])
  BY DEF IngestingAt
<1>s. UNCHANGED db => SameIntake(s)
  BY DEF SameIntake
<1>14. CASE IngestMarkInvalid(w)
  <2>1. /\ ingest[w].pc = "mark_invalid"
        /\ UNCHANGED <<db, collectJobs, platformEvents, policyQueue>>
    BY <1>14 DEF IngestMarkInvalid
  <2>2. PICK pc \in {"set_ingesting", "on_error", "append_scan_completed", "idle"} :
          /\ IngestGoto(w, pc)
          /\ type = "collection.completed" => pc \in {"set_ingesting", "on_error"}
          /\ type # "collection.completed" => pc \in {"append_scan_completed", "idle"}
    BY <1>14 DEF IngestMarkInvalid
  <2>3. type \in {"collection.completed", "collection.failed"}
    BY <2>1, <1>m DEF PcsOf
  <2>4. pc \in IngestPcs /\ (pc = "idle" \/ pc \in PcsOf(type))
    BY <2>2, <2>3 DEF IngestPcs, PcsOf
  <2>5. type = "collection.completed" /\ pc # "on_error" => IngestingAt(pc, ingest[w].msg, todo, row)
    BY <2>1, <2>2, <1>m DEF IngestingAt
  <2>6. type = "collection.completed" => Ingesting(w)'
    BY <2>1, <2>2, <2>4, <2>5, <1>g, <1>e DEF Ingesting, IngestScan
  <2> QED BY <2>1, <2>2, <2>4, <2>6, <1>g, <1>s DEF IngestEffect
<1>15. CASE IngestReadSnapshot(w)
  <2>1. /\ ingest[w].pc = "read_snapshot"
        /\ UNCHANGED <<db, collectJobs, platformEvents, policyQueue>>
    BY <1>15 DEF IngestReadSnapshot
  <2>2. type = "collection.completed"
    BY <2>1, <1>m DEF PcsOf
  <2>3. \/ /\ ingest'[w].msg = ingest[w].msg
           /\ ingest'[w].todo = ingest[w].msg.snap
           /\ ingest'[w].pc = IF ingest[w].msg.snap = {} THEN "insert_relationships" ELSE "insert_resources"
           /\ \A v \in IngestWorkers \ {w} : ingest'[v] = ingest[v]
        \/ IngestGoto(w, "on_error")
    BY <1>15, <1>t DEF IngestReadSnapshot
  <2>4. CASE IngestGoto(w, "on_error")
    <3>1. "on_error" \in IngestPcs /\ "on_error" \in PcsOf(type)
      BY <2>2 DEF IngestPcs, PcsOf
    <3>2. Ingesting(w)'
      BY <2>4, <3>1, <1>g, <1>e DEF Ingesting
    <3> QED BY <2>1, <2>4, <3>1, <3>2, <1>g, <1>s DEF IngestEffect
  <2>5. CASE /\ ingest'[w].msg = ingest[w].msg
             /\ ingest'[w].todo = ingest[w].msg.snap
             /\ ingest'[w].pc = IF ingest[w].msg.snap = {} THEN "insert_relationships" ELSE "insert_resources"
             /\ \A v \in IngestWorkers \ {w} : ingest'[v] = ingest[v]
    <3>1. IngestingAt(ingest'[w].pc, ingest[w].msg, ingest'[w].todo, row)
      BY <2>1, <2>2, <2>5, <1>m DEF IngestingAt
    <3>2. Ingesting(w)'
      BY <2>1, <2>5, <3>1 DEF Ingesting, IngestScan
    <3>3. ingest'[w].pc \in PcsOf(type)
      BY <2>2, <2>5 DEF PcsOf
    <3> QED BY <2>1, <2>2, <2>5, <3>2, <3>3, <1>s DEF IngestEffect
  <2> QED BY <2>3, <2>4, <2>5
<1>16. CASE IngestInsertResource(w)
  <2>1. /\ ingest[w].pc = "insert_resources"
        /\ UNCHANGED <<collectJobs, platformEvents, policyQueue>>
    BY <1>16 DEF IngestInsertResource
  <2>2. type = "collection.completed" /\ s \in Scans /\ row \in Rows
    BY <2>1, <1>m DEF PcsOf
  <2>3. PICK r \in todo :
          LET new == [db[s] EXCEPT !.inventory = @ \cup {r}]
          IN \/ /\ Write(s, new)
                /\ ingest' = [ingest EXCEPT ![w].todo = @ \ {r},
                     ![w].pc = IF ingest[w].todo = {r} THEN "insert_relationships" ELSE @]
             \/ /\ WriteOrNot(s, new)
                /\ IngestGoto(w, "on_error")
    BY <1>16 DEF IngestInsertResource
  <2> DEFINE new == [db[s] EXCEPT !.inventory = @ \cup {r}]
  <2>4. \A t \in Scans \ {s} : db'[t] = db[t]
    BY <2>3, <1>t DEF Write, WriteOrNot
  <2>5. CASE IngestGoto(w, "on_error")
    <3>1. "on_error" \in IngestPcs /\ "on_error" \in PcsOf(type)
      BY <2>2 DEF IngestPcs, PcsOf
    <3>2. Ingesting(w)'
      BY <2>5, <3>1, <1>g, <1>e DEF Ingesting
    <3> QED BY <2>1, <2>2, <2>4, <2>5, <3>1, <3>2, <1>g DEF IngestEffect
  <2>6. CASE /\ Write(s, new)
             /\ ingest' = [ingest EXCEPT ![w].todo = @ \ {r},
                  ![w].pc = IF ingest[w].todo = {r} THEN "insert_relationships" ELSE @]
    <3>1. /\ ingest'[w].msg = ingest[w].msg
          /\ ingest'[w].todo = todo \ {r}
          /\ ingest'[w].pc = IF todo = {r} THEN "insert_relationships" ELSE "insert_resources"
          /\ \A v \in IngestWorkers \ {w} : ingest'[v] = ingest[v]
      BY <2>1, <2>6, <1>t
    <3>2. /\ db'[s] = new
          /\ new.inventory = row.inventory \cup {r}
          /\ new.manifest = row.manifest
      BY <2>2, <2>6, <1>t DEF Write, Rows
    <3>3. /\ row.manifest = ingest[w].msg.snap
          /\ row.inventory \cup todo = row.manifest
      BY <2>1, <2>2, <1>m DEF IngestingAt
    <3>4. IngestingAt(ingest'[w].pc, ingest[w].msg, ingest'[w].todo, new)
      <4>1. (row.inventory \cup {r}) \cup (todo \ {r}) = row.manifest
        BY <2>3, <3>3
      <4>2. todo = {r} => row.inventory \cup {r} = row.manifest
        BY <3>3
      <4> HIDE DEF new
      <4> QED BY <3>1, <3>2, <3>3, <4>1, <4>2 DEF IngestingAt
    <3>5. Ingesting(w)'
      BY <3>1, <3>2, <3>4 DEF Ingesting, IngestScan
    <3>6. ingest'[w].pc \in PcsOf(type)
      BY <2>2, <3>1 DEF PcsOf
    <3> HIDE DEF new
    <3> QED BY <2>1, <2>2, <2>4, <3>1, <3>5, <3>6 DEF IngestEffect
  <2> QED BY <2>3, <2>5, <2>6
<1>17. CASE IngestPublish(w)
  <2>1. /\ ingest[w].pc = "publish"
        /\ UNCHANGED <<db, collectJobs, platformEvents>>
        /\ policyQueue' \in {policyQueue, Append(policyQueue, s)}
    BY <1>17 DEF IngestPublish
  <2>2. PICK pc \in {"idle", "on_error"} : IngestGoto(w, pc)
    BY <1>17 DEF IngestPublish
  <2>3. type = "collection.completed"
    BY <2>1, <1>m DEF PcsOf
  <2>4. pc \in IngestPcs /\ "on_error" \in PcsOf(type)
    BY <2>3 DEF IngestPcs, PcsOf
  <2>5. ingest'[w].pc = pc /\ \A v \in IngestWorkers \ {w} : ingest'[v] = ingest[v]
    BY <2>2, <2>4, <1>g
  <2>6. pc = "on_error" => ingest'[w].msg = ingest[w].msg /\ Ingesting(w)'
    BY <2>2, <2>4, <1>g, <1>e DEF Ingesting
  <2> QED BY <2>1, <2>2, <2>3, <2>4, <2>5, <2>6, <1>s DEF IngestEffect
<1>18. CASE IngestCrash(w)
  <2>1. "idle" \in IngestPcs
    BY DEF IngestPcs
  <2>2. ingest'[w].pc = "idle" /\ \A v \in IngestWorkers \ {w} : ingest'[v] = ingest[v]
    BY <1>18, <2>1, <1>g DEF IngestCrash
  <2> QED BY <1>18, <2>2, <1>s DEF IngestCrash, IngestEffect
<1> QED BY <1>1, <1>2, <1>3, <1>4, <1>5, <1>6, <1>7, <1>8, <1>9,
           <1>10, <1>11, <1>12, <1>13, <1>14, <1>15, <1>16, <1>17, <1>18 DEF IngestStep

(*****************************************************************************)
(* Queues                                                                    *)
(*****************************************************************************)

LEMMA AppendElements ==
  ASSUME NEW T, NEW q \in Seq(T), NEW x \in T
  PROVE  /\ Append(q, x) \in Seq(T)
         /\ Len(q) \in Nat
         /\ Len(Append(q, x)) = Len(q) + 1
         /\ Append(q, x)[Len(q) + 1] = x
         /\ \A i \in 1..Len(q) : Append(q, x)[i] = q[i]
  OBVIOUS

LEMMA TailElements ==
  ASSUME NEW T, NEW q \in Seq(T), q # <<>>
  PROVE  /\ Head(q) \in T
         /\ Head(q) = q[1]
         /\ Len(q) \in Nat
         /\ 1 \in 1..Len(q)
         /\ Tail(q) \in Seq(T)
         /\ \A i \in 1..Len(Tail(q)) : i + 1 \in 2..Len(q) /\ Tail(q)[i] = q[i + 1]
  OBVIOUS

(*****************************************************************************)
(* HandOffInvariant, step by step                                            *)
(*****************************************************************************)

(* What a worker has written does not depend on what others write elsewhere.  *)
LEMMA IngestingStable ==
  ASSUME NEW pc, NEW msg, NEW todo, NEW row, NEW new,
         IngestingAt(pc, msg, todo, row),
         new.inventory = row.inventory,
         new.manifest = row.manifest,
         new.relationships = row.relationships,
         row.timeline \subseteq new.timeline
  PROVE  IngestingAt(pc, msg, todo, new)
  BY DEF IngestingAt

LEMMA IngestKeepsHandOff ==
  ASSUME HandOffInvariant, TypeOK', NEW w \in IngestWorkers,
         ingest[w].pc # "idle", IngestEffect(w), UNCHANGED <<api, collector, policy>>
  PROVE  HandOffInvariant'
<1> DEFINE s    == IngestScan(w)
           type == ingest[w].msg.type
<1>t. /\ TypeOK
      /\ ingest[w].msg \in Events
      /\ s \in Scans
      /\ s = ingest[w].msg.scan
      /\ type \in {"collection.started", "collection.completed", "collection.failed"}
      /\ policyQueue \in Seq(Scans)
  BY DEF HandOffInvariant, TypeOK, StoreTypeOK, IngestTypeOK, IngestScan, Events
<1>i. /\ JobQueuedOnce
      /\ OneReport
      /\ HandedOff
      /\ UntouchedInventory
      /\ IngestProgress
      /\ IdleHoldsNothing
      /\ OneEvaluator
      /\ EvaluationSeesWholeInventory
  BY DEF HandOffInvariant
<1>e. /\ UNCHANGED <<collectJobs, platformEvents>>
      /\ \A v \in IngestWorkers \ {w} : ingest'[v] = ingest[v]
      /\ \A t \in Scans \ {s} : db'[t] = db[t]
      /\ \/ ingest'[w].pc = "idle"
         \/ /\ ingest'[w].msg = ingest[w].msg
            /\ ingest'[w].pc \in PcsOf(type)
            /\ type = "collection.completed" => Ingesting(w)'
      /\ type # "collection.completed" \/ ingest[w].pc = "on_error" => SameIntake(s)
      /\ ingest[w].pc = "on_error" => ingest'[w].pc = "idle"
      /\ \/ UNCHANGED policyQueue
         \/ /\ ingest[w].pc = "publish"
            /\ policyQueue' = Append(policyQueue, s)
            /\ ingest'[w].pc \in {"idle", "on_error"}
            /\ UNCHANGED db
  BY DEF IngestEffect
<1>h. \A v \in IngestWorkers, t \in Scans : HoldsReport(v, t)' => HoldsReport(v, t)
  BY <1>e DEF HoldsReport
<1>q. \A t \in Scans : ReportQueued(t)' <=> ReportQueued(t)
  BY <1>e DEF ReportQueued
<1>p. ASSUME ingest[w].pc = "publish"
      PROVE  /\ type = "collection.completed"
             /\ HoldsReport(w, s)
             /\ ~Announced(s)
             /\ collector[s] = "done"
             /\ ~ReportQueued(s)
             /\ db[s].inventory = db[s].manifest
             /\ db[s].relationships
             /\ "inventory.updated" \in db[s].timeline
  <2>1. type = "collection.completed"
    BY <1>p, <1>i, <1>t DEF IngestProgress, PcsOf
  <2>2. HoldsReport(w, s)
    BY <1>p, <1>t, <2>1 DEF HoldsReport, Report
  <2>3. ~Announced(s) /\ collector[s] = "done" /\ ~ReportQueued(s)
    BY <1>p, <1>i, <1>t, <2>2 DEF HandedOff, OneReport
  <2>4. IngestingAt("publish", ingest[w].msg, ingest[w].todo, db[s])
    BY <1>p, <1>i, <1>t, <2>1 DEF IngestProgress, Ingesting
  <2> QED BY <2>1, <2>2, <2>3, <2>4 DEF IngestingAt
<1>a. \A t \in Scans :
        Announced(t)' =>
          Announced(t) \/ (t = s /\ ingest[w].pc = "publish" /\ ingest'[w].pc \in {"idle", "on_error"})
  <2> SUFFICES ASSUME NEW t \in Scans, Announced(t)', ~Announced(t)
               PROVE  t = s /\ ingest[w].pc = "publish" /\ ingest'[w].pc \in {"idle", "on_error"}
    OBVIOUS
  <2>1. PICK k \in 1..Len(policyQueue') : policyQueue'[k] = t
    BY DEF Announced
  <2>2. policyQueue' # policyQueue
    BY <2>1 DEF Announced
  <2>3. /\ ingest[w].pc = "publish"
        /\ policyQueue' = Append(policyQueue, s)
        /\ ingest'[w].pc \in {"idle", "on_error"}
    BY <2>2, <1>e
  <2>4. k = Len(policyQueue) + 1
    BY <2>1, <2>3, <1>t, AppendElements DEF Announced
  <2>5. t = s
    BY <2>1, <2>3, <2>4, <1>t, AppendElements
  <2> QED BY <2>3, <2>5
<1>1. JobQueuedOnce'
  BY <1>i, <1>e DEF JobQueuedOnce
<1>2. OneReport'
  <2>1. \A v \in IngestWorkers, t \in Scans :
          HoldsReport(v, t)' => collector[t] = "done" /\ ~ReportQueued(t)'
    BY <1>i, <1>h, <1>q DEF OneReport
  <2>2. \A u, v \in IngestWorkers, t \in Scans : HoldsReport(u, t)' /\ HoldsReport(v, t)' => u = v
    BY <1>i, <1>h DEF OneReport
  <2> QED BY <2>1, <2>2, <1>i, <1>e DEF OneReport
<1>3. HandedOff'
  <2> SUFFICES ASSUME NEW t \in Scans, Announced(t)'
               PROVE  /\ collector[t] = "done"
                      /\ ~ReportQueued(t)
                      /\ \A v \in IngestWorkers : HoldsReport(v, t)' => ingest'[v].pc = "on_error"
    BY <1>q DEF HandedOff
  <2>1. CASE Announced(t)
    <3>1. /\ collector[t] = "done"
          /\ ~ReportQueued(t)
          /\ \A v \in IngestWorkers : HoldsReport(v, t) => ingest[v].pc = "on_error"
      BY <2>1, <1>i DEF HandedOff
    <3>2. ASSUME NEW v \in IngestWorkers, HoldsReport(v, t)'
          PROVE  ingest'[v].pc = "on_error"
      <4>1. ingest[v].pc = "on_error"
        BY <3>1, <3>2, <1>h
      <4>2. v # w
        BY <3>2, <4>1, <1>e DEF HoldsReport
      <4> QED BY <4>1, <4>2, <1>e
    <3> QED BY <3>1, <3>2
  <2>2. CASE t = s /\ ingest[w].pc = "publish" /\ ingest'[w].pc \in {"idle", "on_error"}
    <3>1. ASSUME NEW v \in IngestWorkers, HoldsReport(v, t)'
          PROVE  ingest'[v].pc = "on_error"
      <4>1. v = w
        BY <2>2, <3>1, <1>h, <1>p, <1>i DEF OneReport
      <4> QED BY <2>2, <3>1, <4>1 DEF HoldsReport
    <3> QED BY <2>2, <3>1, <1>p
  <2> QED BY <2>1, <2>2, <1>a
<1>4. UntouchedInventory'
  <2> SUFFICES ASSUME NEW t \in Scans, collector[t] # "done" \/ ReportQueued(t)
               PROVE  db'[t].inventory = {}
    BY <1>q DEF UntouchedInventory
  <2>1. db[t].inventory = {}
    BY <1>i DEF UntouchedInventory
  <2>2. CASE t = s
    <3>1. type # "collection.completed"
      BY <2>2, <1>i, <1>t DEF OneReport, HoldsReport, Report
    <3> QED BY <2>1, <2>2, <3>1, <1>e DEF SameIntake
  <2> QED BY <2>1, <2>2, <1>e
<1>5. IngestProgress'
  <2> SUFFICES ASSUME NEW v \in IngestWorkers, ingest'[v].pc # "idle"
               PROVE  /\ ingest'[v].pc \in {"append_event"} \cup PcsOf(ingest'[v].msg.type)
                      /\ ingest'[v].msg.type = "collection.completed" => Ingesting(v)'
    BY DEF IngestProgress
  <2>1. CASE v = w
    BY <2>1, <1>e
  <2>2. CASE v # w
    <3>1. ingest'[v] = ingest[v] /\ ingest[v].msg \in Events /\ ingest[v].msg.scan \in Scans
      BY <2>2, <1>e, <1>t DEF TypeOK, IngestTypeOK, Events
    <3>2. ingest[v].pc \in {"append_event"} \cup PcsOf(ingest[v].msg.type)
      BY <3>1, <1>i DEF IngestProgress
    <3>3. ASSUME ingest[v].msg.type = "collection.completed"
          PROVE  Ingesting(v)'
      <4> DEFINE t == ingest[v].msg.scan
      <4>1. IngestingAt(ingest[v].pc, ingest[v].msg, ingest[v].todo, db[t])
        BY <3>1, <3>3, <1>i DEF IngestProgress, Ingesting
      <4>2. CASE t = s
        <5>1. HoldsReport(v, s)
          BY <3>1, <3>3, <4>2 DEF HoldsReport, Report
        <5>2. type # "collection.completed"
          BY <5>1, <2>2, <1>i, <1>t DEF OneReport, HoldsReport, Report
        <5>3. SameIntake(t)
          BY <5>2, <4>2, <1>e
        <5>4. IngestingAt(ingest[v].pc, ingest[v].msg, ingest[v].todo, db'[t])
          BY <4>1, <5>3, IngestingStable DEF SameIntake
        <5> QED BY <3>1, <5>4 DEF Ingesting
      <4>3. CASE t # s
        <5>1. db'[t] = db[t]
          BY <3>1, <4>3, <1>e
        <5> QED BY <3>1, <4>1, <5>1 DEF Ingesting
      <4> QED BY <4>2, <4>3
    <3> QED BY <3>1, <3>2, <3>3
  <2> QED BY <2>1, <2>2
<1>6. IdleHoldsNothing'
  BY <1>i DEF IdleHoldsNothing
<1>7. OneEvaluator'
  <2>1. CASE UNCHANGED policyQueue
    BY <2>1, <1>i DEF OneEvaluator
  <2>2. CASE ingest[w].pc = "publish" /\ policyQueue' = Append(policyQueue, s)
    <3>1. /\ \A i \in 1..Len(policyQueue) : policyQueue[i] # s
          /\ \A v \in PolicyWorkers : policy[v].scan # s
      BY <2>2, <1>p DEF Announced
    <3> DEFINE n == Len(policyQueue)
    <3>2. /\ n \in Nat
          /\ Len(policyQueue') = n + 1
          /\ policyQueue'[n + 1] = s
          /\ \A i \in 1..n : policyQueue'[i] = policyQueue[i]
      BY <2>2, <1>t, AppendElements
    <3>3. \A i \in 1..(n + 1) : i \in 1..n \/ i = n + 1
      BY <3>2
    <3>4. /\ \A i, j \in 1..n : policyQueue[i] = policyQueue[j] => i = j
          /\ \A i \in 1..n, v \in PolicyWorkers : policyQueue[i] # policy[v].scan
          /\ \A u, v \in PolicyWorkers :
               policy[u].scan = policy[v].scan /\ policy[u].scan # None => u = v
      BY <1>i DEF OneEvaluator
    <3> HIDE DEF n
    <3>5. \A i, j \in 1..(n + 1) : policyQueue'[i] = policyQueue'[j] => i = j
      BY <3>1, <3>2, <3>3, <3>4 DEF n
    <3>6. \A i \in 1..(n + 1), v \in PolicyWorkers : policyQueue'[i] # policy[v].scan
      BY <3>1, <3>2, <3>3, <3>4 DEF n
    <3> QED BY <3>2, <3>4, <3>5, <3>6 DEF OneEvaluator
  <2> QED BY <2>1, <2>2, <1>e
<1>8. EvaluationSeesWholeInventory'
  <2> SUFFICES ASSUME NEW t \in Scans, Announced(t)'
               PROVE  /\ db'[t].inventory = db'[t].manifest
                      /\ db'[t].relationships
                      /\ "inventory.updated" \in db'[t].timeline
    BY DEF EvaluationSeesWholeInventory
  <2>1. CASE Announced(t)
    <3>1. /\ db[t].inventory = db[t].manifest
          /\ db[t].relationships
          /\ "inventory.updated" \in db[t].timeline
      BY <2>1, <1>i DEF EvaluationSeesWholeInventory
    <3>2. CASE t = s
      <4>1. type # "collection.completed" \/ ingest[w].pc = "on_error"
        BY <2>1, <3>2, <1>i, <1>t DEF HandedOff, HoldsReport, Report
      <4> QED BY <3>1, <3>2, <4>1, <1>e DEF SameIntake
    <3> QED BY <3>1, <3>2, <1>e
  <2>2. CASE ~Announced(t) /\ t = s /\ ingest[w].pc = "publish"
    <3>1. UNCHANGED db
      <4>1. ~UNCHANGED policyQueue
        BY <2>2 DEF Announced
      <4> QED BY <4>1, <1>e
    <3> QED BY <2>2, <3>1, <1>p
  <2> QED BY <2>1, <2>2, <1>a
<1> QED BY <1>1, <1>2, <1>3, <1>4, <1>5, <1>6, <1>7, <1>8 DEF HandOffInvariant

LEMMA IngestPopKeepsHandOff ==
  ASSUME HandOffInvariant, TypeOK', NEW w \in IngestWorkers,
         IngestPop(w), UNCHANGED <<api, collector, policy>>
  PROVE  HandOffInvariant'
<1>t. /\ platformEvents \in Seq(Events)
      /\ ingest \in [IngestWorkers ->
           [pc : IngestPcs, msg : Events \cup {NoEvent}, todo : SUBSET Resources]]
      /\ \A v \in IngestWorkers : ingest[v].pc # "idle" => ingest[v].msg \in Events
  BY DEF HandOffInvariant, TypeOK, StoreTypeOK, IngestTypeOK
<1>i. /\ JobQueuedOnce
      /\ OneReport
      /\ HandedOff
      /\ UntouchedInventory
      /\ IngestProgress
      /\ IdleHoldsNothing
      /\ OneEvaluator
      /\ EvaluationSeesWholeInventory
  BY DEF HandOffInvariant
<1>a. /\ ingest[w].pc = "idle"
      /\ platformEvents # <<>>
      /\ platformEvents' = Tail(platformEvents)
      /\ UNCHANGED <<db, collectJobs, policyQueue>>
      /\ ingest'[w].pc = "append_event"
      /\ ingest'[w].msg = Head(platformEvents)
      /\ \A v \in IngestWorkers \ {w} : ingest'[v] = ingest[v]
  BY <1>t DEF IngestPop
<1>b. PICK e \in Events :
      /\ e.scan \in Scans
      /\ e = platformEvents[1]
      /\ ingest'[w].msg = e
      /\ Len(platformEvents) \in Nat
      /\ 1 \in 1..Len(platformEvents)
      /\ \A i \in 1..Len(platformEvents') :
           i + 1 \in 2..Len(platformEvents) /\ platformEvents'[i] = platformEvents[i + 1]
  <2>1. Head(platformEvents) \in Events
    BY <1>t, <1>a, TailElements
  <2>2. Head(platformEvents).scan \in Scans
    BY <2>1 DEF Events
  <2> QED BY <2>1, <2>2, <1>t, <1>a, TailElements
<1>q. \A t \in Scans : ReportQueued(t)' => ReportQueued(t)
  BY <1>b DEF ReportQueued
<1>r. Report(e) => /\ ReportQueued(e.scan)
                   /\ ~ReportQueued(e.scan)'
                   /\ collector[e.scan] = "done"
                   /\ \A v \in IngestWorkers : ~HoldsReport(v, e.scan)
  <2> SUFFICES ASSUME Report(e)
               PROVE  /\ ReportQueued(e.scan)
                      /\ ~ReportQueued(e.scan)'
                      /\ collector[e.scan] = "done"
                      /\ \A v \in IngestWorkers : ~HoldsReport(v, e.scan)
    OBVIOUS
  <2>1. ReportQueued(e.scan)
    BY <1>b DEF ReportQueued
  <2>2. ASSUME NEW i \in 1..Len(platformEvents'), Report(platformEvents'[i]),
               platformEvents'[i].scan = e.scan
        PROVE  FALSE
    <3>1. /\ i + 1 \in 1..Len(platformEvents)
          /\ i + 1 # 1
          /\ platformEvents'[i] = platformEvents[i + 1]
      BY <1>b
    <3>2. Report(platformEvents[i + 1]) /\ platformEvents[i + 1].scan = platformEvents[1].scan
      BY <2>2, <3>1, <1>b
    <3>3. i + 1 = 1
      BY <3>1, <3>2, <1>b, <1>i DEF OneReport
    <3> QED BY <3>1, <3>3
  <2>3. ~ReportQueued(e.scan)'
    BY <2>2 DEF ReportQueued
  <2>4. collector[e.scan] = "done"
    BY <1>b, <1>i DEF OneReport
  <2>5. \A v \in IngestWorkers : ~HoldsReport(v, e.scan)
    BY <2>1, <1>b, <1>i DEF OneReport
  <2> QED BY <2>1, <2>3, <2>4, <2>5
<1>h. \A v \in IngestWorkers, t \in Scans :
        HoldsReport(v, t)' => HoldsReport(v, t) \/ (v = w /\ t = e.scan /\ Report(e))
  BY <1>a, <1>b DEF HoldsReport
<1>1. JobQueuedOnce'
  BY <1>i, <1>a DEF JobQueuedOnce
<1>2. OneReport'
  <2>1. \A i \in 1..Len(platformEvents') :
          Report(platformEvents'[i]) => collector[platformEvents'[i].scan] = "done"
    BY <1>b, <1>i DEF OneReport
  <2>2. \A i, j \in 1..Len(platformEvents') :
          /\ Report(platformEvents'[i])
          /\ Report(platformEvents'[j])
          /\ platformEvents'[i].scan = platformEvents'[j].scan
          => i = j
    <3> SUFFICES ASSUME NEW i \in 1..Len(platformEvents'), NEW j \in 1..Len(platformEvents'),
                        Report(platformEvents'[i]), Report(platformEvents'[j]),
                        platformEvents'[i].scan = platformEvents'[j].scan
                 PROVE  i = j
      OBVIOUS
    <3>1. /\ i + 1 \in 1..Len(platformEvents)
          /\ j + 1 \in 1..Len(platformEvents)
          /\ platformEvents'[i] = platformEvents[i + 1]
          /\ platformEvents'[j] = platformEvents[j + 1]
      BY <1>b
    <3>2. i + 1 = j + 1
      BY <3>1, <1>i DEF OneReport
    <3> QED BY <3>1, <3>2
  <2>3. \A v \in IngestWorkers, t \in Scans :
          HoldsReport(v, t)' => collector[t] = "done" /\ ~ReportQueued(t)'
    BY <1>h, <1>q, <1>r, <1>i DEF OneReport
  <2>4. \A u, v \in IngestWorkers, t \in Scans : HoldsReport(u, t)' /\ HoldsReport(v, t)' => u = v
    BY <1>h, <1>r, <1>i DEF OneReport
  <2> QED BY <2>1, <2>2, <2>3, <2>4 DEF OneReport
<1>3. HandedOff'
  <2> SUFFICES ASSUME NEW t \in Scans, Announced(t)
               PROVE  /\ collector[t] = "done"
                      /\ ~ReportQueued(t)'
                      /\ \A v \in IngestWorkers : HoldsReport(v, t)' => ingest'[v].pc = "on_error"
    BY <1>a DEF HandedOff, Announced
  <2>1. /\ collector[t] = "done"
        /\ ~ReportQueued(t)
        /\ \A v \in IngestWorkers : HoldsReport(v, t) => ingest[v].pc = "on_error"
    BY <1>i DEF HandedOff
  <2>2. ASSUME NEW v \in IngestWorkers, HoldsReport(v, t)'
        PROVE  ingest'[v].pc = "on_error"
    <3>1. HoldsReport(v, t)
      BY <2>1, <2>2, <1>h, <1>r
    <3> QED BY <2>1, <3>1, <1>a DEF HoldsReport
  <2> QED BY <2>1, <2>2, <1>q
<1>4. UntouchedInventory'
  BY <1>i, <1>q, <1>a DEF UntouchedInventory
<1>5. IngestProgress'
  <2> SUFFICES ASSUME NEW v \in IngestWorkers, ingest'[v].pc # "idle"
               PROVE  /\ ingest'[v].pc \in {"append_event"} \cup PcsOf(ingest'[v].msg.type)
                      /\ ingest'[v].msg.type = "collection.completed" => Ingesting(v)'
    BY DEF IngestProgress
  <2>1. CASE v = w
    <3>1. ASSUME e.type = "collection.completed"
          PROVE  Ingesting(w)'
      <4>1. db[e.scan].inventory = {}
        BY <3>1, <1>b, <1>r, <1>i DEF Report, UntouchedInventory
      <4>2. IngestingAt("append_event", e, ingest'[w].todo, db'[e.scan])
        BY <4>1, <1>a DEF IngestingAt
      <4> QED BY <4>2, <1>a, <1>b DEF Ingesting
    <3> QED BY <2>1, <3>1, <1>a, <1>b
  <2>2. CASE v # w
    BY <2>2, <1>a, <1>i DEF IngestProgress, Ingesting
  <2> QED BY <2>1, <2>2
<1>6. IdleHoldsNothing'
  BY <1>i DEF IdleHoldsNothing
<1>7. OneEvaluator'
  BY <1>i, <1>a DEF OneEvaluator
<1>8. EvaluationSeesWholeInventory'
  BY <1>i, <1>a DEF EvaluationSeesWholeInventory, Announced
<1> QED BY <1>1, <1>2, <1>3, <1>4, <1>5, <1>6, <1>7, <1>8 DEF HandOffInvariant

(* Steps of the processes that neither report nor ingest.                     *)
LEMMA FrameKeepsHandOff ==
  ASSUME HandOffInvariant, TypeOK', UNCHANGED <<collector, ingest>>,
         JobQueuedOnce', OneReport', IdleHoldsNothing', OneEvaluator',
         \A t \in Scans : SameIntake(t),
         \A t \in Scans : ReportQueued(t)' => ReportQueued(t),
         \A t \in Scans : Announced(t)' => Announced(t)
  PROVE  HandOffInvariant'
<1>t. \A v \in IngestWorkers : ingest[v].pc # "idle" => ingest[v].msg.scan \in Scans
  BY DEF HandOffInvariant, TypeOK, IngestTypeOK, Events
<1>i. /\ HandedOff
      /\ UntouchedInventory
      /\ IngestProgress
      /\ EvaluationSeesWholeInventory
  BY DEF HandOffInvariant
<1>1. HandedOff'
  BY <1>i DEF HandedOff, HoldsReport
<1>2. UntouchedInventory'
  BY <1>i DEF UntouchedInventory, SameIntake
<1>3. IngestProgress'
  <2> SUFFICES ASSUME NEW v \in IngestWorkers, ingest[v].pc # "idle"
               PROVE  /\ ingest[v].pc \in {"append_event"} \cup PcsOf(ingest[v].msg.type)
                      /\ ingest[v].msg.type = "collection.completed" => Ingesting(v)'
    BY DEF IngestProgress
  <2>1. /\ ingest[v].pc \in {"append_event"} \cup PcsOf(ingest[v].msg.type)
        /\ ingest[v].msg.type = "collection.completed" =>
             IngestingAt(ingest[v].pc, ingest[v].msg, ingest[v].todo, db[ingest[v].msg.scan])
    BY <1>i DEF IngestProgress, Ingesting
  <2>2. SameIntake(ingest[v].msg.scan)
    BY <1>t
  <2>3. ingest[v].msg.type = "collection.completed" =>
          IngestingAt(ingest[v].pc, ingest[v].msg, ingest[v].todo, db'[ingest[v].msg.scan])
    BY <2>1, <2>2, IngestingStable DEF SameIntake
  <2> QED BY <2>1, <2>3 DEF Ingesting
<1>4. EvaluationSeesWholeInventory'
  BY <1>i DEF EvaluationSeesWholeInventory, SameIntake
<1> QED BY <1>1, <1>2, <1>3, <1>4 DEF HandOffInvariant

(*****************************************************************************)
(* Policy workers                                                            *)
(*****************************************************************************)

PolicyEffect(w) ==
  /\ UNCHANGED <<collectJobs, platformEvents, policyQueue>>
  /\ \A v \in PolicyWorkers \ {w} : policy'[v] = policy[v]
  /\ \/ policy'[w].pc = "idle" /\ policy'[w].scan = None
     \/ policy'[w].pc # "idle" /\ policy'[w].scan = policy[w].scan
  /\ \A t \in Scans : SameIntake(t)

LEMMA PolicyGotoEffect ==
  ASSUME PolicyTypeOK, NEW w \in PolicyWorkers, NEW pc \in PolicyPcs, PolicyGoto(w, pc)
  PROVE  /\ \A v \in PolicyWorkers \ {w} : policy'[v] = policy[v]
         /\ \/ policy'[w].pc = "idle" /\ policy'[w].scan = None
            \/ policy'[w].pc # "idle" /\ policy'[w].scan = policy[w].scan
  BY DEF PolicyTypeOK, PolicyGoto, PolicyIdle

(* A statement that leaves the inventory of its scan alone.                   *)
LEMMA WriteKeepsIntake ==
  ASSUME db \in [Scans -> Rows], NEW s \in Scans, NEW row \in Rows,
         Write(s, row) \/ WriteOrNot(s, row),
         row.inventory = db[s].inventory,
         row.manifest = db[s].manifest,
         row.relationships = db[s].relationships,
         db[s].timeline \subseteq row.timeline
  PROVE  \A t \in Scans : SameIntake(t)
<1> SUFFICES ASSUME NEW t \in Scans
             PROVE  SameIntake(t)
  OBVIOUS
<1>1. db'[t] = db[t] \/ (t = s /\ db'[t] = row)
  BY DEF Write, WriteOrNot
<1> QED BY <1>1 DEF SameIntake

LEMMA PolicyCallEffect ==
  ASSUME TypeOK, NEW w \in PolicyWorkers, NEW at \in PolicyPcs \ {"idle"}, NEW row \in Rows,
         NEW next \in PolicyPcs, NEW handler \in PolicyPcs,
         PolicyCall(w, at, row, next, handler),
         row.inventory = db[policy[w].scan].inventory,
         row.manifest = db[policy[w].scan].manifest,
         row.relationships = db[policy[w].scan].relationships,
         db[policy[w].scan].timeline \subseteq row.timeline
  PROVE  policy[w].pc # "idle" /\ PolicyEffect(w)
<1>1. policy[w].pc # "idle" /\ policy[w].scan \in Scans
  BY DEF TypeOK, PolicyTypeOK, PolicyCall
<1>2. \A t \in Scans : SameIntake(t)
  BY <1>1, WriteKeepsIntake DEF TypeOK, StoreTypeOK, PolicyCall
<1> QED BY <1>1, <1>2, PolicyGotoEffect DEF TypeOK, PolicyCall, PolicyEffect

LEMMA PolicyStepEffect ==
  ASSUME TypeOK, NEW w \in PolicyWorkers, PolicyStep(w) \/ PolicyCrash(w), ~PolicyPop(w)
  PROVE  policy[w].pc # "idle" /\ PolicyEffect(w)
<1> DEFINE s   == policy[w].scan
           row == db[s]
<1>t. /\ PolicyTypeOK
      /\ db \in [Scans -> Rows]
  BY DEF TypeOK, StoreTypeOK
<1>m. ASSUME policy[w].pc # "idle"
      PROVE  s \in Scans /\ row \in Rows
  BY <1>m, <1>t DEF PolicyTypeOK
<1>s. UNCHANGED db => \A t \in Scans : SameIntake(t)
  BY DEF SameIntake
<1>q. ASSUME NEW handler \in PolicyPcs, PolicyQueryRaises(w, handler), policy[w].pc # "idle"
      PROVE  PolicyEffect(w)
  BY <1>q, <1>s, <1>t, PolicyGotoEffect DEF PolicyQueryRaises, PolicyEffect
<1>1. CASE PolicyAppendEvaluate(w)
  <2> DEFINE new == append_event(s, "policy.evaluate")
  <2>1. policy[w].pc = "append_evaluate" /\ PolicyCall(w, "append_evaluate", new, "check_status", "idle")
    BY <1>1 DEF PolicyAppendEvaluate, PolicyCall
  <2>2. new \in Rows
    BY <2>1, <1>m DEF Rows, append_event, TimelineEvents
  <2>3. /\ new.inventory = row.inventory
        /\ new.manifest = row.manifest
        /\ new.relationships = row.relationships
        /\ row.timeline \subseteq new.timeline
    BY <2>1, <1>m DEF Rows, append_event
  <2> HIDE DEF new
  <2> QED BY <2>1, <2>2, <2>3, PolicyCallEffect DEF PolicyPcs
<1>2. CASE PolicySetEvaluating(w)
  <2> DEFINE new == update_status(s, "evaluating")
  <2>1. policy[w].pc = "set_evaluating" /\ PolicyCall(w, "set_evaluating", new, "start_run", "idle")
    BY <1>2 DEF PolicySetEvaluating, PolicyCall
  <2>2. new \in Rows
    BY <2>1, <1>m DEF Rows, update_status, ScanStatus
  <2>3. /\ new.inventory = row.inventory
        /\ new.manifest = row.manifest
        /\ new.relationships = row.relationships
        /\ row.timeline \subseteq new.timeline
    BY <2>1, <1>m DEF Rows, update_status
  <2> HIDE DEF new
  <2> QED BY <2>1, <2>2, <2>3, PolicyCallEffect DEF PolicyPcs
<1>3. CASE PolicyStartRun(w)
  <2> DEFINE new == [db[s] EXCEPT !.evaluation = "running"]
  <2>1. policy[w].pc = "start_run" /\ PolicyCall(w, "start_run", new, "list_assets", "idle")
    BY <1>3 DEF PolicyStartRun, PolicyCall
  <2>2. new \in Rows
    BY <2>1, <1>m DEF Rows
  <2>3. /\ new.inventory = row.inventory
        /\ new.manifest = row.manifest
        /\ new.relationships = row.relationships
        /\ row.timeline \subseteq new.timeline
    BY <2>1, <1>m DEF Rows
  <2> HIDE DEF new
  <2> QED BY <2>1, <2>2, <2>3, PolicyCallEffect DEF PolicyPcs
<1>4. CASE PolicySetFinal(w)
  <2> DEFINE new == update_status(s, policy[w].final)
  <2>1. policy[w].pc = "set_final" /\ PolicyCall(w, "set_final", new, "append_policy_completed", "fail_run")
    BY <1>4 DEF PolicySetFinal, PolicyCall
  <2>2. new \in Rows
    BY <2>1, <1>m, <1>t DEF Rows, update_status, ScanStatus, PolicyTypeOK
  <2>3. /\ new.inventory = row.inventory
        /\ new.manifest = row.manifest
        /\ new.relationships = row.relationships
        /\ row.timeline \subseteq new.timeline
    BY <2>1, <1>m DEF Rows, update_status
  <2> HIDE DEF new
  <2> QED BY <2>1, <2>2, <2>3, PolicyCallEffect DEF PolicyPcs
<1>5. CASE PolicyAppendPolicyCompleted(w)
  <2> DEFINE new == append_event(s, "policy.completed")
  <2>1. policy[w].pc = "append_policy_completed" /\ PolicyCall(w, "append_policy_completed", new, "append_compliance_updated", "fail_run")
    BY <1>5 DEF PolicyAppendPolicyCompleted, PolicyCall
  <2>2. new \in Rows
    BY <2>1, <1>m DEF Rows, append_event, TimelineEvents
  <2>3. /\ new.inventory = row.inventory
        /\ new.manifest = row.manifest
        /\ new.relationships = row.relationships
        /\ row.timeline \subseteq new.timeline
    BY <2>1, <1>m DEF Rows, append_event
  <2> HIDE DEF new
  <2> QED BY <2>1, <2>2, <2>3, PolicyCallEffect DEF PolicyPcs
<1>6. CASE PolicyAppendComplianceUpdated(w)
  <2> DEFINE new == append_event(s, "compliance.updated")
  <2>1. policy[w].pc = "append_compliance_updated" /\ PolicyCall(w, "append_compliance_updated", new, "append_scan_completed", "fail_run")
    BY <1>6 DEF PolicyAppendComplianceUpdated, PolicyCall
  <2>2. new \in Rows
    BY <2>1, <1>m DEF Rows, append_event, TimelineEvents
  <2>3. /\ new.inventory = row.inventory
        /\ new.manifest = row.manifest
        /\ new.relationships = row.relationships
        /\ row.timeline \subseteq new.timeline
    BY <2>1, <1>m DEF Rows, append_event
  <2> HIDE DEF new
  <2> QED BY <2>1, <2>2, <2>3, PolicyCallEffect DEF PolicyPcs
<1>7. CASE PolicyAppendScanCompleted(w)
  <2> DEFINE new == append_event(s, ScanCompleted(policy[w].final))
  <2>1. policy[w].pc = "append_scan_completed" /\ PolicyCall(w, "append_scan_completed", new, "idle", "fail_run")
    BY <1>7 DEF PolicyAppendScanCompleted, PolicyCall
  <2>2. new \in Rows
    BY <2>1, <1>m, <1>t DEF Rows, append_event, TimelineEvents, ScanCompleted, PolicyTypeOK
  <2>3. /\ new.inventory = row.inventory
        /\ new.manifest = row.manifest
        /\ new.relationships = row.relationships
        /\ row.timeline \subseteq new.timeline
    BY <2>1, <1>m DEF Rows, append_event
  <2> HIDE DEF new
  <2> QED BY <2>1, <2>2, <2>3, PolicyCallEffect DEF PolicyPcs
<1>8. CASE PolicyFailRun(w)
  <2> DEFINE new == [db[s] EXCEPT !.evaluation = "failed"]
  <2>1. policy[w].pc = "fail_run" /\ PolicyCall(w, "fail_run", new, "set_failed", "idle")
    BY <1>8 DEF PolicyFailRun, PolicyCall
  <2>2. new \in Rows
    BY <2>1, <1>m DEF Rows
  <2>3. /\ new.inventory = row.inventory
        /\ new.manifest = row.manifest
        /\ new.relationships = row.relationships
        /\ row.timeline \subseteq new.timeline
    BY <2>1, <1>m DEF Rows
  <2> HIDE DEF new
  <2> QED BY <2>1, <2>2, <2>3, PolicyCallEffect DEF PolicyPcs
<1>9. CASE PolicySetFailed(w)
  <2> DEFINE new == update_status(s, "failed")
  <2>1. policy[w].pc = "set_failed" /\ PolicyCall(w, "set_failed", new, "append_scan_failed", "idle")
    BY <1>9 DEF PolicySetFailed, PolicyCall
  <2>2. new \in Rows
    BY <2>1, <1>m DEF Rows, update_status, ScanStatus
  <2>3. /\ new.inventory = row.inventory
        /\ new.manifest = row.manifest
        /\ new.relationships = row.relationships
        /\ row.timeline \subseteq new.timeline
    BY <2>1, <1>m DEF Rows, update_status
  <2> HIDE DEF new
  <2> QED BY <2>1, <2>2, <2>3, PolicyCallEffect DEF PolicyPcs
<1>10. CASE PolicyAppendScanFailed(w)
  <2> DEFINE new == append_event(s, "scan.completed:failed")
  <2>1. policy[w].pc = "append_scan_failed" /\ PolicyCall(w, "append_scan_failed", new, "idle", "idle")
    BY <1>10 DEF PolicyAppendScanFailed, PolicyCall
  <2>2. new \in Rows
    BY <2>1, <1>m DEF Rows, append_event, TimelineEvents
  <2>3. /\ new.inventory = row.inventory
        /\ new.manifest = row.manifest
        /\ new.relationships = row.relationships
        /\ row.timeline \subseteq new.timeline
    BY <2>1, <1>m DEF Rows, append_event
  <2> HIDE DEF new
  <2> QED BY <2>1, <2>2, <2>3, PolicyCallEffect DEF PolicyPcs
<1>11. CASE PolicyCheckStatus(w)
  <2>1. policy[w].pc # "idle"
    BY <1>11 DEF PolicyCheckStatus
  <2>2. CASE PolicyQueryRaises(w, "idle")
    BY <2>1, <2>2, <1>q DEF PolicyPcs
  <2>3. CASE UNCHANGED store /\ \E pc \in {"set_evaluating", "idle"} : PolicyGoto(w, pc)
    <3>1. PICK pc \in PolicyPcs : PolicyGoto(w, pc)
      BY <2>3 DEF PolicyPcs
    <3> QED BY <2>1, <2>3, <3>1, <1>s, <1>t, PolicyGotoEffect DEF PolicyEffect, store
  <2> QED BY <1>11, <2>2, <2>3 DEF PolicyCheckStatus
<1>12. CASE PolicyListAssets(w)
  <2>1. policy[w].pc # "idle"
    BY <1>12 DEF PolicyListAssets
  <2>2. CASE PolicyQueryRaises(w, "fail_run")
    BY <2>1, <2>2, <1>q DEF PolicyPcs
  <2>3. CASE /\ \E assets, pc : /\ pc \in {"complete_run", "upsert_finding"}
                                /\ policy' = [policy EXCEPT ![w].todo = assets, ![w].pc = pc]
             /\ UNCHANGED store
    BY <2>1, <2>3, <1>s, <1>t DEF PolicyEffect, PolicyTypeOK, store
  <2> QED BY <1>12, <2>2, <2>3 DEF PolicyListAssets
<1>13. CASE PolicyUpsertFinding(w)
  <2>1. policy[w].pc = "upsert_finding" /\ UNCHANGED <<collectJobs, platformEvents, policyQueue>>
    BY <1>13 DEF PolicyUpsertFinding
  <2>2. PICK r \in policy[w].todo :
          LET new == [db[s] EXCEPT !.findings = @ \cup {r}]
          IN \/ /\ Write(s, new)
                /\ policy' = [policy EXCEPT ![w].todo = @ \ {r},
                     ![w].pc = IF policy[w].todo = {r} THEN "complete_run" ELSE @]
             \/ /\ WriteOrNot(s, new)
                /\ PolicyGoto(w, "fail_run")
    BY <1>13 DEF PolicyUpsertFinding
  <2>3. \A t \in Scans : SameIntake(t)
    <3> DEFINE new == [db[s] EXCEPT !.findings = @ \cup {r}]
    <3>1. r \in Resources
      BY <2>1, <1>t DEF PolicyTypeOK
    <3>2. /\ new \in Rows
          /\ new.inventory = row.inventory
          /\ new.manifest = row.manifest
          /\ new.relationships = row.relationships
          /\ row.timeline \subseteq new.timeline
      BY <2>1, <3>1, <1>m DEF Rows
    <3> HIDE DEF new
    <3> QED BY <2>1, <2>2, <3>2, <1>m, <1>t, WriteKeepsIntake DEF new
  <2>4. CASE PolicyGoto(w, "fail_run")
    BY <2>1, <2>3, <2>4, <1>t, PolicyGotoEffect DEF PolicyEffect, PolicyPcs
  <2>5. CASE policy' = [policy EXCEPT ![w].todo = @ \ {r},
                          ![w].pc = IF policy[w].todo = {r} THEN "complete_run" ELSE @]
    BY <2>1, <2>3, <2>5, <1>t DEF PolicyEffect, PolicyTypeOK
  <2> QED BY <2>2, <2>4, <2>5
<1>14. CASE PolicyCompleteRun(w)
  <2> DEFINE new == [db[s] EXCEPT !.evaluation = "completed"]
  <2>1. policy[w].pc = "complete_run" /\ UNCHANGED <<collectJobs, platformEvents, policyQueue>>
    BY <1>14 DEF PolicyCompleteRun
  <2>2. \/ /\ Write(s, new)
           /\ \E pc \in {"get_run", "fail_run", "map_controls"} :
                policy' = [policy EXCEPT ![w].frameworks = Frameworks, ![w].pc = pc]
        \/ WriteOrNot(s, new) /\ PolicyGoto(w, "fail_run")
    BY <1>14 DEF PolicyCompleteRun, MappedPc
  <2>3. \A t \in Scans : SameIntake(t)
    <3>1. /\ new \in Rows
          /\ new.inventory = row.inventory
          /\ new.manifest = row.manifest
          /\ new.relationships = row.relationships
          /\ row.timeline \subseteq new.timeline
      BY <2>1, <1>m DEF Rows
    <3> HIDE DEF new
    <3> QED BY <2>1, <2>2, <3>1, <1>m, <1>t, WriteKeepsIntake
  <2>4. CASE PolicyGoto(w, "fail_run")
    BY <2>1, <2>3, <2>4, <1>t, PolicyGotoEffect DEF PolicyEffect, PolicyPcs
  <2>5. CASE \E pc \in {"get_run", "fail_run", "map_controls"} :
               policy' = [policy EXCEPT ![w].frameworks = Frameworks, ![w].pc = pc]
    BY <2>1, <2>3, <2>5, <1>t DEF PolicyEffect, PolicyTypeOK
  <2> QED BY <2>2, <2>4, <2>5
<1>15. CASE PolicyMapControls(w)
  <2>1. PICK f \in policy[w].frameworks :
          PolicyCall(w, "map_controls", [db[s] EXCEPT !.controls = @ \cup {f}],
                     "map_score", "fail_run")
    BY <1>15 DEF PolicyMapControls
  <2> DEFINE new == [db[s] EXCEPT !.controls = @ \cup {f}]
  <2>2. policy[w].pc = "map_controls" /\ f \in Frameworks
    BY <2>1, <1>t DEF PolicyCall, PolicyTypeOK
  <2>3. /\ new \in Rows
        /\ new.inventory = row.inventory
        /\ new.manifest = row.manifest
        /\ new.relationships = row.relationships
        /\ row.timeline \subseteq new.timeline
    BY <2>2, <1>m DEF Rows
  <2> HIDE DEF new
  <2>4. PolicyCall(w, "map_controls", new, "map_score", "fail_run")
    BY <2>1 DEF new
  <2> QED BY <2>3, <2>4, PolicyCallEffect DEF PolicyPcs
<1>16. CASE PolicyMapScore(w)
  <2>1. policy[w].pc = "map_score" /\ UNCHANGED <<collectJobs, platformEvents, policyQueue>>
    BY <1>16 DEF PolicyMapScore
  <2>2. PICK f \in policy[w].frameworks :
          LET new == [db[s] EXCEPT !.scores = @ \cup {f}]
          IN \/ /\ Write(s, new)
                /\ \E pc \in {"get_run", "fail_run", "map_controls"} :
                     policy' = [policy EXCEPT ![w].frameworks = @ \ {f}, ![w].pc = pc]
             \/ WriteOrNot(s, new) /\ PolicyGoto(w, "fail_run")
    BY <1>16 DEF PolicyMapScore, MappedPc
  <2>3. \A t \in Scans : SameIntake(t)
    <3> DEFINE new == [db[s] EXCEPT !.scores = @ \cup {f}]
    <3>1. f \in Frameworks
      BY <1>t DEF PolicyTypeOK
    <3>2. /\ new \in Rows
          /\ new.inventory = row.inventory
          /\ new.manifest = row.manifest
          /\ new.relationships = row.relationships
          /\ row.timeline \subseteq new.timeline
      BY <2>1, <3>1, <1>m DEF Rows
    <3> HIDE DEF new
    <3> QED BY <2>1, <2>2, <3>2, <1>m, <1>t, WriteKeepsIntake DEF new
  <2>4. CASE PolicyGoto(w, "fail_run")
    BY <2>1, <2>3, <2>4, <1>t, PolicyGotoEffect DEF PolicyEffect, PolicyPcs
  <2>5. CASE \E pc \in {"get_run", "fail_run", "map_controls"} :
               policy' = [policy EXCEPT ![w].frameworks = @ \ {f}, ![w].pc = pc]
    BY <2>1, <2>3, <2>5, <1>t DEF PolicyEffect, PolicyTypeOK
  <2> QED BY <2>2, <2>4, <2>5
<1>17. CASE PolicyGetRun(w)
  <2>1. policy[w].pc # "idle"
    BY <1>17 DEF PolicyGetRun
  <2>2. CASE PolicyQueryRaises(w, "fail_run")
    BY <2>1, <2>2, <1>q DEF PolicyPcs
  <2>3. CASE /\ \E final : policy' = [policy EXCEPT ![w].pc = "set_final", ![w].final = final]
             /\ UNCHANGED store
    BY <2>1, <2>3, <1>s, <1>t DEF PolicyEffect, PolicyTypeOK, store
  <2> QED BY <1>17, <2>2, <2>3 DEF PolicyGetRun
<1>18. CASE PolicyCrash(w)
  BY <1>18, <1>s, <1>t, PolicyGotoEffect DEF PolicyCrash, PolicyEffect, PolicyPcs
<1> QED BY <1>1, <1>2, <1>3, <1>4, <1>5, <1>6, <1>7, <1>8, <1>9,
           <1>10, <1>11, <1>12, <1>13, <1>14, <1>15, <1>16, <1>17, <1>18 DEF PolicyStep

LEMMA PolicyKeepsHandOff ==
  ASSUME HandOffInvariant, TypeOK', NEW w \in PolicyWorkers,
         PolicyStep(w) \/ PolicyCrash(w), UNCHANGED <<api, collector, ingest>>
  PROVE  HandOffInvariant'
<1>t. /\ TypeOK
      /\ policyQueue \in Seq(Scans)
      /\ policy \in [PolicyWorkers ->
           [pc : PolicyPcs, scan : Scans \cup {None}, todo : SUBSET Resources,
            frameworks : SUBSET Frameworks, final : {"completed", "completed_with_errors"}]]
      /\ None \notin Scans
  BY StoreAssumption DEF HandOffInvariant, TypeOK, StoreTypeOK, PolicyTypeOK, StoreAssumption
<1>i. JobQueuedOnce /\ OneReport /\ IdleHoldsNothing /\ OneEvaluator
  BY DEF HandOffInvariant
<1>1. CASE PolicyPop(w)
  <2>1. /\ policy[w].pc = "idle"
        /\ policyQueue # <<>>
        /\ policy'[w].pc = "append_evaluate"
        /\ policy'[w].scan = Head(policyQueue)
        /\ \A v \in PolicyWorkers \ {w} : policy'[v] = policy[v]
        /\ policyQueue' = Tail(policyQueue)
        /\ UNCHANGED <<db, collectJobs, platformEvents>>
    BY <1>1, <1>t DEF PolicyPop
  <2>2. PICK s \in Scans :
          /\ s = policyQueue[1]
          /\ policy'[w].scan = s
          /\ Len(policyQueue) \in Nat
          /\ 1 \in 1..Len(policyQueue)
          /\ \A i \in 1..Len(policyQueue') :
               i + 1 \in 2..Len(policyQueue) /\ policyQueue'[i] = policyQueue[i + 1]
    BY <2>1, <1>t, TailElements
  <2>3. \A t \in Scans : Announced(t)' => Announced(t)
    <3> SUFFICES ASSUME NEW t \in Scans, Announced(t)'
                 PROVE  Announced(t)
      OBVIOUS
    <3>1. CASE \E i \in 1..Len(policyQueue') : policyQueue'[i] = t
      BY <3>1, <2>2 DEF Announced
    <3>2. CASE \E v \in PolicyWorkers : policy'[v].scan = t
      <4>1. PICK v \in PolicyWorkers : policy'[v].scan = t
        BY <3>2
      <4>2. CASE v = w
        BY <4>1, <4>2, <2>2 DEF Announced
      <4>3. CASE v # w
        BY <4>1, <4>3, <2>1 DEF Announced
      <4> QED BY <4>2, <4>3
    <3> QED BY <3>1, <3>2 DEF Announced
  <2>4. OneEvaluator'
    <3>1. \A v \in PolicyWorkers : policy[v].scan # s
      BY <2>2, <1>i DEF OneEvaluator
    <3>2. \A u, v \in PolicyWorkers :
            policy'[u].scan = policy'[v].scan /\ policy'[u].scan # None => u = v
      BY <3>1, <2>1, <2>2, <1>i DEF OneEvaluator
    <3>3. \A i, j \in 1..Len(policyQueue') : policyQueue'[i] = policyQueue'[j] => i = j
      <4> SUFFICES ASSUME NEW i \in 1..Len(policyQueue'), NEW j \in 1..Len(policyQueue'),
                          policyQueue'[i] = policyQueue'[j]
                   PROVE  i = j
        OBVIOUS
      <4>1. /\ i + 1 \in 1..Len(policyQueue)
            /\ j + 1 \in 1..Len(policyQueue)
            /\ policyQueue[i + 1] = policyQueue[j + 1]
        BY <2>2
      <4>2. i + 1 = j + 1
        BY <4>1, <1>i DEF OneEvaluator
      <4> QED BY <4>1, <4>2
    <3>4. \A i \in 1..Len(policyQueue'), v \in PolicyWorkers : policyQueue'[i] # policy'[v].scan
      <4> SUFFICES ASSUME NEW i \in 1..Len(policyQueue'), NEW v \in PolicyWorkers
                   PROVE  policyQueue'[i] # policy'[v].scan
        OBVIOUS
      <4>1. /\ i + 1 \in 1..Len(policyQueue)
            /\ i + 1 # 1
            /\ policyQueue'[i] = policyQueue[i + 1]
        BY <2>2
      <4>2. policyQueue[i + 1] # s
        BY <4>1, <2>2, <1>i DEF OneEvaluator
      <4>3. policyQueue[i + 1] # policy[v].scan
        BY <4>1, <1>i DEF OneEvaluator
      <4> QED BY <4>1, <4>2, <4>3, <2>1, <2>2
    <3> QED BY <3>2, <3>3, <3>4 DEF OneEvaluator
  <2>5. IdleHoldsNothing'
    BY <2>1, <1>i DEF IdleHoldsNothing
  <2>6. /\ \A t \in Scans : SameIntake(t)
        /\ \A t \in Scans : ReportQueued(t)' => ReportQueued(t)
        /\ JobQueuedOnce'
        /\ OneReport'
    BY <2>1, <1>i DEF SameIntake, ReportQueued, JobQueuedOnce, OneReport, HoldsReport
  <2> QED BY <2>3, <2>4, <2>5, <2>6, FrameKeepsHandOff
<1>2. CASE ~PolicyPop(w)
  <2>1. policy[w].pc # "idle" /\ PolicyEffect(w)
    BY <1>2, <1>t, PolicyStepEffect
  <2>2. /\ UNCHANGED <<collectJobs, platformEvents, policyQueue>>
        /\ \A v \in PolicyWorkers : policy'[v].scan \in {policy[v].scan, None}
        /\ \A v \in PolicyWorkers : policy'[v].pc = "idle" => policy'[v].scan = None
        /\ \A t \in Scans : SameIntake(t)
    BY <2>1, <1>i DEF PolicyEffect, IdleHoldsNothing
  <2>3. \A t \in Scans : Announced(t)' => Announced(t)
    BY <2>2, <1>t DEF Announced
  <2>4. OneEvaluator'
    <3>1. \A i \in 1..Len(policyQueue) : policyQueue[i] \in Scans
      BY <1>t
    <3> QED BY <2>2, <3>1, <1>i, <1>t DEF OneEvaluator
  <2>5. IdleHoldsNothing'
    BY <2>2 DEF IdleHoldsNothing
  <2>6. /\ \A t \in Scans : ReportQueued(t)' => ReportQueued(t)
        /\ JobQueuedOnce'
        /\ OneReport'
    BY <2>2, <1>i DEF ReportQueued, JobQueuedOnce, OneReport, HoldsReport
  <2> QED BY <2>2, <2>3, <2>4, <2>5, <2>6, FrameKeepsHandOff
<1> QED BY <1>1, <1>2

(*****************************************************************************)
(* Requests, collectors and the shared store                                 *)
(*****************************************************************************)

LEMMA ServiceKeepsHandOff ==
  ASSUME HandOffInvariant, TypeOK', NEW s \in Scans,
         ReadIntegration(s) \/ ApiStep(s) \/ ApiCrash(s) \/ CollectorStep(s),
         UNCHANGED <<ingest, policy>>
  PROVE  HandOffInvariant'
<1>t. /\ TypeOK
      /\ db \in [Scans -> Rows]
      /\ platformEvents \in Seq(Events)
      /\ api \in [Scans -> ApiPcs]
      /\ collector \in [Scans -> CollectorPcs]
      /\ StoreAssumption
  BY StoreAssumption DEF HandOffInvariant, TypeOK, StoreTypeOK, ServiceTypeOK
<1>i. /\ JobQueuedOnce
      /\ OneReport
      /\ HandedOff
      /\ UntouchedInventory
      /\ IngestProgress
      /\ IdleHoldsNothing
      /\ OneEvaluator
      /\ EvaluationSeesWholeInventory
  BY DEF HandOffInvariant
<1>n. \A i \in 1..Len(platformEvents) : platformEvents[i].scan \in Scans
  <2>1. \A i \in 1..Len(platformEvents) : platformEvents[i] \in Events
    BY <1>t
  <2> QED BY <2>1 DEF Events
<1>f. ASSUME UNCHANGED <<collector, platformEvents, policyQueue>>,
             JobQueuedOnce', \A t \in Scans : SameIntake(t)
      PROVE  HandOffInvariant'
  <2>1. /\ OneReport'
        /\ IdleHoldsNothing'
        /\ OneEvaluator'
        /\ \A t \in Scans : ReportQueued(t)' => ReportQueued(t)
        /\ \A t \in Scans : Announced(t)' => Announced(t)
    BY <1>f, <1>i DEF OneReport, HoldsReport, ReportQueued, IdleHoldsNothing, OneEvaluator, Announced
  <2> QED BY <1>f, <2>1, FrameKeepsHandOff
<1>s. UNCHANGED db => \A t \in Scans : SameIntake(t)
  BY DEF SameIntake
<1>1. CASE ReadIntegration(s) \/ ApiCrash(s) \/ PushJob(s)
  <2>1. /\ UNCHANGED <<db, collector, platformEvents, policyQueue>>
        /\ api[s] \in {"idle", "create", "queue", "push"}
        /\ \A t \in Scans \ {s} : api'[t] = api[t]
        /\ \/ UNCHANGED collectJobs
           \/ /\ api[s] = "push"
              /\ collectJobs' \in {collectJobs, collectJobs \cup {s}}
              /\ api'[s] \in {"done", "error"}
    BY <1>1, <1>t DEF ReadIntegration, ApiCrash, PushJob, ApiGoto, store
  <2>2. collector[s] = "idle" /\ s \notin collectJobs
    BY <2>1, <1>i DEF JobQueuedOnce
  <2>3. JobQueuedOnce'
    BY <2>1, <2>2, <1>i DEF JobQueuedOnce
  <2> QED BY <2>1, <2>3, <1>f, <1>s
<1>2. ASSUME NEW at \in {"create", "queue"}, NEW st \in ScanStatus, NEW next,
             ApiCall(s, at, update_status(s, st), next)
      PROVE  HandOffInvariant'
  <2> DEFINE row == update_status(s, st)
  <2>1. /\ row \in Rows
        /\ row.inventory = db[s].inventory
        /\ row.manifest = db[s].manifest
        /\ row.relationships = db[s].relationships
        /\ db[s].timeline \subseteq row.timeline
    <3>1. db[s] \in Rows
      BY <1>t
    <3>2. row = [db[s] EXCEPT !.status = st]
      BY DEF update_status
    <3> HIDE DEF row
    <3> QED BY <3>1, <3>2 DEF Rows
  <2>2. /\ UNCHANGED <<collector, collectJobs, platformEvents, policyQueue>>
        /\ api[s] = at
        /\ \A t \in Scans \ {s} : api'[t] = api[t]
        /\ Write(s, row) \/ WriteOrNot(s, row)
    BY <1>2, <1>t DEF ApiCall, ApiGoto
  <2>3. \A t \in Scans : SameIntake(t)
    <3> HIDE DEF row
    <3> QED BY <2>1, <2>2, <1>t, WriteKeepsIntake
  <2>4. JobQueuedOnce'
    BY <2>2, <1>i DEF JobQueuedOnce
  <2> QED BY <2>2, <2>3, <2>4, <1>f
<1>3. CASE CreateScan(s)
  BY <1>2, <1>3 DEF CreateScan, ScanStatus
<1>4. CASE QueueScan(s)
  BY <1>2, <1>4 DEF QueueScan, ScanStatus
<1>5. CASE CollectorStart(s)
  <2> DEFINE n == Len(platformEvents)
             e == CollectionStarted(s)
  <2>1. /\ s \in collectJobs
        /\ collectJobs' = collectJobs \ {s}
        /\ collector' = [collector EXCEPT ![s] = "running"]
        /\ platformEvents' = Append(platformEvents, e)
        /\ UNCHANGED <<db, policyQueue, api>>
    BY <1>5 DEF CollectorStart, Send
  <2>2. e \in Events /\ ~Report(e)
    BY DEF CollectionStarted, Events, CollectionStatuses, Report
  <2>3. /\ n \in Nat
        /\ Len(platformEvents') = n + 1
        /\ platformEvents'[n + 1] = e
        /\ \A i \in 1..n : platformEvents'[i] = platformEvents[i]
    BY <2>1, <2>2, <1>t, AppendElements
  <2>4. \A i \in 1..Len(platformEvents') :
          Report(platformEvents'[i]) => i \in 1..n /\ platformEvents'[i] = platformEvents[i]
    BY <2>2, <2>3
  <2> HIDE DEF e, n
  <2>5. /\ \A t \in Scans : ReportQueued(t)' => ReportQueued(t)
        /\ collector[s] = "idle"
        /\ \A t \in Scans : collector[t] = "done" <=> collector'[t] = "done"
    BY <2>1, <2>4, <1>t, <1>i DEF n, ReportQueued, JobQueuedOnce
  <2>6. JobQueuedOnce'
    BY <2>1, <1>t, <1>i DEF JobQueuedOnce
  <2>7. OneReport'
    <3>1. \A i \in 1..Len(platformEvents') :
            Report(platformEvents'[i]) => collector'[platformEvents'[i].scan] = "done"
      <4> SUFFICES ASSUME NEW i \in 1..Len(platformEvents'), Report(platformEvents'[i])
                   PROVE  collector'[platformEvents'[i].scan] = "done"
        OBVIOUS
      <4>1. i \in 1..n /\ platformEvents'[i] = platformEvents[i]
        BY <2>4
      <4>2. platformEvents[i].scan \in Scans
        BY <4>1, <1>n DEF n
      <4> QED BY <4>1, <4>2, <2>5, <1>i DEF n, OneReport
    <3>2. \A i, j \in 1..Len(platformEvents') :
            /\ Report(platformEvents'[i])
            /\ Report(platformEvents'[j])
            /\ platformEvents'[i].scan = platformEvents'[j].scan
            => i = j
      BY <2>4, <1>i DEF n, OneReport
    <3>3. \A v \in IngestWorkers, t \in Scans :
            HoldsReport(v, t)' => collector'[t] = "done" /\ ~ReportQueued(t)'
      BY <2>5, <1>i DEF OneReport, HoldsReport
    <3>4. \A u, v \in IngestWorkers, t \in Scans : HoldsReport(u, t)' /\ HoldsReport(v, t)' => u = v
      BY <1>i DEF OneReport, HoldsReport
    <3> QED BY <3>1, <3>2, <3>3, <3>4 DEF OneReport
  <2>8. HandedOff' /\ UntouchedInventory'
    BY <2>1, <2>5, <1>i DEF HandedOff, UntouchedInventory, Announced, HoldsReport
  <2>9. IngestProgress' /\ IdleHoldsNothing' /\ OneEvaluator' /\ EvaluationSeesWholeInventory'
    BY <2>1, <1>i DEF IngestProgress, Ingesting, IdleHoldsNothing, OneEvaluator,
                      EvaluationSeesWholeInventory, Announced
  <2> QED BY <2>6, <2>7, <2>8, <2>9 DEF HandOffInvariant
<1>6. CASE CollectorFinish(s)
  <2>1. /\ collector[s] = "running"
        /\ collector' = [collector EXCEPT ![s] = "done"]
        /\ UNCHANGED <<db, collectJobs, policyQueue, api>>
    BY <1>6 DEF CollectorFinish
  <2>2. PICK e \in Events : e.scan = s /\ platformEvents' = Append(platformEvents, e)
    <3>1. \A auth \in BOOLEAN : CollectionFailed(s, auth) \in Events /\ CollectionFailed(s, auth).scan = s
      BY DEF CollectionFailed, Events, CollectionStatuses
    <3>2. \A auth \in BOOLEAN, status \in CollectionStatuses, snap \in Snapshots :
            /\ CollectionCompleted(s, status, snap, auth) \in Events
            /\ CollectionCompleted(s, status, snap, auth).scan = s
      BY <1>t DEF CollectionCompleted, Events, StoreAssumption
    <3> QED BY <1>6, <3>1, <3>2, StoreAssumption DEF CollectorFinish, Send, StoreAssumption
  <2> DEFINE n == Len(platformEvents)
  <2>3. /\ n \in Nat
        /\ Len(platformEvents') = n + 1
        /\ platformEvents'[n + 1] = e
        /\ \A i \in 1..n : platformEvents'[i] = platformEvents[i]
    BY <2>2, <1>t, AppendElements
  <2>4. \A i \in 1..Len(platformEvents') :
          \/ i = n + 1 /\ platformEvents'[i] = e
          \/ i \in 1..n /\ platformEvents'[i] = platformEvents[i]
    BY <2>3
  <2> HIDE DEF n
  <2>5. /\ ~Announced(s)
        /\ ~ReportQueued(s)
        /\ \A v \in IngestWorkers : ~HoldsReport(v, s)
        /\ db[s].inventory = {}
    <3>1. ~Announced(s)
      BY <2>1, <1>i DEF HandedOff
    <3>2. ~ReportQueued(s)
      BY <2>1, <1>i DEF OneReport, ReportQueued
    <3>3. \A v \in IngestWorkers : ~HoldsReport(v, s)
      BY <2>1, <1>i DEF OneReport
    <3> QED BY <3>1, <3>2, <3>3, <2>1, <1>i DEF UntouchedInventory
  <2>6. /\ \A t \in Scans : ReportQueued(t)' => ReportQueued(t) \/ t = s
        /\ \A t \in Scans : collector[t] = "done" => collector'[t] = "done"
        /\ collector'[s] = "done"
    BY <2>1, <2>2, <2>4, <1>t DEF n, ReportQueued
  <2>7. JobQueuedOnce'
    BY <2>1, <1>t, <1>i DEF JobQueuedOnce
  <2>8. OneReport'
    <3>1. \A i \in 1..Len(platformEvents') :
            Report(platformEvents'[i]) => collector'[platformEvents'[i].scan] = "done"
      <4> SUFFICES ASSUME NEW i \in 1..Len(platformEvents'), Report(platformEvents'[i])
                   PROVE  collector'[platformEvents'[i].scan] = "done"
        OBVIOUS
      <4>1. CASE i = n + 1 /\ platformEvents'[i] = e
        BY <4>1, <2>2, <2>6
      <4>2. CASE i \in 1..n /\ platformEvents'[i] = platformEvents[i]
        <5>1. platformEvents[i].scan \in Scans
          BY <4>2, <1>n DEF n
        <5> QED BY <4>2, <5>1, <2>6, <1>i DEF n, OneReport
      <4> QED BY <4>1, <4>2, <2>4
    <3>2. \A i, j \in 1..Len(platformEvents') :
            /\ Report(platformEvents'[i])
            /\ Report(platformEvents'[j])
            /\ platformEvents'[i].scan = platformEvents'[j].scan
            => i = j
      <4>1. \A i \in 1..n : Report(platformEvents[i]) => platformEvents[i].scan # s
        BY <2>5 DEF n, ReportQueued
      <4> QED BY <4>1, <2>2, <2>4, <1>i DEF n, OneReport
    <3>3. \A v \in IngestWorkers, t \in Scans :
            HoldsReport(v, t)' => collector'[t] = "done" /\ ~ReportQueued(t)'
      BY <2>5, <2>6, <1>i DEF OneReport, HoldsReport
    <3>4. \A u, v \in IngestWorkers, t \in Scans : HoldsReport(u, t)' /\ HoldsReport(v, t)' => u = v
      BY <1>i DEF OneReport, HoldsReport
    <3> QED BY <3>1, <3>2, <3>3, <3>4 DEF OneReport
  <2>9. HandedOff'
    <3>1. \A t \in Scans : Announced(t)' => Announced(t) /\ t # s
      BY <2>1, <2>5 DEF Announced
    <3> QED BY <3>1, <2>6, <1>i DEF HandedOff, HoldsReport
  <2>10. UntouchedInventory'
    BY <2>1, <2>5, <2>6, <1>i DEF UntouchedInventory
  <2>11. IngestProgress' /\ IdleHoldsNothing' /\ OneEvaluator' /\ EvaluationSeesWholeInventory'
    BY <2>1, <1>i DEF IngestProgress, Ingesting, IdleHoldsNothing, OneEvaluator,
                      EvaluationSeesWholeInventory, Announced
  <2> QED BY <2>7, <2>8, <2>9, <2>10, <2>11 DEF HandOffInvariant
<1> QED BY <1>1, <1>3, <1>4, <1>5, <1>6 DEF ApiStep, CollectorStep

LEMMA StoreKeepsHandOff ==
  ASSUME HandOffInvariant, TypeOK', ReactivateIntegration \/ RedisRestart,
         UNCHANGED <<api, collector, ingest, policy>>
  PROVE  HandOffInvariant'
<1>t. policyQueue \in Seq(Scans) /\ platformEvents \in Seq(Events)
  BY DEF HandOffInvariant, TypeOK, StoreTypeOK
<1>i. JobQueuedOnce /\ OneReport /\ IdleHoldsNothing /\ OneEvaluator
  BY DEF HandOffInvariant
<1>1. /\ UNCHANGED db
      /\ collectJobs' \subseteq collectJobs
      /\ platformEvents' = platformEvents \/ platformEvents' = <<>>
      /\ policyQueue' = policyQueue \/ policyQueue' = <<>>
  BY DEF ReactivateIntegration, RedisRestart
<1>2. /\ \A i \in 1..Len(platformEvents') :
           i \in 1..Len(platformEvents) /\ platformEvents'[i] = platformEvents[i]
      /\ \A i \in 1..Len(policyQueue') :
           i \in 1..Len(policyQueue) /\ policyQueue'[i] = policyQueue[i]
  BY <1>1
<1>3. /\ \A t \in Scans : ReportQueued(t)' => ReportQueued(t)
      /\ \A t \in Scans : Announced(t)' => Announced(t)
  BY <1>2 DEF ReportQueued, Announced
<1>4. OneReport'
  <2>1. /\ \A i \in 1..Len(platformEvents') :
             Report(platformEvents'[i]) => collector[platformEvents'[i].scan] = "done"
        /\ \A i, j \in 1..Len(platformEvents') :
             /\ Report(platformEvents'[i])
             /\ Report(platformEvents'[j])
             /\ platformEvents'[i].scan = platformEvents'[j].scan
             => i = j
    BY <1>2, <1>i DEF OneReport
  <2>2. /\ \A v \in IngestWorkers, t \in Scans :
             HoldsReport(v, t)' => collector[t] = "done" /\ ~ReportQueued(t)'
        /\ \A u, v \in IngestWorkers, t \in Scans : HoldsReport(u, t)' /\ HoldsReport(v, t)' => u = v
    BY <1>3, <1>i DEF OneReport, HoldsReport
  <2> QED BY <2>1, <2>2 DEF OneReport
<1>5. OneEvaluator'
  BY <1>2, <1>i DEF OneEvaluator
<1>6. JobQueuedOnce' /\ IdleHoldsNothing' /\ \A t \in Scans : SameIntake(t)
  BY <1>1, <1>i DEF JobQueuedOnce, IdleHoldsNothing, SameIntake
<1> QED BY <1>3, <1>4, <1>5, <1>6, FrameKeepsHandOff

(*****************************************************************************)
(* The theorems                                                              *)
(*****************************************************************************)

LEMMA InitHandOff == Init => HandOffInvariant
<1> SUFFICES ASSUME Init
             PROVE  HandOffInvariant
  OBVIOUS
<1>1. TypeOK
  BY InitType
<1>2. /\ platformEvents = <<>> /\ policyQueue = <<>> /\ collectJobs = {}
      /\ \A s \in Scans : db[s].inventory = {} /\ collector[s] = "idle"
      /\ \A w \in IngestWorkers : ingest[w].pc = "idle"
      /\ \A w \in PolicyWorkers : policy[w].pc = "idle" /\ policy[w].scan = None
  BY DEF Init, StoreInit, ServiceInit, IngestInit, PolicyInit, NoRow, IngestIdle, PolicyIdle
<1>3. None \notin Scans
  BY StoreAssumption DEF StoreAssumption
<1>4. \A s \in Scans : ~Announced(s) /\ ~ReportQueued(s)
  BY <1>2, <1>3 DEF Announced, ReportQueued
<1>5. JobQueuedOnce /\ OneReport /\ OneEvaluator /\ IdleHoldsNothing
  BY <1>2 DEF JobQueuedOnce, OneReport, HoldsReport, OneEvaluator, IdleHoldsNothing
<1>6. HandedOff /\ UntouchedInventory /\ IngestProgress /\ EvaluationSeesWholeInventory
  BY <1>2, <1>4 DEF HandedOff, UntouchedInventory, IngestProgress, EvaluationSeesWholeInventory
<1> QED BY <1>1, <1>5, <1>6 DEF HandOffInvariant

LEMMA NextHandOff == HandOffInvariant /\ [Next]_vars => HandOffInvariant'
<1> SUFFICES ASSUME HandOffInvariant, [Next]_vars
             PROVE  HandOffInvariant'
  OBVIOUS
<1>t. TypeOK'
  BY NextType DEF HandOffInvariant
<1>1. CASE ServiceNext /\ UNCHANGED <<ingest, policy>>
  BY <1>1, <1>t, ServiceKeepsHandOff DEF ServiceNext
<1>2. CASE IngestNext /\ UNCHANGED <<api, collector, policy>>
  <2>1. PICK w \in IngestWorkers : IngestStep(w) \/ IngestCrash(w)
    BY <1>2 DEF IngestNext
  <2>2. CASE IngestPop(w)
    BY <1>2, <2>2, <1>t, IngestPopKeepsHandOff
  <2>3. CASE ~IngestPop(w)
    BY <1>2, <2>1, <2>3, <1>t, IngestStepEffect, IngestKeepsHandOff
  <2> QED BY <2>2, <2>3
<1>3. CASE PolicyNext /\ UNCHANGED <<api, collector, ingest>>
  BY <1>3, <1>t, PolicyKeepsHandOff DEF PolicyNext
<1>4. CASE (ReactivateIntegration \/ RedisRestart) /\ UNCHANGED <<api, collector, ingest, policy>>
  BY <1>4, <1>t, StoreKeepsHandOff
<1>5. CASE UNCHANGED vars
  BY <1>5, <1>t DEF vars, store, HandOffInvariant, JobQueuedOnce, OneReport, HandedOff,
                    UntouchedInventory, IngestProgress, Ingesting, IdleHoldsNothing,
                    OneEvaluator, EvaluationSeesWholeInventory, Announced, HoldsReport,
                    ReportQueued
<1> QED BY <1>1, <1>2, <1>3, <1>4, <1>5 DEF Next

(* The hand-off works for any number of scans, workers, raised calls and      *)
(* crashes.                                                                   *)
THEOREM HandOffHolds == Spec => []HandOffInvariant
  BY InitHandOff, NextHandOff, PTL DEF Spec

(* A scan that is up for evaluation has its whole inventory stored, whatever  *)
(* call of the ingest worker raised.                                          *)
THEOREM InventoryBeforeEvaluation == Spec => []EvaluationSeesWholeInventory
<1>1. HandOffInvariant => EvaluationSeesWholeInventory
  BY DEF HandOffInvariant
<1> QED BY <1>1, HandOffHolds, PTL

(*****************************************************************************)
(* The results of an evaluation                                              *)
(*****************************************************************************)

(* Where a policy worker depends on what it has stored.                       *)
WorkingPcs ==
  {"upsert_finding", "complete_run", "map_controls", "map_score", "get_run", "set_final"}

(* Neither results nor a final status are written.                            *)
KeepsResults(s) ==
  /\ db'[s].findings = db[s].findings
  /\ db'[s].scores = db[s].scores
  /\ db'[s].status = db[s].status \/ NotFinished(s)'

(*****************************************************************************)
(* Steps that write no results                                               *)
(*****************************************************************************)

(* Once a worker depends on what it stored, nobody upstream has the scan.     *)
LEMMA NothingAhead ==
  ASSUME HandOffInvariant, NEW w \in PolicyWorkers, policy[w].scan \in Scans,
         policy[w].pc \in WorkingPcs
  PROVE  ~EvaluationAhead(policy[w].scan)
<1>1. Announced(policy[w].scan)
  BY DEF Announced
<1>2. policy[w].pc \notin EarlyPcs /\ policy[w].scan # None
  BY StoreAssumption DEF WorkingPcs, EarlyPcs, StoreAssumption
<1> QED BY <1>1, <1>2 DEF HandOffInvariant, HandedOff, OneEvaluator, EvaluationAhead

LEMMA QuietStepKeepsResults ==
  ASSUME HandOffInvariant, ResultInvariant,
         \A t \in Scans : KeepsResults(t),
         \A t \in Scans : db'[t].inventory = db[t].inventory \/ EvaluationAhead(t),
         \A t \in Scans : EvaluationAhead(t)' => EvaluationAhead(t),
         \A v \in PolicyWorkers : policy'[v] = policy[v] \/ policy'[v].pc \notin WorkingPcs
  PROVE  ResultInvariant'
<1>i. UntouchedResults /\ PolicyProgress /\ ScoresStandOnAllFindings /\ CompletedMeansScored
  BY DEF ResultInvariant
<1>1. UntouchedResults'
  BY <1>i DEF UntouchedResults, KeepsResults, NotFinished
<1>2. \A t \in Scans : ~EvaluationAhead(t) /\ Evaluated(t) => Evaluated(t)'
  BY DEF Evaluated, KeepsResults
<1>3. ScoresStandOnAllFindings'
  BY <1>i, <1>2 DEF ScoresStandOnAllFindings, UntouchedResults, KeepsResults
<1>4. CompletedMeansScored'
  BY <1>i, <1>2 DEF CompletedMeansScored, UntouchedResults, KeepsResults, NotFinished
<1>5. PolicyProgress'
  <2> SUFFICES ASSUME NEW v \in PolicyWorkers, policy'[v].pc \in WorkingPcs
               PROVE  EvaluatingProgress(v)'
    BY DEF PolicyProgress, EvaluatingProgress, WorkingPcs
  <2> DEFINE s == policy[v].scan
  <2>1. policy'[v] = policy[v] /\ policy[v].pc \in WorkingPcs
    OBVIOUS
  <2>2. s \in Scans /\ EvaluatingProgress(v)
    BY <2>1, <1>i DEF PolicyProgress, WorkingPcs, HandOffInvariant, TypeOK, PolicyTypeOK
  <2>3. ~EvaluationAhead(s)
    BY <2>1, <2>2, NothingAhead
  <2>4. /\ db'[s].inventory = db[s].inventory
        /\ db'[s].findings = db[s].findings
        /\ db'[s].scores = db[s].scores
        /\ NotFinished(s) => NotFinished(s)'
        /\ Evaluated(s) => Evaluated(s)'
    BY <2>2, <2>3, <1>2 DEF KeepsResults, NotFinished
  <2> QED BY <2>1, <2>2, <2>4 DEF EvaluatingProgress
<1> QED BY <1>1, <1>3, <1>4, <1>5 DEF ResultInvariant

(* A statement that writes no results.                                        *)
LEMMA WriteKeepsResults ==
  ASSUME db \in [Scans -> Rows], NEW s \in Scans, NEW row \in Rows,
         Write(s, row) \/ WriteOrNot(s, row),
         row.findings = db[s].findings,
         row.scores = db[s].scores,
         row.status = db[s].status \/ row.status \notin {"completed", "completed_with_errors"}
  PROVE  \A t \in Scans : KeepsResults(t)
<1> SUFFICES ASSUME NEW t \in Scans
             PROVE  KeepsResults(t)
  OBVIOUS
<1>1. db'[t] = db[t] \/ (t = s /\ db'[t] = row)
  BY DEF Write, WriteOrNot
<1> QED BY <1>1 DEF KeepsResults, NotFinished

(*****************************************************************************)
(* Policy workers                                                            *)
(*****************************************************************************)

(* A step of a policy worker after which it depends on nothing it stored.     *)
PolicyQuiet(w) ==
  /\ UNCHANGED <<platformEvents, policyQueue>>
  /\ \A v \in PolicyWorkers \ {w} : policy'[v] = policy[v]
  /\ policy'[w].pc \notin WorkingPcs
  /\ policy'[w].pc \in EarlyPcs =>
       policy[w].pc \in EarlyPcs /\ policy'[w].scan = policy[w].scan
  /\ \A t \in Scans : KeepsResults(t)

LEMMA PolicyGotoQuiet ==
  ASSUME PolicyTypeOK, NEW w \in PolicyWorkers, NEW pc \in PolicyPcs \ WorkingPcs,
         PolicyGoto(w, pc), pc \in EarlyPcs => policy[w].pc \in EarlyPcs,
         UNCHANGED <<platformEvents, policyQueue>>,
         \A t \in Scans : KeepsResults(t)
  PROVE  PolicyQuiet(w)
<1>1. /\ \A v \in PolicyWorkers \ {w} : policy'[v] = policy[v]
      /\ pc = "idle" => policy'[w].pc = "idle"
      /\ pc # "idle" => policy'[w].pc = pc /\ policy'[w].scan = policy[w].scan
  BY DEF PolicyTypeOK, PolicyGoto, PolicyIdle
<1> QED BY <1>1 DEF PolicyQuiet, EarlyPcs, WorkingPcs

LEMMA PolicyCallQuiet ==
  ASSUME TypeOK, NEW w \in PolicyWorkers, NEW at \in PolicyPcs \ {"idle"}, NEW row \in Rows,
         NEW next \in PolicyPcs \ WorkingPcs, NEW handler \in PolicyPcs \ WorkingPcs,
         PolicyCall(w, at, row, next, handler),
         next \in EarlyPcs => at \in EarlyPcs,
         handler \notin EarlyPcs,
         row.findings = db[policy[w].scan].findings,
         row.scores = db[policy[w].scan].scores,
         row.status = db[policy[w].scan].status
           \/ row.status \notin {"completed", "completed_with_errors"}
  PROVE  PolicyQuiet(w)
<1>1. policy[w].pc = at /\ policy[w].scan \in Scans
  BY DEF TypeOK, PolicyTypeOK, PolicyCall
<1>2. \A t \in Scans : KeepsResults(t)
  BY <1>1, WriteKeepsResults DEF TypeOK, StoreTypeOK, PolicyCall
<1>3. UNCHANGED <<platformEvents, policyQueue>>
  BY DEF PolicyCall
<1>4. CASE PolicyGoto(w, next)
  BY <1>1, <1>2, <1>3, <1>4, PolicyGotoQuiet DEF TypeOK
<1>5. CASE PolicyGoto(w, handler)
  BY <1>1, <1>2, <1>3, <1>5, PolicyGotoQuiet DEF TypeOK
<1> QED BY <1>4, <1>5 DEF PolicyCall

(* The steps of a policy worker that are not quiet.                           *)
PolicyWorks(w) ==
  \/ PolicyListAssets(w)
  \/ PolicyUpsertFinding(w)
  \/ PolicyCompleteRun(w)
  \/ PolicyMapControls(w)
  \/ PolicyMapScore(w)
  \/ PolicyGetRun(w)
  \/ PolicySetFinal(w)

LEMMA PolicyQuietSteps ==
  ASSUME TypeOK, NEW w \in PolicyWorkers, PolicyStep(w) \/ PolicyCrash(w),
         ~PolicyPop(w), ~PolicyWorks(w)
  PROVE  PolicyQuiet(w)
<1> DEFINE s   == policy[w].scan
           row == db[s]
<1>t. PolicyTypeOK /\ db \in [Scans -> Rows]
  BY DEF TypeOK, StoreTypeOK
<1>m. ASSUME policy[w].pc # "idle"
      PROVE  s \in Scans /\ row \in Rows
  BY <1>m, <1>t DEF PolicyTypeOK
<1>s. UNCHANGED db => \A t \in Scans : KeepsResults(t)
  BY DEF KeepsResults
<1>1. CASE PolicyAppendEvaluate(w)
  <2> DEFINE new == append_event(s, "policy.evaluate")
  <2>1. /\ policy[w].pc = "append_evaluate"
        /\ PolicyCall(w, "append_evaluate", new, "check_status", "idle")
    BY <1>1 DEF PolicyAppendEvaluate, PolicyCall
  <2>2. /\ new \in Rows
        /\ new.findings = row.findings
        /\ new.scores = row.scores
        /\ new.status = row.status \/ new.status \notin {"completed", "completed_with_errors"}
    BY <2>1, <1>m DEF Rows, append_event, TimelineEvents, ScanCompleted
  <2> HIDE DEF new
  <2> QED BY <2>1, <2>2, PolicyCallQuiet DEF PolicyPcs, WorkingPcs, EarlyPcs
<1>2. CASE PolicySetEvaluating(w)
  <2> DEFINE new == update_status(s, "evaluating")
  <2>1. /\ policy[w].pc = "set_evaluating"
        /\ PolicyCall(w, "set_evaluating", new, "start_run", "idle")
    BY <1>2 DEF PolicySetEvaluating, PolicyCall
  <2>2. /\ new \in Rows
        /\ new.findings = row.findings
        /\ new.scores = row.scores
        /\ new.status = row.status \/ new.status \notin {"completed", "completed_with_errors"}
    BY <2>1, <1>m DEF Rows, update_status, ScanStatus
  <2> HIDE DEF new
  <2> QED BY <2>1, <2>2, PolicyCallQuiet DEF PolicyPcs, WorkingPcs, EarlyPcs
<1>3. CASE PolicyStartRun(w)
  <2> DEFINE new == [db[s] EXCEPT !.evaluation = "running"]
  <2>1. /\ policy[w].pc = "start_run"
        /\ PolicyCall(w, "start_run", new, "list_assets", "idle")
    BY <1>3 DEF PolicyStartRun, PolicyCall
  <2>2. /\ new \in Rows
        /\ new.findings = row.findings
        /\ new.scores = row.scores
        /\ new.status = row.status \/ new.status \notin {"completed", "completed_with_errors"}
    BY <2>1, <1>m DEF Rows
  <2> HIDE DEF new
  <2> QED BY <2>1, <2>2, PolicyCallQuiet DEF PolicyPcs, WorkingPcs, EarlyPcs
<1>4. CASE PolicyAppendPolicyCompleted(w)
  <2> DEFINE new == append_event(s, "policy.completed")
  <2>1. /\ policy[w].pc = "append_policy_completed"
        /\ PolicyCall(w, "append_policy_completed", new, "append_compliance_updated", "fail_run")
    BY <1>4 DEF PolicyAppendPolicyCompleted, PolicyCall
  <2>2. /\ new \in Rows
        /\ new.findings = row.findings
        /\ new.scores = row.scores
        /\ new.status = row.status \/ new.status \notin {"completed", "completed_with_errors"}
    BY <2>1, <1>m DEF Rows, append_event, TimelineEvents, ScanCompleted
  <2> HIDE DEF new
  <2> QED BY <2>1, <2>2, PolicyCallQuiet DEF PolicyPcs, WorkingPcs, EarlyPcs
<1>5. CASE PolicyAppendComplianceUpdated(w)
  <2> DEFINE new == append_event(s, "compliance.updated")
  <2>1. /\ policy[w].pc = "append_compliance_updated"
        /\ PolicyCall(w, "append_compliance_updated", new, "append_scan_completed", "fail_run")
    BY <1>5 DEF PolicyAppendComplianceUpdated, PolicyCall
  <2>2. /\ new \in Rows
        /\ new.findings = row.findings
        /\ new.scores = row.scores
        /\ new.status = row.status \/ new.status \notin {"completed", "completed_with_errors"}
    BY <2>1, <1>m DEF Rows, append_event, TimelineEvents, ScanCompleted
  <2> HIDE DEF new
  <2> QED BY <2>1, <2>2, PolicyCallQuiet DEF PolicyPcs, WorkingPcs, EarlyPcs
<1>6. CASE PolicyAppendScanCompleted(w)
  <2> DEFINE new == append_event(s, ScanCompleted(policy[w].final))
  <2>1. /\ policy[w].pc = "append_scan_completed"
        /\ PolicyCall(w, "append_scan_completed", new, "idle", "fail_run")
    BY <1>6 DEF PolicyAppendScanCompleted, PolicyCall
  <2>2. /\ new \in Rows
        /\ new.findings = row.findings
        /\ new.scores = row.scores
        /\ new.status = row.status \/ new.status \notin {"completed", "completed_with_errors"}
    BY <2>1, <1>m DEF Rows, append_event, TimelineEvents, ScanCompleted
  <2> HIDE DEF new
  <2> QED BY <2>1, <2>2, PolicyCallQuiet DEF PolicyPcs, WorkingPcs, EarlyPcs
<1>7. CASE PolicyFailRun(w)
  <2> DEFINE new == [db[s] EXCEPT !.evaluation = "failed"]
  <2>1. /\ policy[w].pc = "fail_run"
        /\ PolicyCall(w, "fail_run", new, "set_failed", "idle")
    BY <1>7 DEF PolicyFailRun, PolicyCall
  <2>2. /\ new \in Rows
        /\ new.findings = row.findings
        /\ new.scores = row.scores
        /\ new.status = row.status \/ new.status \notin {"completed", "completed_with_errors"}
    BY <2>1, <1>m DEF Rows
  <2> HIDE DEF new
  <2> QED BY <2>1, <2>2, PolicyCallQuiet DEF PolicyPcs, WorkingPcs, EarlyPcs
<1>8. CASE PolicySetFailed(w)
  <2> DEFINE new == update_status(s, "failed")
  <2>1. /\ policy[w].pc = "set_failed"
        /\ PolicyCall(w, "set_failed", new, "append_scan_failed", "idle")
    BY <1>8 DEF PolicySetFailed, PolicyCall
  <2>2. /\ new \in Rows
        /\ new.findings = row.findings
        /\ new.scores = row.scores
        /\ new.status = row.status \/ new.status \notin {"completed", "completed_with_errors"}
    BY <2>1, <1>m DEF Rows, update_status, ScanStatus
  <2> HIDE DEF new
  <2> QED BY <2>1, <2>2, PolicyCallQuiet DEF PolicyPcs, WorkingPcs, EarlyPcs
<1>9. CASE PolicyAppendScanFailed(w)
  <2> DEFINE new == append_event(s, "scan.completed:failed")
  <2>1. /\ policy[w].pc = "append_scan_failed"
        /\ PolicyCall(w, "append_scan_failed", new, "idle", "idle")
    BY <1>9 DEF PolicyAppendScanFailed, PolicyCall
  <2>2. /\ new \in Rows
        /\ new.findings = row.findings
        /\ new.scores = row.scores
        /\ new.status = row.status \/ new.status \notin {"completed", "completed_with_errors"}
    BY <2>1, <1>m DEF Rows, append_event, TimelineEvents, ScanCompleted
  <2> HIDE DEF new
  <2> QED BY <2>1, <2>2, PolicyCallQuiet DEF PolicyPcs, WorkingPcs, EarlyPcs
<1>10. CASE PolicyCheckStatus(w)
  <2>1. /\ policy[w].pc = "check_status"
        /\ PolicyGoto(w, "set_evaluating") \/ PolicyGoto(w, "idle")
        /\ UNCHANGED <<db, platformEvents, policyQueue>>
    BY <1>10 DEF PolicyCheckStatus, PolicyQueryRaises, store
  <2> QED BY <2>1, <1>s, <1>t, PolicyGotoQuiet DEF PolicyPcs, WorkingPcs, EarlyPcs
<1>11. CASE PolicyCrash(w)
  <2>1. PolicyGoto(w, "idle") /\ UNCHANGED <<db, platformEvents, policyQueue>>
    BY <1>11 DEF PolicyCrash
  <2> QED BY <2>1, <1>s, <1>t, PolicyGotoQuiet DEF PolicyPcs, WorkingPcs, EarlyPcs
<1> QED BY <1>1, <1>2, <1>3, <1>4, <1>5, <1>6, <1>7, <1>8, <1>9, <1>10, <1>11
        DEF PolicyStep, PolicyWorks

(* A step of a worker that stores results, from what it stores.               *)
LEMMA WorkingStepKeepsResults ==
  ASSUME HandOffInvariant, ResultInvariant, NEW w \in PolicyWorkers, NEW s \in Scans,
         s = policy[w].scan,
         UNCHANGED <<platformEvents, policyQueue, collector, ingest>>,
         \A v \in PolicyWorkers \ {w} : policy'[v] = policy[v],
         \A t \in Scans \ {s} : db'[t] = db[t],
         policy'[w].pc \notin EarlyPcs,
         EvaluatingProgress(w)',
         db'[s].scores # {} => Evaluated(s)',
         \/ NotFinished(s)'
         \/ Primary \in db'[s].scores /\ db'[s].scores = Frameworks /\ Evaluated(s)'
  PROVE  ResultInvariant'
<1>i. UntouchedResults /\ PolicyProgress /\ ScoresStandOnAllFindings /\ CompletedMeansScored
  BY DEF ResultInvariant
<1>h. HandedOff /\ OneEvaluator /\ s # None
  BY StoreAssumption DEF HandOffInvariant, StoreAssumption
<1>1. ~EvaluationAhead(s)'
  <2>1. /\ collector[s] = "done"
        /\ ~ReportQueued(s)
        /\ \A v \in IngestWorkers : HoldsReport(v, s) => ingest[v].pc = "on_error"
    BY <1>h DEF HandedOff, Announced
  <2>2. /\ \A k \in 1..Len(policyQueue) : policyQueue[k] # s
        /\ \A v \in PolicyWorkers \ {w} : policy[v].scan # s
    BY <1>h DEF OneEvaluator
  <2> QED BY <2>1, <2>2 DEF EvaluationAhead, ReportQueued, HoldsReport
<1>2. \A t \in Scans \ {s} : EvaluationAhead(t)' => EvaluationAhead(t)
  BY DEF EvaluationAhead, ReportQueued, HoldsReport
<1>3. UntouchedResults'
  BY <1>i, <1>1, <1>2 DEF UntouchedResults, NotFinished
<1>4. ScoresStandOnAllFindings'
  BY <1>i DEF ScoresStandOnAllFindings, Evaluated
<1>5. CompletedMeansScored'
  BY <1>i DEF CompletedMeansScored, Evaluated, NotFinished
<1>6. PolicyProgress'
  <2> SUFFICES ASSUME NEW v \in PolicyWorkers, v # w, policy[v].pc # "idle"
               PROVE  EvaluatingProgress(v)'
    BY DEF PolicyProgress
  <2>1. policy[v].scan \in Scans \ {s} /\ EvaluatingProgress(v)
    BY <1>h, <1>i DEF PolicyProgress, OneEvaluator, HandOffInvariant, TypeOK, PolicyTypeOK
  <2>2. policy'[v] = policy[v] /\ db'[policy[v].scan] = db[policy[v].scan]
    BY <2>1
  <2> QED BY <2>1, <2>2 DEF EvaluatingProgress, Evaluated, NotFinished
<1> QED BY <1>3, <1>4, <1>5, <1>6 DEF ResultInvariant

LEMMA PolicyWorksKeepsResults ==
  ASSUME HandOffInvariant, ResultInvariant, NEW w \in PolicyWorkers, PolicyWorks(w),
         NEW s \in Scans, s = policy[w].scan, UNCHANGED <<collector, ingest>>
  PROVE  ResultInvariant'
<1> DEFINE row == db[s]
<1>t. /\ db \in [Scans -> Rows]
      /\ policy \in [PolicyWorkers ->
           [pc : PolicyPcs, scan : Scans \cup {None}, todo : SUBSET Resources,
            frameworks : SUBSET Frameworks, final : {"completed", "completed_with_errors"}]]
  BY DEF HandOffInvariant, TypeOK, StoreTypeOK, PolicyTypeOK
<1>m. /\ s \in Scans
      /\ row \in Rows
      /\ policy[w].pc \in WorkingPcs \cup {"list_assets"}
      /\ EvaluatingProgress(w)
      /\ UNCHANGED <<platformEvents, policyQueue>>
  <2>1. /\ policy[w].pc \in WorkingPcs \cup {"list_assets"}
        /\ UNCHANGED <<platformEvents, policyQueue>>
    BY DEF PolicyWorks, PolicyListAssets, PolicyUpsertFinding, PolicyCompleteRun,
           PolicyMapControls, PolicyMapScore, PolicyGetRun, PolicySetFinal, PolicyCall,
           PolicyQueryRaises, WorkingPcs, store
  <2>2. policy[w].pc # "idle"
    BY <2>1 DEF WorkingPcs
  <2> QED BY <2>1, <2>2, <1>t DEF HandOffInvariant, TypeOK, PolicyTypeOK, ResultInvariant,
                                 PolicyProgress
<1>g. \A pc \in PolicyPcs \ {"idle"} : PolicyGoto(w, pc) =>
        /\ \A v \in PolicyWorkers \ {w} : policy'[v] = policy[v]
        /\ policy'[w] = [policy[w] EXCEPT !.pc = pc]
  BY <1>t DEF PolicyGoto
<1>f. PolicyGoto(w, "fail_run") =>
        /\ \A v \in PolicyWorkers \ {w} : policy'[v] = policy[v]
        /\ policy'[w].pc = "fail_run"
  BY <1>t DEF PolicyGoto
<1>w. ASSUME NEW new, Write(s, new) \/ WriteOrNot(s, new)
      PROVE  /\ \A t \in Scans \ {s} : db'[t] = db[t]
             /\ db'[s] \in {row, new}
             /\ Write(s, new) => db'[s] = new
  BY <1>w, <1>t, <1>m DEF Write, WriteOrNot
<1>q. ASSUME policy'[w].pc = "fail_run"
      PROVE  EvaluatingProgress(w)' /\ policy'[w].pc \notin EarlyPcs
  BY <1>q DEF EvaluatingProgress, EarlyPcs
<1> USE DEF EarlyPcs
<1>1. CASE PolicyListAssets(w)
  <2>1. policy[w].pc = "list_assets"
    BY <1>1 DEF PolicyListAssets
  <2>2. row.findings = {} /\ row.scores = {} /\ NotFinished(s)
    BY <2>1, <1>m DEF ResultInvariant, UntouchedResults, EvaluationAhead
  <2>3. db' = db /\ \A v \in PolicyWorkers \ {w} : policy'[v] = policy[v]
    BY <1>1, <1>t, <1>f DEF PolicyListAssets, PolicyQueryRaises, store
  <2>4. NotFinished(s)' /\ db'[s].scores = {}
    BY <2>2, <2>3 DEF NotFinished
  <2>5. CASE PolicyQueryRaises(w, "fail_run")
    <3>1. policy'[w].pc = "fail_run"
      BY <2>5, <1>f DEF PolicyQueryRaises
    <3> QED BY <3>1, <2>3, <2>4, <1>q, <1>m, WorkingStepKeepsResults
  <2>6. CASE ~PolicyQueryRaises(w, "fail_run")
    <3>1. PICK assets \in Listed(row.inventory) :
            policy' = [policy EXCEPT ![w].todo = assets,
              ![w].pc = IF assets = {} THEN "complete_run" ELSE "upsert_finding"]
      BY <1>1, <2>6 DEF PolicyListAssets
    <3>2. /\ policy'[w].scan = s
          /\ policy'[w].todo = assets
          /\ policy'[w].pc = IF assets = {} THEN "complete_run" ELSE "upsert_finding"
      BY <3>1, <1>t
    <3>3. /\ assets \subseteq row.inventory
          /\ assets = row.inventory \/ Cardinality(assets) = AssetLimit
      BY DEF Listed
    <3>4. row.findings \cup assets = assets
      BY <2>2
    <3>5. assets = {} => Evaluated(s)'
      BY <2>2, <2>3, <3>3 DEF Evaluated
    <3>6. EvaluatingProgress(w)'
      BY <2>2, <2>3, <2>4, <3>2, <3>3, <3>4, <3>5 DEF EvaluatingProgress
    <3> QED BY <2>3, <2>4, <3>2, <3>6, <1>m, WorkingStepKeepsResults
  <2> QED BY <2>5, <2>6
<1>2. CASE PolicyUpsertFinding(w)
  <2>1. PICK r \in policy[w].todo :
          LET new == [row EXCEPT !.findings = @ \cup {r}]
          IN \/ /\ Write(s, new)
                /\ policy' = [policy EXCEPT ![w].todo = @ \ {r},
                     ![w].pc = IF policy[w].todo = {r} THEN "complete_run" ELSE @]
             \/ WriteOrNot(s, new) /\ PolicyGoto(w, "fail_run")
    BY <1>2 DEF PolicyUpsertFinding
  <2> DEFINE new == [row EXCEPT !.findings = @ \cup {r}]
  <2>2. /\ new.findings = row.findings \cup {r}
        /\ new.inventory = row.inventory
        /\ new.scores = row.scores
        /\ new.status = row.status
    BY <1>m DEF Rows
  <2>3. /\ policy[w].pc = "upsert_finding"
        /\ row.scores = {}
        /\ NotFinished(s)
        /\ row.findings \cup policy[w].todo \subseteq row.inventory
        /\ \/ row.findings \cup policy[w].todo = row.inventory
           \/ Cardinality(row.findings \cup policy[w].todo) = AssetLimit
    BY <1>2, <1>m DEF PolicyUpsertFinding, EvaluatingProgress
  <2> HIDE DEF new
  <2>4. /\ \A t \in Scans \ {s} : db'[t] = db[t]
        /\ db'[s] \in {row, new}
    BY <2>1, <1>w DEF new
  <2>5. NotFinished(s)' /\ db'[s].scores = {}
    BY <2>2, <2>3, <2>4 DEF NotFinished
  <2>6. CASE WriteOrNot(s, new) /\ PolicyGoto(w, "fail_run")
    <3>1. policy'[w].pc = "fail_run" /\ \A v \in PolicyWorkers \ {w} : policy'[v] = policy[v]
      BY <2>6, <1>f
    <3> QED BY <3>1, <2>4, <2>5, <1>q, <1>m, WorkingStepKeepsResults
  <2>7. CASE /\ Write(s, new)
             /\ policy' = [policy EXCEPT ![w].todo = @ \ {r},
                  ![w].pc = IF policy[w].todo = {r} THEN "complete_run" ELSE @]
    <3>1. /\ policy'[w].scan = s
          /\ policy'[w].todo = policy[w].todo \ {r}
          /\ policy'[w].pc = IF policy[w].todo = {r} THEN "complete_run" ELSE "upsert_finding"
          /\ \A v \in PolicyWorkers \ {w} : policy'[v] = policy[v]
      BY <2>3, <2>7, <1>t
    <3>2. db'[s] = new
      BY <2>7, <1>w
    <3>3. new.findings \cup (policy[w].todo \ {r}) = row.findings \cup policy[w].todo
      BY <2>2
    <3>4. policy[w].todo = {r} => Evaluated(s)'
      BY <2>2, <2>3, <3>2 DEF Evaluated
    <3>5. EvaluatingProgress(w)'
      BY <2>2, <2>3, <2>5, <3>1, <3>2, <3>3, <3>4 DEF EvaluatingProgress
    <3> QED BY <2>4, <2>5, <3>1, <3>5, <1>m, WorkingStepKeepsResults
  <2> QED BY <2>1, <2>6, <2>7 DEF new
<1>3. CASE PolicyCompleteRun(w)
  <2> DEFINE new == [row EXCEPT !.evaluation = "completed"]
  <2>1. /\ policy[w].pc = "complete_run"
        /\ \/ /\ Write(s, new)
              /\ policy' = [policy EXCEPT ![w].frameworks = Frameworks,
                   ![w].pc = IF Frameworks = {} THEN MappedPc ELSE "map_controls"]
           \/ WriteOrNot(s, new) /\ PolicyGoto(w, "fail_run")
    BY <1>3 DEF PolicyCompleteRun
  <2>2. /\ new.findings = row.findings
        /\ new.inventory = row.inventory
        /\ new.scores = row.scores
        /\ new.status = row.status
    BY <1>m DEF Rows
  <2>3. row.scores = {} /\ Evaluated(s) /\ NotFinished(s)
    BY <2>1, <1>m DEF EvaluatingProgress
  <2> HIDE DEF new
  <2>4. /\ \A t \in Scans \ {s} : db'[t] = db[t]
        /\ db'[s] \in {row, new}
    BY <2>1, <1>w
  <2>5. NotFinished(s)' /\ db'[s].scores = {} /\ Evaluated(s)'
    BY <2>2, <2>3, <2>4 DEF NotFinished, Evaluated
  <2>6. \A v \in PolicyWorkers \ {w} : policy'[v] = policy[v]
    BY <2>1, <1>f, <1>t
  <2>7. EvaluatingProgress(w)' /\ policy'[w].pc \notin EarlyPcs
    <3>1. CASE policy'[w].pc = "fail_run"
      BY <3>1, <1>q
    <3>2. CASE policy'[w].pc # "fail_run"
      <4>1. ~PolicyGoto(w, "fail_run")
        BY <3>2, <1>f
      <4>2. policy'[w] = [policy[w] EXCEPT !.frameworks = Frameworks,
                            !.pc = IF Frameworks = {} THEN MappedPc ELSE "map_controls"]
        BY <2>1, <4>1, <1>t
      <4>3. /\ policy'[w].scan = s
            /\ policy'[w].frameworks = Frameworks
            /\ policy'[w].pc = "map_controls"
        BY <3>2, <4>2, <1>t DEF MappedPc
      <4> QED BY <2>5, <4>3 DEF EvaluatingProgress
    <3> QED BY <3>1, <3>2
  <2> QED BY <2>4, <2>5, <2>6, <2>7, <1>m, WorkingStepKeepsResults
<1>4. CASE PolicyMapControls(w)
  <2>1. PICK f \in policy[w].frameworks :
          LET new == [row EXCEPT !.controls = @ \cup {f}]
          IN /\ policy[w].pc = "map_controls"
             /\ Write(s, new) \/ WriteOrNot(s, new)
             /\ PolicyGoto(w, "map_score") \/ PolicyGoto(w, "fail_run")
    BY <1>4 DEF PolicyMapControls, PolicyCall
  <2> DEFINE new == [row EXCEPT !.controls = @ \cup {f}]
  <2>2. /\ new.findings = row.findings
        /\ new.inventory = row.inventory
        /\ new.scores = row.scores
        /\ new.status = row.status
    BY <1>m DEF Rows
  <2>3. /\ Evaluated(s)
        /\ NotFinished(s)
        /\ row.scores \cup policy[w].frameworks = Frameworks
    BY <2>1, <1>m DEF EvaluatingProgress
  <2>4. Write(s, new) \/ WriteOrNot(s, new)
    BY <2>1
  <2> HIDE DEF new
  <2>5. /\ \A t \in Scans \ {s} : db'[t] = db[t]
        /\ db'[s] \in {row, new}
    BY <2>4, <1>w
  <2>6. NotFinished(s)' /\ Evaluated(s)' /\ db'[s].scores = row.scores
    BY <2>2, <2>3, <2>5 DEF NotFinished, Evaluated
  <2>7. CASE PolicyGoto(w, "fail_run")
    BY <2>5, <2>6, <2>7, <1>f, <1>q, <1>m, WorkingStepKeepsResults
  <2>8. CASE PolicyGoto(w, "map_score")
    <3>1. /\ \A v \in PolicyWorkers \ {w} : policy'[v] = policy[v]
          /\ policy'[w].pc = "map_score"
          /\ policy'[w].scan = s
          /\ policy'[w].frameworks = policy[w].frameworks
      BY <2>8, <1>t DEF PolicyGoto
    <3>2. EvaluatingProgress(w)'
      BY <2>3, <2>6, <3>1 DEF EvaluatingProgress
    <3> QED BY <2>5, <2>6, <3>1, <3>2, <1>m, WorkingStepKeepsResults
  <2> QED BY <2>1, <2>7, <2>8
<1>5. CASE PolicyMapScore(w)
  <2>1. PICK f \in policy[w].frameworks :
          LET new == [row EXCEPT !.scores = @ \cup {f}]
          IN /\ policy[w].pc = "map_score"
             /\ \/ /\ Write(s, new)
                   /\ policy' = [policy EXCEPT ![w].frameworks = @ \ {f},
                        ![w].pc = IF policy[w].frameworks = {f} THEN MappedPc ELSE "map_controls"]
                \/ WriteOrNot(s, new) /\ PolicyGoto(w, "fail_run")
    BY <1>5 DEF PolicyMapScore
  <2> DEFINE new == [row EXCEPT !.scores = @ \cup {f}]
  <2>2. /\ new.findings = row.findings
        /\ new.inventory = row.inventory
        /\ new.scores = row.scores \cup {f}
        /\ new.status = row.status
    BY <1>m DEF Rows
  <2>3. /\ Evaluated(s)
        /\ NotFinished(s)
        /\ row.scores \cup policy[w].frameworks = Frameworks
    BY <2>1, <1>m DEF EvaluatingProgress
  <2> HIDE DEF new
  <2>4. /\ \A t \in Scans \ {s} : db'[t] = db[t]
        /\ db'[s] \in {row, new}
    BY <2>1, <1>w DEF new
  <2>5. NotFinished(s)' /\ Evaluated(s)'
    BY <2>2, <2>3, <2>4 DEF NotFinished, Evaluated
  <2>6. CASE WriteOrNot(s, new) /\ PolicyGoto(w, "fail_run")
    BY <2>4, <2>5, <2>6, <1>f, <1>q, <1>m, WorkingStepKeepsResults
  <2>7. CASE /\ Write(s, new)
             /\ policy' = [policy EXCEPT ![w].frameworks = @ \ {f},
                  ![w].pc = IF policy[w].frameworks = {f} THEN MappedPc ELSE "map_controls"]
    <3>1. /\ \A v \in PolicyWorkers \ {w} : policy'[v] = policy[v]
          /\ policy'[w].scan = s
          /\ policy'[w].frameworks = policy[w].frameworks \ {f}
          /\ policy'[w].pc = IF policy[w].frameworks = {f} THEN MappedPc ELSE "map_controls"
      BY <2>7, <1>t
    <3>2. db'[s] = new
      BY <2>7, <1>w
    <3>3. new.scores \cup (policy[w].frameworks \ {f}) = Frameworks
      BY <2>2, <2>3
    <3>4. ASSUME policy[w].frameworks = {f}
          PROVE  EvaluatingProgress(w)'
      <4>1. new.scores = Frameworks
        BY <2>2, <2>3, <3>4
      <4>2. policy'[w].pc = MappedPc
        BY <3>1, <3>4
      <4>3. CASE Primary \in Frameworks
        <5>1. policy'[w].pc = "get_run"
          BY <4>2, <4>3 DEF MappedPc
        <5> QED BY <2>5, <3>1, <3>2, <4>1, <4>3, <5>1 DEF EvaluatingProgress
      <4>4. CASE Primary \notin Frameworks
        <5>1. policy'[w].pc = "fail_run"
          BY <4>2, <4>4 DEF MappedPc
        <5> QED BY <5>1, <1>q
      <4> QED BY <4>3, <4>4
    <3>5. ASSUME policy[w].frameworks # {f}
          PROVE  EvaluatingProgress(w)'
      <4>1. policy'[w].pc = "map_controls"
        BY <3>1, <3>5
      <4> QED BY <2>5, <3>1, <3>2, <3>3, <4>1 DEF EvaluatingProgress
    <3>6. policy'[w].pc \notin EarlyPcs
      BY <3>1 DEF MappedPc
    <3> QED BY <2>4, <2>5, <3>1, <3>4, <3>5, <3>6, <1>m, WorkingStepKeepsResults
  <2> QED BY <2>1, <2>6, <2>7 DEF new
<1>6. CASE PolicyGetRun(w)
  <2>1. policy[w].pc = "get_run"
    BY <1>6 DEF PolicyGetRun
  <2>2. row.scores = Frameworks /\ Primary \in Frameworks /\ Evaluated(s) /\ NotFinished(s)
    BY <2>1, <1>m DEF EvaluatingProgress
  <2>3. db' = db
    BY <1>6 DEF PolicyGetRun, PolicyQueryRaises, store
  <2>4. NotFinished(s)' /\ Evaluated(s)'
    BY <2>2, <2>3 DEF NotFinished, Evaluated
  <2>5. CASE PolicyQueryRaises(w, "fail_run")
    <3>1. PolicyGoto(w, "fail_run")
      BY <2>5 DEF PolicyQueryRaises
    <3> QED BY <2>3, <2>4, <3>1, <1>f, <1>q, <1>m, WorkingStepKeepsResults
  <2>6. CASE ~PolicyQueryRaises(w, "fail_run")
    <3>1. PICK final : policy' = [policy EXCEPT ![w].pc = "set_final", ![w].final = final]
      BY <1>6, <2>6 DEF PolicyGetRun
    <3>2. /\ \A v \in PolicyWorkers \ {w} : policy'[v] = policy[v]
          /\ policy'[w].scan = s
          /\ policy'[w].pc = "set_final"
      BY <3>1, <1>t
    <3>3. EvaluatingProgress(w)'
      BY <2>2, <2>3, <2>4, <3>2 DEF EvaluatingProgress
    <3> QED BY <2>3, <2>4, <3>2, <3>3, <1>m, WorkingStepKeepsResults
  <2> QED BY <2>5, <2>6
<1>7. CASE PolicySetFinal(w)
  <2> DEFINE new == update_status(s, policy[w].final)
  <2>1. /\ policy[w].pc = "set_final"
        /\ Write(s, new) \/ WriteOrNot(s, new)
        /\ PolicyGoto(w, "append_policy_completed") \/ PolicyGoto(w, "fail_run")
    BY <1>7 DEF PolicySetFinal, PolicyCall
  <2>2. /\ new.findings = row.findings
        /\ new.inventory = row.inventory
        /\ new.scores = row.scores
    BY <1>m DEF Rows, update_status
  <2>3. row.scores = Frameworks /\ Primary \in Frameworks /\ Evaluated(s)
    BY <2>1, <1>m DEF EvaluatingProgress
  <2> HIDE DEF new
  <2>4. /\ \A t \in Scans \ {s} : db'[t] = db[t]
        /\ db'[s] \in {row, new}
    BY <2>1, <1>w
  <2>5. db'[s].scores = Frameworks /\ Evaluated(s)'
    BY <2>2, <2>3, <2>4 DEF Evaluated
  <2>6. /\ \A v \in PolicyWorkers \ {w} : policy'[v] = policy[v]
        /\ policy'[w].pc \in {"append_policy_completed", "fail_run"}
    BY <2>1, <1>t DEF PolicyGoto
  <2>7. EvaluatingProgress(w)' /\ policy'[w].pc \notin EarlyPcs
    BY <2>6 DEF EvaluatingProgress
  <2> QED BY <2>3, <2>4, <2>5, <2>6, <2>7, <1>m, WorkingStepKeepsResults
<1> QED BY <1>1, <1>2, <1>3, <1>4, <1>5, <1>6, <1>7 DEF PolicyWorks

LEMMA PolicyKeepsResults ==
  ASSUME HandOffInvariant, ResultInvariant, NEW w \in PolicyWorkers,
         PolicyStep(w) \/ PolicyCrash(w), UNCHANGED <<api, collector, ingest>>
  PROVE  ResultInvariant'
<1>t. TypeOK /\ policyQueue \in Seq(Scans)
  BY DEF HandOffInvariant, TypeOK, StoreTypeOK
<1>1. CASE PolicyPop(w)
  <2>1. /\ \A v \in PolicyWorkers \ {w} : policy'[v] = policy[v]
        /\ policy'[w].pc = "append_evaluate"
        /\ policy'[w].scan = Head(policyQueue)
        /\ policyQueue # <<>>
        /\ policyQueue' = Tail(policyQueue)
        /\ UNCHANGED <<db, platformEvents>>
    BY <1>1, <1>t DEF PolicyPop, TypeOK, PolicyTypeOK
  <2>2. \A t \in Scans : EvaluationAhead(t)' => EvaluationAhead(t)
    <3>1. /\ 1 \in 1..Len(policyQueue)
          /\ Head(policyQueue) = policyQueue[1]
          /\ \A i \in 1..Len(policyQueue') :
               i + 1 \in 1..Len(policyQueue) /\ policyQueue'[i] = policyQueue[i + 1]
      BY <2>1, <1>t, TailElements
    <3>2. \A t \in Scans : (\E i \in 1..Len(policyQueue') : policyQueue'[i] = t)
                             => \E i \in 1..Len(policyQueue) : policyQueue[i] = t
      BY <3>1
    <3>3. \A t \in Scans :
            (\E v \in PolicyWorkers : policy'[v].scan = t /\ policy'[v].pc \in EarlyPcs)
              => \/ \E i \in 1..Len(policyQueue) : policyQueue[i] = t
                 \/ \E v \in PolicyWorkers : policy[v].scan = t /\ policy[v].pc \in EarlyPcs
      BY <2>1, <3>1
    <3> QED BY <2>1, <3>2, <3>3 DEF EvaluationAhead, ReportQueued, HoldsReport
  <2>3. \A t \in Scans : KeepsResults(t) /\ db'[t].inventory = db[t].inventory
    BY <2>1 DEF KeepsResults
  <2>4. \A v \in PolicyWorkers : policy'[v] = policy[v] \/ policy'[v].pc \notin WorkingPcs
    BY <2>1 DEF WorkingPcs
  <2> QED BY <2>2, <2>3, <2>4, QuietStepKeepsResults
<1>2. CASE PolicyWorks(w)
  <2>1. policy[w].scan \in Scans
    <3>1. policy[w].pc # "idle"
      BY <1>2 DEF PolicyWorks, PolicyListAssets, PolicyUpsertFinding, PolicyCompleteRun,
             PolicyMapControls, PolicyMapScore, PolicyGetRun, PolicySetFinal, PolicyCall
    <3> QED BY <3>1, <1>t DEF TypeOK, PolicyTypeOK
  <2> QED BY <2>1, <1>2, PolicyWorksKeepsResults
<1>3. CASE ~PolicyPop(w) /\ ~PolicyWorks(w)
  <2>1. PolicyQuiet(w)
    BY <1>3, <1>t, PolicyQuietSteps
  <2>2. \A t \in Scans : SameIntake(t)
    BY <1>3, <1>t, PolicyStepEffect DEF PolicyEffect
  <2>3. \A t \in Scans : EvaluationAhead(t)' => EvaluationAhead(t)
    <3>1. \A t \in Scans, v \in PolicyWorkers :
            policy'[v].scan = t /\ policy'[v].pc \in EarlyPcs
              => policy[v].scan = t /\ policy[v].pc \in EarlyPcs
      BY <2>1 DEF PolicyQuiet
    <3> QED BY <2>1, <3>1 DEF PolicyQuiet, EvaluationAhead, ReportQueued, HoldsReport
  <2>4. \A v \in PolicyWorkers : policy'[v] = policy[v] \/ policy'[v].pc \notin WorkingPcs
    BY <2>1 DEF PolicyQuiet
  <2> QED BY <2>1, <2>2, <2>3, <2>4, QuietStepKeepsResults DEF PolicyQuiet, SameIntake
<1> QED BY <1>1, <1>2, <1>3

(*****************************************************************************)
(* Ingest workers                                                            *)
(*****************************************************************************)

LEMMA IngestStepWrites ==
  ASSUME TypeOK, NEW w \in IngestWorkers, IngestStep(w) \/ IngestCrash(w)
  PROVE  \A t \in Scans : KeepsResults(t)
<1> DEFINE s   == IngestScan(w)
           row == db[s]
<1>t. db \in [Scans -> Rows]
  BY DEF TypeOK, StoreTypeOK
<1>m. ASSUME ingest[w].pc # "idle"
      PROVE  s \in Scans /\ row \in Rows /\ ingest[w].msg \in Events
  <2>1. ingest[w].msg \in Events
    BY <1>m DEF TypeOK, IngestTypeOK
  <2>2. s \in Scans
    BY <2>1 DEF Events, IngestScan
  <2> QED BY <2>1, <2>2, <1>t
<1>c. ASSUME NEW at, at # "idle", NEW new, NEW next, NEW handler, IngestCall(w, at, new, next, handler)
      PROVE  ingest[w].pc # "idle" /\ (Write(s, new) \/ WriteOrNot(s, new))
  BY <1>c DEF IngestCall
<1>w. ASSUME ingest[w].pc # "idle", NEW new \in Rows, Write(s, new) \/ WriteOrNot(s, new),
             new.findings = row.findings, new.scores = row.scores,
             new.status = row.status \/ new.status \notin {"completed", "completed_with_errors"}
      PROVE  \A t \in Scans : KeepsResults(t)
  BY <1>w, <1>m, <1>t, WriteKeepsResults
<1>s. UNCHANGED db => \A t \in Scans : KeepsResults(t)
  BY DEF KeepsResults
<1>1. CASE IngestSetCollecting(w)
  <2> DEFINE new == update_status(s, "collecting")
  <2>1. ingest[w].pc # "idle" /\ (Write(s, new) \/ WriteOrNot(s, new))
    BY <1>1 DEF IngestSetCollecting, IngestCall
  <2>2. /\ new \in Rows
        /\ new.findings = row.findings
        /\ new.scores = row.scores
        /\ new.status = row.status \/ new.status \notin {"completed", "completed_with_errors"}
    BY <2>1, <1>m DEF Rows, update_status, ScanStatus
  <2> HIDE DEF new
  <2> QED BY <2>1, <2>2, <1>w
<1>2. CASE IngestSetFailed(w)
  <2> DEFINE new == update_status(s, "failed")
  <2>1. ingest[w].pc # "idle" /\ (Write(s, new) \/ WriteOrNot(s, new))
    BY <1>2 DEF IngestSetFailed, IngestCall
  <2>2. /\ new \in Rows
        /\ new.findings = row.findings
        /\ new.scores = row.scores
        /\ new.status = row.status \/ new.status \notin {"completed", "completed_with_errors"}
    BY <2>1, <1>m DEF Rows, update_status, ScanStatus
  <2> HIDE DEF new
  <2> QED BY <2>1, <2>2, <1>w
<1>3. CASE IngestSetCollected(w)
  <2> DEFINE new == update_status(s, "collected")
  <2>1. ingest[w].pc # "idle" /\ (Write(s, new) \/ WriteOrNot(s, new))
    BY <1>3 DEF IngestSetCollected, IngestCall
  <2>2. /\ new \in Rows
        /\ new.findings = row.findings
        /\ new.scores = row.scores
        /\ new.status = row.status \/ new.status \notin {"completed", "completed_with_errors"}
    BY <2>1, <1>m DEF Rows, update_status, ScanStatus
  <2> HIDE DEF new
  <2> QED BY <2>1, <2>2, <1>w
<1>4. CASE IngestSetIngesting(w)
  <2> DEFINE new == update_status(s, "ingesting")
  <2>1. ingest[w].pc # "idle" /\ (Write(s, new) \/ WriteOrNot(s, new))
    BY <1>4 DEF IngestSetIngesting, IngestCall
  <2>2. /\ new \in Rows
        /\ new.findings = row.findings
        /\ new.scores = row.scores
        /\ new.status = row.status \/ new.status \notin {"completed", "completed_with_errors"}
    BY <2>1, <1>m DEF Rows, update_status, ScanStatus
  <2> HIDE DEF new
  <2> QED BY <2>1, <2>2, <1>w
<1>5. CASE IngestSetInventoryReady(w)
  <2> DEFINE new == update_status(s, "inventory_ready")
  <2>1. ingest[w].pc # "idle" /\ (Write(s, new) \/ WriteOrNot(s, new))
    BY <1>5 DEF IngestSetInventoryReady, IngestCall
  <2>2. /\ new \in Rows
        /\ new.findings = row.findings
        /\ new.scores = row.scores
        /\ new.status = row.status \/ new.status \notin {"completed", "completed_with_errors"}
    BY <2>1, <1>m DEF Rows, update_status, ScanStatus
  <2> HIDE DEF new
  <2> QED BY <2>1, <2>2, <1>w
<1>6. CASE IngestOnError(w)
  <2> DEFINE new == update_status(s, "failed")
  <2>1. ingest[w].pc # "idle" /\ (Write(s, new) \/ WriteOrNot(s, new))
    BY <1>6 DEF IngestOnError, IngestCall
  <2>2. /\ new \in Rows
        /\ new.findings = row.findings
        /\ new.scores = row.scores
        /\ new.status = row.status \/ new.status \notin {"completed", "completed_with_errors"}
    BY <2>1, <1>m DEF Rows, update_status, ScanStatus
  <2> HIDE DEF new
  <2> QED BY <2>1, <2>2, <1>w
<1>7. CASE IngestAppendEvent(w)
  <2> DEFINE new == append_event(s, ingest[w].msg.type)
  <2>1. ingest[w].pc # "idle" /\ (Write(s, new) \/ WriteOrNot(s, new))
    BY <1>7 DEF IngestAppendEvent, IngestCall
  <2>2. /\ new \in Rows
        /\ new.findings = row.findings
        /\ new.scores = row.scores
        /\ new.status = row.status \/ new.status \notin {"completed", "completed_with_errors"}
    BY <2>1, <1>m DEF Rows, append_event, TimelineEvents, Events
  <2> HIDE DEF new
  <2> QED BY <2>1, <2>2, <1>w
<1>8. CASE IngestAppendScanCompleted(w)
  <2> DEFINE new == append_event(s, "scan.completed:failed")
  <2>1. ingest[w].pc # "idle" /\ (Write(s, new) \/ WriteOrNot(s, new))
    BY <1>8 DEF IngestAppendScanCompleted, IngestCall
  <2>2. /\ new \in Rows
        /\ new.findings = row.findings
        /\ new.scores = row.scores
        /\ new.status = row.status \/ new.status \notin {"completed", "completed_with_errors"}
    BY <2>1, <1>m DEF Rows, append_event, TimelineEvents
  <2> HIDE DEF new
  <2> QED BY <2>1, <2>2, <1>w
<1>9. CASE IngestAppendInventoryUpdated(w)
  <2> DEFINE new == append_event(s, "inventory.updated")
  <2>1. ingest[w].pc # "idle" /\ (Write(s, new) \/ WriteOrNot(s, new))
    BY <1>9 DEF IngestAppendInventoryUpdated, IngestCall
  <2>2. /\ new \in Rows
        /\ new.findings = row.findings
        /\ new.scores = row.scores
        /\ new.status = row.status \/ new.status \notin {"completed", "completed_with_errors"}
    BY <2>1, <1>m DEF Rows, append_event, TimelineEvents
  <2> HIDE DEF new
  <2> QED BY <2>1, <2>2, <1>w
<1>10. CASE IngestRunRunning(w)
  <2> DEFINE new == [db[s] EXCEPT !.run = "running"]
  <2>1. ingest[w].pc # "idle" /\ (Write(s, new) \/ WriteOrNot(s, new))
    BY <1>10 DEF IngestRunRunning, IngestCall
  <2>2. /\ new \in Rows
        /\ new.findings = row.findings
        /\ new.scores = row.scores
        /\ new.status = row.status \/ new.status \notin {"completed", "completed_with_errors"}
    BY <2>1, <1>m DEF Rows
  <2> HIDE DEF new
  <2> QED BY <2>1, <2>2, <1>w
<1>11. CASE IngestRunFailed(w)
  <2> DEFINE new == [db[s] EXCEPT !.run = "failed"]
  <2>1. ingest[w].pc # "idle" /\ (Write(s, new) \/ WriteOrNot(s, new))
    BY <1>11 DEF IngestRunFailed, IngestCall
  <2>2. /\ new \in Rows
        /\ new.findings = row.findings
        /\ new.scores = row.scores
        /\ new.status = row.status \/ new.status \notin {"completed", "completed_with_errors"}
    BY <2>1, <1>m DEF Rows
  <2> HIDE DEF new
  <2> QED BY <2>1, <2>2, <1>w
<1>12. CASE IngestRunCollected(w)
  <2> DEFINE new == [db[s] EXCEPT !.run = ingest[w].msg.status, !.manifest = ingest[w].msg.snap]
  <2>1. ingest[w].pc # "idle" /\ (Write(s, new) \/ WriteOrNot(s, new))
    BY <1>12 DEF IngestRunCollected, IngestCall
  <2>2. /\ new \in Rows
        /\ new.findings = row.findings
        /\ new.scores = row.scores
        /\ new.status = row.status \/ new.status \notin {"completed", "completed_with_errors"}
    BY <2>1, <1>m DEF Rows, CollectionStatuses, Events
  <2> HIDE DEF new
  <2> QED BY <2>1, <2>2, <1>w
<1>13. CASE IngestInsertRelationships(w)
  <2> DEFINE new == [db[s] EXCEPT !.relationships = TRUE]
  <2>1. ingest[w].pc # "idle" /\ (Write(s, new) \/ WriteOrNot(s, new))
    BY <1>13 DEF IngestInsertRelationships, IngestCall
  <2>2. /\ new \in Rows
        /\ new.findings = row.findings
        /\ new.scores = row.scores
        /\ new.status = row.status \/ new.status \notin {"completed", "completed_with_errors"}
    BY <2>1, <1>m DEF Rows
  <2> HIDE DEF new
  <2> QED BY <2>1, <2>2, <1>w
<1>14. CASE IngestInsertResource(w)
  <2>1. PICK r \in ingest[w].todo :
          LET new == [db[s] EXCEPT !.inventory = @ \cup {r}]
          IN ingest[w].pc # "idle" /\ (Write(s, new) \/ WriteOrNot(s, new))
    BY <1>14 DEF IngestInsertResource
  <2> DEFINE new == [db[s] EXCEPT !.inventory = @ \cup {r}]
  <2>2. r \in Resources
    BY DEF TypeOK, IngestTypeOK
  <2>3. /\ new \in Rows
        /\ new.findings = row.findings
        /\ new.scores = row.scores
        /\ new.status = row.status
    BY <2>1, <2>2, <1>m DEF Rows
  <2>4. Write(s, new) \/ WriteOrNot(s, new)
    BY <2>1
  <2> HIDE DEF new
  <2> QED BY <2>1, <2>3, <2>4, <1>w
<1>15. CASE \/ IngestPop(w)
            \/ IngestMarkInvalid(w)
            \/ IngestReadSnapshot(w)
            \/ IngestPublish(w)
            \/ IngestCrash(w)
  BY <1>15, <1>s DEF IngestPop, IngestMarkInvalid, IngestReadSnapshot, IngestPublish, IngestCrash
<1> QED BY <1>1, <1>2, <1>3, <1>4, <1>5, <1>6, <1>7, <1>8, <1>9, <1>10, <1>11, <1>12, <1>13,
           <1>14, <1>15 DEF IngestStep

LEMMA IngestKeepsResults ==
  ASSUME HandOffInvariant, ResultInvariant, NEW w \in IngestWorkers,
         IngestStep(w) \/ IngestCrash(w), UNCHANGED <<api, collector, policy>>
  PROVE  ResultInvariant'
<1>t. TypeOK /\ platformEvents \in Seq(Events) /\ policyQueue \in Seq(Scans)
  BY DEF HandOffInvariant, TypeOK, StoreTypeOK
<1>k. \A t \in Scans : KeepsResults(t)
  BY <1>t, IngestStepWrites
<1>v. \A v \in PolicyWorkers : policy'[v] = policy[v]
  OBVIOUS
<1>1. CASE IngestPop(w)
  <2>1. /\ UNCHANGED <<db, policyQueue>>
        /\ platformEvents # <<>>
        /\ \A v \in IngestWorkers \ {w} : ingest'[v] = ingest[v]
        /\ ingest'[w].msg = Head(platformEvents)
        /\ platformEvents' = Tail(platformEvents)
    BY <1>1, <1>t DEF IngestPop, TypeOK, IngestTypeOK
  <2>2. /\ 1 \in 1..Len(platformEvents)
        /\ Head(platformEvents) = platformEvents[1]
        /\ \A i \in 1..Len(platformEvents') :
             i + 1 \in 1..Len(platformEvents) /\ platformEvents'[i] = platformEvents[i + 1]
    BY <2>1, <1>t, TailElements
  <2>3. \A t \in Scans : ReportQueued(t)' => ReportQueued(t)
    BY <2>2 DEF ReportQueued
  <2>4. \A t \in Scans : HoldsReport(w, t)' => ReportQueued(t)
    BY <2>1, <2>2 DEF HoldsReport, ReportQueued, Report
  <2>5. \A t \in Scans, v \in IngestWorkers \ {w} : HoldsReport(v, t)' => HoldsReport(v, t)
    BY <2>1 DEF HoldsReport
  <2>6. \A t \in Scans : EvaluationAhead(t)' => EvaluationAhead(t)
    BY <2>1, <2>3, <2>4, <2>5 DEF EvaluationAhead
  <2> QED BY <2>1, <2>6, <1>k, <1>v, QuietStepKeepsResults
<1>2. CASE ~IngestPop(w)
  <2> DEFINE s    == IngestScan(w)
             type == ingest[w].msg.type
  <2>1. ingest[w].pc # "idle" /\ IngestEffect(w)
    BY <1>2, IngestStepEffect
  <2>2. ingest[w].msg \in Events /\ s \in Scans /\ s = ingest[w].msg.scan
    BY <2>1, <1>t DEF TypeOK, IngestTypeOK, IngestScan, Events
  <2>3. type = "collection.completed" /\ ingest[w].pc # "on_error" => EvaluationAhead(s)
    BY <2>1, <2>2 DEF EvaluationAhead, HoldsReport, Report
  <2>4. \A t \in Scans : db'[t].inventory = db[t].inventory \/ EvaluationAhead(t)
    BY <2>1, <2>3 DEF IngestEffect, SameIntake
  <2>5. ASSUME ingest[w].pc = "publish"
        PROVE  EvaluationAhead(s)
    <3>1. type = "collection.completed"
      BY <2>1, <2>2, <2>5 DEF HandOffInvariant, IngestProgress, PcsOf, Events
    <3> QED BY <3>1, <2>3, <2>5
  <2>6. \A t \in Scans, v \in IngestWorkers :
          HoldsReport(v, t)' /\ ingest'[v].pc # "on_error"
            => HoldsReport(v, t) /\ ingest[v].pc # "on_error"
    BY <2>1 DEF IngestEffect, HoldsReport
  <2>7. \A t \in Scans : (\E i \in 1..Len(policyQueue') : policyQueue'[i] = t)
                           => EvaluationAhead(t)
    <3>1. CASE UNCHANGED policyQueue
      BY <3>1 DEF EvaluationAhead
    <3>2. CASE ingest[w].pc = "publish" /\ policyQueue' = Append(policyQueue, s)
      <4>1. \A i \in 1..Len(policyQueue') :
              policyQueue'[i] = s \/ (i \in 1..Len(policyQueue) /\ policyQueue'[i] = policyQueue[i])
        BY <3>2, <2>2, <1>t, AppendElements
      <4> QED BY <4>1, <3>2, <2>5 DEF EvaluationAhead
    <3> QED BY <3>1, <3>2, <2>1 DEF IngestEffect
  <2>8. \A t \in Scans : EvaluationAhead(t)' => EvaluationAhead(t)
    <3>1. \A t \in Scans : ReportQueued(t)' => ReportQueued(t)
      BY <2>1 DEF IngestEffect, ReportQueued
    <3> QED BY <2>6, <2>7, <3>1 DEF EvaluationAhead
  <2> QED BY <2>4, <2>8, <1>k, <1>v, QuietStepKeepsResults
<1> QED BY <1>1, <1>2

(*****************************************************************************)
(* Requests, collectors and the shared store                                 *)
(*****************************************************************************)

LEMMA ServiceKeepsResults ==
  ASSUME HandOffInvariant, ResultInvariant, NEW s \in Scans,
         ReadIntegration(s) \/ ApiStep(s) \/ ApiCrash(s) \/ CollectorStep(s),
         UNCHANGED <<ingest, policy>>
  PROVE  ResultInvariant'
<1>t. /\ db \in [Scans -> Rows]
      /\ platformEvents \in Seq(Events)
      /\ collector \in [Scans -> CollectorPcs]
  BY DEF HandOffInvariant, TypeOK, StoreTypeOK, ServiceTypeOK
<1>v. UNCHANGED <<ingest, policy>> /\ \A v \in PolicyWorkers : policy'[v] = policy[v]
  OBVIOUS
<1>1. ASSUME NEW st \in {"created", "queued"}, NEW at, NEW next,
             ApiCall(s, at, update_status(s, st), next)
      PROVE  ResultInvariant'
  <2> DEFINE new == update_status(s, st)
  <2>1. /\ UNCHANGED <<platformEvents, policyQueue, collector>>
        /\ Write(s, new) \/ WriteOrNot(s, new)
    BY <1>1 DEF ApiCall
  <2>2. db[s] \in Rows
    BY <1>t
  <2>3. /\ new \in Rows
        /\ new.inventory = db[s].inventory
        /\ new.findings = db[s].findings
        /\ new.scores = db[s].scores
        /\ new.status \notin {"completed", "completed_with_errors"}
    BY <2>2 DEF Rows, update_status, ScanStatus
  <2> HIDE DEF new
  <2>4. \A t \in Scans : KeepsResults(t)
    BY <2>1, <2>3, <1>t, WriteKeepsResults
  <2>5. \A t \in Scans : db'[t].inventory = db[t].inventory
    BY <2>1, <2>3, <1>t DEF Write, WriteOrNot
  <2>6. \A t \in Scans : EvaluationAhead(t)' => EvaluationAhead(t)
    BY <2>1, <1>v DEF EvaluationAhead, ReportQueued, HoldsReport
  <2> QED BY <2>4, <2>5, <2>6, <1>v, QuietStepKeepsResults
<1>2. CASE CreateScan(s) \/ QueueScan(s)
  BY <1>2, <1>1 DEF CreateScan, QueueScan
<1>3. ASSUME UNCHANGED <<db, policyQueue>>,
             \A t \in Scans : collector'[t] # "done" => collector[t] # "done" \/ t = s,
             \A t \in Scans : ReportQueued(t)' => ReportQueued(t) \/ t = s,
             collector[s] # "done" \/ UNCHANGED <<collector, platformEvents>>
      PROVE  ResultInvariant'
  <2>1. \A t \in Scans : KeepsResults(t) /\ db'[t].inventory = db[t].inventory
    BY <1>3 DEF KeepsResults
  <2>2. \A t \in Scans : EvaluationAhead(t)' => EvaluationAhead(t)
    BY <1>3, <1>v DEF EvaluationAhead, ReportQueued, HoldsReport
  <2> QED BY <2>1, <2>2, <1>v, QuietStepKeepsResults
<1>4. CASE ReadIntegration(s) \/ ApiCrash(s) \/ PushJob(s)
  <2>1. UNCHANGED <<db, policyQueue, collector, platformEvents>>
    BY <1>4 DEF ReadIntegration, ApiCrash, PushJob, store
  <2> QED BY <2>1, <1>3 DEF ReportQueued
<1>5. CASE CollectorStep(s)
  <2>1. PICK e \in Events : e.scan = s /\ platformEvents' = Append(platformEvents, e)
    <3>1. CASE CollectorStart(s)
      BY <3>1 DEF CollectorStart, Send, CollectionStarted, Events, CollectionStatuses
    <3>2. CASE CollectorFinish(s)
      <4>1. PICK auth \in BOOLEAN :
              \/ Send(CollectionFailed(s, auth))
              \/ \E status \in CollectionStatuses, snap \in Snapshots :
                   Send(CollectionCompleted(s, status, snap, auth))
        BY <3>2, StoreAssumption DEF CollectorFinish, StoreAssumption
      <4>2. CASE Send(CollectionFailed(s, auth))
        BY <4>2 DEF Send, CollectionFailed, Events, CollectionStatuses
      <4>3. CASE \E status \in CollectionStatuses, snap \in Snapshots :
                   Send(CollectionCompleted(s, status, snap, auth))
        BY <4>3, StoreAssumption DEF Send, CollectionCompleted, Events, StoreAssumption
      <4> QED BY <4>1, <4>2, <4>3
    <3> QED BY <1>5, <3>1, <3>2 DEF CollectorStep
  <2>2. /\ UNCHANGED <<db, policyQueue>>
        /\ collector[s] # "done"
        /\ \A t \in Scans \ {s} : collector'[t] = collector[t]
    BY <1>5, <1>t DEF CollectorStep, CollectorStart, CollectorFinish, HandOffInvariant, JobQueuedOnce
  <2>3. \A i \in 1..Len(platformEvents') :
          \/ platformEvents'[i] = e
          \/ i \in 1..Len(platformEvents) /\ platformEvents'[i] = platformEvents[i]
    BY <2>1, <1>t, AppendElements
  <2>4. \A t \in Scans : ReportQueued(t)' => ReportQueued(t) \/ t = s
    BY <2>1, <2>3 DEF ReportQueued
  <2> QED BY <2>2, <2>4, <1>3
<1> QED BY <1>2, <1>4, <1>5 DEF ApiStep

LEMMA StoreKeepsResults ==
  ASSUME HandOffInvariant, ResultInvariant, ReactivateIntegration \/ RedisRestart,
         UNCHANGED <<api, collector, ingest, policy>>
  PROVE  ResultInvariant'
<1>1. /\ UNCHANGED db
      /\ platformEvents' = platformEvents \/ platformEvents' = <<>>
      /\ policyQueue' = policyQueue \/ policyQueue' = <<>>
  BY DEF ReactivateIntegration, RedisRestart
<1>2. \A t \in Scans : KeepsResults(t) /\ db'[t].inventory = db[t].inventory
  BY <1>1 DEF KeepsResults
<1>3. \A t \in Scans : EvaluationAhead(t)' => EvaluationAhead(t)
  BY <1>1 DEF EvaluationAhead, ReportQueued, HoldsReport
<1> QED BY <1>2, <1>3, QuietStepKeepsResults

(*****************************************************************************)
(* The theorems                                                              *)
(*****************************************************************************)

LEMMA InitResults == Init => ResultInvariant
<1> SUFFICES ASSUME Init
             PROVE  ResultInvariant
  OBVIOUS
<1>1. /\ \A s \in Scans : db[s].findings = {} /\ db[s].scores = {} /\ db[s].status = "absent"
      /\ \A w \in PolicyWorkers : policy[w].pc = "idle"
  BY DEF Init, StoreInit, PolicyInit, NoRow, PolicyIdle
<1> QED BY <1>1 DEF ResultInvariant, UntouchedResults, PolicyProgress, ScoresStandOnAllFindings,
                    CompletedMeansScored, NotFinished

LEMMA NextResults ==
  HandOffInvariant /\ ResultInvariant /\ [Next]_vars => ResultInvariant'
<1> SUFFICES ASSUME HandOffInvariant, ResultInvariant, [Next]_vars
             PROVE  ResultInvariant'
  OBVIOUS
<1>1. CASE ServiceNext /\ UNCHANGED <<ingest, policy>>
  BY <1>1, ServiceKeepsResults DEF ServiceNext
<1>2. CASE IngestNext /\ UNCHANGED <<api, collector, policy>>
  BY <1>2, IngestKeepsResults DEF IngestNext
<1>3. CASE PolicyNext /\ UNCHANGED <<api, collector, ingest>>
  BY <1>3, PolicyKeepsResults DEF PolicyNext
<1>4. CASE (ReactivateIntegration \/ RedisRestart) /\ UNCHANGED <<api, collector, ingest, policy>>
  BY <1>4, StoreKeepsResults
<1>5. CASE UNCHANGED vars
  <2>1. UNCHANGED <<db, collector, platformEvents, policyQueue, ingest, policy>>
    BY <1>5 DEF vars, store
  <2>2. \A t \in Scans : KeepsResults(t) /\ db'[t].inventory = db[t].inventory
    BY <2>1 DEF KeepsResults
  <2>3. \A t \in Scans : EvaluationAhead(t)' => EvaluationAhead(t)
    BY <2>1 DEF EvaluationAhead, ReportQueued, HoldsReport
  <2> QED BY <2>1, <2>2, <2>3, QuietStepKeepsResults
<1> QED BY <1>1, <1>2, <1>3, <1>4, <1>5 DEF Next

(* What was stored before and after each call of the evaluation, for any      *)
(* number of scans, workers, raised calls and crashes.                        *)
THEOREM ResultsHold == Spec => []ResultInvariant
  BY InitResults, NextResults, HandOffHolds, PTL DEF Spec

(* No framework is scored from part of the findings, although evaluate_scan   *)
(* and map_scan may fail anywhere.                                            *)
THEOREM ScoresAreWhole == Spec => []ScoresStandOnAllFindings
<1>1. ResultInvariant => ScoresStandOnAllFindings
  BY DEF ResultInvariant
<1> QED BY <1>1, ResultsHold, PTL

(* PolicyWorker.handle_event checks the status and writes evaluating in two   *)
(* transactions, and accepts a scan that reads completed_with_errors, yet no  *)
(* scan is ever in the hands of two workers, nor evaluated a second time.     *)
THEOREM OneEvaluationPerScan == Spec => []SingleEvaluation
<1>1. \A s \in Scans : AwaitsEvaluation(s) => EvaluationAhead(s)
  BY DEF AwaitsEvaluation, EvaluationAhead, EarlyPcs
<1>2. HandOffInvariant /\ ResultInvariant => SingleEvaluation
  BY <1>1 DEF HandOffInvariant, ResultInvariant, UntouchedResults, NotFinished, SingleEvaluation
<1> QED BY <1>2, HandOffHolds, ResultsHold, PTL

(* A scan that reads completed has every framework scored on all findings,    *)
(* although status, findings and scores are written one after the other.      *)
THEOREM CompletedIsScored == Spec => []CompletedMeansScored
<1>1. ResultInvariant => CompletedMeansScored
  BY DEF ResultInvariant
<1> QED BY <1>1, ResultsHold, PTL

(*****************************************************************************)
(* The timeline                                                              *)
(*****************************************************************************)

(* What the timeline must tell of an entry before it may hold it.             *)
InOrder(row) ==
  /\ "policy.evaluate" \in row.timeline
       => {"collection.completed", "inventory.updated"} \subseteq row.timeline
  /\ "policy.completed" \in row.timeline => Primary \in row.scores
  /\ {"scan.completed:completed", "scan.completed:completed_with_errors"} \cap row.timeline # {}
       => {"policy.evaluate", "policy.completed", "compliance.updated"} \subseteq row.timeline

LEMMA InOrderRows == TimelineInOrder <=> \A s \in Scans : InOrder(db[s])
  BY DEF TimelineInOrder, InOrder

(* Entries that ask for others before them.                                   *)
Staged ==
  {"policy.evaluate", "policy.completed", "scan.completed:completed",
   "scan.completed:completed_with_errors"}

(* A row to which no such entry is added, and from which nothing is taken.    *)
Extends(new, row) ==
  /\ row.timeline \subseteq new.timeline
  /\ row.scores \subseteq new.scores
  /\ new.timeline \cap Staged \subseteq row.timeline

LEMMA ExtendsInOrder ==
  ASSUME NEW row, NEW new, Extends(new, row), InOrder(row)
  PROVE  InOrder(new)
  BY DEF Extends, InOrder, Staged

LEMMA WriteExtends ==
  ASSUME db \in [Scans -> Rows], NEW s \in Scans, NEW new \in Rows,
         Write(s, new) \/ WriteOrNot(s, new), Extends(new, db[s])
  PROVE  \A t \in Scans : Extends(db'[t], db[t])
<1> SUFFICES ASSUME NEW t \in Scans
             PROVE  Extends(db'[t], db[t])
  OBVIOUS
<1>1. db'[t] = db[t] \/ (t = s /\ db'[t] = new)
  BY DEF Write, WriteOrNot
<1> QED BY <1>1 DEF Extends

LEMMA SameRowsExtend == UNCHANGED db => \A t \in Scans : Extends(db'[t], db[t])
  BY DEF Extends

(* A step that adds no such entry and moves no worker.                        *)
LEMMA ExtendingStepKeepsRecords ==
  ASSUME HandOffInvariant, RecordInvariant,
         \A t \in Scans : Extends(db'[t], db[t]),
         \A t \in Scans :
           Announced(t)' => Announced(t) \/ "collection.completed" \in db[t].timeline,
         \A v \in PolicyWorkers : policy'[v] = policy[v],
         EnvelopesRecorded'
  PROVE  RecordInvariant'
<1>1. CollectionRecorded'
  BY DEF RecordInvariant, CollectionRecorded, Extends
<1>2. EvaluationRecorded'
  <2> SUFFICES ASSUME NEW v \in PolicyWorkers, policy[v].pc # "idle"
               PROVE  RecordedAt(policy[v].pc, db'[policy[v].scan])
    BY DEF EvaluationRecorded
  <2>1. policy[v].scan \in Scans
    BY DEF HandOffInvariant, TypeOK, PolicyTypeOK
  <2>2. RecordedAt(policy[v].pc, db[policy[v].scan])
    BY DEF RecordInvariant, EvaluationRecorded
  <2> QED BY <2>1, <2>2 DEF RecordedAt, Extends
<1>3. TimelineInOrder'
  <2>1. \A t \in Scans : InOrder(db'[t])
    BY ExtendsInOrder, InOrderRows DEF RecordInvariant
  <2> QED BY <2>1 DEF TimelineInOrder, InOrder
<1> QED BY <1>1, <1>2, <1>3 DEF RecordInvariant

(* A step that moves no worker and announces no scan.                         *)
LEMMA FrameKeepsRecords ==
  ASSUME HandOffInvariant, RecordInvariant, UNCHANGED <<ingest, policy>>,
         policyQueue' = policyQueue \/ policyQueue' = <<>>,
         \A t \in Scans : Extends(db'[t], db[t])
  PROVE  RecordInvariant'
<1>1. \A t \in Scans : Announced(t)' => Announced(t)
  BY DEF Announced
<1>2. \A v \in IngestWorkers : ingest[v].pc # "idle" => ingest[v].msg.scan \in Scans
  BY DEF HandOffInvariant, TypeOK, IngestTypeOK, Events
<1>3. EnvelopesRecorded'
  BY <1>2 DEF RecordInvariant, EnvelopesRecorded, Extends
<1> QED BY <1>1, <1>3, ExtendingStepKeepsRecords

(*****************************************************************************)
(* Ingest workers                                                            *)
(*****************************************************************************)

LEMMA IngestStepExtends ==
  ASSUME TypeOK, NEW w \in IngestWorkers, IngestStep(w) \/ IngestCrash(w)
  PROVE  \A t \in Scans : Extends(db'[t], db[t])
<1> DEFINE s   == IngestScan(w)
           row == db[s]
<1>t. db \in [Scans -> Rows]
  BY DEF TypeOK, StoreTypeOK
<1>m. ASSUME ingest[w].pc # "idle"
      PROVE  s \in Scans /\ row \in Rows /\ ingest[w].msg \in Events
  <2>1. ingest[w].msg \in Events
    BY <1>m DEF TypeOK, IngestTypeOK
  <2>2. s \in Scans
    BY <2>1 DEF Events, IngestScan
  <2> QED BY <2>1, <2>2, <1>t
<1>w. ASSUME ingest[w].pc # "idle", NEW new \in Rows, Write(s, new) \/ WriteOrNot(s, new),
             Extends(new, row)
      PROVE  \A t \in Scans : Extends(db'[t], db[t])
  BY <1>w, <1>m, <1>t, WriteExtends
<1>1. CASE IngestSetCollecting(w)
  <2> DEFINE new == update_status(s, "collecting")
  <2>1. ingest[w].pc # "idle" /\ (Write(s, new) \/ WriteOrNot(s, new))
    BY <1>1 DEF IngestSetCollecting, IngestCall
  <2>2. new \in Rows /\ Extends(new, row)
    BY <2>1, <1>m DEF Rows, update_status, ScanStatus, Extends, Staged
  <2> HIDE DEF new
  <2> QED BY <2>1, <2>2, <1>w
<1>2. CASE IngestSetFailed(w)
  <2> DEFINE new == update_status(s, "failed")
  <2>1. ingest[w].pc # "idle" /\ (Write(s, new) \/ WriteOrNot(s, new))
    BY <1>2 DEF IngestSetFailed, IngestCall
  <2>2. new \in Rows /\ Extends(new, row)
    BY <2>1, <1>m DEF Rows, update_status, ScanStatus, Extends, Staged
  <2> HIDE DEF new
  <2> QED BY <2>1, <2>2, <1>w
<1>3. CASE IngestSetCollected(w)
  <2> DEFINE new == update_status(s, "collected")
  <2>1. ingest[w].pc # "idle" /\ (Write(s, new) \/ WriteOrNot(s, new))
    BY <1>3 DEF IngestSetCollected, IngestCall
  <2>2. new \in Rows /\ Extends(new, row)
    BY <2>1, <1>m DEF Rows, update_status, ScanStatus, Extends, Staged
  <2> HIDE DEF new
  <2> QED BY <2>1, <2>2, <1>w
<1>4. CASE IngestSetIngesting(w)
  <2> DEFINE new == update_status(s, "ingesting")
  <2>1. ingest[w].pc # "idle" /\ (Write(s, new) \/ WriteOrNot(s, new))
    BY <1>4 DEF IngestSetIngesting, IngestCall
  <2>2. new \in Rows /\ Extends(new, row)
    BY <2>1, <1>m DEF Rows, update_status, ScanStatus, Extends, Staged
  <2> HIDE DEF new
  <2> QED BY <2>1, <2>2, <1>w
<1>5. CASE IngestSetInventoryReady(w)
  <2> DEFINE new == update_status(s, "inventory_ready")
  <2>1. ingest[w].pc # "idle" /\ (Write(s, new) \/ WriteOrNot(s, new))
    BY <1>5 DEF IngestSetInventoryReady, IngestCall
  <2>2. new \in Rows /\ Extends(new, row)
    BY <2>1, <1>m DEF Rows, update_status, ScanStatus, Extends, Staged
  <2> HIDE DEF new
  <2> QED BY <2>1, <2>2, <1>w
<1>6. CASE IngestOnError(w)
  <2> DEFINE new == update_status(s, "failed")
  <2>1. ingest[w].pc # "idle" /\ (Write(s, new) \/ WriteOrNot(s, new))
    BY <1>6 DEF IngestOnError, IngestCall
  <2>2. new \in Rows /\ Extends(new, row)
    BY <2>1, <1>m DEF Rows, update_status, ScanStatus, Extends, Staged
  <2> HIDE DEF new
  <2> QED BY <2>1, <2>2, <1>w
<1>7. CASE IngestAppendEvent(w)
  <2> DEFINE new == append_event(s, ingest[w].msg.type)
  <2>1. ingest[w].pc # "idle" /\ (Write(s, new) \/ WriteOrNot(s, new))
    BY <1>7 DEF IngestAppendEvent, IngestCall
  <2>2. new \in Rows /\ Extends(new, row)
    BY <2>1, <1>m DEF Rows, append_event, TimelineEvents, Events, Extends, Staged
  <2> HIDE DEF new
  <2> QED BY <2>1, <2>2, <1>w
<1>8. CASE IngestAppendScanCompleted(w)
  <2> DEFINE new == append_event(s, "scan.completed:failed")
  <2>1. ingest[w].pc # "idle" /\ (Write(s, new) \/ WriteOrNot(s, new))
    BY <1>8 DEF IngestAppendScanCompleted, IngestCall
  <2>2. new \in Rows /\ Extends(new, row)
    BY <2>1, <1>m DEF Rows, append_event, TimelineEvents, Extends, Staged
  <2> HIDE DEF new
  <2> QED BY <2>1, <2>2, <1>w
<1>9. CASE IngestAppendInventoryUpdated(w)
  <2> DEFINE new == append_event(s, "inventory.updated")
  <2>1. ingest[w].pc # "idle" /\ (Write(s, new) \/ WriteOrNot(s, new))
    BY <1>9 DEF IngestAppendInventoryUpdated, IngestCall
  <2>2. new \in Rows /\ Extends(new, row)
    BY <2>1, <1>m DEF Rows, append_event, TimelineEvents, Extends, Staged
  <2> HIDE DEF new
  <2> QED BY <2>1, <2>2, <1>w
<1>10. CASE IngestRunRunning(w)
  <2> DEFINE new == [db[s] EXCEPT !.run = "running"]
  <2>1. ingest[w].pc # "idle" /\ (Write(s, new) \/ WriteOrNot(s, new))
    BY <1>10 DEF IngestRunRunning, IngestCall
  <2>2. new \in Rows /\ Extends(new, row)
    BY <2>1, <1>m DEF Rows, Extends, Staged
  <2> HIDE DEF new
  <2> QED BY <2>1, <2>2, <1>w
<1>11. CASE IngestRunFailed(w)
  <2> DEFINE new == [db[s] EXCEPT !.run = "failed"]
  <2>1. ingest[w].pc # "idle" /\ (Write(s, new) \/ WriteOrNot(s, new))
    BY <1>11 DEF IngestRunFailed, IngestCall
  <2>2. new \in Rows /\ Extends(new, row)
    BY <2>1, <1>m DEF Rows, Extends, Staged
  <2> HIDE DEF new
  <2> QED BY <2>1, <2>2, <1>w
<1>12. CASE IngestRunCollected(w)
  <2> DEFINE new == [db[s] EXCEPT !.run = ingest[w].msg.status, !.manifest = ingest[w].msg.snap]
  <2>1. ingest[w].pc # "idle" /\ (Write(s, new) \/ WriteOrNot(s, new))
    BY <1>12 DEF IngestRunCollected, IngestCall
  <2>2. new \in Rows /\ Extends(new, row)
    BY <2>1, <1>m DEF Rows, CollectionStatuses, Events, Extends, Staged
  <2> HIDE DEF new
  <2> QED BY <2>1, <2>2, <1>w
<1>13. CASE IngestInsertRelationships(w)
  <2> DEFINE new == [db[s] EXCEPT !.relationships = TRUE]
  <2>1. ingest[w].pc # "idle" /\ (Write(s, new) \/ WriteOrNot(s, new))
    BY <1>13 DEF IngestInsertRelationships, IngestCall
  <2>2. new \in Rows /\ Extends(new, row)
    BY <2>1, <1>m DEF Rows, Extends, Staged
  <2> HIDE DEF new
  <2> QED BY <2>1, <2>2, <1>w
<1>14. CASE IngestInsertResource(w)
  <2>1. PICK r \in ingest[w].todo :
          LET new == [db[s] EXCEPT !.inventory = @ \cup {r}]
          IN ingest[w].pc # "idle" /\ (Write(s, new) \/ WriteOrNot(s, new))
    BY <1>14 DEF IngestInsertResource
  <2> DEFINE new == [db[s] EXCEPT !.inventory = @ \cup {r}]
  <2>2. r \in Resources
    BY DEF TypeOK, IngestTypeOK
  <2>3. new \in Rows /\ Extends(new, row)
    BY <2>1, <2>2, <1>m DEF Rows, Extends, Staged
  <2>4. Write(s, new) \/ WriteOrNot(s, new)
    BY <2>1
  <2> HIDE DEF new
  <2> QED BY <2>1, <2>3, <2>4, <1>w
<1>15. CASE \/ IngestPop(w)
            \/ IngestMarkInvalid(w)
            \/ IngestReadSnapshot(w)
            \/ IngestPublish(w)
            \/ IngestCrash(w)
  BY <1>15, SameRowsExtend
     DEF IngestPop, IngestMarkInvalid, IngestReadSnapshot, IngestPublish, IngestCrash
<1> QED BY <1>1, <1>2, <1>3, <1>4, <1>5, <1>6, <1>7, <1>8, <1>9, <1>10, <1>11, <1>12, <1>13,
           <1>14, <1>15 DEF IngestStep

LEMMA IngestKeepsRecords ==
  ASSUME HandOffInvariant, RecordInvariant, NEW w \in IngestWorkers,
         IngestStep(w) \/ IngestCrash(w), UNCHANGED <<api, collector, policy>>
  PROVE  RecordInvariant'
<1>t. /\ TypeOK
      /\ policyQueue \in Seq(Scans)
      /\ db \in [Scans -> Rows]
      /\ \A v \in IngestWorkers : ingest[v].pc # "idle" =>
           ingest[v].msg \in Events /\ ingest[v].msg.scan \in Scans
  BY DEF HandOffInvariant, TypeOK, StoreTypeOK, IngestTypeOK, Events
<1>x. \A t \in Scans : Extends(db'[t], db[t])
  BY <1>t, IngestStepExtends
<1>v. \A v \in PolicyWorkers : policy'[v] = policy[v]
  OBVIOUS
<1>o. ASSUME NEW v \in IngestWorkers, ingest'[v] = ingest[v]
      PROVE  ingest'[v].pc \notin {"idle", "append_event"} =>
               ingest'[v].msg.type \in db'[ingest'[v].msg.scan].timeline
  BY <1>o, <1>t, <1>x DEF RecordInvariant, EnvelopesRecorded, Extends
<1>1. CASE IngestPop(w)
  <2>1. /\ \A v \in IngestWorkers \ {w} : ingest'[v] = ingest[v]
        /\ ingest'[w].pc = "append_event"
        /\ UNCHANGED policyQueue
    BY <1>1, <1>t DEF IngestPop, TypeOK, IngestTypeOK
  <2>2. EnvelopesRecorded'
    BY <2>1, <1>o DEF EnvelopesRecorded
  <2>3. \A t \in Scans : Announced(t)' => Announced(t)
    BY <2>1, <1>v DEF Announced
  <2> QED BY <2>2, <2>3, <1>x, <1>v, ExtendingStepKeepsRecords
<1>2. CASE ~IngestPop(w)
  <2> DEFINE s == ingest[w].msg.scan
  <2>1. ingest[w].pc # "idle" /\ IngestEffect(w) /\ IngestScan(w) = s
    BY <1>2, IngestStepEffect DEF IngestScan
  <2>2. ASSUME ingest[w].pc = "append_event", ingest'[w].pc # "idle"
        PROVE  ingest[w].msg.type \in db'[s].timeline
    <3>1. ~IngestGoto(w, "idle")
      BY <2>2, <1>t DEF IngestGoto, IngestIdle, TypeOK, IngestTypeOK
    <3>2. /\ ~IngestSetCollecting(w) /\ ~IngestRunRunning(w) /\ ~IngestSetFailed(w)
          /\ ~IngestRunFailed(w) /\ ~IngestAppendScanCompleted(w) /\ ~IngestSetCollected(w)
          /\ ~IngestRunCollected(w) /\ ~IngestSetIngesting(w)
      BY <2>2 DEF IngestSetCollecting, IngestRunRunning, IngestSetFailed, IngestRunFailed,
         IngestAppendScanCompleted, IngestSetCollected, IngestRunCollected,
         IngestSetIngesting, IngestCall
    <3>3. /\ ~IngestInsertRelationships(w) /\ ~IngestSetInventoryReady(w)
          /\ ~IngestAppendInventoryUpdated(w) /\ ~IngestOnError(w)
      BY <2>2 DEF IngestInsertRelationships, IngestSetInventoryReady,
         IngestAppendInventoryUpdated, IngestOnError, IngestCall
    <3>4. ~IngestMarkInvalid(w) /\ ~IngestReadSnapshot(w) /\ ~IngestInsertResource(w)
      BY <2>2 DEF IngestMarkInvalid, IngestReadSnapshot, IngestInsertResource
    <3>5. ~IngestPublish(w) /\ ~IngestCrash(w)
      BY <2>2, <3>1 DEF IngestPublish, IngestCrash
    <3>6. IngestAppendEvent(w)
      BY <1>2, <3>2, <3>3, <3>4, <3>5 DEF IngestStep
    <3>7. db' = [db EXCEPT ![s] = append_event(s, ingest[w].msg.type)]
      BY <3>6, <3>1 DEF IngestAppendEvent, IngestCall, Write, IngestScan
    <3>8. db'[s] = append_event(s, ingest[w].msg.type) /\ db[s] \in Rows
      BY <2>1, <3>7, <1>t
    <3> QED BY <3>8 DEF append_event, Rows
  <2>3. EnvelopesRecorded'
    <3> SUFFICES ASSUME NEW v \in IngestWorkers, ingest'[v].pc \notin {"idle", "append_event"}
                 PROVE  ingest'[v].msg.type \in db'[ingest'[v].msg.scan].timeline
      BY DEF EnvelopesRecorded
    <3>1. CASE v # w
      BY <2>1, <3>1, <1>o DEF IngestEffect
    <3>2. CASE v = w
      <4>1. ingest'[w].msg = ingest[w].msg
        BY <2>1, <3>2 DEF IngestEffect
      <4>2. ingest[w].pc # "append_event" => ingest[w].msg.type \in db[s].timeline
        BY <2>1 DEF RecordInvariant, EnvelopesRecorded
      <4>3. ingest[w].msg.type \in db'[s].timeline
        BY <2>1, <2>2, <3>2, <4>2, <1>t, <1>x DEF Extends
      <4> QED BY <3>2, <4>1, <4>3
    <3> QED BY <3>1, <3>2
  <2>4. ASSUME ingest[w].pc = "publish"
        PROVE  "collection.completed" \in db[s].timeline
    <3>1. ingest[w].msg.type = "collection.completed"
      BY <2>1, <2>4, <1>t DEF HandOffInvariant, IngestProgress, PcsOf, Events
    <3> QED BY <3>1, <2>4 DEF RecordInvariant, EnvelopesRecorded
  <2>5. \A t \in Scans : Announced(t)' => Announced(t) \/ "collection.completed" \in db[t].timeline
    <3>1. CASE UNCHANGED policyQueue
      BY <3>1, <1>v DEF Announced
    <3>2. CASE ingest[w].pc = "publish" /\ policyQueue' = Append(policyQueue, s)
      <4>1. \A i \in 1..Len(policyQueue') :
              policyQueue'[i] = s \/ (i \in 1..Len(policyQueue) /\ policyQueue'[i] = policyQueue[i])
        BY <2>1, <3>2, <1>t, AppendElements
      <4> QED BY <4>1, <3>2, <2>4, <1>v DEF Announced
    <3> QED BY <2>1, <3>1, <3>2 DEF IngestEffect
  <2> QED BY <2>3, <2>5, <1>x, <1>v, ExtendingStepKeepsRecords
<1> QED BY <1>1, <1>2

(*****************************************************************************)
(* Policy workers                                                            *)
(*****************************************************************************)

(* A step of a worker on the row of its scan: what it leaves on record there, *)
(* and where it leaves the worker.                                            *)
LEMMA EvaluationStepKeepsRecords ==
  ASSUME HandOffInvariant, RecordInvariant, NEW w \in PolicyWorkers, NEW s \in Scans,
         UNCHANGED <<ingest, policyQueue>>,
         \A v \in PolicyWorkers \ {w} : policy'[v] = policy[v],
         policy[w].scan = s,
         policy'[w].scan \in {s, None},
         \A t \in Scans \ {s} : db'[t] = db[t],
         db[s].timeline \subseteq db'[s].timeline,
         db[s].scores \subseteq db'[s].scores,
         InOrder(db'[s]),
         policy'[w].pc # "idle" => policy'[w].scan = s /\ RecordedAt(policy'[w].pc, db'[s])
  PROVE  RecordInvariant'
<1>t. /\ \A v \in PolicyWorkers : policy[v].pc # "idle" => policy[v].scan \in Scans
      /\ \A v \in IngestWorkers : ingest[v].pc # "idle" => ingest[v].msg.scan \in Scans
  BY DEF HandOffInvariant, TypeOK, PolicyTypeOK, IngestTypeOK, Events
<1>m. \A t \in Scans :
        db[t].timeline \subseteq db'[t].timeline /\ db[t].scores \subseteq db'[t].scores
  OBVIOUS
<1>1. EnvelopesRecorded'
  BY <1>t, <1>m DEF RecordInvariant, EnvelopesRecorded
<1>2. CollectionRecorded'
  <2>1. \A t \in Scans : Announced(t)' => Announced(t)
    BY StoreAssumption DEF Announced, StoreAssumption
  <2> QED BY <2>1, <1>m DEF RecordInvariant, CollectionRecorded
<1>3. EvaluationRecorded'
  <2> SUFFICES ASSUME NEW v \in PolicyWorkers, policy'[v].pc # "idle"
               PROVE  RecordedAt(policy'[v].pc, db'[policy'[v].scan])
    BY DEF EvaluationRecorded
  <2>1. CASE v = w
    BY <2>1
  <2>2. CASE v # w
    <3>1. policy'[v] = policy[v] /\ policy[v].scan \in Scans
      BY <2>2, <1>t
    <3>2. RecordedAt(policy[v].pc, db[policy[v].scan])
      BY <3>1 DEF RecordInvariant, EvaluationRecorded
    <3> QED BY <3>1, <3>2, <1>m DEF RecordedAt
  <2> QED BY <2>1, <2>2
<1>4. TimelineInOrder'
  <2>1. \A t \in Scans : InOrder(db'[t])
    BY InOrderRows DEF RecordInvariant
  <2> QED BY <2>1 DEF TimelineInOrder, InOrder
<1> QED BY <1>1, <1>2, <1>3, <1>4 DEF RecordInvariant

(* The steps after which more is on record need no more than that.            *)
PlainPcs == PolicyPcs \ {"append_evaluate", "append_policy_completed",
                         "append_compliance_updated", "append_scan_completed"}

LEMMA PolicyGotoTarget ==
  ASSUME PolicyTypeOK, NEW w \in PolicyWorkers, NEW pc \in PolicyPcs, PolicyGoto(w, pc)
  PROVE  /\ \A v \in PolicyWorkers \ {w} : policy'[v] = policy[v]
         /\ policy'[w].pc = pc
         /\ pc = "idle" => policy'[w].scan = None
         /\ pc # "idle" => policy'[w].scan = policy[w].scan
  BY DEF PolicyTypeOK, PolicyGoto, PolicyIdle

(* A database statement of a policy worker, from the row it writes.           *)
LEMMA PolicyCallKeepsRecords ==
  ASSUME HandOffInvariant, RecordInvariant, UNCHANGED ingest,
         NEW w \in PolicyWorkers, NEW at \in PolicyPcs \ {"idle"}, NEW new,
         NEW next \in PolicyPcs, NEW handler \in {"idle", "fail_run"},
         PolicyCall(w, at, new, next, handler),
         at = "append_evaluate" => handler = "idle",
         db[policy[w].scan].timeline \subseteq new.timeline,
         db[policy[w].scan].scores \subseteq new.scores,
         InOrder(new),
         next # "idle" => RecordedAt(next, new)
  PROVE  RecordInvariant'
<1> DEFINE s == policy[w].scan
<1>t. PolicyTypeOK /\ db \in [Scans -> Rows]
  BY DEF HandOffInvariant, TypeOK, StoreTypeOK
<1>1. /\ policy[w].pc = at
      /\ s \in Scans
      /\ InOrder(db[s])
      /\ RecordedAt(at, db[s])
      /\ UNCHANGED policyQueue
  BY <1>t, InOrderRows DEF PolicyCall, PolicyTypeOK, RecordInvariant, EvaluationRecorded
<1>2. /\ \A t \in Scans \ {s} : db'[t] = db[t]
      /\ db'[s] = db[s] \/ db'[s] = new
      /\ Write(s, new) => db'[s] = new
  BY <1>1, <1>t DEF PolicyCall, Write, WriteOrNot
<1>3. PICK pc \in {next, handler} :
        PolicyGoto(w, pc) /\ (pc = handler \/ Write(s, new))
  BY DEF PolicyCall
<1>4. /\ \A v \in PolicyWorkers \ {w} : policy'[v] = policy[v]
      /\ policy'[w].pc = pc
      /\ pc = "idle" => policy'[w].scan = None
      /\ pc # "idle" => policy'[w].scan = s
  BY <1>3, <1>t, PolicyGotoTarget DEF PolicyPcs
<1>5. pc # "idle" => RecordedAt(pc, db'[s])
  BY <1>1, <1>2, <1>3 DEF RecordedAt
<1>6. /\ InOrder(db'[s])
      /\ db[s].timeline \subseteq db'[s].timeline
      /\ db[s].scores \subseteq db'[s].scores
  BY <1>1, <1>2
<1> HIDE DEF s
<1> QED BY <1>1, <1>2, <1>4, <1>5, <1>6, EvaluationStepKeepsRecords DEF s

(* A step that records nothing new, to a step that asks for no more.          *)
LEMMA PlainStepKeepsRecords ==
  ASSUME HandOffInvariant, RecordInvariant, NEW w \in PolicyWorkers, NEW s \in Scans,
         UNCHANGED <<ingest, policyQueue>>,
         policy[w].scan = s,
         policy[w].pc \notin {"idle", "append_evaluate"},
         \A v \in PolicyWorkers \ {w} : policy'[v] = policy[v],
         policy'[w].pc \in PlainPcs,
         policy'[w].scan = IF policy'[w].pc = "idle" THEN None ELSE s,
         \A t \in Scans \ {s} : db'[t] = db[t],
         db'[s].timeline = db[s].timeline,
         db[s].scores \subseteq db'[s].scores
  PROVE  RecordInvariant'
<1>1. InOrder(db[s]) /\ "policy.evaluate" \in db[s].timeline
  BY InOrderRows DEF RecordInvariant, EvaluationRecorded, RecordedAt
<1>2. InOrder(db'[s])
  BY <1>1 DEF InOrder
<1>3. RecordedAt(policy'[w].pc, db'[s])
  BY <1>1 DEF RecordedAt, PlainPcs
<1> QED BY <1>2, <1>3, EvaluationStepKeepsRecords

LEMMA PolicyKeepsRecords ==
  ASSUME HandOffInvariant, ResultInvariant, RecordInvariant, NEW w \in PolicyWorkers,
         PolicyStep(w) \/ PolicyCrash(w), UNCHANGED <<api, collector, ingest>>
  PROVE  RecordInvariant'
<1> DEFINE s   == policy[w].scan
           row == db[s]
<1>t. /\ PolicyTypeOK
      /\ policyQueue \in Seq(Scans)
      /\ db \in [Scans -> Rows]
      /\ policy \in [PolicyWorkers ->
           [pc : PolicyPcs, scan : Scans \cup {None}, todo : SUBSET Resources,
            frameworks : SUBSET Frameworks, final : {"completed", "completed_with_errors"}]]
  BY DEF HandOffInvariant, TypeOK, StoreTypeOK, PolicyTypeOK
<1>m. ASSUME policy[w].pc # "idle"
      PROVE  /\ s \in Scans
             /\ row \in Rows
             /\ InOrder(row)
             /\ RecordedAt(policy[w].pc, row)
             /\ EvaluatingProgress(w)
  BY <1>m, <1>t, InOrderRows
     DEF PolicyTypeOK, RecordInvariant, EvaluationRecorded, ResultInvariant, PolicyProgress
<1>g. ASSUME NEW pc \in PlainPcs, PolicyGoto(w, pc)
      PROVE  /\ \A v \in PolicyWorkers \ {w} : policy'[v] = policy[v]
             /\ policy'[w].pc = pc
             /\ policy'[w].scan = IF pc = "idle" THEN None ELSE s
  BY <1>g, <1>t, PolicyGotoTarget DEF PlainPcs
<1>w. ASSUME NEW new, Write(s, new) \/ WriteOrNot(s, new), policy[w].pc # "idle",
             new.timeline = row.timeline, row.scores \subseteq new.scores
      PROVE  /\ \A t \in Scans \ {s} : db'[t] = db[t]
             /\ db'[s].timeline = row.timeline
             /\ row.scores \subseteq db'[s].scores
  BY <1>w, <1>t, <1>m DEF Write, WriteOrNot
<1>1. CASE PolicyPop(w)
  <2>1. /\ policyQueue # <<>>
        /\ policy'[w].pc = "append_evaluate"
        /\ policy'[w].scan = Head(policyQueue)
        /\ \A v \in PolicyWorkers \ {w} : policy'[v] = policy[v]
        /\ policyQueue' = Tail(policyQueue)
        /\ UNCHANGED db
    BY <1>1, <1>t DEF PolicyPop, PolicyIdle
  <2>2. /\ 1 \in 1..Len(policyQueue)
        /\ Head(policyQueue) = policyQueue[1]
        /\ \A i \in 1..Len(policyQueue') :
             i + 1 \in 1..Len(policyQueue) /\ policyQueue'[i] = policyQueue[i + 1]
    BY <2>1, <1>t, TailElements
  <2>3. \A t \in Scans : Announced(t)' => Announced(t)
    <3> SUFFICES ASSUME NEW t \in Scans, Announced(t)'
                 PROVE  Announced(t)
      OBVIOUS
    <3>1. CASE \E i \in 1..Len(policyQueue') : policyQueue'[i] = t
      BY <3>1, <2>2 DEF Announced
    <3>2. CASE \E v \in PolicyWorkers : policy'[v].scan = t
      <4>1. PICK v \in PolicyWorkers : policy'[v].scan = t
        BY <3>2
      <4>2. CASE v = w
        BY <4>1, <4>2, <2>1, <2>2 DEF Announced
      <4>3. CASE v # w
        BY <4>1, <4>3, <2>1 DEF Announced
      <4> QED BY <4>2, <4>3
    <3> QED BY <3>1, <3>2 DEF Announced
  <2>4. CollectionRecorded'
    BY <2>1, <2>3 DEF RecordInvariant, CollectionRecorded
  <2>5. EvaluationRecorded'
    <3> SUFFICES ASSUME NEW v \in PolicyWorkers, policy'[v].pc # "idle"
                 PROVE  RecordedAt(policy'[v].pc, db'[policy'[v].scan])
      BY DEF EvaluationRecorded
    <3>1. CASE v = w
      BY <3>1, <2>1 DEF RecordedAt
    <3>2. CASE v # w
      BY <3>2, <2>1 DEF RecordInvariant, EvaluationRecorded
    <3> QED BY <3>1, <3>2
  <2>6. EnvelopesRecorded' /\ TimelineInOrder'
    BY <2>1 DEF RecordInvariant, EnvelopesRecorded, TimelineInOrder
  <2> QED BY <2>4, <2>5, <2>6 DEF RecordInvariant
<1>2. CASE PolicyAppendEvaluate(w)
  <2> DEFINE new == append_event(s, "policy.evaluate")
  <2>1. /\ policy[w].pc = "append_evaluate"
        /\ PolicyCall(w, "append_evaluate", new, "check_status", "idle")
    BY <1>2 DEF PolicyAppendEvaluate, PolicyCall
  <2>2. Announced(s)
    BY DEF Announced
  <2>3. {"collection.completed", "inventory.updated"} \subseteq row.timeline
    BY <2>1, <2>2, <1>m
       DEF HandOffInvariant, EvaluationSeesWholeInventory, RecordInvariant, CollectionRecorded
  <2>4. new.timeline = row.timeline \cup {"policy.evaluate"} /\ new.scores = row.scores
    BY <2>1, <1>m DEF Rows, append_event
  <2>5. InOrder(new) /\ RecordedAt("check_status", new)
    BY <2>1, <2>3, <2>4, <1>m DEF InOrder, RecordedAt
  <2> HIDE DEF new
  <2> QED BY <2>1, <2>4, <2>5, PolicyCallKeepsRecords DEF PolicyPcs
<1>3. CASE PolicySetEvaluating(w)
  <2> DEFINE new == update_status(s, "evaluating")
  <2>1. /\ policy[w].pc = "set_evaluating"
        /\ PolicyCall(w, "set_evaluating", new, "start_run", "idle")
    BY <1>3 DEF PolicySetEvaluating, PolicyCall
  <2>2. new.timeline = row.timeline /\ new.scores = row.scores
    BY <2>1, <1>m DEF Rows, update_status
  <2>4. InOrder(new) /\ RecordedAt("start_run", new)
    BY <2>1, <2>2, <1>m DEF InOrder, RecordedAt
  <2> HIDE DEF new
  <2> QED BY <2>1, <2>2, <2>4, PolicyCallKeepsRecords DEF PolicyPcs
<1>4. CASE PolicyStartRun(w)
  <2> DEFINE new == [db[s] EXCEPT !.evaluation = "running"]
  <2>1. /\ policy[w].pc = "start_run"
        /\ PolicyCall(w, "start_run", new, "list_assets", "idle")
    BY <1>4 DEF PolicyStartRun, PolicyCall
  <2>2. new.timeline = row.timeline /\ new.scores = row.scores
    BY <2>1, <1>m DEF Rows
  <2>4. InOrder(new) /\ RecordedAt("list_assets", new)
    BY <2>1, <2>2, <1>m DEF InOrder, RecordedAt
  <2> HIDE DEF new
  <2> QED BY <2>1, <2>2, <2>4, PolicyCallKeepsRecords DEF PolicyPcs
<1>5. CASE PolicySetFinal(w)
  <2> DEFINE new == update_status(s, policy[w].final)
  <2>1. /\ policy[w].pc = "set_final"
        /\ PolicyCall(w, "set_final", new, "append_policy_completed", "fail_run")
    BY <1>5 DEF PolicySetFinal, PolicyCall
  <2>2. new.timeline = row.timeline /\ new.scores = row.scores
    BY <2>1, <1>m DEF Rows, update_status
  <2>3. Primary \in row.scores
    BY <2>1, <1>m DEF EvaluatingProgress
  <2>4. InOrder(new) /\ RecordedAt("append_policy_completed", new)
    BY <2>1, <2>2, <2>3, <1>m DEF InOrder, RecordedAt
  <2> HIDE DEF new
  <2> QED BY <2>1, <2>2, <2>4, PolicyCallKeepsRecords DEF PolicyPcs
<1>6. CASE PolicyAppendPolicyCompleted(w)
  <2> DEFINE new == append_event(s, "policy.completed")
  <2>1. /\ policy[w].pc = "append_policy_completed"
        /\ PolicyCall(w, "append_policy_completed", new, "append_compliance_updated", "fail_run")
    BY <1>6 DEF PolicyAppendPolicyCompleted, PolicyCall
  <2>2. new.timeline = row.timeline \cup {"policy.completed"} /\ new.scores = row.scores
    BY <2>1, <1>m DEF Rows, append_event
  <2>4. InOrder(new) /\ RecordedAt("append_compliance_updated", new)
    BY <2>1, <2>2, <1>m DEF InOrder, RecordedAt
  <2> HIDE DEF new
  <2> QED BY <2>1, <2>2, <2>4, PolicyCallKeepsRecords DEF PolicyPcs
<1>7. CASE PolicyAppendComplianceUpdated(w)
  <2> DEFINE new == append_event(s, "compliance.updated")
  <2>1. /\ policy[w].pc = "append_compliance_updated"
        /\ PolicyCall(w, "append_compliance_updated", new, "append_scan_completed", "fail_run")
    BY <1>7 DEF PolicyAppendComplianceUpdated, PolicyCall
  <2>2. new.timeline = row.timeline \cup {"compliance.updated"} /\ new.scores = row.scores
    BY <2>1, <1>m DEF Rows, append_event
  <2>4. InOrder(new) /\ RecordedAt("append_scan_completed", new)
    BY <2>1, <2>2, <1>m DEF InOrder, RecordedAt
  <2> HIDE DEF new
  <2> QED BY <2>1, <2>2, <2>4, PolicyCallKeepsRecords DEF PolicyPcs
<1>8. CASE PolicyAppendScanCompleted(w)
  <2> DEFINE new == append_event(s, ScanCompleted(policy[w].final))
  <2>1. /\ policy[w].pc = "append_scan_completed"
        /\ PolicyCall(w, "append_scan_completed", new, "idle", "fail_run")
    BY <1>8 DEF PolicyAppendScanCompleted, PolicyCall
  <2>2. new.timeline = row.timeline \cup {ScanCompleted(policy[w].final)} /\ new.scores = row.scores
    BY <2>1, <1>m DEF Rows, append_event
  <2>4. InOrder(new)
    BY <2>1, <2>2, <1>m DEF InOrder, RecordedAt, ScanCompleted
  <2> HIDE DEF new
  <2> QED BY <2>1, <2>2, <2>4, PolicyCallKeepsRecords DEF PolicyPcs
<1>9. CASE PolicyFailRun(w)
  <2> DEFINE new == [db[s] EXCEPT !.evaluation = "failed"]
  <2>1. /\ policy[w].pc = "fail_run"
        /\ PolicyCall(w, "fail_run", new, "set_failed", "idle")
    BY <1>9 DEF PolicyFailRun, PolicyCall
  <2>2. new.timeline = row.timeline /\ new.scores = row.scores
    BY <2>1, <1>m DEF Rows
  <2>4. InOrder(new) /\ RecordedAt("set_failed", new)
    BY <2>1, <2>2, <1>m DEF InOrder, RecordedAt
  <2> HIDE DEF new
  <2> QED BY <2>1, <2>2, <2>4, PolicyCallKeepsRecords DEF PolicyPcs
<1>10. CASE PolicySetFailed(w)
  <2> DEFINE new == update_status(s, "failed")
  <2>1. /\ policy[w].pc = "set_failed"
        /\ PolicyCall(w, "set_failed", new, "append_scan_failed", "idle")
    BY <1>10 DEF PolicySetFailed, PolicyCall
  <2>2. new.timeline = row.timeline /\ new.scores = row.scores
    BY <2>1, <1>m DEF Rows, update_status
  <2>4. InOrder(new) /\ RecordedAt("append_scan_failed", new)
    BY <2>1, <2>2, <1>m DEF InOrder, RecordedAt
  <2> HIDE DEF new
  <2> QED BY <2>1, <2>2, <2>4, PolicyCallKeepsRecords DEF PolicyPcs
<1>11. CASE PolicyAppendScanFailed(w)
  <2> DEFINE new == append_event(s, "scan.completed:failed")
  <2>1. /\ policy[w].pc = "append_scan_failed"
        /\ PolicyCall(w, "append_scan_failed", new, "idle", "idle")
    BY <1>11 DEF PolicyAppendScanFailed, PolicyCall
  <2>2. new.timeline = row.timeline \cup {"scan.completed:failed"} /\ new.scores = row.scores
    BY <2>1, <1>m DEF Rows, append_event
  <2>4. InOrder(new)
    BY <2>1, <2>2, <1>m DEF InOrder, RecordedAt
  <2> HIDE DEF new
  <2> QED BY <2>1, <2>2, <2>4, PolicyCallKeepsRecords DEF PolicyPcs
<1>12. CASE PolicyMapControls(w)
  <2>1. PICK f \in policy[w].frameworks :
          PolicyCall(w, "map_controls", [db[s] EXCEPT !.controls = @ \cup {f}],
                     "map_score", "fail_run")
    BY <1>12 DEF PolicyMapControls
  <2> DEFINE new == [db[s] EXCEPT !.controls = @ \cup {f}]
  <2>2. policy[w].pc = "map_controls" /\ PolicyCall(w, "map_controls", new, "map_score", "fail_run")
    BY <2>1 DEF PolicyCall
  <2>3. new.timeline = row.timeline /\ new.scores = row.scores
    BY <2>2, <1>m DEF Rows
  <2>4. InOrder(new) /\ RecordedAt("map_score", new)
    BY <2>2, <2>3, <1>m DEF InOrder, RecordedAt
  <2> HIDE DEF new
  <2> QED BY <2>2, <2>3, <2>4, PolicyCallKeepsRecords DEF PolicyPcs
<1>13. CASE PolicyUpsertFinding(w)
  <2>1. policy[w].pc = "upsert_finding" /\ UNCHANGED policyQueue
    BY <1>13 DEF PolicyUpsertFinding
  <2>2. PICK r \in policy[w].todo :
          LET new == [row EXCEPT !.findings = @ \cup {r}]
          IN \/ /\ Write(s, new)
                /\ policy' = [policy EXCEPT ![w].todo = @ \ {r},
                     ![w].pc = IF policy[w].todo = {r} THEN "complete_run" ELSE @]
             \/ WriteOrNot(s, new) /\ PolicyGoto(w, "fail_run")
    BY <1>13 DEF PolicyUpsertFinding
  <2> DEFINE new == [row EXCEPT !.findings = @ \cup {r}]
  <2>3. new.timeline = row.timeline /\ new.scores = row.scores
    BY <2>1, <1>m DEF Rows
  <2>4. /\ \A t \in Scans \ {s} : db'[t] = db[t]
        /\ db'[s].timeline = row.timeline
        /\ row.scores \subseteq db'[s].scores
    <3>1. Write(s, new) \/ WriteOrNot(s, new)
      BY <2>2
    <3> HIDE DEF new
    <3> QED BY <2>1, <2>3, <3>1, <1>w
  <2>5. /\ \A v \in PolicyWorkers \ {w} : policy'[v] = policy[v]
        /\ policy'[w].pc \in PlainPcs
        /\ policy'[w].scan = IF policy'[w].pc = "idle" THEN None ELSE s
    <3>1. CASE PolicyGoto(w, "fail_run")
      BY <3>1, <1>g DEF PlainPcs, PolicyPcs
    <3>2. CASE policy' = [policy EXCEPT ![w].todo = @ \ {r},
                 ![w].pc = IF policy[w].todo = {r} THEN "complete_run" ELSE @]
      BY <3>2, <2>1, <1>t DEF PlainPcs, PolicyPcs
    <3> QED BY <2>2, <3>1, <3>2
  <2> QED BY <2>1, <2>4, <2>5, <1>m, PlainStepKeepsRecords
<1>14. CASE PolicyMapScore(w)
  <2>1. policy[w].pc = "map_score" /\ UNCHANGED policyQueue
    BY <1>14 DEF PolicyMapScore
  <2>2. PICK f \in policy[w].frameworks :
          LET new == [row EXCEPT !.scores = @ \cup {f}]
          IN \/ /\ Write(s, new)
                /\ policy' = [policy EXCEPT ![w].frameworks = @ \ {f},
                     ![w].pc = IF policy[w].frameworks = {f} THEN MappedPc ELSE "map_controls"]
             \/ WriteOrNot(s, new) /\ PolicyGoto(w, "fail_run")
    BY <1>14 DEF PolicyMapScore
  <2> DEFINE new == [row EXCEPT !.scores = @ \cup {f}]
  <2>3. new.timeline = row.timeline /\ row.scores \subseteq new.scores
    BY <2>1, <1>m DEF Rows
  <2>4. /\ \A t \in Scans \ {s} : db'[t] = db[t]
        /\ db'[s].timeline = row.timeline
        /\ row.scores \subseteq db'[s].scores
    <3>1. Write(s, new) \/ WriteOrNot(s, new)
      BY <2>2
    <3> HIDE DEF new
    <3> QED BY <2>1, <2>3, <3>1, <1>w
  <2>5. /\ \A v \in PolicyWorkers \ {w} : policy'[v] = policy[v]
        /\ policy'[w].pc \in PlainPcs
        /\ policy'[w].scan = IF policy'[w].pc = "idle" THEN None ELSE s
    <3>1. CASE PolicyGoto(w, "fail_run")
      BY <3>1, <1>g DEF PlainPcs, PolicyPcs
    <3>2. CASE policy' = [policy EXCEPT ![w].frameworks = @ \ {f},
                 ![w].pc = IF policy[w].frameworks = {f} THEN MappedPc ELSE "map_controls"]
      BY <3>2, <2>1, <1>t DEF PlainPcs, PolicyPcs, MappedPc
    <3> QED BY <2>2, <3>1, <3>2
  <2> QED BY <2>1, <2>4, <2>5, <1>m, PlainStepKeepsRecords
<1>15. CASE PolicyCompleteRun(w)
  <2> DEFINE new == [row EXCEPT !.evaluation = "completed"]
  <2>1. /\ policy[w].pc = "complete_run"
        /\ UNCHANGED policyQueue
        /\ Write(s, new) \/ WriteOrNot(s, new)
        /\ \/ policy' = [policy EXCEPT ![w].frameworks = Frameworks,
                ![w].pc = IF Frameworks = {} THEN MappedPc ELSE "map_controls"]
           \/ PolicyGoto(w, "fail_run")
    BY <1>15 DEF PolicyCompleteRun
  <2>2. new.timeline = row.timeline /\ new.scores = row.scores
    BY <2>1, <1>m DEF Rows
  <2>3. /\ \A t \in Scans \ {s} : db'[t] = db[t]
        /\ db'[s].timeline = row.timeline
        /\ row.scores \subseteq db'[s].scores
    <3> HIDE DEF new
    <3> QED BY <2>1, <2>2, <1>w
  <2>4. /\ \A v \in PolicyWorkers \ {w} : policy'[v] = policy[v]
        /\ policy'[w].pc \in PlainPcs
        /\ policy'[w].scan = IF policy'[w].pc = "idle" THEN None ELSE s
    <3>1. CASE PolicyGoto(w, "fail_run")
      BY <3>1, <1>g DEF PlainPcs, PolicyPcs
    <3>2. CASE policy' = [policy EXCEPT ![w].frameworks = Frameworks,
                 ![w].pc = IF Frameworks = {} THEN MappedPc ELSE "map_controls"]
      BY <3>2, <2>1, <1>t DEF PlainPcs, PolicyPcs, MappedPc
    <3> QED BY <2>1, <3>1, <3>2
  <2> QED BY <2>1, <2>3, <2>4, <1>m, PlainStepKeepsRecords
<1>16. CASE PolicyCheckStatus(w) \/ PolicyListAssets(w) \/ PolicyGetRun(w)
  <2>1. /\ policy[w].pc \in {"check_status", "list_assets", "get_run"}
        /\ UNCHANGED <<db, policyQueue>>
    BY <1>16 DEF PolicyCheckStatus, PolicyListAssets, PolicyGetRun, PolicyQueryRaises, store
  <2>2. /\ \A v \in PolicyWorkers \ {w} : policy'[v] = policy[v]
        /\ policy'[w].pc \in PlainPcs
        /\ policy'[w].scan = IF policy'[w].pc = "idle" THEN None ELSE s
    <3>1. CASE PolicyCheckStatus(w)
      <4>1. PolicyGoto(w, "set_evaluating") \/ PolicyGoto(w, "idle")
        BY <3>1 DEF PolicyCheckStatus, PolicyQueryRaises
      <4> QED BY <4>1, <1>g DEF PlainPcs, PolicyPcs
    <3>2. CASE PolicyGoto(w, "fail_run")
      BY <3>2, <1>g DEF PlainPcs, PolicyPcs
    <3>3. CASE PolicyListAssets(w) /\ ~PolicyGoto(w, "fail_run")
      <4>1. PICK assets \in SUBSET row.inventory :
              policy' = [policy EXCEPT ![w].todo = assets,
                ![w].pc = IF assets = {} THEN "complete_run" ELSE "upsert_finding"]
        BY <3>3 DEF PolicyListAssets, PolicyQueryRaises, Listed
      <4> QED BY <4>1, <2>1, <1>t DEF PlainPcs, PolicyPcs
    <3>4. CASE PolicyGetRun(w) /\ ~PolicyGoto(w, "fail_run")
      <4>1. policy' = [policy EXCEPT ![w].pc = "set_final",
              ![w].final = IF row.run = "completed"
                           THEN "completed" ELSE "completed_with_errors"]
        BY <3>4 DEF PolicyGetRun, PolicyQueryRaises
      <4> QED BY <4>1, <2>1, <1>t DEF PlainPcs, PolicyPcs
    <3> QED BY <1>16, <3>1, <3>2, <3>3, <3>4
  <2> QED BY <2>1, <2>2, <1>m, PlainStepKeepsRecords
<1>17. CASE PolicyCrash(w)
  <2>1. /\ policy[w].pc # "idle"
        /\ UNCHANGED <<db, policyQueue>>
        /\ PolicyGoto(w, "idle")
    BY <1>17 DEF PolicyCrash
  <2>2. /\ \A v \in PolicyWorkers \ {w} : policy'[v] = policy[v]
        /\ policy'[w].pc = "idle"
        /\ policy'[w].scan = None
    BY <2>1, <1>g DEF PlainPcs, PolicyPcs
  <2> QED BY <2>1, <2>2, <1>m, EvaluationStepKeepsRecords
<1> QED BY <1>1, <1>2, <1>3, <1>4, <1>5, <1>6, <1>7, <1>8, <1>9, <1>10, <1>11, <1>12,
           <1>13, <1>14, <1>15, <1>16, <1>17 DEF PolicyStep

(*****************************************************************************)
(* The service                                                               *)
(*****************************************************************************)

LEMMA ServiceKeepsRecords ==
  ASSUME HandOffInvariant, RecordInvariant, ServiceNext, UNCHANGED <<ingest, policy>>
  PROVE  RecordInvariant'
<1>1. PICK s \in Scans : ReadIntegration(s) \/ ApiStep(s) \/ ApiCrash(s) \/ CollectorStep(s)
  BY DEF ServiceNext
<1>2. db \in [Scans -> Rows] /\ db[s] \in Rows
  BY DEF HandOffInvariant, TypeOK, StoreTypeOK
<1>3. UNCHANGED policyQueue
  BY <1>1 DEF ReadIntegration, ApiStep, CreateScan, QueueScan, ApiCall, PushJob, ApiCrash,
     CollectorStep, CollectorStart, CollectorFinish, store
<1>4. \A t \in Scans : Extends(db'[t], db[t])
  <2>1. CASE CreateScan(s)
    <3> DEFINE new == update_status(s, "created")
    <3>1. Write(s, new) \/ WriteOrNot(s, new)
      BY <2>1 DEF CreateScan, ApiCall
    <3>2. new \in Rows /\ Extends(new, db[s])
      BY <1>2 DEF Rows, update_status, ScanStatus, Extends
    <3> HIDE DEF new
    <3> QED BY <3>1, <3>2, <1>2, WriteExtends
  <2>2. CASE QueueScan(s)
    <3> DEFINE new == update_status(s, "queued")
    <3>1. Write(s, new) \/ WriteOrNot(s, new)
      BY <2>2 DEF QueueScan, ApiCall
    <3>2. new \in Rows /\ Extends(new, db[s])
      BY <1>2 DEF Rows, update_status, ScanStatus, Extends
    <3> HIDE DEF new
    <3> QED BY <3>1, <3>2, <1>2, WriteExtends
  <2>3. CASE ReadIntegration(s) \/ PushJob(s) \/ ApiCrash(s) \/ CollectorStep(s)
    BY <2>3, SameRowsExtend DEF ReadIntegration, PushJob, ApiCrash, CollectorStep,
       CollectorStart, CollectorFinish, store
  <2> QED BY <1>1, <2>1, <2>2, <2>3 DEF ApiStep
<1> QED BY <1>3, <1>4, FrameKeepsRecords

(*****************************************************************************)
(* The theorems                                                              *)
(*****************************************************************************)

LEMMA InitRecords == Init => RecordInvariant
<1> SUFFICES ASSUME Init
             PROVE  RecordInvariant
  OBVIOUS
<1>1. /\ \A s \in Scans : db[s].timeline = {}
      /\ \A w \in IngestWorkers : ingest[w].pc = "idle"
      /\ \A w \in PolicyWorkers : policy[w].pc = "idle" /\ policy[w].scan = None
      /\ Len(policyQueue) = 0
  BY DEF Init, StoreInit, NoRow, IngestInit, IngestIdle, PolicyInit, PolicyIdle
<1>2. \A s \in Scans : ~Announced(s)
  BY <1>1, StoreAssumption DEF Announced, StoreAssumption
<1> QED BY <1>1, <1>2 DEF RecordInvariant, EnvelopesRecorded, CollectionRecorded,
                          EvaluationRecorded, TimelineInOrder

LEMMA NextRecords ==
  HandOffInvariant /\ ResultInvariant /\ RecordInvariant /\ [Next]_vars => RecordInvariant'
<1> SUFFICES ASSUME HandOffInvariant, ResultInvariant, RecordInvariant, [Next]_vars
             PROVE  RecordInvariant'
  OBVIOUS
<1>1. CASE ServiceNext /\ UNCHANGED <<ingest, policy>>
  BY <1>1, ServiceKeepsRecords
<1>2. CASE IngestNext /\ UNCHANGED <<api, collector, policy>>
  BY <1>2, IngestKeepsRecords DEF IngestNext
<1>3. CASE PolicyNext /\ UNCHANGED <<api, collector, ingest>>
  BY <1>3, PolicyKeepsRecords DEF PolicyNext
<1>4. CASE (ReactivateIntegration \/ RedisRestart) /\ UNCHANGED <<api, collector, ingest, policy>>
  <2>1. UNCHANGED <<db, ingest, policy>> /\ (policyQueue' = policyQueue \/ policyQueue' = <<>>)
    BY <1>4 DEF ReactivateIntegration, RedisRestart
  <2> QED BY <2>1, SameRowsExtend, FrameKeepsRecords
<1>5. CASE UNCHANGED vars
  <2>1. UNCHANGED <<db, ingest, policy, policyQueue>>
    BY <1>5 DEF vars, store
  <2> QED BY <2>1, SameRowsExtend, FrameKeepsRecords
<1> QED BY <1>1, <1>2, <1>3, <1>4, <1>5 DEF Next

(* What is on record at each step of either worker, for any number of scans,  *)
(* workers, raised calls and crashes.                                         *)
THEOREM RecordsHold == Spec => []RecordInvariant
  BY InitRecords, NextRecords, HandOffHolds, ResultsHold, PTL DEF Spec

(* The timeline a tenant reads tells the stages of a scan in order, although  *)
(* two kinds of workers append to it, whatever calls raised.                  *)
THEOREM TimelineTellsStages == Spec => []TimelineInOrder
<1>1. RecordInvariant => TimelineInOrder
  BY DEF RecordInvariant
<1> QED BY <1>1, RecordsHold, PTL

(*****************************************************************************)
(* Accepted scans                                                            *)
(*****************************************************************************)

LEMMA InitAccepted == Init => AcceptedIsCollected
  BY DEF Init, ServiceInit, AcceptedIsCollected

LEMMA NextAccepted == TypeOK /\ AcceptedIsCollected /\ [Next]_vars => AcceptedIsCollected'
<1> SUFFICES ASSUME TypeOK, AcceptedIsCollected, [Next]_vars
             PROVE  AcceptedIsCollected'
  OBVIOUS
<1>t. /\ api \in [Scans -> ApiPcs]
      /\ collector \in [Scans -> CollectorPcs]
      /\ crashes \in Nat
  BY DEF TypeOK, StoreTypeOK, ServiceTypeOK
<1>d. Dies => crashes' > 0
  BY <1>t DEF Dies
<1>f. ASSUME UNCHANGED <<api, collector, collectJobs>>, crashes' = crashes \/ crashes' > 0
      PROVE  AcceptedIsCollected'
  BY <1>f DEF AcceptedIsCollected
<1>1. ASSUME NEW s \in Scans, UNCHANGED <<ingest, policy>>,
             ReadIntegration(s) \/ ApiStep(s) \/ ApiCrash(s) \/ CollectorStep(s)
      PROVE  AcceptedIsCollected'
  <2>1. CASE ReadIntegration(s) \/ CreateScan(s) \/ QueueScan(s)
    <3>1. /\ \A t \in Scans : api'[t] = "done" => api[t] = "done"
          /\ UNCHANGED <<collector, collectJobs, crashes>>
      BY <2>1, <1>t DEF ReadIntegration, CreateScan, QueueScan, ApiCall, ApiGoto, store
    <3> QED BY <3>1 DEF AcceptedIsCollected
  <2>2. CASE PushJob(s)
    <3>1. /\ \A t \in Scans : api'[t] = "done" => api[t] = "done" \/ t \in collectJobs'
          /\ collectJobs \subseteq collectJobs'
          /\ UNCHANGED <<collector, crashes>>
      BY <2>2, <1>t DEF PushJob, ApiGoto
    <3> QED BY <3>1 DEF AcceptedIsCollected
  <2>3. CASE ApiCrash(s)
    BY <2>3, <1>d DEF ApiCrash, AcceptedIsCollected
  <2>4. CASE CollectorStep(s)
    <3>1. /\ \A t \in Scans : collector'[t] = collector[t] \/ collector'[t] # "idle"
          /\ \A t \in Scans : t \in collectJobs => t \in collectJobs' \/ collector'[t] # "idle"
          /\ UNCHANGED <<api, crashes>>
      BY <2>4, <1>t DEF CollectorStep, CollectorStart, CollectorFinish
    <3> QED BY <3>1 DEF AcceptedIsCollected
  <2> QED BY <1>1, <2>1, <2>2, <2>3, <2>4 DEF ApiStep
<1>2. ASSUME NEW w \in IngestWorkers, IngestStep(w) \/ IngestCrash(w),
             UNCHANGED <<api, collector, policy>>
      PROVE  AcceptedIsCollected'
  <2>1. UNCHANGED collectJobs /\ (UNCHANGED crashes \/ Dies)
    BY <1>2 DEF IngestStep, IngestPop, IngestAppendEvent, IngestSetCollecting, IngestRunRunning,
       IngestSetFailed, IngestRunFailed, IngestAppendScanCompleted, IngestSetCollected,
       IngestRunCollected, IngestMarkInvalid, IngestSetIngesting, IngestReadSnapshot,
       IngestInsertResource, IngestInsertRelationships, IngestSetInventoryReady,
       IngestAppendInventoryUpdated, IngestPublish, IngestOnError, IngestCrash, IngestCall
  <2> QED BY <1>2, <2>1, <1>d, <1>f
<1>3. ASSUME NEW w \in PolicyWorkers, PolicyStep(w) \/ PolicyCrash(w),
             UNCHANGED <<api, collector, ingest>>
      PROVE  AcceptedIsCollected'
  <2>1. UNCHANGED collectJobs /\ (UNCHANGED crashes \/ Dies)
    BY <1>3 DEF PolicyStep, PolicyPop, PolicyAppendEvaluate, PolicyCheckStatus,
       PolicySetEvaluating, PolicyStartRun, PolicyListAssets, PolicyUpsertFinding,
       PolicyCompleteRun, PolicyMapControls, PolicyMapScore, PolicyGetRun, PolicySetFinal,
       PolicyAppendPolicyCompleted, PolicyAppendComplianceUpdated, PolicyAppendScanCompleted,
       PolicyFailRun, PolicySetFailed, PolicyAppendScanFailed, PolicyCrash, PolicyCall,
       PolicyQueryRaises, store
  <2> QED BY <1>3, <2>1, <1>d, <1>f
<1>4. CASE ReactivateIntegration /\ UNCHANGED <<api, collector, ingest, policy>>
  BY <1>4, <1>f DEF ReactivateIntegration
<1>5. CASE RedisRestart
  BY <1>5, <1>d DEF RedisRestart, AcceptedIsCollected
<1>6. CASE UNCHANGED vars
  BY <1>6, <1>f DEF vars, store
<1> QED BY <1>1, <1>2, <1>3, <1>4, <1>5, <1>6 DEF Next, ServiceNext, IngestNext, PolicyNext

(* A scan answered with 201 has a job on the queue or a collector, whatever   *)
(* raised, as long as no process died and no queue was lost.                  *)
THEOREM AcceptedHasJob == Spec => []AcceptedIsCollected
  BY InitAccepted, NextAccepted, TypeCorrect, PTL DEF Spec

(*****************************************************************************)
(* The status                                                                *)
(*****************************************************************************)

Finals == {"completed", "completed_with_errors"}

(* What a write may do to a status: raised and disturbed tell whether a call *)
(* had raised before the step, and what has gone wrong after it.             *)
MayMove(old, new, raised, disturbed) ==
  \/ new = old
  \/ old = "absent" /\ new = "created"
  \/ /\ old # "absent"
     /\ old \in {"completed", "failed"} => raised
     /\ \/ new \in ALLOWED_TRANSITIONS[old]
        \/ /\ disturbed
           /\ \/ new = "failed"
              \/ old = "queued" /\ new = "collected"
              \/ old = "failed" /\ new \in {"evaluating", "completed", "completed_with_errors"}

Moved(s) ==
  /\ \A t \in Scans \ {s} : db'[t].status = db[t].status
  /\ MayMove(db[s].status, db'[s].status, faults > 0, Disturbed')

StatusStep == (\A t \in Scans : db'[t].status = db[t].status) \/ \E s \in Scans : Moved(s)

(* Calls that raise and processes that die are never uncounted.              *)
Counted ==
  /\ {faults, crashes, faults', crashes'} \subseteq Nat
  /\ faults <= faults' /\ crashes <= crashes'

Untouched(t) ==
  /\ db'[t] = db[t] /\ api'[t] = api[t] /\ collector'[t] = collector[t]
  /\ t \in collectJobs' <=> t \in collectJobs
  /\ StartedQueued(t)' <=> StartedQueued(t)
  /\ ReportQueued(t)' <=> ReportQueued(t)
  /\ (\E i \in 1..Len(policyQueue') : policyQueue'[i] = t)
       => \E i \in 1..Len(policyQueue) : policyQueue[i] = t
  /\ \A w \in IngestWorkers : ingest'[w] = ingest[w] \/ (~Holds(w, t) /\ ~Holds(w, t)')
  /\ \A w \in PolicyWorkers : policy'[w] = policy[w] \/ policy'[w].scan # t

LEMMA Grows == Counted => (faults > 0 => faults' > 0) /\ (Disturbed => Disturbed')
  BY DEF Counted, Disturbed

(* The table of platform/models/scan.py, where the pipeline uses it.         *)
LEMMA TransitionTable ==
  /\ "queued" \in ALLOWED_TRANSITIONS["created"]
  /\ {"collecting", "failed"} \subseteq ALLOWED_TRANSITIONS["queued"]
  /\ {"collected", "failed"} \subseteq ALLOWED_TRANSITIONS["collecting"]
  /\ "ingesting" \in ALLOWED_TRANSITIONS["collected"]
  /\ "inventory_ready" \in ALLOWED_TRANSITIONS["ingesting"]
  /\ "evaluating" \in ALLOWED_TRANSITIONS["inventory_ready"]
  /\ {"completed", "completed_with_errors", "failed"} \subseteq ALLOWED_TRANSITIONS["evaluating"]
  BY DEF ALLOWED_TRANSITIONS, ScanStatus

LEMMA UntouchedFits ==
  ASSUME NEW t \in Scans, ScanFits(t), Untouched(t), Counted
  PROVE  ScanFits(t)'
<1>1. /\ faults > 0 => faults' > 0
      /\ Disturbed => Disturbed'
  BY Grows
<1>2. \A w \in IngestWorkers : Holds(w, t)' => Holds(w, t) /\ ingest'[w] = ingest[w]
  BY DEF Untouched, Holds
<1>3. \A w \in IngestWorkers : Holds(w, t) => Holds(w, t)' /\ ingest'[w] = ingest[w]
  BY DEF Untouched, Holds
<1>4. WaitingFits(t)'
  BY <1>1, <1>3 DEF ScanFits, WaitingFits, Untouched
<1>5. ASSUME NEW w \in IngestWorkers
      PROVE  HeldFits(w, t)'
  <2> SUFFICES ASSUME Holds(w, t)'
               PROVE  /\ collector'[t] # "idle"
                      /\ ~StartedQueued(t)'
                      /\ IngestFits(ingest[w].msg, ingest[w].pc, db[t])'
    BY DEF HeldFits
  <2>1. /\ collector[t] # "idle" /\ ~StartedQueued(t)
        /\ IngestFits(ingest[w].msg, ingest[w].pc, db[t])
    BY <1>2 DEF ScanFits, HeldFits
  <2>2. IngestFits(ingest[w].msg, ingest[w].pc, db[t])'
    BY <2>1, <1>1, <1>2 DEF IngestFits, Report, Untouched
  <2>3. QED  BY <2>1, <2>2 DEF Untouched
<1>6. EvaluationFits(t)'
  <2>1. \A w \in PolicyWorkers : policy'[w].scan = t => PolicyFits(policy[w], db[t])'
    BY <1>1 DEF ScanFits, EvaluationFits, PolicyFits, Handed, Untouched
  <2>2. QED  BY <2>1, <1>1 DEF ScanFits, EvaluationFits, Handed, Untouched
<1>7. QED  BY <1>4, <1>5, <1>6 DEF ScanFits

(* A step that concerns one scan.                                            *)
LEMMA OneScanStep ==
  ASSUME StatusInvariant, Counted, EventsInOrder', NEW s \in Scans, ScanFits(s)',
         \A t \in Scans \ {s} : Untouched(t)
  PROVE  StatusInvariant'
  BY UntouchedFits DEF StatusInvariant

(*****************************************************************************)
(* Ingest workers                                                            *)
(*****************************************************************************)

(* What is known of the scan whose envelope the worker has in hand.          *)
LEMMA InHand ==
  ASSUME HandOffInvariant, StatusInvariant, NEW w \in IngestWorkers, ingest[w].pc # "idle"
  PROVE  /\ IngestScan(w) \in Scans
         /\ ingest[w].msg \in Events
         /\ ingest[w].pc \in {"append_event"} \cup PcsOf(ingest[w].msg.type)
         /\ IngestFits(ingest[w].msg, ingest[w].pc, db[IngestScan(w)])
         /\ collector[IngestScan(w)] # "idle" /\ ~StartedQueued(IngestScan(w))
         /\ api[IngestScan(w)] \in {"done", "error"} /\ IngestScan(w) \notin collectJobs
         /\ Report(ingest[w].msg) =>
              collector[IngestScan(w)] = "done" /\ ~ReportQueued(IngestScan(w))
         /\ ingest[w].pc # "on_error" => ~Announced(IngestScan(w))
<1> DEFINE s == IngestScan(w)
<1>1. s \in Scans /\ ingest[w].msg \in Events /\ s = ingest[w].msg.scan /\ Holds(w, s)
  BY DEF HandOffInvariant, TypeOK, IngestTypeOK, Events, IngestScan, Holds
<1>2. ingest[w].pc \in {"append_event"} \cup PcsOf(ingest[w].msg.type)
  BY DEF HandOffInvariant, IngestProgress
<1>3. /\ IngestFits(ingest[w].msg, ingest[w].pc, db[s])
      /\ collector[s] # "idle" /\ ~StartedQueued(s)
  BY <1>1 DEF StatusInvariant, ScanFits, HeldFits
<1>4. api[s] \in {"done", "error"} /\ s \notin collectJobs
  BY <1>1, <1>3 DEF HandOffInvariant, JobQueuedOnce
<1>5. Report(ingest[w].msg) => collector[s] = "done" /\ ~ReportQueued(s)
  BY <1>1 DEF HandOffInvariant, OneReport, HoldsReport, Holds
<1>6. ASSUME ingest[w].pc # "on_error", Announced(s)
      PROVE  FALSE
  <2>1. ~Report(ingest[w].msg)
    BY <1>1, <1>6 DEF HandOffInvariant, HandedOff, HoldsReport, Holds
  <2>2. Handed(db[s])
    BY <1>1, <1>6 DEF StatusInvariant, ScanFits, EvaluationFits, PolicyFits, Announced
  <2>3. QED  BY <1>3, <2>1, <2>2 DEF IngestFits, Handed
<1>7. QED  BY <1>1, <1>2, <1>3, <1>4, <1>5, <1>6

(* A worker moves on with its envelope: the other scans are untouched.       *)
IngestMove(w) ==
  /\ UNCHANGED <<api, collector, policy, collectJobs, platformEvents>>
  /\ \A v \in IngestWorkers \ {w} : ingest'[v] = ingest[v]
  /\ \A t \in Scans \ {IngestScan(w)} : db'[t] = db[t]
  /\ ingest'[w].pc = "idle" \/ ingest'[w].msg = ingest[w].msg
  /\ policyQueue' = policyQueue \/ policyQueue' = Append(policyQueue, IngestScan(w))

LEMMA IngestMoveUntouched ==
  ASSUME HandOffInvariant, StatusInvariant, NEW w \in IngestWorkers, ingest[w].pc # "idle",
         IngestMove(w)
  PROVE  /\ EventsInOrder'
         /\ \A t \in Scans \ {IngestScan(w)} : Untouched(t)
<1> DEFINE s == IngestScan(w)
<1>1. s \in Scans /\ s = ingest[w].msg.scan
  BY InHand DEF IngestScan
<1>2. EventsInOrder'
  BY DEF StatusInvariant, EventsInOrder, IngestMove
<1>3. ASSUME NEW t \in Scans \ {s}
      PROVE  Untouched(t)
  <2>1. \A v \in IngestWorkers : ingest'[v] = ingest[v] \/ (~Holds(v, t) /\ ~Holds(v, t)')
    BY <1>1 DEF IngestMove, Holds
  <2>2. (\E i \in 1..Len(policyQueue') : policyQueue'[i] = t)
          => \E i \in 1..Len(policyQueue) : policyQueue[i] = t
    <3>1. policyQueue \in Seq(Scans)
      BY DEF HandOffInvariant, TypeOK, StoreTypeOK
    <3>2. CASE policyQueue' = Append(policyQueue, s)
      BY <1>1, <3>1, <3>2, AppendElements
    <3>3. QED  BY <3>2 DEF IngestMove
  <2>3. (StartedQueued(t)' <=> StartedQueued(t)) /\ (ReportQueued(t)' <=> ReportQueued(t))
    BY DEF IngestMove, StartedQueued, ReportQueued
  <2>4. QED  BY <2>1, <2>2, <2>3 DEF IngestMove, Untouched
<1>4. QED  BY <1>2, <1>3

(* ... and its own fits, unless the worker is in its except branch.          *)
LEMMA IngestWorkFits ==
  ASSUME OneIngestWorker, HandOffInvariant, StatusInvariant, Counted,
         NEW w \in IngestWorkers, ingest[w].pc \notin {"idle", "on_error"}, IngestMove(w),
         NEW s \in Scans, s = IngestScan(w),
         ingest'[w].pc # "idle" => IngestFits(ingest[w].msg, ingest[w].pc, db[s])',
         db'[s].status \notin Finals,
         ~Report(ingest[w].msg) =>
           \/ db'[s].status = "collecting"
           \/ db'[s].status = "queued" /\ (ingest'[w].pc # "idle" \/ Disturbed'),
         policyQueue' # policyQueue =>
           db'[s].status = "inventory_ready" /\ db'[s].run \in CollectionStatuses
  PROVE  StatusInvariant'
<1>1. /\ s = ingest[w].msg.scan
      /\ collector[s] # "idle" /\ ~StartedQueued(s)
      /\ api[s] \in {"done", "error"} /\ s \notin collectJobs
      /\ Report(ingest[w].msg) => collector[s] = "done" /\ ~ReportQueued(s)
      /\ ~Announced(s)
  BY InHand DEF IngestScan
<1>2. ~StartedQueued(s)' /\ (ReportQueued(s)' <=> ReportQueued(s))
  BY <1>1 DEF IngestMove, StartedQueued, ReportQueued
<1>3. WaitingFits(s)'
  <2>1. ASSUME collector[s] = "running" \/ ReportQueued(s)
        PROVE  \/ db'[s].status = "collecting"
               \/ /\ db'[s].status = "queued"
                  /\ Disturbed' \/ (Holds(w, s)' /\ ~Report(ingest'[w].msg))
    <3>1. ~Report(ingest[w].msg)
      BY <1>1, <2>1
    <3>2. ingest'[w].pc # "idle" => Holds(w, s)' /\ ~Report(ingest'[w].msg)
      BY <1>1, <3>1 DEF IngestMove, Holds
    <3>3. QED  BY <3>1, <3>2
  <2>2. QED  BY <1>1, <1>2, <2>1 DEF WaitingFits, IngestMove
<1>4. ASSUME NEW v \in IngestWorkers
      PROVE  HeldFits(v, s)'
  <2>1. v = w
    BY DEF OneIngestWorker
  <2>2. Holds(w, s)' => IngestFits(ingest[w].msg, ingest[w].pc, db[s])'
    BY DEF Holds
  <2>3. QED  BY <1>1, <1>2, <2>1, <2>2 DEF HeldFits, IngestMove
<1>5. EvaluationFits(s)'
  <2>1. (\E i \in 1..Len(policyQueue') : policyQueue'[i] = s) => policyQueue' # policyQueue
    BY <1>1 DEF Announced
  <2>2. \A v \in PolicyWorkers : policy'[v].scan # s
    BY <1>1 DEF Announced, IngestMove
  <2>3. QED  BY <2>1, <2>2 DEF EvaluationFits, Handed, Finals
<1>6. ScanFits(s)'
  BY <1>3, <1>4, <1>5 DEF ScanFits
<1>7. QED  BY <1>1, <1>6, IngestMoveUntouched, OneScanStep

(* An envelope in hand keeps the scan from its end.                          *)
LEMMA NotFinalInHand ==
  ASSUME NEW e \in Events, NEW row, NEW pc \in {"append_event"} \cup PcsOf(e.type),
         pc # "on_error", IngestFits(e, pc, row)
  PROVE  row.status \notin Finals /\ row.status # "absent"
<1>1. CASE e.type = "collection.started"
  BY <1>1 DEF IngestFits, Report, Finals
<1>2. CASE e.type = "collection.failed"
  BY <1>2 DEF IngestFits, Report, Finals, PcsOf
<1>3. CASE e.type = "collection.completed"
  <2>1. pc \in {"append_event", "set_collected", "run_collected", "mark_invalid", "set_ingesting",
                "read_snapshot", "insert_resources", "insert_relationships", "set_inventory_ready",
                "append_inventory_updated", "publish"}
    BY <1>3 DEF PcsOf
  <2>2. QED  BY <1>3, <2>1 DEF IngestFits, Report, Finals
<1>4. QED  BY <1>1, <1>2, <1>3 DEF Events

(* A step that writes no status.                                             *)
LEMMA SameStatusStep ==
  ASSUME \A t \in Scans : db'[t].status = db[t].status
  PROVE  StatusStep
  BY DEF StatusStep

(* A statement of an ingest worker, from its row and its next step.          *)
LEMMA IngestCallFits ==
  ASSUME OneIngestWorker, HandOffInvariant, StatusInvariant,
         NEW w \in IngestWorkers, NEW s \in Scans, s = IngestScan(w),
         NEW at \in IngestPcs \ {"idle", "on_error"}, NEW row \in Rows,
         NEW next \in IngestPcs, NEW handler \in {"idle", "on_error"},
         IngestCall(w, at, row, next, handler),
         handler = "on_error" => ingest[w].msg.type = "collection.completed",
         row.status \notin Finals \cup {"absent"},
         next # "idle" => IngestFits(ingest[w].msg, next, row),
         ~Report(ingest[w].msg) => row.status = "collecting" \/ (row.status = "queued" /\ next # "idle"),
         MayMove(db[s].status, row.status, faults > 0, Disturbed),
         UNCHANGED <<api, collector, policy>>
  PROVE  StatusInvariant' /\ StatusStep
<1>t. TypeOK /\ faults \in Nat /\ crashes \in Nat
  BY DEF HandOffInvariant, TypeOK, StoreTypeOK
<1>c. /\ ingest[w].pc = at /\ ingest[w].msg \in Events
      /\ UNCHANGED <<collectJobs, platformEvents, policyQueue, crashes>>
      /\ \A v \in IngestWorkers \ {w} : ingest'[v] = ingest[v]
      /\ \A t \in Scans \ {s} : db'[t] = db[t]
  <2>1. at \in IngestPcs \ {"idle"} /\ handler \in IngestPcs
    BY DEF IngestPcs
  <2>2. IngestCall(w, at, row, next, handler)
    OBVIOUS
  <2>3. UNCHANGED crashes
    BY DEF IngestCall
  <2>4. QED  BY <1>t, <2>1, <2>2, <2>3, IngestCallEffect
<1>h. /\ IngestFits(ingest[w].msg, at, db[s]) /\ at \in {"append_event"} \cup PcsOf(ingest[w].msg.type)
      /\ db[s].status \notin Finals \cup {"absent"}
  BY <1>c, InHand, NotFinalInHand
<1>o. \/ /\ db'[s] = row /\ faults' = faults
         /\ next = "idle" => ingest'[w].pc = "idle"
         /\ next # "idle" => ingest'[w].pc = next /\ ingest'[w].msg = ingest[w].msg
      \/ /\ db'[s] \in {db[s], row} /\ faults' = faults + 1
         /\ handler = "idle" => ingest'[w].pc = "idle"
         /\ handler = "on_error" => ingest'[w].pc = "on_error" /\ ingest'[w].msg = ingest[w].msg
  <2>1. ASSUME NEW pc \in IngestPcs, IngestGoto(w, pc)
        PROVE  /\ pc = "idle" => ingest'[w].pc = "idle"
               /\ pc # "idle" => ingest'[w].pc = pc /\ ingest'[w].msg = ingest[w].msg
    BY <1>t, <2>1 DEF IngestGoto, TypeOK, IngestTypeOK, IngestIdle
  <2>2. Write(s, row) => db'[s] = row
    BY <1>t DEF Write, TypeOK, StoreTypeOK
  <2>3. CASE Write(s, row) /\ IngestGoto(w, next) /\ UNCHANGED faults
    BY <2>1, <2>2, <2>3
  <2>4. CASE Raises /\ WriteOrNot(s, row) /\ IngestGoto(w, handler)
    BY <2>1, <2>2, <2>4 DEF Raises, WriteOrNot, IngestPcs
  <2>5. QED  BY <2>3, <2>4 DEF IngestCall
<1>g. Counted /\ (faults > 0 => faults' > 0) /\ (Disturbed => Disturbed')
  BY <1>t, <1>c, <1>o DEF Counted, Disturbed
<1>1. IngestMove(w)
  BY <1>c, <1>o DEF IngestMove
<1>2. ASSUME ingest'[w].pc # "idle"
      PROVE  IngestFits(ingest[w].msg, ingest[w].pc, db[s])'
  <2>1. CASE ingest'[w].pc = next /\ next # "idle" /\ db'[s] = row
    <3>1. IngestFits(ingest[w].msg, next, row) /\ ingest'[w].msg = ingest[w].msg
      BY <1>1, <1>2, <2>1 DEF IngestMove
    <3>2. QED  BY <1>g, <2>1, <3>1 DEF IngestFits, Report
  <2>2. CASE ingest'[w].pc = "on_error" /\ handler = "on_error" /\ faults' = faults + 1
    <3>1. db'[s].status # "absent" /\ faults' > 0
      BY <1>t, <1>h, <1>o, <2>2
    <3>2. QED  BY <1>1, <1>2, <2>2, <3>1 DEF IngestFits, IngestMove, Report
  <2>3. QED  BY <1>2, <1>o, <2>1, <2>2
<1>3. /\ db'[s].status \notin Finals
      /\ ~Report(ingest[w].msg) =>
           \/ db'[s].status = "collecting"
           \/ db'[s].status = "queued" /\ (ingest'[w].pc # "idle" \/ Disturbed')
  <2>1. ~Report(ingest[w].msg) => db[s].status \in {"collecting", "queued"}
    BY <1>h DEF IngestFits
  <2>2. faults' = faults + 1 => Disturbed'
    BY <1>t DEF Disturbed
  <2>3. QED  BY <1>h, <1>o, <2>1, <2>2
<1>4. StatusInvariant'
  BY <1>c, <1>g, <1>1, <1>2, <1>3, IngestWorkFits
<1>5. MayMove(db[s].status, db'[s].status, faults > 0, Disturbed')
  BY <1>o, <1>g DEF MayMove
<1>6. QED  BY <1>4, <1>5, <1>c DEF StatusStep, Moved

(* The database statements of handle_event.                                  *)
LEMMA IngestCallsKeepStatus ==
  ASSUME OneIngestWorker, HandOffInvariant, StatusInvariant, UNCHANGED <<api, collector, policy>>,
         NEW w \in IngestWorkers, NEW s \in Scans, s = IngestScan(w), ingest[w].pc # "idle",
         \/ IngestAppendEvent(w) \/ IngestSetCollecting(w) \/ IngestRunRunning(w)
         \/ IngestSetFailed(w) \/ IngestRunFailed(w) \/ IngestAppendScanCompleted(w)
         \/ IngestSetCollected(w) \/ IngestRunCollected(w) \/ IngestSetIngesting(w)
         \/ IngestInsertRelationships(w) \/ IngestSetInventoryReady(w)
         \/ IngestAppendInventoryUpdated(w)
  PROVE  StatusInvariant' /\ StatusStep
<1> DEFINE e == ingest[w].msg
<1>h. /\ e \in Events /\ IngestFits(e, ingest[w].pc, db[s]) /\ db[s] \in Rows
      /\ ingest[w].pc \in {"append_event"} \cup PcsOf(e.type)
  BY InHand DEF HandOffInvariant, TypeOK, StoreTypeOK
<1>e. e.status \in CollectionStatuses /\ e.snap \in SUBSET Resources
      /\ e.type \in {"collection.started", "collection.failed", "collection.completed"}
  BY <1>h DEF Events
<1>1. CASE IngestAppendEvent(w)
  <2> DEFINE row  == append_event(s, ingest[w].msg.type)
             next == FirstStep(ingest[w].msg.type)
  <2>1. ingest[w].pc = "append_event" /\ IngestCall(w, "append_event", row, next, "idle")
    BY <1>1 DEF IngestAppendEvent, IngestCall
  <2>2. IngestFits(e, "append_event", db[s])
    BY <1>h, <2>1
  <2>3. /\ row \in Rows /\ row.status = db[s].status /\ row.run = db[s].run
        /\ next \in IngestPcs
    BY <1>h, <1>e DEF append_event, Rows, TimelineEvents, IngestPcs, FirstStep
  <2>4. IngestFits(e, next, row)
    BY <1>e, <2>2, <2>3 DEF IngestFits, Report, FirstStep
  <2>5. /\ MayMove(db[s].status, row.status, faults > 0, Disturbed)
        /\ row.status \notin Finals \cup {"absent"}
        /\ ~Report(e) => row.status = "collecting" \/ (row.status = "queued" /\ next # "idle")
    BY <1>e, <2>2, <2>3, TransitionTable DEF IngestFits, Report, MayMove, Finals, FirstStep
  <2> HIDE DEF row, next
  <2>6. QED  BY <2>1, <2>2, <2>3, <2>4, <2>5, IngestCallFits DEF IngestPcs
<1>2. CASE IngestSetCollecting(w)
  <2> DEFINE row  == update_status(s, "collecting")
             next == "run_running"
  <2>1. ingest[w].pc = "set_collecting" /\ IngestCall(w, "set_collecting", row, next, "idle")
    BY <1>2 DEF IngestSetCollecting, IngestCall
  <2>2. e.type = "collection.started" /\ IngestFits(e, "set_collecting", db[s])
    BY <1>h, <1>e, <2>1 DEF PcsOf
  <2>3. /\ row \in Rows /\ row.status = "collecting" /\ row.run = db[s].run
        /\ next \in IngestPcs
    BY <1>h DEF update_status, Rows, ScanStatus, IngestPcs
  <2>4. IngestFits(e, next, row)
    BY <1>e, <2>2, <2>3 DEF IngestFits, Report
  <2>5. /\ MayMove(db[s].status, row.status, faults > 0, Disturbed)
        /\ row.status \notin Finals \cup {"absent"}
        /\ ~Report(e) => row.status = "collecting" \/ (row.status = "queued" /\ next # "idle")
    BY <1>e, <2>2, <2>3, TransitionTable DEF IngestFits, Report, MayMove, Finals
  <2> HIDE DEF row, next
  <2>6. QED  BY <2>1, <2>2, <2>3, <2>4, <2>5, IngestCallFits DEF IngestPcs
<1>3. CASE IngestRunRunning(w)
  <2> DEFINE row  == [db[s] EXCEPT !.run = "running"]
             next == "idle"
  <2>1. ingest[w].pc = "run_running" /\ IngestCall(w, "run_running", row, next, "idle")
    BY <1>3 DEF IngestRunRunning, IngestCall
  <2>2. e.type = "collection.started" /\ IngestFits(e, "run_running", db[s])
    BY <1>h, <1>e, <2>1 DEF PcsOf
  <2>3. /\ row \in Rows /\ row.status = db[s].status /\ row.run = "running"
        /\ next \in IngestPcs
    BY <1>h, <1>e DEF Rows, IngestPcs
  <2>5. /\ MayMove(db[s].status, row.status, faults > 0, Disturbed)
        /\ row.status \notin Finals \cup {"absent"}
        /\ ~Report(e) => row.status = "collecting" \/ (row.status = "queued" /\ next # "idle")
    BY <1>e, <2>2, <2>3, TransitionTable DEF IngestFits, Report, MayMove, Finals
  <2> HIDE DEF row, next
  <2>6. QED  BY <2>1, <2>2, <2>3, <2>5, IngestCallFits DEF IngestPcs, next
<1>4. CASE IngestSetFailed(w)
  <2> DEFINE row  == update_status(s, "failed")
             next == "run_failed"
  <2>1. ingest[w].pc = "set_failed" /\ IngestCall(w, "set_failed", row, next, "idle")
    BY <1>4 DEF IngestSetFailed, IngestCall
  <2>2. e.type = "collection.failed" /\ IngestFits(e, "set_failed", db[s])
    BY <1>h, <1>e, <2>1 DEF PcsOf
  <2>3. /\ row \in Rows /\ row.status = "failed" /\ row.run = db[s].run
        /\ next \in IngestPcs
    BY <1>h DEF update_status, Rows, ScanStatus, IngestPcs
  <2>4. IngestFits(e, next, row)
    BY <1>e, <2>2, <2>3 DEF IngestFits, Report
  <2>5. /\ MayMove(db[s].status, row.status, faults > 0, Disturbed)
        /\ row.status \notin Finals \cup {"absent"}
        /\ ~Report(e) => row.status = "collecting" \/ (row.status = "queued" /\ next # "idle")
    BY <1>e, <2>2, <2>3, TransitionTable DEF IngestFits, Report, MayMove, Finals
  <2> HIDE DEF row, next
  <2>6. QED  BY <2>1, <2>2, <2>3, <2>4, <2>5, IngestCallFits DEF IngestPcs
<1>5. CASE IngestRunFailed(w)
  <2> DEFINE row  == [db[s] EXCEPT !.run = "failed"]
             next == "mark_invalid"
  <2>1. ingest[w].pc = "run_failed" /\ IngestCall(w, "run_failed", row, next, "idle")
    BY <1>5 DEF IngestRunFailed, IngestCall
  <2>2. e.type = "collection.failed" /\ IngestFits(e, "run_failed", db[s])
    BY <1>h, <1>e, <2>1 DEF PcsOf
  <2>3. /\ row \in Rows /\ row.status = db[s].status /\ row.run = "failed"
        /\ next \in IngestPcs
    BY <1>h, <1>e DEF Rows, IngestPcs
  <2>4. IngestFits(e, next, row)
    BY <1>e, <2>2, <2>3 DEF IngestFits, Report
  <2>5. /\ MayMove(db[s].status, row.status, faults > 0, Disturbed)
        /\ row.status \notin Finals \cup {"absent"}
        /\ ~Report(e) => row.status = "collecting" \/ (row.status = "queued" /\ next # "idle")
    BY <1>e, <2>2, <2>3, TransitionTable DEF IngestFits, Report, MayMove, Finals
  <2> HIDE DEF row, next
  <2>6. QED  BY <2>1, <2>2, <2>3, <2>4, <2>5, IngestCallFits DEF IngestPcs
<1>6. CASE IngestAppendScanCompleted(w)
  <2> DEFINE row  == append_event(s, "scan.completed:failed")
             next == "idle"
  <2>1. ingest[w].pc = "append_scan_completed" /\ IngestCall(w, "append_scan_completed", row, next, "idle")
    BY <1>6 DEF IngestAppendScanCompleted, IngestCall
  <2>2. e.type = "collection.failed" /\ IngestFits(e, "append_scan_completed", db[s])
    BY <1>h, <1>e, <2>1 DEF PcsOf
  <2>3. /\ row \in Rows /\ row.status = db[s].status /\ row.run = db[s].run
        /\ next \in IngestPcs
    BY <1>h, <1>e DEF append_event, Rows, TimelineEvents, IngestPcs
  <2>5. /\ MayMove(db[s].status, row.status, faults > 0, Disturbed)
        /\ row.status \notin Finals \cup {"absent"}
        /\ ~Report(e) => row.status = "collecting" \/ (row.status = "queued" /\ next # "idle")
    BY <1>e, <2>2, <2>3, TransitionTable DEF IngestFits, Report, MayMove, Finals
  <2> HIDE DEF row, next
  <2>6. QED  BY <2>1, <2>2, <2>3, <2>5, IngestCallFits DEF IngestPcs, next
<1>7. CASE IngestSetCollected(w)
  <2> DEFINE row  == update_status(s, "collected")
             next == "run_collected"
  <2>1. ingest[w].pc = "set_collected" /\ IngestCall(w, "set_collected", row, next, "on_error")
    BY <1>7 DEF IngestSetCollected, IngestCall
  <2>2. e.type = "collection.completed" /\ IngestFits(e, "set_collected", db[s])
    BY <1>h, <1>e, <2>1 DEF PcsOf
  <2>3. /\ row \in Rows /\ row.status = "collected" /\ row.run = db[s].run
        /\ next \in IngestPcs
    BY <1>h DEF update_status, Rows, ScanStatus, IngestPcs
  <2>4. IngestFits(e, next, row)
    BY <1>e, <2>2, <2>3 DEF IngestFits, Report
  <2>5. /\ MayMove(db[s].status, row.status, faults > 0, Disturbed)
        /\ row.status \notin Finals \cup {"absent"}
        /\ ~Report(e) => row.status = "collecting" \/ (row.status = "queued" /\ next # "idle")
    BY <1>e, <2>2, <2>3, TransitionTable DEF IngestFits, Report, MayMove, Finals
  <2> HIDE DEF row, next
  <2>6. QED  BY <2>1, <2>2, <2>3, <2>4, <2>5, IngestCallFits DEF IngestPcs
<1>8. CASE IngestRunCollected(w)
  <2> DEFINE row  == [db[s] EXCEPT !.run = ingest[w].msg.status, !.manifest = ingest[w].msg.snap]
             next == "mark_invalid"
  <2>1. ingest[w].pc = "run_collected" /\ IngestCall(w, "run_collected", row, next, "on_error")
    BY <1>8 DEF IngestRunCollected, IngestCall
  <2>2. e.type = "collection.completed" /\ IngestFits(e, "run_collected", db[s])
    BY <1>h, <1>e, <2>1 DEF PcsOf
  <2>3. /\ row \in Rows /\ row.status = db[s].status /\ row.run = e.status
        /\ next \in IngestPcs
    BY <1>h, <1>e DEF Rows, IngestPcs
  <2>4. IngestFits(e, next, row)
    BY <1>e, <2>2, <2>3 DEF IngestFits, Report
  <2>5. /\ MayMove(db[s].status, row.status, faults > 0, Disturbed)
        /\ row.status \notin Finals \cup {"absent"}
        /\ ~Report(e) => row.status = "collecting" \/ (row.status = "queued" /\ next # "idle")
    BY <1>e, <2>2, <2>3, TransitionTable DEF IngestFits, Report, MayMove, Finals
  <2> HIDE DEF row, next
  <2>6. QED  BY <2>1, <2>2, <2>3, <2>4, <2>5, IngestCallFits DEF IngestPcs
<1>9. CASE IngestSetIngesting(w)
  <2> DEFINE row  == update_status(s, "ingesting")
             next == "read_snapshot"
  <2>1. ingest[w].pc = "set_ingesting" /\ IngestCall(w, "set_ingesting", row, next, "on_error")
    BY <1>9 DEF IngestSetIngesting, IngestCall
  <2>2. e.type = "collection.completed" /\ IngestFits(e, "set_ingesting", db[s])
    BY <1>h, <1>e, <2>1 DEF PcsOf
  <2>3. /\ row \in Rows /\ row.status = "ingesting" /\ row.run = db[s].run
        /\ next \in IngestPcs
    BY <1>h DEF update_status, Rows, ScanStatus, IngestPcs
  <2>4. IngestFits(e, next, row)
    BY <1>e, <2>2, <2>3 DEF IngestFits, Report
  <2>5. /\ MayMove(db[s].status, row.status, faults > 0, Disturbed)
        /\ row.status \notin Finals \cup {"absent"}
        /\ ~Report(e) => row.status = "collecting" \/ (row.status = "queued" /\ next # "idle")
    BY <1>e, <2>2, <2>3, TransitionTable DEF IngestFits, Report, MayMove, Finals
  <2> HIDE DEF row, next
  <2>6. QED  BY <2>1, <2>2, <2>3, <2>4, <2>5, IngestCallFits DEF IngestPcs
<1>10. CASE IngestInsertRelationships(w)
  <2> DEFINE row  == [db[s] EXCEPT !.relationships = TRUE]
             next == "set_inventory_ready"
  <2>1. ingest[w].pc = "insert_relationships" /\ IngestCall(w, "insert_relationships", row, next, "on_error")
    BY <1>10 DEF IngestInsertRelationships, IngestCall
  <2>2. e.type = "collection.completed" /\ IngestFits(e, "insert_relationships", db[s])
    BY <1>h, <1>e, <2>1 DEF PcsOf
  <2>3. /\ row \in Rows /\ row.status = db[s].status /\ row.run = db[s].run
        /\ next \in IngestPcs
    BY <1>h, <1>e DEF Rows, IngestPcs
  <2>4. IngestFits(e, next, row)
    BY <1>e, <2>2, <2>3 DEF IngestFits, Report
  <2>5. /\ MayMove(db[s].status, row.status, faults > 0, Disturbed)
        /\ row.status \notin Finals \cup {"absent"}
        /\ ~Report(e) => row.status = "collecting" \/ (row.status = "queued" /\ next # "idle")
    BY <1>e, <2>2, <2>3, TransitionTable DEF IngestFits, Report, MayMove, Finals
  <2> HIDE DEF row, next
  <2>6. QED  BY <2>1, <2>2, <2>3, <2>4, <2>5, IngestCallFits DEF IngestPcs
<1>11. CASE IngestSetInventoryReady(w)
  <2> DEFINE row  == update_status(s, "inventory_ready")
             next == "append_inventory_updated"
  <2>1. ingest[w].pc = "set_inventory_ready" /\ IngestCall(w, "set_inventory_ready", row, next, "on_error")
    BY <1>11 DEF IngestSetInventoryReady, IngestCall
  <2>2. e.type = "collection.completed" /\ IngestFits(e, "set_inventory_ready", db[s])
    BY <1>h, <1>e, <2>1 DEF PcsOf
  <2>3. /\ row \in Rows /\ row.status = "inventory_ready" /\ row.run = db[s].run
        /\ next \in IngestPcs
    BY <1>h DEF update_status, Rows, ScanStatus, IngestPcs
  <2>4. IngestFits(e, next, row)
    BY <1>e, <2>2, <2>3 DEF IngestFits, Report
  <2>5. /\ MayMove(db[s].status, row.status, faults > 0, Disturbed)
        /\ row.status \notin Finals \cup {"absent"}
        /\ ~Report(e) => row.status = "collecting" \/ (row.status = "queued" /\ next # "idle")
    BY <1>e, <2>2, <2>3, TransitionTable DEF IngestFits, Report, MayMove, Finals
  <2> HIDE DEF row, next
  <2>6. QED  BY <2>1, <2>2, <2>3, <2>4, <2>5, IngestCallFits DEF IngestPcs
<1>12. CASE IngestAppendInventoryUpdated(w)
  <2> DEFINE row  == append_event(s, "inventory.updated")
             next == "publish"
  <2>1. ingest[w].pc = "append_inventory_updated" /\ IngestCall(w, "append_inventory_updated", row, next, "on_error")
    BY <1>12 DEF IngestAppendInventoryUpdated, IngestCall
  <2>2. e.type = "collection.completed" /\ IngestFits(e, "append_inventory_updated", db[s])
    BY <1>h, <1>e, <2>1 DEF PcsOf
  <2>3. /\ row \in Rows /\ row.status = db[s].status /\ row.run = db[s].run
        /\ next \in IngestPcs
    BY <1>h, <1>e DEF append_event, Rows, TimelineEvents, IngestPcs
  <2>4. IngestFits(e, next, row)
    BY <1>e, <2>2, <2>3 DEF IngestFits, Report
  <2>5. /\ MayMove(db[s].status, row.status, faults > 0, Disturbed)
        /\ row.status \notin Finals \cup {"absent"}
        /\ ~Report(e) => row.status = "collecting" \/ (row.status = "queued" /\ next # "idle")
    BY <1>e, <2>2, <2>3, TransitionTable DEF IngestFits, Report, MayMove, Finals
  <2> HIDE DEF row, next
  <2>6. QED  BY <2>1, <2>2, <2>3, <2>4, <2>5, IngestCallFits DEF IngestPcs
<1>13. QED  BY <1>1, <1>2, <1>3, <1>4, <1>5, <1>6, <1>7, <1>8, <1>9, <1>10, <1>11, <1>12

(* A step that leaves status and collection run of the scan in hand.         *)
LEMMA IngestQuietFits ==
  ASSUME OneIngestWorker, HandOffInvariant, StatusInvariant, Counted,
         NEW w \in IngestWorkers, NEW s \in Scans, s = IngestScan(w),
         ingest[w].pc \notin {"idle", "on_error"}, IngestMove(w),
         db'[s].status = db[s].status, db'[s].run = db[s].run,
         \/ ingest'[w].pc = "idle" /\ (Report(ingest[w].msg) \/ Disturbed')
         \/ ingest'[w].pc = "on_error" /\ Report(ingest[w].msg) /\ faults' > 0
         \/ ingest'[w].pc # "idle" /\ IngestFits(ingest[w].msg, ingest'[w].pc, db[s]),
         policyQueue' # policyQueue => ingest[w].pc = "publish"
  PROVE  StatusInvariant' /\ StatusStep
<1>1. /\ ingest[w].msg \in Events
      /\ ingest[w].pc \in {"append_event"} \cup PcsOf(ingest[w].msg.type)
      /\ IngestFits(ingest[w].msg, ingest[w].pc, db[s])
  BY InHand
<1>2. db[s].status \notin Finals /\ db[s].status # "absent"
  BY <1>1, NotFinalInHand
<1>3. (faults > 0 => faults' > 0) /\ (Disturbed => Disturbed')
  BY Grows
<1>4. ASSUME ingest'[w].pc # "idle"
      PROVE  IngestFits(ingest[w].msg, ingest[w].pc, db[s])'
  <2>1. ingest'[w].msg = ingest[w].msg
    BY <1>4 DEF IngestMove
  <2>2. CASE ingest'[w].pc = "on_error" /\ Report(ingest[w].msg) /\ faults' > 0
    BY <1>2, <2>1, <2>2 DEF IngestFits, Report
  <2>3. CASE IngestFits(ingest[w].msg, ingest'[w].pc, db[s])
    BY <1>3, <2>1, <2>3 DEF IngestFits, Report
  <2>4. QED  BY <1>4, <2>2, <2>3
<1>5. ~Report(ingest[w].msg) =>
        \/ db'[s].status = "collecting"
        \/ db'[s].status = "queued" /\ (ingest'[w].pc # "idle" \/ Disturbed')
  BY <1>1 DEF IngestFits
<1>6. ASSUME policyQueue' # policyQueue
      PROVE  db'[s].status = "inventory_ready" /\ db'[s].run \in CollectionStatuses
  <2>1. ingest[w].pc = "publish" /\ ingest[w].msg.status \in CollectionStatuses
    BY <1>1, <1>6 DEF Events
  <2>2. ingest[w].msg.type = "collection.completed"
    BY <1>1, <2>1 DEF PcsOf, Events
  <2>3. QED  BY <1>1, <2>1, <2>2 DEF IngestFits
<1>7. StatusInvariant'
  BY <1>2, <1>4, <1>5, <1>6, IngestWorkFits
<1>8. StatusStep
  BY SameStatusStep DEF IngestMove
<1>9. QED  BY <1>7, <1>8

(* The except branch: the scan may have been handed over already.            *)
LEMMA OnErrorFits ==
  ASSUME OneIngestWorker, HandOffInvariant, StatusInvariant, Counted,
         NEW w \in IngestWorkers, NEW s \in Scans, s = IngestScan(w),
         ingest[w].pc = "on_error", ingest'[w].pc = "idle", IngestMove(w), UNCHANGED policyQueue,
         db'[s].run = db[s].run, db'[s].status \in {db[s].status, "failed"}
  PROVE  StatusInvariant' /\ StatusStep
<1>1. /\ ingest[w].msg \in Events
      /\ IngestFits(ingest[w].msg, "on_error", db[s])
      /\ "on_error" \in {"append_event"} \cup PcsOf(ingest[w].msg.type)
      /\ ~StartedQueued(s) /\ s \notin collectJobs /\ api[s] \in {"done", "error"}
  BY InHand
<1>2. Report(ingest[w].msg)
  BY <1>1 DEF PcsOf, Events, Report
<1>3. collector[s] = "done" /\ ~ReportQueued(s) /\ db[s].status # "absent" /\ faults > 0
  BY <1>1, <1>2, InHand DEF IngestFits
<1>4. faults' > 0 /\ Disturbed'
  BY <1>3, Grows DEF Disturbed
<1>5. ~StartedQueued(s)' /\ ~ReportQueued(s)'
  BY <1>1, <1>3 DEF IngestMove, StartedQueued, ReportQueued
<1>6. WaitingFits(s)'
  BY <1>1, <1>3, <1>5 DEF WaitingFits, IngestMove
<1>7. \A v \in IngestWorkers : HeldFits(v, s)'
  BY DEF OneIngestWorker, HeldFits, Holds
<1>8. EvaluationFits(s)'
  <2>1. EvaluationFits(s)
    BY DEF StatusInvariant, ScanFits
  <2>2. Handed(db[s]) => Handed(db[s])'
    BY DEF Handed
  <2>3. \A v \in PolicyWorkers : policy[v].scan = s => PolicyFits(policy[v], db[s])'
    BY <1>3, <1>4, <2>1, <2>2 DEF EvaluationFits, PolicyFits, IngestMove
  <2>4. QED  BY <1>3, <1>4, <2>1, <2>2, <2>3 DEF EvaluationFits, IngestMove
<1>9. StatusInvariant'
  <2>1. ScanFits(s)'
    BY <1>6, <1>7, <1>8 DEF ScanFits
  <2>2. QED  BY <2>1, IngestMoveUntouched, OneScanStep
<1>10. StatusStep
  BY <1>3, <1>4 DEF StatusStep, Moved, MayMove, IngestMove
<1>11. QED  BY <1>9, <1>10

LEMMA IngestGotoMoves ==
  ASSUME IngestTypeOK, NEW w \in IngestWorkers, NEW pc \in IngestPcs, IngestGoto(w, pc)
  PROVE  /\ pc = "idle" => ingest'[w].pc = "idle"
         /\ pc # "idle" => ingest'[w].pc = pc /\ ingest'[w].msg = ingest[w].msg
         /\ \A v \in IngestWorkers \ {w} : ingest'[v] = ingest[v]
  BY DEF IngestTypeOK, IngestGoto, IngestIdle

(* ... and what else it does, or has done to it.                             *)
LEMMA IngestRestKeepsStatus ==
  ASSUME OneIngestWorker, HandOffInvariant, StatusInvariant, UNCHANGED <<api, collector, policy>>,
         NEW w \in IngestWorkers, NEW s \in Scans, s = IngestScan(w), ingest[w].pc # "idle",
         \/ IngestMarkInvalid(w) \/ IngestReadSnapshot(w) \/ IngestInsertResource(w)
         \/ IngestPublish(w) \/ IngestOnError(w) \/ IngestCrash(w)
  PROVE  StatusInvariant' /\ StatusStep
<1> DEFINE e == ingest[w].msg
<1>t. /\ IngestTypeOK /\ db \in [Scans -> Rows] /\ faults \in Nat /\ crashes \in Nat
  BY DEF HandOffInvariant, TypeOK, StoreTypeOK
<1>h. /\ e \in Events /\ IngestFits(e, ingest[w].pc, db[s])
      /\ ingest[w].pc \in {"append_event"} \cup PcsOf(e.type)
  BY InHand
<1>e. e.type \in {"collection.started", "collection.failed", "collection.completed"}
  BY <1>h DEF Events
<1>r. Raises => faults' = faults + 1
  BY DEF Raises
<1>f. /\ faults' \in {faults, faults + 1}
      /\ crashes' \in {crashes, crashes + 1}
  <2>1. CASE IngestMarkInvalid(w) \/ IngestPublish(w) \/ IngestReadSnapshot(w)
    BY <1>r, <2>1 DEF IngestMarkInvalid, IngestPublish, IngestReadSnapshot
  <2>2. CASE IngestInsertResource(w)
    BY <1>r, <2>2 DEF IngestInsertResource
  <2>3. CASE IngestOnError(w)
    BY <1>r, <2>3 DEF IngestOnError, IngestCall
  <2>4. CASE IngestCrash(w)
    BY <2>4 DEF IngestCrash, Dies
  <2>5. QED  BY <2>1, <2>2, <2>3, <2>4
<1>c. Counted
  BY <1>t, <1>f DEF Counted
<1>u. ASSUME ingest[w].pc # "on_error", UNCHANGED <<collectJobs, platformEvents>>,
             policyQueue' = policyQueue
               \/ (ingest[w].pc = "publish" /\ policyQueue' = Append(policyQueue, s)),
             \A t \in Scans \ {s} : db'[t] = db[t],
             db'[s].status = db[s].status, db'[s].run = db[s].run,
             \A v \in IngestWorkers \ {w} : ingest'[v] = ingest[v],
             \/ ingest'[w].pc = "idle" /\ (Report(e) \/ Disturbed')
             \/ ingest'[w].pc = "on_error" /\ ingest'[w].msg = e /\ Report(e) /\ faults' > 0
             \/ /\ ingest'[w].pc # "idle" /\ ingest'[w].msg = e
                /\ IngestFits(e, ingest'[w].pc, db[s])
      PROVE  StatusInvariant' /\ StatusStep
  <2>1. IngestMove(w)
    BY <1>u DEF IngestMove
  <2>2. QED  BY <2>1, <1>u, <1>c, IngestQuietFits
<1>1. CASE IngestMarkInvalid(w)
  <2>1. ingest[w].pc = "mark_invalid" /\ UNCHANGED <<db, collectJobs, platformEvents, policyQueue>>
    BY <1>1 DEF IngestMarkInvalid
  <2>2. e.type \in {"collection.failed", "collection.completed"}
    BY <1>h, <1>e, <2>1 DEF PcsOf
  <2>3. CASE e.type = "collection.completed"
    <3>1. \/ IngestGoto(w, "set_ingesting")
          \/ IngestGoto(w, "on_error") /\ faults' = faults + 1
      BY <1>1, <1>r, <2>3 DEF IngestMarkInvalid
    <3>2. IngestFits(e, "set_ingesting", db[s])
      BY <1>h, <2>1, <2>3 DEF IngestFits, Report
    <3>3. Report(e)
      BY <2>3 DEF Report
    <3>4. QED  BY <1>t, <1>u, <2>1, <3>1, <3>2, <3>3, IngestGotoMoves DEF IngestPcs
  <2>4. CASE e.type = "collection.failed"
    <3>1. IngestGoto(w, "append_scan_completed") \/ IngestGoto(w, "idle")
      BY <1>1, <2>4 DEF IngestMarkInvalid
    <3>2. IngestFits(e, "append_scan_completed", db[s])
      BY <1>h, <2>1, <2>4 DEF IngestFits, Report
    <3>3. Report(e)
      BY <2>4 DEF Report
    <3>4. QED  BY <1>t, <1>u, <2>1, <3>1, <3>2, <3>3, IngestGotoMoves DEF IngestPcs
  <2>5. QED  BY <2>2, <2>3, <2>4
<1>2. CASE IngestReadSnapshot(w)
  <2>1. ingest[w].pc = "read_snapshot" /\ UNCHANGED <<db, collectJobs, platformEvents, policyQueue>>
    BY <1>2 DEF IngestReadSnapshot
  <2>2. e.type = "collection.completed"
    BY <1>h, <1>e, <2>1 DEF PcsOf
  <2>3. \/ /\ ingest'[w].pc \in {"insert_relationships", "insert_resources"}
           /\ ingest'[w].msg = e
           /\ \A v \in IngestWorkers \ {w} : ingest'[v] = ingest[v]
        \/ IngestGoto(w, "on_error") /\ faults' = faults + 1
    BY <1>2, <1>r, <1>t DEF IngestReadSnapshot, IngestTypeOK
  <2>4. /\ IngestFits(e, "insert_relationships", db[s])
        /\ IngestFits(e, "insert_resources", db[s])
        /\ Report(e)
    BY <1>h, <2>1, <2>2 DEF IngestFits, Report
  <2>5. QED  BY <1>t, <1>u, <2>1, <2>3, <2>4, IngestGotoMoves DEF IngestPcs
<1>3. CASE IngestInsertResource(w)
  <2>1. ingest[w].pc = "insert_resources" /\ UNCHANGED <<collectJobs, platformEvents, policyQueue>>
    BY <1>3 DEF IngestInsertResource
  <2>2. e.type = "collection.completed"
    BY <1>h, <1>e, <2>1 DEF PcsOf
  <2>3. PICK r : LET row == [db[s] EXCEPT !.inventory = @ \cup {r}]
                 IN \/ /\ Write(s, row)
                       /\ ingest' = [ingest EXCEPT ![w].todo = @ \ {r},
                            ![w].pc = IF ingest[w].todo = {r} THEN "insert_relationships" ELSE @]
                    \/ /\ Raises
                       /\ WriteOrNot(s, row)
                       /\ IngestGoto(w, "on_error")
    BY <1>3 DEF IngestInsertResource
  <2>4. /\ \A t \in Scans \ {s} : db'[t] = db[t]
        /\ db'[s].status = db[s].status /\ db'[s].run = db[s].run
    BY <1>t, <2>3 DEF Write, WriteOrNot, Rows
  <2>5. \/ /\ ingest'[w].pc \in {"insert_relationships", "insert_resources"}
           /\ ingest'[w].msg = e
           /\ \A v \in IngestWorkers \ {w} : ingest'[v] = ingest[v]
        \/ IngestGoto(w, "on_error") /\ faults' = faults + 1
    BY <1>r, <1>t, <2>1, <2>3 DEF IngestTypeOK
  <2>6. /\ IngestFits(e, "insert_relationships", db[s])
        /\ IngestFits(e, "insert_resources", db[s])
        /\ Report(e)
    BY <1>h, <2>1, <2>2 DEF IngestFits, Report
  <2>7. QED  BY <1>t, <1>u, <2>1, <2>4, <2>5, <2>6, IngestGotoMoves DEF IngestPcs
<1>4. CASE IngestPublish(w)
  <2>1. /\ ingest[w].pc = "publish" /\ UNCHANGED <<db, collectJobs, platformEvents>>
        /\ policyQueue' = policyQueue \/ policyQueue' = Append(policyQueue, s)
    BY <1>4 DEF IngestPublish
  <2>2. e.type = "collection.completed" /\ Report(e)
    BY <1>h, <1>e, <2>1 DEF PcsOf, Report
  <2>3. IngestGoto(w, "idle") \/ (IngestGoto(w, "on_error") /\ faults' = faults + 1)
    BY <1>4, <1>r DEF IngestPublish
  <2>4. QED  BY <1>t, <1>u, <2>1, <2>2, <2>3, IngestGotoMoves DEF IngestPcs
<1>5. CASE IngestOnError(w)
  <2>1. /\ ingest[w].pc = "on_error" /\ IngestGoto(w, "idle")
        /\ UNCHANGED <<collectJobs, platformEvents, policyQueue>>
        /\ db' = db \/ Write(s, update_status(s, "failed"))
    BY <1>5 DEF IngestOnError, IngestCall, WriteOrNot
  <2>2. /\ \A t \in Scans \ {s} : db'[t] = db[t]
        /\ db'[s].run = db[s].run /\ db'[s].status \in {db[s].status, "failed"}
    BY <1>t, <2>1 DEF Write, update_status, Rows
  <2>3. ingest'[w].pc = "idle" /\ IngestMove(w)
    BY <1>t, <2>1, <2>2, IngestGotoMoves DEF IngestMove, IngestPcs
  <2>4. QED  BY <1>c, <2>1, <2>2, <2>3, OnErrorFits
<1>6. CASE IngestCrash(w)
  <2>1. /\ IngestGoto(w, "idle") /\ crashes' = crashes + 1
        /\ UNCHANGED <<db, collectJobs, platformEvents, policyQueue>>
    BY <1>6 DEF IngestCrash, Dies
  <2>2. /\ ingest'[w].pc = "idle" /\ IngestMove(w)
        /\ \A v \in IngestWorkers \ {w} : ingest'[v] = ingest[v]
    BY <1>t, <2>1, IngestGotoMoves DEF IngestMove, IngestPcs
  <2>3. CASE ingest[w].pc = "on_error"
    BY <1>c, <2>1, <2>2, <2>3, OnErrorFits
  <2>4. CASE ingest[w].pc # "on_error"
    <3>1. Disturbed'
      BY <1>t, <2>1 DEF Disturbed
    <3>2. QED  BY <1>u, <2>1, <2>2, <2>4, <3>1
  <2>5. QED  BY <2>3, <2>4
<1>7. QED  BY <1>1, <1>2, <1>3, <1>4, <1>5, <1>6

(* The first element leaves the list: the others move up.                    *)
LEMMA TailMoves ==
  ASSUME NEW T, NEW q \in Seq(T), q # <<>>, NEW i \in 1..Len(q), i # 1
  PROVE  i - 1 \in 1..Len(Tail(q)) /\ Tail(q)[i - 1] = q[i]
  OBVIOUS

(* An envelope is taken: the only worker has no other in hand.               *)
LEMMA IngestPopKeepsStatus ==
  ASSUME OneIngestWorker, HandOffInvariant, StatusInvariant, UNCHANGED <<api, collector, policy>>,
         NEW w \in IngestWorkers, IngestPop(w)
  PROVE  StatusInvariant' /\ StatusStep
<1> DEFINE n == Len(platformEvents)
<1>t. /\ platformEvents \in Seq(Events) /\ faults \in Nat /\ crashes \in Nat
      /\ ingest \in [IngestWorkers ->
           [pc : IngestPcs, msg : Events \cup {NoEvent}, todo : SUBSET Resources]]
  BY DEF HandOffInvariant, TypeOK, StoreTypeOK, IngestTypeOK
<1>a. /\ ingest[w].pc = "idle" /\ platformEvents # <<>>
      /\ platformEvents' = Tail(platformEvents)
      /\ UNCHANGED <<db, collectJobs, policyQueue, faults, crashes>>
      /\ ingest'[w].pc = "append_event" /\ ingest'[w].msg = Head(platformEvents)
      /\ \A v \in IngestWorkers : v = w
  BY <1>t DEF IngestPop, OneIngestWorker
<1>b. PICK e \in Events : /\ e = platformEvents[1] /\ ingest'[w].msg = e
                          /\ n \in Nat /\ 1 \in 1..n
                          /\ \A i \in 1..Len(platformEvents') :
                               i + 1 \in 2..n /\ platformEvents'[i] = platformEvents[i + 1]
  BY <1>t, <1>a, TailElements
<1>m. \A i \in 1..n : i # 1 =>
        i - 1 \in 1..Len(platformEvents') /\ platformEvents'[i - 1] = platformEvents[i]
  BY <1>t, <1>a, TailMoves
<1>s. PICK s \in Scans : s = e.scan
  BY DEF Events
<1>c. Counted
  BY <1>t, <1>a DEF Counted
<1> HIDE DEF n
<1>o. EventsInOrder /\ ScanFits(s)
  BY DEF StatusInvariant
<1>1. EventsInOrder'
  <2> SUFFICES ASSUME NEW i \in 1..Len(platformEvents'), NEW j \in 1..Len(platformEvents'),
                      i < j, platformEvents'[i].scan = platformEvents'[j].scan
               PROVE  ~Report(platformEvents'[i]) /\ Report(platformEvents'[j])
    BY DEF EventsInOrder
  <2>1. /\ i + 1 \in 1..n /\ j + 1 \in 1..n /\ i + 1 < j + 1
        /\ platformEvents'[i] = platformEvents[i + 1]
        /\ platformEvents'[j] = platformEvents[j + 1]
    BY <1>b
  <2>2. QED  BY <2>1, <1>o DEF EventsInOrder, n
<1>2. \A t \in Scans : /\ StartedQueued(t)' => StartedQueued(t)
                       /\ ReportQueued(t)' => ReportQueued(t)
  BY <1>b DEF StartedQueued, ReportQueued, n
<1>3. \A t \in Scans : /\ StartedQueued(t) => StartedQueued(t)' \/ (t = s /\ ~Report(e))
                       /\ ReportQueued(t) => ReportQueued(t)' \/ (t = s /\ Report(e))
  <2> SUFFICES ASSUME NEW t \in Scans
               PROVE  /\ StartedQueued(t) => StartedQueued(t)' \/ (t = s /\ ~Report(e))
                      /\ ReportQueued(t) => ReportQueued(t)' \/ (t = s /\ Report(e))
    OBVIOUS
  <2>1. ASSUME NEW i \in 1..n, platformEvents[i].scan = t
        PROVE  \/ \E j \in 1..Len(platformEvents') : platformEvents'[j] = platformEvents[i]
               \/ t = s /\ platformEvents[i] = e
    BY <2>1, <1>b, <1>m, <1>s
  <2>2. QED  BY <2>1 DEF StartedQueued, ReportQueued, n
<1>4. \A t \in Scans \ {s} : Untouched(t)
  BY <1>a, <1>b, <1>s, <1>2, <1>3 DEF Untouched, Holds
<1>5. ~StartedQueued(s)'
  <2>1. ASSUME NEW i \in 1..Len(platformEvents'), platformEvents'[i].scan = s,
               ~Report(platformEvents'[i])
        PROVE  FALSE
    <3>1. i + 1 \in 1..n /\ 1 < i + 1 /\ platformEvents'[i] = platformEvents[i + 1]
      BY <1>b
    <3>2. QED  BY <2>1, <3>1, <1>b, <1>s, <1>o DEF EventsInOrder, n
  <2>2. QED  BY <2>1 DEF StartedQueued
<1>6. Holds(w, s)'
  BY <1>a, <1>b, <1>s DEF Holds
<1>v. EvaluationFits(s)'
  BY <1>a, <1>o DEF ScanFits, EvaluationFits, PolicyFits, Handed
<1>7. CASE ~Report(e)
  <2>1. StartedQueued(s)
    BY <1>7, <1>b, <1>s DEF StartedQueued, n
  <2>2. db[s].status = "queued" /\ (collector[s] = "running" \/ ReportQueued(s))
    BY <1>o, <2>1 DEF ScanFits, WaitingFits
  <2>3. collector[s] # "idle"
    BY <2>2 DEF HandOffInvariant, OneReport, ReportQueued
  <2>4. WaitingFits(s)'
    BY <1>7, <1>a, <1>b, <1>o, <1>5, <1>6, <2>2 DEF ScanFits, WaitingFits
  <2>5. IngestFits(e, "append_event", db[s])'
    BY <1>7, <1>a, <2>2 DEF IngestFits, Report
  <2>6. HeldFits(w, s)'
    BY <1>a, <1>b, <1>5, <2>3, <2>5 DEF HeldFits
  <2>7. ScanFits(s)'
    BY <1>a, <1>v, <2>4, <2>6 DEF ScanFits
  <2>8. QED  BY <1>a, <1>c, <1>1, <1>4, <2>7, OneScanStep, SameStatusStep
<1>8. CASE Report(e)
  <2>1. ReportQueued(s) /\ collector[s] = "done"
    BY <1>8, <1>b, <1>s DEF HandOffInvariant, OneReport, ReportQueued, n
  <2>2. ~StartedQueued(s)
    BY <1>3, <1>5, <1>8
  <2>3. \A v \in IngestWorkers : ~Holds(v, s)
    BY <1>a DEF Holds
  <2>4. db[s].status = "collecting" \/ (db[s].status = "queued" /\ Disturbed)
    BY <1>o, <2>1, <2>2, <2>3 DEF ScanFits, WaitingFits
  <2>5. ~ReportQueued(s)'
    <3>1. ASSUME NEW i \in 1..Len(platformEvents'), platformEvents'[i].scan = s,
                 Report(platformEvents'[i])
          PROVE  FALSE
      <4>1. i + 1 \in 1..n /\ i + 1 # 1 /\ platformEvents'[i] = platformEvents[i + 1]
        BY <1>b
      <4>2. OneReport
        BY DEF HandOffInvariant
      <4>3. QED  BY <1>8, <3>1, <4>1, <4>2, <1>b, <1>s DEF OneReport, n
    <3>2. QED  BY <3>1 DEF ReportQueued
  <2>6. WaitingFits(s)'
    BY <1>a, <1>o, <1>5, <2>1, <2>5 DEF ScanFits, WaitingFits
  <2>7. IngestFits(e, "append_event", db[s])'
    BY <1>8, <1>a, <2>4 DEF IngestFits, Disturbed
  <2>8. HeldFits(w, s)'
    BY <1>a, <1>b, <1>5, <2>1, <2>7 DEF HeldFits
  <2>9. ScanFits(s)'
    BY <1>a, <1>v, <2>6, <2>8 DEF ScanFits
  <2>10. QED  BY <1>a, <1>c, <1>1, <1>4, <2>9, OneScanStep, SameStatusStep
<1>9. QED  BY <1>7, <1>8

LEMMA IngestKeepsStatus ==
  ASSUME OneIngestWorker, HandOffInvariant, StatusInvariant, UNCHANGED <<api, collector, policy>>,
         IngestNext
  PROVE  StatusInvariant' /\ StatusStep
<1>1. PICK w \in IngestWorkers : IngestStep(w) \/ IngestCrash(w)
  BY DEF IngestNext
<1>2. CASE IngestPop(w)
  BY <1>2, IngestPopKeepsStatus
<1>3. CASE ~IngestPop(w)
  <2>1. ingest[w].pc # "idle"
    BY <1>1, <1>3, IngestStepEffect
  <2>2. PICK s \in Scans : s = IngestScan(w)
    BY <2>1, InHand
  <2>3. QED  BY <1>1, <1>3, <2>1, <2>2, IngestCallsKeepStatus, IngestRestKeepsStatus DEF IngestStep
<1>4. QED  BY <1>2, <1>3

(*****************************************************************************)
(* Policy workers                                                            *)
(*****************************************************************************)

(* What is known of the scan a policy worker has in hand: whoever else holds *)
(* an envelope of it is in the handler of a push that raised.                *)
LEMMA InEvaluation ==
  ASSUME HandOffInvariant, StatusInvariant, NEW w \in PolicyWorkers, policy[w].pc # "idle"
  PROVE  /\ policy[w].scan \in Scans
         /\ db[policy[w].scan] \in Rows
         /\ PolicyFits(policy[w], db[policy[w].scan])
         /\ db[policy[w].scan].status \in Finals =>
              db[policy[w].scan].status = db[policy[w].scan].run
<1>1. policy[w].scan \in Scans /\ db[policy[w].scan] \in Rows
  BY DEF HandOffInvariant, TypeOK, StoreTypeOK, PolicyTypeOK
<1>2. QED  BY <1>1 DEF StatusInvariant, ScanFits, EvaluationFits, Finals

LEMMA PolicyWorkFits ==
  ASSUME HandOffInvariant, StatusInvariant, Counted, UNCHANGED <<api, collector, ingest>>,
         NEW w \in PolicyWorkers, NEW s \in Scans, s = policy[w].scan, policy[w].pc # "idle",
         PolicyEffect(w), \A t \in Scans \ {s} : db'[t] = db[t],
         Handed(db'[s]),
         db'[s].status \in Finals => db'[s].status = db'[s].run,
         policy'[w].pc # "idle" => PolicyFits(policy[w], db[s])',
         MayMove(db[s].status, db'[s].status, faults > 0, Disturbed')
  PROVE  StatusInvariant' /\ StatusStep
<1>f. /\ faults > 0 => faults' > 0
      /\ Disturbed => Disturbed'
  BY Grows
<1>h. Handed(db[s])
  BY InEvaluation DEF PolicyFits
<1>n. None \notin Scans
  BY StoreAssumption DEF StoreAssumption
<1>e. /\ UNCHANGED <<collectJobs, platformEvents, policyQueue>>
      /\ \A v \in PolicyWorkers \ {w} : policy'[v] = policy[v]
      /\ policy'[w].scan \in {s, None}
      /\ policy'[w].pc = "idle" => policy'[w].scan # s
  BY <1>n DEF PolicyEffect
<1>a. Announced(s)
  BY DEF Announced
<1>1. /\ collector[s] = "done" /\ ~ReportQueued(s)
      /\ \A v \in IngestWorkers : HoldsReport(v, s) => ingest[v].pc = "on_error"
  BY <1>a DEF HandOffInvariant, HandedOff
<1>2. api[s] \in {"done", "error"} /\ s \notin collectJobs
  BY <1>1 DEF HandOffInvariant, JobQueuedOnce
<1>3. ~StartedQueued(s)
  BY <1>h DEF StatusInvariant, ScanFits, WaitingFits, Handed
<1>4. WaitingFits(s)'
  BY <1>1, <1>2, <1>3, <1>e DEF WaitingFits, StartedQueued, ReportQueued
<1>5. ASSUME NEW v \in IngestWorkers, Holds(v, s)'
      PROVE  HeldFits(v, s)'
  <2>1. Holds(v, s) /\ IngestFits(ingest[v].msg, ingest[v].pc, db[s])
    BY <1>5 DEF Holds, StatusInvariant, ScanFits, HeldFits
  <2>2. Report(ingest[v].msg)
    BY <2>1, <1>h DEF IngestFits, Handed
  <2>3. ingest[v].pc = "on_error"
    BY <2>1, <2>2, <1>1 DEF Holds, HoldsReport
  <2>4. faults' > 0 /\ db'[s].status # "absent"
    BY <2>1, <2>2, <2>3, <1>f DEF IngestFits, Handed
  <2>5. IngestFits(ingest[v].msg, ingest[v].pc, db[s])'
    BY <2>2, <2>3, <2>4 DEF IngestFits, Report
  <2>6. ~StartedQueued(s)'
    BY <1>3, <1>e DEF StartedQueued
  <2>7. QED  BY <1>1, <2>5, <2>6 DEF HeldFits
<1>6. EvaluationFits(s)'
  <2>1. \A i \in 1..Len(policyQueue) : policyQueue[i] # s
    BY DEF HandOffInvariant, OneEvaluator
  <2>2. \A v \in PolicyWorkers : policy'[v].scan = s => v = w /\ policy'[w].pc # "idle"
    BY <1>e, <1>n DEF HandOffInvariant, OneEvaluator
  <2>3. \A v \in PolicyWorkers : policy'[v].scan = s => PolicyFits(policy[v], db[s])'
    BY <2>2
  <2>4. QED  BY <2>1, <2>3, <1>e DEF EvaluationFits, Finals
<1>7. ScanFits(s)'
  BY <1>4, <1>5, <1>6 DEF ScanFits, HeldFits
<1>8. ASSUME NEW t \in Scans \ {s}
      PROVE  Untouched(t)
  <2>1. \A v \in PolicyWorkers : policy'[v] = policy[v] \/ policy'[v].scan # t
    BY <1>e, <1>n
  <2>2. QED  BY <2>1, <1>e DEF Untouched, StartedQueued, ReportQueued
<1>9. EventsInOrder'
  BY <1>e DEF StatusInvariant, EventsInOrder
<1>10. StatusInvariant'
  BY <1>7, <1>8, <1>9, OneScanStep
<1>11. QED  BY <1>10 DEF StatusStep, Moved

(* A step that leaves status and collection run of the scan in hand.         *)
LEMMA PolicyQuietFits ==
  ASSUME HandOffInvariant, StatusInvariant, Counted, UNCHANGED <<api, collector, ingest>>,
         NEW w \in PolicyWorkers, NEW s \in Scans, s = policy[w].scan, policy[w].pc # "idle",
         PolicyEffect(w), \A t \in Scans \ {s} : db'[t] = db[t],
         db'[s].status = db[s].status, db'[s].run = db[s].run,
         \/ policy'[w].pc = "idle"
         \/ policy'[w].pc = "fail_run" /\ faults' > 0
         \/ PolicyFits(policy'[w], db[s])
  PROVE  StatusInvariant' /\ StatusStep
<1>1. /\ PolicyFits(policy[w], db[s])
      /\ db[s].status \in Finals => db[s].status = db[s].run
  BY InEvaluation
<1>2. faults > 0 => faults' > 0
  BY Grows
<1>3. Handed(db'[s])
  BY <1>1 DEF PolicyFits, Handed
<1>4. policy'[w].pc # "idle" => PolicyFits(policy[w], db[s])'
  BY <1>2, <1>3 DEF PolicyFits, Handed
<1>5. MayMove(db[s].status, db'[s].status, faults > 0, Disturbed')
  BY DEF MayMove
<1>6. QED  BY <1>1, <1>3, <1>4, <1>5, PolicyWorkFits

(* A statement that moves the status on.                                     *)
LEMMA PolicyStatusFits ==
  ASSUME HandOffInvariant, StatusInvariant, UNCHANGED <<api, collector, ingest>>,
         NEW w \in PolicyWorkers, NEW s \in Scans, s = policy[w].scan,
         NEW at \in PolicyPcs \ {"idle"}, NEW st \in ScanStatus,
         NEW next \in PolicyPcs, NEW handler \in {"idle", "fail_run"},
         PolicyCall(w, at, update_status(s, st), next, handler), PolicyEffect(w),
         Handed(update_status(s, st)), st \in Finals => st = db[s].run,
         next # "idle" =>
           \A x : x.pc = next => PolicyFits(x, update_status(s, st)),
         MayMove(db[s].status, st, faults > 0, Disturbed)
  PROVE  StatusInvariant' /\ StatusStep
<1> DEFINE row == update_status(s, st)
<1>t. /\ PolicyTypeOK /\ db \in [Scans -> Rows] /\ faults \in Nat /\ crashes \in Nat
      /\ policy[w].pc = at
  BY DEF HandOffInvariant, TypeOK, StoreTypeOK, PolicyCall
<1>r. row.status = st /\ row.run = db[s].run
  BY <1>t DEF update_status, Rows
<1>h. /\ PolicyFits(policy[w], db[s])
      /\ db[s].status \in Finals => db[s].status = db[s].run
  BY <1>t, InEvaluation
<1>w. Write(s, row) => db'[s] = row /\ \A t \in Scans \ {s} : db'[t] = db[t]
  BY <1>t DEF Write
<1>o. /\ \A t \in Scans \ {s} : db'[t] = db[t]
      /\ crashes' = crashes
      /\ \/ db'[s] = row /\ faults' = faults /\ PolicyGoto(w, next)
         \/ db'[s] \in {db[s], row} /\ faults' = faults + 1 /\ PolicyGoto(w, handler)
  <2> HIDE DEF row
  <2>1. PolicyCall(w, at, row, next, handler)
    BY DEF row
  <2>2. CASE Write(s, row) /\ PolicyGoto(w, next) /\ UNCHANGED faults
    BY <1>w, <2>1, <2>2 DEF PolicyCall
  <2>3. CASE Raises /\ WriteOrNot(s, row) /\ PolicyGoto(w, handler)
    BY <1>w, <2>1, <2>3 DEF PolicyCall, Raises, WriteOrNot
  <2>4. QED  BY <2>1, <2>2, <2>3 DEF PolicyCall
<1>c. /\ Counted /\ (faults > 0 => faults' > 0) /\ (Disturbed => Disturbed')
      /\ faults' = faults + 1 => faults' > 0
  BY <1>t, <1>o DEF Counted, Disturbed
<1>g. ASSUME NEW pc \in PolicyPcs, PolicyGoto(w, pc)
      PROVE  policy'[w].pc = pc
  BY <1>t, <1>g DEF PolicyGoto, PolicyTypeOK, PolicyIdle
<1>1. Handed(db'[s]) /\ (db'[s].status \in Finals => db'[s].status = db'[s].run)
  BY <1>h, <1>o, <1>r DEF PolicyFits
<1>2. ASSUME policy'[w].pc # "idle"
      PROVE  PolicyFits(policy[w], db[s])'
  <2>1. CASE db'[s] = row /\ faults' = faults /\ PolicyGoto(w, next)
    <3>1. policy'[w].pc = next
      BY <1>g, <2>1
    <3>2. PolicyFits(policy'[w], row)
      BY <1>2, <3>1
    <3> HIDE DEF row
    <3>3. QED  BY <2>1, <3>2 DEF PolicyFits, Handed
  <2>2. CASE faults' = faults + 1 /\ PolicyGoto(w, handler)
    <3>1. policy'[w].pc = "fail_run"
      BY <1>2, <1>g, <2>2 DEF PolicyPcs
    <3>2. QED  BY <1>1, <1>c, <2>2, <3>1 DEF PolicyFits, Handed
  <2>3. QED  BY <1>o, <2>1, <2>2
<1>3. MayMove(db[s].status, db'[s].status, faults > 0, Disturbed')
  BY <1>o, <1>r, <1>c DEF MayMove
<1>4. QED  BY <1>o, <1>c, <1>t, <1>1, <1>2, <1>3, PolicyWorkFits

(* Rows that differ in neither status nor collection run.                    *)
SameProgress(new, row) == new.status = row.status /\ new.run = row.run

LEMMA QuietCall ==
  ASSUME TypeOK, NEW w \in PolicyWorkers, NEW s \in Scans, s = policy[w].scan,
         NEW at, NEW row, NEW next \in PolicyPcs, NEW handler \in PolicyPcs,
         PolicyCall(w, at, row, next, handler), SameProgress(row, db[s])
  PROVE  /\ \A t \in Scans \ {s} : db'[t] = db[t]
         /\ SameProgress(db'[s], db[s])
         /\ \/ policy'[w].pc = next /\ faults' = faults
            \/ policy'[w].pc = handler /\ faults' = faults + 1
<1>t. /\ db \in [Scans -> Rows]
      /\ policy \in [PolicyWorkers ->
           [pc : PolicyPcs, scan : Scans \cup {None}, todo : SUBSET Resources,
            frameworks : SUBSET Frameworks, final : {"completed", "completed_with_errors"}]]
  BY DEF TypeOK, StoreTypeOK, PolicyTypeOK
<1>1. Write(s, row) => db'[s] = row /\ \A t \in Scans \ {s} : db'[t] = db[t]
  BY <1>t DEF Write
<1>2. ASSUME NEW pc \in PolicyPcs, PolicyGoto(w, pc)
      PROVE  policy'[w].pc = pc
  BY <1>t, <1>2 DEF PolicyGoto, PolicyIdle
<1>3. CASE Write(s, row) /\ PolicyGoto(w, next) /\ UNCHANGED faults
  BY <1>1, <1>2, <1>3 DEF SameProgress
<1>4. CASE Raises /\ WriteOrNot(s, row) /\ PolicyGoto(w, handler)
  BY <1>1, <1>2, <1>4 DEF SameProgress, Raises, WriteOrNot
<1>5. QED  BY <1>3, <1>4 DEF PolicyCall

(* The statements of handle_event that leave the status alone.               *)
LEMMA PolicyQuietKeepsStatus ==
  ASSUME HandOffInvariant, StatusInvariant, UNCHANGED <<api, collector, ingest>>,
         NEW w \in PolicyWorkers, NEW s \in Scans, s = policy[w].scan, policy[w].pc # "idle",
         \/ PolicyAppendEvaluate(w) \/ PolicyCheckStatus(w) \/ PolicyStartRun(w)
         \/ PolicyListAssets(w) \/ PolicyUpsertFinding(w) \/ PolicyCompleteRun(w)
         \/ PolicyMapControls(w) \/ PolicyMapScore(w) \/ PolicyGetRun(w)
         \/ PolicyAppendPolicyCompleted(w) \/ PolicyAppendComplianceUpdated(w)
         \/ PolicyAppendScanCompleted(w) \/ PolicyFailRun(w) \/ PolicyAppendScanFailed(w)
         \/ PolicyCrash(w)
  PROVE  StatusInvariant' /\ StatusStep
<1> DEFINE Fits(x) == PolicyFits(x, db[s])
<1>t. /\ TypeOK /\ db \in [Scans -> Rows] /\ db[s] \in Rows /\ faults \in Nat /\ crashes \in Nat
      /\ policy \in [PolicyWorkers ->
           [pc : PolicyPcs, scan : Scans \cup {None}, todo : SUBSET Resources,
            frameworks : SUBSET Frameworks, final : {"completed", "completed_with_errors"}]]
  BY DEF HandOffInvariant, TypeOK, StoreTypeOK, PolicyTypeOK
<1>h. Fits(policy[w])
  BY InEvaluation
<1>e. PolicyEffect(w)
  <2>1. PolicyStep(w) \/ PolicyCrash(w)
    BY DEF PolicyStep
  <2>2. ~PolicyPop(w)
    BY DEF PolicyPop
  <2>3. QED  BY <1>t, <2>1, <2>2, PolicyStepEffect
<1>u. ASSUME \A t \in Scans \ {s} : db'[t] = db[t], SameProgress(db'[s], db[s]),
             faults' \in {faults, faults + 1}, crashes' \in {crashes, crashes + 1},
             \/ policy'[w].pc = "idle"
             \/ policy'[w].pc = "fail_run" /\ faults' = faults + 1
             \/ Fits(policy'[w])
      PROVE  StatusInvariant' /\ StatusStep
  <2>1. Counted /\ (faults' = faults + 1 => faults' > 0)
    BY <1>t, <1>u DEF Counted
  <2>2. QED  BY <1>e, <1>u, <2>1, PolicyQuietFits DEF SameProgress
<1>q. ASSUME NEW handler \in {"idle", "fail_run"}, PolicyQueryRaises(w, handler)
      PROVE  StatusInvariant' /\ StatusStep
  <2>1. /\ UNCHANGED <<db, crashes>> /\ faults' = faults + 1 /\ PolicyGoto(w, handler)
    BY <1>q DEF PolicyQueryRaises, Raises
  <2>2. policy'[w].pc = handler
    BY <1>t, <2>1 DEF PolicyGoto, PolicyIdle, PolicyPcs
  <2>3. QED  BY <1>u, <2>1, <2>2 DEF SameProgress
<1>k. ASSUME NEW at, NEW row, NEW next \in PolicyPcs, NEW handler \in {"idle", "fail_run"},
             PolicyCall(w, at, row, next, handler), SameProgress(row, db[s]),
             next = "idle" \/ \A x : x.pc = next => Fits(x)
      PROVE  StatusInvariant' /\ StatusStep
  <2> HIDE DEF Fits
  <2>1. /\ \A t \in Scans \ {s} : db'[t] = db[t]
        /\ SameProgress(db'[s], db[s])
        /\ \/ policy'[w].pc = next /\ faults' = faults
           \/ policy'[w].pc = handler /\ faults' = faults + 1
    <3>1. handler \in PolicyPcs
      BY <1>k DEF PolicyPcs
    <3>2. TypeOK /\ PolicyCall(w, at, row, next, handler) /\ SameProgress(row, db[s])
      BY <1>t, <1>k
    <3>3. QED  BY <3>1, <3>2, QuietCall
  <2>2. crashes' = crashes
    BY <1>k DEF PolicyCall
  <2>3. policy'[w].pc = next /\ next # "idle" => Fits(policy'[w])
    BY <1>k
  <2>4. QED  BY <1>k, <1>u, <2>1, <2>2, <2>3
<1>1. CASE PolicyAppendEvaluate(w)
  <2> DEFINE row == append_event(s, "policy.evaluate")
  <2>1. policy[w].pc = "append_evaluate" /\ PolicyCall(w, "append_evaluate", row, "check_status", "idle")
    BY <1>1 DEF PolicyAppendEvaluate, PolicyCall
  <2>2. SameProgress(row, db[s])
    BY <1>t DEF SameProgress, Rows, append_event
  <2>3. \A x : x.pc = "check_status" => Fits(x)
    BY <1>h, <2>1 DEF PolicyFits
  <2> HIDE DEF row, Fits
  <2>4. QED  BY <1>k, <2>1, <2>2, <2>3 DEF PolicyPcs
<1>2. CASE PolicyStartRun(w)
  <2> DEFINE row == [db[s] EXCEPT !.evaluation = "running"]
  <2>1. policy[w].pc = "start_run" /\ PolicyCall(w, "start_run", row, "list_assets", "idle")
    BY <1>2 DEF PolicyStartRun, PolicyCall
  <2>2. SameProgress(row, db[s])
    BY <1>t DEF SameProgress, Rows
  <2>3. \A x : x.pc = "list_assets" => Fits(x)
    BY <1>h, <2>1 DEF PolicyFits
  <2> HIDE DEF row, Fits
  <2>4. QED  BY <1>k, <2>1, <2>2, <2>3 DEF PolicyPcs
<1>3. CASE PolicyAppendPolicyCompleted(w)
  <2> DEFINE row == append_event(s, "policy.completed")
  <2>1. policy[w].pc = "append_policy_completed" /\ PolicyCall(w, "append_policy_completed", row, "append_compliance_updated", "fail_run")
    BY <1>3 DEF PolicyAppendPolicyCompleted, PolicyCall
  <2>2. SameProgress(row, db[s])
    BY <1>t DEF SameProgress, Rows, append_event
  <2>3. \A x : x.pc = "append_compliance_updated" => Fits(x)
    BY <1>h, <2>1 DEF PolicyFits
  <2> HIDE DEF row, Fits
  <2>4. QED  BY <1>k, <2>1, <2>2, <2>3 DEF PolicyPcs
<1>4. CASE PolicyAppendComplianceUpdated(w)
  <2> DEFINE row == append_event(s, "compliance.updated")
  <2>1. policy[w].pc = "append_compliance_updated" /\ PolicyCall(w, "append_compliance_updated", row, "append_scan_completed", "fail_run")
    BY <1>4 DEF PolicyAppendComplianceUpdated, PolicyCall
  <2>2. SameProgress(row, db[s])
    BY <1>t DEF SameProgress, Rows, append_event
  <2>3. \A x : x.pc = "append_scan_completed" => Fits(x)
    BY <1>h, <2>1 DEF PolicyFits
  <2> HIDE DEF row, Fits
  <2>4. QED  BY <1>k, <2>1, <2>2, <2>3 DEF PolicyPcs
<1>5. CASE PolicyAppendScanCompleted(w)
  <2> DEFINE row == append_event(s, ScanCompleted(policy[w].final))
  <2>1. policy[w].pc = "append_scan_completed" /\ PolicyCall(w, "append_scan_completed", row, "idle", "fail_run")
    BY <1>5 DEF PolicyAppendScanCompleted, PolicyCall
  <2>2. SameProgress(row, db[s])
    BY <1>t DEF SameProgress, Rows, append_event
  <2> HIDE DEF row, Fits
  <2>4. QED  BY <1>k, <2>1, <2>2 DEF PolicyPcs
<1>6. CASE PolicyFailRun(w)
  <2> DEFINE row == [db[s] EXCEPT !.evaluation = "failed"]
  <2>1. policy[w].pc = "fail_run" /\ PolicyCall(w, "fail_run", row, "set_failed", "idle")
    BY <1>6 DEF PolicyFailRun, PolicyCall
  <2>2. SameProgress(row, db[s])
    BY <1>t DEF SameProgress, Rows
  <2>3. \A x : x.pc = "set_failed" => Fits(x)
    BY <1>h, <2>1 DEF PolicyFits
  <2> HIDE DEF row, Fits
  <2>4. QED  BY <1>k, <2>1, <2>2, <2>3 DEF PolicyPcs
<1>7. CASE PolicyAppendScanFailed(w)
  <2> DEFINE row == append_event(s, "scan.completed:failed")
  <2>1. policy[w].pc = "append_scan_failed" /\ PolicyCall(w, "append_scan_failed", row, "idle", "idle")
    BY <1>7 DEF PolicyAppendScanFailed, PolicyCall
  <2>2. SameProgress(row, db[s])
    BY <1>t DEF SameProgress, Rows, append_event
  <2> HIDE DEF row, Fits
  <2>4. QED  BY <1>k, <2>1, <2>2 DEF PolicyPcs
<1>8. CASE PolicyMapControls(w)
  <2>1. PICK f \in policy[w].frameworks :
          PolicyCall(w, "map_controls", [db[s] EXCEPT !.controls = @ \cup {f}],
                     "map_score", "fail_run")
    BY <1>8 DEF PolicyMapControls
  <2> DEFINE row == [db[s] EXCEPT !.controls = @ \cup {f}]
  <2>2. SameProgress(row, db[s]) /\ policy[w].pc = "map_controls"
    BY <1>t, <2>1 DEF SameProgress, Rows, PolicyCall
  <2>3. \A x : x.pc = "map_score" => Fits(x)
    BY <1>h, <2>2 DEF PolicyFits
  <2> HIDE DEF row, Fits
  <2>4. PolicyCall(w, "map_controls", row, "map_score", "fail_run")
    BY <2>1 DEF row
  <2>5. QED  BY <1>k, <2>2, <2>3, <2>4 DEF PolicyPcs
<1>9. CASE PolicyCheckStatus(w)
  <2>1. CASE PolicyQueryRaises(w, "idle")
    BY <1>q, <2>1
  <2>2. CASE /\ PolicyGoto(w, IF db[s].status \in Evaluable THEN "set_evaluating" ELSE "idle")
             /\ UNCHANGED store
    <3>1. policy'[w].pc \in {"set_evaluating", "idle"}
      BY <1>t, <2>2 DEF PolicyGoto, PolicyIdle
    <3>2. \A x : x.pc = "set_evaluating" => Fits(x)
      BY <1>9, <1>h DEF PolicyCheckStatus, PolicyFits
    <3> HIDE DEF Fits
    <3>3. QED  BY <1>u, <2>2, <3>1, <3>2 DEF store, SameProgress
  <2>3. QED  BY <1>9, <2>1, <2>2 DEF PolicyCheckStatus
<1>10. CASE PolicyListAssets(w)
  <2>1. CASE PolicyQueryRaises(w, "fail_run")
    BY <1>q, <2>1
  <2>2. CASE ~PolicyQueryRaises(w, "fail_run")
    <3>1. PICK assets : policy' = [policy EXCEPT ![w].todo = assets,
                          ![w].pc = IF assets = {} THEN "complete_run" ELSE "upsert_finding"]
      BY <1>10, <2>2 DEF PolicyListAssets
    <3>2. policy[w].pc = "list_assets" /\ UNCHANGED store
      BY <1>10, <2>2 DEF PolicyListAssets
    <3>3. policy'[w].pc \in {"complete_run", "upsert_finding"}
      BY <1>t, <3>1
    <3>4. \A x : x.pc \in {"complete_run", "upsert_finding"} => Fits(x)
      BY <1>h, <3>2 DEF PolicyFits
    <3> HIDE DEF Fits
    <3>5. QED  BY <1>u, <3>2, <3>3, <3>4 DEF store, SameProgress
  <2>3. QED  BY <2>1, <2>2
<1>w. ASSUME NEW row, SameProgress(row, db[s]), crashes' = crashes,
             \/ Write(s, row) /\ Fits(policy'[w]) /\ UNCHANGED faults
             \/ Raises /\ WriteOrNot(s, row) /\ PolicyGoto(w, "fail_run")
      PROVE  StatusInvariant' /\ StatusStep
  <2>1. Write(s, row) => db'[s] = row /\ \A t \in Scans \ {s} : db'[t] = db[t]
    BY <1>t DEF Write
  <2>2. PolicyGoto(w, "fail_run") => policy'[w].pc = "fail_run"
    BY <1>t DEF PolicyGoto
  <2> HIDE DEF Fits
  <2>3. CASE Write(s, row) /\ Fits(policy'[w]) /\ UNCHANGED faults
    BY <1>u, <1>w, <2>1, <2>3 DEF SameProgress
  <2>4. CASE Raises /\ WriteOrNot(s, row) /\ PolicyGoto(w, "fail_run")
    BY <1>u, <1>w, <2>1, <2>2, <2>4 DEF SameProgress, Raises, WriteOrNot
  <2>5. QED  BY <1>w, <2>3, <2>4
<1>11. CASE PolicyUpsertFinding(w)
  <2>1. PICK r : LET row == [db[s] EXCEPT !.findings = @ \cup {r}]
                 IN \/ /\ Write(s, row)
                       /\ policy' = [policy EXCEPT ![w].todo = @ \ {r},
                            ![w].pc = IF policy[w].todo = {r} THEN "complete_run" ELSE @]
                       /\ UNCHANGED faults
                    \/ /\ Raises
                       /\ WriteOrNot(s, row)
                       /\ PolicyGoto(w, "fail_run")
    BY <1>11 DEF PolicyUpsertFinding
  <2>2. policy[w].pc = "upsert_finding" /\ crashes' = crashes
    BY <1>11 DEF PolicyUpsertFinding
  <2> DEFINE row == [db[s] EXCEPT !.findings = @ \cup {r}]
  <2>3. SameProgress(row, db[s])
    BY <1>t DEF SameProgress, Rows
  <2>4. \A x : x.pc \in {"complete_run", "upsert_finding"} => Fits(x)
    BY <1>h, <2>2 DEF PolicyFits
  <2>5. policy' = [policy EXCEPT ![w].todo = @ \ {r},
                     ![w].pc = IF policy[w].todo = {r} THEN "complete_run" ELSE @]
          => policy'[w].pc \in {"complete_run", "upsert_finding"}
    BY <1>t, <2>2
  <2>6. \/ Write(s, row) /\ Fits(policy'[w]) /\ UNCHANGED faults
        \/ Raises /\ WriteOrNot(s, row) /\ PolicyGoto(w, "fail_run")
    <3> HIDE DEF Fits
    <3>1. QED  BY <2>1, <2>4, <2>5
  <2> HIDE DEF row, Fits
  <2>7. QED  BY <1>w, <2>2, <2>3, <2>6
<1>12. CASE PolicyCompleteRun(w)
  <2> DEFINE row == [db[s] EXCEPT !.evaluation = "completed"]
  <2>1. /\ policy[w].pc = "complete_run" /\ crashes' = crashes
        /\ \/ /\ Write(s, row)
              /\ policy' = [policy EXCEPT ![w].frameworks = Frameworks,
                   ![w].pc = IF Frameworks = {} THEN MappedPc ELSE "map_controls"]
              /\ UNCHANGED faults
           \/ /\ Raises
              /\ WriteOrNot(s, row)
              /\ PolicyGoto(w, "fail_run")
    BY <1>12 DEF PolicyCompleteRun
  <2>2. SameProgress(row, db[s])
    BY <1>t DEF SameProgress, Rows
  <2>3. \A x : x.pc \in {"map_controls", "get_run", "fail_run"} => Fits(x)
    BY <1>h, <2>1 DEF PolicyFits
  <2>4. policy' = [policy EXCEPT ![w].frameworks = Frameworks,
                     ![w].pc = IF Frameworks = {} THEN MappedPc ELSE "map_controls"]
          => policy'[w].pc \in {"map_controls", "get_run", "fail_run"}
    BY <1>t DEF MappedPc
  <2>5. \/ Write(s, row) /\ Fits(policy'[w]) /\ UNCHANGED faults
        \/ Raises /\ WriteOrNot(s, row) /\ PolicyGoto(w, "fail_run")
    <3> HIDE DEF row, Fits
    <3>1. QED  BY <2>1, <2>3, <2>4
  <2> HIDE DEF row, Fits
  <2>6. QED  BY <1>w, <2>1, <2>2, <2>5
<1>13. CASE PolicyMapScore(w)
  <2>1. PICK f \in policy[w].frameworks :
          LET row == [db[s] EXCEPT !.scores = @ \cup {f}]
          IN \/ /\ Write(s, row)
                /\ policy' = [policy EXCEPT ![w].frameworks = @ \ {f},
                     ![w].pc = IF policy[w].frameworks = {f} THEN MappedPc ELSE "map_controls"]
                /\ UNCHANGED faults
             \/ /\ Raises
                /\ WriteOrNot(s, row)
                /\ PolicyGoto(w, "fail_run")
    BY <1>13 DEF PolicyMapScore
  <2>2. policy[w].pc = "map_score" /\ crashes' = crashes
    BY <1>13 DEF PolicyMapScore
  <2> DEFINE row == [db[s] EXCEPT !.scores = @ \cup {f}]
  <2>3. SameProgress(row, db[s])
    BY <1>t DEF SameProgress, Rows
  <2>4. \A x : x.pc \in {"map_controls", "get_run", "fail_run"} => Fits(x)
    BY <1>h, <2>2 DEF PolicyFits
  <2>5. policy' = [policy EXCEPT ![w].frameworks = @ \ {f},
                     ![w].pc = IF policy[w].frameworks = {f} THEN MappedPc ELSE "map_controls"]
          => policy'[w].pc \in {"map_controls", "get_run", "fail_run"}
    BY <1>t DEF MappedPc
  <2>6. \/ Write(s, row) /\ Fits(policy'[w]) /\ UNCHANGED faults
        \/ Raises /\ WriteOrNot(s, row) /\ PolicyGoto(w, "fail_run")
    <3> HIDE DEF Fits, row
    <3>1. policy'[w].pc \in {"map_controls", "get_run", "fail_run"} => Fits(policy'[w])
      BY <2>4
    <3>2. CASE Write(s, row) /\ UNCHANGED faults /\ policy' = [policy EXCEPT ![w].frameworks = @ \ {f},
                 ![w].pc = IF policy[w].frameworks = {f} THEN MappedPc ELSE "map_controls"]
      BY <2>5, <3>1, <3>2
    <3>3. CASE Raises /\ WriteOrNot(s, row) /\ PolicyGoto(w, "fail_run")
      BY <3>3
    <3>4. QED  BY <2>1, <3>2, <3>3 DEF row
  <2> HIDE DEF row, Fits
  <2>7. QED  BY <1>w, <2>2, <2>3, <2>6
<1>14. CASE PolicyGetRun(w)
  <2>1. CASE PolicyQueryRaises(w, "fail_run")
    BY <1>q, <2>1
  <2>2. CASE ~PolicyQueryRaises(w, "fail_run")
    <3>1. /\ policy[w].pc = "get_run" /\ UNCHANGED store
          /\ policy' = [policy EXCEPT ![w].pc = "set_final",
               ![w].final = IF db[s].run = "completed" THEN "completed" ELSE "completed_with_errors"]
      BY <1>14, <2>2 DEF PolicyGetRun
    <3>2. db[s].run \in {"completed", "completed_with_errors"}
      BY <1>h DEF PolicyFits, Handed, CollectionStatuses
    <3>3. policy'[w].pc = "set_final" /\ policy'[w].final = db[s].run
      BY <1>t, <3>1, <3>2
    <3>4. Fits(policy'[w])
      BY <1>h, <3>1, <3>3 DEF PolicyFits
    <3> HIDE DEF Fits
    <3>5. QED  BY <1>u, <3>1, <3>4 DEF store, SameProgress
  <2>3. QED  BY <2>1, <2>2
<1>15. CASE PolicyCrash(w)
  <2>1. UNCHANGED <<db, faults>> /\ crashes' = crashes + 1 /\ PolicyGoto(w, "idle")
    BY <1>15 DEF PolicyCrash, Dies
  <2>2. policy'[w].pc = "idle"
    BY <1>t, <2>1 DEF PolicyGoto, PolicyIdle
  <2>3. QED  BY <1>u, <2>1, <2>2 DEF SameProgress
<1>16. QED  BY <1>1, <1>2, <1>3, <1>4, <1>5, <1>6, <1>7, <1>8, <1>9, <1>10, <1>11, <1>12, <1>13,
            <1>14, <1>15

(* ... and those that set it.                                                *)
LEMMA PolicyStatusKept ==
  ASSUME HandOffInvariant, StatusInvariant, UNCHANGED <<api, collector, ingest>>,
         NEW w \in PolicyWorkers, NEW s \in Scans, s = policy[w].scan, policy[w].pc # "idle",
         PolicySetEvaluating(w) \/ PolicySetFinal(w) \/ PolicySetFailed(w)
  PROVE  StatusInvariant' /\ StatusStep
<1>t. /\ TypeOK /\ db[s] \in Rows
      /\ policy[w].final \in {"completed", "completed_with_errors"}
  BY DEF HandOffInvariant, TypeOK, StoreTypeOK, PolicyTypeOK
<1>h. PolicyFits(policy[w], db[s])
  BY InEvaluation
<1>e. PolicyEffect(w)
  <2>1. PolicyStep(w) /\ ~PolicyPop(w)
    BY DEF PolicyStep, PolicyPop
  <2>2. QED  BY <1>t, <2>1, PolicyStepEffect
<1>r. \A st : update_status(s, st).status = st /\ update_status(s, st).run = db[s].run
  BY <1>t DEF update_status, Rows
<1>d. faults > 0 => Disturbed
  BY DEF Disturbed
<1>1. CASE PolicySetEvaluating(w)
  <2>1. /\ policy[w].pc = "set_evaluating"
        /\ PolicyCall(w, "set_evaluating", update_status(s, "evaluating"), "start_run", "idle")
    BY <1>1 DEF PolicySetEvaluating, PolicyCall
  <2>2. /\ Handed(db[s])
        /\ db[s].status = "inventory_ready" \/ (db[s].status = "failed" /\ faults > 0)
    BY <1>h, <2>1 DEF PolicyFits
  <2>3. Handed(update_status(s, "evaluating"))
    BY <1>r, <2>2 DEF Handed
  <2>4. \A x : x.pc = "start_run" => PolicyFits(x, update_status(s, "evaluating"))
    BY <1>r, <2>3 DEF PolicyFits
  <2>5. MayMove(db[s].status, "evaluating", faults > 0, Disturbed)
    BY <1>d, <2>2, TransitionTable DEF MayMove
  <2>6. "evaluating" \notin Finals /\ "evaluating" \in ScanStatus
    BY DEF Finals, ScanStatus
  <2>7. QED  BY <1>e, <2>1, <2>3, <2>4, <2>5, <2>6, PolicyStatusFits DEF PolicyPcs
<1>2. CASE PolicySetFinal(w)
  <2> DEFINE st == policy[w].final
  <2>1. /\ policy[w].pc = "set_final"
        /\ PolicyCall(w, "set_final", update_status(s, st), "append_policy_completed", "fail_run")
    BY <1>2 DEF PolicySetFinal, PolicyCall
  <2>2. /\ Handed(db[s]) /\ st = db[s].run
        /\ db[s].status = "evaluating" \/ (db[s].status = "failed" /\ faults > 0)
    BY <1>h, <2>1 DEF PolicyFits
  <2>3. Handed(update_status(s, st))
    BY <1>r, <1>t, <2>2 DEF Handed
  <2>4. \A x : x.pc = "append_policy_completed" => PolicyFits(x, update_status(s, st))
    BY <1>r, <2>3 DEF PolicyFits
  <2>5. MayMove(db[s].status, st, faults > 0, Disturbed)
    BY <1>d, <1>t, <2>2, TransitionTable DEF MayMove
  <2>6. st \in ScanStatus
    BY <1>t DEF ScanStatus
  <2> HIDE DEF st
  <2>7. QED  BY <1>e, <2>1, <2>2, <2>3, <2>4, <2>5, <2>6, PolicyStatusFits DEF PolicyPcs
<1>3. CASE PolicySetFailed(w)
  <2>1. /\ policy[w].pc = "set_failed"
        /\ PolicyCall(w, "set_failed", update_status(s, "failed"), "append_scan_failed", "idle")
    BY <1>3 DEF PolicySetFailed, PolicyCall
  <2>2. /\ Handed(db[s])
        /\ db[s].status = "evaluating" \/ faults > 0
    BY <1>h, <2>1 DEF PolicyFits
  <2>3. Handed(update_status(s, "failed"))
    BY <1>r, <2>2 DEF Handed
  <2>4. \A x : x.pc = "append_scan_failed" => PolicyFits(x, update_status(s, "failed"))
    BY <1>r, <2>3 DEF PolicyFits
  <2>5. MayMove(db[s].status, "failed", faults > 0, Disturbed)
    BY <1>d, <2>2, TransitionTable DEF MayMove, Handed
  <2>6. "failed" \notin Finals /\ "failed" \in ScanStatus
    BY DEF Finals, ScanStatus
  <2>7. QED  BY <1>e, <2>1, <2>3, <2>4, <2>5, <2>6, PolicyStatusFits DEF PolicyPcs
<1>4. QED  BY <1>1, <1>2, <1>3

LEMMA PolicyKeepsStatus ==
  ASSUME HandOffInvariant, StatusInvariant, UNCHANGED <<api, collector, ingest>>, PolicyNext
  PROVE  StatusInvariant' /\ StatusStep
<1>t. /\ policyQueue \in Seq(Scans) /\ faults \in Nat /\ crashes \in Nat
      /\ policy \in [PolicyWorkers ->
           [pc : PolicyPcs, scan : Scans \cup {None}, todo : SUBSET Resources,
            frameworks : SUBSET Frameworks, final : {"completed", "completed_with_errors"}]]
      /\ \A v \in PolicyWorkers : policy[v].pc # "idle" => policy[v].scan \in Scans
  BY DEF HandOffInvariant, TypeOK, StoreTypeOK, PolicyTypeOK
<1>1. PICK w \in PolicyWorkers : PolicyStep(w) \/ PolicyCrash(w)
  BY DEF PolicyNext
<1>2. CASE PolicyPop(w)
  <2>1. /\ policyQueue # <<>> /\ policyQueue' = Tail(policyQueue)
        /\ policy'[w].pc = "append_evaluate" /\ policy'[w].scan = Head(policyQueue)
        /\ \A v \in PolicyWorkers \ {w} : policy'[v] = policy[v]
        /\ UNCHANGED <<db, collectJobs, platformEvents, faults, crashes>>
    BY <1>2, <1>t DEF PolicyPop
  <2>2. PICK s \in Scans :
          /\ s = policyQueue[1] /\ policy'[w].scan = s /\ 1 \in 1..Len(policyQueue)
          /\ \A i \in 1..Len(policyQueue') :
               i + 1 \in 2..Len(policyQueue) /\ policyQueue'[i] = policyQueue[i + 1]
    BY <2>1, <1>t, TailElements
  <2>3. Len(policyQueue) \in Nat
    BY <1>t
  <2>4. \A t \in Scans : (\E i \in 1..Len(policyQueue') : policyQueue'[i] = t)
          => \E i \in 1..Len(policyQueue) : policyQueue[i] = t
    BY <2>2, <2>3
  <2>5. ScanFits(s) /\ EvaluationFits(s)
    BY DEF StatusInvariant, ScanFits
  <2>6. /\ Handed(db[s])
        /\ db[s].status = "inventory_ready" \/ (db[s].status = "failed" /\ faults > 0)
    BY <2>2, <2>5 DEF EvaluationFits
  <2>7. EvaluationFits(s)'
    <3>1. PolicyFits(policy[w], db[s])'
      BY <2>1, <2>6 DEF PolicyFits, Handed
    <3>2. ASSUME NEW v \in PolicyWorkers, v # w, policy'[v].scan = s
          PROVE  PolicyFits(policy[v], db[s])'
      BY <2>1, <2>5, <3>2 DEF EvaluationFits, PolicyFits, Handed
    <3>3. QED  BY <2>1, <2>4, <2>5, <3>1, <3>2 DEF EvaluationFits, Handed
  <2>8. WaitingFits(s)' /\ \A v \in IngestWorkers : HeldFits(v, s)'
    BY <2>1, <2>5 DEF ScanFits, WaitingFits, HeldFits, Holds, StartedQueued, ReportQueued,
                      IngestFits, Disturbed
  <2>9. \A t \in Scans \ {s} : Untouched(t)
    BY <2>1, <2>2, <2>4 DEF Untouched, Holds, StartedQueued, ReportQueued
  <2>10. EventsInOrder' /\ Counted
    BY <1>t, <2>1 DEF StatusInvariant, EventsInOrder, Counted
  <2>11. ScanFits(s)'
    BY <2>7, <2>8 DEF ScanFits
  <2>12. StatusInvariant'
    BY <2>9, <2>10, <2>11, OneScanStep
  <2>13. QED  BY <2>1, <2>12, SameStatusStep
<1>3. CASE ~PolicyPop(w)
  <2>1. policy[w].pc # "idle"
    BY <1>1, <1>3, PolicyStepEffect DEF HandOffInvariant
  <2>2. PICK s \in Scans : s = policy[w].scan
    BY <1>t, <2>1
  <2>3. QED  BY <1>1, <1>3, <2>1, <2>2, PolicyQuietKeepsStatus, PolicyStatusKept DEF PolicyStep
<1>4. QED  BY <1>2, <1>3

(*****************************************************************************)
(* Requests, collectors and the shared store                                 *)
(*****************************************************************************)

(* A scan whose job no collector has taken is in nobody's hands.             *)
LEMMA NotCollected ==
  ASSUME HandOffInvariant, StatusInvariant, NEW s \in Scans, collector[s] = "idle"
  PROVE  /\ ~StartedQueued(s) /\ ~ReportQueued(s) /\ ~Announced(s)
         /\ \A w \in IngestWorkers : ~Holds(w, s)
<1>1. ~ReportQueued(s) /\ ~Announced(s)
  BY DEF HandOffInvariant, OneReport, HandedOff, ReportQueued
<1>2. ~StartedQueued(s)
  BY <1>1 DEF StatusInvariant, ScanFits, WaitingFits
<1>3. \A w \in IngestWorkers : ~Holds(w, s)
  BY DEF StatusInvariant, ScanFits, HeldFits
<1>4. QED  BY <1>1, <1>2, <1>3

LEMMA ApiFits ==
  ASSUME HandOffInvariant, StatusInvariant, Counted, NEW s \in Scans,
         UNCHANGED <<collector, platformEvents, policyQueue, ingest, policy>>,
         api[s] \in {"idle", "create", "queue", "push"},
         \A t \in Scans \ {s} : db'[t] = db[t] /\ api'[t] = api[t],
         \A t \in Scans \ {s} : t \in collectJobs' <=> t \in collectJobs,
         api'[s] \in {"idle", "create"} => db'[s].status = "absent",
         api'[s] = "queue" => db'[s].status = "created",
         api'[s] = "push" \/ s \in collectJobs' => db'[s].status = "queued",
         \/ db'[s].status = db[s].status
         \/ db[s].status = "absent" /\ db'[s].status = "created"
         \/ db[s].status = "created" /\ db'[s].status = "queued"
  PROVE  StatusInvariant' /\ StatusStep
<1>1. collector[s] = "idle" /\ s \notin collectJobs
  BY DEF HandOffInvariant, JobQueuedOnce, TypeOK, ServiceTypeOK
<1>2. /\ ~StartedQueued(s) /\ ~ReportQueued(s) /\ ~Announced(s)
      /\ \A w \in IngestWorkers : ~Holds(w, s)
  BY <1>1, NotCollected
<1>3. db[s].status \in {"absent", "created", "queued"}
  BY DEF StatusInvariant, ScanFits, WaitingFits
<1>4. WaitingFits(s)'
  BY <1>1, <1>2 DEF WaitingFits, StartedQueued, ReportQueued
<1>5. \A w \in IngestWorkers : HeldFits(w, s)'
  BY <1>2 DEF HeldFits, Holds
<1>6. EvaluationFits(s)'
  BY <1>2, <1>3 DEF EvaluationFits, Announced
<1>7. \A t \in Scans \ {s} : Untouched(t)
  BY DEF Untouched, StartedQueued, ReportQueued
<1>8. EventsInOrder' /\ ScanFits(s)'
  BY <1>4, <1>5, <1>6 DEF StatusInvariant, EventsInOrder, ScanFits
<1>9. StatusInvariant'
  BY <1>7, <1>8, OneScanStep
<1>10. MayMove(db[s].status, db'[s].status, faults > 0, Disturbed')
  BY TransitionTable DEF MayMove
<1>11. QED  BY <1>9, <1>10 DEF StatusStep, Moved

(* What a send does to the queue.                                            *)
LEMMA SendMoves ==
  ASSUME platformEvents \in Seq(Events), NEW e \in Events,
         platformEvents' = Append(platformEvents, e), EventsInOrder,
         StartedQueued(e.scan) => Report(e), ~ReportQueued(e.scan)
  PROVE  /\ EventsInOrder'
         /\ \A t \in Scans : /\ StartedQueued(t)' <=> StartedQueued(t) \/ (t = e.scan /\ ~Report(e))
                             /\ ReportQueued(t)' <=> ReportQueued(t) \/ (t = e.scan /\ Report(e))
<1> DEFINE n == Len(platformEvents)
<1>1. /\ n \in Nat /\ Len(platformEvents') = n + 1 /\ platformEvents'[n + 1] = e
      /\ \A i \in 1..n : platformEvents'[i] = platformEvents[i]
  BY AppendElements
<1>2. \A i \in 1..Len(platformEvents') :
        \/ i = n + 1 /\ platformEvents'[i] = e
        \/ i \in 1..n /\ platformEvents'[i] = platformEvents[i]
  BY <1>1
<1>3. /\ \A i \in 1..n : i \in 1..Len(platformEvents')
      /\ n + 1 \in 1..Len(platformEvents')
  BY <1>1
<1> HIDE DEF n
<1>4. EventsInOrder'
  <2> SUFFICES ASSUME NEW i \in 1..Len(platformEvents'), NEW j \in 1..Len(platformEvents'),
                      i < j, platformEvents'[i].scan = platformEvents'[j].scan
               PROVE  ~Report(platformEvents'[i]) /\ Report(platformEvents'[j])
    BY DEF EventsInOrder
  <2>1. i \in 1..n /\ platformEvents'[i] = platformEvents[i]
    BY <1>1, <1>2
  <2>2. CASE j \in 1..n /\ platformEvents'[j] = platformEvents[j]
    BY <2>1, <2>2 DEF EventsInOrder, n
  <2>3. CASE platformEvents'[j] = e
    BY <2>1, <2>3 DEF StartedQueued, ReportQueued, n
  <2>4. QED  BY <1>2, <2>2, <2>3
<1>5. ASSUME NEW t \in Scans
      PROVE  /\ StartedQueued(t)' <=> StartedQueued(t) \/ (t = e.scan /\ ~Report(e))
             /\ ReportQueued(t)' <=> ReportQueued(t) \/ (t = e.scan /\ Report(e))
  BY <1>1, <1>2, <1>3 DEF StartedQueued, ReportQueued, n
<1>6. QED  BY <1>4, <1>5

LEMMA CollectorKeepsStatus ==
  ASSUME HandOffInvariant, StatusInvariant, NEW s \in Scans, CollectorStep(s),
         UNCHANGED <<ingest, policy>>
  PROVE  StatusInvariant' /\ StatusStep
<1>t. /\ platformEvents \in Seq(Events) /\ collector \in [Scans -> CollectorPcs]
      /\ faults \in Nat /\ crashes \in Nat
  BY DEF HandOffInvariant, TypeOK, StoreTypeOK, ServiceTypeOK
<1>o. EventsInOrder /\ ScanFits(s)
  BY DEF StatusInvariant
<1>u. UNCHANGED <<db, api, policyQueue, faults, crashes, ingest, policy>>
  BY DEF CollectorStep, CollectorStart, CollectorFinish
<1>c. Counted
  BY <1>t, <1>u DEF Counted
<1>v. EvaluationFits(s)'
  BY <1>o, <1>u DEF ScanFits, EvaluationFits, PolicyFits, Handed
<1>1. CASE CollectorStart(s)
  <2> DEFINE e == CollectionStarted(s)
  <2>1. /\ s \in collectJobs /\ collectJobs' = collectJobs \ {s}
        /\ collector' = [collector EXCEPT ![s] = "running"]
        /\ platformEvents' = Append(platformEvents, e)
    BY <1>1 DEF CollectorStart, Send
  <2>2. e \in Events /\ ~Report(e) /\ e.scan = s
    BY DEF CollectionStarted, Events, CollectionStatuses, Report
  <2> HIDE DEF e
  <2>3. collector[s] = "idle" /\ api[s] \in {"done", "error"}
    BY <2>1, <1>t DEF HandOffInvariant, JobQueuedOnce, CollectorPcs
  <2>4. /\ ~StartedQueued(s) /\ ~ReportQueued(s) /\ ~Announced(s)
        /\ \A w \in IngestWorkers : ~Holds(w, s)
    BY <2>3, NotCollected
  <2>5. /\ EventsInOrder'
        /\ \A t \in Scans : /\ StartedQueued(t)' <=> StartedQueued(t) \/ t = s
                            /\ ReportQueued(t)' <=> ReportQueued(t)
    BY <1>o, <1>t, <2>1, <2>2, <2>4, SendMoves
  <2>6. db[s].status = "queued"
    BY <1>o, <2>1 DEF ScanFits, WaitingFits
  <2>7. WaitingFits(s)'
    BY <1>t, <1>u, <2>1, <2>3, <2>5, <2>6 DEF WaitingFits
  <2>8. \A w \in IngestWorkers : HeldFits(w, s)'
    BY <1>u, <2>4 DEF HeldFits, Holds
  <2>9. \A t \in Scans \ {s} : Untouched(t)
    BY <1>t, <1>u, <2>1, <2>5 DEF Untouched
  <2>10. ScanFits(s)'
    BY <1>v, <2>7, <2>8 DEF ScanFits
  <2>11. StatusInvariant'
    BY <1>c, <2>5, <2>9, <2>10, OneScanStep
  <2>12. QED  BY <1>u, <2>11, SameStatusStep
<1>2. CASE CollectorFinish(s)
  <2>1. /\ collector[s] = "running" /\ UNCHANGED collectJobs
        /\ collector' = [collector EXCEPT ![s] = "done"]
    BY <1>2 DEF CollectorFinish
  <2>2. PICK e \in Events :
          e.scan = s /\ Report(e) /\ platformEvents' = Append(platformEvents, e)
    <3>1. \A auth \in BOOLEAN :
            /\ CollectionFailed(s, auth) \in Events /\ CollectionFailed(s, auth).scan = s
            /\ Report(CollectionFailed(s, auth))
      BY DEF CollectionFailed, Events, CollectionStatuses, Report
    <3>2. \A auth \in BOOLEAN, status \in CollectionStatuses, snap \in Snapshots :
            /\ CollectionCompleted(s, status, snap, auth) \in Events
            /\ CollectionCompleted(s, status, snap, auth).scan = s
            /\ Report(CollectionCompleted(s, status, snap, auth))
      BY StoreAssumption DEF CollectionCompleted, Events, Report, StoreAssumption
    <3>3. QED  BY <1>2, <3>1, <3>2, StoreAssumption DEF CollectorFinish, Send, StoreAssumption
  <2>3. /\ ~ReportQueued(s) /\ \A w \in IngestWorkers : ~HoldsReport(w, s)
        /\ api[s] \in {"done", "error"} /\ s \notin collectJobs
    BY <2>1 DEF HandOffInvariant, OneReport, ReportQueued, JobQueuedOnce
  <2>4. /\ EventsInOrder'
        /\ \A t \in Scans : /\ StartedQueued(t)' <=> StartedQueued(t)
                            /\ ReportQueued(t)' <=> ReportQueued(t) \/ t = s
    BY <1>o, <1>t, <2>2, <2>3, SendMoves
  <2>5. WaitingFits(s)'
    BY <1>o, <1>t, <1>u, <2>1, <2>3, <2>4 DEF ScanFits, WaitingFits, Holds, Disturbed
  <2>6. \A w \in IngestWorkers : HeldFits(w, s)'
    BY <1>o, <1>t, <1>u, <2>1, <2>4 DEF ScanFits, HeldFits, Holds, IngestFits, Disturbed
  <2>7. \A t \in Scans \ {s} : Untouched(t)
    BY <1>t, <1>u, <2>1, <2>4 DEF Untouched
  <2>8. ScanFits(s)'
    BY <1>v, <2>5, <2>6 DEF ScanFits
  <2>9. StatusInvariant'
    BY <1>c, <2>4, <2>7, <2>8, OneScanStep
  <2>10. QED  BY <1>u, <2>9, SameStatusStep
<1>3. QED  BY <1>1, <1>2 DEF CollectorStep

LEMMA ServiceKeepsStatus ==
  ASSUME HandOffInvariant, StatusInvariant, ServiceNext, UNCHANGED <<ingest, policy>>
  PROVE  StatusInvariant' /\ StatusStep
<1>t. /\ db \in [Scans -> Rows] /\ api \in [Scans -> ApiPcs] /\ faults \in Nat /\ crashes \in Nat
  BY DEF HandOffInvariant, TypeOK, StoreTypeOK, ServiceTypeOK
<1>s. PICK s \in Scans : ReadIntegration(s) \/ ApiStep(s) \/ ApiCrash(s) \/ CollectorStep(s)
  BY DEF ServiceNext
<1>w. /\ api[s] \in {"idle", "create"} => db[s].status = "absent"
      /\ api[s] = "queue" => db[s].status = "created"
      /\ api[s] = "push" => db[s].status = "queued"
      /\ api[s] \in {"idle", "create", "queue", "push"} => s \notin collectJobs
  BY DEF HandOffInvariant, JobQueuedOnce, StatusInvariant, ScanFits, WaitingFits
<1>c. faults' \in {faults, faults + 1} /\ crashes' \in {crashes, crashes + 1} => Counted
  BY <1>t DEF Counted
<1>1. CASE ReadIntegration(s)
  <2>1. /\ api[s] = "idle" /\ api'[s] = "create" /\ UNCHANGED <<store, collector>>
        /\ \A t \in Scans \ {s} : api'[t] = api[t]
    BY <1>1, <1>t DEF ReadIntegration, ApiGoto
  <2>2. QED  BY <1>c, <1>w, <2>1, ApiFits DEF store
<1>2. CASE ApiCrash(s)
  <2>1. /\ api[s] \in {"create", "queue", "push"} /\ api'[s] = "error" /\ crashes' = crashes + 1
        /\ \A t \in Scans \ {s} : api'[t] = api[t]
        /\ UNCHANGED <<db, collector, collectJobs, platformEvents, policyQueue, faults>>
    BY <1>2, <1>t DEF ApiCrash, ApiGoto, Dies
  <2>2. QED  BY <1>c, <1>w, <2>1, ApiFits
<1>3. CASE PushJob(s)
  <2>1. /\ api[s] = "push" /\ api'[s] \in {"done", "error"}
        /\ \A t \in Scans \ {s} : api'[t] = api[t]
        /\ collectJobs' \in {collectJobs, collectJobs \cup {s}}
        /\ faults' \in {faults, faults + 1}
        /\ UNCHANGED <<db, collector, platformEvents, policyQueue, crashes>>
    BY <1>3, <1>t DEF PushJob, ApiGoto, Raises
  <2>2. QED  BY <1>c, <1>w, <2>1, ApiFits
<1>4. ASSUME NEW at \in {"create", "queue"}, NEW st, NEW next,
             ApiCall(s, at, update_status(s, st), next)
      PROVE  /\ api[s] = at /\ \A t \in Scans \ {s} : api'[t] = api[t] /\ db'[t] = db[t]
             /\ \/ api'[s] = next /\ db'[s].status = st
                \/ api'[s] = "error" /\ db'[s].status \in {db[s].status, st}
             /\ faults' \in {faults, faults + 1}
             /\ UNCHANGED <<collector, collectJobs, platformEvents, policyQueue, crashes>>
  <2> DEFINE row == update_status(s, st)
  <2>1. row.status = st
    BY <1>t DEF update_status, Rows
  <2> HIDE DEF row
  <2>2. ApiCall(s, at, row, next)
    BY <1>4 DEF row
  <2>3. QED  BY <1>t, <2>1, <2>2 DEF ApiCall, ApiGoto, Write, WriteOrNot, Raises
<1>5. CASE CreateScan(s)
  <2>1. ApiCall(s, "create", update_status(s, "created"), "queue")
    BY <1>5 DEF CreateScan
  <2>2. /\ api[s] = "create" /\ \A t \in Scans \ {s} : api'[t] = api[t] /\ db'[t] = db[t]
        /\ \/ api'[s] = "queue" /\ db'[s].status = "created"
           \/ api'[s] = "error" /\ db'[s].status \in {db[s].status, "created"}
        /\ faults' \in {faults, faults + 1}
        /\ UNCHANGED <<collector, collectJobs, platformEvents, policyQueue, crashes>>
    BY <1>4, <2>1
  <2>3. QED  BY <1>c, <1>w, <2>2, ApiFits
<1>6. CASE QueueScan(s)
  <2>1. ApiCall(s, "queue", update_status(s, "queued"), "push")
    BY <1>6 DEF QueueScan
  <2>2. /\ api[s] = "queue" /\ \A t \in Scans \ {s} : api'[t] = api[t] /\ db'[t] = db[t]
        /\ \/ api'[s] = "push" /\ db'[s].status = "queued"
           \/ api'[s] = "error" /\ db'[s].status \in {db[s].status, "queued"}
        /\ faults' \in {faults, faults + 1}
        /\ UNCHANGED <<collector, collectJobs, platformEvents, policyQueue, crashes>>
    BY <1>4, <2>1
  <2>3. QED  BY <1>c, <1>w, <2>2, ApiFits
<1>7. QED  BY <1>s, <1>1, <1>2, <1>3, <1>5, <1>6, CollectorKeepsStatus DEF ApiStep

(* Lost queues leave a scan where it is.                                     *)
LEMMA RestartKeepsStatus ==
  ASSUME HandOffInvariant, StatusInvariant, RedisRestart,
         UNCHANGED <<api, collector, ingest, policy>>
  PROVE  StatusInvariant' /\ StatusStep
<1>1. /\ UNCHANGED <<db, faults>> /\ crashes' = crashes + 1 /\ crashes \in Nat
      /\ collectJobs' = {} /\ platformEvents' = <<>> /\ policyQueue' = <<>>
  BY DEF RedisRestart, Dies, HandOffInvariant, TypeOK, StoreTypeOK
<1>2. Disturbed'
  BY <1>1 DEF Disturbed
<1>3. EventsInOrder'
  BY <1>1 DEF EventsInOrder
<1>4. ASSUME NEW s \in Scans
      PROVE  ScanFits(s)'
  <2>1. ScanFits(s)
    BY DEF StatusInvariant
  <2>2. ~StartedQueued(s)' /\ ~ReportQueued(s)'
    BY <1>1 DEF StartedQueued, ReportQueued
  <2>3. WaitingFits(s)'
    BY <1>1, <1>2, <2>1, <2>2 DEF ScanFits, WaitingFits
  <2>4. \A w \in IngestWorkers : HeldFits(w, s)'
    BY <1>1, <1>2, <2>1, <2>2 DEF ScanFits, HeldFits, Holds, IngestFits
  <2>5. EvaluationFits(s)'
    BY <1>1, <2>1 DEF ScanFits, EvaluationFits, PolicyFits, Handed
  <2>6. QED  BY <2>3, <2>4, <2>5 DEF ScanFits
<1>5. QED  BY <1>1, <1>3, <1>4, SameStatusStep DEF StatusInvariant

(*****************************************************************************)
(* The theorems                                                              *)
(*****************************************************************************)

LEMMA InitStatus == Init => StatusInvariant
<1> SUFFICES ASSUME Init
             PROVE  StatusInvariant
  OBVIOUS
<1>1. /\ platformEvents = <<>> /\ policyQueue = <<>> /\ collectJobs = {}
      /\ \A s \in Scans : db[s].status = "absent" /\ api[s] = "idle" /\ collector[s] = "idle"
      /\ \A w \in IngestWorkers : ingest[w].pc = "idle"
      /\ \A w \in PolicyWorkers : policy[w].scan = None
      /\ None \notin Scans
  BY StoreAssumption DEF StoreAssumption, Init, StoreInit, ServiceInit, IngestInit, PolicyInit,
                         NoRow, IngestIdle, PolicyIdle
<1>2. \A s \in Scans : ~StartedQueued(s) /\ ~ReportQueued(s)
  BY <1>1 DEF StartedQueued, ReportQueued
<1>3. EventsInOrder
  BY <1>1 DEF EventsInOrder
<1>4. \A s \in Scans : ScanFits(s)
  BY <1>1, <1>2 DEF ScanFits, WaitingFits, HeldFits, Holds, EvaluationFits
<1>5. QED  BY <1>3, <1>4 DEF StatusInvariant

LEMMA NextStatus ==
  OneIngestWorker /\ HandOffInvariant /\ StatusInvariant /\ [Next]_vars
    => StatusInvariant' /\ StatusStep
<1> SUFFICES ASSUME OneIngestWorker, HandOffInvariant, StatusInvariant, [Next]_vars
             PROVE  StatusInvariant' /\ StatusStep
  OBVIOUS
<1>1. CASE ServiceNext /\ UNCHANGED <<ingest, policy>>
  BY <1>1, ServiceKeepsStatus
<1>2. CASE IngestNext /\ UNCHANGED <<api, collector, policy>>
  BY <1>2, IngestKeepsStatus
<1>3. CASE PolicyNext /\ UNCHANGED <<api, collector, ingest>>
  BY <1>3, PolicyKeepsStatus
<1>4. CASE RedisRestart /\ UNCHANGED <<api, collector, ingest, policy>>
  BY <1>4, RestartKeepsStatus
<1>5. CASE \/ ReactivateIntegration /\ UNCHANGED <<api, collector, ingest, policy>>
           \/ UNCHANGED vars
  <2>1. UNCHANGED <<db, collectJobs, platformEvents, policyQueue, faults, crashes,
                    api, collector, ingest, policy>>
    BY <1>5 DEF ReactivateIntegration, vars, store
  <2>2. Counted
    BY <2>1 DEF Counted, HandOffInvariant, TypeOK, StoreTypeOK
  <2>3. \A s \in Scans : Untouched(s)
    BY <2>1 DEF Untouched, StartedQueued, ReportQueued
  <2>4. \A s \in Scans : ScanFits(s)'
    BY <2>2, <2>3, UntouchedFits DEF StatusInvariant
  <2>5. EventsInOrder'
    BY <2>1 DEF StatusInvariant, EventsInOrder
  <2>6. QED  BY <2>1, <2>4, <2>5, SameStatusStep DEF StatusInvariant
<1>6. QED  BY <1>1, <1>2, <1>3, <1>4, <1>5 DEF Next

(* What each process believes of the status of the scan in its hands holds,  *)
(* although update_status never checks it.                                   *)
THEOREM StatusHolds ==
  ASSUME OneIngestWorker
  PROVE  Spec => [](HandOffInvariant /\ StatusInvariant)
<1>1. Init => HandOffInvariant /\ StatusInvariant
  BY InitHandOff, InitStatus
<1>2. HandOffInvariant /\ StatusInvariant /\ [Next]_vars
        => HandOffInvariant' /\ StatusInvariant'
  BY NextHandOff, NextStatus
<1>3. QED  BY <1>1, <1>2, PTL DEF Spec

(* The policy worker reads collection_runs.status in one transaction and     *)
(* writes the scan's status in another; the two agree ever after.            *)
THEOREM FinalStatusIsRight ==
  ASSUME OneIngestWorker
  PROVE  Spec => []FinalStatusMatchesCollection
<1>1. HandOffInvariant /\ StatusInvariant => FinalStatusMatchesCollection
  BY DEF StatusInvariant, ScanFits, EvaluationFits, FinalStatusMatchesCollection
<1>2. QED  BY <1>1, StatusHolds, PTL

(* A scan that ended is reopened by nothing but the consequences of a raised *)
(* call: not by crashes, lost queues or the order the workers run in.        *)
THEOREM OnlyARaiseReopens ==
  ASSUME OneIngestWorker
  PROVE  Spec => ReopenedOnlyAfterRaise
<1>1. HandOffInvariant /\ StatusInvariant /\ [Next]_vars
        => [\A s \in Scans :
              faults = 0 /\ db[s].status \in {"completed", "failed"}
                => db'[s].status = db[s].status]_vars
  <2> SUFFICES ASSUME HandOffInvariant, StatusInvariant, [Next]_vars,
                      NEW s \in Scans, faults = 0, db[s].status \in {"completed", "failed"}
               PROVE  db'[s].status = db[s].status
    OBVIOUS
  <2>1. StatusStep
    BY NextStatus
  <2>2. ASSUME NEW t \in Scans, Moved(t)
        PROVE  db'[s].status = db[s].status
    BY <2>2 DEF Moved, MayMove
  <2>3. QED  BY <2>1, <2>2 DEF StatusStep
<1>2. QED  BY <1>1, StatusHolds, PTL DEF Spec, ReopenedOnlyAfterRaise

(* No step uncounts a call that raised or a process that died.               *)
LEMMA NextCounts == TypeOK /\ [Next]_vars => Counted
<1> DEFINE Counts == faults' \in {faults, faults + 1} /\ crashes' \in {crashes, crashes + 1}
<1> SUFFICES ASSUME TypeOK, [Next]_vars
             PROVE  Counts
  BY DEF Counted, TypeOK, StoreTypeOK
<1>r. Raises => faults' = faults + 1
  BY DEF Raises
<1>d. Dies => crashes' = crashes + 1
  BY DEF Dies
<1>1. CASE ServiceNext
  <2>1. PICK s \in Scans : ReadIntegration(s) \/ ApiStep(s) \/ ApiCrash(s) \/ CollectorStep(s)
    BY <1>1 DEF ServiceNext
  <2>2. CASE ReadIntegration(s) \/ PushJob(s) \/ ApiCrash(s) \/ CollectorStep(s)
    BY <1>r, <1>d, <2>2 DEF ReadIntegration, PushJob, ApiCrash, CollectorStep, CollectorStart,
                            CollectorFinish, store
  <2>3. CASE CreateScan(s) \/ QueueScan(s)
    BY <1>r, <2>3 DEF CreateScan, QueueScan, ApiCall
  <2>4. QED  BY <2>1, <2>2, <2>3 DEF ApiStep
<1>2. CASE IngestNext
  <2>1. PICK w \in IngestWorkers : IngestStep(w) \/ IngestCrash(w)
    BY <1>2 DEF IngestNext
  <2>2. ASSUME NEW at, NEW row, NEW next, NEW handler, IngestCall(w, at, row, next, handler)
        PROVE  Counts
    BY <1>r, <2>2 DEF IngestCall
  <2>3. CASE \/ IngestPop(w) \/ IngestMarkInvalid(w) \/ IngestReadSnapshot(w)
             \/ IngestInsertResource(w) \/ IngestPublish(w) \/ IngestCrash(w)
    BY <1>r, <1>d, <2>3 DEF IngestPop, IngestMarkInvalid, IngestReadSnapshot,
                            IngestInsertResource, IngestPublish, IngestCrash
  <2> HIDE DEF Counts
  <2>4. CASE \/ IngestAppendEvent(w) \/ IngestSetCollecting(w) \/ IngestRunRunning(w)
             \/ IngestSetFailed(w) \/ IngestRunFailed(w) \/ IngestAppendScanCompleted(w)
    BY <2>2, <2>4 DEF IngestAppendEvent, IngestSetCollecting, IngestRunRunning,
                      IngestSetFailed, IngestRunFailed, IngestAppendScanCompleted
  <2>5. CASE \/ IngestSetCollected(w) \/ IngestRunCollected(w) \/ IngestSetIngesting(w)
             \/ IngestInsertRelationships(w) \/ IngestSetInventoryReady(w)
             \/ IngestAppendInventoryUpdated(w) \/ IngestOnError(w)
    BY <2>2, <2>5 DEF IngestSetCollected, IngestRunCollected, IngestSetIngesting,
                      IngestInsertRelationships, IngestSetInventoryReady,
                      IngestAppendInventoryUpdated, IngestOnError
  <2>6. QED  BY <2>1, <2>3, <2>4, <2>5 DEF IngestStep
<1>3. CASE PolicyNext
  <2>1. PICK w \in PolicyWorkers : PolicyStep(w) \/ PolicyCrash(w)
    BY <1>3 DEF PolicyNext
  <2>2. ASSUME NEW at, NEW row, NEW next, NEW handler, PolicyCall(w, at, row, next, handler)
        PROVE  Counts
    BY <1>r, <2>2 DEF PolicyCall
  <2>3. CASE \/ PolicyPop(w) \/ PolicyCheckStatus(w) \/ PolicyListAssets(w)
             \/ PolicyUpsertFinding(w) \/ PolicyCompleteRun(w) \/ PolicyMapScore(w)
             \/ PolicyGetRun(w) \/ PolicyCrash(w)
    BY <1>r, <1>d, <2>3 DEF PolicyPop, PolicyCheckStatus, PolicyListAssets, PolicyUpsertFinding,
                            PolicyCompleteRun, PolicyMapScore, PolicyGetRun, PolicyCrash,
                            PolicyQueryRaises, store
  <2> HIDE DEF Counts
  <2>4. CASE \/ PolicyAppendEvaluate(w) \/ PolicySetEvaluating(w) \/ PolicyStartRun(w)
             \/ PolicyMapControls(w) \/ PolicySetFinal(w)
    BY <2>2, <2>4 DEF PolicyAppendEvaluate, PolicySetEvaluating, PolicyStartRun,
                      PolicyMapControls, PolicySetFinal
  <2>5. CASE \/ PolicyAppendPolicyCompleted(w) \/ PolicyAppendComplianceUpdated(w)
             \/ PolicyAppendScanCompleted(w) \/ PolicyFailRun(w) \/ PolicySetFailed(w)
             \/ PolicyAppendScanFailed(w)
    BY <2>2, <2>5 DEF PolicyAppendPolicyCompleted, PolicyAppendComplianceUpdated,
                      PolicyAppendScanCompleted, PolicyFailRun, PolicySetFailed,
                      PolicyAppendScanFailed
  <2>6. QED  BY <2>1, <2>3, <2>4, <2>5 DEF PolicyStep
<1>4. CASE ReactivateIntegration \/ RedisRestart \/ UNCHANGED vars
  BY <1>d, <1>4 DEF ReactivateIntegration, RedisRestart, vars, store
<1> HIDE DEF Counts
<1>5. QED  BY <1>1, <1>2, <1>3, <1>4 DEF Next

(* The statuses as ScanLifecycle orders them, where the pipeline slips.      *)
LEMMA Stages ==
  /\ Lifecycle!Stage["collected"] > Lifecycle!Stage["queued"]
  /\ \A st \in {"evaluating", "completed", "completed_with_errors"} :
       Lifecycle!Stage[st] >= Lifecycle!Stage["evaluating"]
  BY DEF Lifecycle!Stage, Lifecycle!ScanStatus

(* One scan moves as MayMove allows: a step of ScanLifecycle.                *)
LEMMA MoveRefines ==
  ASSUME TypeOK, TypeOK', Counted, NEW s \in Scans, Moved(s)
  PROVE  Lifecycle!LifecycleNext
<1> DEFINE status == [t \in Scans |-> db[t].status]
           old == db[s].status
           new == db'[s].status
<1>t. /\ old \in ScanStatus \cup {"absent"} /\ new \in ScanStatus \cup {"absent"}
      /\ "absent" \notin ScanStatus
  BY DEF TypeOK, StoreTypeOK, Rows, ScanStatus
<1>d. /\ faults + crashes > 0 => faults' + crashes' > 0
      /\ Disturbed' => faults' + crashes' > 0
  BY DEF Counted, Disturbed
<1>1. status' = [status EXCEPT ![s] = new]
  BY DEF Moved
<1>2. MayMove(old, new, faults > 0, Disturbed')
  BY DEF Moved
<1>3. CASE new = old
  <2>1. status' = status
    BY <1>1, <1>3
  <2>2. QED  BY <1>d, <2>1 DEF Lifecycle!LifecycleNext
<1>4. CASE old = "absent" /\ new = "created"
  <2>1. Lifecycle!Create(s)
    BY <1>1, <1>4 DEF Lifecycle!Create
  <2>2. QED  BY <1>d, <2>1 DEF Lifecycle!LifecycleNext
<1>5. CASE old # "absent" /\ new \in ALLOWED_TRANSITIONS[old]
  <2>1. Lifecycle!Transition(s)
    BY <1>t, <1>1, <1>5 DEF Lifecycle!Transition, Lifecycle!ALLOWED_TRANSITIONS,
                            Lifecycle!ScanStatus, ALLOWED_TRANSITIONS, ScanStatus
  <2>2. QED  BY <1>d, <2>1 DEF Lifecycle!LifecycleNext
<1>6. CASE /\ old # "absent" /\ Disturbed'
           /\ \/ new = "failed"
              \/ old = "queued" /\ new = "collected"
              \/ old = "failed" /\ new \in {"evaluating", "completed", "completed_with_errors"}
  <2>1. old \in ScanStatus /\ new \in ScanStatus
    BY <1>t, <1>6 DEF ScanStatus
  <2>2. \/ new = "failed"
        \/ /\ new # "failed"
           /\ \/ old = "failed" /\ Lifecycle!Stage[new] >= Lifecycle!Stage["evaluating"]
              \/ old # "failed" /\ Lifecycle!Stage[new] > Lifecycle!Stage[old]
    BY <1>6, Stages
  <2> HIDE DEF old, new, status
  <2>3. Lifecycle!Slip(s)
    BY <1>d, <1>1, <1>6, <2>1, <2>2 DEF Lifecycle!Slip, Lifecycle!ScanStatus, ScanStatus, status, old
  <2>4. QED  BY <1>d, <2>3 DEF Lifecycle!LifecycleNext
<1>7. QED  BY <1>2, <1>3, <1>4, <1>5, <1>6 DEF MayMove

(* The pipeline implements the life cycle: no writer of scans.status looks   *)
(* at the status it replaces, yet every write is a step of ScanLifecycle.    *)
THEOREM PipelineRefinesLifecycle ==
  ASSUME OneIngestWorker
  PROVE  Spec => LifecycleRefined
<1>1. Init => Lifecycle!LifecycleInit
  BY DEF Init, StoreInit, NoRow, Lifecycle!LifecycleInit
<1>2. HandOffInvariant /\ StatusInvariant /\ HandOffInvariant' /\ [Next]_vars
        => [Lifecycle!LifecycleNext]_<<[s \in Scans |-> db[s].status], faults + crashes > 0>>
  <2> SUFFICES ASSUME HandOffInvariant, StatusInvariant, HandOffInvariant', [Next]_vars
               PROVE  Lifecycle!LifecycleNext
    OBVIOUS
  <2>1. TypeOK /\ TypeOK' /\ Counted /\ StatusStep
    BY NextStatus, NextCounts DEF HandOffInvariant
  <2>2. CASE \A t \in Scans : db'[t].status = db[t].status
    <3>1. UNCHANGED [s \in Scans |-> db[s].status]
      BY <2>2
    <3>2. faults + crashes > 0 => faults' + crashes' > 0
      BY <2>1 DEF Counted
    <3>3. QED  BY <3>1, <3>2 DEF Lifecycle!LifecycleNext
  <2>3. QED  BY <2>1, <2>2, MoveRefines DEF StatusStep
<1>3. QED  BY <1>1, <1>2, StatusHolds, PTL DEF Spec, LifecycleRefined, Lifecycle!LifecycleSpec

=============================================================================
