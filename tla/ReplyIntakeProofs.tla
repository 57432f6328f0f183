-------------------------- MODULE ReplyIntakeProofs --------------------------
(***************************************************************************)
(* EngineCallsAreSimultaneous and NoReplyVanishes for any deliveries, keys *)
(* and clock.  An execution that is past the duplicate router knows the    *)
(* time at which the row of its key was created, because it wrote it       *)
(* itself or wrote the same time once more; the row keeps it for ever.     *)
(* And the execution that created a row was not dropped, whatever became   *)
(* of it later.                                                            *)
(***************************************************************************)
EXTENDS ReplyIntake, TLAPS

\* Executions that node E4 let through, and those that have not come to E2.
Admitted(d) == pc[d] \in {"G", "H", "HANDED_OVER"} \/ d \in engine
Early(d) == pc[d] \in {"idle", "E2", "REJECTED"}

EarlyHasNoClaim == \A d \in Deliveries : Early(d) => claimedAt[d] = Nothing /\ d \notin engine
ClaimHasRow ==
    \A d \in Deliveries : claimedAt[d] # Nothing => rows[KeyOf(d)] # Nothing
AdmittedCreated ==
    \A d \in Deliveries :
      Admitted(d) => /\ claimedAt[d] # Nothing
                     /\ rows[KeyOf(d)].createdAt = claimedAt[d]
\* The error workflow has tried to store a record before it goes on.
PersistTried ==
    \A x \in Reporters :
      handler[x] \in {"E", "done"} =>
        x \in RecordedExecutions \/ <<x, "C">> \in lost

IInv ==
    /\ TypeOK /\ NoReplyVanishes
    /\ EarlyHasNoClaim /\ ClaimHasRow /\ AdmittedCreated /\ PersistTried

-----------------------------------------------------------------------------
LEMMA TriggerItemIsFlat == TriggerItem # Nothing
BY NothingAssumption DEF TriggerItem, Flat

LEMMA InitIInv == Init => IInv
BY MaxClockAssumption
   DEF Init, IInv, TypeOK, NoReplyVanishes, EarlyHasNoClaim, ClaimHasRow, AdmittedCreated,
       PersistTried, Early, Admitted, Clock, Reporters

\* An upsert leaves a proper row, with the creation time that was there.
LEMMA UpsertedRowType ==
    ASSUME TypeOK, NEW d \in Deliveries, pc[d] = "E2"
    PROVE  /\ KeyOf(d) \in Keys
           /\ UpsertedRow(d) \in Row
           /\ UpsertedRow(d) # Nothing
           /\ UpsertedRow(d).updatedAt = now
           /\ rows[KeyOf(d)] # Nothing =>
                UpsertedRow(d).createdAt = rows[KeyOf(d)].createdAt
           /\ rows[KeyOf(d)] = Nothing => UpsertedRow(d).createdAt = now
<1>1. item[d] \in Item  BY DEF TypeOK
<1>2. KeyOf(d) \in Keys
  BY <1>1, EventsAssumption DEF Item, Event, KeyOf
<1>3. rows[KeyOf(d)] = Nothing \/ rows[KeyOf(d)] \in Row  BY <1>2 DEF TypeOK
<1>4. ProposedState(item[d].event) \in {"REJECTED", "READY_FOR_DECISION"}
  BY DEF ProposedState
<1>5. UpsertedRow(d) \in Row
  BY <1>2, <1>3, <1>4 DEF UpsertedRow, Row, TypeOK
<1> QED  BY <1>2, <1>5, NothingAssumption DEF UpsertedRow

\* The types.  Only E2 and C build new values.
LEMMA StepType == TypeOK /\ [Next]_vars => TypeOK'
<1> SUFFICES ASSUME TypeOK, [Next]_vars PROVE TypeOK'  OBVIOUS
<1> USE TriggerItemIsFlat DEF intake, handling, Running, Ends, Reporters
<1>1. ASSUME Tick PROVE TypeOK'
  BY <1>1, MaxClockAssumption DEF Tick, TypeOK, Clock
<1>2. ASSUME NEW d \in Deliveries, Receive(d) PROVE TypeOK'
  BY <1>2, NothingAssumption DEF Receive, Normalize, Tag, TypeOK, Item
<1>3. ASSUME NEW d \in Deliveries, Upsert(d) PROVE TypeOK'
  BY <1>3, UpsertedRowType DEF Upsert, TypeOK
<1>4. ASSUME NEW d \in Deliveries, UpsertFails(d) PROVE TypeOK'
  BY <1>4, UpsertedRowType DEF UpsertFails, Fail, TypeOK
<1>5. ASSUME NEW d \in Deliveries, Decide(d) PROVE TypeOK'
  BY <1>5 DEF Decide, TypeOK
<1>6. ASSUME NEW d \in Deliveries, DecideFails(d) PROVE TypeOK'
  BY <1>6 DEF DecideFails, Fail, TypeOK
<1>7. ASSUME NEW d \in Deliveries, HandOver(d) PROVE TypeOK'
  BY <1>7 DEF HandOver, TypeOK
<1>8. ASSUME NEW d \in Deliveries, HandOverFails(d) PROVE TypeOK'
  BY <1>8 DEF HandOverFails, Fail, TypeOK
<1>9. ASSUME NEW x \in HarnessReports, Report(x) PROVE TypeOK'
  BY <1>9, FlatItemsAssumption, NothingAssumption DEF Report, TypeOK
<1>10. ASSUME NEW x \in Reporters, Persist(x) PROVE TypeOK'
  BY <1>10 DEF Persist, TypeOK
<1>11. ASSUME NEW x \in Reporters, Notify(x) PROVE TypeOK'
  BY <1>11 DEF Notify, TypeOK
<1>12. ASSUME Crash PROVE TypeOK'
  BY <1>12 DEF Crash, TypeOK
<1>13. ASSUME UNCHANGED vars PROVE TypeOK'
  BY <1>13 DEF vars, TypeOK
<1> QED
  BY <1>1, <1>2, <1>3, <1>4, <1>5, <1>6, <1>7, <1>8, <1>9, <1>10, <1>11, <1>12,
     <1>13 DEF Next, DeliveryNext, HandlerNext

\* What an execution knows of its row.
Known == EarlyHasNoClaim /\ ClaimHasRow /\ AdmittedCreated
LEMMA StepKnown == TypeOK /\ Known /\ [Next]_vars => Known'
<1> SUFFICES ASSUME TypeOK, Known, [Next]_vars PROVE Known'  OBVIOUS
<1> USE DEF intake, handling, Running, Known, EarlyHasNoClaim, ClaimHasRow, AdmittedCreated,
            Early, Admitted
<1>1. ASSUME Tick PROVE Known'
  BY <1>1 DEF Tick, KeyOf
<1>2. ASSUME NEW d \in Deliveries, Receive(d) PROVE Known'
  BY <1>2 DEF Receive, KeyOf, TypeOK
<1>3. ASSUME NEW d \in Deliveries, Upsert(d) PROVE Known'
  BY <1>3, UpsertedRowType, NothingAssumption DEF Upsert, IsDuplicate, KeyOf, TypeOK
<1>4. ASSUME NEW d \in Deliveries, UpsertFails(d) PROVE Known'
  <2>1. /\ pc' = [pc EXCEPT ![d] = "FAILED"] /\ pc[d] = "E2"
        /\ UNCHANGED <<item, engine>>
    BY <1>4 DEF UpsertFails, Fail
  <2>2. d \notin engine /\ claimedAt[d] = Nothing  BY <2>1
  <2>3. CASE UNCHANGED <<rows, claimedAt>>
    BY <2>1, <2>2, <2>3 DEF KeyOf, TypeOK
  <2>4. CASE /\ rows' = [rows EXCEPT ![KeyOf(d)] = UpsertedRow(d)]
             /\ claimedAt' = [claimedAt EXCEPT ![d] = now]
    BY <2>1, <2>2, <2>4, UpsertedRowType, NothingAssumption DEF KeyOf, TypeOK
  <2> QED  BY <1>4, <2>3, <2>4 DEF UpsertFails
<1>5. ASSUME NEW d \in Deliveries, Decide(d) PROVE Known'
  BY <1>5 DEF Decide, KeyOf, TypeOK
<1>6. ASSUME NEW d \in Deliveries, DecideFails(d) PROVE Known'
  BY <1>6 DEF DecideFails, Fail, KeyOf, TypeOK
<1>7. ASSUME NEW d \in Deliveries, HandOver(d) PROVE Known'
  BY <1>7 DEF HandOver, KeyOf, TypeOK
<1>8. ASSUME NEW d \in Deliveries, HandOverFails(d) PROVE Known'
  BY <1>8 DEF HandOverFails, Fail, KeyOf, TypeOK
<1>9. ASSUME NEW x \in HarnessReports, Report(x) PROVE Known'
  BY <1>9 DEF Report, KeyOf
<1>10. ASSUME NEW x \in Reporters, Persist(x) PROVE Known'
  BY <1>10 DEF Persist, KeyOf
<1>11. ASSUME NEW x \in Reporters, Notify(x) PROVE Known'
  BY <1>11 DEF Notify, KeyOf
<1>12. ASSUME Crash PROVE Known'
  BY <1>12 DEF Crash, KeyOf, TypeOK
<1>13. ASSUME UNCHANGED vars PROVE Known'
  BY <1>13 DEF vars, KeyOf
<1> QED
  BY <1>1, <1>2, <1>3, <1>4, <1>5, <1>6, <1>7, <1>8, <1>9, <1>10, <1>11, <1>12,
     <1>13 DEF Next, DeliveryNext, HandlerNext

\* A record names the execution that it is about.
LEMMA RecordNames == \A x, i : ErrorRecord(x, i).execution = x
BY DEF ErrorRecord

LEMMA StepPersistTried == TypeOK /\ PersistTried /\ [Next]_vars => PersistTried'
<1> SUFFICES ASSUME TypeOK, PersistTried, [Next]_vars PROVE PersistTried'  OBVIOUS
<1> USE DEF intake, handling, Running, PersistTried, RecordedExecutions, TypeOK, Reporters
<1>1. CASE UNCHANGED <<handler, errors, lost>>
  BY <1>1
<1>2. ASSUME NEW d \in Deliveries, Fail(d) PROVE PersistTried'
  BY <1>2 DEF Fail
<1>3. ASSUME NEW x \in HarnessReports, Report(x) PROVE PersistTried'
  BY <1>3 DEF Report
<1>4. ASSUME NEW x \in Reporters, Persist(x) PROVE PersistTried'
  BY <1>4, RecordNames DEF Persist
<1>5. ASSUME NEW x \in Reporters, Notify(x) PROVE PersistTried'
  BY <1>5 DEF Notify
<1>6. ASSUME Crash PROVE PersistTried'
  BY <1>6 DEF Crash
<1> QED
  BY <1>1, <1>2, <1>3, <1>4, <1>5, <1>6
     DEF Next, vars, DeliveryNext, HandlerNext, Tick, Receive, Upsert, UpsertFails,
         Decide, DecideFails, HandOver, HandOverFails

-----------------------------------------------------------------------------
\* d stands for its key: it was not dropped, and what failed can be seen.
Accounted(d) ==
    \/ pc[d] \in Running \cup {"HANDED_OVER", "GATED", "CRASHED"}
    \/ pc[d] = "FAILED" /\ FailureIsVisible(d)

\* No step forgets an execution that has claimed its key.
LEMMA ClaimKept ==
    ASSUME TypeOK, EarlyHasNoClaim, PersistTried, [Next]_vars,
           NEW d \in Deliveries, claimedAt[d] # Nothing, Accounted(d)
    PROVE  claimedAt'[d] # Nothing /\ Accounted(d)' /\ KeyOf(d)' = KeyOf(d)
<1> USE DEF intake, handling, Running, Accounted, FailureIsVisible, KeyOf,
            RecordedExecutions
<1>0. pc[d] \notin {"idle", "E2", "REJECTED"} /\ d \in Reporters
  BY DEF EarlyHasNoClaim, Early, Reporters
<1>1. CASE UNCHANGED <<pc, item, claimedAt, handling>>
  BY <1>1
<1>2. ASSUME NEW e \in Deliveries, DeliveryNext(e), e # d
      PROVE  claimedAt'[d] # Nothing /\ Accounted(d)' /\ KeyOf(d)' = KeyOf(d)
  <2>1. /\ pc'[d] = pc[d] /\ item'[d] = item[d] /\ claimedAt'[d] = claimedAt[d]
        /\ handler'[d] = handler[d] /\ report'[d] = report[d]
        /\ UNCHANGED <<errors, chat, lost>>
    <3>1. CASE Receive(e)  BY <1>2, <3>1 DEF Receive, TypeOK
    <3>2. CASE Upsert(e)  BY <1>2, <3>2 DEF Upsert, TypeOK
    <3>3. CASE UpsertFails(e)  BY <1>0, <1>2, <3>3 DEF UpsertFails, Fail, TypeOK
    <3>4. CASE Decide(e) \/ HandOver(e)
      BY <1>2, <3>4 DEF Decide, HandOver, TypeOK
    <3>5. CASE DecideFails(e) \/ HandOverFails(e)
      BY <1>0, <1>2, <3>5 DEF DecideFails, HandOverFails, Fail, TypeOK
    <3> QED  BY <1>2, <3>1, <3>2, <3>3, <3>4, <3>5 DEF DeliveryNext
  <2> QED  BY <2>1
<1>3. CASE DeliveryNext(d)
  BY <1>0, <1>3 DEF DeliveryNext, Receive, Upsert, UpsertFails, Decide, DecideFails,
                    HandOver, HandOverFails, Fail, TypeOK, Reporters
<1>4. ASSUME NEW x \in HarnessReports, Report(x)
      PROVE  claimedAt'[d] # Nothing /\ Accounted(d)' /\ KeyOf(d)' = KeyOf(d)
  BY <1>0, <1>4 DEF Report, TypeOK
<1>5. ASSUME NEW x \in Reporters, Persist(x)
      PROVE  claimedAt'[d] # Nothing /\ Accounted(d)' /\ KeyOf(d)' = KeyOf(d)
  <2>1. /\ UNCHANGED <<pc, item, claimedAt, report, chat>>
        /\ errors \subseteq errors' /\ lost \subseteq lost'
    BY <1>5 DEF Persist
  <2>2. CASE x = d
    <3>1. handler'[d] = "E"  BY <1>0, <1>5, <2>2 DEF Persist, TypeOK
    <3>2. ErrorRecord(d, report[d]) \in errors' \/ <<d, "C">> \in lost'
      BY <1>5, <2>2 DEF Persist
    <3>3. d \in RecordedExecutions' \/ <<d, "C">> \in lost'  BY <3>2, RecordNames
    <3> QED  BY <2>1, <3>1, <3>3
  <2>3. CASE x # d
    <3>1. handler'[d] = handler[d]  BY <1>0, <1>5, <2>3 DEF Persist, TypeOK
    <3> QED  BY <2>1, <3>1
  <2> QED  BY <2>2, <2>3
<1>6. ASSUME NEW x \in Reporters, Notify(x)
      PROVE  claimedAt'[d] # Nothing /\ Accounted(d)' /\ KeyOf(d)' = KeyOf(d)
  <2>1. CASE x = d
    <3>1. d \in RecordedExecutions \/ <<d, "C">> \in lost
      BY <1>0, <1>6, <2>1 DEF Notify, PersistTried
    <3>2. /\ UNCHANGED <<pc, item, claimedAt, errors>>
          /\ report'[d] = report[d] /\ lost \subseteq lost'
          /\ ChatConfigured => <<d, "F">> \in lost' \/ Notice(report[d]) \in chat'
      BY <1>6, <2>1 DEF Notify
    <3>3. FailureIsVisible(d)'  BY <3>1, <3>2
    <3> QED  BY <3>2, <3>3
  <2>2. CASE x # d
    BY <1>0, <1>6, <2>2 DEF Notify, TypeOK
  <2> QED  BY <2>1, <2>2
<1>7. CASE Crash
  BY <1>0, <1>7 DEF Crash, TypeOK
<1> QED
  BY <1>1, <1>2, <1>3, <1>4, <1>5, <1>6, <1>7 DEF Next, HandlerNext, Tick, vars

LEMMA StepNoReplyVanishes == IInv /\ [Next]_vars => NoReplyVanishes'
<1> SUFFICES ASSUME IInv, [Next]_vars, NEW k \in Keys, rows'[k] # Nothing
             PROVE  \E d \in Claimants(k)' : Accounted(d)'
  BY DEF NoReplyVanishes, Accounted
<1>1. CASE rows[k] # Nothing
  <2>1. PICK d \in Claimants(k) : Accounted(d)
    BY <1>1 DEF IInv, NoReplyVanishes, Accounted
  <2>2. d \in Deliveries /\ claimedAt[d] # Nothing /\ KeyOf(d) = k
    BY <2>1 DEF Claimants
  <2>3. claimedAt'[d] # Nothing /\ Accounted(d)' /\ KeyOf(d)' = KeyOf(d)
    BY <2>1, <2>2, ClaimKept DEF IInv
  <2> QED  BY <2>2, <2>3 DEF Claimants
<1>2. CASE rows[k] = Nothing
  <2>1. PICK d \in Deliveries : (Upsert(d) \/ UpsertFails(d)) /\ KeyOf(d) = k
    BY <1>2 DEF Next, vars, DeliveryNext, HandlerNext, Tick, Receive, Upsert, UpsertFails,
                Decide, DecideFails, HandOver, HandOverFails, Report, Persist, Notify,
                Crash, intake, IInv, TypeOK
  <2>2. pc[d] = "E2"  BY <2>1 DEF Upsert, UpsertFails
  <2>3. UpsertedRow(d).createdAt = UpsertedRow(d).updatedAt
    BY <1>2, <2>1, <2>2, UpsertedRowType DEF IInv
  <2>4. claimedAt'[d] # Nothing /\ KeyOf(d)' = k
    BY <1>2, <2>1, NothingAssumption DEF Upsert, UpsertFails, Fail, KeyOf, IInv, TypeOK
  <2>5. Accounted(d)'
    BY <2>1, <2>2, <2>3
       DEF Upsert, UpsertFails, Fail, IsDuplicate, Accounted, FailureIsVisible, Running,
           IInv, TypeOK, Reporters
  <2> QED  BY <2>4, <2>5 DEF Claimants
<1> QED  BY <1>1, <1>2

LEMMA StepIInv == IInv /\ [Next]_vars => IInv'
BY StepType, StepKnown, StepPersistTried, StepNoReplyVanishes DEF IInv, Known

LEMMA SpecIInv == Spec => []IInv
<1>1. Init => IInv  BY InitIInv
<1>2. IInv /\ [Next]_vars => IInv'  BY StepIInv
<1> QED  BY <1>1, <1>2, PTL DEF Spec

\* Every variable keeps its type; in particular the sidecar holds no error
\* record but those that nodes A and B make, and the chat no text but those
\* that node D makes, none of which has an error id.
THEOREM TypeCorrect == Spec => []TypeOK
<1>1. IInv => TypeOK  BY DEF IInv
<1> QED  BY <1>1, SpecIInv, PTL

\* Duplicates do not invoke the Decision Engine (nodes E2 to E4), but for
\* those whose upserts come in one millisecond.
THEOREM EngineOncePerMillisecond == Spec => []EngineCallsAreSimultaneous
<1>1. IInv => EngineCallsAreSimultaneous
  BY DEF IInv, EngineCallsAreSimultaneous, AdmittedCreated, Admitted, TypeOK
<1> QED  BY <1>1, SpecIInv, PTL

\* A key that E2 has used up is always accounted for: by an execution under
\* way, a hand-off, a refusal by F1, a crash of n8n, or a failure with a
\* record that names it or whose record was lost on its way.
THEOREM RepliesAreAccountedFor == Spec => []NoReplyVanishes
<1>1. IInv => NoReplyVanishes  BY DEF IInv
<1> QED  BY <1>1, SpecIInv, PTL
=============================================================================
