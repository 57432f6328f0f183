---------------------------- MODULE WatchdogProofs ----------------------------
(***************************************************************************)
(* Theorems about Watchdog, for any records, any number of runs and any    *)
(* thresholds.                                                             *)
(***************************************************************************)
EXTENDS Watchdog, TLAPS

-----------------------------------------------------------------------------
(* Type correctness.                                                       *)

\* Ages stay within their bound.
LEMMA OlderType == ASSUME NEW age \in Ages PROVE Older(age) \in Ages
BY ThresholdAssumption DEF Ages, Older

\* What the sidecar lists has the form of a listing.
LEMMA ListedType ==
    ASSUME TypeOK
    PROVE  ListUnfinishedSends \cup ListUnresolvedErrors \subseteq Listed
<1>1. ListUnfinishedSends \subseteq Listed
  <2>1. ASSUME NEW k \in Sends PROVE ClassifySendRecord(state[k]) \in Categories
    BY DEF ClassifySendRecord, Categories
  <2>2. ASSUME NEW k \in Sends, NEW c \in Categories PROVE SendAge(k, c) \in Ages
    BY DEF SendAge, TypeOK
  <2> QED BY <2>1, <2>2 DEF ListUnfinishedSends, Listed
<1>2. ListUnresolvedErrors \subseteq Listed
  <2>1. ASSUME NEW x \in Errors PROVE ClassifyErrorRecord(class[x]) \in Categories
    BY DEF ClassifyErrorRecord, Categories
  <2> QED BY <2>1 DEF ListUnresolvedErrors, Listed, TypeOK
<1> QED BY <1>1, <1>2

\* What is overdue in a listing makes alerts.
LEMMA AlertType ==
    ASSUME NEW S \in SUBSET Listed
    PROVE  {AlertOf(r) : r \in {s \in S : StatusForAge(s.age) # "OK"}}
             \subseteq AlertKeys
<1>1. ASSUME NEW age, StatusForAge(age) # "OK"
      PROVE  StatusForAge(age) \in {"WARNING", "BREACH"}
  BY <1>1 DEF StatusForAge
<1>2. ASSUME NEW r \in S, StatusForAge(r.age) # "OK"
      PROVE  AlertOf(r) \in AlertKeys
  <2>1. StatusForAge(r.age) \in {"WARNING", "BREACH"} BY <1>1, <1>2
  <2>2. r \in Listed OBVIOUS
  <2> HIDE DEF StatusForAge
  <2> QED BY <2>1, <2>2 DEF Listed, AlertOf, AlertKeys
<1> QED BY <1>2

\* A listing that waits gets older and remains a listing.
LEMMA AgedType ==
    ASSUME NEW S \in SUBSET Listed
    PROVE  {[r EXCEPT !.age = Older(@)] : r \in S} \subseteq Listed
<1>1. ASSUME NEW r \in S PROVE [r EXCEPT !.age = Older(@)] \in Listed
  <2>1. r \in Listed /\ r.age \in Ages /\ Older(r.age) \in Ages
    BY OlderType DEF Listed
  <2> QED BY <2>1 DEF Listed
<1> QED BY <1>1

LEMMA TypeInit == Init => TypeOK
<1> SUFFICES ASSUME Init PROVE TypeOK
  OBVIOUS
<1>1. 0 \in Ages
  BY ThresholdAssumption DEF Ages
<1>2. /\ state \in [Sends -> SendStateNames \cup {NoRecord}]
      /\ created \in [Sends -> Ages] /\ updated \in [Sends -> Ages]
      /\ class \in [Errors -> ErrorClasses \cup {NoRecord}]
      /\ recorded \in [Errors -> Ages] /\ resolved \in [Errors -> BOOLEAN]
  BY <1>1 DEF Init
<1>3. /\ node \in [Runs -> Nodes] /\ listing \in [Runs -> SUBSET Listed]
      /\ alerts \in [Runs -> SUBSET AlertKeys]
      /\ notify \in [Runs -> SUBSET AlertKeys]
      /\ wire \in [Runs -> (SUBSET AlertKeys) \cup {NoRequest}]
  BY DEF Init, Nodes
<1> QED BY <1>2, <1>3 DEF Init, TypeOK

LEMMA TypeStep == TypeOK /\ [Next]_vars => TypeOK'
<1> SUFFICES ASSUME TypeOK, [Next]_vars PROVE TypeOK'
  OBVIOUS
<1>1. ASSUME RecordStep PROVE TypeOK'
  <2>1. ASSUME NEW k \in Sends, AcquireSend(k) PROVE TypeOK'
    BY <2>1, ThresholdAssumption
       DEF AcquireSend, TypeOK, Ages, SendStateNames,
           errors, files, handler, run, chat
  <2>2. ASSUME NEW k \in Sends, NEW to \in SendStateNames,
               TransitionSend(k, to)
        PROVE  TypeOK'
    BY <2>2, ThresholdAssumption
       DEF TransitionSend, TypeOK, Ages, errors, files, handler, run, chat
  <2>3. ASSUME NEW x \in Errors, NEW c \in ErrorClasses,
               WriteErrorRecord(x, c)
        PROVE  TypeOK'
    BY <2>3, ThresholdAssumption
       DEF WriteErrorRecord, TypeOK, Ages, sends, files, handler, run, chat
  <2>4. ASSUME NEW x \in Errors, ResolveErrorRecord(x) PROVE TypeOK'
    BY <2>4 DEF ResolveErrorRecord, TypeOK, sends, files, handler, run, chat
  <2>5. ASSUME TimePasses PROVE TypeOK'
    <3>1. /\ created' \in [Sends -> Ages] /\ updated' \in [Sends -> Ages]
          /\ recorded' \in [Errors -> Ages]
      BY <2>5, OlderType DEF TimePasses, TypeOK
    <3>2. listing' \in [Runs -> SUBSET Listed]
      <4>1. ASSUME NEW e \in Runs
            PROVE  {[r EXCEPT !.age = Older(@)] : r \in listing[e]}
                     \in SUBSET Listed
        <5>1. listing[e] \in SUBSET Listed BY DEF TypeOK
        <5> QED BY <5>1, AgedType
      <4> QED BY <2>5, <4>1 DEF TimePasses
    <3> QED BY <2>5, <3>1, <3>2 DEF TimePasses, TypeOK, files, handler, chat
  <2> QED BY <1>1, <2>1, <2>2, <2>3, <2>4, <2>5 DEF RecordStep
<1>2. ASSUME NEW e \in Runs,
             GetUnfinishedRecords(e) \/ RunStep(e) \/ RunFails(e)
               \/ RequestLost(e)
      PROVE  TypeOK'
  <2>1. CASE GetUnfinishedRecords(e)
    BY <2>1, ListedType
       DEF GetUnfinishedRecords, GoTo, TypeOK, Nodes, sends, errors, files,
           handler, chat
  <2>2. CASE EvaluateUnfinishedRecords(e)
    <3>1. {AlertOf(r) : r \in {s \in listing[e] : StatusForAge(s.age) # "OK"}}
            \in SUBSET AlertKeys
      <4>1. listing[e] \in SUBSET Listed BY DEF TypeOK
      <4> QED BY <4>1, AlertType
    <3> QED
      BY <2>2, <3>1
         DEF EvaluateUnfinishedRecords, GoTo, TypeOK, Nodes, sends, errors,
             files, handler, chat
  <2>3. CASE DedupeAlerts(e)
    BY <2>3 DEF DedupeAlerts, GoTo, TypeOK, Nodes, sends, errors, files,
       handler, chat
  <2>4. CASE PostChatAlert(e)
    BY <2>4 DEF PostChatAlert, GoTo, TypeOK, Nodes, sends, errors, files,
       handler
  <2>5. CASE SkipWatchdogNotification(e)
    BY <2>5 DEF SkipWatchdogNotification, GoTo, TypeOK, Nodes, sends, errors,
       files, handler, chat
  <2>6. CASE PersistWatchdogResult(e)
    BY <2>6 DEF PersistWatchdogResult, GoTo, TypeOK, Nodes, sends, errors,
       files, handler, chat
  <2>7. CASE RunFails(e)
    <3>1. InHand(e) \in SUBSET AlertKeys
      BY DEF InHand, TypeOK
    <3> QED
      BY <2>7, <3>1
         DEF RunFails, Fail, HangUp, GoTo, TypeOK, Nodes, sends, errors, files
  <2>8. CASE RequestLost(e)
    BY <2>8 DEF RequestLost, TypeOK, sends, errors, files, handler, chat
  <2> QED
    BY <1>2, <2>1, <2>2, <2>3, <2>4, <2>5, <2>6, <2>7, <2>8 DEF RunStep
<1>3. ASSUME HandlerStep PROVE TypeOK'
  <2>1. ASSUME NEW e \in Runs, ReceiveDedupe(e) PROVE TypeOK'
    BY <2>1 DEF ReceiveDedupe, TypeOK, sends, errors, files, chat
  <2>2. ASSUME NEW a \in AlertKeys, CreateAlertFile(a) PROVE TypeOK'
    BY <2>2 DEF CreateAlertFile, TypeOK, sends, errors, run, chat
  <2>3. ASSUME NEW a \in AlertKeys, ReadAlertFile(a) PROVE TypeOK'
    BY <2>3 DEF ReadAlertFile, TypeOK, sends, errors, files, run, chat
  <2>4. ASSUME WriteAlertFile PROVE TypeOK'
    BY <2>4 DEF WriteAlertFile, TypeOK, sends, errors, run, chat
  <2>5. ASSUME ReplyDedupe PROVE TypeOK'
    BY <2>5 DEF ReplyDedupe, HandlerEnds, MergeAlertDedupeResults, GoTo,
       TypeOK, Nodes, sends, errors, files, chat
  <2> QED BY <1>3, <2>1, <2>2, <2>3, <2>4, <2>5 DEF HandlerStep
<1>4. ASSUME DedupeThrows PROVE TypeOK'
  BY <1>4 DEF DedupeThrows, HandlerEnds, Fail, GoTo, TypeOK, Nodes, sends,
     errors, files
<1>5. ASSUME Crash PROVE TypeOK'
  BY <1>5 DEF Crash, HandlerEnds, TypeOK, sends, errors, files, run, chat
<1>6. CASE UNCHANGED vars
  BY <1>6 DEF TypeOK, vars, sends, errors, files, handler, run, chat
<1> QED BY <1>1, <1>2, <1>3, <1>4, <1>5, <1>6 DEF Next

\* Type correctness of the watchdog for any records, runs and thresholds.
THEOREM TypeCorrect == Spec => []TypeOK
BY TypeInit, TypeStep, PTL DEF Spec

-----------------------------------------------------------------------------
(***************************************************************************)
(* No alert is posted twice.  An alert is free until its file is created,  *)
(* which happens once.  From then on it is in one place: with the handler, *)
(* with one run on its way to the chat, in the chat, or nowhere.           *)
(***************************************************************************)

\* The handler knows it as new, and nobody else does.
HandlerHasNew ==
    /\ ~ busy => fresh = {} /\ file = NoAlert
    /\ fresh \subseteq opened /\ fresh \cap notified = {}
    /\ file # NoAlert => file \in opened \ notified
    /\ \A e \in Runs : node[e] = "G2" =>
         /\ fresh \cap notify[e] = {}
         /\ file \notin notify[e]

\* A run is about to post it, and no other run is.
RunHasNew ==
    /\ notified \subseteq opened
    /\ \A e \in Runs : node[e] = "G2" =>
         /\ notify[e] \subseteq opened
         /\ notify[e] \cap notified = {}
    /\ \A e, f \in Runs :
         e # f /\ node[e] = "G2" /\ node[f] = "G2" =>
           notify[e] \cap notify[f] = {}

OnceInv == TypeOK /\ HandlerHasNew /\ RunHasNew /\ NotifiedAtMostOnce

LEMMA OnceInit == Init => OnceInv
BY TypeInit DEF Init, OnceInv, HandlerHasNew, RunHasNew, NotifiedAtMostOnce

LEMMA OnceStep == OnceInv /\ [Next]_vars => OnceInv'
<1> SUFFICES ASSUME OnceInv, [Next]_vars
             PROVE  HandlerHasNew' /\ RunHasNew' /\ NotifiedAtMostOnce'
  BY TypeStep DEF OnceInv
<1> USE DEF OnceInv, HandlerHasNew, RunHasNew, NotifiedAtMostOnce
<1>1. ASSUME RecordStep
      PROVE  UNCHANGED <<opened, busy, fresh, file, node, notify, notified,
                         repeated>>
  BY <1>1 DEF RecordStep, AcquireSend, TransitionSend, WriteErrorRecord,
     ResolveErrorRecord, TimePasses, files, handler, run, chat
<1>2. ASSUME NEW e \in Runs,
             \/ GetUnfinishedRecords(e) \/ EvaluateUnfinishedRecords(e)
             \/ DedupeAlerts(e) \/ SkipWatchdogNotification(e)
             \/ PersistWatchdogResult(e) \/ RequestLost(e)
      PROVE  /\ UNCHANGED <<opened, busy, fresh, file, notified, repeated>>
             /\ \A f \in Runs : node'[f] = "G2" =>
                                 node[f] = "G2" /\ notify'[f] = notify[f]
  BY <1>2 DEF GetUnfinishedRecords, EvaluateUnfinishedRecords, DedupeAlerts,
     SkipWatchdogNotification, PersistWatchdogResult, RequestLost, GoTo,
     TypeOK, files, handler, chat
<1>3. ASSUME NEW e \in Runs, PostChatAlert(e) \/ RunFails(e)
      PROVE  /\ UNCHANGED <<opened, busy, fresh, file>>
             /\ \A f \in Runs : node'[f] = "G2" =>
                  f # e /\ node[f] = "G2" /\ notify'[f] = notify[f]
             /\ \/ notified' = notified /\ repeated' = repeated
                \/ /\ node[e] = "G2"
                   /\ notified' = notified \cup notify[e]
                   /\ repeated' = repeated \cup (notified \cap notify[e])
  BY <1>3 DEF PostChatAlert, RunFails, Fail, GoTo, TypeOK, files, handler
<1>4. ASSUME NEW e \in Runs, ReceiveDedupe(e)
      PROVE  /\ UNCHANGED <<opened, file, node, notify, notified, repeated>>
             /\ busy' = TRUE /\ fresh' = {}
  BY <1>4 DEF ReceiveDedupe, files, chat
<1>5. ASSUME NEW a \in AlertKeys, CreateAlertFile(a)
      PROVE  HandlerHasNew' /\ RunHasNew' /\ NotifiedAtMostOnce'
  BY <1>5 DEF CreateAlertFile, run, chat
<1>6. ASSUME WriteAlertFile
      PROVE  HandlerHasNew' /\ RunHasNew' /\ NotifiedAtMostOnce'
  <2>1. /\ file # NoAlert /\ fresh' = fresh \cup {file} /\ file' = NoAlert
        /\ UNCHANGED <<opened, busy, node, notify, notified, repeated>>
    BY <1>6 DEF WriteAlertFile, run, chat
  <2>2. \A e \in Runs : node[e] = "G2" => NoAlert \notin notify[e]
    BY NoAlertAssumption DEF TypeOK
  <2> QED BY <2>1, <2>2
<1>7. ASSUME NEW a \in AlertKeys, ReadAlertFile(a)
      PROVE  UNCHANGED <<opened, busy, fresh, file, node, notify, notified,
                         repeated>>
  BY <1>7 DEF ReadAlertFile, files, run, chat
<1>8. ASSUME ReplyDedupe
      PROVE  HandlerHasNew' /\ RunHasNew' /\ NotifiedAtMostOnce'
  <2>1. /\ busy' = FALSE /\ fresh' = {} /\ file' = NoAlert
        /\ UNCHANGED <<opened, notified, repeated>>
    BY <1>8 DEF ReplyDedupe, HandlerEnds, files, chat
  <2>2. \A f \in Runs : node'[f] = "G2" =>
          \/ node[f] = "G2" /\ notify'[f] = notify[f] /\ f # caller
          \/ f = caller /\ notify'[f] = alerts[f] \cap fresh
    BY <1>8, NoRunAssumption
       DEF ReplyDedupe, MergeAlertDedupeResults, GoTo, TypeOK
  <2>3. \A f \in Runs : node'[f] = "G2" => NoAlert \notin notify'[f]
    BY <2>2, NoAlertAssumption DEF TypeOK
  <2> QED BY <2>1, <2>2, <2>3
<1>9. ASSUME DedupeThrows \/ Crash
      PROVE  /\ busy' = FALSE /\ fresh' = {} /\ file' = NoAlert
             /\ UNCHANGED <<opened, notified, repeated>>
             /\ \A f \in Runs : node'[f] = "G2" =>
                                 node[f] = "G2" /\ notify'[f] = notify[f]
  BY <1>9 DEF DedupeThrows, Crash, HandlerEnds, Fail, GoTo, TypeOK, files,
     run, chat
<1>10. CASE UNCHANGED vars
  BY <1>10 DEF vars, files, handler, run, chat
<1>11. \A e \in Runs : node[e] = "G2" => NoAlert \notin notify[e]
  BY NoAlertAssumption DEF TypeOK
<1>12. ASSUME NEW e \in Runs, PostChatAlert(e) \/ RunFails(e)
       PROVE  HandlerHasNew' /\ RunHasNew' /\ NotifiedAtMostOnce'
  BY <1>3, <1>12
<1>13. ASSUME DedupeThrows \/ Crash
       PROVE  HandlerHasNew' /\ RunHasNew' /\ NotifiedAtMostOnce'
  BY <1>9, <1>11, <1>13
<1> QED
  BY <1>1, <1>2, <1>4, <1>5, <1>6, <1>7, <1>8, <1>10, <1>12, <1>13
     DEF Next, RunStep, HandlerStep

\* Any number of overlapping runs, lost answers and crashes of the sidecar
\* included, no alert is posted to the chat twice.
THEOREM AlertsAtMostOnce == Spec => []NotifiedAtMostOnce
<1>1. OnceInv => NotifiedAtMostOnce BY DEF OnceInv
<1> QED BY OnceInit, OnceStep, <1>1, PTL DEF Spec

-----------------------------------------------------------------------------
(***************************************************************************)
(* No alert is used up in silence.  The request of a run is with one of    *)
(* four: on the wire, at the handler that answers the run, at a handler    *)
(* that nobody listens to, or answered.                                    *)
(***************************************************************************)

\* Who has the alerts of run e in hand, and what they are.
RequestInv ==
    /\ caller \in Runs =>
         /\ busy
         /\ node[caller] = "G"
         /\ wire[caller] = NoRequest
         /\ todo \cup fresh \subseteq alerts[caller]
    /\ busy /\ caller = NoRun => todo \cup fresh \subseteq missed
    /\ file # NoAlert => busy /\ file \in todo
    /\ \A e \in Runs : wire[e] # NoRequest =>
         \/ node[e] = "G" /\ wire[e] = alerts[e]
         \/ node[e] = "failed" /\ wire[e] \subseteq missed

\* Run e will post a, if it does not fail.
Carries(e, a) ==
    \/ node[e] = "G2" /\ a \in notify[e]
    \/ caller = e /\ (a \in fresh \/ a = file)

\* Run e waits for an answer that will not come.
Awaits(e, a) ==
    node[e] = "G" /\ a \in alerts[e] /\ wire[e] = NoRequest /\ caller # e

CarriedInv ==
    \A a \in opened : \/ a \in notified \cup missed
                      \/ \E e \in Runs : Carries(e, a) \/ Awaits(e, a)

LossInv == TypeOK /\ RequestInv /\ CarriedInv

LEMMA LossInit == Init => LossInv
BY TypeInit, NoRunAssumption DEF Init, LossInv, RequestInv, CarriedInv

LEMMA LossImplies == LossInv => RecordedIsNotified
<1> SUFFICES ASSUME LossInv, NEW a \in opened,
                    a \notin notified \cup missed
             PROVE  \E e \in Runs : a \in InHand(e)
  BY DEF RecordedIsNotified
<1>1. PICK e \in Runs : Carries(e, a) \/ Awaits(e, a)
  BY DEF LossInv, CarriedInv
<1>2. a # NoAlert
  BY NoAlertAssumption DEF LossInv, TypeOK
<1>3. \/ node[e] = "G2" /\ a \in notify[e]
      \/ node[e] = "G" /\ a \in alerts[e]
  BY <1>1, <1>2 DEF Carries, Awaits, LossInv, RequestInv
<1> QED BY <1>3 DEF InHand

LEMMA RequestStep == LossInv /\ [Next]_vars => RequestInv'
<1> SUFFICES ASSUME LossInv, [Next]_vars PROVE RequestInv'
  OBVIOUS
<1> USE DEF LossInv, RequestInv
<1>1. CASE RecordStep
  BY <1>1 DEF RecordStep, AcquireSend, TransitionSend, WriteErrorRecord,
     ResolveErrorRecord, TimePasses, handler, run, chat
<1>2. ASSUME NEW e \in Runs, GetUnfinishedRecords(e) PROVE RequestInv'
  BY <1>2 DEF GetUnfinishedRecords, GoTo, TypeOK, handler, chat
<1>3. ASSUME NEW e \in Runs, EvaluateUnfinishedRecords(e) PROVE RequestInv'
  BY <1>3 DEF EvaluateUnfinishedRecords, GoTo, TypeOK, handler, chat
<1>4. ASSUME NEW e \in Runs, DedupeAlerts(e) PROVE RequestInv'
  BY <1>4 DEF DedupeAlerts, GoTo, TypeOK, handler, chat
<1>5. ASSUME NEW e \in Runs, PostChatAlert(e) PROVE RequestInv'
  BY <1>5 DEF PostChatAlert, GoTo, TypeOK, handler
<1>6. ASSUME NEW e \in Runs,
             SkipWatchdogNotification(e) \/ PersistWatchdogResult(e)
      PROVE  RequestInv'
  BY <1>6 DEF SkipWatchdogNotification, PersistWatchdogResult, GoTo, TypeOK,
     handler, chat
<1>7. ASSUME NEW e \in Runs, RunFails(e) PROVE RequestInv'
  <2>1. /\ node' = [node EXCEPT ![e] = "failed"]
        /\ alerts' = [alerts EXCEPT ![e] = {}]
        /\ caller' = IF caller = e THEN NoRun ELSE caller
        /\ UNCHANGED <<busy, todo, file, fresh, wire>>
        /\ missed \subseteq missed'
        /\ node[e] \in {"D", "F", "G", "G2", "H"}
    BY <1>7 DEF RunFails, Fail, GoTo, HangUp
  <2>2. node[e] = "G" => alerts[e] \subseteq missed'
    BY <1>7 DEF RunFails, InHand
  <2> QED BY <2>1, <2>2, NoRunAssumption DEF TypeOK
<1>8. ASSUME NEW e \in Runs, RequestLost(e) PROVE RequestInv'
  BY <1>8 DEF RequestLost, TypeOK, handler, chat
<1>9. ASSUME NEW e \in Runs, ReceiveDedupe(e) PROVE RequestInv'
  BY <1>9, NoRunAssumption DEF ReceiveDedupe, TypeOK, chat
<1>10. ASSUME NEW a \in AlertKeys, CreateAlertFile(a) PROVE RequestInv'
  BY <1>10 DEF CreateAlertFile, run, chat
<1>11. ASSUME NEW a \in AlertKeys, ReadAlertFile(a) PROVE RequestInv'
  BY <1>11 DEF ReadAlertFile, run, chat
<1>12. ASSUME WriteAlertFile PROVE RequestInv'
  BY <1>12 DEF WriteAlertFile, run, chat
<1>13. ASSUME ReplyDedupe PROVE RequestInv'
  BY <1>13, NoRunAssumption
     DEF ReplyDedupe, HandlerEnds, MergeAlertDedupeResults, GoTo, TypeOK, chat
<1>14. ASSUME DedupeThrows PROVE RequestInv'
  BY <1>14, NoRunAssumption
     DEF DedupeThrows, HandlerEnds, Fail, GoTo, TypeOK
<1>15. ASSUME Crash PROVE RequestInv'
  BY <1>15, NoRunAssumption DEF Crash, HandlerEnds, run, chat
<1>16. CASE UNCHANGED vars
  BY <1>16 DEF vars, handler, run, chat
<1> QED
  BY <1>1, <1>2, <1>3, <1>4, <1>5, <1>6, <1>7, <1>8, <1>9, <1>10, <1>11,
     <1>12, <1>13, <1>14, <1>15, <1>16 DEF Next, RunStep, HandlerStep

LEMMA CarriedStep == LossInv /\ [Next]_vars => CarriedInv'
<1> SUFFICES ASSUME LossInv, [Next]_vars, NEW a \in opened',
                    a \notin notified' \cup missed'
             PROVE  \E e \in Runs : (Carries(e, a) \/ Awaits(e, a))'
  BY DEF CarriedInv
<1> DEFINE Goal == \E e \in Runs : (Carries(e, a) \/ Awaits(e, a))'
<1> USE DEF LossInv, RequestInv, Carries, Awaits
<1>1. ASSUME a \in opened, a \notin notified \cup missed
      PROVE  \E f \in Runs : Carries(f, a) \/ Awaits(f, a)
  BY <1>1 DEF CarriedInv
<1>2. CASE RecordStep
  BY <1>1, <1>2 DEF RecordStep, AcquireSend, TransitionSend,
     WriteErrorRecord, ResolveErrorRecord, TimePasses, files, handler, run,
     chat
<1>3. ASSUME NEW e \in Runs, GetUnfinishedRecords(e) PROVE Goal
  BY <1>1, <1>3 DEF GetUnfinishedRecords, GoTo, TypeOK, files, handler, chat
<1>4. ASSUME NEW e \in Runs, EvaluateUnfinishedRecords(e) PROVE Goal
  BY <1>1, <1>4
     DEF EvaluateUnfinishedRecords, GoTo, TypeOK, files, handler, chat
<1>5. ASSUME NEW e \in Runs, DedupeAlerts(e) PROVE Goal
  BY <1>1, <1>5 DEF DedupeAlerts, GoTo, TypeOK, files, handler, chat
<1>6. ASSUME NEW e \in Runs, PostChatAlert(e) PROVE Goal
  BY <1>1, <1>6 DEF PostChatAlert, GoTo, TypeOK, files, handler
<1>7. ASSUME NEW e \in Runs,
             SkipWatchdogNotification(e) \/ PersistWatchdogResult(e)
      PROVE  Goal
  BY <1>1, <1>7 DEF SkipWatchdogNotification, PersistWatchdogResult, GoTo,
     TypeOK, files, handler, chat
<1>8. ASSUME NEW e \in Runs, RunFails(e) PROVE Goal
  <2>1. /\ node' = [node EXCEPT ![e] = "failed"]
        /\ alerts' = [alerts EXCEPT ![e] = {}]
        /\ notify' = [notify EXCEPT ![e] = {}]
        /\ caller' = IF caller = e THEN NoRun ELSE caller
        /\ UNCHANGED <<opened, busy, todo, file, fresh, wire>>
        /\ missed' = missed \cup InHand(e) /\ notified \subseteq notified'
    BY <1>8 DEF RunFails, Fail, GoTo, HangUp, files
  <2>2. /\ node[e] = "G" => InHand(e) = alerts[e]
        /\ node[e] = "G2" => InHand(e) = notify[e]
    BY DEF InHand
  <2>3. PICK f \in Runs : Carries(f, a) \/ Awaits(f, a)
    BY <1>1, <2>1
  <2>4. f # e
    BY <2>1, <2>2, <2>3, NoAlertAssumption DEF TypeOK
  <2> QED BY <2>1, <2>3, <2>4, NoRunAssumption DEF TypeOK
<1>9. ASSUME NEW e \in Runs, RequestLost(e) PROVE Goal
  BY <1>1, <1>9 DEF RequestLost, TypeOK, files, handler, chat
<1>10. ASSUME NEW e \in Runs, ReceiveDedupe(e) PROVE Goal
  BY <1>1, <1>10, NoRunAssumption DEF ReceiveDedupe, TypeOK, files, chat
<1>11. ASSUME NEW b \in AlertKeys, CreateAlertFile(b) PROVE Goal
  BY <1>1, <1>11, NoAlertAssumption DEF CreateAlertFile, TypeOK, run, chat
<1>12. ASSUME NEW b \in AlertKeys, ReadAlertFile(b) PROVE Goal
  BY <1>1, <1>12 DEF ReadAlertFile, files, run, chat
<1>13. ASSUME WriteAlertFile PROVE Goal
  BY <1>1, <1>13 DEF WriteAlertFile, run, chat
<1>14. ASSUME ReplyDedupe PROVE Goal
  <2>1. PICK f \in Runs : Carries(f, a) \/ Awaits(f, a)
    BY <1>1, <1>14 DEF ReplyDedupe, files, chat
  <2>2. file = NoAlert /\ a # NoAlert
    BY <1>14, NoAlertAssumption DEF ReplyDedupe, TypeOK, files
  <2> QED
    BY <1>14, <2>1, <2>2, NoRunAssumption
       DEF ReplyDedupe, HandlerEnds, MergeAlertDedupeResults, GoTo, TypeOK
<1>15. ASSUME DedupeThrows PROVE Goal
  <2>1. PICK f \in Runs : Carries(f, a) \/ Awaits(f, a)
    BY <1>1, <1>15 DEF DedupeThrows, files
  <2>2. a # NoAlert
    BY <1>15, NoAlertAssumption DEF DedupeThrows, TypeOK, files
  <2> QED
    BY <1>15, <2>1, <2>2, NoRunAssumption
       DEF DedupeThrows, HandlerEnds, Fail, GoTo, TypeOK
<1>16. ASSUME Crash PROVE Goal
  <2>1. PICK f \in Runs : Carries(f, a) \/ Awaits(f, a)
    BY <1>1, <1>16 DEF Crash, files, chat
  <2>2. a # NoAlert
    BY <1>16, NoAlertAssumption DEF Crash, TypeOK, files
  <2> QED
    BY <1>16, <2>1, <2>2, NoRunAssumption DEF Crash, HandlerEnds, run
<1>17. CASE UNCHANGED vars
  BY <1>1, <1>17 DEF vars, files, handler, run, chat
<1> QED
  BY <1>2, <1>3, <1>4, <1>5, <1>6, <1>7, <1>8, <1>9, <1>10, <1>11, <1>12,
     <1>13, <1>14, <1>15, <1>16, <1>17 DEF Next, RunStep, HandlerStep

\* Whatever has its file has been posted, is in the hands of a run, or was
\* lost with one that failed.
THEOREM AlertsAreNotUsedUp == Spec => []RecordedIsNotified
<1>1. LossInv /\ [Next]_vars => LossInv'
  BY TypeStep, RequestStep, CarriedStep DEF LossInv
<1> QED BY LossInit, <1>1, LossImplies, PTL DEF Spec

-----------------------------------------------------------------------------
\* From the breach threshold on the status is BREACH.
LEMMA BreachAge ==
    ASSUME NEW age \in Ages, age >= SLA_BREACH_THRESHOLD
    PROVE  StatusForAge(age) = "BREACH"
<1>1. ~ (age >= SLA_WARNING_THRESHOLD /\ age < SLA_BREACH_THRESHOLD)
  BY ThresholdAssumption DEF Ages
<1> QED BY <1>1, Zenon DEF StatusForAge

\* No transition takes a send out of a breach of the processing SLO.
THEOREM BreachesLast == Spec => BreachOutlivesTransitions
<1> DEFINE Lasts(k) ==
      Processing(k) /\ Overdue(k) /\ Processing(k)' => Overdue(k)'
<1>1. ASSUME TypeOK, [Next]_vars, NEW k \in Sends PROVE Lasts(k)
  <2> SUFFICES ASSUME Processing(k), Overdue(k), Processing(k)'
               PROVE  Overdue(k)'
    OBVIOUS
  <2>1. SendAge(k, ClassifySendRecord(state[k])) = created[k]
    BY DEF Processing, SloTypeForCategory, SendAge
  <2>2. SendAge(k, ClassifySendRecord(state[k]))' = created'[k]
    BY DEF Processing, SloTypeForCategory, SendAge
  <2>3. created[k] >= SLA_BREACH_THRESHOLD
    <3>1. StatusForAge(created[k]) = "BREACH"
      BY <2>1 DEF Overdue
    <3> QED BY <3>1 DEF StatusForAge
  <2>4. state[k] # NoRecord
    BY DEF Processing, Unfinished, SendStateNames, NoRecord
  <2>5. CASE RecordStep
    <3>1. ASSUME NEW j \in Sends, AcquireSend(j) PROVE created'[k] = created[k]
      BY <1>1, <2>4, <3>1 DEF AcquireSend, TypeOK
    <3>2. ASSUME TimePasses PROVE created'[k] = Older(created[k])
      BY <3>2 DEF TimePasses
    <3>3. created'[k] = created[k] \/ created'[k] = Older(created[k])
      BY <2>5, <3>1, <3>2
         DEF RecordStep, TransitionSend, WriteErrorRecord, ResolveErrorRecord,
             sends
    <3>4. Older(created[k]) = created[k]
      BY <1>1, <2>3, ThresholdAssumption DEF Older, TypeOK, Ages
    <3>5. StatusForAge(created'[k]) = "BREACH"
      BY <1>1, <2>3, <3>3, <3>4, BreachAge DEF TypeOK
    <3> QED BY <2>2, <3>5 DEF Overdue
  <2>6. CASE ~ RecordStep
    <3>1. created' = created
      BY <1>1, <2>6 DEF Next, RunStep, HandlerStep, GetUnfinishedRecords,
         EvaluateUnfinishedRecords, DedupeAlerts, PostChatAlert,
         SkipWatchdogNotification, PersistWatchdogResult, RunFails,
         RequestLost, ReceiveDedupe, CreateAlertFile, ReadAlertFile,
         WriteAlertFile, ReplyDedupe, DedupeThrows, Crash, sends, vars
    <3>2. StatusForAge(created'[k]) = "BREACH"
      BY <1>1, <2>3, <3>1, BreachAge DEF TypeOK
    <3> QED BY <2>2, <3>2 DEF Overdue
  <2> QED BY <2>5, <2>6
<1>2. ASSUME TypeOK, [Next]_vars PROVE \A k \in Sends : Lasts(k)
  BY <1>1, <1>2
<1> QED BY <1>2, TypeInit, TypeStep, PTL DEF Spec, BreachOutlivesTransitions

-----------------------------------------------------------------------------
(***************************************************************************)
(* The watchdog implements AlertOnce.  The steps that matter create an     *)
(* alert file, post a message, or end the request or the run that has new  *)
(* alerts in hand; by OnceInv they are in one place, so that what is       *)
(* posted or lost is no longer pending anywhere.                           *)
(***************************************************************************)
Carried(a) ==
    \/ \E e \in Runs : node[e] = "G2" /\ a \in notify[e]
    \/ caller \in Runs /\ (a \in fresh \/ (a = file /\ file # NoAlert))

Pending == ToPost \cup ToAnswer

LEMMA PendingIsCarried ==
    /\ \A a : a \in Pending <=> Carried(a)
    /\ \A a : a \in Pending' <=> Carried(a)'
<1>1. \A a : a \in ToPost <=> \E e \in Runs : node[e] = "G2" /\ a \in notify[e]
  BY DEF ToPost
<1>2. \A a : a \in ToPost' <=>
              \E e \in Runs : node'[e] = "G2" /\ a \in notify'[e]
  BY DEF ToPost
<1>3. \A a : a \in Pending <=> Carried(a)
  BY <1>1 DEF Pending, ToAnswer, Carried
<1>4. \A a : a \in Pending' <=> Carried(a)'
  BY <1>2 DEF Pending, ToAnswer, Carried
<1> QED BY <1>3, <1>4

LEMMA PendingType == TypeOK => Pending \subseteq AlertKeys
<1> SUFFICES ASSUME TypeOK, NEW a, Carried(a) PROVE a \in AlertKeys
  BY PendingIsCarried
<1> QED BY DEF TypeOK, Carried

\* A step that opens no file and posts nothing can only lose what is pending.
LEMMA LosesOnly ==
    ASSUME TypeOK, UNCHANGED <<opened, notified>>, \A a : Carried(a)' => Carried(a)
    PROVE  [Once!Next]_(Once!vars)
<1> DEFINE A == Pending \ Pending'
<1>1. A \in SUBSET AlertKeys /\ A \subseteq Pending
  BY PendingType
<1>2. Pending' = Pending \ A
  BY PendingIsCarried
<1>3. Once!Lose(A)
  BY <1>1, <1>2 DEF Once!Lose, Pending
<1> QED BY <1>1, <1>3 DEF Once!Next

LEMMA OnceImplemented ==
    ASSUME OnceInv, RequestInv, [Next]_vars
    PROVE  [Once!Next]_(Once!vars)
<1>0. TypeOK /\ HandlerHasNew /\ RunHasNew
  BY DEF OnceInv
<1>1. ASSUME \/ RecordStep \/ UNCHANGED vars
             \/ \E a \in AlertKeys : ReadAlertFile(a)
             \/ \E e \in Runs :
                  \/ GetUnfinishedRecords(e) \/ EvaluateUnfinishedRecords(e)
                  \/ DedupeAlerts(e) \/ SkipWatchdogNotification(e)
                  \/ PersistWatchdogResult(e) \/ RequestLost(e)
      PROVE  [Once!Next]_(Once!vars)
  <2>1. ASSUME \/ RecordStep \/ UNCHANGED vars
               \/ \E a \in AlertKeys : ReadAlertFile(a)
        PROVE  UNCHANGED <<opened, notified, node, notify, caller, fresh, file>>
    BY <2>1 DEF RecordStep, AcquireSend, TransitionSend, WriteErrorRecord,
       ResolveErrorRecord, TimePasses, ReadAlertFile, vars, files, handler,
       run, chat
  <2>2. ASSUME NEW e \in Runs,
               \/ GetUnfinishedRecords(e) \/ EvaluateUnfinishedRecords(e)
               \/ DedupeAlerts(e) \/ SkipWatchdogNotification(e)
               \/ PersistWatchdogResult(e) \/ RequestLost(e)
        PROVE  /\ UNCHANGED <<opened, notified, caller, fresh, file>>
               /\ \A f \in Runs : node'[f] = "G2" =>
                     node[f] = "G2" /\ notify'[f] = notify[f]
    BY <1>0, <2>2 DEF GetUnfinishedRecords, EvaluateUnfinishedRecords,
       DedupeAlerts, SkipWatchdogNotification, PersistWatchdogResult,
       RequestLost, GoTo, TypeOK, files, handler, chat
  <2>3. UNCHANGED <<opened, notified>> /\ \A a : Carried(a)' => Carried(a)
    BY <1>1, <2>1, <2>2 DEF Carried
  <2> QED BY <1>0, <2>3, LosesOnly
<1>2. ASSUME NEW e \in Runs, PostChatAlert(e) \/ RunFails(e)
      PROVE  [Once!Next]_(Once!vars)
  <2>1. /\ UNCHANGED <<opened, fresh, file>>
        /\ \A f \in Runs : node'[f] = "G2" <=> f # e /\ node[f] = "G2"
        /\ \A f \in Runs \ {e} : notify'[f] = notify[f]
        /\ caller' = caller \/ (caller' = NoRun /\ caller = e)
        /\ \/ notified' = notified
           \/ node[e] = "G2" /\ notified' = notified \cup notify[e]
    BY <1>0, <1>2 DEF PostChatAlert, RunFails, Fail, HangUp, GoTo, TypeOK,
       files, handler
  <2>2. CASE notified' = notified
    BY <1>0, <2>1, <2>2, NoRunAssumption, LosesOnly DEF Carried
  <2>3. CASE node[e] = "G2" /\ notified' = notified \cup notify[e]
    <3>1. caller # e /\ caller' = caller
      BY <2>1, <2>3 DEF RequestInv
    <3>2. \A a : Carried(a)' <=> Carried(a) /\ a \notin notify[e]
      <4>1. \A a \in notify[e] :
              /\ a \notin fresh /\ a # file
              /\ \A f \in Runs \ {e} : node[f] = "G2" => a \notin notify[f]
        BY <1>0, <2>3 DEF HandlerHasNew, RunHasNew
      <4> QED BY <2>1, <2>3, <3>1, <4>1 DEF Carried
    <3>3. /\ notify[e] \in SUBSET AlertKeys /\ notify[e] \subseteq Pending
          /\ Pending' = Pending \ notify[e]
      BY <1>0, <2>3, <3>2, PendingIsCarried DEF TypeOK, Carried
    <3>4. Once!Post(notify[e])
      BY <2>1, <2>3, <3>3 DEF Once!Post, Pending
    <3> QED BY <3>3, <3>4 DEF Once!Next
  <2> QED BY <2>1, <2>2, <2>3
<1>3. ASSUME NEW e \in Runs, ReceiveDedupe(e)
      PROVE  [Once!Next]_(Once!vars)
  <2>1. /\ UNCHANGED <<opened, notified, node, notify, file>> /\ fresh' = {}
        /\ ~ busy
    BY <1>3 DEF ReceiveDedupe, files, chat
  <2>2. \A a : Carried(a)' => Carried(a)
    BY <1>0, <2>1 DEF HandlerHasNew, Carried
  <2> QED BY <1>0, <2>1, <2>2, LosesOnly
<1>4. ASSUME NEW b \in AlertKeys, CreateAlertFile(b)
      PROVE  [Once!Next]_(Once!vars)
  <2>1. /\ b \notin opened /\ opened' = opened \cup {b}
        /\ file = NoAlert /\ file' = b /\ b # NoAlert
        /\ UNCHANGED <<notified, node, notify, caller, fresh>>
    BY <1>4, NoAlertAssumption DEF CreateAlertFile, run, chat
  <2>2. CASE caller \in Runs
    <3>1. \A a : Carried(a)' <=> Carried(a) \/ a = b
      BY <2>1, <2>2 DEF Carried
    <3>2. Pending' = Pending \cup {b}
      BY <3>1, PendingIsCarried
    <3>3. Once!Record(b)
      BY <2>1, <3>2 DEF Once!Record, Pending
    <3> QED BY <3>3 DEF Once!Next
  <2>3. CASE caller \notin Runs
    <3>1. \A a : Carried(a)' <=> Carried(a)
      BY <2>1, <2>3 DEF Carried
    <3>2. Pending' = Pending
      BY <3>1, PendingIsCarried
    <3>3. Once!RecordForNobody(b)
      BY <2>1, <3>2 DEF Once!RecordForNobody, Pending
    <3> QED BY <3>3 DEF Once!Next
  <2> QED BY <2>2, <2>3
<1>5. ASSUME WriteAlertFile PROVE [Once!Next]_(Once!vars)
  <2>1. /\ file # NoAlert /\ file' = NoAlert /\ fresh' = fresh \cup {file}
        /\ UNCHANGED <<opened, notified, node, notify, caller>>
    BY <1>5 DEF WriteAlertFile, run, chat
  <2> QED BY <1>0, <2>1, LosesOnly DEF Carried
<1>6. ASSUME ReplyDedupe PROVE [Once!Next]_(Once!vars)
  <2>1. /\ UNCHANGED <<opened, notified>> /\ caller' = NoRun
        /\ \A f \in Runs : node'[f] = "G2" =>
             \/ node[f] = "G2" /\ notify'[f] = notify[f]
             \/ f = caller /\ notify'[f] \subseteq fresh
    BY <1>0, <1>6, NoRunAssumption
       DEF ReplyDedupe, HandlerEnds, MergeAlertDedupeResults, GoTo, TypeOK,
           files, chat
  <2> QED BY <1>0, <2>1, NoRunAssumption, LosesOnly DEF Carried
<1>7. ASSUME DedupeThrows \/ Crash PROVE [Once!Next]_(Once!vars)
  <2>1. /\ UNCHANGED <<opened, notified>> /\ caller' = NoRun
        /\ \A f \in Runs : node'[f] = "G2" =>
             node[f] = "G2" /\ notify'[f] = notify[f]
    BY <1>0, <1>7 DEF DedupeThrows, Crash, HandlerEnds, Fail, GoTo, TypeOK,
       files, run, chat
  <2> QED BY <1>0, <2>1, NoRunAssumption, LosesOnly DEF Carried
<1> QED
  BY <1>1, <1>2, <1>3, <1>4, <1>5, <1>6, <1>7 DEF Next, RunStep, HandlerStep

\* Workflow 05 and the dedupe handler implement AlertOnce for any records,
\* runs and thresholds: an alert is recorded once, is then in one run's or
\* handler's hands, and ends in the chat or is lost, for good.
THEOREM WatchdogAlertsOnce == Spec => AlertsOnce
<1>1. Init => Once!Init
  <2>1. Init => \A a : ~ Carried(a)
    BY NoRunAssumption DEF Init, Carried
  <2>2. Init => Pending = {}
    BY <2>1, PendingIsCarried
  <2> QED BY <2>2 DEF Init, Once!Init, Pending
<1>2. LossInv /\ [Next]_vars => LossInv'
  BY TypeStep, RequestStep, CarriedStep DEF LossInv
<1>3. OnceInv /\ LossInv /\ [Next]_vars => [Once!Next]_(Once!vars)
  BY OnceImplemented DEF LossInv
<1> QED
  BY OnceInit, OnceStep, LossInit, <1>1, <1>2, <1>3, PTL
  DEF Spec, AlertsOnce, Once!Spec
=============================================================================
