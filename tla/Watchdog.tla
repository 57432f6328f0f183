------------------------------- MODULE Watchdog -------------------------------
(***************************************************************************)
(* Workflow 05, the SLA Watchdog, with the part of the sidecar it works    *)
(* on: the unfinished send and error records, and the alert files behind   *)
(* POST /v1/alert/dedupe.                                                  *)
(*                                                                         *)
(* An execution (a run) lists the unfinished records, turns the ones that  *)
(* are overdue into alerts, asks the sidecar which of them are new, posts  *)
(* the new ones to the chat and persists its result.  Runs overlap: a      *)
(* scheduled one starts every five minutes whatever the earlier ones do.   *)
(* None of its nodes continues on error: a run that meets one fails there. *)
(* The sidecar is one process, as deployed, so a request is handled        *)
(* without another one in between, but a crash or a file error may fall    *)
(* between two of its file-system calls.                                   *)
(***************************************************************************)
EXTENDS Integers, SendStates

CONSTANTS
    Sends,           \* send keys
    Errors,          \* error ids
    ErrorClasses,    \* the error classes that occur
    Runs,            \* executions of the watchdog
    Restarts,        \* bound: whether the model reuses a run that has ended
    NoRun,           \* nobody waits for the handler's answer
    NoAlert,         \* the handler has no file open
    NoRequest,       \* nothing is on its way to the sidecar
    SLA_WARNING_THRESHOLD,
    SLA_BREACH_THRESHOLD

ASSUME ThresholdAssumption ==
    /\ SLA_WARNING_THRESHOLD \in Nat /\ SLA_BREACH_THRESHOLD \in Nat
    /\ 0 < SLA_WARNING_THRESHOLD
    /\ SLA_WARNING_THRESHOLD < SLA_BREACH_THRESHOLD
ASSUME RestartsAssumption == Restarts \in BOOLEAN
ASSUME NoRunAssumption == NoRun \notin Runs

\* Nothing distinguishes two ages from the breach threshold on, so ages are
\* counted up to it.
Ages == 0..SLA_BREACH_THRESHOLD

Older(age) == IF age < SLA_BREACH_THRESHOLD THEN age + 1 ELSE age

-----------------------------------------------------------------------------
(***************************************************************************)
(* watchdog-core: what a record is about, and when it is overdue.          *)
(***************************************************************************)
SendFailureStates ==
    { "PERMANENT_FAILURE", "AUTH_OR_PLAN_FAILURE", "INVALID_REPLY_TARGET",
      "RETRY_EXHAUSTED" }

Categories ==
    { "AI_CLASSIFICATION_WAIT", "API_RETRY", "HUMAN_REVIEW", "SEND_FAILURE",
      "SEND_UNCERTAIN", "UNKNOWN_STATE" }

ClassifySendRecord(state) ==
    CASE state = "LOCKED" -> "AI_CLASSIFICATION_WAIT"
      [] state = "SUBMITTING" -> "API_RETRY"
      [] state \in {"SENT", "SEND_UNCERTAIN"} -> "SEND_UNCERTAIN"
      [] OTHER -> "UNKNOWN_STATE"

\* The error handler's records have no "reason"; a class it was handed by
\* the failed workflow and does not know gets MANUAL_REVIEW.
ClassifyErrorRecord(class) ==
    CASE class = "SEND_UNCERTAIN" -> "SEND_UNCERTAIN"
      [] class = "RETRYABLE" -> "API_RETRY"
      [] class \in SendFailureStates -> "SEND_FAILURE"
      [] class = "UNKNOWN" -> "UNKNOWN_STATE"
      [] OTHER -> "HUMAN_REVIEW"

SloTypeForCategory(category) ==
    IF category = "SEND_UNCERTAIN" THEN "TRANSMISSION" ELSE "PROCESSING"

StatusForAge(age) ==
    CASE age >= SLA_BREACH_THRESHOLD -> "BREACH"
      [] age >= SLA_WARNING_THRESHOLD /\ age < SLA_BREACH_THRESHOLD
           -> "WARNING"
      [] OTHER -> "OK"

\* The alert key: what the record is, and how overdue.  (The SLO type in it
\* follows from the category.)
AlertOf(r) ==
    [kind |-> r.kind, id |-> r.id, category |-> r.category,
     status |-> StatusForAge(r.age)]

AlertKeys ==
    [kind : {"send"}, id : Sends, category : Categories,
     status : {"WARNING", "BREACH"}]
    \cup [kind : {"error"}, id : Errors, category : Categories,
          status : {"WARNING", "BREACH"}]

Listed ==
    [kind : {"send"}, id : Sends, category : Categories, age : Ages]
    \cup [kind : {"error"}, id : Errors, category : Categories, age : Ages]

ASSUME NoAlertAssumption == NoAlert \notin AlertKeys

Nodes == {"A", "D", "F", "G", "G2", "H", "done", "failed"}

VARIABLES
    (* the records *)
    state,      \* state[k]: the state in the send record of k, or NoRecord
    created,    \* created[k]: the age of its createdAt
    updated,    \* updated[k]: the age of its updatedAt
    class,      \* class[x]: error_class of error record x, or NoRecord
    recorded,   \* recorded[x]: the age of its recordedAt
    resolved,   \* resolved[x]: it has been marked resolved
    (* the alert files *)
    opened,     \* alerts whose file exists
    written,    \* alerts whose file holds its record
    (* the handler of POST /v1/alert/dedupe *)
    busy,       \* a request is being handled
    caller,     \* the run that waits for the answer
    todo,       \* keys still to be recorded
    file,       \* the alert whose file it has just created
    fresh,      \* keys it has recorded as new
    (* the runs *)
    node,       \* node[e]: the next node of run e
    listing,    \* listing[e]: the records it was given
    alerts,     \* alerts[e]: the alerts in its item
    notify,     \* notify[e]: the alerts that were new
    wire,       \* wire[e]: its request on the way to the sidecar
    (* history *)
    notified,   \* alerts that reached the chat
    repeated,   \* alerts that reached it more than once
    missed      \* alerts of runs that failed before the chat had them

sends == <<state, created, updated>>
errors == <<class, recorded, resolved>>
files == <<opened, written>>
handler == <<busy, caller, todo, file, fresh>>
run == <<node, listing, alerts, notify, wire>>
chat == <<notified, repeated, missed>>
vars == <<sends, errors, files, handler, run, chat>>

TypeOK ==
    /\ state \in [Sends -> SendStateNames \cup {NoRecord}]
    /\ created \in [Sends -> Ages] /\ updated \in [Sends -> Ages]
    /\ class \in [Errors -> ErrorClasses \cup {NoRecord}]
    /\ recorded \in [Errors -> Ages] /\ resolved \in [Errors -> BOOLEAN]
    /\ opened \subseteq AlertKeys /\ written \subseteq AlertKeys
    /\ busy \in BOOLEAN /\ caller \in Runs \cup {NoRun}
    /\ todo \subseteq AlertKeys /\ fresh \subseteq AlertKeys
    /\ file \in AlertKeys \cup {NoAlert}
    /\ node \in [Runs -> Nodes]
    /\ listing \in [Runs -> SUBSET Listed]
    /\ alerts \in [Runs -> SUBSET AlertKeys]
    /\ notify \in [Runs -> SUBSET AlertKeys]
    /\ wire \in [Runs -> (SUBSET AlertKeys) \cup {NoRequest}]
    /\ notified \subseteq AlertKeys /\ repeated \subseteq AlertKeys
    /\ missed \subseteq AlertKeys

Init ==
    /\ state = [k \in Sends |-> NoRecord]
    /\ created = [k \in Sends |-> 0] /\ updated = [k \in Sends |-> 0]
    /\ class = [x \in Errors |-> NoRecord]
    /\ recorded = [x \in Errors |-> 0]
    /\ resolved = [x \in Errors |-> FALSE]
    /\ opened = {} /\ written = {}
    /\ busy = FALSE /\ caller = NoRun
    /\ todo = {} /\ file = NoAlert /\ fresh = {}
    /\ node = [e \in Runs |-> "A"]
    /\ listing = [e \in Runs |-> {}]
    /\ alerts = [e \in Runs |-> {}]
    /\ notify = [e \in Runs |-> {}]
    /\ wire = [e \in Runs |-> NoRequest]
    /\ notified = {} /\ repeated = {} /\ missed = {}

-----------------------------------------------------------------------------
(***************************************************************************)
(* The records change and get older.  The handlers behind these actions    *)
(* are atomic here (SendState looks inside them); none runs while the      *)
(* process handles a dedupe request.                                       *)
(***************************************************************************)
AcquireSend(k) ==
    /\ ~ busy
    /\ state[k] = NoRecord
    /\ state' = [state EXCEPT ![k] = "LOCKED"]
    /\ created' = [created EXCEPT ![k] = 0]
    /\ updated' = [updated EXCEPT ![k] = 0]
    /\ UNCHANGED <<errors, files, handler, run, chat>>

\* Mutant: writeState starts a new record instead of keeping createdAt.
TransitionSendAfresh(k, to) ==
    /\ ~ busy
    /\ CanTransition(state[k], to)
    /\ state' = [state EXCEPT ![k] = to]
    /\ created' = [created EXCEPT ![k] = 0]
    /\ updated' = [updated EXCEPT ![k] = 0]
    /\ UNCHANGED <<errors, files, handler, run, chat>>

TransitionSend(k, to) ==
    /\ ~ busy
    /\ CanTransition(state[k], to)
    /\ state' = [state EXCEPT ![k] = to]
    /\ updated' = [updated EXCEPT ![k] = 0]
    /\ UNCHANGED <<created, errors, files, handler, run, chat>>

WriteErrorRecord(x, c) ==
    /\ ~ busy
    /\ class[x] = NoRecord
    /\ class' = [class EXCEPT ![x] = c]
    /\ recorded' = [recorded EXCEPT ![x] = 0]
    /\ UNCHANGED <<sends, resolved, files, handler, run, chat>>

ResolveErrorRecord(x) ==
    /\ ~ busy
    /\ class[x] # NoRecord
    /\ resolved' = [resolved EXCEPT ![x] = TRUE]
    /\ UNCHANGED <<sends, class, recorded, files, handler, run, chat>>

\* The clock of node D runs on while a listing waits to be evaluated.
TimePasses ==
    /\ created' = [k \in Sends |-> Older(created[k])]
    /\ updated' = [k \in Sends |-> Older(updated[k])]
    /\ recorded' = [x \in Errors |-> Older(recorded[x])]
    /\ listing' = [e \in Runs |->
                     {[r EXCEPT !.age = Older(@)] : r \in listing[e]}]
    /\ UNCHANGED <<state, class, resolved, files, handler, node, alerts,
                   notify, wire, chat>>

\* timestampForSendRecord: details never carry a transmission start.
SendAge(k, category) ==
    IF SloTypeForCategory(category) = "TRANSMISSION"
      THEN updated[k] ELSE created[k]

ListUnfinishedSends ==
    { LET c == ClassifySendRecord(state[k]) IN
      [kind |-> "send", id |-> k, category |-> c, age |-> SendAge(k, c)] :
        k \in {j \in Sends : Unfinished(state[j])} }

\* Mutant: what is retryable is left to the retry.
ListUnresolvedErrorsFinal ==
    { [kind |-> "error", id |-> x, category |-> ClassifyErrorRecord(class[x]),
       age |-> recorded[x]] :
        x \in {y \in Errors : class[y] \notin {NoRecord, "RETRYABLE"}
                               /\ ~ resolved[y]} }

ListUnresolvedErrors ==
    { [kind |-> "error", id |-> x, category |-> ClassifyErrorRecord(class[x]),
       age |-> recorded[x]] :
        x \in {y \in Errors : class[y] # NoRecord /\ ~ resolved[y]} }

-----------------------------------------------------------------------------
(***************************************************************************)
(* A run.                                                                  *)
(***************************************************************************)
GoTo(e, n) == node' = [node EXCEPT ![e] = n]

\* A, B, C.  With Restarts the identity of a run that has ended stands for
\* another one, after its request has reached the sidecar or got lost.
GetUnfinishedRecords(e) ==
    /\ ~ busy
    /\ \/ node[e] = "A"
       \/ /\ Restarts /\ node[e] \in {"done", "failed"}
          /\ wire[e] = NoRequest
    /\ GoTo(e, "D")
    /\ listing' = [listing EXCEPT ![e] =
                     ListUnfinishedSends \cup ListUnresolvedErrors]
    /\ notify' = [notify EXCEPT ![e] = {}]
    /\ UNCHANGED <<sends, errors, files, handler, alerts, wire, chat>>

\* Mutant: every record of the listing becomes an alert.
EvaluateUnfinishedRecordsAll(e) ==
    /\ node[e] = "D"
    /\ GoTo(e, "F")
    /\ alerts' = [alerts EXCEPT ![e] = {AlertOf(r) : r \in listing[e]}]
    /\ listing' = [listing EXCEPT ![e] = {}]
    /\ UNCHANGED <<sends, errors, files, handler, notify, wire, chat>>

\* D, E: the warnings and breaches in the listing.
EvaluateUnfinishedRecords(e) ==
    /\ node[e] = "D"
    /\ GoTo(e, "F")
    /\ alerts' = [alerts EXCEPT ![e] =
                    {AlertOf(r) : r \in {s \in listing[e] :
                                           StatusForAge(s.age) # "OK"}}]
    /\ listing' = [listing EXCEPT ![e] = {}]
    /\ UNCHANGED <<sends, errors, files, handler, notify, wire, chat>>

\* F.
DedupeAlerts(e) ==
    /\ node[e] = "F"
    /\ GoTo(e, "G")
    /\ wire' = [wire EXCEPT ![e] = alerts[e]]
    /\ UNCHANGED <<sends, errors, files, handler, listing, alerts, notify, chat>>

\* Mutant: the alerts that the sidecar knew already are the ones to post.
MergeAlertDedupeResultsSwapped(e) ==
    notify' = [notify EXCEPT ![e] = alerts[e] \ fresh]

\* G: the answer is there; what was new goes on to the chat.
MergeAlertDedupeResults(e) ==
    notify' = [notify EXCEPT ![e] = alerts[e] \cap fresh]

\* Mutant: the chat node repeats a call whose answer was lost.
PostChatAlertRetrying(e) ==
    /\ node[e] = "G2"
    /\ notify[e] # {}
    /\ \/ GoTo(e, "H") /\ alerts' = [alerts EXCEPT ![e] = {}]
       \/ UNCHANGED <<node, alerts>>
    /\ notified' = notified \cup notify[e]
    /\ repeated' = repeated \cup (notified \cap notify[e])
    /\ UNCHANGED <<sends, errors, files, handler, listing, notify, wire, missed>>

\* G2, G3, G5: one message with all the new alerts.  What goes on to H is
\* the item that G3 returned, the chat's response, without the alerts.
PostChatAlert(e) ==
    /\ node[e] = "G2"
    /\ notify[e] # {}
    /\ GoTo(e, "H")
    /\ alerts' = [alerts EXCEPT ![e] = {}]
    /\ notified' = notified \cup notify[e]
    /\ repeated' = repeated \cup (notified \cap notify[e])
    /\ UNCHANGED <<sends, errors, files, handler, listing, notify, wire, missed>>

\* G2, G4, G5: nothing new.
SkipWatchdogNotification(e) ==
    /\ node[e] = "G2"
    /\ notify[e] = {}
    /\ GoTo(e, "H")
    /\ UNCHANGED <<sends, errors, files, handler, listing, alerts, notify,
                   wire, chat>>

\* H, I, J.
PersistWatchdogResult(e) ==
    /\ ~ busy
    /\ node[e] = "H"
    /\ GoTo(e, "done")
    /\ alerts' = [alerts EXCEPT ![e] = {}]
    /\ UNCHANGED <<sends, errors, files, handler, listing, notify, wire, chat>>

HangUp(e) == caller' = IF caller = e THEN NoRun ELSE caller

\* A run ends at the node that meets an error, G with an answer that is
\* not the list of results, too.
Fail(e) ==
    /\ GoTo(e, "failed")
    /\ listing' = [listing EXCEPT ![e] = {}]
    /\ alerts' = [alerts EXCEPT ![e] = {}]
    /\ notify' = [notify EXCEPT ![e] = {}]

\* Alerts that the sidecar may have on file and the chat has not.
InHand(e) ==
    CASE node[e] = "G" -> alerts[e]
      [] node[e] = "G2" -> notify[e]
      [] OTHER -> {}

\* A call times out or is refused, or n8n dies.  The chat may have got the
\* message of a call whose answer was lost.
RunFails(e) ==
    /\ node[e] \in {"D", "F", "G", "G2", "H"}
    /\ Fail(e)
    /\ HangUp(e)
    /\ missed' = missed \cup InHand(e)
    /\ \/ UNCHANGED <<notified, repeated>>
       \/ /\ node[e] = "G2"
          /\ notified' = notified \cup notify[e]
          /\ repeated' = repeated \cup (notified \cap notify[e])
    /\ UNCHANGED <<sends, errors, files, busy, todo, file, fresh, wire>>

RequestLost(e) ==
    /\ wire[e] # NoRequest
    /\ wire' = [wire EXCEPT ![e] = NoRequest]
    /\ UNCHANGED <<sends, errors, files, handler, node, listing, alerts,
                   notify, chat>>

-----------------------------------------------------------------------------
(***************************************************************************)
(* The handler of POST /v1/alert/dedupe: recordAlertOnce for one key after *)
(* the other, in the order of the request, which the model leaves open.    *)
(***************************************************************************)
ReceiveDedupe(e) ==
    /\ ~ busy
    /\ wire[e] # NoRequest
    /\ busy' = TRUE
    /\ caller' = IF node[e] = "G" THEN e ELSE NoRun
    /\ todo' = wire[e]
    /\ fresh' = {}
    /\ wire' = [wire EXCEPT ![e] = NoRequest]
    /\ UNCHANGED <<sends, errors, files, file, node, listing, alerts, notify, chat>>

\* Mutant: the file is opened with "w" instead of "wx".
CreateAlertFileAnyway(a) ==
    /\ busy /\ file = NoAlert
    /\ a \in todo
    /\ opened' = opened \cup {a}
    /\ file' = a
    /\ UNCHANGED <<sends, errors, written, busy, caller, todo, fresh, run, chat>>

\* open('wx').
CreateAlertFile(a) ==
    /\ busy /\ file = NoAlert
    /\ a \in todo \ opened
    /\ opened' = opened \cup {a}
    /\ file' = a
    /\ UNCHANGED <<sends, errors, written, busy, caller, todo, fresh, run, chat>>

WriteAlertFile ==
    /\ file # NoAlert
    /\ written' = written \cup {file}
    /\ fresh' = fresh \cup {file}
    /\ todo' = todo \ {file}
    /\ file' = NoAlert
    /\ UNCHANGED <<sends, errors, opened, busy, caller, run, chat>>

\* EEXIST: the existing file is read and parsed.
ReadAlertFile(a) ==
    /\ busy /\ file = NoAlert
    /\ a \in todo \cap written
    /\ todo' = todo \ {a}
    /\ UNCHANGED <<sends, errors, files, busy, caller, file, fresh, run, chat>>

HandlerEnds ==
    /\ busy' = FALSE
    /\ caller' = NoRun
    /\ todo' = {} /\ file' = NoAlert /\ fresh' = {}

\* The response reaches node G, unless nobody waits for it any more.
ReplyDedupe ==
    /\ busy /\ todo = {}
    /\ HandlerEnds
    /\ \/ /\ caller \in Runs
          /\ MergeAlertDedupeResults(caller)
          /\ GoTo(caller, "G2")
       \/ /\ caller = NoRun
          /\ UNCHANGED <<node, notify>>
    /\ UNCHANGED <<sends, errors, files, listing, alerts, wire, chat>>

\* A file-system call throws, or an existing file does not parse: the whole
\* request is answered 400, on which node F fails.
DedupeThrows ==
    /\ busy /\ todo # {}
    /\ HandlerEnds
    /\ \/ /\ caller \in Runs
          /\ Fail(caller)
          /\ missed' = missed \cup alerts[caller]
       \/ /\ caller = NoRun
          /\ UNCHANGED <<node, listing, alerts, notify, missed>>
    /\ UNCHANGED <<sends, errors, files, wire, notified, repeated>>

\* The container restarts.
Crash ==
    /\ busy
    /\ HandlerEnds
    /\ UNCHANGED <<sends, errors, files, run, chat>>

-----------------------------------------------------------------------------
RunStep(e) ==
    \/ EvaluateUnfinishedRecords(e)
    \/ DedupeAlerts(e)
    \/ PostChatAlert(e)
    \/ SkipWatchdogNotification(e)
    \/ PersistWatchdogResult(e)

HandlerStep ==
    \/ \E e \in Runs : ReceiveDedupe(e)
    \/ \E a \in AlertKeys : CreateAlertFile(a) \/ ReadAlertFile(a)
    \/ WriteAlertFile
    \/ ReplyDedupe

RecordStep ==
    \/ \E k \in Sends :
         \/ AcquireSend(k)
         \/ \E to \in SendStateNames : TransitionSend(k, to)
    \/ \E x \in Errors :
         \/ \E c \in ErrorClasses : WriteErrorRecord(x, c)
         \/ ResolveErrorRecord(x)
    \/ TimePasses

Next ==
    \/ RecordStep
    \/ \E e \in Runs :
         GetUnfinishedRecords(e) \/ RunStep(e) \/ RunFails(e) \/ RequestLost(e)
    \/ HandlerStep
    \/ DedupeThrows
    \/ Crash

Spec == Init /\ [][Next]_vars

\* The schedule starts a run again and again, n8n goes on with a run it has
\* started and gives up on an unanswered call, and the sidecar works.
FairSpec ==
    /\ Spec
    /\ WF_vars(\E e \in Runs : GetUnfinishedRecords(e))
    /\ \A e \in Runs : WF_vars(RunStep(e))
    /\ \A e \in Runs : WF_vars(node[e] = "G" /\ RunFails(e))
    /\ WF_vars(HandlerStep)
    /\ WF_vars(busy /\ DedupeThrows)

-----------------------------------------------------------------------------
\* No alert is posted to the chat twice, with runs that overlap, answers
\* that are lost or late, and a sidecar that crashes in between.
NotifiedAtMostOnce == repeated = {}

\* An alert that has its file has reached the chat, or is in the hands of a
\* run that will post it, or of one that failed.  Later runs do not post it,
\* so nothing else may use an alert up.
RecordedIsNotified ==
    \A a \in opened :
        \/ a \in notified \cup missed
        \/ \E e \in Runs : a \in InHand(e)

\* Watchdog implements AlertOnce: a new alert is with the handler that will
\* tell a waiting run of it, then with that one run, and then in the chat or
\* lost for good.
ToPost == UNION {notify[e] : e \in {f \in Runs : node[f] = "G2"}}
ToAnswer == IF caller \in Runs THEN fresh \cup ({file} \ {NoAlert}) ELSE {}

Once == INSTANCE AlertOnce WITH
    Alerts <- AlertKeys, recorded <- opened, pending <- ToPost \cup ToAnswer,
    posted <- notified
AlertsOnce == Once!Spec

\* What an evaluation would say of send k now.
Processing(k) ==
    /\ Unfinished(state[k])
    /\ SloTypeForCategory(ClassifySendRecord(state[k])) = "PROCESSING"
Overdue(k) ==
    StatusForAge(SendAge(k, ClassifySendRecord(state[k]))) = "BREACH"

\* A send that has breached the processing SLO stays in breach until it
\* leaves processing: no transition makes it look new.
BreachOutlivesTransitions ==
    [][\A k \in Sends :
          Processing(k) /\ Overdue(k) /\ Processing(k)' => Overdue(k)']_vars

\* Unless runs keep failing, an error that stays unresolved past the breach
\* threshold is posted to the chat as a breach, or a run failed over it.
StuckErrorIsAlerted ==
    \A x \in Errors :
        \/ \E e \in Runs : []<>(node[e] = "failed")
        \/ <>[](class[x] # NoRecord /\ ~ resolved[x]
                 /\ recorded[x] >= SLA_BREACH_THRESHOLD) =>
              <>(\E a \in notified \cup missed :
                   a.kind = "error" /\ a.id = x /\ a.status = "BREACH")

=============================================================================
