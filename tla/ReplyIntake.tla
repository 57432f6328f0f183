----------------------------- MODULE ReplyIntake -----------------------------
(***************************************************************************)
(* Workflow 01 (Reply Intake) with the error workflow behind it (Workflow  *)
(* 04): a webhook delivery becomes an execution, which claims the event's  *)
(* idempotency key by an upsert, drops what it takes for a duplicate, and  *)
(* calls the Decision Engine and Human Approval.  An execution that fails  *)
(* starts an execution of the error workflow, which leaves a record in the *)
(* sidecar and a message in the chat; the record names the execution, the  *)
(* message does not.  Nothing is ever retried: what a failed or killed     *)
(* execution has claimed stays claimed.                                    *)
(*                                                                         *)
(* Code nodes in a row run as one step; a step ends at every call that     *)
(* leaves the execution.  n8n is one process: a crash ends every running   *)
(* execution, of both workflows.                                           *)
(***************************************************************************)
EXTENDS Integers, FiniteSets

CONSTANTS
    Deliveries,     \* webhook deliveries, an execution of Workflow 01 each
    HarnessReports, \* executions of Workflow 04 that Workflow 06 calls
    Keys,           \* idempotency keys (E1's hash may join two events in one)
    Events,         \* the bodies that are delivered
    FlatItems,      \* the items that Workflow 06 reports
    ChatConfigured, \* review.google_chat_configured
    MaxClock,       \* Bound: milliseconds that pass
    Nothing         \* a field, row, item or id that is not there

(***************************************************************************)
(* key: what E1 computes.  payload: what C makes of the body.  live: a     *)
(* claim of a live campaign, which gate B looks for.  listed: workspace,   *)
(* campaign and mailbox are on F1's lists.  ordinary: a supported type and *)
(* not sent by the mailbox itself.                                         *)
(***************************************************************************)
Event == [ key : Keys, payload : {"COMPLETE", "INCOMPLETE", "MALFORMED"},
           live : BOOLEAN, listed : BOOLEAN, ordinary : BOOLEAN ]
ASSUME EventsAssumption == Events \subseteq Event
ASSUME MaxClockAssumption == MaxClock \in Nat

EntrySources == {"PRODUCTION_WEBHOOK", "DEV_OR_SYNTHETIC"}

\* The fields of an error workflow's item that the record is made of.
\* terminal: the send_state of a Sender's terminal item.
ErrorClasses == { "PERMANENT_FAILURE", "AUTH_OR_PLAN_FAILURE", "INVALID_REPLY_TARGET",
                  "RETRYABLE", "SEND_UNCERTAIN", "UNKNOWN" }
OperatorActions == { "REVIEW_PAYLOAD", "CHECK_CREDENTIALS_AND_PLAN",
                     "INVESTIGATE_REPLY_TARGET", "MONITOR_RETRY",
                     "MANUAL_RECONCILIATION_REQUIRED", "MANUAL_REVIEW" }
SendStates == {"SEND_UNCERTAIN", "BLOCKED"}
Flat == [ error_class : ErrorClasses \cup {Nothing},
          send_state : SendStates \cup {Nothing},
          terminal : SendStates \cup {Nothing},
          operator_action : OperatorActions \cup {Nothing},
          http_status : {400, 401, 402, 403, 404, 429, 500, 502, 503, 504, Nothing},
          retryable : BOOLEAN \cup {Nothing} ]
ASSUME FlatItemsAssumption == FlatItems \subseteq Flat

-----------------------------------------------------------------------------
\* What n8n's Error Trigger brings has none of the flat fields.
TriggerItem == [ error_class |-> Nothing, send_state |-> Nothing, terminal |-> Nothing,
                 operator_action |-> Nothing, http_status |-> Nothing,
                 retryable |-> Nothing ]

RETRYABLE_HTTP_STATUSES == {429, 500, 502, 503, 504}

ClassifyErrorClass(input) ==
    IF input.error_class # Nothing THEN input.error_class
    ELSE IF input.send_state = "SEND_UNCERTAIN" THEN "SEND_UNCERTAIN"
    ELSE IF input.http_status = 400 THEN "PERMANENT_FAILURE"
    ELSE IF input.http_status \in {401, 402, 403} THEN "AUTH_OR_PLAN_FAILURE"
    ELSE IF input.http_status = 404 THEN "INVALID_REPLY_TARGET"
    ELSE IF input.http_status \in RETRYABLE_HTTP_STATUSES THEN "RETRYABLE"
    ELSE "UNKNOWN"

DeriveRetryable(input) ==
    IF input.send_state = "SEND_UNCERTAIN" THEN FALSE
    ELSE IF input.retryable # Nothing THEN input.retryable
    ELSE ClassifyErrorClass(input) = "RETRYABLE"

OPERATOR_ACTION_BY_CLASS ==
    [ PERMANENT_FAILURE    |-> "REVIEW_PAYLOAD",
      AUTH_OR_PLAN_FAILURE |-> "CHECK_CREDENTIALS_AND_PLAN",
      INVALID_REPLY_TARGET |-> "INVESTIGATE_REPLY_TARGET",
      RETRYABLE            |-> "MONITOR_RETRY",
      SEND_UNCERTAIN       |-> "MANUAL_RECONCILIATION_REQUIRED",
      UNKNOWN              |-> "MANUAL_REVIEW" ]

DeriveOperatorAction(input) ==
    IF input.operator_action # Nothing THEN input.operator_action
    ELSE OPERATOR_ACTION_BY_CLASS[ClassifyErrorClass(input)]

\* The record that A and B make of an item.  It names an execution: the
\* trigger's item has no intake id and no send key.
ErrorRecord(x, input) ==
    [ execution   |-> x,
      send_state  |-> IF input.send_state # Nothing THEN input.send_state
                      ELSE input.terminal,
      error_class |-> ClassifyErrorClass(input),
      retryable   |-> DeriveRetryable(input),
      operator_action |-> DeriveOperatorAction(input) ]

\* D reads error_record.error_id, a field that nobody sets: C2 attaches the
\* sidecar's answer as persisted_error.errorId.
NotifiedId == "UNKNOWN_ID"

\* The text that D makes of an item.  Its workflow and node, which are left
\* out, are those of many executions: nothing in it names this one.
Notice(input) == [ errorId |-> NotifiedId, error_class |-> ClassifyErrorClass(input),
                   operator_action |-> DeriveOperatorAction(input) ]

-----------------------------------------------------------------------------
VARIABLES
    now,        \* the clock of the data table, in milliseconds
    rows,       \* hmz_validation_reply_intake_idempotency, by key
    pc,         \* pc[d]: the node that execution d has come to, or its end
    item,       \* item[d]: d's item, as far as nodes add to it
    claimedAt,  \* claimedAt[d]: the updatedAt that d's upsert wrote
    engine,     \* the executions that called the Decision Engine
    cases,      \* the executions whose reply has a review case
    handler,    \* handler[x]: where the error workflow is for x
    report,     \* report[x]: its item
    errors,     \* error records in the sidecar
    chat,       \* the texts of the messages that were posted
    lost        \* <<execution, node>>: calls of C or F that failed

intake == <<now, rows, pc, item, claimedAt, engine, cases>>
handling == <<handler, report, errors, chat, lost>>
vars == <<now, rows, pc, item, claimedAt, engine, cases,
          handler, report, errors, chat, lost>>

Reporters == Deliveries \cup HarnessReports

Running == {"E2", "G", "H"}
Ends == { "REJECTED", "COMPLETED_NO_SEND", "GATED", "HANDED_OVER",
          "FAILED", "CRASHED" }

Clock == 0..MaxClock
\* intake: intake_id of the execution that wrote the row last.
Row == [ createdAt : Clock, updatedAt : Clock, intake : Deliveries,
         state : {"REJECTED", "READY_FOR_DECISION"} ]
Item == [ event : Events ]

ASSUME NothingAssumption ==
    /\ Nothing \notin Clock
    /\ Nothing \notin Row
    /\ Nothing \notin Item
    /\ Nothing \notin Flat

\* Every variable has its type.
TypeOK ==
    /\ now \in Clock
    /\ rows \in [Keys -> Row \cup {Nothing}]
    /\ pc \in [Deliveries -> {"idle"} \cup Running \cup Ends]
    /\ item \in [Deliveries -> Item \cup {Nothing}]
    /\ \A d \in Deliveries : pc[d] # "idle" => item[d] # Nothing
    /\ claimedAt \in [Deliveries -> Clock \cup {Nothing}]
    /\ engine \subseteq Deliveries
    /\ cases \subseteq Deliveries
    /\ handler \in [Reporters -> {"none", "C", "E", "done", "CRASHED"}]
    /\ report \in [Reporters -> FlatItems \cup {TriggerItem, Nothing}]
    /\ \A x \in Reporters : handler[x] # "none" => report[x] # Nothing
    /\ errors \subseteq {ErrorRecord(x, i) : x \in Reporters, i \in FlatItems \cup {TriggerItem}}
    /\ chat \subseteq {Notice(i) : i \in FlatItems \cup {TriggerItem}}
    /\ lost \subseteq Reporters \X {"C", "F"}

Init ==
    /\ now = 0
    /\ rows = [k \in Keys |-> Nothing]
    /\ pc = [d \in Deliveries |-> "idle"]
    /\ item = [d \in Deliveries |-> Nothing]
    /\ claimedAt = [d \in Deliveries |-> Nothing]
    /\ engine = {} /\ cases = {}
    /\ handler = [x \in Reporters |-> "none"]
    /\ report = [x \in Reporters |-> Nothing]
    /\ errors = {} /\ chat = {} /\ lost = {}

Tick ==
    /\ now < MaxClock
    /\ now' = now + 1
    /\ UNCHANGED <<rows, pc, item, claimedAt, engine, cases, handling>>

-----------------------------------------------------------------------------
\* A0 of either webhook.
Tag(e, source) == [ event |-> e, entry_source |-> source ]

\* A makes a new item: id, time, body.
Normalize(tagged) == [ event |-> tagged.event ]

\* A0, A, B, B1, and either B2 or C, D, E1.
Receive(d) ==
    /\ pc[d] = "idle"
    /\ \E e \in Events, source \in EntrySources :
         /\ item' = [item EXCEPT ![d] = Normalize(Tag(e, source))]
         /\ pc' = [pc EXCEPT ![d] = IF e.live THEN "REJECTED" ELSE "E2"]
    /\ UNCHANGED <<now, rows, claimedAt, engine, cases, handling>>

KeyOf(d) == item[d].event.key

ProposedState(e) ==
    IF e.payload = "MALFORMED" THEN "REJECTED" ELSE "READY_FOR_DECISION"

\* The row of d's key as an upsert of d at this moment leaves it.
UpsertedRow(d) ==
    LET row == rows[KeyOf(d)]
    IN  [ createdAt |-> IF row = Nothing THEN now ELSE row.createdAt,
          updatedAt |-> now,
          intake    |-> d,
          state     |-> ProposedState(item[d].event) ]

\* Mutant: the times of the answer are not read.
NeverDuplicate(row) == FALSE

\* E3, on the row that the upsert answers with.
IsDuplicate(row) == row.createdAt # row.updatedAt

EntrySource(it) == IF "entry_source" \in DOMAIN it THEN it.entry_source ELSE "UNKNOWN"

\* F and F1.  F2 lets through what passes.
SecurityGatePasses(it) ==
    \/ EntrySource(it) # "PRODUCTION_WEBHOOK"
    \/ it.event.listed /\ it.event.ordinary /\ it.event.payload # "MALFORMED"

\* E2, E3, E4, and either E5 or F, F1, F2 and perhaps F3.
Upsert(d) ==
    /\ pc[d] = "E2"
    /\ rows' = [rows EXCEPT ![KeyOf(d)] = UpsertedRow(d)]
    /\ claimedAt' = [claimedAt EXCEPT ![d] = now]
    /\ pc' = [pc EXCEPT ![d] =
                 IF IsDuplicate(UpsertedRow(d)) THEN "COMPLETED_NO_SEND"
                 ELSE IF SecurityGatePasses(item[d]) THEN "G"
                 ELSE "GATED"]
    /\ UNCHANGED <<now, item, engine, cases, handling>>

\* Mutant: the settings name no errorWorkflow.
FailUnreported(d) ==
    /\ pc' = [pc EXCEPT ![d] = "FAILED"]
    /\ UNCHANGED <<now, item, handling>>

\* n8n ends execution d at a node that fails, and starts the workflow that
\* the settings name as errorWorkflow.
Fail(d) ==
    /\ pc' = [pc EXCEPT ![d] = "FAILED"]
    /\ handler' = [handler EXCEPT ![d] = "C"]
    /\ report' = [report EXCEPT ![d] = TriggerItem]
    /\ UNCHANGED <<now, item, errors, chat, lost>>

\* E2 fails; whether the row was written is another matter.
UpsertFails(d) ==
    /\ pc[d] = "E2"
    /\ \/ /\ rows' = [rows EXCEPT ![KeyOf(d)] = UpsertedRow(d)]
          /\ claimedAt' = [claimedAt EXCEPT ![d] = now]
       \/ UNCHANGED <<rows, claimedAt>>
    /\ Fail(d)
    /\ UNCHANGED <<engine, cases>>

\* G: the Decision Engine runs as a sub-workflow and its item comes back.
Decide(d) ==
    /\ pc[d] = "G"
    /\ engine' = engine \cup {d}
    /\ pc' = [pc EXCEPT ![d] = "H"]
    /\ UNCHANGED <<now, rows, item, claimedAt, cases, handling>>

DecideFails(d) ==
    /\ pc[d] = "G"
    /\ engine' = engine \cup {d}
    /\ Fail(d)
    /\ UNCHANGED <<rows, claimedAt, cases>>

\* H: Human Approval runs as a sub-workflow and leaves a review case.
HandOver(d) ==
    /\ pc[d] = "H"
    /\ cases' = cases \cup {d}
    /\ pc' = [pc EXCEPT ![d] = "HANDED_OVER"]
    /\ UNCHANGED <<now, rows, item, claimedAt, engine, handling>>

\* It fails before or after it stored the case.
HandOverFails(d) ==
    /\ pc[d] = "H"
    /\ cases' \in {cases, cases \cup {d}}
    /\ Fail(d)
    /\ UNCHANGED <<rows, claimedAt, engine>>

-----------------------------------------------------------------------------
\* Workflow 06 hands a flat item to the error workflow's second trigger.
Report(x) ==
    /\ handler[x] = "none"
    /\ \E input \in FlatItems : report' = [report EXCEPT ![x] = input]
    /\ handler' = [handler EXCEPT ![x] = "C"]
    /\ UNCHANGED <<intake, errors, chat, lost>>

\* A, B, C, C2: the record is posted.  An error of the call goes on as a
\* regular item, without an errorId.
Persist(x) ==
    /\ handler[x] = "C"
    /\ \/ errors' = errors \cup {ErrorRecord(x, report[x])} /\ UNCHANGED lost
       \/ /\ errors' \in {errors, errors \cup {ErrorRecord(x, report[x])}}
          /\ lost' = lost \cup {<<x, "C">>}
    /\ handler' = [handler EXCEPT ![x] = "E"]
    /\ UNCHANGED <<intake, report, chat>>

\* D, E, and F with G, or F2 with G.
Notify(x) ==
    /\ handler[x] = "E"
    /\ LET posted == chat \cup {Notice(report[x])}
       IN  \/ ChatConfigured /\ chat' = posted /\ UNCHANGED lost
           \/ /\ ChatConfigured
              /\ chat' \in {chat, posted}
              /\ lost' = lost \cup {<<x, "F">>}
           \/ ~ ChatConfigured /\ UNCHANGED <<chat, lost>>
    /\ handler' = [handler EXCEPT ![x] = "done"]
    /\ UNCHANGED <<intake, report, errors>>

\* n8n dies and comes back; it resumes nothing.
Crash ==
    /\ \/ \E d \in Deliveries : pc[d] \in Running
       \/ \E x \in Reporters : handler[x] \in {"C", "E"}
    /\ pc' = [d \in Deliveries |-> IF pc[d] \in Running THEN "CRASHED" ELSE pc[d]]
    /\ handler' = [x \in Reporters |->
                     IF handler[x] \in {"C", "E"} THEN "CRASHED" ELSE handler[x]]
    /\ UNCHANGED <<now, rows, item, claimedAt, engine, cases, report, errors, chat, lost>>

DeliveryNext(d) ==
    \/ Receive(d) \/ Upsert(d) \/ UpsertFails(d)
    \/ Decide(d) \/ DecideFails(d) \/ HandOver(d) \/ HandOverFails(d)

HandlerNext(x) == Persist(x) \/ Notify(x)

Next ==
    \/ Tick
    \/ \E d \in Deliveries : DeliveryNext(d)
    \/ \E x \in HarnessReports : Report(x)
    \/ \E x \in Reporters : HandlerNext(x)
    \/ Crash

Spec == Init /\ [][Next]_vars

-----------------------------------------------------------------------------
\* "Duplicate events do not invoke the Decision Engine"
\* (docs/STATE_AND_IDEMPOTENCY.md:34), as far as node E3 can tell: it
\* compares the times of the row, so that the engine is called a second time
\* for a key only if both upserts came in one millisecond.
EngineCallsAreSimultaneous ==
    \A d, e \in engine : KeyOf(d) = KeyOf(e) => claimedAt[d] = claimedAt[e]

\* The executions whose upsert of k took effect.
Claimants(k) == {d \in Deliveries : claimedAt[d] # Nothing /\ KeyOf(d) = k}

RecordedExecutions == {r.execution : r \in errors}

\* A failure of d that the error workflow has dealt with left a record of
\* d.  Where the call that writes it failed, all that is left is a message
\* that fits d among others, and not even that if its call failed as well.
FailureIsVisible(d) ==
    \/ handler[d] \in {"C", "CRASHED"}
    \/ d \in RecordedExecutions
    \/ /\ <<d, "C">> \in lost
       /\ handler[d] = "done" /\ ChatConfigured =>
            <<d, "F">> \in lost \/ Notice(report[d]) \in chat

\* A key that is used up belongs to a reply that somebody handles or knows
\* of.  Every later delivery of the event is dropped as its duplicate
\* (E3, E5), so of the executions that claimed the key one must not have
\* been dropped: it is under way, it was handed over, gate F1 refused it,
\* it died with n8n (which nothing reports), or it failed, and then the
\* sidecar has a record that names it, unless the call that writes the
\* record failed too (nodes E2 to H, settings.errorWorkflow, nodes A to F
\* of Workflow 04).
NoReplyVanishes ==
    \A k \in Keys :
        rows[k] # Nothing =>
            \E d \in Claimants(k) :
                \/ pc[d] \in Running \cup {"HANDED_OVER", "GATED", "CRASHED"}
                \/ pc[d] = "FAILED" /\ FailureIsVisible(d)
=============================================================================
