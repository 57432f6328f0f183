---------------------------- MODULE HumanApproval ----------------------------
(***************************************************************************)
(* Workflow 07, Human Approval, as it runs in production: a review case    *)
(* per inbound reply in the Review_Cases data table, a link with a token   *)
(* in a chat message, a form that is opened and submitted in browser tabs, *)
(* and the hand-off of approved cases to the Sender, which is reduced here *)
(* to what it answers and to the claim it makes on the send key (module    *)
(* Sender has its nodes).                                                  *)
(*                                                                         *)
(* Nothing locks a row: a submission looks its case up (L0), decides on    *)
(* the row it saw (L-N) and updates the row by case_id (O), with any other *)
(* execution in between.  No step is forced, so every execution may also   *)
(* stop for good at any node.                                              *)
(***************************************************************************)
CONSTANTS
    Cases,      \* case_id: a 32-bit hash of the intake_id and the policy
    Creations,  \* executions that create a case.  Each one draws a token
                \* and brings a draft with its context: it names both.
    Tabs,       \* browser tabs, each with one form, and the execution that
                \* its submission starts; a double click is two tabs
    Keys,       \* send keys
    CaseOf,     \* CaseOf[h]: the case that creation h writes
    KeyOf,      \* KeyOf[h]: send key of a reply with h's context
    NoRow, NoPage, NoDecision

\* What a case permits.  ready: can be approved;  unresolved: blocked_variables is not empty;
\* missing: context_missing;  noDraft: draft_policy NO_DRAFT, which node A
\* accepts, and which J and N take for missing context because the table
\* has no column for it.
Kinds == {"ready", "unresolved", "missing", "noDraft"}

ASSUME CaseOfAssumption == CaseOf \in [Creations -> Cases]
ASSUME KeyOfAssumption == KeyOf \in [Creations -> Keys]

ApprovedStatuses == {"RESPONSE_APPROVED", "LEARNING_REVISION_APPROVED"}
SentStyleStatuses == ApprovedStatuses \cup {"FOLLOWUP_SEND_PENDING_MANUAL"}
RenderableStatuses ==
    SentStyleStatuses \cup {"NEW", "IN_REVIEW", "CONTEXT_MISSING_BLOCKED"}
Statuses == RenderableStatuses \cup {"NO_REPLY_REQUIRED"}

Actions ==
    { "save", "approve_learning_only", "approve", "deny",
      "approve_and_send_followup" }
\* The buttons of the form of a case that was approved.
AmendActions == {"approve_learning_only", "approve_and_send_followup"}

FinalActions ==
    { "blocked_context_missing", "blocked", "save", "approve_learning_only",
      "approve_and_send_followup_pending", "approve", "deny" }

Notifications == {"PENDING", "SENT", "REVIEW_NOTIFICATION_FAILED"}

\* blocked and sentBefore are the part of decision_payload that J reads:
\* action = "blocked", and a sent-style previous_status.
Row == [ status : Statuses, token : Creations, draft : Creations,
         kind : Kinds, notification : Notifications, blocked : BOOLEAN,
         sentBefore : BOOLEAN ]
ASSUME NoRowAssumption == NoRow \notin Row

Page == [token : Creations, draft : Creations, offers : SUBSET Actions]
Decision == [ final : FinalActions, status : Statuses, blocked : BOOLEAN,
              sentBefore : BOOLEAN ]

VARIABLES
    creating,   \* creating[h]: next node of creation h
    chat,       \* chat[h]: notification_status as h has it after node F
    row,        \* row[c]: the row of case c
    expired,    \* tokens whose token_expires_at has passed
    links,      \* tokens whose link reached somebody
    node,       \* node[t]: next node of t's submission
    page,       \* page[t]: the form that tab t shows
    seen,       \* seen[t]: the row that t's submission looked up
    decision,   \* decision[t]: what node N made of it
    carried,    \* carried[t]: the token in the context that O1 restored
    claimed,    \* send keys that the sidecar knows
    posted,     \* submissions whose Sender POSTed the reply
    sent        \* ... and reported SENT

creationVars == <<creating, chat>>
tableVars == <<row, expired>>
tabVars == <<node, page, seen, decision, carried>>
senderVars == <<claimed, posted, sent>>
vars == <<creationVars, tableVars, links, tabVars, senderVars>>

CreationNodes == {"A", "E", "F2", "end"}
Nodes ==
    { "closed", "page", "O", "Q", "send", "wait", "R2", "R4", "R5b", "end" }

HTypeOK ==
    /\ creating \in [Creations -> CreationNodes]
    /\ chat \in [Creations -> Notifications]
    /\ row \in [Cases -> Row \cup {NoRow}]
    /\ expired \in SUBSET Creations
    /\ links \in SUBSET Creations
    /\ node \in [Tabs -> Nodes]
    /\ page \in [Tabs -> Page \cup {NoPage}]
    /\ seen \in [Tabs -> Row \cup {NoRow}]
    /\ decision \in [Tabs -> Decision \cup {NoDecision}]
    /\ carried \in [Tabs -> Creations \cup {NoRow}]
    /\ claimed \in SUBSET Keys
    /\ posted \in SUBSET Tabs
    /\ sent \in SUBSET posted

HInit ==
    /\ creating = [h \in Creations |-> "A"]
    /\ chat = [h \in Creations |-> "PENDING"]
    /\ row = [c \in Cases |-> NoRow]
    /\ expired = {}
    /\ links = {}
    /\ node = [t \in Tabs |-> "closed"]
    /\ page = [t \in Tabs |-> NoPage]
    /\ seen = [t \in Tabs |-> NoRow]
    /\ decision = [t \in Tabs |-> NoDecision]
    /\ carried = [t \in Tabs |-> NoRow]
    /\ claimed = {}
    /\ posted = {}
    /\ sent = {}

TabCase(t) == CaseOf[page[t].token]

GoTo(t, n) == node' = [node EXCEPT ![t] = n]

\* t shows a result or an error page, and its execution is over.
End(t) ==
    /\ GoTo(t, "end")
    /\ page' = [page EXCEPT ![t] = NoPage]
    /\ seen' = [seen EXCEPT ![t] = NoRow]
    /\ decision' = [decision EXCEPT ![t] = NoDecision]
    /\ carried' = [carried EXCEPT ![t] = NoRow]

-----------------------------------------------------------------------------
(***************************************************************************)
(* Creation of a case.                                                     *)
(***************************************************************************)

\* A, B: the upsert is by case_id and overwrites whatever the case was.
CreateReviewCase(h, kind) ==
    /\ creating[h] = "A"
    /\ creating' = [creating EXCEPT ![h] = "E"]
    /\ row' = [row EXCEPT ![CaseOf[h]] =
            [ status |-> IF kind = "missing"
                         THEN "CONTEXT_MISSING_BLOCKED" ELSE "NEW",
              token |-> h, draft |-> h, kind |-> kind,
              notification |-> "PENDING",
              blocked |-> FALSE, sentBefore |-> FALSE ]]
    /\ UNCHANGED <<chat, expired, links, tabVars, senderVars>>

\* C-F: an error of the chat call does not say that nobody got the message.
NotifyReviewers(h) ==
    /\ creating[h] = "E"
    /\ creating' = [creating EXCEPT ![h] = "F2"]
    /\ \/ /\ links' = links \cup {h}
          /\ chat' = [chat EXCEPT ![h] = "SENT"]
       \/ /\ links' \in {links, links \cup {h}}
          /\ chat' = [chat EXCEPT ![h] = "REVIEW_NOTIFICATION_FAILED"]
    /\ UNCHANGED <<tableVars, tabVars, senderVars>>

\* F2, G.
UpdateCaseNotificationStatus(h) ==
    /\ creating[h] = "F2"
    /\ creating' = [creating EXCEPT ![h] = "end"]
    /\ row' = [row EXCEPT ![CaseOf[h]].notification = chat[h]]
    /\ chat' = [chat EXCEPT ![h] = "PENDING"]
    /\ UNCHANGED <<expired, links, tabVars, senderVars>>

TokenExpires(h) ==
    /\ creating[h] # "A"
    /\ expired' = expired \cup {h}
    /\ UNCHANGED <<creationVars, row, links, tabVars, senderVars>>

-----------------------------------------------------------------------------
(***************************************************************************)
(* The form.                                                               *)
(***************************************************************************)

\* Mutants: the lookup forgets to compare the token, or the status.
TokenValidAnyToken(r, token) ==
    /\ r # NoRow
    /\ r.status \in RenderableStatuses
    /\ token \notin expired
TokenValidAnyStatus(r, token) ==
    /\ r # NoRow
    /\ r.token = token
    /\ token \notin expired

\* H and L: the link of the row that is there, in time, and not denied.
TokenValid(r, token) ==
    /\ r # NoRow
    /\ r.token = token
    /\ r.status \in RenderableStatuses
    /\ token \notin expired

LooksMissing(r) == r.kind \in {"missing", "noDraft"}
BlockedVariables(r) == r.kind = "unresolved"

IsSentCase(r) ==
    \/ r.status \in SentStyleStatuses
    \/ r.blocked /\ r.sentBefore

\* J: the buttons of the form.
Offers(r) ==
    IF IsSentCase(r)
    THEN { a \in AmendActions :
             a = "approve_and_send_followup" =>
               r.status # "FOLLOWUP_SEND_PENDING_MANUAL" }
    ELSE { a \in Actions \ {"approve_and_send_followup"} :
             a = "approve" => ~BlockedVariables(r) }

\* GET /review: H0-K.  The page of a case with missing context has no buttons.
OpenReviewForm(t, h) ==
    LET r == row[CaseOf[h]] IN
    /\ node[t] = "closed"
    /\ h \in links
    /\ TokenValid(r, h)
    /\ ~LooksMissing(r)
    /\ GoTo(t, "page")
    /\ page' = [page EXCEPT ![t] =
            [token |-> h, draft |-> r.draft, offers |-> Offers(r)]]
    /\ UNCHANGED <<creationVars, tableVars, links, seen, decision, carried,
                   senderVars>>

-----------------------------------------------------------------------------
(***************************************************************************)
(* The submission.                                                         *)
(***************************************************************************)
Decide(final, status, blocked, sentBefore) ==
    [ final |-> final, status |-> status, blocked |-> blocked,
      sentBefore |-> sentBefore ]

\* Mutant: an amendment that lacks a field reopens the case.
BlockAmendmentReopens(r) ==
    Decide("blocked", "IN_REVIEW", TRUE, r.status \in SentStyleStatuses)

\* A reopened case that lacks a field keeps its status if it was approved.
BlockAmendment(r) ==
    Decide("blocked",
           IF r.status \in ApprovedStatuses THEN r.status ELSE "IN_REVIEW",
           TRUE, r.status \in SentStyleStatuses)

\* N.  complete: the fields that the action needs are filled in.
ProcessReviewerDecision(r, action, complete) ==
    IF LooksMissing(r)
      THEN Decide("blocked_context_missing", "CONTEXT_MISSING_BLOCKED",
                  FALSE, r.sentBefore)
    ELSE IF action = "save"
      THEN Decide("save", "IN_REVIEW", FALSE, r.sentBefore)
    ELSE IF action = "deny"
      THEN Decide("deny", "NO_REPLY_REQUIRED", FALSE, FALSE)
    ELSE IF action = "approve"
      THEN IF BlockedVariables(r) \/ ~complete
           THEN Decide("blocked", "IN_REVIEW", TRUE, r.sentBefore)
           ELSE Decide("approve", "RESPONSE_APPROVED", FALSE, FALSE)
    ELSE IF ~complete
      THEN BlockAmendment(r)
    ELSE IF action = "approve_learning_only"
      THEN Decide("approve_learning_only", "LEARNING_REVISION_APPROVED",
                  FALSE, r.sentBefore)
    ELSE Decide("approve_and_send_followup_pending",
                "FOLLOWUP_SEND_PENDING_MANUAL",
                FALSE, r.status \in SentStyleStatuses)

\* POST /submit: L0-N on the row of that moment, or N2's error page.
SubmitReviewForm(t, action, complete, allowlisted) ==
    LET r == row[TabCase(t)] IN
    /\ node[t] = "page"
    /\ action \in page[t].offers
    /\ IF TokenValid(r, page[t].token) /\ allowlisted
       THEN /\ GoTo(t, "O")
            /\ seen' = [seen EXCEPT ![t] = r]
            /\ decision' = [decision EXCEPT ![t] =
                    ProcessReviewerDecision(r, action, complete)]
            /\ UNCHANGED <<page, carried>>
       ELSE End(t)
    /\ UNCHANGED <<creationVars, tableVars, links, senderVars>>

\* Mutant: a follow-up is handed to the Sender as well.
SendsReplyFollowupToo(final) ==
    final \in {"approve", "approve_and_send_followup_pending"}

\* P.
SendsReply(final) == final = "approve"

\* O, O1, P: an update by case_id, whatever the row has become since L0.
PersistReviewerDecision(t) ==
    LET d == decision[t] IN
    /\ node[t] = "O"
    /\ row' = [row EXCEPT ![TabCase(t)] =
            [@ EXCEPT !.status = d.status, !.blocked = d.blocked,
                      !.sentBefore = d.sentBefore]]
    /\ IF SendsReply(d.final)
       THEN /\ GoTo(t, "Q")
            /\ carried' = [carried EXCEPT ![t] = row[TabCase(t)].token]
            /\ UNCHANGED <<page, seen, decision>>
       ELSE End(t)
    /\ UNCHANGED <<creationVars, expired, links, senderVars>>

-----------------------------------------------------------------------------
(***************************************************************************)
(* The Sender, seen from node Q, and what R0 makes of its answer.          *)
(***************************************************************************)

\* Gates A-C of the Sender come before the acquisition.
SenderBlocksBeforeAcquire(t) ==
    /\ node[t] = "Q"
    /\ GoTo(t, "R2")
    /\ UNCHANGED <<creationVars, tableVars, links, page, seen, decision,
                   carried, senderVars>>

\* Mutant: the refusal is taken for a success of an earlier attempt.
SenderAcquiresAgain(t) ==
    LET k == KeyOf[seen[t].draft] IN
    /\ node[t] = "Q"
    /\ \/ GoTo(t, "send") /\ claimed' = claimed \cup {k}
       \/ GoTo(t, "R5b") /\ claimed' \in {claimed, claimed \cup {k}}
    /\ UNCHANGED <<creationVars, tableVars, links, page, seen, decision,
                   carried, posted, sent>>

\* The refusal of a key that is taken has neither a reason nor a prior
\* state that R0 knows: recoverable.  A lost answer is not recoverable.
SenderAcquires(t) ==
    LET k == KeyOf[seen[t].draft] IN
    /\ node[t] = "Q"
    /\ \/ k \in claimed /\ GoTo(t, "R2") /\ UNCHANGED claimed
       \/ k \notin claimed /\ GoTo(t, "send") /\ claimed' = claimed \cup {k}
       \/ GoTo(t, "R5b") /\ claimed' \in {claimed, claimed \cup {k}}
    /\ UNCHANGED <<creationVars, tableVars, links, page, seen, decision,
                   carried, posted, sent>>

\* Suppression, DRY_RUN and the live gates come after the acquisition; the
\* key stays claimed.
SenderStopsAfterAcquire(t) ==
    /\ node[t] = "send"
    /\ \/ /\ GoTo(t, "R2")     \* BLOCKED
          /\ UNCHANGED <<page, seen, decision, carried>>
       \/ End(t)                \* DRY_RUN_OK
    /\ UNCHANGED <<creationVars, tableVars, links, senderVars>>

SenderPosts(t) ==
    /\ node[t] = "send"
    /\ posted' = posted \cup {t}
    /\ GoTo(t, "wait")
    /\ UNCHANGED <<creationVars, tableVars, links, page, seen, decision,
                   carried, claimed, sent>>

\* SENT, FAILED or uncertain: R0 takes none of them for blocked; R.
SenderReports(t) ==
    /\ node[t] = "wait"
    /\ sent' \in {sent, sent \cup {t}}
    /\ GoTo(t, "end")
    /\ UNCHANGED <<creationVars, tableVars, links, page, seen, decision,
                   carried, claimed, posted>>

\* Mutant: the status is the one that the node is named for.
UpdateCaseRetryNeededAsNamed(t) ==
    /\ node[t] = "R2"
    /\ row' = [row EXCEPT ![TabCase(t)] =
            [@ EXCEPT !.status = "RETRY_NEEDED", !.token = carried[t]]]
    /\ GoTo(t, "R4")
    /\ UNCHANGED <<creationVars, expired, links, page, seen, decision,
                   carried, senderVars>>

\* R-GenToken, R2: the token that O1 had goes back into the row.
UpdateCaseRetryNeeded(t) ==
    /\ node[t] = "R2"
    /\ row' = [row EXCEPT ![TabCase(t)] =
            [@ EXCEPT !.status = "IN_REVIEW", !.token = carried[t]]]
    /\ GoTo(t, "R4")
    /\ UNCHANGED <<creationVars, expired, links, page, seen, decision,
                   carried, senderVars>>

\* R3-R5, R5b: a chat message or a page with the link of that token.
ReturnLink(t) ==
    /\ node[t] \in {"R4", "R5b"}
    /\ links' \in {links, links \cup {carried[t]}}
    /\ End(t)
    /\ UNCHANGED <<creationVars, tableVars, senderVars>>

-----------------------------------------------------------------------------
CreationStep(h) ==
    \/ \E kind \in Kinds : CreateReviewCase(h, kind)
    \/ NotifyReviewers(h)
    \/ UpdateCaseNotificationStatus(h)
    \/ TokenExpires(h)

SubmissionStep(t) ==
    \/ \E action \in Actions, complete \in BOOLEAN, allowlisted \in BOOLEAN :
         SubmitReviewForm(t, action, complete, allowlisted)
    \/ PersistReviewerDecision(t)
    \/ SenderAcquires(t)
    \/ SenderBlocksBeforeAcquire(t)
    \/ SenderStopsAfterAcquire(t)
    \/ SenderPosts(t)
    \/ SenderReports(t)
    \/ UpdateCaseRetryNeeded(t)
    \/ ReturnLink(t)

HNext ==
    \/ \E h \in Creations : CreationStep(h)
    \/ \E t \in Tabs, h \in Creations : OpenReviewForm(t, h)
    \/ \E t \in Tabs : SubmissionStep(t)

HSpec == HInit /\ [][HNext]_vars

-----------------------------------------------------------------------------
(***************************************************************************)
(* Properties.                                                             *)
(***************************************************************************)

\* A reply is POSTed only for a reviewer's "Approve and send", in a form that
\* offered it, from a link that somebody was sent and that was the case's
\* link at the submission, of a case with neither missing context nor
\* blocked variables (L, N, P, Q).  Learning-only, follow-up, save and deny
\* never reach the Sender.
RepliesAreApproved ==
    \A t \in posted :
      /\ decision[t].final = "approve"
      /\ "approve" \in page[t].offers
      /\ page[t].token \in links
      /\ seen[t].token = page[t].token
      /\ seen[t].kind = "ready"

\* The reply goes to the thread of the draft that the reviewer had read: when
\* a case is created anew, a form of the earlier link does not approve it
\* (H, L).  Only a token that R2 put back over a newer case is excepted.
LinkSendsItsDraft ==
    \A t \in posted :
      seen[t].token = seen[t].draft => page[t].draft = seen[t].draft

\* What node Q and the branch R0-R5b see of the Sender is a sender of
\* SendOnce: a case is only put back for a retry by a submission whose own
\* Sender did not POST.
StageOf(t) ==
    IF node[t] \in {"R2", "R4", "R5b"} THEN "over"
    ELSE IF t \in posted THEN IF node[t] = "wait" THEN "posted" ELSE "done"
    ELSE IF node[t] = "send" THEN "owner"
    ELSE IF node[t] \in {"closed", "page", "O", "Q"} THEN "asked" ELSE "over"

Once == INSTANCE SendOnce WITH
    Senders <- Tabs,
    stage <- [t \in Tabs |-> StageOf(t)],
    holds <- [t \in Tabs |-> IF StageOf(t) \in {"owner", "posted", "done"}
                             THEN {KeyOf[seen[t].draft]} ELSE {}]
SendsOnce == Once!Spec

\* At most one submission POSTs for a send key, of whichever cases and
\* creations: the reviewer's retries and double clicks included.
OneReplyPerKey ==
    \A t, u \in posted :
        KeyOf[seen[t].draft] = KeyOf[seen[u].draft] => t = u

\* t's submission has looked its case up and can still write or send.
InFlight(t) == node[t] \in {"O", "Q", "send", "wait", "R2"}
Open(t) == node[t] \notin {"closed", "end"}
CaseTabs(c) == {t \in Tabs : Open(t) /\ TabCase(t) = c}
Recreated(c) == row'[c].token # row[c].token

DenialSettled(c) ==
    /\ row[c] # NoRow
    /\ row[c].status = "NO_REPLY_REQUIRED"
    /\ \A t \in CaseTabs(c) : ~InFlight(t)

\* Once a case is denied and no submission of it is under way, no form, be it
\* open already or opened later, sends a reply or changes the case: only a
\* new review case replaces it (status check of H and L).
DenialIsFinal ==
    [][\A c \in Cases :
         DenialSettled(c) => DenialSettled(c)' \/ Recreated(c)]_vars

ApprovalSettled(c) ==
    /\ row[c] # NoRow
    /\ row[c].status \in ApprovedStatuses
    /\ ~LooksMissing(row[c])
    /\ \A t \in CaseTabs(c) :
         /\ node[t] = "page" => page[t].offers \subseteq AmendActions
         /\ InFlight(t) => /\ node[t] = "O"
                           /\ decision[t].status \in SentStyleStatuses
                           /\ ~SendsReply(decision[t].final)

\* Once a case with its context is approved and no form from before is open, its link never
\* again offers approval or denial and sends nothing, whatever is submitted
\* and in whatever order, until a follow-up is captured (J, N).
ApprovalIsFinal ==
    [][\A c \in Cases :
         ApprovalSettled(c) =>
           \/ ApprovalSettled(c)'
           \/ row'[c].status = "FOLLOWUP_SEND_PENDING_MANUAL"
           \/ Recreated(c)]_vars

\* What R0's comment and R5's page say of a case that is reopened for a
\* retry: no reply with its send key was reported SENT.
ReopenedMeansNotSent ==
    [][\A t \in Tabs :
         node[t] = "R2" /\ node'[t] = "R4" =>
           \A u \in sent : KeyOf[seen[u].draft] # KeyOf[seen[t].draft]]_vars

=============================================================================
