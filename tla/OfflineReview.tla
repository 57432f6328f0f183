---------------------------- MODULE OfflineReview ----------------------------
(***************************************************************************)
(* The one-time-link variant of Workflow 07 that the business-ready build  *)
(* generates: a review case in a data table, a link with a random token in *)
(* a chat message, a form, and a submission that is decided on the row as  *)
(* it was looked up (L0) and stored by case_id alone (O).  The nodes work  *)
(* on the row as the workflow file has them after the data-shape fixes: F  *)
(* and O1 take the context of an earlier node, and L reads the hand-off    *)
(* back from the row.  L tests that the hand-off has its three parts, but  *)
(* A has stored {} for a part that the input lacks and {} is truthy, so    *)
(* the test never fails on a stored row and is not in Flaws.               *)
(*                                                                         *)
(* One case is enough: rows of different cases never meet.  Executions run *)
(* side by side; no step is forced, so each of them may also stop for good *)
(* at any node.                                                            *)
(***************************************************************************)
EXTENDS Integers

CONSTANTS
    MaxCreations,  \* Bound: executions that create (or re-create) the case
    Submissions,   \* executions that a posted form starts
    Identities,    \* what a reviewer may type as approver name
    Allowlist,     \* REVIEWER_ALLOWLIST as it was injected into M1
    CaseInputs,    \* the case inputs that the engine hands over
    Blank,         \* an approver field that was left empty
    NoRow, NoForm

ASSUME MaxCreationsAssumption == MaxCreations \in Nat

(***************************************************************************)
(* A creation draws a token and brings a draft; its number names both.     *)
(* Texts of a reply: 0 is the empty text, a creation's number its draft,   *)
(* and Edited the text that a reviewer wrote.                              *)
(***************************************************************************)
Tokens == 1..MaxCreations
NoText == 0
Edited == MaxCreations + 1
Texts == 0..Edited

Modes == {"FIXED_TEMPLATE_APPROVAL", "AI_DRAFT_APPROVAL", "HUMAN_ONLY"}
\* sender: what sender_mapping has for the mailbox, "none" also when the
\* input names no mailbox because it has no nes.  needsBooking: the
\* template of its decision, if it has one, needs a link.  chat:
\* google_chat_configured, of the CONFIG that A puts into its item.
CaseInput == [ mode : Modes, sender : {"none", "name", "booking"},
               needsBooking : BOOLEAN, drafted : BOOLEAN, chat : BOOLEAN ]
ASSUME CaseInputsAssumption == CaseInputs \subseteq CaseInput

\* What A finds missing: a name to sign with, a link for the template.
BlockedVariables(c) ==
    { v \in {"senderName", "bookingLink"} :
        \/ v = "senderName" /\ c.mode # "HUMAN_ONLY" /\ c.sender = "none"
        \/ v = "bookingLink" /\ c.needsBooking /\ c.sender # "booking" }

OpenStatuses == {"NEW", "IN_REVIEW"}     \* no node ever writes IN_REVIEW
DecidedStatuses ==
    {"RESPONSE_APPROVED", "BLOCKED_MISSING_VARIABLES", "NO_REPLY_REQUIRED"}
Notifications == {"PENDING", "SENT", "REVIEW_NOTIFICATION_FAILED"}

Row == [ token : Tokens, status : OpenStatuses \cup DecidedStatuses,
         draft : Texts, blocked : SUBSET {"senderName", "bookingLink"},
         notification : Notifications ]

\* A form that a browser shows: the draft in its text area, and whether
\* the approve button works.
Form == [token : Tokens, draft : Texts, approvable : BOOLEAN]

\* Statuses of the pages that answer a posted form.
HttpStatuses == {200, 403, 404, 409}

\* token, text, approver: what was posted;  outcome, final: what N decides
\* on it, and what it would send;  http: the status of the page.
Submission ==
    [ stage : {"idle", "refused", "decided", "stored", "ended"},
      token : Tokens \cup {0}, text : Texts, approver : Identities \cup {Blank},
      outcome : DecidedStatuses \cup {"none"}, final : Texts,
      http : HttpStatuses \cup {0} ]

Handoff == [submission : Submissions, text : Texts, approver : Identities]

ASSUME NullAssumption == NoRow \notin Row /\ NoForm \notin Form
ASSUME InputsExistAssumption == CaseInputs # {}

VARIABLES
    row,        \* the row of the case in the data table
    creation,   \* creation[v]: the input of creation v, and how far it is
    links,      \* tokens whose link is in a chat message
    expired,    \* tokens older than review_token_ttl_minutes
    form,       \* form[s]: the form from which s is posted
    submission,
    handoffs    \* calls of the Reply Sender

vars == <<row, creation, links, expired, form, submission, handoffs>>

Creation == [ stage : {"unused", "stored", "notified", "ended"},
              input : CaseInputs, result : Notifications ]

-----------------------------------------------------------------------------
(***************************************************************************)
(* Creating a case.                                                        *)
(***************************************************************************)
\* A and B: the upsert writes every column, whatever the row had.
NewRow(v, c) ==
    [ token |-> v, status |-> "NEW",
      draft |-> IF c.drafted THEN v ELSE NoText,
      blocked |-> BlockedVariables(c), notification |-> "PENDING" ]

Create(v, c) ==
    /\ creation[v].stage = "unused"
    /\ \A w \in 1..(v - 1) : creation[w].stage # "unused"
    /\ row' = NewRow(v, c)
    /\ creation' = [creation EXCEPT ![v] = [ stage |-> "stored", input |-> c,
                                             result |-> "PENDING" ]]
    /\ UNCHANGED <<links, expired, form, submission, handoffs>>

\* D: the message carries the link of this creation.
LinkDelivered(v) == links' = links \cup {v}

\* E: the message may be delivered although the call fails.
PostToChat(v) ==
    /\ creation[v].input.chat
    /\ \E failed \in BOOLEAN :
         /\ LinkDelivered(v) \/ (failed /\ UNCHANGED links)
         /\ creation' = [creation EXCEPT
              ![v].stage = "notified",
              ![v].result = IF failed THEN "REVIEW_NOTIFICATION_FAILED" ELSE "SENT"]

\* D2: without a configured chat nobody is told.
SkipChat(v) ==
    /\ ~creation[v].input.chat
    /\ creation' = [creation EXCEPT ![v].stage = "notified",
                                    ![v].result = "REVIEW_NOTIFICATION_FAILED"]
    /\ UNCHANGED links

\* C, then D-E or D2, then F.
Notify(v) ==
    /\ creation[v].stage = "stored"
    /\ PostToChat(v) \/ SkipChat(v)
    /\ UNCHANGED <<row, expired, form, submission, handoffs>>

\* F2: written to the row of the case, whichever creation that is of by now.
RecordNotification(v) ==
    /\ creation[v].stage = "notified"
    /\ row' = [row EXCEPT !.notification = creation[v].result]
    /\ creation' = [creation EXCEPT ![v].stage = "ended"]
    /\ UNCHANGED <<links, expired, form, submission, handoffs>>

Expire(v) ==
    /\ creation[v].stage # "unused" /\ v \notin expired
    /\ expired' = expired \cup {v}
    /\ UNCHANGED <<row, creation, links, form, submission, handoffs>>

-----------------------------------------------------------------------------
(***************************************************************************)
(* The form.                                                               *)
(***************************************************************************)
\* Mutant: any link of the case opens it.
LinkFlawsOfCase(token) ==
    IF row = NoRow THEN {"CASE_NOT_FOUND"}
    ELSE { r \in {"ALREADY_DECIDED", "EXPIRED"} :
             \/ r = "ALREADY_DECIDED" /\ row.status \notin OpenStatuses
             \/ r = "EXPIRED" /\ row.token \in expired }

\* Everything that is wrong with a link; the pages name the first of
\* CASE_NOT_FOUND, WRONG_TOKEN, ALREADY_DECIDED, EXPIRED.
LinkFlaws(token) ==
    IF row = NoRow THEN {"CASE_NOT_FOUND"}
    ELSE { r \in {"WRONG_TOKEN", "ALREADY_DECIDED", "EXPIRED"} :
             \/ r = "WRONG_TOKEN" /\ row.token # token
             \/ r = "ALREADY_DECIDED" /\ row.status \notin OpenStatuses
             \/ r = "EXPIRED" /\ row.token \in expired }

\* J: the draft is put into the text area; missing variables disable the
\* approve button.
FormPage(token) ==
    [token |-> token, draft |-> row.draft, approvable |-> row.blocked = {}]

\* H0, H, I: a good link shows the form, any other link the page of J2.
OpenForm(s, token) ==
    /\ submission[s].stage = "idle" /\ form[s] = NoForm
    /\ token \in links
    /\ LinkFlaws(token) = {}
    /\ form' = [form EXCEPT ![s] = FormPage(token)]
    /\ UNCHANGED <<row, creation, links, expired, submission, handoffs>>

-----------------------------------------------------------------------------
(***************************************************************************)
(* Submitting it.                                                          *)
(***************************************************************************)
\* M1, M2.
Allowlisted(identity) == identity # Blank /\ identity \in Allowlist

\* M2, M2b: the router and the reason of its other branch.
ReviewerFlaws(identity) ==
    IF Allowlisted(identity) THEN {} ELSE {"REVIEWER_NOT_ALLOWLISTED"}

\* L, then M1 and M2.
Flaws(token, identity) ==
    IF LinkFlaws(token) # {} THEN LinkFlaws(token) ELSE ReviewerFlaws(identity)

\* N2.
RefusedStatus(flaws) ==
    IF "CASE_NOT_FOUND" \in flaws THEN 404
    ELSE IF "REVIEWER_NOT_ALLOWLISTED" \in flaws THEN 403 ELSE 409

\* N: an approval is blocked without an approver or with missing
\* variables; whatever is not an approval is a denial.
Outcome(action, identity) ==
    IF action # "approve" THEN "NO_REPLY_REQUIRED"
    ELSE IF row.blocked # {} \/ identity = Blank THEN "BLOCKED_MISSING_VARIABLES"
    ELSE "RESPONSE_APPROVED"

FinalText(text) == IF text = NoText THEN row.draft ELSE text

\* L0, L, M, M1, M2 and N, which read the row once.  The form's button
\* does not bind the caller: an approval is posted for blocked cases too.
Post(s, action, text, identity) ==
    LET token == form[s].token
        flaws == Flaws(token, identity)
        posted == [submission[s] EXCEPT !.token = token]
    IN  /\ submission[s].stage = "idle" /\ form[s] # NoForm
        /\ text \in {NoText, form[s].draft, Edited}
        /\ submission' = [submission EXCEPT ![s] =
             IF flaws # {}
             THEN [posted EXCEPT !.stage = "refused", !.http = RefusedStatus(flaws)]
             ELSE [posted EXCEPT !.stage = "decided", !.text = text,
                     !.approver = identity,
                     !.outcome = Outcome(action, identity),
                     !.final = IF Outcome(action, identity) = "RESPONSE_APPROVED"
                               THEN FinalText(text) ELSE NoText]]
        /\ UNCHANGED <<row, creation, links, expired, form, handoffs>>

\* Mutant: a denial is only told to the reviewer.
DecidedRowOfApproval(s) ==
    IF submission[s].outcome = "NO_REPLY_REQUIRED" THEN row
    ELSE [row EXCEPT !.status = submission[s].outcome]

\* O: the update names the case, neither the token nor the status that the
\* decision was made on.
DecidedRow(s) == [row EXCEPT !.status = submission[s].outcome]

Store(s) ==
    /\ submission[s].stage = "decided"
    /\ row' = DecidedRow(s)
    /\ submission' = [submission EXCEPT ![s].stage = "stored"]
    /\ UNCHANGED <<creation, links, expired, form, handoffs>>

\* R and Q2: the pages of an approval and of any other decision.
ApprovedPage(s) ==
    submission' = [submission EXCEPT ![s].stage = "ended", ![s].http = 200]
NonSendPage(s) ==
    submission' = [submission EXCEPT ![s].stage = "ended", ![s].http = 200]

\* P, Q: the approved text goes to the Reply Sender with the context
\* that L read.
HandOff(s) ==
    /\ submission[s].stage = "stored"
    /\ submission[s].outcome = "RESPONSE_APPROVED"
    /\ handoffs' = handoffs \cup
         {[ submission |-> s, text |-> submission[s].final,
            approver |-> submission[s].approver ]}
    /\ ApprovedPage(s)
    /\ UNCHANGED <<row, creation, links, expired, form>>

\* P's other branch.
EndWithoutReply(s) ==
    /\ submission[s].stage = "stored"
    /\ submission[s].outcome # "RESPONSE_APPROVED"
    /\ NonSendPage(s)
    /\ UNCHANGED <<row, creation, links, expired, form, handoffs>>

-----------------------------------------------------------------------------
Init ==
    /\ row = NoRow
    /\ creation \in [Tokens -> [stage : {"unused"}, input : {CHOOSE c \in CaseInputs : TRUE},
                                result : {"PENDING"}]]
    /\ links = {} /\ expired = {}
    /\ form = [s \in Submissions |-> NoForm]
    /\ submission = [s \in Submissions |->
         [ stage |-> "idle", token |-> 0, text |-> NoText, approver |-> Blank,
           outcome |-> "none", final |-> NoText, http |-> 0 ]]
    /\ handoffs = {}

CreationNext(v) ==
    \/ \E c \in CaseInputs : Create(v, c)
    \/ Notify(v) \/ RecordNotification(v) \/ Expire(v)

SubmissionNext(s) ==
    \/ \E token \in Tokens : OpenForm(s, token)
    \/ \E action \in {"approve", "deny"}, text \in Texts,
          identity \in Identities \cup {Blank} : Post(s, action, text, identity)
    \/ Store(s) \/ HandOff(s) \/ EndWithoutReply(s)

Next == (\E v \in Tokens : CreationNext(v)) \/ (\E s \in Submissions : SubmissionNext(s))

Spec == Init /\ [][Next]_vars

-----------------------------------------------------------------------------
TypeOK ==
    /\ row \in Row \cup {NoRow}
    /\ creation \in [Tokens -> Creation]
    /\ links \subseteq Tokens /\ expired \subseteq Tokens
    /\ form \in [Submissions -> Form \cup {NoForm}]
    /\ submission \in [Submissions -> Submission]
    /\ handoffs \subseteq Handoff

(***************************************************************************)
(* What reaches the Reply Sender was approved by a reviewer on the         *)
(* allowlist, for a case of which A found no variable missing, and is the  *)
(* text that the reviewer posted or, when the text area was emptied, the   *)
(* draft that the reviewer's form showed, although the row may have been   *)
(* created again since the form was opened (A 71-84, L 112-149, M2, N      *)
(* 152-188).                                                               *)
(***************************************************************************)
HandoffIsApproved ==
    \A h \in handoffs :
      LET s == h.submission
          input == creation[form[s].token].input
      IN  /\ h.approver \in Allowlist
          /\ BlockedVariables(input) = {}
          /\ h.text = IF submission[s].text = NoText
                      THEN form[s].draft ELSE submission[s].text

(***************************************************************************)
(* Once a decision on a link is stored, no later use of that link is       *)
(* accepted, whatever the decision was and however often the case is       *)
(* created again (L's status test, A's new token, O).                      *)
(***************************************************************************)
HasStored(s) == submission[s].stage \in {"stored", "ended"}
StoredDecisionIsFinal ==
    [][\A s, t \in Submissions :
         submission[s].stage = "idle" /\ submission'[s].stage = "decided"
           => ~(HasStored(t) /\ submission[t].token = form[s].token)]_vars

=============================================================================
