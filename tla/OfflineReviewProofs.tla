------------------------- MODULE OfflineReviewProofs -------------------------
(***************************************************************************)
(* HandoffIsApproved and StoredDecisionIsFinal for any number of           *)
(* creations, submissions and reviewers.  A token belongs to one creation  *)
(* for ever, and the row, a form or a decision with that token shows what  *)
(* the creation brought: this is what lets node L take the place of a      *)
(* lock.  A decision that is stored late may hit the row of another        *)
(* creation, but it can only close that row, never open it.                *)
(***************************************************************************)
EXTENDS OfflineReview, TLAPS

Used(v) == creation[v].stage # "unused"
DraftOf(v) == IF creation[v].input.drafted THEN v ELSE NoText
Later == {"decided", "stored", "ended"}

RowIsThere == \A v \in Tokens : Used(v) => row # NoRow
RowOfCreation ==
    row # NoRow =>
      /\ Used(row.token)
      /\ row.draft = DraftOf(row.token)
      /\ row.blocked = BlockedVariables(creation[row.token].input)
FormOfCreation ==
    \A s \in Submissions :
      form[s] # NoForm => /\ Used(form[s].token)
                          /\ form[s].draft = DraftOf(form[s].token)
\* What an approval that N let through stands for.
Approved(s) ==
    LET input == creation[form[s].token].input
    IN  /\ submission[s].approver \in Allowlist
        /\ submission[s].approver \in Identities
        /\ BlockedVariables(input) = {}
        /\ submission[s].final = IF submission[s].text = NoText
                                 THEN form[s].draft ELSE submission[s].text
DecisionsAreSound ==
    \A s \in Submissions :
      submission[s].stage \in Later =>
        /\ form[s] # NoForm
        /\ submission[s].token = form[s].token
        /\ submission[s].outcome \in DecidedStatuses
        /\ submission[s].outcome = "RESPONSE_APPROVED" => Approved(s)
HandoffsAreDecisions ==
    \A h \in handoffs :
      /\ submission[h.submission].stage = "ended"
      /\ submission[h.submission].outcome = "RESPONSE_APPROVED"
      /\ h.text = submission[h.submission].final
      /\ h.approver = submission[h.submission].approver
StoredIsClosed ==
    \A s \in Submissions :
      HasStored(s) /\ row # NoRow /\ row.token = submission[s].token
        => row.status \notin OpenStatuses

IInv ==
    /\ TypeOK /\ RowIsThere /\ RowOfCreation /\ FormOfCreation
    /\ DecisionsAreSound /\ HandoffsAreDecisions /\ StoredIsClosed

-----------------------------------------------------------------------------
LEMMA InitIInv == Init => IInv
<1> SUFFICES ASSUME Init PROVE IInv  OBVIOUS
<1>1. (CHOOSE c \in CaseInputs : TRUE) \in CaseInputs  BY InputsExistAssumption
<1>2. TypeOK
  BY <1>1, MaxCreationsAssumption
     DEF Init, TypeOK, Creation, Submission, Texts, NoText, Notifications, Edited
<1>3. \A v \in Tokens : ~ Used(v)  BY DEF Init, Used
<1> QED
  BY <1>2, <1>3
     DEF Init, IInv, RowIsThere, RowOfCreation, FormOfCreation, DecisionsAreSound,
         HandoffsAreDecisions, StoredIsClosed, Later, HasStored

\* A new row is a proper one, and shows the input that it was made of.
LEMMA NewRowType ==
    ASSUME NEW v \in Tokens, NEW c \in CaseInputs
    PROVE  NewRow(v, c) \in Row /\ NewRow(v, c) # NoRow
<1>1. c \in CaseInput  BY CaseInputsAssumption
<1>2. c.drafted \in BOOLEAN  BY <1>1 DEF CaseInput
<1>3. BlockedVariables(c) \in SUBSET {"senderName", "bookingLink"}
  BY DEF BlockedVariables
<1>4. v \in Texts /\ NoText \in Texts
  BY MaxCreationsAssumption DEF Tokens, Texts, NoText, Edited
<1>5. NewRow(v, c) \in Row
  BY <1>2, <1>3, <1>4 DEF NewRow, Row, OpenStatuses, Notifications
<1> QED  BY <1>5, NullAssumption

\* The creating executions.
LEMMA CreateIInv ==
    ASSUME IInv, NEW v \in Tokens, NEW c \in CaseInputs, Create(v, c)
    PROVE  IInv'
<1> USE NewRowType DEF IInv
<1>1. /\ creation[v].stage = "unused" /\ row' = NewRow(v, c)
      /\ creation' = [creation EXCEPT ![v] = [ stage |-> "stored", input |-> c,
                                               result |-> "PENDING" ]]
      /\ UNCHANGED <<links, expired, form, submission, handoffs>>
  BY DEF Create
<1>2. /\ creation'[v].input = c /\ creation'[v].stage = "stored"
      /\ \A w \in Tokens : w # v => creation'[w] = creation[w]
  BY <1>1 DEF TypeOK
<1>3. TypeOK'
  BY <1>1 DEF TypeOK, Creation, Notifications
<1>4. RowIsThere' /\ RowOfCreation'
  BY <1>1, <1>2 DEF RowIsThere, RowOfCreation, NewRow, Used, DraftOf
<1>5. \A s \in Submissions : form[s] # NoForm => form[s].token # v /\ form[s].token \in Tokens
  BY <1>1 DEF FormOfCreation, Used, TypeOK, Form
<1>6. FormOfCreation'
  BY <1>1, <1>2, <1>5 DEF FormOfCreation, Used, DraftOf
<1>7. DecisionsAreSound'
  BY <1>1, <1>2, <1>5 DEF DecisionsAreSound, Approved
<1>8. HandoffsAreDecisions'  BY <1>1 DEF HandoffsAreDecisions
<1>9. StoredIsClosed'
  BY <1>1, <1>5 DEF StoredIsClosed, NewRow, HasStored, DecisionsAreSound, Later
<1> QED  BY <1>3, <1>4, <1>6, <1>7, <1>8, <1>9

\* What the other nodes of a creation write, nothing else depends on.
LEMMA CreationIInv ==
    ASSUME IInv, NEW v \in Tokens, Notify(v) \/ RecordNotification(v) \/ Expire(v)
    PROVE  IInv'
<1> USE DEF IInv
<1>1. /\ UNCHANGED <<form, submission, handoffs>>
      /\ \A w \in Tokens : creation'[w].input = creation[w].input
      /\ \A w \in Tokens : Used(w)' <=> Used(w)
      /\ TypeOK'
  <2>1. CASE Notify(v)
    BY <2>1 DEF Notify, PostToChat, SkipChat, LinkDelivered, TypeOK, Used, Creation,
                Notifications
  <2>2. CASE RecordNotification(v)
    <3>1. row \in Row  BY <2>2 DEF RecordNotification, RowIsThere, Used, TypeOK
    <3>2. row' \in Row
      BY <3>1, <2>2 DEF RecordNotification, TypeOK, Row, Creation
    <3> QED  BY <2>2, <3>2 DEF RecordNotification, TypeOK, Used, Creation
  <2>3. CASE Expire(v)
    BY <2>3 DEF Expire, TypeOK, Used
  <2> QED  BY <2>1, <2>2, <2>3
<1>2. \/ row' = row
      \/ /\ row \in Row /\ row # NoRow /\ row' # NoRow
         /\ row'.token = row.token /\ row'.status = row.status /\ row'.draft = row.draft
         /\ row'.blocked = row.blocked
  <2>1. CASE RecordNotification(v)
    <3>1. row \in Row  BY <2>1 DEF RecordNotification, RowIsThere, Used, TypeOK
    <3>2. row' \in Row
      BY <3>1, <2>1 DEF RecordNotification, TypeOK, Row, Creation
    <3> QED  BY <2>1, <3>1, <3>2, NullAssumption DEF RecordNotification, Row
  <2> QED  BY <2>1 DEF Notify, Expire
<1>3. \A s \in Submissions : form[s] # NoForm => form[s].token \in Tokens
  BY DEF TypeOK, Form
<1>4. row # NoRow => row.token \in Tokens  BY DEF TypeOK, Row
<1>5. RowIsThere' /\ RowOfCreation'
  BY <1>1, <1>2, <1>4 DEF RowIsThere, RowOfCreation, DraftOf
<1>6. FormOfCreation' /\ DecisionsAreSound'
  BY <1>1, <1>3 DEF FormOfCreation, DecisionsAreSound, DraftOf, Approved
<1>7. HandoffsAreDecisions' /\ StoredIsClosed'
  BY <1>1, <1>2 DEF HandoffsAreDecisions, StoredIsClosed, HasStored
<1> QED  BY <1>1, <1>5, <1>6, <1>7

LEMMA OpenFormIInv ==
    ASSUME IInv, NEW s \in Submissions, NEW token \in Tokens, OpenForm(s, token)
    PROVE  IInv'
<1> USE DEF IInv
<1>1. row \in Row /\ row # NoRow /\ row.token = token
  BY DEF OpenForm, LinkFlaws, TypeOK
<1>2. FormPage(token) \in Form  BY <1>1 DEF FormPage, Form, Row
<1>3. TypeOK'  BY <1>2 DEF OpenForm, TypeOK
<1>4. FormOfCreation'
  BY <1>1 DEF OpenForm, FormPage, FormOfCreation, RowOfCreation, TypeOK, Used, DraftOf
<1>5. DecisionsAreSound'
  BY DEF OpenForm, DecisionsAreSound, Approved, Later, TypeOK
<1> QED
  BY <1>3, <1>4, <1>5
     DEF OpenForm, RowIsThere, RowOfCreation, HandoffsAreDecisions, StoredIsClosed,
         HasStored, Used, DraftOf

\* A post that L accepts is decided on the row of the form's own creation.
LEMMA PostIInv ==
    ASSUME IInv, NEW s \in Submissions, NEW action \in {"approve", "deny"},
           NEW text \in Texts, NEW identity \in Identities \cup {Blank},
           Post(s, action, text, identity)
    PROVE  IInv'
<1> USE DEF IInv
<1> DEFINE token == form[s].token
           flaws == Flaws(token, identity)
<1>1. /\ submission[s].stage = "idle" /\ form[s] # NoForm /\ form[s] \in Form
      /\ UNCHANGED <<row, creation, links, expired, form, handoffs>>
      /\ token \in Tokens
      /\ \A t \in Submissions : t # s => submission'[t] = submission[t]
  BY DEF Post, TypeOK, Form
<1>2. CASE flaws # {}
  <2>1. submission' = [submission EXCEPT ![s] =
          [submission[s] EXCEPT !.token = token, !.stage = "refused",
                                !.http = RefusedStatus(flaws)]]
    BY <1>2 DEF Post
  <2>2. RefusedStatus(flaws) \in HttpStatuses  BY DEF RefusedStatus, HttpStatuses
  <2> HIDE DEF flaws, token
  <2>a. submission[s] \in Submission  BY DEF TypeOK
  <2>3. submission'[s].stage = "refused" /\ submission'[s] \in Submission
    <3>1. submission'[s] = [submission[s] EXCEPT !.token = token, !.stage = "refused",
                                                 !.http = RefusedStatus(flaws)]
      BY <2>1 DEF TypeOK
    <3> QED  BY <1>1, <2>2, <2>a, <3>1 DEF Submission
  <2>4. TypeOK'
    BY <1>1, <2>1, <2>3 DEF TypeOK
  <2>5. DecisionsAreSound'
    BY <1>1, <2>3 DEF DecisionsAreSound, Later, Approved
  <2>6. HandoffsAreDecisions' /\ StoredIsClosed'
    BY <1>1, <2>3 DEF HandoffsAreDecisions, StoredIsClosed, HasStored, TypeOK, Handoff
  <2> QED
    BY <1>1, <2>4, <2>5, <2>6 DEF RowIsThere, RowOfCreation, FormOfCreation, Used, DraftOf
<1>3. CASE flaws = {}
  <2> DEFINE outcome == Outcome(action, identity)
             final == IF outcome = "RESPONSE_APPROVED" THEN FinalText(text) ELSE NoText
  <2>1. submission' = [submission EXCEPT ![s] =
          [submission[s] EXCEPT !.token = token, !.stage = "decided", !.text = text,
             !.approver = identity, !.outcome = outcome, !.final = final]]
    BY <1>3 DEF Post
  <2>2. row \in Row /\ row # NoRow /\ row.token = token
    BY <1>3 DEF Flaws, LinkFlaws, TypeOK
  <2>3. identity \in Allowlist /\ identity \in Identities
    BY <1>3 DEF Flaws, ReviewerFlaws, Allowlisted
  <2>4. outcome \in DecidedStatuses  BY DEF Outcome, DecidedStatuses
  <2>5. row.draft \in Texts /\ NoText \in Texts
    BY <2>2, MaxCreationsAssumption DEF Row, NoText, Texts, Edited
  <2>6. final \in Texts  BY <2>5 DEF FinalText
  <2>7. /\ submission'[s].stage = "decided" /\ submission'[s].token = token
        /\ submission'[s].text = text /\ submission'[s].approver = identity
        /\ submission'[s].outcome = outcome /\ submission'[s].final = final
    BY <2>1 DEF TypeOK, Submission
  <2>8. TypeOK'
    <3> HIDE DEF outcome, final, token
    <3>1. submission[s] \in Submission  BY DEF TypeOK
    <3>2. submission'[s] \in Submission
      BY <1>1, <2>1, <2>4, <2>6, <3>1 DEF Submission, TypeOK
    <3> QED  BY <1>1, <2>1, <3>2 DEF TypeOK
  <2>9. outcome = "RESPONSE_APPROVED" => Approved(s)'
    <3> SUFFICES ASSUME outcome = "RESPONSE_APPROVED" PROVE Approved(s)'  OBVIOUS
    <3>1. row.blocked = {}  BY DEF Outcome
    <3>2. /\ BlockedVariables(creation[token].input) = {}
          /\ row.draft = form[s].draft
      BY <1>1, <2>2, <3>1 DEF RowOfCreation, FormOfCreation
    <3> QED  BY <1>1, <2>3, <2>7, <3>2 DEF Approved, FinalText
  <2>10. DecisionsAreSound'
    BY <1>1, <2>4, <2>7, <2>9 DEF DecisionsAreSound, Approved
  <2> HIDE DEF outcome, final, token
  <2>11. HandoffsAreDecisions' /\ StoredIsClosed'
    BY <1>1, <2>7 DEF HandoffsAreDecisions, StoredIsClosed, HasStored, TypeOK, Handoff
  <2> QED
    BY <1>1, <2>8, <2>10, <2>11
       DEF RowIsThere, RowOfCreation, FormOfCreation, Used, DraftOf
<1> QED  BY <1>2, <1>3

LEMMA StoreIInv ==
    ASSUME IInv, NEW s \in Submissions, Store(s)
    PROVE  IInv'
<1> USE DEF IInv
<1>1. /\ submission[s].stage = "decided" /\ row' = DecidedRow(s)
      /\ submission' = [submission EXCEPT ![s].stage = "stored"]
      /\ UNCHANGED <<creation, links, expired, form, handoffs>>
  BY DEF Store
<1>2. row \in Row /\ submission[s].outcome \in DecidedStatuses
  <2>1. form[s] # NoForm /\ submission[s].outcome \in DecidedStatuses
    BY <1>1 DEF DecisionsAreSound, Later
  <2>2. form[s].token \in Tokens /\ Used(form[s].token)
    BY <2>1 DEF TypeOK, Form, FormOfCreation
  <2> QED  BY <2>1, <2>2 DEF RowIsThere, TypeOK
<1>3. /\ row' \in Row /\ row' # NoRow /\ row'.status \notin OpenStatuses
      /\ row'.token = row.token /\ row'.draft = row.draft
      /\ row'.blocked = row.blocked
  BY <1>1, <1>2, NullAssumption DEF DecidedRow, Row, OpenStatuses, DecidedStatuses
<1>4. TypeOK'
  BY <1>1, <1>3 DEF TypeOK, Submission
<1>5. \A t \in Submissions :
        /\ submission'[t].token = submission[t].token
        /\ submission'[t].text = submission[t].text
        /\ submission'[t].approver = submission[t].approver
        /\ submission'[t].outcome = submission[t].outcome
        /\ submission'[t].final = submission[t].final
        /\ submission'[t].stage = IF t = s THEN "stored" ELSE submission[t].stage
  BY <1>1 DEF TypeOK, Submission
<1>6. RowIsThere' /\ RowOfCreation'
  BY <1>1, <1>2, <1>3, NullAssumption DEF RowIsThere, RowOfCreation, Used, DraftOf
<1>7. FormOfCreation'  BY <1>1 DEF FormOfCreation, Used, DraftOf
<1>8. DecisionsAreSound'
  BY <1>1, <1>5 DEF DecisionsAreSound, Approved, Later
<1>9. HandoffsAreDecisions'
  BY <1>1, <1>5 DEF HandoffsAreDecisions, TypeOK, Handoff
<1>10. StoredIsClosed'  BY <1>3 DEF StoredIsClosed
<1> QED  BY <1>4, <1>6, <1>7, <1>8, <1>9, <1>10

LEMMA EndedType ==
    ASSUME NEW r \in Submission
    PROVE  [r EXCEPT !.stage = "ended", !.http = 200] \in Submission
<1>1. [r EXCEPT !.stage = "ended"] \in Submission  BY DEF Submission
<1>2. 200 \in HttpStatuses \cup {0}  BY DEF HttpStatuses
<1>3. ASSUME NEW q \in Submission, NEW h \in HttpStatuses \cup {0}
      PROVE  [q EXCEPT !.http = h] \in Submission
  BY <1>3 DEF Submission
<1> QED  BY <1>1, <1>2, <1>3

LEMMA EndIInv ==
    ASSUME IInv, NEW s \in Submissions, HandOff(s) \/ EndWithoutReply(s)
    PROVE  IInv'
<1> USE DEF IInv
<1>1. /\ submission[s].stage = "stored"
      /\ submission' = [submission EXCEPT ![s].stage = "ended", ![s].http = 200]
      /\ UNCHANGED <<row, creation, links, expired, form>>
  BY DEF HandOff, EndWithoutReply, ApprovedPage, NonSendPage
<1>2. \A t \in Submissions :
        /\ submission'[t].token = submission[t].token
        /\ submission'[t].text = submission[t].text
        /\ submission'[t].approver = submission[t].approver
        /\ submission'[t].outcome = submission[t].outcome
        /\ submission'[t].final = submission[t].final
        /\ submission'[t].stage = IF t = s THEN "ended" ELSE submission[t].stage
  BY <1>1 DEF TypeOK, Submission
<1>3. DecisionsAreSound'
  <2> SUFFICES ASSUME NEW t \in Submissions, submission'[t].stage \in Later
               PROVE  /\ form'[t] # NoForm
                      /\ submission'[t].token = form'[t].token
                      /\ submission'[t].outcome \in DecidedStatuses
                      /\ submission'[t].outcome = "RESPONSE_APPROVED" => Approved(t)'
    BY DEF DecisionsAreSound
  <2>1. submission[t].stage \in Later  BY <1>1, <1>2 DEF Later
  <2>2. Approved(t) <=> Approved(t)'  BY <1>1, <1>2 DEF Approved
  <2> QED  BY <1>1, <1>2, <2>1, <2>2 DEF DecisionsAreSound
<1>4. HandoffsAreDecisions' /\ handoffs' \subseteq Handoff
  <2>1. CASE HandOff(s)
    <3> DEFINE h == [ submission |-> s, text |-> submission[s].final,
                      approver |-> submission[s].approver ]
    <3>1. handoffs' = handoffs \cup {h} /\ submission[s].outcome = "RESPONSE_APPROVED"
      BY <2>1 DEF HandOff
    <3>2. h \in Handoff
      BY <1>1, <3>1 DEF DecisionsAreSound, Later, Approved, Handoff, TypeOK, Submission
    <3> QED
      BY <1>2, <3>1, <3>2 DEF HandoffsAreDecisions, TypeOK, Handoff
  <2>2. CASE EndWithoutReply(s)
    BY <1>1, <1>2, <2>2 DEF EndWithoutReply, HandoffsAreDecisions, TypeOK, Handoff
  <2> QED  BY <2>1, <2>2
<1>5. TypeOK'
  <2>1. submission[s] \in Submission  BY DEF TypeOK
  <2>2. [submission[s] EXCEPT !.stage = "ended", !.http = 200] \in Submission
    BY <2>1, EndedType
  <2>3. submission' \in [Submissions -> Submission]
    BY <1>1, <2>2 DEF TypeOK
  <2> QED  BY <1>1, <1>4, <2>3 DEF TypeOK
<1>6. StoredIsClosed'
  BY <1>1, <1>2 DEF StoredIsClosed, HasStored
<1> QED
  BY <1>1, <1>3, <1>4, <1>5, <1>6 DEF RowIsThere, RowOfCreation, FormOfCreation, Used, DraftOf

LEMMA StepIInv == IInv /\ [Next]_vars => IInv'
<1> SUFFICES ASSUME IInv, [Next]_vars PROVE IInv'  OBVIOUS
<1>1. CASE UNCHANGED vars
  BY <1>1 DEF vars, IInv, TypeOK, RowIsThere, RowOfCreation, FormOfCreation,
              DecisionsAreSound, HandoffsAreDecisions, StoredIsClosed, HasStored, Used,
              DraftOf, Approved
<1> QED
  BY <1>1, CreateIInv, CreationIInv, OpenFormIInv, PostIInv, StoreIInv, EndIInv
     DEF Next, CreationNext, SubmissionNext

LEMMA SpecIInv == Spec => []IInv
<1>1. Init => IInv  BY InitIInv
<1>2. IInv /\ [Next]_vars => IInv'  BY StepIInv
<1> QED  BY <1>1, <1>2, PTL DEF Spec

-----------------------------------------------------------------------------
\* Every variable keeps its type.
THEOREM TypeCorrect == Spec => []TypeOK
<1>1. IInv => TypeOK  BY DEF IInv
<1> QED  BY <1>1, SpecIInv, PTL

\* The Reply Sender gets approved texts only, from reviewers on the
\* allowlist, of cases of which node A found nothing missing (A, L to Q).
THEOREM HandoffsAreApproved == Spec => []HandoffIsApproved
<1>1. IInv => HandoffIsApproved
  BY DEF IInv, HandoffIsApproved, HandoffsAreDecisions, DecisionsAreSound, Approved, Later,
         TypeOK, Handoff
<1> QED  BY <1>1, SpecIInv, PTL

\* A link whose decision was stored decides nothing more (nodes L and O).
THEOREM DecisionsAreFinal == Spec => StoredDecisionIsFinal
<1>1. IInv /\ [Next]_vars =>
        \A s, t \in Submissions :
          submission[s].stage = "idle" /\ submission'[s].stage = "decided"
            => ~(HasStored(t) /\ submission[t].token = form[s].token)
  <2> SUFFICES ASSUME IInv, [Next]_vars, NEW s \in Submissions, NEW t \in Submissions,
                      submission[s].stage = "idle", submission'[s].stage = "decided"
               PROVE  ~(HasStored(t) /\ submission[t].token = form[s].token)
    OBVIOUS
  <2>1. PICK action \in {"approve", "deny"}, text \in Texts,
             identity \in Identities \cup {Blank} : Post(s, action, text, identity)
    <3>1. submission' # submission  OBVIOUS
    <3>2. PICK r \in Submissions : SubmissionNext(r)
      BY <3>1 DEF Next, vars, CreationNext, Create, Notify, RecordNotification, Expire
    <3>3. submission \in [Submissions -> Submission]  BY DEF IInv, TypeOK
    <3>4. ~ Store(r) /\ ~ HandOff(r) /\ ~ EndWithoutReply(r)
      <4>1. submission' # [submission EXCEPT ![r].stage = "stored"]
        BY <3>3 DEF Submission
      <4>2. submission' # [submission EXCEPT ![r].stage = "ended", ![r].http = 200]
        BY <3>3 DEF Submission
      <4> QED  BY <4>1, <4>2 DEF Store, HandOff, EndWithoutReply, ApprovedPage, NonSendPage
    <3>5. PICK action \in {"approve", "deny"}, text \in Texts,
               identity \in Identities \cup {Blank} : Post(r, action, text, identity)
      BY <3>1, <3>2, <3>4 DEF SubmissionNext, OpenForm
    <3>6. r = s  BY <3>3, <3>5 DEF Post
    <3> QED  BY <3>5, <3>6
  <2>2. Flaws(form[s].token, identity) = {}
    BY <2>1 DEF Post, IInv, TypeOK
  <2>3. row # NoRow /\ row.token = form[s].token /\ row.status \in OpenStatuses
    BY <2>2 DEF Flaws, LinkFlaws
  <2> QED  BY <2>3 DEF IInv, StoredIsClosed
<1> QED  BY <1>1, SpecIInv, PTL DEF Spec, StoredDecisionIsFinal
=============================================================================
