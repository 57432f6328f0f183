------------------------ MODULE HumanApprovalProofs ------------------------
(***************************************************************************)
(* Theorems about Human Approval, for any number of cases, creations, tabs *)
(* and send keys, and any collision of case ids.                           *)
(***************************************************************************)
EXTENDS HumanApproval, TLAPS

\* Node N returns a decision, and approves only what can be approved.
LEMMA DecisionFacts ==
    ASSUME NEW r \in Row, NEW action \in Actions, NEW complete \in BOOLEAN
    PROVE  /\ ProcessReviewerDecision(r, action, complete) \in Decision
           /\ ProcessReviewerDecision(r, action, complete).final = "approve"
                => action = "approve" /\ r.kind = "ready"
<1> DEFINE d == ProcessReviewerDecision(r, action, complete)
<1>1. /\ r.status \in Statuses /\ r.kind \in Kinds
      /\ r.sentBefore \in BOOLEAN
  BY DEF Row
<1>2. /\ BlockAmendment(r) \in Decision
      /\ BlockAmendment(r).final = "blocked"
  BY <1>1 DEF BlockAmendment, Decide, Decision, Statuses, RenderableStatuses,
              SentStyleStatuses, ApprovedStatuses, FinalActions
<1>3. d \in Decision
  BY <1>1, <1>2
  DEF ProcessReviewerDecision, Decide, Decision, Statuses, RenderableStatuses,
      SentStyleStatuses, ApprovedStatuses, FinalActions
<1>4. d.final = "approve" =>
        action = "approve" /\ ~LooksMissing(r) /\ ~BlockedVariables(r)
  BY <1>2 DEF ProcessReviewerDecision, Decide
<1>. QED
  BY <1>1, <1>3, <1>4 DEF LooksMissing, BlockedVariables, Kinds

-----------------------------------------------------------------------------
(***************************************************************************)
(* Types.  A node that updates a row needs to know that the row is there,  *)
(* so the types come with the two halves of the invariant that say so.     *)
(***************************************************************************)
Made == {h \in Creations : creating[h] # "A"}

\* A tab that has something to show, or to answer for.
Counts(t) == Open(t) \/ t \in posted

\* An execution that the reviewer's approval has brought to node Q or beyond.
HandedOff(t) == node[t] \in {"Q", "send", "wait", "R2", "R4", "R5b"}

RowInv ==
    /\ \A c \in Cases : row[c] # NoRow => row[c].token \in Made
    /\ \A h \in Made : row[CaseOf[h]] # NoRow
    /\ links \subseteq Made
    /\ \A t \in Tabs : HandedOff(t) => carried[t] \in Made

PageInv ==
    /\ \A t \in Tabs : Counts(t) => page[t] \in Page /\ page[t].token \in links
    /\ \A t \in posted : node[t] \in {"wait", "end"}
    /\ \A t \in Tabs : node[t] = "wait" => t \in posted

\* The submission is past its lookup.
Decided(t) == Counts(t) /\ node[t] # "page"

ChoiceInv ==
    \A t \in Tabs : Decided(t) => /\ seen[t] \in Row
                                  /\ decision[t] \in Decision

TypeInv == HTypeOK /\ RowInv /\ PageInv /\ ChoiceInv

LEMMA TypeInit == HInit => TypeInv
  BY DEF HInit, TypeInv, HTypeOK, RowInv, PageInv, ChoiceInv, Made, Counts,
         Open, HandedOff, Decided, CreationNodes, Nodes, Notifications

\* The case of an open tab is there.
LEMMA OpenTabFacts ==
    ASSUME TypeInv, NEW t \in Tabs, Open(t)
    PROVE  /\ TabCase(t) \in Cases
           /\ row[TabCase(t)] \in Row
           /\ row[TabCase(t)].token \in Made
  BY CaseOfAssumption DEF TypeInv, HTypeOK, RowInv, PageInv, Counts, TabCase,
     Made, Page

LEMMA TypeStep == TypeInv /\ [HNext]_vars => TypeInv'
<1> SUFFICES ASSUME TypeInv, [HNext]_vars PROVE TypeInv'
  OBVIOUS
<1> USE CaseOfAssumption, NoRowAssumption
    DEF TypeInv, HTypeOK, RowInv, PageInv, ChoiceInv, Made, Counts, Open,
        HandedOff, Decided, CreationNodes, Nodes
<1>1. ASSUME NEW h \in Creations, NEW kind \in Kinds,
             CreateReviewCase(h, kind)
      PROVE  TypeInv'
  <2>1. HTypeOK'
    BY <1>1 DEF CreateReviewCase, Row, Statuses, RenderableStatuses,
                Notifications, tabVars, senderVars
  <2>2. Made' = Made \cup {h}
    BY <1>1 DEF CreateReviewCase
  <2>3. \A c \in Cases : IF c = CaseOf[h]
                        THEN row'[c] # NoRow /\ row'[c].token = h
                        ELSE row'[c] = row[c]
    <3>1. row'[CaseOf[h]] \in Row
      BY <1>1 DEF CreateReviewCase, Row, Statuses, RenderableStatuses,
                  Notifications
    <3>. QED
      BY <1>1, <3>1 DEF CreateReviewCase
  <2>4. RowInv'
    BY <1>1, <2>2, <2>3 DEF CreateReviewCase, tabVars
  <2>5. PageInv' /\ ChoiceInv'
    BY <1>1 DEF CreateReviewCase, tabVars, senderVars
  <2>. QED
    BY <2>1, <2>4, <2>5
<1>2. ASSUME NEW h \in Creations, NotifyReviewers(h) PROVE TypeInv'
  BY <1>2 DEF NotifyReviewers, Notifications, tableVars, tabVars, senderVars
<1>3. ASSUME NEW h \in Creations, UpdateCaseNotificationStatus(h)
      PROVE  TypeInv'
  BY <1>3 DEF UpdateCaseNotificationStatus, Row, Notifications, tabVars,
              senderVars
<1>4. ASSUME NEW h \in Creations, TokenExpires(h) PROVE TypeInv'
  BY <1>4 DEF TokenExpires, creationVars, tabVars, senderVars
<1>5. ASSUME NEW t \in Tabs, NEW h \in Creations, OpenReviewForm(t, h)
      PROVE  TypeInv'
  BY <1>5 DEF OpenReviewForm, GoTo, TokenValid, Page, Row, Offers,
              AmendActions, Actions, creationVars, tableVars, senderVars
<1>6. ASSUME NEW t \in Tabs, NEW action \in Actions,
             NEW complete \in BOOLEAN, NEW allowlisted \in BOOLEAN,
             SubmitReviewForm(t, action, complete, allowlisted)
      PROVE  TypeInv'
  <2>1. row[TabCase(t)] \in Row
    BY <1>6, OpenTabFacts DEF SubmitReviewForm
  <2>2. ProcessReviewerDecision(row[TabCase(t)], action, complete)
          \in Decision
    BY <2>1, DecisionFacts
  <2>3. CASE End(t)
    BY <1>6, <2>3 DEF SubmitReviewForm, End, GoTo, creationVars, tableVars,
                      senderVars
  <2>4. CASE ~End(t)
    BY <1>6, <2>1, <2>2, <2>4 DEF SubmitReviewForm, GoTo, creationVars,
                                  tableVars, senderVars
  <2>. QED
    BY <2>3, <2>4
<1>7. ASSUME NEW t \in Tabs, PersistReviewerDecision(t) PROVE TypeInv'
  <2>1. /\ TabCase(t) \in Cases
        /\ row[TabCase(t)] \in Row
        /\ row[TabCase(t)].token \in Made
    BY <1>7, OpenTabFacts DEF PersistReviewerDecision
  <2>2. decision[t] \in Decision
    BY <1>7 DEF PersistReviewerDecision
  <2>3. /\ row'[TabCase(t)] \in Row
        /\ row'[TabCase(t)].token = row[TabCase(t)].token
    BY <1>7, <2>1, <2>2 DEF PersistReviewerDecision, Row, Decision
  <2>4. \A c \in Cases : c # TabCase(t) => row'[c] = row[c]
    BY <1>7 DEF PersistReviewerDecision
  <2>5. row' \in [Cases -> Row \cup {NoRow}]
    BY <1>7, <2>3, <2>4 DEF PersistReviewerDecision
  <2>6. CASE End(t)
    BY <1>7, <2>1, <2>3, <2>4, <2>5, <2>6
    DEF PersistReviewerDecision, End, GoTo, creationVars, senderVars
  <2>7. CASE ~End(t)
    BY <1>7, <2>1, <2>3, <2>4, <2>5, <2>7
    DEF PersistReviewerDecision, GoTo, creationVars, senderVars
  <2>. QED
    BY <2>6, <2>7
<1>8. ASSUME NEW t \in Tabs, SenderAcquires(t) PROVE TypeInv'
  <2>1. KeyOf[seen[t].draft] \in Keys
    BY <1>8, KeyOfAssumption DEF SenderAcquires, Row
  <2>2. /\ claimed' \in SUBSET Keys
        /\ \E n \in {"R2", "send", "R5b"} : GoTo(t, n)
    BY <1>8, <2>1 DEF SenderAcquires
  <2>. QED
    BY <1>8, <2>2 DEF SenderAcquires, GoTo, creationVars, tableVars
<1>9. ASSUME NEW t \in Tabs,
             SenderBlocksBeforeAcquire(t) \/ SenderStopsAfterAcquire(t)
      PROVE  TypeInv'
  <2>1. HTypeOK'
    BY <1>9 DEF SenderBlocksBeforeAcquire, SenderStopsAfterAcquire, GoTo, End,
                creationVars, tableVars, senderVars
  <2>2. RowInv'
    BY <1>9 DEF SenderBlocksBeforeAcquire, SenderStopsAfterAcquire, GoTo, End,
                creationVars, tableVars, senderVars
  <2>3. PageInv'
    BY <1>9 DEF SenderBlocksBeforeAcquire, SenderStopsAfterAcquire, GoTo, End,
                creationVars, tableVars, senderVars
  <2>4. ChoiceInv'
    BY <1>9 DEF SenderBlocksBeforeAcquire, SenderStopsAfterAcquire, GoTo, End,
                creationVars, tableVars, senderVars
  <2>. QED
    BY <2>1, <2>2, <2>3, <2>4
<1>10. ASSUME NEW t \in Tabs, SenderPosts(t) PROVE TypeInv'
  BY <1>10 DEF SenderPosts, GoTo, creationVars, tableVars
<1>11. ASSUME NEW t \in Tabs, SenderReports(t) PROVE TypeInv'
  <2>1. t \in posted
    BY <1>11 DEF SenderReports
  <2>. QED
    BY <1>11, <2>1 DEF SenderReports, GoTo, creationVars, tableVars
<1>12. ASSUME NEW t \in Tabs, UpdateCaseRetryNeeded(t) PROVE TypeInv'
  <2>1. /\ TabCase(t) \in Cases
        /\ row[TabCase(t)] \in Row
    BY <1>12, OpenTabFacts DEF UpdateCaseRetryNeeded
  <2>2. carried[t] \in Made
    BY <1>12 DEF UpdateCaseRetryNeeded
  <2>3. /\ row'[TabCase(t)] \in Row
        /\ row'[TabCase(t)].token = carried[t]
    BY <1>12, <2>1, <2>2
    DEF UpdateCaseRetryNeeded, Row, Statuses, RenderableStatuses
  <2>4. \A c \in Cases : c # TabCase(t) => row'[c] = row[c]
    BY <1>12 DEF UpdateCaseRetryNeeded
  <2>5. row' \in [Cases -> Row \cup {NoRow}]
    BY <1>12, <2>3, <2>4 DEF UpdateCaseRetryNeeded
  <2>. QED
    BY <1>12, <2>1, <2>2, <2>3, <2>4, <2>5
    DEF UpdateCaseRetryNeeded, GoTo, creationVars, senderVars
<1>13. ASSUME NEW t \in Tabs, ReturnLink(t) PROVE TypeInv'
  <2>1. HTypeOK' /\ RowInv'
    BY <1>13 DEF ReturnLink, GoTo, End, creationVars, tableVars, senderVars
  <2>2. PageInv' /\ ChoiceInv'
    BY <1>13 DEF ReturnLink, GoTo, End, creationVars, tableVars, senderVars
  <2>. QED
    BY <2>1, <2>2
<1>14. CASE UNCHANGED vars
  BY <1>14 DEF vars, creationVars, tableVars, tabVars, senderVars
<1>. QED
  BY <1>1, <1>2, <1>3, <1>4, <1>5, <1>6, <1>7, <1>8, <1>9, <1>10, <1>11,
     <1>12, <1>13, <1>14 DEF HNext, CreationStep, SubmissionStep

\* Type correctness of Human Approval (the whole of module HumanApproval):
\* no node ever updates a row that is not there, or forwards a token that
\* nobody drew.
THEOREM TypeCorrect == HSpec => []HTypeOK
<1>1. TypeInv => HTypeOK
  BY DEF TypeInv
<1>. QED
  BY <1>1, TypeInit, TypeStep, PTL DEF HSpec

-----------------------------------------------------------------------------
(***************************************************************************)
(* What an approval stands for.  FormInv: a form whose link is the link of *)
(* the draft now in the row shows that draft, because nobody has the link  *)
(* of a creation that is yet to come.  ApprovalInv carries that, and what  *)
(* node N decided, to the execution that POSTs.                            *)
(***************************************************************************)
FormInv ==
    \A t \in Tabs :
      node[t] = "page" /\ page[t].token = row[TabCase(t)].draft =>
        page[t].draft = row[TabCase(t)].draft

ApprovedOf(t) ==
    /\ seen[t].token = page[t].token
    /\ decision[t].final = "approve" => /\ "approve" \in page[t].offers
                                       /\ seen[t].kind = "ready"
    /\ seen[t].token = seen[t].draft => page[t].draft = seen[t].draft

ApprovalInv ==
    /\ FormInv
    /\ \A t \in Tabs : Decided(t) => ApprovedOf(t)
    /\ \A t \in Tabs :
         HandedOff(t) \/ t \in posted => decision[t].final = "approve"

LEMMA ApprovalInit == HInit => ApprovalInv
  BY DEF HInit, ApprovalInv, FormInv, Decided, Counts, Open, HandedOff

\* A step that leaves the drafts alone and opens no form.
DraftsStay == \A c \in Cases : row[c] \in Row => row'[c].draft = row[c].draft

LEMMA FormKept ==
    ASSUME TypeInv, FormInv, DraftsStay,
           \A t \in Tabs : node'[t] = "page" =>
             node[t] = "page" /\ page'[t] = page[t]
    PROVE  FormInv'
<1>1. \A t \in Tabs : node[t] = "page" =>
        TabCase(t) \in Cases /\ row[TabCase(t)] \in Row
  BY OpenTabFacts DEF Open
<1>. QED
  BY <1>1 DEF FormInv, DraftsStay, TabCase

LEMMA FormStep ==
    ASSUME TypeInv, FormInv, [HNext]_vars
    PROVE  FormInv'
<1> USE DEF TypeInv, HTypeOK, FormInv, TabCase
<1>1. ASSUME NEW h \in Creations, NEW kind \in Kinds,
             CreateReviewCase(h, kind)
      PROVE  FormInv'
  <2>1. \A t \in Tabs : node[t] = "page" =>
          page[t].token # h /\ page[t].token \in Creations
    BY <1>1 DEF CreateReviewCase, PageInv, RowInv, Made, Counts, Open
  <2>2. \A c \in Cases : row'[c].draft = h \/ row'[c] = row[c]
    BY <1>1 DEF CreateReviewCase
  <2>. QED
    BY <1>1, <2>1, <2>2, CaseOfAssumption DEF CreateReviewCase, tabVars
<1>2. ASSUME NEW t \in Tabs, NEW h \in Creations, OpenReviewForm(t, h)
      PROVE  FormInv'
  BY <1>2 DEF OpenReviewForm, GoTo, tableVars
<1>3. ASSUME NEW h \in Creations, UpdateCaseNotificationStatus(h)
      PROVE  FormInv'
  <2>1. DraftsStay
    BY <1>3 DEF UpdateCaseNotificationStatus, DraftsStay, Row
  <2>. QED
    BY <1>3, <2>1, FormKept DEF UpdateCaseNotificationStatus, tabVars
<1>4. ASSUME NEW t \in Tabs, PersistReviewerDecision(t) PROVE FormInv'
  <2>1. DraftsStay
    BY <1>4 DEF PersistReviewerDecision, DraftsStay, Row
  <2>. QED
    BY <1>4, <2>1, FormKept DEF PersistReviewerDecision, GoTo, End
<1>5. ASSUME NEW t \in Tabs, UpdateCaseRetryNeeded(t) PROVE FormInv'
  <2>1. DraftsStay
    BY <1>5 DEF UpdateCaseRetryNeeded, DraftsStay, Row
  <2>. QED
    BY <1>5, <2>1, FormKept DEF UpdateCaseRetryNeeded, GoTo
<1>6. ASSUME NEW h \in Creations, NotifyReviewers(h) \/ TokenExpires(h)
      PROVE  FormInv'
  BY <1>6 DEF NotifyReviewers, TokenExpires, tableVars, tabVars
<1>7. ASSUME NEW t \in Tabs, NEW action \in Actions,
             NEW complete \in BOOLEAN, NEW allowlisted \in BOOLEAN,
             SubmitReviewForm(t, action, complete, allowlisted)
      PROVE  FormInv'
  BY <1>7, FormKept DEF SubmitReviewForm, DraftsStay, GoTo, End, tableVars
<1>8. ASSUME NEW t \in Tabs,
             \/ SenderAcquires(t) \/ SenderBlocksBeforeAcquire(t)
             \/ SenderPosts(t) \/ SenderReports(t)
      PROVE  FormInv'
  BY <1>8, FormKept
  DEF SenderAcquires, SenderBlocksBeforeAcquire, SenderPosts, SenderReports,
      DraftsStay, GoTo, tableVars
<1>9. ASSUME NEW t \in Tabs, SenderStopsAfterAcquire(t) \/ ReturnLink(t)
      PROVE  FormInv'
  BY <1>9, FormKept
  DEF SenderStopsAfterAcquire, ReturnLink, DraftsStay, GoTo, End, tableVars
<1>10. CASE UNCHANGED vars
  BY <1>10 DEF vars, tableVars, tabVars
<1>. QED
  BY <1>1, <1>2, <1>3, <1>4, <1>5, <1>6, <1>7, <1>8, <1>9, <1>10
  DEF HNext, CreationStep, SubmissionStep

LEMMA ApprovalStep ==
    ASSUME TypeInv, ApprovalInv, [HNext]_vars
    PROVE  ApprovalInv'
<1> USE DEF TypeInv, HTypeOK, PageInv, ApprovalInv, ApprovedOf, Decided,
            Counts, Open, HandedOff
<1>1. FormInv'
  BY FormStep
<1>2. ASSUME NEW h \in Creations, CreationStep(h) PROVE ApprovalInv'
  <2>. QED
    BY <1>1, <1>2
    DEF CreationStep, CreateReviewCase, NotifyReviewers,
        UpdateCaseNotificationStatus, TokenExpires, tabVars, senderVars
<1>3. ASSUME NEW t \in Tabs, NEW h \in Creations, OpenReviewForm(t, h)
      PROVE  ApprovalInv'
  BY <1>1, <1>3 DEF OpenReviewForm, GoTo, senderVars
<1>4. ASSUME NEW t \in Tabs, NEW action \in Actions,
             NEW complete \in BOOLEAN, NEW allowlisted \in BOOLEAN,
             SubmitReviewForm(t, action, complete, allowlisted)
      PROVE  ApprovalInv'
  <2>1. CASE End(t)
    BY <1>1, <1>4, <2>1 DEF SubmitReviewForm, End, GoTo, senderVars
  <2>2. CASE ~End(t)
    <3>1. /\ row[TabCase(t)] \in Row
          /\ seen'[t] = row[TabCase(t)]
          /\ seen'[t].token = page[t].token
          /\ decision'[t]
               = ProcessReviewerDecision(row[TabCase(t)], action, complete)
          /\ page' = page /\ posted' = posted
          /\ node' = [node EXCEPT ![t] = "O"]
          /\ \A u \in Tabs \ {t} : /\ seen'[u] = seen[u]
                                   /\ decision'[u] = decision[u]
      BY <1>4, <2>2, OpenTabFacts
      DEF SubmitReviewForm, GoTo, TokenValid, senderVars
    <3>2. decision'[t].final = "approve" =>
            action = "approve" /\ seen'[t].kind = "ready"
      BY <3>1, DecisionFacts
    <3>3. ApprovedOf(t)'
      BY <1>4, <3>1, <3>2 DEF SubmitReviewForm, FormInv
    <3>4. t \notin posted
      BY <1>4 DEF SubmitReviewForm
    <3>. QED
      BY <1>1, <3>1, <3>3, <3>4
  <2>. QED
    BY <2>1, <2>2
<1>5. ASSUME NEW t \in Tabs, PersistReviewerDecision(t) PROVE ApprovalInv'
  <2>1. CASE End(t)
    BY <1>1, <1>5, <2>1 DEF PersistReviewerDecision, End, GoTo, senderVars
  <2>2. CASE ~End(t)
    BY <1>1, <1>5, <2>2
    DEF PersistReviewerDecision, SendsReply, GoTo, senderVars
  <2>. QED
    BY <2>1, <2>2
<1>6. ASSUME NEW t \in Tabs,
             \/ SenderAcquires(t) \/ SenderBlocksBeforeAcquire(t)
             \/ SenderPosts(t) \/ SenderReports(t)
             \/ UpdateCaseRetryNeeded(t)
      PROVE  ApprovalInv'
  <2>1. /\ page' = page /\ seen' = seen /\ decision' = decision
        /\ \E n \in Nodes \ {"closed", "page", "O"} :
             node' = [node EXCEPT ![t] = n]
        /\ posted' \in {posted, posted \cup {t}}
        /\ HandedOff(t)
    BY <1>6
    DEF SenderAcquires, SenderBlocksBeforeAcquire, SenderPosts,
        SenderReports, UpdateCaseRetryNeeded, GoTo, Nodes, senderVars
  <2>. QED
    BY <1>1, <2>1
<1>7. ASSUME NEW t \in Tabs, SenderStopsAfterAcquire(t) \/ ReturnLink(t)
      PROVE  ApprovalInv'
  <2>1. t \notin posted /\ posted' = posted
    BY <1>7 DEF SenderStopsAfterAcquire, ReturnLink, senderVars
  <2>2. CASE End(t)
    BY <1>1, <2>1, <2>2 DEF End, GoTo
  <2>3. CASE ~End(t)
    BY <1>1, <1>7, <2>1, <2>3 DEF SenderStopsAfterAcquire, ReturnLink, GoTo
  <2>. QED
    BY <2>2, <2>3
<1>8. CASE UNCHANGED vars
  BY <1>1, <1>8 DEF vars, tabVars, senderVars
<1>. QED
  BY <1>2, <1>3, <1>4, <1>5, <1>6, <1>7, <1>8 DEF HNext, SubmissionStep

LEMMA ApprovalInvariant == HSpec => [](TypeInv /\ ApprovalInv)
<1>1. TypeInv /\ ApprovalInv /\ [HNext]_vars => (TypeInv /\ ApprovalInv)'
  BY TypeStep, ApprovalStep
<1>. QED
  BY <1>1, TypeInit, ApprovalInit, PTL DEF HSpec

\* Every reply that is POSTed was approved in a form that offered approval,
\* on a valid link, of a case with neither missing context nor blocked
\* variables (nodes J, L, N, P, Q).
THEOREM OnlyApprovedRepliesAreSent == HSpec => []RepliesAreApproved
<1>1. TypeInv /\ ApprovalInv => RepliesAreApproved
  BY DEF TypeInv, PageInv, HTypeOK, ApprovalInv, ApprovedOf, Decided, Counts,
         RepliesAreApproved
<1>. QED
  BY <1>1, ApprovalInvariant, PTL

\* The reply is the answer to the draft that the form showed (H, L), unless
\* the row carries a token that R2 put back over a newer case.
THEOREM LinksSendTheirDraft == HSpec => []LinkSendsItsDraft
<1>1. TypeInv /\ ApprovalInv => LinkSendsItsDraft
  BY DEF TypeInv, PageInv, HTypeOK, ApprovalInv, ApprovedOf, Decided, Counts,
         LinkSendsItsDraft
<1>. QED
  BY <1>1, ApprovalInvariant, PTL

-----------------------------------------------------------------------------
(***************************************************************************)
(* Settled cases.  Every write to a row comes from a new creation, whose   *)
(* token the row cannot have yet, or from a submission in flight, which a  *)
(* settled case does not have, or has only for harmless amendments.        *)
(***************************************************************************)

\* The row of c keeps all but its notification status, or is created anew.
RowKept(c) ==
    /\ row'[c] # NoRow
    /\ row'[c].status = row[c].status
    /\ row'[c].kind = row[c].kind

LEMMA CreationKeepsOrRecreates ==
    ASSUME TypeInv, NEW c \in Cases, row[c] # NoRow,
           NEW h \in Creations, CreationStep(h)
    PROVE  /\ RowKept(c) \/ Recreated(c)
           /\ UNCHANGED tabVars
<1> USE NoRowAssumption DEF TypeInv, HTypeOK, RowKept, Recreated
<1>1. row[c] \in Row /\ row[c].token \in Made
  BY DEF RowInv
<1>2. ASSUME NEW kind \in Kinds, CreateReviewCase(h, kind)
      PROVE  RowKept(c) \/ Recreated(c)
  <2>1. h \notin Made
    BY <1>2 DEF CreateReviewCase, Made
  <2>2. c = CaseOf[h] => row'[c].token = h
    BY <1>2 DEF CreateReviewCase
  <2>3. c # CaseOf[h] => row'[c] = row[c]
    BY <1>2 DEF CreateReviewCase
  <2>. QED
    BY <1>1, <2>1, <2>2, <2>3
<1>3. ASSUME UpdateCaseNotificationStatus(h) PROVE RowKept(c)
  <2>1. row'[c] = row[c] \/ row'[c] = [row[c] EXCEPT !.notification = chat[h]]
    BY <1>3 DEF UpdateCaseNotificationStatus
  <2>2. row'[c] \in Row
    BY <1>1, <2>1 DEF Row
  <2>3. row'[c].status = row[c].status /\ row'[c].kind = row[c].kind
    BY <1>1, <2>1 DEF Row
  <2>. QED
    BY <2>2, <2>3
<1>4. CASE NotifyReviewers(h) \/ TokenExpires(h)
  BY <1>4 DEF NotifyReviewers, TokenExpires, tableVars
<1>5. UNCHANGED tabVars
  BY DEF CreationStep, CreateReviewCase, NotifyReviewers,
         UpdateCaseNotificationStatus, TokenExpires
<1>. QED
  BY <1>2, <1>3, <1>4, <1>5 DEF CreationStep

\* A denied case without a submission under way stays so, or is replaced by
\* a new review case (H, L).
THEOREM DenialsAreFinal == HSpec => DenialIsFinal
<1> DEFINE Goal(c) == DenialSettled(c) => DenialSettled(c)' \/ Recreated(c)
<1>1. ASSUME TypeInv, [HNext]_vars, NEW c \in Cases, DenialSettled(c)
      PROVE  DenialSettled(c)' \/ Recreated(c)
  <2> USE DEF DenialSettled, CaseTabs, InFlight, Open, TabCase
  <2>1. row[c] # NoRow /\ row[c].status = "NO_REPLY_REQUIRED"
    BY <1>1
  <2>2. ASSUME NEW h \in Creations, CreationStep(h)
        PROVE  DenialSettled(c)' \/ Recreated(c)
    BY <1>1, <2>1, <2>2, CreationKeepsOrRecreates DEF RowKept, tabVars
  <2>3. ASSUME NEW t \in Tabs, NEW h \in Creations, OpenReviewForm(t, h)
        PROVE  DenialSettled(c)'
    BY <1>1, <2>3 DEF OpenReviewForm, GoTo, tableVars, TypeInv, HTypeOK
  <2>4. ASSUME NEW t \in Tabs, NEW action \in Actions,
               NEW complete \in BOOLEAN, NEW allowlisted \in BOOLEAN,
               SubmitReviewForm(t, action, complete, allowlisted)
        PROVE  DenialSettled(c)'
    BY <1>1, <2>4 DEF SubmitReviewForm, TokenValid, RenderableStatuses,
       SentStyleStatuses, ApprovedStatuses, GoTo, End, tableVars, TypeInv,
       HTypeOK
  <2>5. ASSUME NEW t \in Tabs, PersistReviewerDecision(t)
        PROVE  DenialSettled(c)'
    BY <1>1, <2>5
    DEF PersistReviewerDecision, GoTo, End, TypeInv, HTypeOK
  <2>6. ASSUME NEW t \in Tabs,
               \/ SenderAcquires(t) \/ SenderBlocksBeforeAcquire(t)
               \/ SenderPosts(t) \/ SenderReports(t)
               \/ SenderStopsAfterAcquire(t)
        PROVE  DenialSettled(c)'
    BY <1>1, <2>6
    DEF SenderAcquires, SenderBlocksBeforeAcquire, SenderPosts,
        SenderReports, SenderStopsAfterAcquire, GoTo, End, tableVars,
        TypeInv, HTypeOK
  <2>7. ASSUME NEW t \in Tabs, UpdateCaseRetryNeeded(t) \/ ReturnLink(t)
        PROVE  DenialSettled(c)'
    BY <1>1, <2>7
    DEF UpdateCaseRetryNeeded, ReturnLink, GoTo, End, tableVars, TypeInv,
        HTypeOK
  <2>8. CASE UNCHANGED vars
    BY <1>1, <2>8 DEF vars, tableVars, tabVars
  <2>. QED
    BY <1>1, <2>2, <2>3, <2>4, <2>5, <2>6, <2>7, <2>8
    DEF HNext, SubmissionStep
<1>2. TypeInv /\ [HNext]_vars => [\A c \in Cases : Goal(c)]_vars
  BY <1>1
<1>. QED
  BY <1>2, ApprovalInvariant, PTL DEF HSpec, DenialIsFinal

\* An approved case without older forms stays approved and sends nothing,
\* until a follow-up is captured or a new review case replaces it (J, N).
THEOREM ApprovalsAreFinal == HSpec => ApprovalIsFinal
<1> DEFINE Goal(c) ==
      ApprovalSettled(c) =>
        \/ ApprovalSettled(c)'
        \/ row'[c].status = "FOLLOWUP_SEND_PENDING_MANUAL"
        \/ Recreated(c)
<1>1. ASSUME TypeInv, [HNext]_vars, NEW c \in Cases, ApprovalSettled(c)
      PROVE  \/ ApprovalSettled(c)'
             \/ row'[c].status = "FOLLOWUP_SEND_PENDING_MANUAL"
             \/ Recreated(c)
  <2> USE DEF ApprovalSettled, CaseTabs, InFlight, Open, TabCase, SendsReply,
              LooksMissing, ApprovedStatuses, SentStyleStatuses
  <2>1. row[c] # NoRow
    BY <1>1
  <2>2. ASSUME NEW h \in Creations, CreationStep(h)
        PROVE  ApprovalSettled(c)' \/ Recreated(c)
    BY <1>1, <2>1, <2>2, CreationKeepsOrRecreates DEF RowKept, tabVars
  <2>3. ASSUME NEW t \in Tabs, NEW h \in Creations, OpenReviewForm(t, h)
        PROVE  ApprovalSettled(c)'
    <3>1. IsSentCase(row[c])
      BY <1>1 DEF IsSentCase
    <3>2. CaseOf[h] = c => page'[t].offers \subseteq AmendActions
      BY <1>1, <2>3, <3>1 DEF OpenReviewForm, Offers, TypeInv, HTypeOK
    <3>3. page'[t].token = h
      BY <1>1, <2>3 DEF OpenReviewForm, TypeInv, HTypeOK
    <3>. QED
      BY <1>1, <2>3, <3>2, <3>3
      DEF OpenReviewForm, GoTo, tableVars, TypeInv, HTypeOK
  <2>4. ASSUME NEW t \in Tabs, NEW action \in Actions,
               NEW complete \in BOOLEAN, NEW allowlisted \in BOOLEAN,
               SubmitReviewForm(t, action, complete, allowlisted)
        PROVE  ApprovalSettled(c)'
    <3>1. TabCase(t) = c =>
            /\ ProcessReviewerDecision(row[c], action, complete).status
                 \in SentStyleStatuses
            /\ ProcessReviewerDecision(row[c], action, complete).final
                 # "approve"
      BY <1>1, <2>4 DEF SubmitReviewForm, AmendActions,
         ProcessReviewerDecision, BlockAmendment, Decide
    <3>. QED
      BY <1>1, <2>4, <3>1
      DEF SubmitReviewForm, GoTo, End, tableVars, TypeInv, HTypeOK
  <2>5. ASSUME NEW t \in Tabs, PersistReviewerDecision(t)
        PROVE  \/ ApprovalSettled(c)'
               \/ row'[c].status = "FOLLOWUP_SEND_PENDING_MANUAL"
    <3>1. CASE TabCase(t) = c
      <4>1. row[c] \in Row
        BY <1>1, <2>1 DEF TypeInv, HTypeOK
      <4>2. /\ decision[t].status \in SentStyleStatuses
            /\ End(t)
        BY <1>1, <2>5, <3>1, <4>1 DEF PersistReviewerDecision
      <4>3. row'[c] \in Row
        <5>1. decision[t] \in Decision
          BY <1>1, <2>5 DEF PersistReviewerDecision, TypeInv, ChoiceInv,
                            Decided, Counts
        <5>. QED
          BY <1>1, <2>5, <3>1, <4>1, <5>1
          DEF PersistReviewerDecision, Row, Decision, TypeInv, HTypeOK
      <4>4. /\ row'[c].status = decision[t].status
            /\ row'[c].kind = row[c].kind
        BY <1>1, <2>5, <3>1, <4>1
        DEF PersistReviewerDecision, Row, TypeInv, HTypeOK
      <4>. QED
        BY <1>1, <2>5, <4>2, <4>3, <4>4, NoRowAssumption DEF End, GoTo, TypeInv, HTypeOK
    <3>2. CASE TabCase(t) # c
      BY <1>1, <2>5, <3>2
      DEF PersistReviewerDecision, GoTo, End, TypeInv, HTypeOK
    <3>. QED
      BY <3>1, <3>2
  <2>6. ASSUME NEW t \in Tabs,
               \/ SenderAcquires(t) \/ SenderBlocksBeforeAcquire(t)
               \/ SenderPosts(t) \/ SenderReports(t)
               \/ SenderStopsAfterAcquire(t)
        PROVE  ApprovalSettled(c)'
    BY <1>1, <2>6
    DEF SenderAcquires, SenderBlocksBeforeAcquire, SenderPosts,
        SenderReports, SenderStopsAfterAcquire, GoTo, End, tableVars,
        TypeInv, HTypeOK
  <2>7. ASSUME NEW t \in Tabs, UpdateCaseRetryNeeded(t) \/ ReturnLink(t)
        PROVE  ApprovalSettled(c)'
    BY <1>1, <2>7
    DEF UpdateCaseRetryNeeded, ReturnLink, GoTo, End, tableVars, TypeInv,
        HTypeOK
  <2>8. CASE UNCHANGED vars
    BY <1>1, <2>8 DEF vars, tableVars, tabVars
  <2>. QED
    BY <1>1, <2>2, <2>3, <2>4, <2>5, <2>6, <2>7, <2>8
    DEF HNext, SubmissionStep
<1>2. TypeInv /\ [HNext]_vars => [\A c \in Cases : Goal(c)]_vars
  BY <1>1
<1>. QED
  BY <1>2, ApprovalInvariant, PTL DEF HSpec, ApprovalIsFinal

-----------------------------------------------------------------------------
(***************************************************************************)
(* The Sender behind node Q is a sender of SendOnce.  A step moves one tab *)
(* from stage to stage; the claims and the keys follow.                    *)
(***************************************************************************)
Held(t) == IF StageOf(t) \in {"owner", "posted", "done"}
           THEN {KeyOf[seen[t].draft]} ELSE {}

\* A tab and the claims, before and after a step.
StageMoves(t) ==
    \/ StageOf(t)' = StageOf(t) /\ Held(t)' = Held(t) /\ claimed' = claimed
    \/ \E k \in Keys :
         /\ StageOf(t) = "asked" /\ StageOf(t)' = "owner"
         /\ k \notin claimed /\ claimed' = claimed \cup {k}
         /\ Held(t)' = {k}
    \/ /\ StageOf(t) = "asked" /\ StageOf(t)' = "over"
       /\ claimed' = claimed \/ \E k \in Keys : claimed' = claimed \cup {k}
    \/ StageOf(t) = "owner" /\ StageOf(t)' = "over" /\ claimed' = claimed
    \/ /\ <<StageOf(t), StageOf(t)'>> \in
             {<<"owner", "posted">>, <<"posted", "done">>}
       /\ Held(t)' = Held(t) /\ claimed' = claimed

LEMMA SubmissionMoves ==
    ASSUME TypeInv, NEW t \in Tabs,
           SubmissionStep(t) \/ \E h \in Creations : OpenReviewForm(t, h)
    PROVE  /\ \A u \in Tabs \ {t} : /\ StageOf(u)' = StageOf(u)
                                    /\ Held(u)' = Held(u)
           /\ StageMoves(t)
<1> USE DEF TypeInv, HTypeOK, PageInv, ChoiceInv, Decided, Counts, Open,
            StageOf, Held, StageMoves, GoTo
<1>1. ASSUME NEW h \in Creations, OpenReviewForm(t, h)
      PROVE  /\ \A u \in Tabs \ {t} : /\ StageOf(u)' = StageOf(u)
                                      /\ Held(u)' = Held(u)
             /\ StageMoves(t)
  BY <1>1 DEF OpenReviewForm, senderVars
<1>2. ASSUME NEW action \in Actions, NEW complete \in BOOLEAN,
             NEW allowlisted \in BOOLEAN,
             SubmitReviewForm(t, action, complete, allowlisted)
      PROVE  /\ \A u \in Tabs \ {t} : /\ StageOf(u)' = StageOf(u)
                                      /\ Held(u)' = Held(u)
             /\ StageMoves(t)
  <2>1. node[t] = "page" /\ t \notin posted
    BY <1>2 DEF SubmitReviewForm
  <2>2. CASE End(t)
    BY <1>2, <2>1, <2>2 DEF SubmitReviewForm, End, senderVars
  <2>3. CASE ~End(t)
    BY <1>2, <2>1, <2>3 DEF SubmitReviewForm, senderVars
  <2>. QED
    BY <2>2, <2>3
<1>3. CASE PersistReviewerDecision(t)
  <2>1. node[t] = "O" /\ t \notin posted
    BY <1>3 DEF PersistReviewerDecision
  <2>2. CASE End(t)
    BY <1>3, <2>1, <2>2 DEF PersistReviewerDecision, End, senderVars
  <2>3. CASE ~End(t)
    BY <1>3, <2>1, <2>3 DEF PersistReviewerDecision, senderVars
  <2>. QED
    BY <2>2, <2>3
<1>4. CASE SenderAcquires(t)
  <2>1. KeyOf[seen[t].draft] \in Keys
    BY <1>4, KeyOfAssumption DEF SenderAcquires, Row
  <2>. QED
    BY <1>4, <2>1 DEF SenderAcquires
<1>5. CASE SenderBlocksBeforeAcquire(t) \/ UpdateCaseRetryNeeded(t)
  BY <1>5 DEF SenderBlocksBeforeAcquire, UpdateCaseRetryNeeded, senderVars
<1>6. CASE SenderStopsAfterAcquire(t) \/ ReturnLink(t)
  BY <1>6 DEF SenderStopsAfterAcquire, ReturnLink, End, senderVars
<1>7. CASE SenderPosts(t) \/ SenderReports(t)
  BY <1>7 DEF SenderPosts, SenderReports
<1>. QED
  BY <1>1, <1>2, <1>3, <1>4, <1>5, <1>6, <1>7 DEF SubmissionStep

LEMMA OnceImplemented ==
    ASSUME TypeInv, [HNext]_vars
    PROVE  [Once!Next]_(Once!vars)
<1> DEFINE st == [u \in Tabs |-> StageOf(u)]
           hd == [u \in Tabs |-> Held(u)]
<1>0. /\ Once!vars = <<claimed, st, hd>>
      /\ Once!vars' = <<claimed', st', hd'>>
  BY DEF Once!vars, Held
<1>1. CASE UNCHANGED vars
  BY <1>1 DEF vars, tabVars, senderVars, Once!vars, StageOf
<1>2. ASSUME NEW h \in Creations, CreationStep(h)
      PROVE  [Once!Next]_(Once!vars)
  BY <1>2 DEF CreationStep, CreateReviewCase, NotifyReviewers,
     UpdateCaseNotificationStatus, TokenExpires, tabVars, senderVars,
     Once!vars, StageOf
<1>3. ASSUME NEW t \in Tabs,
             SubmissionStep(t) \/ \E h \in Creations : OpenReviewForm(t, h)
      PROVE  [Once!Next]_(Once!vars)
  <2> DEFINE to == StageOf(t)'
             key == Held(t)'
  <2>1. /\ \A u \in Tabs \ {t} : /\ StageOf(u)' = StageOf(u)
                                 /\ Held(u)' = Held(u)
        /\ StageMoves(t)
    BY <1>3, SubmissionMoves
  <2>2. /\ st' = [st EXCEPT ![t] = to]
        /\ hd' = [hd EXCEPT ![t] = key]
    BY <2>1
  <2>3. /\ st[t] = StageOf(t) /\ hd[t] = Held(t)
        /\ hd = [hd EXCEPT ![t] = Held(t)]
    OBVIOUS
  <2>4. CASE to = StageOf(t) /\ key = Held(t) /\ claimed' = claimed
    <3>1. \A u \in Tabs : StageOf(u)' = StageOf(u) /\ Held(u)' = Held(u)
      BY <2>1, <2>4
    <3>2. st' = st /\ hd' = hd
      BY <3>1
    <3>. QED
      BY <1>0, <2>4, <3>2
  <2>5. ASSUME NEW k \in Keys, StageOf(t) = "asked", to = "owner",
               k \notin claimed, claimed' = claimed \cup {k}, key = {k}
        PROVE  Once!Next
    <3>1. Once!Acquire(t, k)
      BY <2>2, <2>3, <2>5 DEF Once!Acquire, Once!Move, Held
    <3>. QED
      BY <3>1 DEF Once!Next
  <2>6. CASE StageOf(t) = "asked" /\ to = "over"
    <3>1. hd' = hd
      BY <2>2, <2>3, <2>6 DEF Held
    <3>2. CASE claimed' = claimed
      <4>1. Once!Refuse(t)
        BY <2>2, <2>3, <2>6, <3>1, <3>2 DEF Once!Refuse, Once!Move, Held
      <4>. QED
        BY <4>1 DEF Once!Next
    <3>3. ASSUME NEW k \in Keys, claimed' = claimed \cup {k}
          PROVE  Once!Next
      <4>1. Once!LoseClaim(t, k)
        BY <2>2, <2>3, <2>6, <3>1, <3>3 DEF Once!LoseClaim, Once!Move, Held
      <4>. QED
        BY <4>1 DEF Once!Next
    <3>. QED
      BY <2>1, <2>6, <3>2, <3>3 DEF StageMoves
  <2>7. CASE StageOf(t) = "owner" /\ to = "over" /\ claimed' = claimed
    <3>1. Once!Withdraw(t)
      BY <2>2, <2>3, <2>7 DEF Once!Withdraw, Once!Move, Held
    <3>. QED
      BY <3>1 DEF Once!Next
  <2>8. CASE /\ <<StageOf(t), to>> \in
                   {<<"owner", "posted">>, <<"posted", "done">>}
             /\ key = Held(t) /\ claimed' = claimed
    <3>1. hd' = hd
      BY <2>2, <2>3, <2>8
    <3>2. Once!Post(t) \/ Once!Report(t)
      BY <2>2, <2>3, <2>8, <3>1 DEF Once!Post, Once!Report, Once!Move, Held
    <3>. QED
      BY <3>2 DEF Once!Next
  <2>. QED
    BY <2>1, <2>4, <2>5, <2>6, <2>7, <2>8 DEF StageMoves
<1>. QED
  BY <1>1, <1>2, <1>3 DEF HNext

\* Seen from nodes Q to R5b, the Sender keeps the promise of SendOnce: a key
\* is claimed once, and a submission that comes back for a retry (R2) did
\* not POST.
THEOREM TabsSendOnce == HSpec => SendsOnce
<1>1. HInit => Once!Init
  BY DEF HInit, Once!Init, StageOf
<1>. QED
  BY <1>1, TypeInit, TypeStep, OnceImplemented, PTL
     DEF HSpec, SendsOnce, Once!Spec

\* A key that a tab holds is claimed, so that no other tab gets it.
HoldInv ==
    /\ \A t \in Tabs : Held(t) \subseteq claimed
    /\ \A t, u \in Tabs : Held(t) \cap Held(u) # {} => t = u

LEMMA HoldStep ==
    ASSUME TypeInv, HoldInv, [HNext]_vars
    PROVE  HoldInv'
<1>1. CASE UNCHANGED vars
  BY <1>1 DEF vars, tabVars, senderVars, HoldInv, Held, StageOf
<1>2. ASSUME NEW h \in Creations, CreationStep(h) PROVE HoldInv'
  <2>1. UNCHANGED <<tabVars, senderVars>>
    BY <1>2 DEF CreationStep, CreateReviewCase, NotifyReviewers,
       UpdateCaseNotificationStatus, TokenExpires
  <2>2. \A t \in Tabs : Held(t)' = Held(t)
    BY <2>1 DEF tabVars, senderVars, Held, StageOf
  <2>. QED
    BY <2>1, <2>2 DEF senderVars, HoldInv
<1>3. ASSUME NEW t \in Tabs,
             SubmissionStep(t) \/ \E h \in Creations : OpenReviewForm(t, h)
      PROVE  HoldInv'
  <2>1. /\ \A u \in Tabs \ {t} : Held(u)' = Held(u)
        /\ StageMoves(t)
    BY <1>3, SubmissionMoves
  <2>2. StageOf(t)' = "over" => Held(t)' = {}
    BY DEF Held
  <2>3. claimed \subseteq claimed'
    BY <2>1 DEF StageMoves
  <2>4. \/ Held(t)' = Held(t) \/ Held(t)' = {}
        \/ Held(t)' \subseteq claimed' /\ Held(t)' \cap claimed = {}
    BY <2>1, <2>2 DEF StageMoves
  <2> DEFINE Now(u) == Held(u)
             Then(u) == Held(u)'
  <2>5. /\ \A u \in Tabs : Then(u) \subseteq claimed'
        /\ \A u, v \in Tabs : Then(u) \cap Then(v) # {} => u = v
    <3>1. /\ \A u \in Tabs : Now(u) \subseteq claimed
          /\ \A u, v \in Tabs : Now(u) \cap Now(v) # {} => u = v
          /\ \A u \in Tabs \ {t} : Then(u) = Now(u)
      BY <2>1 DEF HoldInv
    <3>2. \/ Then(t) = Now(t) \/ Then(t) = {}
          \/ Then(t) \subseteq claimed' /\ Then(t) \cap claimed = {}
      BY <2>4
    <3> HIDE DEF Now, Then
    <3>. QED
      BY <2>3, <3>1, <3>2
  <2>. QED
    BY <2>5 DEF HoldInv
<1>. QED
  BY <1>1, <1>2, <1>3 DEF HNext

\* Whatever reviewers submit, repeat and retry, one submission at most POSTs
\* for a send key: the claim (nodes D to F of the Sender) outlives the
\* execution that made it, and R2 gives back the link but not the key.
THEOREM RepliesOncePerKey == HSpec => []OneReplyPerKey
<1>1. HInit => HoldInv
  BY DEF HInit, HoldInv, Held, StageOf
<1>2. TypeInv /\ HoldInv => OneReplyPerKey
  <2> SUFFICES ASSUME TypeInv, HoldInv, NEW t \in posted, NEW u \in posted,
                      KeyOf[seen[t].draft] = KeyOf[seen[u].draft]
               PROVE  t = u
    BY DEF OneReplyPerKey
  <2>1. t \in Tabs /\ u \in Tabs
    BY DEF TypeInv, HTypeOK
  <2>2. StageOf(t) \in {"posted", "done"} /\ StageOf(u) \in {"posted", "done"}
    BY DEF TypeInv, PageInv, StageOf
  <2>3. Held(t) = {KeyOf[seen[t].draft]} /\ Held(u) = {KeyOf[seen[u].draft]}
    BY <2>2 DEF Held
  <2>4. Held(t) \cap Held(u) # {}
    BY <2>3
  <2>. QED
    BY <2>1, <2>4 DEF HoldInv
<1>. QED
  BY <1>1, <1>2, TypeInit, TypeStep, HoldStep, PTL DEF HSpec

=============================================================================
