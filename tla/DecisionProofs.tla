--------------------------- MODULE DecisionProofs ---------------------------
(***************************************************************************)
(* ActionsPrecedeApproval, VerifiedMeansBlocked, TokensNeverLeave,         *)
(* ReclassifiedByNewestRule and ClaimsAreFlagged for any replies, finite   *)
(* tables of learning rules, texts of the model and configuration.  Three  *)
(* facts carry the first: no step of D or E touches the fields of the      *)
(* decision that the plan is made from, the four actions are reached in    *)
(* their order, each once, and the category shown is the one C gave unless *)
(* a rule or the catch of D changed it.  The second needs that nothing is  *)
(* requested at the host after G5 has looked; the fourth that the rules D  *)
(* applies have a newest one, which they have because they are finite.     *)
(***************************************************************************)
EXTENDS DecisionEngine, FiniteSetTheorems, WellFoundedInduction, TLAPS

Early == {"idle", "lookup", "draft", "model", "plan"}
Late == {"verify", "validate", "approval", "sent"}

\* The actions whose nodes have not run yet.
Ahead ==
    IF pc \in Early \cup {"lead", "SOURCE_CAMPAIGN_STOP"} THEN Actions
    ELSE IF pc = "UPDATE_INTEREST_STATUS"
    THEN Actions \ {"SOURCE_CAMPAIGN_STOP"}
    ELSE IF pc = "SUBSEQUENCE_REMOVAL"
    THEN {"SUBSEQUENCE_REMOVAL", "EXACT_EMAIL_BLOCKLIST"}
    ELSE IF pc = "EXACT_EMAIL_BLOCKLIST" THEN {"EXACT_EMAIL_BLOCKLIST"}
    ELSE {}

\* Does the baseline call for the action, and is it enabled?
Due(a) == a \in EnabledActions /\ Planned(a, Decide(reply))

PcOK == pc \in Early \cup {"lead"} \cup Actions \cup Late

DecisionFields ==
    {"category", "stop", "dnc", "intent", "permitted", "review", "valid"}

\* The plan comes from these two fields, which stay as C made them.
BaselineKept ==
    /\ DOMAIN decision = DecisionFields
    /\ pc # "idle" =>
         /\ decision.stop = Decide(reply).stop
         /\ decision.intent = Decide(reply).intent

ActionsTracked ==
    /\ actions \in [Actions -> Outcomes \cup {"none", "disabled"}]
    /\ calls \in [Actions -> Nat]
    /\ \A a \in Ahead :
         /\ calls[a] = 0
         /\ pc \notin Early => (actions[a] = "planned" <=> Due(a))
    /\ \A a \in Actions \ Ahead : calls[a] = IF Due(a) THEN 1 ELSE 0

VerdictHolds ==
    /\ verified = "VERIFIED" => blocked = 1
    /\ pc \notin Late \ {"verify"} => verified = "NOT_APPLICABLE"

IInv == PcOK /\ BaselineKept /\ ActionsTracked /\ VerdictHolds

-----------------------------------------------------------------------------
LEMMA InitIInv == Init => IInv
<1> SUFFICES ASSUME Init PROVE IInv  OBVIOUS
<1>1. pc = "idle" /\ pc \in Early  BY DEF Init, Early
<1>2. PcOK  BY <1>1 DEF PcOK
<1>3. BaselineKept
  BY <1>1 DEF Init, BaselineKept, NoDecision, DecisionFields
<1>4. ActionsTracked
  <2>1. Ahead = Actions  BY <1>1 DEF Ahead
  <2> QED  BY <1>1, <2>1 DEF Init, ActionsTracked
<1>5. VerdictHolds  BY DEF Init, VerdictHolds
<1> QED  BY <1>2, <1>3, <1>4, <1>5 DEF IInv

(***************************************************************************)
(* The steps before the plan.                                              *)
(***************************************************************************)
LEMMA ArrivePreserves ==
  ASSUME IInv, NEW r \in Replies, Arrive(r) PROVE IInv'
<1> USE DEF Arrive, IInv, safety
<1>1. PcOK'  BY DEF PcOK, Early
<1>2. BaselineKept'  BY DEF BaselineKept, Decide, DecisionFields
<1>3. ActionsTracked'  BY DEF ActionsTracked, Ahead, Early
<1>4. VerdictHolds'  BY DEF VerdictHolds, Late
<1> QED  BY <1>1, <1>2, <1>3, <1>4

\* Steps that go from before the plan to before the plan, and keep the two
\* fields, the reply and all that belongs to the actions.
LEMMA EarlyStepPreserves ==
  ASSUME IInv, pc \in Early \ {"idle"}, pc' \in Early \ {"idle"},
         UNCHANGED << reply, safety >>,
         DOMAIN decision' = DOMAIN decision,
         decision'.stop = decision.stop, decision'.intent = decision.intent
  PROVE  IInv'
<1> USE DEF IInv, safety
<1>1. PcOK'  BY DEF PcOK
<1>2. BaselineKept'  BY DEF BaselineKept, Decide
<1>3. ActionsTracked'  BY DEF ActionsTracked, Ahead, Early
<1>4. VerdictHolds'  BY DEF VerdictHolds, Early, Late
<1> QED  BY <1>1, <1>2, <1>3, <1>4

LEMMA RelearnedKeepsPlan ==
  ASSUME NEW d, DOMAIN d = DecisionFields, NEW c, NEW policy
  PROVE  /\ DOMAIN Relearned(d, c, policy) = DecisionFields
         /\ Relearned(d, c, policy).stop = d.stop
         /\ Relearned(d, c, policy).intent = d.intent
  BY DEF Relearned, DecisionFields

LEMMA DraftPreserves == ASSUME IInv, Draft PROVE IInv'
<1>1. pc = "draft" /\ pc' \in {"model", "plan"}  BY DEF Draft
<1>2. UNCHANGED << reply, safety >>  BY DEF Draft
<1>3. DOMAIN decision = DecisionFields  BY DEF IInv, BaselineKept
<1>4. /\ DOMAIN decision' = DOMAIN decision
      /\ decision'.stop = decision.stop
      /\ decision'.intent = decision.intent
  <2>1. CASE Broken(seen)
    <3>1. decision' = [ decision EXCEPT
                         !.category = Named(reply.class).category,
                         !.review = TRUE ]
      BY <2>1 DEF Draft
    <3> HIDE DEF Named
    <3> QED  BY <3>1, <1>3 DEF DecisionFields
  <2>2. CASE ~Broken(seen)
    <3>1. \/ decision' = decision
          \/ \E c, policy : decision' = Relearned(decision, c, policy)
      BY <2>2 DEF Draft
    <3> QED  BY <3>1, <1>3, RelearnedKeepsPlan
  <2> QED  BY <2>1, <2>2
<1> QED  BY <1>1, <1>2, <1>4, EarlyStepPreserves DEF Early

LEMMA LookupAndModelPreserve ==
  ASSUME IInv,
         \/ LookupRules
         \/ ModelFailsOrTimesOut
         \/ \E t \in AITexts : ModelAnswers(t)
  PROVE  IInv'
<1>1. /\ pc \in Early \ {"idle"} /\ pc' \in Early \ {"idle"}
      /\ UNCHANGED << reply, decision, safety >>
  BY DEF LookupRules, ModelFailsOrTimesOut, ModelAnswers, Early
<1> QED  BY <1>1, EarlyStepPreserves

(***************************************************************************)
(* The plan and the actions.                                               *)
(***************************************************************************)
LEMMA PlanPreserves == ASSUME IInv, Plan PROVE IInv'
<1> USE DEF IInv, Plan, execution
<1>1. PcOK'  BY DEF PcOK
<1>2. BaselineKept'  BY DEF BaselineKept, Decide
<1>3. ActionsTracked'
  <2>1. Ahead' = Actions /\ Ahead = Actions  BY DEF Ahead, Early
  <2>2. actions' \in [Actions -> Outcomes \cup {"none", "disabled"}]
    BY DEF Outcomes
  <2>3. ASSUME NEW a \in Actions PROVE (actions'[a] = "planned") <=> Due(a)'
    <3>1. Planned(a, decision) <=> Planned(a, Decide(reply))
      BY DEF Planned, BaselineKept
    <3>2. Due(a)' <=> Due(a)  BY DEF Due, Planned, Decide
    <3> QED  BY <3>1, <3>2 DEF Due
  <2> QED  BY <2>1, <2>2, <2>3 DEF ActionsTracked
<1>4. VerdictHolds'  BY DEF VerdictHolds, Late
<1> QED  BY <1>1, <1>2, <1>3, <1>4

\* What the plan was made from does not change any more.
LEMMA DueIsFixed ==
  ASSUME UNCHANGED reply, NEW a PROVE Due(a)' <=> Due(a)
  BY DEF Due, Planned, Decide

LEMMA RetrieveLeadPreserves == ASSUME IInv, RetrieveLead PROVE IInv'
<1> USE DEF IInv, RetrieveLead, execution
<1>0. pc' = "SOURCE_CAMPAIGN_STOP"  BY DEF ActionOrder
<1>1. PcOK'  BY <1>0 DEF PcOK, Actions
<1>2. BaselineKept'  BY <1>0 DEF BaselineKept, Decide
<1>3. ActionsTracked'
  <2>1. Ahead' = Actions /\ Ahead = Actions  BY <1>0 DEF Ahead
  <2> QED  BY <2>1, <1>0, DueIsFixed DEF ActionsTracked, Early
<1>4. VerdictHolds'  BY <1>0 DEF VerdictHolds, Late
<1> QED  BY <1>1, <1>2, <1>3, <1>4

\* The node of an action takes exactly that action off those ahead.
LEMMA ActionIsPassed ==
  ASSUME NEW a \in Actions, pc = a, pc' = NextNode(a)
  PROVE  /\ a \in Ahead /\ Ahead' = Ahead \ {a} /\ Ahead \subseteq Actions
         /\ pc' \in Actions \cup {"verify"}
<1>1. CASE a = "SOURCE_CAMPAIGN_STOP"
  BY <1>1 DEF Ahead, NextNode, Actions, Early
<1>2. CASE a = "UPDATE_INTEREST_STATUS"
  BY <1>2 DEF Ahead, NextNode, Actions, Early
<1>3. CASE a = "SUBSEQUENCE_REMOVAL"
  BY <1>3 DEF Ahead, NextNode, Actions, Early
<1>4. CASE a = "EXACT_EMAIL_BLOCKLIST"
  BY <1>4 DEF Ahead, NextNode, Actions, Early
<1> QED  BY <1>1, <1>2, <1>3, <1>4 DEF Actions

LEMMA ActPreserves == ASSUME IInv, NEW a \in Actions, Act(a) PROVE IInv'
<1>1. pc = a /\ pc' = NextNode(a) /\ UNCHANGED execution
  BY DEF Act, SkipAction, RequestAction
<1>2. /\ a \in Ahead /\ Ahead' = Ahead \ {a} /\ Ahead \subseteq Actions
      /\ pc' \in Actions \cup {"verify"}
  BY <1>1, ActionIsPassed
<1>3. pc \notin Early /\ pc' \notin Early
  BY <1>1, <1>2 DEF Actions, Early
<1>4. UNCHANGED reply /\ UNCHANGED decision  BY <1>1 DEF execution
<1>5. PcOK'  BY <1>2 DEF PcOK, Late
<1>6. BaselineKept'
  BY <1>3, <1>4 DEF IInv, BaselineKept, Early, Decide
<1>7. ActionsTracked'
  <2>1. CASE SkipAction(a)
    <3>1. UNCHANGED << actions, calls >> /\ actions[a] # "planned"
      BY <2>1 DEF SkipAction, safety
    <3>2. ~Due(a) /\ calls[a] = 0
      BY <1>2, <1>3, <3>1 DEF IInv, ActionsTracked
    <3> QED
      BY <1>2, <1>3, <1>4, <3>1, <3>2, DueIsFixed DEF IInv, ActionsTracked
  <2>2. ASSUME NEW outcome \in Outcomes, NEW carried_out \in BOOLEAN,
               RequestAction(a, outcome, carried_out)
        PROVE  ActionsTracked'
    <3>1. /\ calls' = [calls EXCEPT ![a] = @ + 1]
          /\ actions' = [actions EXCEPT ![a] = outcome]
          /\ actions[a] = "planned"
      BY <2>2 DEF RequestAction
    <3>2. Due(a) /\ calls[a] = 0
      BY <1>2, <1>3, <3>1 DEF IInv, ActionsTracked
    <3>3. /\ actions' \in [Actions -> Outcomes \cup {"none", "disabled"}]
          /\ calls' \in [Actions -> Nat]
      BY <3>1 DEF IInv, ActionsTracked
    <3>4. ASSUME NEW b \in Ahead'
          PROVE  /\ calls'[b] = 0
                 /\ actions'[b] = "planned" <=> Due(b)'
      BY <1>2, <1>3, <1>4, <3>1, <3>4, DueIsFixed DEF IInv, ActionsTracked
    <3>5. ASSUME NEW b \in Actions \ Ahead'
          PROVE  calls'[b] = IF Due(b)' THEN 1 ELSE 0
      BY <1>2, <1>4, <3>1, <3>2, <3>5, DueIsFixed DEF IInv, ActionsTracked
    <3> QED  BY <3>3, <3>4, <3>5 DEF ActionsTracked
  <2> QED  BY <2>1, <2>2 DEF Act
<1>8. VerdictHolds'
  <2>1. pc \notin Late \ {"verify"} /\ pc' \notin Late \ {"verify"}
    BY <1>1, <1>2 DEF Late, Actions
  <2>2. verified' = verified
    BY DEF Act, SkipAction, RequestAction, safety
  <2> QED  BY <2>1, <2>2 DEF IInv, VerdictHolds
<1> QED  BY <1>5, <1>6, <1>7, <1>8 DEF IInv

(***************************************************************************)
(* After the actions.                                                      *)
(***************************************************************************)
\* Steps that stay behind the actions, with the fields of the decision kept.
LEMMA LateStepPreserves ==
  ASSUME IInv, pc \in Late, pc' \in Late \ {"verify"},
         UNCHANGED << reply, actions, calls >>,
         DOMAIN decision' = DOMAIN decision,
         decision'.stop = decision.stop, decision'.intent = decision.intent,
         (verified = "VERIFIED" => blocked = 1)'
  PROVE  IInv'
<1> USE DEF IInv
<1>1. PcOK'  BY DEF PcOK
<1>2. BaselineKept'  BY DEF BaselineKept, Late, Decide
<1>3. ActionsTracked'
  <2>1. Ahead = {} /\ Ahead' = {}  BY DEF Ahead, Early, Late
  <2> QED  BY <2>1, DueIsFixed DEF ActionsTracked
<1>4. VerdictHolds'  BY DEF VerdictHolds
<1> QED  BY <1>1, <1>2, <1>3, <1>4

LEMMA VerifyPreserves == ASSUME IInv, VerifyBlocklist PROVE IInv'
<1>1. pc \in Late /\ pc' \in Late \ {"verify"}
  BY DEF VerifyBlocklist, Late
<1>2. UNCHANGED << reply, decision, actions, calls, blocked >>
  BY DEF VerifyBlocklist, execution
<1>3. verified' = "VERIFIED" => blocked = 1
  BY DEF VerifyBlocklist, Matches
<1> QED  BY <1>1, <1>2, <1>3, LateStepPreserves

LEMMA ValidatePreserves == ASSUME IInv, Validate PROVE IInv'
<1>1. pc \in Late /\ pc' \in Late \ {"verify"}  BY DEF Validate, Late
<1>2. UNCHANGED << reply, actions, calls, verified, blocked >>
  BY DEF Validate, safety
<1>3. DOMAIN decision = DecisionFields  BY DEF IInv, BaselineKept
<1>4. /\ DOMAIN decision' = DOMAIN decision
      /\ decision'.stop = decision.stop
      /\ decision'.intent = decision.intent
  BY <1>3 DEF Validate, DecisionFields
<1> QED  BY <1>1, <1>2, <1>4, LateStepPreserves DEF IInv, VerdictHolds

LEMMA ApproveAndSendPreserves == ASSUME IInv, ApproveAndSend PROVE IInv'
<1>1. pc \in Late /\ pc' \in Late \ {"verify"}  BY DEF ApproveAndSend, Late
<1>2. UNCHANGED << reply, decision, actions, calls, verified, blocked >>
  BY DEF ApproveAndSend, execution, safety
<1> QED  BY <1>1, <1>2, LateStepPreserves DEF IInv, VerdictHolds

-----------------------------------------------------------------------------
LEMMA StutterPreserves == ASSUME IInv, UNCHANGED vars PROVE IInv'
<1> USE DEF IInv, vars, execution, safety
<1>1. PcOK'  BY DEF PcOK
<1>2. BaselineKept'  BY DEF BaselineKept, Decide
<1>3. ActionsTracked'
  <2>1. Ahead' = Ahead  BY DEF Ahead
  <2> QED  BY <2>1, DueIsFixed DEF ActionsTracked
<1>4. VerdictHolds'  BY DEF VerdictHolds
<1> QED  BY <1>1, <1>2, <1>3, <1>4

LEMMA NextPreserves == IInv /\ [Next]_vars => IInv'
<1> SUFFICES ASSUME IInv, [Next]_vars PROVE IInv'  OBVIOUS
<1>1. ASSUME NEW r \in Replies, Arrive(r) PROVE IInv'
  BY <1>1, ArrivePreserves
<1>2. CASE Draft  BY <1>2, DraftPreserves
<1>3. CASE LookupRules \/ ModelFailsOrTimesOut
           \/ \E t \in AITexts : ModelAnswers(t)
  BY <1>3, LookupAndModelPreserve
<1>4. CASE Plan  BY <1>4, PlanPreserves
<1>5. CASE RetrieveLead  BY <1>5, RetrieveLeadPreserves
<1>6. ASSUME NEW a \in Actions, Act(a) PROVE IInv'  BY <1>6, ActPreserves
<1>7. CASE VerifyBlocklist  BY <1>7, VerifyPreserves
<1>8. CASE Validate  BY <1>8, ValidatePreserves
<1>9. CASE ApproveAndSend  BY <1>9, ApproveAndSendPreserves
<1>10. CASE UNCHANGED vars  BY <1>10, StutterPreserves
<1> QED
  BY <1>1, <1>2, <1>3, <1>4, <1>5, <1>6, <1>7, <1>8, <1>9, <1>10
     DEF Next, Engine

THEOREM Inductive == Spec => []IInv
  BY InitIInv, NextPreserves, PTL DEF Spec

(***************************************************************************)
(* blocklist_verification = VERIFIED (G5) is true of the host for good, as *)
(* far as this execution goes: no later node asks for another entry.       *)
(***************************************************************************)
THEOREM VerdictIsTrue == Spec => []VerifiedMeansBlocked
<1>1. IInv => VerifiedMeansBlocked
  BY DEF IInv, VerdictHolds, VerifiedMeansBlocked
<1> QED  BY <1>1, Inductive, PTL

(***************************************************************************)
(* Whatever the texts of the model and of the rules bring, the draft that  *)
(* a reviewer sees and the Sender sends has no unresolved token: every     *)
(* path of D ends in the check, or in a text that has none to begin with.  *)
(***************************************************************************)
LEMMA FallbackHasNoToken ==
  ASSUME NEW micro PROVE ~Unresolved(FallbackText(micro))
<1>1. ~Unresolved(Template(TemplateOf(micro)))
  BY DEF Template, Unresolved, NoText
<1> QED  BY <1>1 DEF FallbackText, Fallback, Unresolved, NoText

LEMMA FinishedHasNoToken ==
  ASSUME NEW text, NEW source, NEW micro, NEW matched
  PROVE  ~Unresolved(Finished(text, source, micro, matched).text)
  BY FallbackHasNoToken DEF Finished

LEMMA DraftsHaveNoToken ==
  ASSUME NEW policy, NEW text, NEW r, NEW micro, NEW matched, NEW has_text
  PROVE  /\ ~Unresolved(FixedDraft(policy, r, micro, matched).text)
         /\ ~Unresolved(FallbackDraft(micro, matched).text)
         /\ ~Unresolved(AIDraft(text, r, micro, matched).text)
         /\ ~Unresolved(ExceptionDraft(micro, has_text).text)
<1>1. ~Unresolved(FallbackDraft(micro, matched).text)
  BY FinishedHasNoToken DEF FallbackDraft
<1>2. ~Unresolved(FixedDraft(policy, r, micro, matched).text)
  BY FinishedHasNoToken DEF FixedDraft
<1>3. ~Unresolved(AIDraft(text, r, micro, matched).text)
  BY FinishedHasNoToken, <1>1 DEF AIDraft
<1>4. ~Unresolved(ExceptionDraft(micro, has_text).text)
  BY DEF ExceptionDraft, Fallback, Unresolved, NoText
<1> QED  BY <1>1, <1>2, <1>3, <1>4

THEOREM NoTokenLeaves == Spec => []TokensNeverLeave
<1> DEFINE NoToken == ~Unresolved(draft.text)
<1>1. Init => NoToken  BY DEF Init, NoDraft, NoText, Unresolved
<1>2. NoToken /\ [Next]_vars => NoToken'
  <2> SUFFICES ASSUME NoToken, [Next]_vars PROVE NoToken'  OBVIOUS
  <2>1. CASE Draft
    <3>1. \/ draft' = draft
          \/ \E m, h : draft' = ExceptionDraft(m, h)
          \/ \E p, m, rs : draft' = FixedDraft(p, reply, m, rs)
          \/ \E m, rs : draft' = FallbackDraft(m, rs)
      BY <2>1 DEF Draft
    <3> QED  BY <3>1, DraftsHaveNoToken
  <2>2. CASE ModelFailsOrTimesOut
    BY <2>2, DraftsHaveNoToken DEF ModelFailsOrTimesOut
  <2>3. ASSUME NEW t \in AITexts, ModelAnswers(t) PROVE NoToken'
    BY <2>3, DraftsHaveNoToken DEF ModelAnswers
  <2>4. ASSUME UNCHANGED draft PROVE NoToken'  BY <2>4
  <2>5. \/ Draft \/ ModelFailsOrTimesOut \/ \E t \in AITexts : ModelAnswers(t)
        \/ UNCHANGED draft
    BY DEF Next, Engine, Arrive, LookupRules, Plan, RetrieveLead, Act,
           SkipAction, RequestAction, VerifyBlocklist, Validate,
           ApproveAndSend, vars, execution
  <2> QED  BY <2>1, <2>2, <2>3, <2>4, <2>5
<1>3. NoToken => TokensNeverLeave  BY DEF TokensNeverLeave
<1> HIDE DEF NoToken
<1> QED  BY <1>1, <1>2, <1>3, PTL DEF Spec

-----------------------------------------------------------------------------
(***************************************************************************)
(* The rules of a table: finite sets have a first element in any order     *)
(* that is total, so that First and Matched are what their names say.      *)
(***************************************************************************)
LEMMA LeastExists ==
  ASSUME NEW T \in SUBSET Nat, T # {} PROVE \E m \in T : \A x \in T : m <= x
<1> DEFINE Below == {p \in Nat \X Nat : p[1] < p[2]}
<1>1. IsWellFoundedOn(Below, Nat)
  BY NatLessThanWellFounded DEF OpToRel
<1>2. PICK m \in T : \A y \in T : <<y, m>> \notin Below
  <2> HIDE DEF Below
  <2> QED  BY <1>1, WFMin
<1>3. ASSUME NEW x \in T PROVE m <= x
  <2>1. <<x, m>> \notin Below  BY <1>2
  <2>2. x \in Nat /\ m \in Nat  OBVIOUS
  <2> QED  BY <2>1, <2>2
<1> QED  BY <1>3

\* By the least number of elements that a counterexample could have.
LEMMA FirstExists ==
  ASSUME NEW U, NEW R,
         \A x, y \in U : <<x, y>> \in R \/ <<y, x>> \in R,
         \A x, y, z \in U : <<x, y>> \in R /\ <<y, z>> \in R => <<x, z>> \in R,
         NEW S \in SUBSET U, IsFiniteSet(S), S # {}
  PROVE  \E x \in S : \A y \in S : <<x, y>> \in R
<1> DEFINE Lacks(A) == \A x \in A : \E y \in A : <<x, y>> \notin R
           Bad == { n \in Nat : \E A \in SUBSET U :
                      IsFiniteSet(A) /\ A # {} /\ Cardinality(A) = n /\ Lacks(A) }
<1> SUFFICES ASSUME Lacks(S) PROVE FALSE  OBVIOUS
<1>1. Cardinality(S) \in Bad  BY FS_CardinalityType
<1>2. PICK n \in Bad : \A k \in Bad : n <= k
  <2> HIDE DEF Bad
  <2>1. Bad \in SUBSET Nat  BY DEF Bad
  <2> QED  BY <1>1, <2>1, LeastExists
<1>3. PICK A \in SUBSET U :
         IsFiniteSet(A) /\ A # {} /\ Cardinality(A) = n /\ Lacks(A)
  OBVIOUS
<1>4. PICK a \in A : TRUE  BY <1>3
<1>5. /\ IsFiniteSet(A \ {a}) /\ Cardinality(A \ {a}) = n - 1
      /\ n - 1 \in Nat
  <2>1. IsFiniteSet(A \ {a}) /\ Cardinality(A \ {a}) = n - 1
    BY <1>3, <1>4, FS_RemoveElement
  <2> QED  BY <2>1, FS_CardinalityType
<1>6. A # {a}  BY <1>3, <1>4
<1>7. n - 1 \notin Bad  BY <1>2, <1>5
<1>8. ~ Lacks(A \ {a})
  <2>1. A \ {a} \in SUBSET U /\ A \ {a} # {}  BY <1>4, <1>6
  <2> QED  BY <1>5, <1>7, <2>1
<1>9. PICK x \in A \ {a} : \A y \in A \ {a} : <<x, y>> \in R  BY <1>8
<1>10. x \in U /\ a \in U /\ A \subseteq U  BY <1>4, <1>9
<1>11. CASE <<x, a>> \in R  BY <1>3, <1>9, <1>11
<1>12. CASE <<a, x>> \in R
  <2>1. ASSUME NEW y \in A PROVE <<a, y>> \in R  
    <3>1. CASE y = a  BY <1>10, <3>1
    <3>2. CASE y # a  BY <1>9, <1>10, <1>12, <3>2
    <3> QED  BY <3>1, <3>2
  <2> QED  BY <1>3, <1>4, <2>1
<1> QED  BY <1>10, <1>11, <1>12
Candidates == Rows \cup {OwnerPolicy}

LEMMA RowNumbers == \A r \in Candidates : r.id \in Nat /\ r.time \in Nat
  BY RowsAssumption DEF Candidates, RowType, OwnerPolicy

LEMMA FirstIsFirst ==
  ASSUME NEW S \in SUBSET Candidates, IsFiniteSet(S), S # {}
  PROVE  First(S) \in S /\ \A s \in S : Precedes(First(S), s)
<1> DEFINE R == {p \in Candidates \X Candidates : Precedes(p[1], p[2])}
<1>1. \A x, y \in Candidates : <<x, y>> \in R <=> Precedes(x, y)  OBVIOUS
<1> HIDE DEF R
<1>2. /\ \A x, y \in Candidates : <<x, y>> \in R \/ <<y, x>> \in R
      /\ \A x, y, z \in Candidates :
             <<x, y>> \in R /\ <<y, z>> \in R => <<x, z>> \in R
  BY <1>1, RowNumbers DEF Precedes
<1>3. \E x \in S : \A y \in S : <<x, y>> \in R
  BY <1>2, FirstExists
<1>4. \E x \in S : \A y \in S : Precedes(x, y)  BY <1>1, <1>3
<1> QED  BY <1>4 DEF First

LEMMA NewestExists ==
  ASSUME NEW S \in SUBSET Candidates, IsFiniteSet(S), S # {}
  PROVE  \E x \in S : \A y \in S : ~ Supersedes(y, x)
<1> DEFINE R == {p \in Candidates \X Candidates : ~ Supersedes(p[2], p[1])}
<1>1. \A x, y \in Candidates : <<x, y>> \in R <=> ~ Supersedes(y, x)  OBVIOUS
<1> HIDE DEF R
<1>2. /\ \A x, y \in Candidates : <<x, y>> \in R \/ <<y, x>> \in R
      /\ \A x, y, z \in Candidates :
             <<x, y>> \in R /\ <<y, z>> \in R => <<x, z>> \in R
  BY <1>1, RowNumbers DEF Supersedes
<1>3. \E x \in S : \A y \in S : <<x, y>> \in R
  BY <1>2, FirstExists
<1> QED  BY <1>1, <1>3

\* What D finds for a reply in a table.
LEMMA SelectedRuleIsNewest ==
  ASSUME NEW rows \in SUBSET Rows, IsFiniteSet(rows), NEW rp,
         NEW chosen, chosen = SelectedRule(rp, rows), chosen # {}
  PROVE  \E r \in Relearnable(rp, rows) :
            /\ chosen = {r}
            /\ \A s \in Relearnable(rp, rows) : s.time <= r.time
<1> DEFINE all == Relearnable(rp, rows)
           newest == { r \in all : \A s \in all :
                                     r.scope = s.scope => ~ Supersedes(s, r) }
<1>1. all \subseteq rows  BY DEF Relearnable, ClassificationRules
<1>2. newest \subseteq all  OBVIOUS
<1>3. chosen = {First(newest)} /\ newest # {}
  BY DEF SelectedRule
<1>4. /\ newest \in SUBSET Candidates /\ IsFiniteSet(newest)
      /\ all \in SUBSET Candidates /\ IsFiniteSet(all)
  <2> HIDE DEF all, newest
  <2> QED  BY <1>1, <1>2, FS_Subset DEF Candidates
<1>5. PICK m \in all : \A s \in all : ~ Supersedes(s, m)
  <2> HIDE DEF all, newest
  <2>1. all # {}  BY <1>2, <1>3
  <2> QED  BY <1>4, <2>1, NewestExists
<1>6. m \in newest  BY <1>5
<1> HIDE DEF all, newest
<1>7. First(newest) \in newest /\ Precedes(First(newest), m)
  BY <1>3, <1>4, <1>6, FirstIsFirst
<1>8. ASSUME NEW s \in all PROVE s.time <= First(newest).time
  <2>1. s.time <= m.time
    BY <1>4, <1>5, <1>8, RowNumbers DEF Supersedes
  <2>2. m.time <= First(newest).time
    BY <1>4, <1>5, <1>7, RowNumbers DEF Precedes
  <2> QED
    BY <1>2, <1>4, <1>5, <1>7, <1>8, <2>1, <2>2, RowNumbers
<1> QED  BY <1>2, <1>3, <1>7, <1>8 DEF all

LEMMA MatchedRows ==
  ASSUME NEW rows \in SUBSET Rows, IsFiniteSet(rows), NEW c
  PROVE  /\ Matched(rows, c) \in SUBSET Candidates
         /\ IsFiniteSet(Matched(rows, c))
         /\ Matched(rows, c) \subseteq rows \cup {OwnerPolicy}
         /\ FormCreated(Matched(rows, c)) \subseteq rows
<1>1. Matched(rows, c) \subseteq rows \cup {OwnerPolicy}
  BY DEF Matched, Policies, FormPolicies
<1>2. IsFiniteSet(rows \cup {OwnerPolicy})  BY FS_AddElement
<1>3. FormCreated(Matched(rows, c)) \subseteq rows
  BY <1>1 DEF FormCreated, OwnerPolicy
<1> QED  BY <1>1, <1>2, <1>3, FS_Subset DEF Candidates

(***************************************************************************)
(* The reclassification is made once, in D, by the newest rule.            *)
(***************************************************************************)
SeenOK == seen \in SUBSET Rows /\ IsFiniteSet(seen)

Unmoved == class = reply.class /\ rules = {}

UnmovedOrNamed == class \in {reply.class, Named(reply.class)} /\ rules = {}

MovedByNewest ==
    \E r \in ClassificationRules(seen) :
        /\ rules = {r.id} /\ r.from = reply.class /\ r.to = class
        /\ reply.class.category \notin Protected
        /\ \A s \in ClassificationRules(seen) :
               s.from = reply.class /\ s.time > r.time =>
                   PromotesBooking(s) /\ ~ reply.asks_booking

BeforeDraft == {"idle", "lookup", "draft"}

ClassInv ==
    /\ SeenOK
    /\ pc = "idle" => rules = {}
    /\ pc \in BeforeDraft \ {"idle"} => Unmoved
    /\ pc \notin BeforeDraft => UnmovedOrNamed \/ MovedByNewest

LEMMA DraftMovesByNewest == ASSUME ClassInv, Draft PROVE ClassInv'
<1>1. UNCHANGED << reply, seen >> /\ pc = "draft" /\ pc' \in {"model", "plan"}
  BY DEF Draft
<1>2. SeenOK' /\ Unmoved  BY <1>1 DEF ClassInv, SeenOK, BeforeDraft
<1>3. CASE Broken(seen)
  <2>1. UnmovedOrNamed'
    BY <1>1, <1>2, <1>3 DEF Draft, Unmoved, UnmovedOrNamed, Named
  <2> QED  BY <1>1, <1>2, <2>1 DEF ClassInv, BeforeDraft
<1>4. CASE ~ Broken(seen)
  <2> DEFINE chosen == SelectedRule(reply, seen)
  <2>1. /\ class' = IF chosen # {} THEN (CHOOSE r \in chosen : TRUE).to
                    ELSE reply.class
        /\ rules' = {r.id : r \in chosen}
    BY <1>4 DEF Draft
  <2> HIDE DEF chosen
  <2>2. CASE chosen = {}
    <3>1. UnmovedOrNamed'  BY <1>1, <2>1, <2>2 DEF UnmovedOrNamed
    <3> QED  BY <1>1, <1>2, <3>1 DEF ClassInv, BeforeDraft
  <2>3. CASE chosen # {}
    <3>1. PICK r \in Relearnable(reply, seen) :
             /\ chosen = {r}
             /\ \A s \in Relearnable(reply, seen) : s.time <= r.time
      BY <2>3, SelectedRuleIsNewest DEF chosen, ClassInv, SeenOK
    <3>2. class' = r.to /\ rules' = {r.id}  BY <2>1, <2>3, <3>1
    <3>3. /\ r \in ClassificationRules(seen) /\ r.from = reply.class
          /\ reply.class.category \notin Protected
      BY <3>1 DEF Relearnable
    <3>4. ASSUME NEW s \in ClassificationRules(seen), s.from = reply.class,
                 s.time > r.time
          PROVE  PromotesBooking(s) /\ ~ reply.asks_booking
      <4>1. s \in Candidates /\ r \in Candidates
        BY <3>3 DEF ClassInv, SeenOK, ClassificationRules, Candidates
      <4>2. s \notin Relearnable(reply, seen)
        BY <3>1, <3>4, <4>1, RowNumbers
      <4> QED  BY <3>3, <3>4, <4>2 DEF Relearnable
    <3>5. MovedByNewest'
      BY <1>1, <3>2, <3>3, <3>4 DEF MovedByNewest
    <3> QED  BY <1>1, <1>2, <3>5 DEF ClassInv, BeforeDraft
  <2> QED  BY <2>2, <2>3
<1> QED  BY <1>3, <1>4

LEMMA NextKeepsClass == ClassInv /\ PcOK /\ [Next]_vars => ClassInv'
<1> SUFFICES ASSUME ClassInv, PcOK, [Next]_vars PROVE ClassInv'  OBVIOUS
<1>1. CASE Draft  BY <1>1, DraftMovesByNewest
<1>2. ASSUME NEW r \in Replies, Arrive(r) PROVE ClassInv'
  BY <1>2 DEF Arrive, ClassInv, SeenOK, Unmoved, BeforeDraft, PcOK
<1>3. CASE LookupRules
  <2>1. SeenOK'  BY <1>3, RowsAssumption DEF LookupRules, SeenOK
  <2> QED  BY <1>3, <2>1 DEF LookupRules, ClassInv, Unmoved, BeforeDraft
<1>4. ASSUME UNCHANGED << reply, seen, class, rules >>,
             \/ pc' = pc
             \/ pc \notin BeforeDraft /\ pc' \notin BeforeDraft
      PROVE  ClassInv'
  <2>1. SeenOK'  BY <1>4 DEF ClassInv, SeenOK
  <2>2. /\ Unmoved' <=> Unmoved
        /\ UnmovedOrNamed' <=> UnmovedOrNamed
        /\ MovedByNewest' <=> MovedByNewest
    BY <1>4 DEF Unmoved, UnmovedOrNamed, Named, MovedByNewest
  <2>3. CASE pc' = pc  BY <1>4, <2>1, <2>2, <2>3 DEF ClassInv
  <2>4. CASE pc \notin BeforeDraft /\ pc' \notin BeforeDraft
    BY <1>4, <2>1, <2>2, <2>4 DEF ClassInv, BeforeDraft
  <2> QED  BY <1>4, <2>3, <2>4
<1>5. CASE ModelFailsOrTimesOut \/ \E t \in AITexts : ModelAnswers(t)
  BY <1>4, <1>5 DEF ModelFailsOrTimesOut, ModelAnswers, BeforeDraft
<1>6. CASE Plan \/ RetrieveLead \/ VerifyBlocklist \/ Validate \/ ApproveAndSend
  BY <1>4, <1>6 DEF Plan, RetrieveLead, VerifyBlocklist, Validate,
                    ApproveAndSend, execution, ActionOrder, BeforeDraft
<1>7. ASSUME NEW a \in Actions, Act(a) PROVE ClassInv'
  <2>1. UNCHANGED << reply, seen, class, rules >> /\ pc = a /\ pc' = NextNode(a)
    BY <1>7 DEF Act, SkipAction, RequestAction, execution
  <2>2. a \notin BeforeDraft /\ NextNode(a) \notin BeforeDraft
    BY DEF Actions, NextNode, BeforeDraft
  <2> QED  BY <1>4, <2>1, <2>2
<1>8. CASE UNCHANGED vars
  <2>1. UNCHANGED << pc, reply, seen, class, rules >>
    BY <1>8 DEF vars, execution
  <2>2. pc' = pc  BY <2>1
  <2> QED  BY <1>4, <2>1, <2>2
<1> QED
  BY <1>1, <1>2, <1>3, <1>5, <1>6, <1>7, <1>8 DEF Next, Engine

LEMMA ClassInvHolds == Spec => [](IInv /\ ClassInv)
<1>1. Init => ClassInv
  BY FS_EmptySet DEF Init, ClassInv, SeenOK, BeforeDraft
<1>2. IInv /\ ClassInv /\ [Next]_vars => ClassInv'
  BY NextKeepsClass DEF IInv
<1> QED  BY <1>1, <1>2, InitIInv, NextPreserves, PTL DEF Spec

(***************************************************************************)
(* A reviewer's correction moves a reply once and never out of a protected *)
(* category, and of the rules that the reply admits the newest decides,    *)
(* whatever else the table holds and in whatever order its rows come.      *)
(***************************************************************************)
THEOREM NewestRuleDecides == Spec => []ReclassifiedByNewestRule
<1>1. ClassInv => ReclassifiedByNewestRule
  BY DEF ClassInv, BeforeDraft, UnmovedOrNamed, MovedByNewest,
         ReclassifiedByNewestRule, Decided
<1> QED  BY <1>1, ClassInvHolds, PTL

(***************************************************************************)
(* What the reviewer sees.  The category in the decision is C's, unless a  *)
(* rule is on record for it or the draft is the one of D's catch.          *)
(***************************************************************************)
CategoryKept ==
    /\ pc \in {"lookup", "draft"} => decision.category = Decide(reply).category
    /\ pc \notin {"idle", "lookup", "draft"} /\ rules = {} =>
         \/ decision.category = Decide(reply).category
         \/ pc # "model" /\ draft.source = "node_exception_fallback"

LEMMA DraftKeepsCategory ==
  ASSUME IInv, ClassInv, CategoryKept, Draft PROVE CategoryKept'
<1>1. UNCHANGED reply /\ pc = "draft" /\ pc' \in {"model", "plan"}
  BY DEF Draft
<1>2. Decide(reply)' = Decide(reply)  BY <1>1 DEF Decide
<1>3. CASE Broken(seen)
  <2>1. /\ draft' = ExceptionDraft(reply.class.micro, reply.text)
        /\ pc' = "plan"
    BY <1>3 DEF Draft
  <2>2. draft'.source = "node_exception_fallback"
    BY <2>1 DEF ExceptionDraft
  <2> QED  BY <2>1, <2>2 DEF CategoryKept
<1>4. CASE ~ Broken(seen)
  <2>1. rules' = {r.id : r \in SelectedRule(reply, seen)}
    BY <1>4 DEF Draft
  <2>2. ASSUME rules' = {} PROVE decision' = decision
    <3>1. SelectedRule(reply, seen) = {}  BY <2>1, <2>2
    <3> QED  BY <1>4, <3>1 DEF Draft
  <2> QED  BY <1>1, <1>2, <2>2 DEF CategoryKept
<1> QED  BY <1>3, <1>4

LEMMA NextKeepsCategory ==
  IInv /\ ClassInv /\ CategoryKept /\ [Next]_vars => CategoryKept'
<1> SUFFICES ASSUME IInv, ClassInv, CategoryKept, [Next]_vars
             PROVE CategoryKept'
  OBVIOUS
<1> DEFINE Opening == {"idle", "lookup", "draft", "model"}
<1>1. CASE Draft  BY <1>1, DraftKeepsCategory
<1>2. ASSUME NEW r \in Replies, Arrive(r) PROVE CategoryKept'
  BY <1>2 DEF Arrive, CategoryKept, Decide
<1>3. CASE LookupRules
  BY <1>3 DEF LookupRules, CategoryKept, Decide
<1>4. CASE ModelFailsOrTimesOut \/ \E t \in AITexts : ModelAnswers(t)
  BY <1>4 DEF ModelFailsOrTimesOut, ModelAnswers, CategoryKept, Decide
<1>5. ASSUME UNCHANGED << reply, rules, draft >>,
             decision'.category = decision.category,
             pc \notin Opening, pc' \notin Opening
      PROVE  CategoryKept'
  BY <1>5 DEF CategoryKept, Decide
<1>6. CASE Plan \/ RetrieveLead \/ VerifyBlocklist \/ ApproveAndSend
  BY <1>5, <1>6 DEF Plan, RetrieveLead, VerifyBlocklist, ApproveAndSend,
                    execution, ActionOrder
<1>7. ASSUME NEW a \in Actions, Act(a) PROVE CategoryKept'
  <2>1. UNCHANGED execution /\ pc = a /\ pc' = NextNode(a)
    BY <1>7 DEF Act, SkipAction, RequestAction
  <2>2. a \notin Opening /\ NextNode(a) \notin Opening
    BY DEF Actions, NextNode
  <2> QED  BY <1>5, <2>1, <2>2 DEF execution
<1>8. CASE Validate
  <2>1. UNCHANGED << reply, rules, draft >> /\ pc = "validate" /\ pc' = "approval"
    BY <1>8 DEF Validate
  <2>2. decision'.category = decision.category
    BY <1>8 DEF Validate, IInv, BaselineKept, DecisionFields
  <2> QED  BY <1>5, <2>1, <2>2
<1>9. CASE UNCHANGED vars
  <2>1. UNCHANGED << pc, reply, rules, draft, decision >>
    BY <1>9 DEF vars, execution
  <2> QED  BY <2>1 DEF CategoryKept, Decide
<1> QED
  BY <1>1, <1>2, <1>3, <1>4, <1>6, <1>7, <1>8, <1>9 DEF Next, Engine

\* C decides on every action for a category that is to be suppressed.
LEMMA SuppressedIsPlanned ==
  ASSUME NEW r, Decide(r).category \in Suppressed, NEW a
  PROVE  Planned(a, Decide(r))
<1>1. Decide(r).stop  BY DEF Decide, Suppressed
<1>2. Decide(r).intent \in DNCScopes  BY DEF Decide, Suppressed, DNCScopes
<1> QED  BY <1>1, <1>2 DEF Planned

(***************************************************************************)
(* A reviewer never sees a case whose due safety actions have not been     *)
(* requested, and no action is requested twice or without cause: F to G6   *)
(* come before the hand-off, and D cannot take an action off the plan.  A  *)
(* case shown as one to be suppressed has had them all, unless a rule or   *)
(* the catch of D made it one after the decision.                          *)
(***************************************************************************)
THEOREM ActionsFirst == Spec => []ActionsPrecedeApproval
<1>1. Init => CategoryKept  BY DEF Init, CategoryKept
<1>2. IInv /\ ClassInv /\ CategoryKept => ActionsPrecedeApproval
  <2> SUFFICES ASSUME IInv, CategoryKept, Decided PROVE ActionsPrecedeApproval
    BY DEF ActionsPrecedeApproval
  <2>1. ASSUME NEW a \in Actions
        PROVE  calls[a] = IF Due(a) THEN 1 ELSE 0
    <3>1. a \in Actions \ Ahead  BY DEF Decided, Ahead, Early
    <3> QED  BY <3>1 DEF IInv, ActionsTracked
  <2>2. ASSUME decision.category \in Suppressed, rules = {},
               draft.source # "node_exception_fallback",
               NEW a \in EnabledActions
        PROVE  calls[a] = 1
    <3>1. decision.category = Decide(reply).category
      BY <2>2 DEF CategoryKept, Decided
    <3>2. Due(a)  BY <2>2, <3>1, SuppressedIsPlanned DEF Due
    <3> QED  BY <2>1, <3>2, EnabledAssumption
  <2> QED  BY <2>1, <2>2 DEF ActionsPrecedeApproval, Due
<1> QED
  BY <1>1, <1>2, ClassInvHolds, NextKeepsCategory, PTL DEF Spec

(***************************************************************************)
(* Claims and boasts.  What the model writes is searched for them, the     *)
(* templates have none, and the commercial text at most a boast; so only   *)
(* the text of a row can bring one into any other draft.                   *)
(***************************************************************************)
Brought(mark, rows) == \E r \in rows : mark \in r.brings

\* What ClaimsAreFlagged says of where a draft has its marks from.
StemsFrom(d, rows) ==
    /\ "claim" \in d.text => Brought("claim", rows)
    /\ "boast" \in d.text =>
         d.source = "ai_commercial_supervised" \/ Brought("boast", rows)

LEMMA FallbackHasNoClaim ==
  ASSUME NEW micro
  PROVE  "claim" \notin FallbackText(micro) /\ "boast" \notin FallbackText(micro)
<1>1. /\ "claim" \notin Template(TemplateOf(micro))
      /\ "boast" \notin Template(TemplateOf(micro))
  BY DEF Template, NoText
<1> QED  BY <1>1 DEF FallbackText, Fallback, NoText

LEMMA FinishedMarks ==
  ASSUME NEW rows \in SUBSET Rows, IsFiniteSet(rows), NEW c,
         NEW mark \in {"claim", "boast"},
         NEW text, mark \notin text, NEW source, NEW micro,
         mark \in Finished(text, source, micro, Matched(rows, c)).text
  PROVE  Brought(mark, rows)
<1> DEFINE m == Matched(rows, c)
           started == ApplyExactStart(text, m)
           formed == ApplyFormInstruction(started, micro, m)
<1>0. mark \notin {"text", "learned"}  OBVIOUS
<1>1. mark \in Postprocessed(text, micro, m)
  BY FallbackHasNoClaim DEF Finished
<1>2. mark \in formed
  BY <1>0, <1>1 DEF Postprocessed, ApplyPricing, NoText
<1>3. CASE mark \in started
  <2>1. /\ Telling(m, "exact_start") # {}
        /\ mark \in First(Telling(m, "exact_start")).brings
    BY <1>0, <1>3 DEF ApplyExactStart
  <2>2. /\ Telling(m, "exact_start") \in SUBSET Candidates
        /\ IsFiniteSet(Telling(m, "exact_start"))
    BY MatchedRows, FS_Subset DEF Telling
  <2>3. First(Telling(m, "exact_start")) \in rows \cup {OwnerPolicy}
    BY <2>1, <2>2, FirstIsFirst, MatchedRows DEF Telling
  <2> QED  BY <2>1, <2>3 DEF Brought, OwnerPolicy
<1>4. CASE mark \notin started
  <2>1. \E p \in Telling(FormCreated(m), "booking_url") : mark \in p.brings
    BY <1>0, <1>2, <1>4 DEF ApplyFormInstruction
  <2> QED  BY <2>1, MatchedRows DEF Telling, Brought
<1> QED  BY <1>3, <1>4

\* The check for tokens only changes the source with the text.
LEMMA FinishedSource ==
  ASSUME NEW text, NEW source, NEW micro, NEW matched,
         "boast" \in Finished(text, source, micro, matched).text
  PROVE  Finished(text, source, micro, matched).source = source
  BY FallbackHasNoClaim DEF Finished

LEMMA DraftClaims ==
  ASSUME NEW rows \in SUBSET Rows, IsFiniteSet(rows), NEW c,
         NEW policy, NEW text, NEW r, NEW micro, NEW has_text
  PROVE  /\ StemsFrom(FixedDraft(policy, r, micro, Matched(rows, c)), rows)
         /\ StemsFrom(FallbackDraft(micro, Matched(rows, c)), rows)
         /\ StemsFrom(AIDraft(text, r, micro, Matched(rows, c)), rows)
         /\ StemsFrom(ExceptionDraft(micro, has_text), rows)
<1> DEFINE m == Matched(rows, c)
<1>0. ASSUME NEW t, NEW s, "claim" \notin t, "boast" \notin t
      PROVE  StemsFrom(Finished(t, s, micro, m), rows)
  BY <1>0, FinishedMarks DEF StemsFrom
<1>1. StemsFrom(FallbackDraft(micro, m), rows)
  <2> HIDE DEF m
  <2> QED  BY <1>0, FallbackHasNoClaim DEF FallbackDraft
<1>2. StemsFrom(FixedDraft(policy, r, micro, m), rows)
  <2> DEFINE s == "ai_commercial_supervised"
             commercial == Finished(CommercialText(r), s, micro, m)
  <2>1. StemsFrom(commercial, rows)
    <3>1. "claim" \notin CommercialText(r)  BY DEF CommercialText
    <3>2. "claim" \in commercial.text => Brought("claim", rows)
      BY <3>1, FinishedMarks
    <3>3. "boast" \in commercial.text => commercial.source = s
      BY FinishedSource
    <3> QED  BY <3>2, <3>3 DEF StemsFrom
  <2>2. "claim" \notin NoText /\ "boast" \notin NoText  BY DEF NoText
  <2>3. \/ \E t, src : /\ t \in {FallbackText(micro), NoText}
                       /\ FixedDraft(policy, r, micro, m)
                            = Finished(t, src, micro, m)
        \/ FixedDraft(policy, r, micro, m) = commercial
    BY DEF FixedDraft
  <2> HIDE DEF m, commercial
  <2> QED  BY <1>0, <2>1, <2>2, <2>3, FallbackHasNoClaim
<1>3. StemsFrom(AIDraft(text, r, micro, m), rows)
  <2> HIDE DEF m
  <2>1. CASE AIFlaws(text, m, r) = {}
    <3>1. "claim" \notin text /\ "boast" \notin text  BY <2>1 DEF AIFlaws
    <3> QED  BY <1>0, <2>1, <3>1 DEF AIDraft
  <2>2. CASE AIFlaws(text, m, r) # {}
    BY <1>1, <2>2 DEF AIDraft
  <2> QED  BY <2>1, <2>2
<1>4. StemsFrom(ExceptionDraft(micro, has_text), rows)
  BY DEF StemsFrom, ExceptionDraft, Fallback, NoText
<1> QED  BY <1>1, <1>2, <1>3, <1>4

Flagged == ~ decision.valid /\ decision.review /\ ~ decision.permitted

ClaimInv ==
    /\ pc \in {"idle", "lookup", "draft", "model"} => draft = NoDraft
    /\ StemsFrom(draft, seen)
    /\ pc \in {"approval", "sent"} /\ draft.text \cap {"claim", "disclaimed"} # {}
         => Flagged

LEMMA NextKeepsClaims ==
  IInv /\ ClassInv /\ ClaimInv /\ [Next]_vars => ClaimInv'
<1> SUFFICES ASSUME IInv, ClassInv, ClaimInv, [Next]_vars PROVE ClaimInv'
  OBVIOUS
<1> DEFINE Closing == {"approval", "sent"}
           Opening == {"idle", "lookup", "draft", "model"}
<1>1. seen \in SUBSET Rows /\ IsFiniteSet(seen)  BY DEF ClassInv, SeenOK
<1>2. \A rows : StemsFrom(NoDraft, rows)
  BY DEF StemsFrom, NoDraft, NoText
<1>3. ASSUME pc \in Opening, pc' \in Opening, draft' = draft
      PROVE  ClaimInv'
  <2>1. draft' = NoDraft  BY <1>3 DEF ClaimInv
  <2>2. StemsFrom(draft', seen')  BY <1>2, <2>1
  <2> QED  BY <1>3, <2>1, <2>2 DEF ClaimInv, StemsFrom
<1>4. ASSUME seen' = seen, pc' \notin Opening, pc' \notin Closing,
             StemsFrom(draft', seen)
      PROVE  ClaimInv'
  BY <1>4 DEF ClaimInv, StemsFrom
<1>5. ASSUME UNCHANGED << seen, draft, decision >>, pc \in Closing,
             pc' \in Closing
      PROVE  ClaimInv'
  BY <1>5 DEF ClaimInv, StemsFrom, Flagged
<1>6. CASE LookupRules \/ \E r \in Replies : Arrive(r)
  BY <1>3, <1>6 DEF LookupRules, Arrive
<1>7. CASE Draft
  <2>1. seen' = seen /\ pc = "draft" /\ pc' \in {"model", "plan"}
    BY <1>7 DEF Draft
  <2>2. \/ draft' = draft
        \/ \E m, h : draft' = ExceptionDraft(m, h)
        \/ \E p, c, m : draft' = FixedDraft(p, reply, m, Matched(seen, c))
        \/ \E c, m : draft' = FallbackDraft(m, Matched(seen, c))
    BY <1>7 DEF Draft
  <2>3. StemsFrom(draft', seen)
    BY <1>1, <2>2, DraftClaims DEF ClaimInv
  <2>4. CASE pc' = "plan"  BY <1>4, <2>1, <2>3, <2>4
  <2>5. CASE pc' = "model"
    <3>1. draft' = draft  BY <1>7, <2>5 DEF Draft
    <3> QED  BY <1>3, <2>1, <2>5, <3>1
  <2> QED  BY <2>1, <2>4, <2>5
<1>8. CASE ModelFailsOrTimesOut
  <2>1. /\ seen' = seen /\ pc' = "plan"
        /\ \E m, c : draft' = FallbackDraft(m, Matched(seen, c))
    BY <1>8 DEF ModelFailsOrTimesOut
  <2> QED  BY <1>1, <1>4, <2>1, DraftClaims
<1>9. ASSUME NEW t \in AITexts, ModelAnswers(t) PROVE ClaimInv'
  <2>1. /\ seen' = seen /\ pc' = "plan"
        /\ \E m, c : draft' = AIDraft(t, reply, m, Matched(seen, c))
    BY <1>9 DEF ModelAnswers
  <2> QED  BY <1>1, <1>4, <2>1, DraftClaims
<1>10. CASE Plan \/ RetrieveLead \/ VerifyBlocklist
  <2>1. UNCHANGED << seen, draft >> /\ pc' \notin Opening /\ pc' \notin Closing
    BY <1>10 DEF Plan, RetrieveLead, VerifyBlocklist, execution, ActionOrder
  <2> QED  BY <1>4, <2>1 DEF ClaimInv
<1>11. ASSUME NEW a \in Actions, Act(a) PROVE ClaimInv'
  <2>1. UNCHANGED << seen, draft >> /\ pc' = NextNode(a)
    BY <1>11 DEF Act, SkipAction, RequestAction, execution
  <2>2. NextNode(a) \notin Opening \cup Closing  BY DEF NextNode
  <2> QED  BY <1>4, <2>1, <2>2 DEF ClaimInv
<1>12. CASE Validate
  <2>1. UNCHANGED << seen, draft >> /\ pc' = "approval"  BY <1>12 DEF Validate
  <2>2. ASSUME draft.text \cap {"claim", "disclaimed"} # {} PROVE Flagged'
    <3>1. decision' = [decision EXCEPT !.valid = FALSE, !.review = TRUE,
                                       !.permitted = FALSE]
      BY <1>12, <2>2 DEF Validate
    <3> QED  BY <3>1 DEF IInv, BaselineKept, DecisionFields, Flagged
  <2> QED  BY <2>1, <2>2 DEF ClaimInv, StemsFrom
<1>13. CASE ApproveAndSend
  BY <1>5, <1>13 DEF ApproveAndSend, execution
<1>14. CASE UNCHANGED vars
  <2>1. UNCHANGED << pc, seen, draft, decision >>
    BY <1>14 DEF vars, execution
  <2> QED  BY <2>1 DEF ClaimInv, StemsFrom, Flagged
<1> QED
  BY <1>6, <1>7, <1>8, <1>9, <1>10, <1>11, <1>12, <1>13, <1>14
     DEF Next, Engine

(***************************************************************************)
(* A claim in a draft that a reviewer sees stems from a reviewer's rule,   *)
(* whatever the texts of the model; a boast does too, but for the fixed    *)
(* text on scope; and no phrase that E looks for comes with a leave to     *)
(* reply.  A boast, which E does not look for, may.                        *)
(***************************************************************************)
THEOREM ClaimsStemFromRules == Spec => []ClaimsAreFlagged
<1>1. Init => ClaimInv
  BY DEF Init, ClaimInv, StemsFrom, NoDraft, NoText
<1>2. ClaimInv => ClaimsAreFlagged
  BY DEF ClaimInv, StemsFrom, Brought, Flagged, ClaimsAreFlagged, Decided
<1> QED  BY <1>1, <1>2, ClassInvHolds, NextKeepsClaims, PTL DEF Spec

-----------------------------------------------------------------------------
(***************************************************************************)
(* Types.  Above all: every path of D through templates, texts of the      *)
(* model, rules and checks ends in a draft, because the rules that tell it *)
(* how to start have a first one.                                          *)
(***************************************************************************)
DataOK ==
    /\ reply \in Replies \cup {NoReply}
    /\ pc # "idle" => reply \in Replies
    /\ class \in Classifications \cup {Named(r.class) : r \in Replies}
                \cup {NoClass}
    /\ rules \subseteq {r.id : r \in Rows}
    /\ decision \in DecisionType
    /\ draft \in DraftType
    /\ lead \in {"FOUND", "ZERO_MATCHES", "MULTIPLE_MATCHES", "SKIPPED"}
    /\ verified \in {"NOT_APPLICABLE", "ZERO", "VERIFIED", "MULTIPLE"}
    /\ blocked \in 0 .. 2
    /\ domain \in BOOLEAN

LEMMA BringsMarks == \A r \in Candidates : r.brings \in SUBSET Marks
  BY RowsAssumption DEF Candidates, RowType, OwnerPolicy

LEMMA FallbackType == ASSUME NEW micro PROVE FallbackText(micro) \in SUBSET Marks
<1>1. Template(TemplateOf(micro)) \in SUBSET Marks
  BY DEF Template, Marks, NoText
<1> QED  BY <1>1 DEF FallbackText, Fallback, Marks

LEMMA FinishedType ==
  ASSUME NEW rows \in SUBSET Rows, IsFiniteSet(rows), NEW c,
         NEW text \in SUBSET Marks, NEW source \in Sources, NEW micro
  PROVE  Finished(text, source, micro, Matched(rows, c)) \in DraftType
<1> DEFINE m == Matched(rows, c)
           started == ApplyExactStart(text, m)
           formed == ApplyFormInstruction(started, micro, m)
<1>0. m \in SUBSET Candidates /\ IsFiniteSet(m)  BY MatchedRows
<1>1. started \in SUBSET Marks
  <2> DEFINE telling == Telling(m, "exact_start")
  <2>1. telling \in SUBSET Candidates /\ IsFiniteSet(telling)
    BY <1>0, FS_Subset DEF Telling
  <2>2. telling # {} => First(telling) \in Candidates
    <3> HIDE DEF telling
    <3> QED  BY <2>1, FirstIsFirst
  <2>3. telling # {} => First(telling).brings \in SUBSET Marks
    BY <2>2, BringsMarks
  <2>4. started = IF telling = {} THEN text
                  ELSE text \cup First(telling).brings \cup {"learned"}
    BY DEF ApplyExactStart
  <2> HIDE DEF telling, started
  <2> QED  BY <2>3, <2>4 DEF Marks
<1>2. formed \in SUBSET Marks
  <2> DEFINE linked == Telling(FormCreated(m), "booking_url")
  <2>1. \A p \in linked : p.brings \in SUBSET Marks
    BY <1>0, BringsMarks DEF Telling, FormCreated
  <2> HIDE DEF linked, started
  <2>2. (UNION {p.brings : p \in linked}) \in SUBSET Marks
    BY <2>1
  <2>3. \/ formed = started
        \/ formed = {"text", "learned"} \cup (UNION {p.brings : p \in linked})
        \/ formed = (started \ {"asks_times"}) \cup {"learned"}
    BY DEF ApplyFormInstruction, linked
  <2> HIDE DEF formed
  <2> QED  BY <1>1, <2>2, <2>3 DEF Marks
<1>3. Postprocessed(text, micro, m) \in SUBSET Marks
  <2> HIDE DEF m, started, formed
  <2>1. ApplyPricing(formed, m) \in SUBSET Marks
    BY <1>2 DEF ApplyPricing, Marks
  <2> QED  BY <2>1 DEF Postprocessed, NoText, m, started, formed
<1>4. PICK final \in SUBSET Marks, src \in Sources, learned \in BOOLEAN :
         Finished(text, source, micro, m)
           = [text |-> final, source |-> src, learned |-> learned]
  <2> HIDE DEF m
  <2> QED  BY <1>3, FallbackType DEF Finished, Changed, Sources
<1> QED  BY <1>4 DEF DraftType

LEMMA DraftTypes ==
  ASSUME NEW rows \in SUBSET Rows, IsFiniteSet(rows), NEW c, NEW policy,
         NEW text \in SUBSET Marks, NEW r, NEW micro, NEW has_text
  PROVE  /\ FixedDraft(policy, r, micro, Matched(rows, c)) \in DraftType
         /\ FallbackDraft(micro, Matched(rows, c)) \in DraftType
         /\ AIDraft(text, r, micro, Matched(rows, c)) \in DraftType
         /\ ExceptionDraft(micro, has_text) \in DraftType
<1>1. FallbackDraft(micro, Matched(rows, c)) \in DraftType
  BY FinishedType, FallbackType DEF FallbackDraft, Sources
<1>2. CommercialText(r) \in SUBSET Marks /\ NoText \in SUBSET Marks
  BY DEF CommercialText, NoText, Marks
<1>3. FixedDraft(policy, r, micro, Matched(rows, c)) \in DraftType
  BY <1>2, FinishedType, FallbackType DEF FixedDraft, Sources
<1>4. AIDraft(text, r, micro, Matched(rows, c)) \in DraftType
  BY <1>1, FinishedType DEF AIDraft, Sources
<1>5. ExceptionDraft(micro, has_text) \in DraftType
  BY DEF ExceptionDraft, Fallback, NoText, DraftType, Marks, Sources
<1> QED  BY <1>1, <1>3, <1>4, <1>5

LEMMA CategoryOfClass ==
  ASSUME NEW c \in Classifications PROVE c.category \in Categories
  BY DEF Categories

LEMMA DecideType == ASSUME NEW r \in Replies PROVE Decide(r) \in DecisionType
<1>1. r.class.category \in Categories
  BY RepliesAssumption, CategoryOfClass DEF ReplyType
<1> DEFINE category == IF r.op = "noop" THEN "" ELSE
                       IF r.op # "none" THEN "OTHER" ELSE
                       IF r.sure THEN r.class.category ELSE "AMBIGUOUS"
           hostile == category = "HOSTILE_OR_REPUTATIONAL_RISK"
           intent == IF category = "LEGAL_PRIVACY_OR_COMPLAINT"
                     THEN "REVIEW_HOLD"
                     ELSE IF hostile /\ r.threat THEN "GLOBAL_BLOCKLIST"
                     ELSE IF hostile \/ category = "UNSUBSCRIBE"
                     THEN "ORGANISATION_DNC" ELSE "NONE"
<1>2. category \in Categories
  <2>1. \/ category = ""
        \/ category = r.class.category
        \/ category \in {"OTHER", "AMBIGUOUS"}
    OBVIOUS
  <2> HIDE DEF category
  <2> QED  BY <1>1, <2>1 DEF Categories
<1>3. intent \in DNCScopes \cup {"NONE", "REVIEW_HOLD"}
  BY DEF DNCScopes
<1>4. Decide(r) =
        [ category |-> category,
          stop |-> r.op = "none" /\ category # "OUT_OF_OFFICE",
          dnc |-> hostile \/ category = "UNSUBSCRIBE", intent |-> intent,
          permitted |-> category \notin Unanswered \cup {""},
          review |-> /\ r.op \in {"none", "malformed"}
                     /\ \/ category \notin { "OUT_OF_OFFICE",
                                             "BOUNCE_OR_DELIVERY_NOTICE" }
                        \/ r.media,
          valid |-> TRUE ]
  BY DEF Decide
<1>5. ASSUME NEW c \in Categories, NEW i \in DNCScopes \cup {"NONE", "REVIEW_HOLD"},
             NEW st \in BOOLEAN, NEW dn \in BOOLEAN, NEW pe \in BOOLEAN,
             NEW re \in BOOLEAN
      PROVE  [ category |-> c, stop |-> st, dnc |-> dn, intent |-> i,
               permitted |-> pe, review |-> re, valid |-> TRUE ] \in DecisionType
  BY DEF DecisionType
<1> HIDE DEF category, intent
<1> QED  BY <1>2, <1>3, <1>4, <1>5

LEMMA RelearnedType ==
  ASSUME NEW d \in DecisionType, NEW c \in Classifications, NEW policy
  PROVE  Relearned(d, c, policy) \in DecisionType
<1>1. c.category \in Categories  BY CategoryOfClass
<1> QED  BY <1>1 DEF Relearned, DecisionType

\* What a rule brings in is a row's.
LEMMA ChosenRow ==
  ASSUME NEW rows \in SUBSET Rows, IsFiniteSet(rows), NEW rp
  PROVE  /\ SelectedRule(rp, rows) \subseteq Rows
         /\ SelectedRule(rp, rows) # {} =>
              (CHOOSE r \in SelectedRule(rp, rows) : TRUE) \in Rows
<1> DEFINE chosen == SelectedRule(rp, rows)
<1>1. CASE chosen # {}
  <2>1. \E r \in Relearnable(rp, rows) : chosen = {r}
    BY <1>1, SelectedRuleIsNewest
  <2>2. Relearnable(rp, rows) \subseteq Rows
    BY DEF Relearnable, ClassificationRules
  <2> HIDE DEF chosen
  <2>3. chosen \subseteq Rows  BY <2>1, <2>2
  <2> QED  BY <1>1, <2>3 DEF chosen
<1> QED  BY <1>1

LEMMA DraftKeepsData == ASSUME ClassInv, DataOK, Draft PROVE DataOK'
<1>0. SeenOK /\ pc = "draft" /\ pc' # "idle" /\ reply \in Replies
  BY DEF ClassInv, Draft, DataOK
<1>1. /\ UNCHANGED << reply, lead, verified, blocked, domain >>
      /\ reply.class \in Classifications
  BY <1>0, RepliesAssumption DEF Draft, safety, ReplyType
<1>2. CASE Broken(seen)
  <2>1. /\ draft' = ExceptionDraft(reply.class.micro, reply.text)
        /\ class' = Named(reply.class)
        /\ decision' = [ decision EXCEPT
                           !.category = Named(reply.class).category,
                           !.review = TRUE ]
        /\ UNCHANGED rules
    BY <1>2 DEF Draft
  <2>2. draft' \in DraftType
    <3>1. {} \in SUBSET Rows /\ IsFiniteSet({}) /\ {} \in SUBSET Marks
      BY FS_EmptySet
    <3> QED  BY <2>1, <3>1, DraftTypes
  <2>3. decision' \in DecisionType
    <3>1. Named(reply.class).category \in Categories
      BY <1>1, CategoryOfClass DEF Named, Class, Categories
    <3> HIDE DEF Named
    <3> QED  BY <2>1, <3>1 DEF DataOK, DecisionType
  <2> QED  BY <1>0, <1>1, <2>1, <2>2, <2>3 DEF DataOK
<1>3. CASE ~ Broken(seen)
  <2> DEFINE chosen == SelectedRule(reply, seen)
             c == IF chosen # {} THEN (CHOOSE r \in chosen : TRUE).to
                  ELSE reply.class
             policy == PolicyOf(c.micro)
             d == IF chosen # {} THEN Relearned(decision, c, policy)
                  ELSE decision
  <2>1. /\ class' = c /\ rules' = {r.id : r \in chosen} /\ decision' = d
        /\ \/ draft' = FixedDraft(policy, reply, c.micro,
                                  Matched(seen, Shown(d, c)))
           \/ draft' = FallbackDraft(c.micro, Matched(seen, Shown(d, c)))
           \/ draft' = draft
    BY <1>3 DEF Draft
  <2>2. chosen \subseteq Rows
    BY <1>0, ChosenRow DEF SeenOK
  <2>3. c \in Classifications
    <3>1. chosen # {} => (CHOOSE r \in chosen : TRUE) \in Rows
      BY <1>0, ChosenRow DEF SeenOK
    <3>2. \A r \in Rows : r.to \in Classifications
      BY DEF Classifications
    <3> QED  BY <1>1, <3>1, <3>2
  <2>4. d \in DecisionType
    BY <2>3, RelearnedType DEF DataOK
  <2>5. draft' \in DraftType
    <3>1. {} \in SUBSET Marks
      OBVIOUS
    <3> HIDE DEF c, policy, d, chosen
    <3> QED  BY <1>0, <2>1, <3>1, DraftTypes DEF SeenOK, DataOK
  <2> HIDE DEF c, policy, d, chosen
  <2> QED  BY <1>0, <1>1, <2>1, <2>2, <2>3, <2>4, <2>5 DEF DataOK
<1> QED  BY <1>2, <1>3

LEMMA NextKeepsData ==
  ASSUME IInv, ClassInv, DataOK, [Next]_vars PROVE DataOK'
<1>1. ASSUME NEW r \in Replies, Arrive(r) PROVE DataOK'
  <2>1. r.class \in Classifications
    BY RepliesAssumption DEF ReplyType
  <2>2. Decide(r) \in DecisionType
    BY DecideType
  <2> QED  BY <1>1, <2>1, <2>2 DEF Arrive, DataOK, safety
<1>2. CASE Draft
  BY <1>2, DraftKeepsData
<1>3. CASE ModelFailsOrTimesOut \/ \E t \in AITexts : ModelAnswers(t)
  <2>1. \/ \E c : draft' = FallbackDraft(class.micro, Matched(seen, c))
        \/ \E t \in AITexts : \E c :
               draft' = AIDraft(t, reply, class.micro, Matched(seen, c))
    BY <1>3 DEF ModelFailsOrTimesOut, ModelAnswers
  <2>2. SeenOK /\ {} \in SUBSET Marks /\ AITexts \subseteq SUBSET Marks
    BY AITextsAssumption DEF ClassInv
  <2>3. draft' \in DraftType
    BY <2>1, <2>2, DraftTypes DEF SeenOK
  <2>4. /\ pc = "model" /\ pc' = "plan"
        /\ UNCHANGED << reply, class, rules, decision, safety >>
    BY <1>3 DEF ModelFailsOrTimesOut, ModelAnswers
  <2> QED  BY <2>3, <2>4 DEF DataOK, safety
<1>4. CASE LookupRules \/ Plan \/ RetrieveLead \/ ApproveAndSend
  BY <1>4 DEF LookupRules, Plan, RetrieveLead, ApproveAndSend, DataOK,
     execution, safety
<1>5. ASSUME NEW a \in Actions, Act(a) PROVE DataOK'
  <2>1. /\ UNCHANGED << execution, lead, verified, domain >> /\ pc = a
        /\ blocked' \in {blocked, blocked + 1} /\ (blocked' # blocked => blocked < 2)
    BY <1>5 DEF Act, SkipAction, RequestAction, safety
  <2>2. pc # "idle"  BY <2>1 DEF Actions
  <2>3. blocked' \in 0 .. 2  BY <2>1 DEF DataOK
  <2> QED  BY <2>1, <2>2, <2>3 DEF DataOK, execution
<1>6. CASE VerifyBlocklist
  BY <1>6 DEF VerifyBlocklist, DataOK, execution
<1>7. CASE Validate
  <2>1. decision' = decision
        \/ decision' = [decision EXCEPT !.valid = FALSE, !.review = TRUE,
                                        !.permitted = FALSE]
    BY <1>7 DEF Validate
  <2>2. decision' \in DecisionType  BY <2>1 DEF DataOK, DecisionType
  <2> QED  BY <1>7, <2>2 DEF Validate, DataOK, safety
<1>8. CASE UNCHANGED vars
  BY <1>8 DEF vars, execution, safety, DataOK
<1> QED
  BY <1>1, <1>2, <1>3, <1>4, <1>5, <1>6, <1>7, <1>8 DEF Next, Engine

\* Every variable of the engine keeps its type, whatever rows, texts of the
\* model and answers of the host it meets.
THEOREM TypeCorrect == Spec => []TypeOK
<1>1. Init => DataOK
  <2>1. NoDecision \in DecisionType
    BY DEF NoDecision, DecisionType, Categories
  <2>2. NoDraft \in DraftType
    BY DEF NoDraft, NoText, DraftType, Sources
  <2> QED  BY <2>1, <2>2 DEF Init, DataOK
<1>2. IInv /\ ClassInv /\ DataOK /\ [Next]_vars => DataOK'
  BY NextKeepsData
<1>3. IInv /\ ClassInv /\ DataOK => TypeOK
  BY RepliesAssumption
  DEF IInv, PcOK, Early, Late, ActionsTracked, ClassInv, SeenOK, DataOK, TypeOK
<1> QED  BY <1>1, <1>2, <1>3, ClassInvHolds, PTL DEF Spec

---------------------------------------------------------------------------
(***************************************************************************)
(* How many nodes an execution has left.  Liveness is out of the prover's  *)
(* reach, but this is the bound that DecisionEnds rests on.                *)
(***************************************************************************)
Distance ==
    [ idle |-> 13, lookup |-> 12, draft |-> 11, model |-> 10, plan |-> 9,
      lead |-> 8, SOURCE_CAMPAIGN_STOP |-> 7, UPDATE_INTEREST_STATUS |-> 6,
      SUBSEQUENCE_REMOVAL |-> 5, EXACT_EMAIL_BLOCKLIST |-> 4, verify |-> 3,
      validate |-> 2, approval |-> 1, sent |-> 0 ]

NodesLeft == Distance[pc]

\* No node of workflow 02 is run twice, and none goes back: every step of an
\* execution leaves it with fewer nodes to run, whichever rules, texts and
\* answers of the host it meets.
NodesRunOut == [][NodesLeft' < NodesLeft]_vars

LEMMA NextLowers == ASSUME PcOK, Next PROVE NodesLeft' < NodesLeft
<1> USE DEF NodesLeft, Distance
<1>1. ASSUME NEW r \in Replies, Arrive(r) PROVE NodesLeft' < NodesLeft
  BY <1>1 DEF Arrive
<1>2. CASE LookupRules \/ Plan \/ RetrieveLead
  BY <1>2 DEF LookupRules, Plan, RetrieveLead, ActionOrder
<1>3. CASE Draft
  <2>1. pc = "draft" /\ pc' \in {"model", "plan"}
    BY <1>3 DEF Draft
  <2> QED  BY <2>1
<1>4. CASE ModelFailsOrTimesOut \/ VerifyBlocklist \/ Validate \/ ApproveAndSend
  <2>1. \/ pc = "model" /\ pc' = "plan"
        \/ pc = "verify" /\ pc' = "validate"
        \/ pc = "validate" /\ pc' = "approval"
        \/ pc = "approval" /\ pc' = "sent"
    BY <1>4 DEF ModelFailsOrTimesOut, VerifyBlocklist, Validate, ApproveAndSend
  <2> QED  BY <2>1
<1>5. ASSUME NEW t \in AITexts, ModelAnswers(t) PROVE NodesLeft' < NodesLeft
  BY <1>5 DEF ModelAnswers
<1>6. ASSUME NEW a \in Actions, Act(a) PROVE NodesLeft' < NodesLeft
  <2>1. pc = a /\ pc' = NextNode(a)
    BY <1>6 DEF Act, SkipAction, RequestAction
  <2> QED  BY <2>1 DEF NextNode, Actions
<1> QED
  BY <1>1, <1>2, <1>3, <1>4, <1>5, <1>6 DEF Next, Engine

\* An execution of workflow 02 makes at most 13 steps, eleven of them before
\* a reviewer can see the case: with an n8n that runs the next node, and
\* timers that end its waits, this is DecisionEnds.
THEOREM DecisionIsBounded == Spec => NodesRunOut /\ [](NodesLeft \in 0..13)
<1>1. PcOK /\ [Next]_vars => [NodesLeft' < NodesLeft]_vars
  BY NextLowers
<1>2. PcOK => NodesLeft \in 0..13
  BY DEF PcOK, Early, Late, NodesLeft, Distance, Actions
<1> QED
  BY <1>1, <1>2, Inductive, PTL DEF Spec, NodesRunOut, IInv

=============================================================================
