--------------------------- MODULE DecisionEngine ---------------------------
(***************************************************************************)
(* Workflow 02, the Reply Decision Engine: one execution over one reply,   *)
(* with any learning table that reviewers may have left behind, a model    *)
(* that may never answer, and the Instantly API that the safety actions    *)
(* go to.  After it the reply is approved and sent as Human Approval and   *)
(* the Sender's suppression steps have it.                                 *)
(*                                                                         *)
(*   A-C classify and decide -> Q12 learning rows -> D draft (asks the     *)
(*   model) -> F plan -> G0 lead -> G1..G4 actions -> G5 verify -> G6, E   *)
(***************************************************************************)
EXTENDS Drafting, Sequences

CONSTANTS
    Replies,        \* replies as A and B leave them: records of ReplyType
    Rows,           \* rows the learning table can hold
    Tables,         \* what the table can hold at one time: sets of rows
    EnabledActions, \* the safety actions that the configuration switches on
    HasKey,         \* is OPENAI_API_KEY there?
    AITexts,        \* texts the model may answer with, as sets of marks
    NoReply         \* before a reply is there

Classifications == {r.class : r \in Replies} \cup {r.from : r \in Rows}
                   \cup {r.to : r \in Rows}

\* text: the reply is not blank.  safe: no flag forbids a commercial answer.
\* op: the operational rule that matched (duplicate or self-sent, malformed,
\* unsupported event); B gives the first no category and the others OTHER.
\* sure: the confidence is at least 0.60.  threat: det-hostile-001.  media:
\* media_flag.
ReplyType ==
    [ class : Classifications, text : BOOLEAN, asks_booking : BOOLEAN,
      asks_proof : BOOLEAN, asks_scope : BOOLEAN, safe : BOOLEAN,
      op : {"none", "noop", "malformed", "unsupported"}, sure : BOOLEAN,
      threat : BOOLEAN, media : BOOLEAN ]

ASSUME RepliesAssumption == Replies \subseteq ReplyType /\ NoReply \notin Replies

ASSUME RowsAssumption ==
    /\ Rows \subseteq RowType(Classifications, STRING)
    /\ \A r, s \in Rows : r.id = s.id => r = s
    /\ Tables \subseteq SUBSET Rows
    /\ \A rows \in Tables : IsFiniteSet(rows)

ASSUME AITextsAssumption == AITexts \subseteq SUBSET Marks

ActionOrder ==
    << "SOURCE_CAMPAIGN_STOP", "UPDATE_INTEREST_STATUS",
       "SUBSEQUENCE_REMOVAL", "EXACT_EMAIL_BLOCKLIST" >>

Actions ==
    { "SOURCE_CAMPAIGN_STOP", "UPDATE_INTEREST_STATUS",
      "SUBSEQUENCE_REMOVAL", "EXACT_EMAIL_BLOCKLIST" }

ASSUME EnabledAssumption == EnabledActions \subseteq Actions

NeedsLead == {"SOURCE_CAMPAIGN_STOP", "SUBSEQUENCE_REMOVAL"}

VARIABLES
    pc,       \* the node that runs next
    reply,    \* the reply of this execution
    seen,     \* the rows the lookup returned
    class,    \* the effective classification
    rules,    \* the rules the reclassification is attributed to
    decision, \* the fields of the decision that anything reads
    draft,    \* text, source, learned: what D records
    actions,  \* the plan: each action's status, "none" if it is not planned
    lead,     \* what the lead retrieval found
    calls,    \* how often each action was requested
    verified, \* blocklist_verification
    blocked,  \* at the host: exact entries for the address, up to 2
    domain    \* at the host: is there an entry for the whole domain?

execution == << reply, seen, class, rules, decision, draft >>
safety == << actions, lead, calls, verified, blocked, domain >>
vars == << pc, execution, safety >>

---------------------------------------------------------------------------
(* A to C *)

DNCScopes == {"WORKSPACE_DNC", "ORGANISATION_DNC", "GLOBAL_BLOCKLIST"}

\* Categories that C does not let be answered.
Unanswered ==
    { "UNSUBSCRIBE", "OUT_OF_OFFICE", "BOUNCE_OR_DELIVERY_NOTICE", "OTHER",
      "LEGAL_PRIVACY_OR_COMPLAINT", "HOSTILE_OR_REPUTATIONAL_RISK",
      "ATTACHMENT_REQUIRES_REVIEW" }

\* BASE_PLANS and NOOP_PLAN, and what C adds to them.  An operational rule
\* leaves the sequence running; an unsupported event is not reviewed either.
Decide(r) ==
    LET category == IF r.op = "noop" THEN "" ELSE
                    IF r.op # "none" THEN "OTHER" ELSE
                    IF r.sure THEN r.class.category ELSE "AMBIGUOUS"
        hostile == category = "HOSTILE_OR_REPUTATIONAL_RISK"
    IN  [ category |-> category,
          stop |-> r.op = "none" /\ category # "OUT_OF_OFFICE",
          dnc |-> hostile \/ category = "UNSUBSCRIBE",
          intent |->
              IF category = "LEGAL_PRIVACY_OR_COMPLAINT" THEN "REVIEW_HOLD"
              ELSE IF hostile /\ r.threat THEN "GLOBAL_BLOCKLIST"
              ELSE IF hostile \/ category = "UNSUBSCRIBE"
              THEN "ORGANISATION_DNC" ELSE "NONE",
          permitted |-> category \notin Unanswered \cup {""},
          review |-> /\ r.op \in {"none", "malformed"}
                     /\ \/ category \notin { "OUT_OF_OFFICE",
                                             "BOUNCE_OR_DELIVERY_NOTICE" }
                        \/ r.media,
          valid |-> TRUE ]

NoDecision ==
    [ category |-> "", stop |-> FALSE, dnc |-> FALSE, intent |-> "NONE",
      permitted |-> FALSE, review |-> FALSE, valid |-> TRUE ]

NoDraft == [text |-> NoText, source |-> "none", learned |-> FALSE]

Arrive(r) ==
    /\ pc = "idle"
    /\ reply' = r
    /\ class' = r.class
    /\ decision' = Decide(r)
    /\ pc' = "lookup"
    /\ UNCHANGED << seen, rules, draft, safety >>

\* Q12: the rows that reviewers have made by now; none if the lookup fails.
LookupRules ==
    /\ pc = "lookup"
    /\ seen' \in Tables
    /\ pc' = "draft"
    /\ UNCHANGED << reply, class, rules, decision, draft, safety >>

---------------------------------------------------------------------------
(* D *)

PolicyOf(micro) == DraftPolicyFor(micro, reply.safe)

\* Mutant: the decision is made anew for the corrected category.
RelearnedAnew(d, c, policy) ==
    [ d EXCEPT !.category = c.category,
               !.permitted = policy # "NO_DRAFT",
               !.review = policy # "NO_DRAFT",
               !.stop = policy # "NO_DRAFT",
               !.dnc = c.category = "UNSUBSCRIBE",
               !.intent = "NONE" ]

\* The decision after the reply has been moved to another classification.
Relearned(d, c, policy) ==
    [ d EXCEPT !.category = c.category,
               !.permitted = IF policy = "NO_DRAFT" THEN FALSE ELSE @,
               !.review = policy # "NO_DRAFT" ]

\* May the model be asked?
CanTryAI(policy, d) ==
    /\ policy = "AI_SUPERVISED_OR_TEMPLATE"
    /\ d.permitted /\ reply.text

Broken(rows) == \E p \in FormPolicies(rows) : p.broken

\* What the policies are matched with: decision.category || cls.category.
Shown(d, c) ==
    Class(IF d.category = "" THEN c.category ELSE d.category, c.micro)

\* What the catch makes of the classification that came in.
Named(c) == Class(IF c.category = "" THEN "AMBIGUOUS" ELSE c.category, c.micro)

\* D up to the point where it knows the draft or waits for the model.
Draft ==
    LET chosen == SelectedRule(reply, seen)
        learned == chosen # {}
        c == IF learned THEN (CHOOSE r \in chosen : TRUE).to ELSE reply.class
        policy == PolicyOf(c.micro)
        d == IF learned THEN Relearned(decision, c, policy) ELSE decision
        matched == Matched(seen, Shown(d, c))
    IN  /\ pc = "draft"
        /\ IF Broken(seen)
           THEN \* the catch takes the category of the classifier, not of C
                /\ draft' = ExceptionDraft(reply.class.micro, reply.text)
                /\ class' = Named(reply.class)
                /\ decision' = [ decision EXCEPT
                                   !.category = Named(reply.class).category,
                                   !.review = TRUE ]
                /\ UNCHANGED rules
           ELSE /\ class' = c
                /\ rules' = {r.id : r \in chosen}
                /\ decision' = d
                /\ draft' = IF ~CanTryAI(policy, d)
                            THEN FixedDraft(policy, reply, c.micro, matched)
                            ELSE IF ~HasKey THEN FallbackDraft(c.micro, matched)
                            ELSE draft
        /\ pc' = IF ~Broken(seen) /\ CanTryAI(policy, d) /\ HasKey
                 THEN "model" ELSE "plan"
        /\ UNCHANGED << reply, seen, safety >>

\* callAI: the answer of the model is a text.
ModelAnswers(text) ==
    /\ pc = "model"
    /\ draft' = AIDraft(text, reply, class.micro,
                        Matched(seen, Shown(decision, class)))
    /\ pc' = "plan"
    /\ UNCHANGED << reply, seen, class, rules, decision, safety >>

\* Mutant: nothing races with the request, which need not end.
ModelIsAwaited ==
    /\ pc = "model" /\ ~HasKey
    /\ draft' = FallbackDraft(class.micro,
                              Matched(seen, Shown(decision, class)))
    /\ pc' = "plan"
    /\ UNCHANGED << reply, seen, class, rules, decision, safety >>

\* An error, an answer of the wrong form, or the 8 seconds of the race.
ModelFailsOrTimesOut ==
    /\ pc = "model"
    /\ draft' = FallbackDraft(class.micro,
                              Matched(seen, Shown(decision, class)))
    /\ pc' = "plan"
    /\ UNCHANGED << reply, seen, class, rules, decision, safety >>

---------------------------------------------------------------------------
(* F and G *)

Planned(a, d) ==
    IF a \in {"SOURCE_CAMPAIGN_STOP", "UPDATE_INTEREST_STATUS"}
    THEN d.stop ELSE d.intent \in DNCScopes

Plan ==
    /\ pc = "plan"
    /\ actions' = [ a \in Actions |->
                      IF ~Planned(a, decision) THEN "none"
                      ELSE IF a \in EnabledActions THEN "planned"
                      ELSE "disabled" ]
    /\ pc' = "lead"
    /\ UNCHANGED << execution, lead, calls, verified, blocked, domain >>

\* G0: one match is the lead; none, several, an error of the host or of the
\* node leave it open.
RetrieveLead ==
    /\ pc = "lead"
    /\ IF \E a \in NeedsLead : actions[a] = "planned"
       THEN lead' \in {"FOUND", "ZERO_MATCHES", "MULTIPLE_MATCHES", "SKIPPED"}
       ELSE lead' = "SKIPPED"
    /\ pc' = ActionOrder[1]
    /\ UNCHANGED << execution, actions, calls, verified, blocked, domain >>

NextNode(a) ==
    IF a = "SOURCE_CAMPAIGN_STOP" THEN "UPDATE_INTEREST_STATUS"
    ELSE IF a = "UPDATE_INTEREST_STATUS" THEN "SUBSEQUENCE_REMOVAL"
    ELSE IF a = "SUBSEQUENCE_REMOVAL" THEN "EXACT_EMAIL_BLOCKLIST"
    ELSE "verify"

\* The gate of an action lets it by.
SkipAction(a) ==
    /\ pc = a
    /\ actions[a] # "planned"
    /\ pc' = NextNode(a)
    /\ UNCHANGED << execution, safety >>

\* The request of an action.  Without a status (timeout, lost connection) the
\* record stays as it was; the host may have carried the request out, and may
\* have with an error status, too.  A request that names no lead cannot be.
RequestAction(a, outcome, carried_out) ==
    /\ pc = a
    /\ actions[a] = "planned"
    /\ outcome = "EXECUTED_OK" => carried_out
    /\ a \in NeedsLead /\ lead # "FOUND" =>
           ~carried_out /\ outcome # "EXECUTED_OK"
    /\ calls' = [calls EXCEPT ![a] = @ + 1]
    /\ actions' = [actions EXCEPT ![a] = outcome]
    /\ blocked' = IF a = "EXACT_EMAIL_BLOCKLIST" /\ carried_out /\ blocked < 2
                  THEN blocked + 1 ELSE blocked
    /\ pc' = NextNode(a)
    /\ UNCHANGED << execution, lead, verified, domain >>

Outcomes == {"EXECUTED_OK", "EXECUTED_ERROR", "planned"}

\* Mutant: an entry for the domain counts as well.
MatchesWithDomain == blocked + (IF domain THEN 1 ELSE 0)

\* G5: the entries of the host that G5r takes for the address.
Matches == blocked

VerifyBlocklist ==
    /\ pc = "verify"
    /\ IF actions["EXACT_EMAIL_BLOCKLIST"] \in {"EXECUTED_OK", "EXECUTED_ERROR"}
       THEN \/ verified' = IF Matches = 1 THEN "VERIFIED"
                           ELSE IF Matches = 0 THEN "ZERO" ELSE "MULTIPLE"
            \/ verified' = "ZERO"          \* an error status: no entries
            \/ verified' = "NOT_APPLICABLE" \* no status
       ELSE verified' = "NOT_APPLICABLE"
    /\ pc' = "validate"
    /\ UNCHANGED << execution, actions, lead, calls, blocked, domain >>

\* G6's overall status.
OverallStatus ==
    LET on == {a \in Actions : actions[a] \notin {"none", "disabled"}}
        executed == {a \in on : actions[a] # "planned"}
    IN  IF on = {} THEN "GATED_OFFLINE"
        ELSE IF executed = on THEN "EXECUTED" ELSE "PARTIAL"

AllowedCategories ==
    Unanswered \cup { "POSITIVE_INTEREST", "INFORMATION_REQUEST",
                     "BOOKING_REQUEST", "TIMING_OBJECTION", "REFERRAL",
                     "NOT_INTERESTED", "WRONG_PERSON",
                     "PRICING_OR_COMMERCIAL_NEGOTIATION", "AMBIGUOUS" }

\* G6 and E: what E finds at fault goes to review without leave to reply.
\* Its phrases are found negated or not.  The checks of fields and of other
\* enumerations are left out: C and D only write values that they allow.
Validate ==
    LET ok == /\ draft.text \cap {"claim", "disclaimed"} = {}
              /\ decision.category \in AllowedCategories \cup {""}
              /\ decision.permitted => decision.review
    IN  /\ pc = "validate"
        /\ decision' = IF ok THEN decision
                       ELSE [decision EXCEPT !.valid = FALSE, !.review = TRUE,
                                             !.permitted = FALSE]
        /\ pc' = "approval"
        /\ UNCHANGED << reply, seen, class, rules, draft, safety >>

---------------------------------------------------------------------------
(* After the engine *)

\* Human Approval hands the draft to the Sender; its G is a mock that answers
\* that both suppression actions are verified, so H finds them verified.
ApproveAndSend ==
    /\ pc = "approval"
    /\ draft.text # NoText
    /\ pc' = "sent"
    /\ UNCHANGED << execution, safety >>

Init ==
    /\ pc = "idle"
    /\ reply = NoReply
    /\ seen = {}
    /\ class = NoClass
    /\ rules = {}
    /\ decision = NoDecision
    /\ draft = NoDraft
    /\ actions = [a \in Actions |-> "none"]
    /\ lead = "SKIPPED"
    /\ calls = [a \in Actions |-> 0]
    /\ verified = "NOT_APPLICABLE"
    /\ blocked \in 0 .. 1
    /\ domain \in BOOLEAN

Act(a) ==
    \/ SkipAction(a)
    \/ \E outcome \in Outcomes, carried_out \in BOOLEAN :
           RequestAction(a, outcome, carried_out)

\* The steps that n8n takes by itself.
Engine ==
    \/ LookupRules \/ Draft \/ ModelFailsOrTimesOut \/ Plan \/ RetrieveLead
    \/ \E a \in Actions : Act(a)
    \/ VerifyBlocklist \/ Validate

Next ==
    \/ \E r \in Replies : Arrive(r)
    \/ Engine
    \/ \E t \in AITexts : ModelAnswers(t)
    \/ ApproveAndSend

Spec == Init /\ [][Next]_vars

\* n8n runs the next node, and timers end the waits for the model and for the
\* host.  Nothing makes the model answer, or a reviewer act.
FairSpec == Spec /\ WF_vars(Engine)

---------------------------------------------------------------------------
(* Properties *)

Decided == pc \in {"approval", "sent"}

Categories == {"", "OTHER", "AMBIGUOUS"} \cup {c.category : c \in Classifications}
Sources ==
    { "none", "human_only", "deterministic_template", "ai_supervised",
      "ai_commercial_supervised", "ai_failed_fallback",
      "node_exception_fallback" }
DraftType == [text : SUBSET Marks, source : Sources, learned : BOOLEAN]
DecisionType ==
    [ category : Categories, stop : BOOLEAN, dnc : BOOLEAN,
      intent : DNCScopes \cup {"NONE", "REVIEW_HOLD"},
      permitted : BOOLEAN, review : BOOLEAN, valid : BOOLEAN ]

TypeOK ==
    /\ pc \in { "idle", "lookup", "draft", "model", "plan", "lead", "verify",
                 "validate", "approval", "sent" } \cup Actions
    /\ reply \in Replies \cup {NoReply}
    /\ pc # "idle" => reply # NoReply
    /\ seen \subseteq Rows
    /\ class \in Classifications \cup {Named(r.class) : r \in Replies}
                \cup {NoClass}
    /\ rules \subseteq {r.id : r \in Rows}
    /\ decision \in DecisionType
    /\ draft \in DraftType
    /\ actions \in [Actions -> Outcomes \cup {"none", "disabled"}]
    /\ lead \in {"FOUND", "ZERO_MATCHES", "MULTIPLE_MATCHES", "SKIPPED"}
    /\ calls \in [Actions -> Nat]
    /\ verified \in {"NOT_APPLICABLE", "ZERO", "VERIFIED", "MULTIPLE"}
    /\ blocked \in 0 .. 2
    /\ domain \in BOOLEAN

\* A reply is moved to another classification at most once, by the newest
\* rule for the classification it came with, and never out of a protected
\* category; no rule is applied to what a rule made of it, and none at all if
\* D fails, which only names a category where there was none
\* (_5qSelectClassificationLearningRule, _5qApplyDynamicClassificationLearning).
ReclassifiedByNewestRule ==
    Decided =>
        \/ class \in {reply.class, Named(reply.class)} /\ rules = {}
        \/ \E r \in ClassificationRules(seen) :
               /\ rules = {r.id} /\ r.from = reply.class /\ r.to = class
               /\ reply.class.category \notin Protected
               /\ \A s \in ClassificationRules(seen) :
                      s.from = reply.class /\ s.time > r.time =>
                          PromotesBooking(s) /\ ~reply.asks_booking

\* No draft that a reviewer sees, or that is sent, has an unresolved token,
\* wherever it came from: the model, a template, or the text of a rule.
TokensNeverLeave == Decided => ~Unresolved(draft.text)

\* A claim or a boast in a finished draft was put there by a reviewer's rule
\* or, as for a boast, is the fixed text on scope; the model never gets one
\* through (validateAI).  A phrase of E's own list, negated or not, wherever it
\* came from, has cost the draft its leave to be sent (E): with the model, the
\* templates and the rules each adding to a text after D's only search.
ClaimsAreFlagged ==
    Decided =>
        /\ "claim" \in draft.text => \E r \in seen : "claim" \in r.brings
        /\ "boast" \in draft.text =>
               \/ draft.source = "ai_commercial_supervised"
               \/ \E r \in seen : "boast" \in r.brings
        /\ draft.text \cap {"claim", "disclaimed"} # {} =>
               ~decision.valid /\ decision.review /\ ~decision.permitted

\* Categories whose senders are to be put on the blocklist.
Suppressed == {"UNSUBSCRIBE", "HOSTILE_OR_REPUTATIONAL_RISK"}

\* When a reviewer sees the case, each safety action that C decided on and the
\* configuration enables has been requested, once, whatever the learning rules,
\* the model and the host did; and no other action has
\* ("BEFORE_REPLY_APPROVAL_GATE", F to G6).  If the case is shown as one to be
\* suppressed, that includes every enabled action, unless a rule, or the catch
\* of D, put the category there after C had decided.
ActionsPrecedeApproval ==
    Decided =>
        /\ \A a \in Actions :
               calls[a] = IF a \in EnabledActions /\ Planned(a, Decide(reply))
                          THEN 1 ELSE 0
        /\ /\ decision.category \in Suppressed
           /\ rules = {}
           /\ draft.source # "node_exception_fallback"
           => \A a \in EnabledActions : calls[a] = 1

\* A blocklist entry reported as verified is there, for this very address,
\* even if the request that made it got an error for an answer (G4, G5).
VerifiedMeansBlocked == verified = "VERIFIED" => blocked = 1

\* An execution that has begun ends with a case for the reviewer, whatever
\* the model and the host do (the 8 s race of callAI, the 10 s of the nodes).
DecisionEnds == pc = "lookup" ~> Decided

=============================================================================
