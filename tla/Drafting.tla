------------------------------ MODULE Drafting ------------------------------
(***************************************************************************)
(* What the draft node of the Decision Engine computes from one reply: the *)
(* reclassification by rules that reviewers made, the draft, the rules it  *)
(* is passed through, the checks, and what is recorded of all that.        *)
(*                                                                         *)
(* A text is the set of the marks that the checks and the rules tell       *)
(* apart.  Every text that is there has the mark "text".  Node D searches  *)
(* what the model wrote, node E every finished draft, each for a list of   *)
(* its own, and D lets a phrase pass whose first occurrence is negated:    *)
(*                                                                         *)
(*   claim       on both lists, and D finds it ("guarantee")               *)
(*   disclaimed  on E's list, and D lets it pass ("no case studies, but    *)
(*               this one", "20+")                                         *)
(*   boast       on D's list alone ("we've helped 20 clients", "results")  *)
(*   validation  what no_validation_talk forbids ("validation stage")      *)
(*                                                                         *)
(* A learning row is a record of the table the approval form writes to;    *)
(* its position in the table is its id.                                    *)
(***************************************************************************)
EXTENDS Integers, FiniteSets

Marks ==
    { "text", "claim", "disclaimed", "boast", "validation", "token",
      "near_token", "asks_times", "evasive", "removal", "learned", "ai" }

NoText == {}

InstructionKinds ==
    { "exact_start", "booking_url", "booking_constraint", "pricing",
      "no_validation_talk" }

RuleScopes ==
    {"global", "micro_intent", "broad_category", "targets", "campaign_or_sender"}

\* A classification of a reply: its broad category and its micro intent.
Class(category, micro) == [category |-> category, micro |-> micro]

NoClass == Class("", "")

\* A row of the learning table, as the lookup returns it.  from_form: it has
\* the form's marker, its source case and an instruction; instr is what of the
\* instruction the node acts on.  broken: its list of targets holds a null.
RowType(Classes, Targets) ==
    [ id : Nat, type : {"style", "draft_improvement", "classification"},
      status : {"active", "effective", "proposed"}, from_form : BOOLEAN,
      scope : RuleScopes, target : Targets, instr : SUBSET InstructionKinds,
      brings : SUBSET Marks, from : Classes, to : Classes, time : Nat,
      broken : BOOLEAN ]

\* The row that comes later in the table wins a tie.
Supersedes(r, s) == r.time > s.time \/ (r.time = s.time /\ r.id > s.id)

\* Array.sort of the survivors: the newest first, ties by id.
Precedes(r, s) == r.time > s.time \/ (r.time = s.time /\ r.id <= s.id)

First(rs) == CHOOSE r \in rs : \A s \in rs : Precedes(r, s)

---------------------------------------------------------------------------
(* The rules *)

\* The policy the owner activated, part of the node's code.
OwnerPolicy ==
    [ id |-> 0, type |-> "style", status |-> "active", from_form |-> FALSE,
      scope |-> "global", target |-> "OFFER_EXPLANATION",
      instr |-> {"no_validation_talk"}, brings |-> {}, from |-> NoClass,
      to |-> NoClass, time |-> 1, broken |-> FALSE ]

FormPolicies(rows) ==
    { r \in rows : /\ r.status = "active"
                   /\ r.type = "style"
                   /\ r.from_form }

Policies(rows) == {OwnerPolicy} \cup FormPolicies(rows)

ClassificationRules(rows) ==
    { r \in rows :
        /\ r.status \in {"active", "effective"}
        /\ r.from_form
        /\ r.from.category # "" /\ r.from.micro # ""
        /\ r.to.category # "" /\ r.to.micro # ""
        /\ r.from # r.to }

MicroMatches(target, c) ==
    \/ target = c.micro
    \/ /\ target = "BOOKING_REQUEST"
       /\ c \in { Class("BOOKING_REQUEST", "MEETING_TIME_REQUEST"),
                  Class("INFORMATION_REQUEST", "BOOKING_REQUEST") }

Applies(p, c) ==
    \/ p.scope = "global"
    \/ p.scope = "micro_intent" /\ MicroMatches(p.target, c)
    \/ p.scope = "broad_category" /\ p.target = c.category
    \/ p.scope = "targets" /\ p.target \in {c.category, c.micro}
    \/ p.scope = "campaign_or_sender" /\ p.target = "of_this_reply"

SameScope(p, q) == p.scope = q.scope /\ p.target = q.target

\* The active policies that hold for a classification: the newest of each scope.
Matched(rows, c) ==
    LET applying == {p \in Policies(rows) : Applies(p, c)}
    IN  { p \in applying :
            \A q \in applying : SameScope(p, q) => ~Supersedes(q, p) }

FormCreated(matched) == {p \in matched : p.from_form}

Telling(matched, kind) == {p \in matched : kind \in p.instr}

PromotesBooking(r) ==
    \/ r.to.category = "BOOKING_REQUEST"
    \/ r.to.micro \in {"BOOKING_REQUEST", "MEETING_TIME_REQUEST"}

\* Baseline categories no rule may move a reply out of.
Protected ==
    { "UNSUBSCRIBE", "LEGAL_PRIVACY_OR_COMPLAINT", "BOUNCE_OR_DELIVERY_NOTICE",
      "HOSTILE_OR_REPUTATIONAL_RISK", "OUT_OF_OFFICE" }

Relearnable(reply, rows) ==
    { r \in ClassificationRules(rows) :
        /\ reply.class.category \notin Protected
        /\ r.from = reply.class
        /\ PromotesBooking(r) => reply.asks_booking }

\* Mutant: within a scope the first row of the table wins, not the newest.
SelectedRuleOldest(reply, rows) ==
    LET candidates == Relearnable(reply, rows)
        oldest == { r \in candidates :
                      \A s \in candidates : r.scope = s.scope => r.id <= s.id }
    IN  IF oldest = {} THEN {} ELSE {First(oldest)}

\* The rule that reclassifies the reply, as a set of at most one row.
SelectedRule(reply, rows) ==
    LET candidates == Relearnable(reply, rows)
        newest == { r \in candidates :
                      \A s \in candidates :
                          r.scope = s.scope => ~Supersedes(s, r) }
    IN  IF newest = {} THEN {} ELSE {First(newest)}

---------------------------------------------------------------------------
(* The draft *)

DraftPolicyFor(micro, commercial_safe) ==
    IF micro = "PRICING_REQUEST" /\ commercial_safe
    THEN "AI_COMMERCIAL_SUPERVISED"
    ELSE IF micro \in { "PROOF_OR_CASE_STUDY_REQUEST", "OFFER_EXPLANATION",
                        "HOW_IT_WORKS_REQUEST", "CURRENT_OUTBOUND_VENDOR",
                        "AMBIGUOUS_SHORT_REPLY", "POSITIVE_INTEREST_GENERAL" }
    THEN "AI_SUPERVISED_OR_TEMPLATE"
    ELSE IF micro \in { "MEETING_TIME_REQUEST", "BOOKING_REQUEST", "NOT_NOW",
                        "NOT_INTERESTED", "WRONG_PERSON", "NON_PRIORITY" }
    THEN "FIXED_TEMPLATE"
    ELSE IF micro = "UNSUBSCRIBE_OR_COMPLAINT"
    THEN "FIXED_TEMPLATE_SUPPRESS_ONLY"
    ELSE IF micro = "OOO_AUTO_REPLY" THEN "NO_DRAFT" ELSE "HUMAN_ONLY"

TemplateOf(micro) ==
    IF micro = "BOOKING_REQUEST" THEN "MEETING_TIME_REQUEST"
    ELSE IF micro = "NON_PRIORITY" THEN "NOT_NOW" ELSE micro

\* MI_TEMPLATES, rendered: their tokens are all resolved or named as
\* unresolved in brackets.  Only the marks of the texts are kept.
Template(micro) ==
    IF micro = "MEETING_TIME_REQUEST" THEN {"text", "asks_times", "validation"}
    ELSE IF micro = "POSITIVE_INTEREST_GENERAL" THEN {"text", "asks_times"}
    ELSE IF micro = "PROOF_OR_CASE_STUDY_REQUEST"
    THEN {"text", "disclaimed", "validation"}
    ELSE IF micro \in {"HOW_IT_WORKS_REQUEST", "CURRENT_OUTBOUND_VENDOR"}
    THEN {"text", "validation"}
    ELSE IF micro = "UNSUBSCRIBE_OR_COMPLAINT" THEN {"text", "removal"}
    ELSE IF micro \in { "OFFER_EXPLANATION", "NOT_NOW", "NOT_INTERESTED",
                        "WRONG_PERSON", "AMBIGUOUS_SHORT_REPLY" }
    THEN {"text"} ELSE NoText

\* buildPolicyAwareFallback
Fallback(micro, deterministic) ==
    IF micro = "OFFER_EXPLANATION" THEN {"text"}
    ELSE IF /\ deterministic = NoText
            /\ micro \in { "HOW_IT_WORKS_REQUEST", "AMBIGUOUS_SHORT_REPLY",
                           "POSITIVE_INTEREST_GENERAL" }
    THEN {"text"} ELSE deterministic

FallbackText(micro) == Fallback(micro, Template(TemplateOf(micro)))

\* What it says of the scope ends in "then review results together".
CommercialText(reply) ==
    {"text", "evasive"} \cup (IF reply.asks_scope THEN {"boast"} ELSE {})

\* Mutant: only what the active policies forbid is looked for.
AIFlawsOfPolicies(text, matched, reply) ==
    IF Telling(matched, "no_validation_talk") # {} /\ ~reply.asks_proof
    THEN text \cap {"validation"} ELSE {}

\* validateAI: what is wrong with the text of the model.  A token passes if
\* its name starts like a known one or a "no" precedes it (near_token).
\* Flaws of form (length, dense paragraphs) end like an answer of the wrong
\* form does.
AIFlaws(text, matched, reply) ==
    (text \cap {"claim", "boast", "token"})
    \cup (IF Telling(matched, "no_validation_talk") # {} /\ ~reply.asks_proof
          THEN text \cap {"validation"} ELSE {})

---------------------------------------------------------------------------
(* Active rules edit the draft *)

ApplyExactStart(text, matched) ==
    LET telling == Telling(matched, "exact_start")
    IN  IF telling = {} THEN text
        ELSE text \cup First(telling).brings \cup {"learned"}

\* A rule with a link replaces the draft; one without edits it.
ApplyFormInstruction(text, micro, matched) ==
    LET form == FormCreated(matched)
        linked == Telling(form, "booking_url")
    IN  IF micro \notin {"BOOKING_REQUEST", "MEETING_TIME_REQUEST"} THEN text
        ELSE IF linked # {}
        THEN {"text", "learned"} \cup UNION {p.brings : p \in linked}
        ELSE IF Telling(form, "booking_constraint") # {}
        THEN (text \ {"asks_times"}) \cup {"learned"}
        ELSE text

ApplyPricing(text, matched) ==
    IF /\ FormCreated(matched) # {}
       /\ Telling(matched, "pricing") # {}
       /\ "evasive" \in text
    THEN (text \ {"evasive"}) \cup {"learned"} ELSE text

Postprocessed(text, micro, matched) ==
    IF text = NoText THEN NoText
    ELSE ApplyPricing(
           ApplyFormInstruction(ApplyExactStart(text, matched), micro, matched),
           matched)

Unresolved(text) == text \cap {"token", "near_token"} # {}

\* _5qDraftLearningDelta
Changed(before, after) == after # NoText /\ after # before

\* Mutant: the tokens are looked for before the rules are applied.
FinishedUnchecked(text, source, micro, matched) ==
    LET back == Unresolved(text)
        final == Postprocessed(IF back THEN FallbackText(micro) ELSE text,
                               micro, matched)
    IN  [ text |-> final,
          source |-> IF back THEN "ai_failed_fallback" ELSE source,
          learned |-> FormCreated(matched) # {} /\ Changed(text, final) ]

\* A text before the rules and its source make the draft: rules, then the
\* check for tokens, which falls back to a text no rule has been applied to.
Finished(text, source, micro, matched) ==
    LET edited == Postprocessed(text, micro, matched)
        back == Unresolved(edited)
        final == IF back THEN FallbackText(micro) ELSE edited
    IN  [ text |-> final,
          source |-> IF back THEN "ai_failed_fallback" ELSE source,
          learned |-> FormCreated(matched) # {} /\ Changed(text, final) ]

\* The draft where the model is not asked.
FixedDraft(policy, reply, micro, matched) ==
    IF policy \in { "AI_SUPERVISED_OR_TEMPLATE", "FIXED_TEMPLATE",
                    "FIXED_TEMPLATE_SUPPRESS_ONLY" }
    THEN Finished(FallbackText(micro), "deterministic_template", micro, matched)
    ELSE IF policy = "AI_COMMERCIAL_SUPERVISED"
    THEN Finished(CommercialText(reply), "ai_commercial_supervised", micro,
                  matched)
    ELSE Finished(NoText, IF policy = "NO_DRAFT" THEN "none" ELSE "human_only",
                  micro, matched)

FallbackDraft(micro, matched) ==
    Finished(FallbackText(micro), "ai_failed_fallback", micro, matched)

\* The draft of a text of the model.
AIDraft(text, reply, micro, matched) ==
    IF AIFlaws(text, matched, reply) = {}
    THEN Finished(text, "ai_supervised", micro, matched)
    ELSE FallbackDraft(micro, matched)

\* The catch of the loop: a draft without template, rules or checks.
ExceptionDraft(micro, has_text) ==
    LET fallback == Fallback(micro, NoText)
    IN  [ text |-> IF fallback = NoText /\ has_text THEN {"text"} ELSE fallback,
          source |-> "node_exception_fallback", learned |-> FALSE ]
=============================================================================
