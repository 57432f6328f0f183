----------------------------- MODULE SenderPlans -----------------------------
(***************************************************************************)
(* The Sender's loops (module SenderPolicy) and what they are for.  A      *)
(* behaviour grows either a list of attempt outcomes or a list of          *)
(* reconciliation polls, one element at a time, and every list met on the  *)
(* way is an input of the algorithms.                                      *)
(***************************************************************************)
EXTENDS SenderPolicy, FiniteSets

Layer1 == INSTANCE RetryPolicy

CONSTANTS
    Outcomes,      \* outcomes that an attempt may have
    Matches,       \* sets of e-mail ids that a poll may find
    MaxOutcomes,   \* bound: attempts in a list
    MaxPolls       \* bound: polls in a list

\* An error of the network comes without a status; anything else is a status.
ASSUME OutcomesAssumption ==
    \A o \in Outcomes :
        /\ o \in [ kind : {"http", "network-error"}, status : Nat,
                   valid : BOOLEAN, retryAfter : Nat \cup {NoRetryAfter},
                   phase : STRING ]
        /\ o.kind = "network-error" => o.status = NoStatus

ASSUME MatchesAssumption ==
    \A ids \in Matches : IsFiniteSet(ids) /\ ids \subseteq Nat \ {NoMatch}

VARIABLES outcomes, polls

plansVars == <<outcomes, polls>>

PlansInit == outcomes = << >> /\ polls = << >>

AddOutcome(o) ==
    /\ polls = << >>
    /\ Len(outcomes) < MaxOutcomes
    /\ outcomes' = Append(outcomes, o)
    /\ UNCHANGED polls

AddPoll(ids) ==
    /\ outcomes = << >>
    /\ Len(polls) < MaxPolls
    /\ polls' = Append(polls, ids)
    /\ UNCHANGED outcomes

PlansNext ==
    \/ \E o \in Outcomes : AddOutcome(o)
    \/ \E ids \in Matches : AddPoll(ids)

PlansSpec == PlansInit /\ [][PlansNext]_plansVars

-----------------------------------------------------------------------------
Earliest(S) == CHOOSE i \in S : \A j \in S : i <= j

Bound(s) == Min2(Len(s), MAX_SEND_ATTEMPTS)
Definite(s) == {i \in 1..Bound(s) : ~ Retryable(s[i])}

\* The mail is known to have gone out; the server is known to have refused.
Confirmed(o) == o.kind = "http" /\ o.status \in 200..299 /\ o.valid
Refused(o) == o.kind = "http" /\ o.status \in 400..404

\* The plan makes the attempts up to the first definite answer, three at
\* most, and ends in what that answer means: SENT for a confirmed Email
\* object only, and uncertain whenever an effect cannot be ruled out.
PlanIsFirstDefiniteAnswer ==
    outcomes # << >> =>
        LET plan == PlanSendAttempts(outcomes)
            last == IF Definite(outcomes) = {} THEN Bound(outcomes)
                    ELSE Earliest(Definite(outcomes))
            o == outcomes[last]
        IN  /\ plan.attempts = last
            /\ (plan.finalState = "RETRY_EXHAUSTED")
                 <=> (Definite(outcomes) = {})
            /\ (plan.finalState = "SENT") <=> Confirmed(o)
            /\ (plan.finalState = "SEND_UNCERTAIN")
                 <=> ~ Retryable(o) /\ ~ Confirmed(o) /\ ~ Refused(o)

\* "Mirrors verification/v5/layer1/sender-policy.mjs sendReply() loop
\* semantics" (sender-core.mjs:468): whatever the server answers, the plan
\* makes the attempts of the Layer 1 sender, with the same waits between
\* them, and ends in the same state; only the failures that are proven to
\* come before a submission have lost their own state and count as
\* exhausted retries.  In particular no wait exceeds Layer 1's cap.
PlanFollowsLayer1 ==
    outcomes # << >> =>
        LET plan == PlanSendAttempts(outcomes)
            sent == Layer1!SendReply(outcomes)
        IN  sent.finalState # "none" =>
              /\ plan.attempts = sent.attempts
              /\ plan.delays = sent.delays
              /\ plan.finalState =
                   IF sent.finalState = "PRE_SUBMISSION_NETWORK_FAILURE"
                   THEN "RETRY_EXHAUSTED" ELSE sent.finalState

\* A wait comes between every two attempts of a plan and none after the
\* last, and whatever Retry-After the server asks for, none is longer than
\* RETRY_AFTER_CAP_MS (planSendAttempts).
WaitsAreBounded ==
    outcomes # << >> =>
        LET plan == PlanSendAttempts(outcomes)
        IN  plan.delays \in [1..(plan.attempts - 1) -> 0..RETRY_AFTER_CAP_MS]

Several(i) == Cardinality(polls[i]) > 1
Repeated(i) == i > 1 /\ Cardinality(polls[i]) = 1 /\ polls[i] = polls[i - 1]
Deciding == {i \in 1..Len(polls) : Several(i) \/ Repeated(i)}

\* The verdict is that of the first poll that decides: several matches send
\* the case to a human, the same single match on two polls in a row is a
\* confirmed send, and anything less is no match.
ReconcileIsFirstDecidingPoll ==
    ReconcileMatches(polls) =
        IF Deciding = {} THEN "HUMAN_REVIEW_ZERO_MATCHES"
        ELSE IF Several(Earliest(Deciding)) THEN "HUMAN_REVIEW_MULTIPLE_MATCHES"
        ELSE "SENT_RECONCILED"
=============================================================================
