---------------------------- MODULE SenderPolicy ----------------------------
(***************************************************************************)
(* The Sender's pure decisions: what a response of POST /emails/reply      *)
(* means, how often and after which delays it is attempted again, and what *)
(* a series of reconciliation polls shows.  Everything here is constant.   *)
(***************************************************************************)
EXTENDS Integers, Sequences

MAX_SEND_ATTEMPTS == 3
BASE_BACKOFF_MS == 100
MAX_BACKOFF_MS == 2000
RETRY_AFTER_CAP_MS == 5000

\* A response without a status: a timeout, a lost connection, a bad body.
NoStatus == 0

\* No usable Retry-After header.
NoRetryAfter == -1

RetryableStatus == {429, 500, 502, 503, 504}

FinalStates ==
    { "SENT", "PERMANENT_FAILURE", "AUTH_OR_PLAN_FAILURE",
      "INVALID_REPLY_TARGET", "SEND_UNCERTAIN", "RETRY_EXHAUSTED" }

Min2(a, b) == IF a <= b THEN a ELSE b

\* classifySendOutcome: is the outcome worth another attempt?  The proven
\* pre-submission failures are those in which the server saw no request.
Retryable(o) ==
    \/ o.kind = "http" /\ o.status \in RetryableStatus
    \/ o.kind = "network-error"
       /\ o.phase \in {"connection-refused", "pre-submission"}

\* Mutant: a success is believed without looking at its body.
TerminalStateTrusting(o) ==
    CASE o.kind = "http" /\ o.status \in 200..299 -> "SENT"
      [] o.kind = "http" /\ o.status = 400 -> "PERMANENT_FAILURE"
      [] o.kind = "http" /\ o.status \in {401, 402, 403}
           -> "AUTH_OR_PLAN_FAILURE"
      [] o.kind = "http" /\ o.status = 404 -> "INVALID_REPLY_TARGET"
      [] OTHER -> "SEND_UNCERTAIN"

\* The state a non-retryable outcome ends in.
TerminalState(o) ==
    CASE o.kind = "http" /\ o.status \in 200..299 /\ o.valid -> "SENT"
      [] o.kind = "http" /\ o.status = 400 -> "PERMANENT_FAILURE"
      [] o.kind = "http" /\ o.status \in {401, 402, 403}
           -> "AUTH_OR_PLAN_FAILURE"
      [] o.kind = "http" /\ o.status = 404 -> "INVALID_REPLY_TARGET"
      [] OTHER -> "SEND_UNCERTAIN"

DeterministicJitter(attempt) == (attempt * 37) % 50

\* Mutant: the server's Retry-After is obeyed without a cap.
DelayMsUncapped(o, attempt) ==
    IF o.kind = "http" /\ o.status = 429 /\ o.retryAfter # NoRetryAfter
      THEN o.retryAfter * 1000
      ELSE Min2(BASE_BACKOFF_MS * 2^(attempt - 1)
                  + DeterministicJitter(attempt), MAX_BACKOFF_MS)

\* How long to wait after a retryable outcome of the given attempt.
DelayMs(o, attempt) ==
    IF o.kind = "http" /\ o.status = 429 /\ o.retryAfter # NoRetryAfter
      THEN Min2(o.retryAfter * 1000, RETRY_AFTER_CAP_MS)
      ELSE Min2(BASE_BACKOFF_MS * 2^(attempt - 1)
                  + DeterministicJitter(attempt), MAX_BACKOFF_MS)

-----------------------------------------------------------------------------
(***************************************************************************)
(* planSendAttempts: the bounded loop over a list of per-attempt outcomes. *)
(* The loop state after each attempt, as a function of the attempt number; *)
(* once done it stays as it is.                                            *)
(***************************************************************************)
PlanStart ==
    [done |-> FALSE, finalState |-> "NONE", attempts |-> 0,
     delays |-> << >>, secondPostAfterUncertain |-> FALSE]

PlanStep(p, outcomes, attempt) ==
    LET o == outcomes[attempt] IN
    CASE p.done -> p
      [] ~ p.done /\ ~ Retryable(o) ->
           [p EXCEPT !.done = TRUE, !.finalState = TerminalState(o),
                     !.attempts = attempt,
                     !.secondPostAfterUncertain =
                         /\ TerminalState(o) = "SEND_UNCERTAIN"
                         /\ attempt < Len(outcomes)]
      [] ~ p.done /\ Retryable(o)
         /\ (attempt = MAX_SEND_ATTEMPTS \/ attempt = Len(outcomes)) ->
           [p EXCEPT !.done = TRUE, !.finalState = "RETRY_EXHAUSTED",
                     !.attempts = attempt]
      [] OTHER ->
           [p EXCEPT !.attempts = attempt,
                     !.delays = Append(@, DelayMs(o, attempt))]

PlanLoop(outcomes) ==
    LET plan[attempt \in 0..Len(outcomes)] ==
          IF attempt = 0 THEN PlanStart
          ELSE PlanStep(plan[attempt - 1], outcomes, attempt)
    IN  plan

\* outcomes is not empty (for an empty list the code makes up pre-submission
\* failures; no attempt took place, so the model has nothing to say of it).
PlanSendAttempts(outcomes) == PlanLoop(outcomes)[Len(outcomes)]

-----------------------------------------------------------------------------
(***************************************************************************)
(* reconcileMatches: polls is a sequence of sets of matching e-mail ids,   *)
(* oldest first.  The loop state holds the last single match and the       *)
(* length of its run; a verdict, once reached, ends the loop.              *)
(***************************************************************************)
\* The ids are positive numbers.
NoMatch == 0

ReconcileStart == [verdict |-> "NONE", last |-> NoMatch, run |-> 0]

TheOnly(S) == CHOOSE id \in S : S = {id}

\* Mutant: a poll without a match does not break the run of single matches.
ReconcileStepSticky(r, ids) ==
    CASE r.verdict # "NONE" \/ ids = {} -> r
      [] r.verdict = "NONE" /\ (\E a, b \in ids : a # b) ->
           [r EXCEPT !.verdict = "HUMAN_REVIEW_MULTIPLE_MATCHES"]
      [] OTHER ->
           LET id == TheOnly(ids)
               n == IF id = r.last THEN r.run + 1 ELSE 1
           IN  [verdict |-> IF n >= 2 THEN "SENT_RECONCILED" ELSE "NONE",
                last |-> id, run |-> n]

ReconcileStep(r, ids) ==
    CASE r.verdict # "NONE" -> r
      [] r.verdict = "NONE" /\ ids = {} ->
           [r EXCEPT !.last = NoMatch, !.run = 0]
      [] r.verdict = "NONE" /\ (\E a, b \in ids : a # b) ->
           [r EXCEPT !.verdict = "HUMAN_REVIEW_MULTIPLE_MATCHES"]
      [] OTHER ->
           LET id == TheOnly(ids)
               n == IF id = r.last THEN r.run + 1 ELSE 1
           IN  [verdict |-> IF n >= 2 THEN "SENT_RECONCILED" ELSE "NONE",
                last |-> id, run |-> n]

ReconcileLoop(polls) ==
    LET after[i \in 0..Len(polls)] ==
          IF i = 0 THEN ReconcileStart
          ELSE ReconcileStep(after[i - 1], polls[i])
    IN  after

ReconcileMatches(polls) ==
    LET end == ReconcileLoop(polls)[Len(polls)]
    IN  IF end.verdict = "NONE" THEN "HUMAN_REVIEW_ZERO_MATCHES"
        ELSE end.verdict
=============================================================================
