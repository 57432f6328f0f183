----------------------------- MODULE RetryPolicy -----------------------------
(***************************************************************************)
(* The Layer 1 sender: how one POST attempt is classified, and the loop    *)
(* that submits again, waits, or stops.  The Sender's planning functions   *)
(* (module SenderPolicy) were ported from it.  The server is the mock of   *)
(* the Layer 1 tests: for each scenario, what a client of it observes.     *)
(* Everything here is constant.                                            *)
(***************************************************************************)
EXTENDS Integers, Sequences

MAX_ATTEMPTS == 3

\* No usable Retry-After header;  no status.
NoHeader == -1
NoResponse == 0

Shorter(a, b) == IF a <= b THEN a ELSE b
defaultJitter(attempt) == (attempt * 37) % 50

\* An attempt's outcome.  valid: the body is {status: "sent", messageId}.
Answer(status, valid, retryAfter) ==
    [ kind |-> "http", status |-> status, valid |-> valid,
      retryAfter |-> retryAfter, phase |-> "none" ]
NetworkFailure(phase) ==
    [ kind |-> "network-error", status |-> NoResponse, valid |-> FALSE,
      retryAfter |-> NoHeader, phase |-> phase ]

-----------------------------------------------------------------------------
(***************************************************************************)
(* The mock server and its clients.                                        *)
(***************************************************************************)
\* Paths that answer with a status, and no header but 429's Retry-After: 1.
StatusPaths == {400, 401, 402, 403, 404, 429, 500, 502, 503, 504}
RateLimited == Answer(429, FALSE, 1)
delayedSuccess == Answer(200, TRUE, NoHeader)
malformedSuccess == Answer(200, FALSE, NoHeader)
resetBeforeBody == NetworkFailure("connection-loss-before-confirmed")
resetAfterBody == NetworkFailure("connection-loss-after-submission")
neverRespond == NetworkFailure("timeout-after-submission")
connectionRefused == NetworkFailure("connection-refused")
preSubmission == NetworkFailure("pre-submission")

Scenarios ==
    {Answer(status, FALSE, NoHeader) : status \in StatusPaths}
      \cup { RateLimited, delayedSuccess, malformedSuccess, resetBeforeBody,
             resetAfterBody, neverRespond, connectionRefused, preSubmission }

-----------------------------------------------------------------------------
\* classifyOutcome: retryable with the state it ends in when attempts run
\* out, or terminal.
RetryableNetworkPhases == {"connection-refused", "pre-submission"}

IsRetryable(o) ==
    \/ o.kind = "http" /\ o.status \in {429, 500, 502, 503, 504}
    \/ o.kind = "network-error" /\ o.phase \in RetryableNetworkPhases

StateOf(o) ==
    IF o.kind = "network-error"
      THEN IF o.phase \in RetryableNetworkPhases
           THEN "PRE_SUBMISSION_NETWORK_FAILURE" ELSE "SEND_UNCERTAIN"
    ELSE IF o.status = 400 THEN "PERMANENT_FAILURE"
    ELSE IF o.status \in {401, 402, 403} THEN "AUTH_OR_PLAN_FAILURE"
    ELSE IF o.status = 404 THEN "INVALID_REPLY_TARGET"
    ELSE IF IsRetryable(o) THEN "RETRY_EXHAUSTED"
    ELSE IF o.status \in 200..299 /\ o.valid THEN "SENT"
    ELSE "SEND_UNCERTAIN"

\* parseRetryAfterMs, for 429 only; otherwise exponential backoff.
DelayAfter(o, attempt) ==
    IF o.status = 429 /\ o.retryAfter # NoHeader
      THEN Shorter(o.retryAfter * 1000, 5000)
      ELSE Shorter(100 * 2^(attempt - 1) + defaultJitter(attempt), 2000)

\* sendReply: submit answers the n-th attempt with outcomes[n]; the loop
\* state after each attempt, for as long as the list has answers.
SendStart == [finalState |-> "none", attempts |-> 0, delays |-> << >>]

SendStep(s, o) ==
    IF s.finalState # "none" THEN s
    ELSE IF ~IsRetryable(o) \/ s.attempts + 1 = MAX_ATTEMPTS
      THEN [s EXCEPT !.finalState = StateOf(o), !.attempts = @ + 1]
      ELSE [s EXCEPT !.attempts = @ + 1,
                     !.delays = Append(@, DelayAfter(o, s.attempts + 1))]

SendLoop(outcomes) ==
    LET after[n \in 0..Len(outcomes)] ==
          IF n = 0 THEN SendStart ELSE SendStep(after[n - 1], outcomes[n])
    IN  after

SendReply(outcomes) == SendLoop(outcomes)[Len(outcomes)]

=============================================================================
