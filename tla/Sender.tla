------------------------------- MODULE Sender -------------------------------
(***************************************************************************)
(* Workflow 03, the Reply Sender, as patched for live operation, composed  *)
(* with the hmz-send-state sidecar (SendState) and the Instantly API       *)
(* (external).                                                             *)
(*                                                                         *)
(* Every execution of the workflow walks its nodes, named here by their    *)
(* letters: gates (A-C), acquisition (E-F), suppression (G-I), the DRY_RUN *)
(* gate (J-K), the 14 live gates (O-P), the POST and its retries (Q-T),    *)
(* the persisted result (X), and reconciliation of an uncertain send       *)
(* (V-W4).  n8n runs any number of executions side by side, an execution   *)
(* may die at any node, and a request to the sidecar may be lost, or       *)
(* answered after its caller has given up.                                 *)
(***************************************************************************)
EXTENDS SendState, SenderPolicy

CONSTANTS
    Execs,      \* executions of the Sender
    KeyOf,      \* KeyOf[e]: the send key that execution e computes
    DryRun,     \* DryRun[e]: DRY_RUN of the configuration that e runs with
    MaxPosts,   \* bound: POSTs of one execution that the model follows
    NoExec      \* nobody waits for the handler's answer

ASSUME KeyOfAssumption == KeyOf \in [Execs -> Keys]
ASSUME NoExecAssumption == NoExec \notin Execs
ASSUME DryRunAssumption == DryRun \in [Execs -> BOOLEAN]
ASSUME MaxPostsAssumption == MaxPosts \in Nat

Nodes ==
    { "start", "E", "E2", "G", "J", "K", "K2", "O", "Q", "R", "T", "X", "X2",
      "V", "W3", "end" }

\* Nodes that wait for the sidecar's response.
WaitingNodes == {"E2", "K2", "X2"}

\* terminal.result, with the two kinds of BLOCKED and of gates told apart.
Results ==
    { "NONE", "GATES_FAILED", "NOT_ACQUIRED", "ESCALATED", "DRY_RUN_OK",
      "LIVE_GATES_FAILED", "SENT", "FAILED", "HUMAN_REVIEW", "CRASHED" }

\* What node Q can come back with, and whether the mail may have gone out.
Response(status, valid) ==
    [kind |-> "http", status |-> status, valid |-> valid,
     retryAfter |-> NoRetryAfter, phase |-> "none"]
Responses ==
    { Response(200, TRUE), Response(200, FALSE), Response(400, FALSE),
      Response(401, FALSE), Response(404, FALSE), Response(429, FALSE),
      Response(504, FALSE), Response(NoStatus, FALSE) }
NoResponse == Response(-1, FALSE)

\* A confirmed Email object was sent; a request refused with 4xx was not;
\* of a gateway error, a timeout or an odd body nobody knows.
Deliveries(o) ==
    IF o.status = 200 /\ o.valid THEN {1}
    ELSE IF o.status \in 400..499 THEN {0}
    ELSE {0, 1}

VARIABLES
    node,       \* node[e]: the next node of execution e
    result,     \* result[e]: terminal.result once it has ended
    acquired,   \* acquired[e]: acquisition.acquired
    outcome,    \* outcome[e]: last_outcome, the response of the last POST
    wire,       \* wire[e]: e's request on its way to the sidecar
    client,     \* client[s]: the execution process s is answering
    posts,      \* history: POSTs that e has issued
    mail,       \* mail[k]: e-mails the prospect got for send key k
    faulty      \* history: keys with a lost or late call or a dead execution

execution == <<node, result, acquired, outcome>>
network == <<wire, client>>
record == <<posts, mail, faulty>>
senderVars == <<vars, execution, network, record>>

SenderTypeOK ==
    /\ TypeOK
    /\ node \in [Execs -> Nodes]
    /\ result \in [Execs -> Results]
    /\ acquired \in [Execs -> BOOLEAN]
    /\ outcome \in [Execs -> Responses \cup {NoResponse}]
    /\ wire \in [Execs -> Requests \cup {NoReq}]
    /\ client \in [Servers -> Execs \cup {NoExec}]
    /\ posts \in [Execs -> Nat]
    /\ mail \in [Keys -> Nat]
    /\ faulty \in SUBSET Keys

SenderInit ==
    /\ Init
    /\ node = [e \in Execs |-> "start"]
    /\ result = [e \in Execs |-> "NONE"]
    /\ acquired = [e \in Execs |-> FALSE]
    /\ outcome = [e \in Execs |-> NoResponse]
    /\ wire = [e \in Execs |-> NoReq]
    /\ client = [s \in Servers |-> NoExec]
    /\ posts = [e \in Execs |-> 0]
    /\ mail = [k \in Keys |-> 0]
    /\ faulty = {}

-----------------------------------------------------------------------------
GoTo(e, n) == node' = [node EXCEPT ![e] = n]

End(e, r) ==
    /\ GoTo(e, "end")
    /\ result' = [result EXCEPT ![e] = r]

\* A, B, C: validation and send gates over the approved case.
RunSendGates(e) ==
    /\ node[e] = "start"
    /\ \/ GoTo(e, "E") /\ UNCHANGED result
       \/ End(e, "GATES_FAILED")
    /\ UNCHANGED <<vars, acquired, outcome, network, record>>

\* A request leaves for the sidecar and the execution waits at node n.
Call(e, request, n) ==
    /\ GoTo(e, n)
    /\ wire' = [wire EXCEPT ![e] = request]

\* D, E: compute the stable key and ask for it.
AcquireSendOwnership(e) ==
    /\ node[e] = "E"
    /\ Call(e, AcquireOf(KeyOf[e]), "E2")
    /\ UNCHANGED <<vars, result, acquired, outcome, client, record>>

\* Mutant: whatever is not a refusal counts as acquired, a lost answer too.
NormalizeAcquisitionResultLenient(a) ==
    a \notin {"LOCK_ALREADY_HELD", "DURABLE_STATE_EXISTS"}

\* Mutant: E2 reads the "ok" of a transition instead of "acquired".
NormalizeAcquisitionResultOk(a) == a = "OK"

\* E2: only an explicit acquired === true counts, so an error item (a refused
\* or timed-out request) does not.
NormalizeAcquisitionResult(a) == a = "ACQUIRED"

\* The response of the sidecar (or "BAD_REQUEST" for a call that failed on
\* the way) reaches the node after the call: E2 and F route on it, K2 and X2
\* build their terminal result whatever it says.
Deliver(e, a) ==
    CASE node[e] = "E2" ->
           /\ acquired' = [acquired EXCEPT
                             ![e] = NormalizeAcquisitionResult(a)]
           /\ IF NormalizeAcquisitionResult(a)
                THEN GoTo(e, "G") /\ UNCHANGED result
                ELSE End(e, "NOT_ACQUIRED")
      [] node[e] = "X2" -> End(e, "SENT") /\ UNCHANGED acquired
      [] OTHER -> End(e, "DRY_RUN_OK") /\ UNCHANGED acquired

\* G, H, I: required suppression actions are verified, or the case escalates.
VerifySuppression(e) ==
    /\ node[e] = "G"
    /\ \/ GoTo(e, "J") /\ UNCHANGED result
       \/ End(e, "ESCALATED")
    /\ UNCHANGED <<vars, acquired, outcome, network, record>>

\* J.
DryRunGate(e) ==
    /\ node[e] = "J"
    /\ GoTo(e, IF DryRun[e] THEN "K" ELSE "O")
    /\ UNCHANGED <<vars, result, acquired, outcome, network, record>>

\* K.
TransitionToDryRunOk(e) ==
    /\ node[e] = "K"
    /\ Call(e, TransitionOf(KeyOf[e], "DRY_RUN_OK"), "K2")
    /\ UNCHANGED <<vars, result, acquired, outcome, client, record>>

\* O, P: all 14 gates pass, or P2 ends the execution.  The gate on the
\* acquisition is the one that depends on this model's state.
LiveSendGates(e) ==
    /\ node[e] = "O"
    /\ \/ acquired[e] /\ GoTo(e, "Q") /\ UNCHANGED result
       \/ End(e, "LIVE_GATES_FAILED")
    /\ UNCHANGED <<vars, acquired, outcome, network, record>>

\* Q: the POST, which Instantly carries out or not.
PostReply(e) ==
    /\ node[e] = "Q"
    /\ posts[e] < MaxPosts
    /\ \E o \in Responses : \E d \in Deliveries(o) :
         /\ outcome' = [outcome EXCEPT ![e] = o]
         /\ mail' = [mail EXCEPT ![KeyOf[e]] = @ + d]
    /\ posts' = [posts EXCEPT ![e] = @ + 1]
    /\ GoTo(e, "R")
    /\ UNCHANGED <<vars, result, acquired, network, faulty>>

\* R takes the earlier attempts from node O's item, which has none: it is
\* upstream of the loop.  So every attempt is the first.
AttemptNumber(e) == 1

\* Mutant: a response without a status is taken for a failure before the
\* request went out.
ClassifySendAttemptOptimistic(e) ==
    LET o == outcome[e]
        again == Retryable(o) \/ o.status = NoStatus
    IN
    /\ node[e] = "R"
    /\ \/ again /\ GoTo(e, "T") /\ UNCHANGED result
       \/ ~ again /\ o.valid /\ GoTo(e, "X") /\ UNCHANGED result
       \/ ~ again /\ ~ o.valid /\ End(e, "FAILED")
    /\ UNCHANGED <<vars, acquired, outcome, network, record>>

\* R, S, U, U2: classify the response and route on it.
ClassifySendAttempt(e) ==
    LET o == outcome[e]
        again == Retryable(o) /\ AttemptNumber(e) < MAX_SEND_ATTEMPTS
        final == IF Retryable(o) THEN "RETRY_EXHAUSTED" ELSE TerminalState(o)
    IN
    /\ node[e] = "R"
    /\ \/ again /\ GoTo(e, "T") /\ UNCHANGED result
       \/ ~ again /\ final = "SENT" /\ GoTo(e, "X") /\ UNCHANGED result
       \/ ~ again /\ final = "SEND_UNCERTAIN" /\ GoTo(e, "V")
            /\ UNCHANGED result
       \/ ~ again /\ final \notin {"SENT", "SEND_UNCERTAIN"}
            /\ End(e, "FAILED")
    /\ UNCHANGED <<vars, acquired, outcome, network, record>>

\* Mutant: after the wait the live gates are evaluated again.
RetryBackoffWaitThroughGates(e) ==
    /\ node[e] = "T"
    /\ GoTo(e, "O")
    /\ UNCHANGED <<vars, result, acquired, outcome, network, record>>

\* T: the wait is over.
RetryBackoffWait(e) ==
    /\ node[e] = "T"
    /\ GoTo(e, "Q")
    /\ UNCHANGED <<vars, result, acquired, outcome, network, record>>

\* X: the body names the new state "state", where the sidecar reads toState.
PersistSentResult(e) ==
    /\ node[e] = "X"
    /\ Call(e, TransitionOf(KeyOf[e], UnknownState), "X2")
    /\ UNCHANGED <<vars, result, acquired, outcome, client, record>>

\* W takes the earlier polls from node R's item, which has none: only the
\* poll just made counts, and polls_taken is always one.
PollsSeen(matches) == <<matches>>
MAX_RECONCILIATION_POLLS == 2

\* V, W, W2: some of the delivered mails are listed by now.
ReconciliationPoll(e) ==
    /\ node[e] = "V"
    /\ \E matches \in SUBSET (1..mail[KeyOf[e]]) :
         LET verdict == ReconcileMatches(PollsSeen(matches))
             more == /\ verdict \notin { "SENT_RECONCILED",
                                         "HUMAN_REVIEW_MULTIPLE_MATCHES" }
                     /\ Len(PollsSeen(matches)) < MAX_RECONCILIATION_POLLS
         IN  IF more THEN GoTo(e, "W3") /\ UNCHANGED result
             ELSE End(e, IF verdict = "SENT_RECONCILED" THEN "SENT"
                         ELSE "HUMAN_REVIEW")
    /\ UNCHANGED <<vars, acquired, outcome, network, record>>

\* W3: two seconds later.
ReconciliationWait(e) ==
    /\ node[e] = "W3"
    /\ GoTo(e, "V")
    /\ UNCHANGED <<vars, result, acquired, outcome, network, record>>

\* n8n stops, or kills the execution: it is not resumed.
ExecutionDies(e) ==
    /\ node[e] \notin {"start", "end"}
    /\ End(e, "CRASHED")
    /\ faulty' = faulty \cup {KeyOf[e]}
    /\ client' = [s \in Servers |->
                    IF client[s] = e THEN NoExec ELSE client[s]]
    /\ UNCHANGED <<vars, acquired, outcome, wire, posts, mail>>

-----------------------------------------------------------------------------
(***************************************************************************)
(* Between the executions and the sidecar.                                 *)
(***************************************************************************)

\* Mutant: only the acquire call has a timeout.
CallFailsAcquireOnly(e) ==
    /\ node[e] = "E2"
    /\ Deliver(e, "BAD_REQUEST")
    /\ client' = [s \in Servers |->
                    IF client[s] = e THEN NoExec ELSE client[s]]
    /\ faulty' = faulty \cup {KeyOf[e]}
    /\ UNCHANGED <<vars, outcome, wire, posts, mail>>

\* The HTTP client gives up after 5000 ms, or its connection breaks.  The
\* request may still be on its way or in the handler's hands.
CallFails(e) ==
    /\ node[e] \in WaitingNodes
    /\ Deliver(e, "BAD_REQUEST")
    /\ client' = [s \in Servers |->
                    IF client[s] = e THEN NoExec ELSE client[s]]
    /\ faulty' = faulty \cup {KeyOf[e]}
    /\ UNCHANGED <<vars, outcome, wire, posts, mail>>

RequestLost(e) ==
    /\ wire[e] # NoReq
    /\ wire' = [wire EXCEPT ![e] = NoReq]
    /\ faulty' = faulty \cup {KeyOf[e]}
    /\ UNCHANGED <<vars, execution, client, posts, mail>>

RequestArrives(s, e) ==
    /\ wire[e] # NoReq
    /\ Receive(s, wire[e])
    /\ wire' = [wire EXCEPT ![e] = NoReq]
    /\ client' = [client EXCEPT ![s] =
                    IF node[e] \in WaitingNodes THEN e ELSE NoExec]
    /\ UNCHANGED <<execution, record>>

\* One call of a handler; a process that dies drops its connection.
SidecarStep(s) ==
    /\ \/ CreateLock(s) /\ UNCHANGED client
       \/ CheckPriorState(s) /\ UNCHANGED client
       \/ CheckTransition(s) /\ UNCHANGED client
       \/ WriteState(s) /\ UNCHANGED client
       \/ ReleaseLock(s) /\ UNCHANGED client
       \/ FileError(s) /\ UNCHANGED client
       \/ Crash(s) /\ client' = [client EXCEPT ![s] = NoExec]
    /\ UNCHANGED <<execution, wire, record>>

SidecarReplies(s) ==
    /\ Reply(s)
    /\ \/ /\ client[s] \in Execs
          /\ Deliver(client[s], answer[s])
       \/ /\ client[s] = NoExec
          /\ UNCHANGED <<node, result, acquired>>
    /\ client' = [client EXCEPT ![s] = NoExec]
    /\ UNCHANGED <<outcome, wire, record>>

-----------------------------------------------------------------------------
NodeStep(e) ==
    \/ RunSendGates(e)
    \/ AcquireSendOwnership(e)
    \/ VerifySuppression(e)
    \/ DryRunGate(e)
    \/ TransitionToDryRunOk(e)
    \/ LiveSendGates(e)
    \/ PostReply(e)
    \/ ClassifySendAttempt(e)
    \/ RetryBackoffWait(e)
    \/ PersistSentResult(e)
    \/ ReconciliationPoll(e)
    \/ ReconciliationWait(e)

SenderNext ==
    \/ \E e \in Execs :
         \/ NodeStep(e)
         \/ CallFails(e)
         \/ RequestLost(e)
         \/ ExecutionDies(e)
    \/ \E s \in Servers :
         \/ \E e \in Execs : RequestArrives(s, e)
         \/ SidecarStep(s)
         \/ SidecarReplies(s)

SenderSpec == SenderInit /\ [][SenderNext]_senderVars

\* n8n runs the next node of an execution it has started, and its HTTP
\* client gives up on a call that stays unanswered.  Nothing is assumed of
\* the sidecar or of Instantly's answers.
StartedStep(e) == node[e] # "start" /\ NodeStep(e)

FairSenderSpec ==
    /\ SenderSpec
    /\ \A e \in Execs :
         /\ WF_senderVars(StartedStep(e))
         /\ WF_senderVars(CallFails(e))

-----------------------------------------------------------------------------
SendersOf(k) == {e \in Execs : KeyOf[e] = k}
Troubled == faulty \cup aborted

\* Duplicate protection end to end: of all the executions for a send key,
\* concurrent or one after the other, with lost and late answers, dying
\* executions and a crashing sidecar, at most one ever POSTs to Instantly.
OnePosterPerKey ==
    \A k \in Keys : \A e, f \in SendersOf(k) :
        posts[e] > 0 /\ posts[f] > 0 => e = f

\* The Sender is one of SendOnce: an answer that it stopped (gates, refused
\* key, suppression, DRY_RUN) means that it never POSTed, one that names the
\* outcome of a POST means that it did, and the key it POSTs for is its own.
StoppedResults ==
    { "GATES_FAILED", "NOT_ACQUIRED", "ESCALATED", "DRY_RUN_OK",
      "LIVE_GATES_FAILED" }
PostedResults == {"SENT", "FAILED", "HUMAN_REVIEW"}
StageOf(e) ==
    IF result[e] \in StoppedResults THEN "over"
    ELSE IF result[e] \in PostedResults THEN "done"
    ELSE IF posts[e] > 0 THEN "posted"
    ELSE IF node[e] = "end" THEN "over"
    ELSE IF acquired[e] THEN "owner" ELSE "asked"

Once == INSTANCE SendOnce WITH
    Senders <- Execs,
    claimed <- {KeyOf[e] : e \in {f \in Execs : acquired[f]}},
    stage <- [e \in Execs |-> StageOf(e)],
    holds <- [e \in Execs |-> IF StageOf(e) \in {"owner", "posted", "done"}
                              THEN {KeyOf[e]} ELSE {}]
SendsOnce == Once!Spec

\* A key for which a POST went out is in the unfinished listing from then on,
\* whatever happens to the execution: the SLA watchdog will see it.
EveryPostIsListed ==
    \A e \in Execs : posts[e] > 0 => KeyOf[e] \in UnfinishedKeys

\* An execution that reports SENT is right: whatever was retried, lost or
\* still unlisted, the prospect got a mail for its key.  No status is taken
\* for a success without the Email object, and no poll without a match.
SentMeansMailed == \A e \in Execs : result[e] = "SENT" => mail[KeyOf[e]] > 0

\* An execution that was not given its key was refused for another one's
\* sake, unless a call was lost, timed out or failed, or something died.
RefusalHasCause ==
    \A e \in Execs :
        (result[e] = "NOT_ACQUIRED" /\ KeyOf[e] \notin Troubled) =>
            \E f \in SendersOf(KeyOf[e]) \ {e} : acquired[f]

\* Once a POST for a key got a response that is not known to be harmless to
\* retry (a success, a refusal, a timeout, an odd body), no execution POSTs
\* for that key again: SEND_UNCERTAIN leads to reconciliation only.
NoPostAfterDefiniteOutcome ==
    [][\A k \in Keys : \A e, f \in SendersOf(k) :
          posts'[e] > posts[e] =>
              outcome[f] = NoResponse \/ Retryable(outcome[f])]_posts

\* An execution with DRY_RUN=true POSTs nothing, whoever runs beside it and
\* whatever fails.
DryRunPostsNothing == \A e \in Execs : DryRun[e] => posts[e] = 0

\* An execution that has passed its gates ends, whatever the sidecar does,
\* unless it keeps on POSTing or keeps on polling.
EndsUnlessLooping ==
    \A e \in Execs :
        \/ []<>(node[e] = "Q")
        \/ []<>(node[e] = "V")
        \/ (node[e] = "E") ~> (node[e] = "end")

-----------------------------------------------------------------------------
(***************************************************************************)
(* What the repository's documents say of the Sender and its code does     *)
(* not do.                                                                 *)
(***************************************************************************)

\* docs/STATE_AND_IDEMPOTENCY.md: "Maximum total attempts for retryable
\* pre-confirmation outcomes: three, including the first attempt."
AtMostThreeAttempts == \A e \in Execs : posts[e] <= MAX_SEND_ATTEMPTS

=============================================================================
