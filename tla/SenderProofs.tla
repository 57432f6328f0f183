---------------------------- MODULE SenderProofs ----------------------------
(***************************************************************************)
(* Theorems about the composition of the Sender with the sidecar, for any  *)
(* number of executions, keys and sidecar processes, with lost calls, dead *)
(* executions and a sidecar that crashes.  The sidecar's own invariant     *)
(* OwnershipInv (SendStateProofs) is reused as it stands: every step of    *)
(* the composition is a step of the sidecar or leaves it alone.            *)
(* The later parts are about the Sender's plans, for lists of any length,  *)
(* and what they give the composition.                                     *)
(***************************************************************************)
EXTENDS Sender, SendStateProofs, SenderPlans, FiniteSetTheorems,
        WellFoundedInduction

LEMMA KeyOfFacts ==
    /\ \A e \in Execs : KeyOf[e] \in Keys
    /\ \A e \in Execs : AcquireOf(KeyOf[e]) \in Requests
    /\ \A e \in Execs : TransitionOf(KeyOf[e], "DRY_RUN_OK") \in Requests
    /\ \A e \in Execs : TransitionOf(KeyOf[e], UnknownState) \in Requests
<1>1. \A e \in Execs : KeyOf[e] \in Keys
  BY KeyOfAssumption
<1>. QED
  BY <1>1 DEF AcquireOf, TransitionOf, Requests, SendStateNames

\* The sidecar takes part as SendState says, or not at all.
LEMMA StepOfSidecar ==
    ASSUME SenderTypeOK, [SenderNext]_senderVars
    PROVE  [Next]_vars
<1>1. ASSUME NEW e \in Execs, NodeStep(e) PROVE UNCHANGED vars
  BY <1>1 DEF NodeStep, RunSendGates, AcquireSendOwnership,
       VerifySuppression, DryRunGate, TransitionToDryRunOk, LiveSendGates,
       PostReply, ClassifySendAttempt, RetryBackoffWait, PersistSentResult,
       ReconciliationPoll, ReconciliationWait
<1>2. ASSUME NEW e \in Execs,
             CallFails(e) \/ RequestLost(e) \/ ExecutionDies(e)
      PROVE  UNCHANGED vars
  BY <1>2 DEF CallFails, RequestLost, ExecutionDies
<1>3. ASSUME NEW s \in Servers, NEW e \in Execs, RequestArrives(s, e)
      PROVE  Next
  BY <1>3 DEF RequestArrives, SenderTypeOK, Next
<1>4. ASSUME NEW s \in Servers, SidecarStep(s) PROVE Next
  BY <1>4 DEF SidecarStep, HandlerStep, Next
<1>5. ASSUME NEW s \in Servers, SidecarReplies(s) PROVE Next
  BY <1>5 DEF SidecarReplies, Next
<1>6. CASE UNCHANGED senderVars
  BY <1>6 DEF senderVars
<1>. QED
  BY <1>1, <1>2, <1>3, <1>4, <1>5, <1>6 DEF SenderNext

-----------------------------------------------------------------------------
(***************************************************************************)
(* Types.  TypeInv, the sidecar's half, is kept by StepOfSidecar.          *)
(***************************************************************************)
SenderTypeInv == SenderTypeOK /\ TypeInv

LEMMA SenderTypeInit == SenderInit => SenderTypeInv
  BY TypeInit DEF SenderInit, SenderTypeInv, SenderTypeOK, TypeInv, Nodes,
     Results

LEMMA SenderTypeStep ==
    SenderTypeInv /\ [SenderNext]_senderVars => SenderTypeInv'
<1> SUFFICES ASSUME SenderTypeInv, [SenderNext]_senderVars
             PROVE  SenderTypeOK'
    BY StepOfSidecar, TypeStep DEF SenderTypeInv
<1>0. TypeInv' /\ TypeOK'
  BY StepOfSidecar, TypeStep DEF SenderTypeInv, TypeInv
<1> USE <1>0, KeyOfFacts DEF SenderTypeInv, SenderTypeOK, GoTo, End, Call,
            execution, network, record, Nodes, Results
<1>1. ASSUME NEW e \in Execs, NodeStep(e) PROVE SenderTypeOK'
  <2>1. CASE PostReply(e)
    <3>1. PICK o \in Responses : \E d \in Deliveries(o) :
            /\ outcome' = [outcome EXCEPT ![e] = o]
            /\ mail' = [mail EXCEPT ![KeyOf[e]] = @ + d]
      BY <2>1 DEF PostReply
    <3>2. PICK d \in Deliveries(o) :
            mail' = [mail EXCEPT ![KeyOf[e]] = @ + d]
      BY <3>1
    <3>3. d \in Nat
      BY <3>2 DEF Deliveries
    <3>. QED
      BY <2>1, <3>1, <3>2, <3>3 DEF PostReply
  <2>2. CASE RunSendGates(e)
    BY <2>2 DEF RunSendGates
  <2>3. CASE AcquireSendOwnership(e)
    BY <2>3 DEF AcquireSendOwnership
  <2>4. CASE VerifySuppression(e)
    BY <2>4 DEF VerifySuppression
  <2>5. CASE DryRunGate(e)
    BY <2>5 DEF DryRunGate
  <2>6. CASE TransitionToDryRunOk(e)
    BY <2>6 DEF TransitionToDryRunOk
  <2>7. CASE LiveSendGates(e)
    BY <2>7 DEF LiveSendGates
  <2>8. CASE ClassifySendAttempt(e)
    BY <2>8 DEF ClassifySendAttempt
  <2>9. CASE RetryBackoffWait(e)
    BY <2>9 DEF RetryBackoffWait
  <2>10. CASE PersistSentResult(e)
    BY <2>10 DEF PersistSentResult
  <2>11. CASE ReconciliationPoll(e)
    BY <2>11 DEF ReconciliationPoll
  <2>12. CASE ReconciliationWait(e)
    BY <2>12 DEF ReconciliationWait
  <2>. QED
    BY <1>1, <2>1, <2>2, <2>3, <2>4, <2>5, <2>6, <2>7, <2>8, <2>9, <2>10,
       <2>11, <2>12 DEF NodeStep
<1>2. ASSUME NEW e \in Execs, NEW a, Deliver(e, a)
      PROVE  /\ node' \in [Execs -> Nodes]
             /\ result' \in [Execs -> Results]
             /\ acquired' \in [Execs -> BOOLEAN]
  BY <1>2 DEF Deliver, NormalizeAcquisitionResult
<1>3. ASSUME NEW e \in Execs, CallFails(e) PROVE SenderTypeOK'
  BY <1>2, <1>3 DEF CallFails
<1>4. ASSUME NEW e \in Execs, RequestLost(e) PROVE SenderTypeOK'
  BY <1>4 DEF RequestLost
<1>5. ASSUME NEW e \in Execs, ExecutionDies(e) PROVE SenderTypeOK'
  BY <1>5 DEF ExecutionDies
<1>6. ASSUME NEW s \in Servers, NEW e \in Execs, RequestArrives(s, e)
      PROVE  SenderTypeOK'
  BY <1>6 DEF RequestArrives
<1>7. ASSUME NEW s \in Servers, SidecarStep(s) PROVE SenderTypeOK'
  BY <1>7 DEF SidecarStep
<1>8. ASSUME NEW s \in Servers, SidecarReplies(s) PROVE SenderTypeOK'
  BY <1>2, <1>8 DEF SidecarReplies
<1>9. CASE UNCHANGED senderVars
  BY <1>9 DEF senderVars
<1>. QED
  BY <1>1, <1>3, <1>4, <1>5, <1>6, <1>7, <1>8, <1>9 DEF SenderNext

\* Type correctness of the composition.
THEOREM SenderTypeCorrect == SenderSpec => []SenderTypeOK
<1>1. SenderSpec => []SenderTypeInv
  BY SenderTypeInit, SenderTypeStep, PTL DEF SenderSpec
<1>. QED
  BY <1>1, PTL DEF SenderTypeInv

-----------------------------------------------------------------------------
(***************************************************************************)
(* Who may POST.  The answer "acquired" is given once per key (GrantInv),  *)
(* it reaches at most the execution whose request is being answered, and   *)
(* every node from Q on is behind it.                                      *)
(***************************************************************************)

\* Nodes that only an execution with the acquisition can be at, and those
\* before the acquisition is known.
OwnerNodes == {"Q", "R", "T", "X", "X2", "V", "W3"}
EarlyNodes == {"start", "E", "E2"}

HolderInv ==
    /\ \A e \in Execs : wire[e] # NoReq => wire[e].key = KeyOf[e]
    /\ \A s \in Servers :
          client[s] # NoExec => req[s].key = KeyOf[client[s]]
    /\ \A e \in Execs : acquired[e] => grants[KeyOf[e]] > 0
    /\ \A e, f \in Execs :
          acquired[e] /\ acquired[f] /\ KeyOf[e] = KeyOf[f] => e = f
    /\ \A e \in Execs : node[e] \in EarlyNodes => ~ acquired[e]
    /\ \A e \in Execs : node[e] \in OwnerNodes => acquired[e]
    /\ \A e \in Execs : posts[e] > 0 => acquired[e]

SenderInv == SenderTypeInv /\ OwnershipInv /\ HolderInv

LEMMA SenderInvInit == SenderInit => SenderInv
<1>1. SenderInit => HolderInv
  BY DEF SenderInit, HolderInv, OwnerNodes, EarlyNodes
<1>. QED
  BY <1>1, SenderTypeInit, OwnershipInit DEF SenderInv, SenderInit

LEMMA SenderInvStep == SenderInv /\ [SenderNext]_senderVars => SenderInv'
<1> SUFFICES ASSUME SenderInv, [SenderNext]_senderVars
             PROVE  HolderInv'
    BY StepOfSidecar, SenderTypeStep, OwnershipStep
       DEF SenderInv, SenderTypeInv
<1>0. SenderTypeInv /\ OwnershipInv /\ HolderInv /\ SenderTypeInv'
  BY SenderTypeStep DEF SenderInv
<1> USE <1>0, KeyOfFacts DEF HolderInv, SenderTypeInv, SenderTypeOK, TypeOK,
            GoTo, End, Call, execution, network, record, vars, files,
            handler, history, OwnerNodes, EarlyNodes
<1>1. ASSUME NEW e \in Execs, NodeStep(e) PROVE HolderInv'
  <2>1. CASE PostReply(e)
    <3>1. posts' = [posts EXCEPT ![e] = @ + 1] /\ node[e] = "Q"
      BY <2>1 DEF PostReply
    <3>2. node' = [node EXCEPT ![e] = "R"]
          /\ UNCHANGED <<vars, acquired, wire, client>>
      BY <2>1 DEF PostReply
    <3>. QED
      BY <3>1, <3>2
  <2>2. CASE RunSendGates(e)
    BY <2>2 DEF RunSendGates
  <2>3. CASE AcquireSendOwnership(e)
    BY <2>3 DEF AcquireSendOwnership, AcquireOf
  <2>4. CASE VerifySuppression(e)
    BY <2>4 DEF VerifySuppression
  <2>5. CASE DryRunGate(e)
    BY <2>5 DEF DryRunGate
  <2>6. CASE TransitionToDryRunOk(e)
    BY <2>6 DEF TransitionToDryRunOk, TransitionOf
  <2>7. CASE LiveSendGates(e)
    BY <2>7 DEF LiveSendGates
  <2>8. CASE ClassifySendAttempt(e)
    BY <2>8 DEF ClassifySendAttempt
  <2>9. CASE RetryBackoffWait(e)
    BY <2>9 DEF RetryBackoffWait
  <2>10. CASE PersistSentResult(e)
    BY <2>10 DEF PersistSentResult, TransitionOf
  <2>11. CASE ReconciliationPoll(e)
    BY <2>11 DEF ReconciliationPoll
  <2>12. CASE ReconciliationWait(e)
    BY <2>12 DEF ReconciliationWait
  <2>. QED
    BY <1>1, <2>1, <2>2, <2>3, <2>4, <2>5, <2>6, <2>7, <2>8, <2>9, <2>10,
       <2>11, <2>12 DEF NodeStep
<1>2. ASSUME NEW e \in Execs, CallFails(e) PROVE HolderInv'
  BY <1>2 DEF CallFails, Deliver, WaitingNodes, NormalizeAcquisitionResult
<1>3. ASSUME NEW e \in Execs, RequestLost(e) PROVE HolderInv'
  BY <1>3 DEF RequestLost
<1>4. ASSUME NEW e \in Execs, ExecutionDies(e) PROVE HolderInv'
  BY <1>4 DEF ExecutionDies
<1>5. ASSUME NEW s \in Servers, NEW e \in Execs, RequestArrives(s, e)
      PROVE  HolderInv'
  BY <1>5 DEF RequestArrives, Receive
<1>6. ASSUME NEW s \in Servers, SidecarStep(s) PROVE HolderInv'
  <2>1. UNCHANGED <<grants, node, acquired, wire, posts>>
    BY <1>6 DEF SidecarStep, CreateLock, CheckPriorState, CheckTransition,
         WriteState, ReleaseLock, FileError, Crash
  <2>2. \/ UNCHANGED <<req, client>>
        \/ /\ client' = [client EXCEPT ![s] = NoExec]
           /\ req' = [req EXCEPT ![s] = NoReq]
    BY <1>6 DEF SidecarStep, CreateLock, CheckPriorState, CheckTransition,
         WriteState, ReleaseLock, FileError, Crash, BecomeIdle
  <2>. QED
    BY <2>1, <2>2
<1>7. ASSUME NEW s \in Servers, SidecarReplies(s) PROVE HolderInv'
  <2>1. /\ req' = [req EXCEPT ![s] = NoReq]
        /\ client' = [client EXCEPT ![s] = NoExec]
        /\ UNCHANGED <<wire, posts>>
    BY <1>7 DEF SidecarReplies, Reply, BecomeIdle
  <2>2. grants' = IF answer[s] = "ACQUIRED"
                    THEN [grants EXCEPT ![req[s].key] = @ + 1] ELSE grants
    BY <1>7 DEF SidecarReplies, Reply
  <2>3. CASE client[s] = NoExec
    BY <1>7, <2>1, <2>2, <2>3, NoExecAssumption DEF SidecarReplies
  <2>4. CASE client[s] \in Execs
    <3> DEFINE e == client[s]
    <3>1. Deliver(e, answer[s])
      BY <1>7, <2>4, NoExecAssumption DEF SidecarReplies
    <3>2. req[s].key = KeyOf[e]
      BY <2>4, NoExecAssumption
    <3>3. CASE node[e] = "E2" /\ answer[s] = "ACQUIRED"
      <4>1. /\ acquired' = [acquired EXCEPT ![e] = TRUE]
            /\ node' = [node EXCEPT ![e] = "G"]
        BY <3>1, <3>3 DEF Deliver, NormalizeAcquisitionResult
      <4>2. grants[KeyOf[e]] = 0
        BY <3>2, <3>3 DEF OwnershipInv, GrantInv
      <4>3. \A f \in Execs : KeyOf[f] = KeyOf[e] => ~ acquired[f]
        BY <4>2
      <4>4. grants' = [grants EXCEPT ![KeyOf[e]] = @ + 1]
        BY <2>2, <3>2, <3>3
      <4>. QED
        BY <2>1, <2>4, <4>1, <4>3, <4>4
    <3>4. CASE node[e] = "E2" /\ answer[s] # "ACQUIRED"
      <4>1. /\ acquired' = [acquired EXCEPT ![e] = FALSE]
            /\ node' = [node EXCEPT ![e] = "end"]
        BY <3>1, <3>4 DEF Deliver, NormalizeAcquisitionResult
      <4>. QED
        BY <2>1, <2>2, <2>4, <3>4, <4>1
    <3>5. CASE node[e] # "E2"
      <4>1. acquired' = acquired /\ node' = [node EXCEPT ![e] = "end"]
        BY <3>1, <3>5 DEF Deliver
      <4>. QED
        BY <2>1, <2>2, <2>4, <3>2, <4>1
    <3>. QED
      BY <3>3, <3>4, <3>5
  <2>. QED
    BY <2>3, <2>4
<1>8. CASE UNCHANGED senderVars
  BY <1>8 DEF senderVars
<1>. QED
  BY <1>1, <1>2, <1>3, <1>4, <1>5, <1>6, <1>7, <1>8 DEF SenderNext

\* Duplicate protection end to end: for any executions, keys and sidecar
\* processes, and whatever is lost, late, killed or restarted, at most one
\* execution for a send key ever POSTs to Instantly.
THEOREM OnlyOwnerPosts == SenderSpec => []OnePosterPerKey
<1>1. SenderSpec => []SenderInv
  BY SenderInvInit, SenderInvStep, PTL DEF SenderSpec
<1>2. SenderInv => OnePosterPerKey
  BY DEF SenderInv, HolderInv, OnePosterPerKey, SendersOf
<1>. QED
  BY <1>1, <1>2, PTL

-----------------------------------------------------------------------------
(***************************************************************************)
(* When a POST may be repeated.  The loop comes back to Q only from a      *)
(* response that R found retryable, and by SenderInv no other execution    *)
(* for the key has a response at all.                                      *)
(***************************************************************************)
RetryInv ==
    /\ \A e \in Execs : node[e] \in {"Q", "T"} =>
          outcome[e] = NoResponse \/ Retryable(outcome[e])
    /\ \A e \in Execs : node[e] \in {"start", "E", "E2", "G", "J", "O"} =>
          outcome[e] = NoResponse
    /\ \A e \in Execs : outcome[e] # NoResponse => acquired[e]

LEMMA RetryInvInit == SenderInit => RetryInv
  BY DEF SenderInit, RetryInv

LEMMA RetryInvStep ==
    SenderInv /\ RetryInv /\ [SenderNext]_senderVars => RetryInv'
<1> SUFFICES ASSUME SenderInv, RetryInv, [SenderNext]_senderVars
             PROVE  RetryInv'
    OBVIOUS
<1>0. SenderTypeOK /\ HolderInv
  BY DEF SenderInv, SenderTypeInv
<1> USE <1>0 DEF HolderInv, RetryInv, SenderTypeOK, GoTo, End, Call,
            execution, network, record, OwnerNodes, EarlyNodes
<1>1. ASSUME NEW e \in Execs, NodeStep(e) PROVE RetryInv'
  <2>1. CASE PostReply(e)
    <3>1. /\ node[e] = "Q"
          /\ node' = [node EXCEPT ![e] = "R"]
          /\ UNCHANGED acquired
      BY <2>1 DEF PostReply
    <3>2. \A f \in Execs : f # e => outcome'[f] = outcome[f]
      BY <2>1 DEF PostReply
    <3>. QED
      BY <3>1, <3>2
  <2>2. CASE RunSendGates(e)
    BY <2>2 DEF RunSendGates
  <2>3. CASE AcquireSendOwnership(e)
    BY <2>3 DEF AcquireSendOwnership
  <2>4. CASE VerifySuppression(e)
    BY <2>4 DEF VerifySuppression
  <2>5. CASE DryRunGate(e)
    BY <2>5 DEF DryRunGate
  <2>6. CASE TransitionToDryRunOk(e)
    BY <2>6 DEF TransitionToDryRunOk
  <2>7. CASE LiveSendGates(e)
    BY <2>7 DEF LiveSendGates
  <2>8. CASE ClassifySendAttempt(e)
    BY <2>8 DEF ClassifySendAttempt
  <2>9. CASE RetryBackoffWait(e)
    BY <2>9 DEF RetryBackoffWait
  <2>10. CASE PersistSentResult(e)
    BY <2>10 DEF PersistSentResult
  <2>11. CASE ReconciliationPoll(e)
    BY <2>11 DEF ReconciliationPoll
  <2>12. CASE ReconciliationWait(e)
    BY <2>12 DEF ReconciliationWait
  <2>. QED
    BY <1>1, <2>1, <2>2, <2>3, <2>4, <2>5, <2>6, <2>7, <2>8, <2>9, <2>10,
       <2>11, <2>12 DEF NodeStep
<1>2. ASSUME NEW e \in Execs, NEW a, Deliver(e, a), UNCHANGED outcome
      PROVE  RetryInv'
  BY <1>2 DEF Deliver, NormalizeAcquisitionResult
<1>3. ASSUME NEW e \in Execs, CallFails(e) PROVE RetryInv'
  BY <1>2, <1>3 DEF CallFails
<1>4. ASSUME NEW e \in Execs, RequestLost(e) \/ ExecutionDies(e)
      PROVE  RetryInv'
  BY <1>4 DEF RequestLost, ExecutionDies
<1>5. ASSUME NEW s \in Servers, NEW e \in Execs, RequestArrives(s, e)
      PROVE  RetryInv'
  BY <1>5 DEF RequestArrives
<1>6. ASSUME NEW s \in Servers, SidecarStep(s) PROVE RetryInv'
  BY <1>6 DEF SidecarStep
<1>7. ASSUME NEW s \in Servers, SidecarReplies(s) PROVE RetryInv'
  BY <1>2, <1>7 DEF SidecarReplies
<1>8. CASE UNCHANGED senderVars
  BY <1>8 DEF senderVars
<1>. QED
  BY <1>1, <1>3, <1>4, <1>5, <1>6, <1>7, <1>8 DEF SenderNext

\* A POST for a key is repeated only while every response so far was one
\* that the policy calls retryable: never after a success, a refusal, a
\* timeout or an odd body, and never by another execution.
THEOREM UncertainNeverReposts == SenderSpec => NoPostAfterDefiniteOutcome
<1> DEFINE Step ==
      \A k \in Keys : \A e, f \in SendersOf(k) :
          posts'[e] > posts[e] =>
              outcome[f] = NoResponse \/ Retryable(outcome[f])
<1>1. SenderInv /\ RetryInv /\ [SenderNext]_senderVars => [Step]_posts
  <2> SUFFICES ASSUME SenderInv, RetryInv, [SenderNext]_senderVars,
                      posts' # posts
               PROVE  Step
      OBVIOUS
  <2> USE DEF SenderInv, HolderInv, SenderTypeInv, SenderTypeOK
  <2>1. PICK e \in Execs : PostReply(e)
    BY DEF SenderNext, senderVars, record, NodeStep, RunSendGates,
       AcquireSendOwnership, VerifySuppression, DryRunGate,
       TransitionToDryRunOk, LiveSendGates, ClassifySendAttempt,
       RetryBackoffWait, PersistSentResult, ReconciliationPoll,
       ReconciliationWait, CallFails, RequestLost, ExecutionDies,
       RequestArrives, SidecarStep, SidecarReplies
  <2>2. node[e] = "Q" /\ posts' = [posts EXCEPT ![e] = @ + 1]
    BY <2>1 DEF PostReply
  <2>3. acquired[e] /\ (outcome[e] = NoResponse \/ Retryable(outcome[e]))
    BY <2>2 DEF RetryInv, OwnerNodes
  <2>4. \A f \in Execs : KeyOf[f] = KeyOf[e] /\ f # e
                           => outcome[f] = NoResponse
    BY <2>3 DEF RetryInv
  <2>5. \A f \in Execs : posts'[f] > posts[f] => f = e
    BY <2>2
  <2>. QED
    BY <2>3, <2>4, <2>5 DEF SendersOf
<1>2. SenderInit => SenderInv /\ RetryInv
  BY SenderInvInit, RetryInvInit
<1>3. SenderInv /\ RetryInv /\ [SenderNext]_senderVars
        => (SenderInv /\ RetryInv)'
  BY SenderInvStep, RetryInvStep
<1>. QED
  BY <1>1, <1>2, <1>3, PTL DEF SenderSpec, NoPostAfterDefiniteOutcome

-----------------------------------------------------------------------------
(***************************************************************************)
(* DRY_RUN and live executions.  A dry run never gets behind J, and only   *)
(* an execution that owns its key gets to K.  X asks for a state that the  *)
(* sidecar does not know, so a key that a live execution has claimed stays *)
(* LOCKED.                                                                 *)
(***************************************************************************)
DryOwner(k) == \E f \in SendersOf(k) : acquired[f] /\ DryRun[f]

DryRunInv ==
    /\ \A e \in Execs : node[e] \in {"G", "J", "K"} => acquired[e]
    /\ \A e \in Execs : node[e] = "K" => DryRun[e]
    /\ \A e \in Execs : node[e] \in OwnerNodes \cup {"O"} => ~ DryRun[e]
    /\ \A e \in Execs : posts[e] > 0 => ~ DryRun[e]

RecordInv ==
    /\ \A e \in Execs : wire[e] # NoReq =>
          \/ wire[e].op = "acquire" \/ wire[e].to = UnknownState
          \/ DryOwner(wire[e].key)
    /\ \A s \in Servers : (pc[s] # "idle" /\ req[s].op = "transition") =>
          \/ req[s].to = UnknownState /\ pc[s] \in {"check", "reply"}
          \/ DryOwner(req[s].key)
    /\ \A k \in Keys : durable[k] \in {NoRecord, "LOCKED"} \/ DryOwner(k)

LiveInv == DryRunInv /\ RecordInv

LEMMA LiveInvInit == SenderInit => LiveInv
  BY DEF SenderInit, Init, LiveInv, DryRunInv, RecordInv, OwnerNodes

\* Who owns a key owns it for good.
LEMMA AcquiredStays ==
    ASSUME SenderInv, [SenderNext]_senderVars
    PROVE  \A f \in Execs : acquired[f] => acquired'[f]
<1>0. SenderTypeOK /\ HolderInv
  BY DEF SenderInv, SenderTypeInv
<1> USE <1>0 DEF SenderTypeOK, HolderInv, EarlyNodes, GoTo, End, Call,
            execution, network, record
<1>1. ASSUME NEW e \in Execs, NEW a, Deliver(e, a)
      PROVE  \A f \in Execs : acquired[f] => acquired'[f]
  BY <1>1 DEF Deliver
<1>2. ASSUME NEW e \in Execs, NodeStep(e) PROVE acquired' = acquired
  BY <1>2 DEF NodeStep, RunSendGates, AcquireSendOwnership,
       VerifySuppression, DryRunGate, TransitionToDryRunOk, LiveSendGates,
       PostReply, ClassifySendAttempt, RetryBackoffWait, PersistSentResult,
       ReconciliationPoll, ReconciliationWait
<1>3. ASSUME NEW e \in Execs, CallFails(e)
      PROVE  \A f \in Execs : acquired[f] => acquired'[f]
  BY <1>1, <1>3 DEF CallFails
<1>4. ASSUME NEW s \in Servers, SidecarReplies(s)
      PROVE  \A f \in Execs : acquired[f] => acquired'[f]
  BY <1>1, <1>4 DEF SidecarReplies
<1>. QED
  BY <1>2, <1>3, <1>4
     DEF SenderNext, RequestLost, ExecutionDies, RequestArrives, SidecarStep,
         senderVars

LEMMA DryOwnerStays ==
    ASSUME SenderInv, [SenderNext]_senderVars, NEW k, DryOwner(k)
    PROVE  DryOwner(k)'
  BY AcquiredStays DEF DryOwner, SendersOf

LEMMA DryRunInvStep ==
    SenderInv /\ DryRunInv /\ [SenderNext]_senderVars => DryRunInv'
<1> SUFFICES ASSUME SenderInv, DryRunInv, [SenderNext]_senderVars
             PROVE  DryRunInv'
    OBVIOUS
<1>0. SenderTypeOK /\ HolderInv
  BY DEF SenderInv, SenderTypeInv
<1> USE <1>0, DryRunAssumption
    DEF DryRunInv, SenderTypeOK, HolderInv, EarlyNodes, OwnerNodes, GoTo,
        End, Call, execution, network, record
<1>1. ASSUME NEW e \in Execs, NodeStep(e) PROVE DryRunInv'
  <2>1. CASE PostReply(e)
    BY <2>1 DEF PostReply
  <2>2. CASE DryRunGate(e)
    BY <2>2 DEF DryRunGate
  <2>3. CASE RunSendGates(e) \/ AcquireSendOwnership(e)
    BY <2>3 DEF RunSendGates, AcquireSendOwnership
  <2>4. CASE VerifySuppression(e) \/ TransitionToDryRunOk(e)
    BY <2>4 DEF VerifySuppression, TransitionToDryRunOk
  <2>5. CASE LiveSendGates(e) \/ PersistSentResult(e)
    BY <2>5 DEF LiveSendGates, PersistSentResult
  <2>6. CASE ClassifySendAttempt(e)
    BY <2>6 DEF ClassifySendAttempt
  <2>7. CASE RetryBackoffWait(e) \/ ReconciliationWait(e)
    BY <2>7 DEF RetryBackoffWait, ReconciliationWait
  <2>8. CASE ReconciliationPoll(e)
    BY <2>8 DEF ReconciliationPoll
  <2>. QED
    BY <1>1, <2>1, <2>2, <2>3, <2>4, <2>5, <2>6, <2>7, <2>8 DEF NodeStep
<1>2. ASSUME NEW e \in Execs, NEW a, Deliver(e, a), UNCHANGED posts
      PROVE  DryRunInv'
  BY <1>2 DEF Deliver
<1>3. ASSUME NEW e \in Execs, CallFails(e) PROVE DryRunInv'
  BY <1>2, <1>3 DEF CallFails
<1>4. ASSUME NEW e \in Execs, RequestLost(e) \/ ExecutionDies(e)
      PROVE  DryRunInv'
  BY <1>4 DEF RequestLost, ExecutionDies
<1>5. ASSUME NEW s \in Servers,
             SidecarStep(s) \/ \E e \in Execs : RequestArrives(s, e)
      PROVE  DryRunInv'
  BY <1>5 DEF SidecarStep, RequestArrives
<1>6. ASSUME NEW s \in Servers, SidecarReplies(s) PROVE DryRunInv'
  BY <1>2, <1>6 DEF SidecarReplies
<1>7. CASE UNCHANGED senderVars
  BY <1>7 DEF senderVars
<1>. QED
  BY <1>1, <1>3, <1>4, <1>5, <1>6, <1>7 DEF SenderNext

LEMMA RecordInvStep ==
    SenderInv /\ LiveInv /\ [SenderNext]_senderVars => RecordInv'
<1> SUFFICES ASSUME SenderInv, LiveInv, [SenderNext]_senderVars
             PROVE  RecordInv'
    OBVIOUS
<1>0. /\ SenderTypeOK /\ TypeOK /\ HandlerOK /\ RecordInv
      /\ \A k : DryOwner(k) => DryOwner(k)'
  BY DryOwnerStays DEF SenderInv, SenderTypeInv, TypeInv, LiveInv
<1> USE <1>0 DEF RecordInv, SenderTypeOK, TypeOK, GoTo, End, Call,
            execution, network, record, vars, files, handler, history
<1>1. ASSUME NEW e \in Execs, NodeStep(e) PROVE RecordInv'
  <2>1. CASE AcquireSendOwnership(e)
    BY <2>1 DEF AcquireSendOwnership, AcquireOf
  <2>2. CASE TransitionToDryRunOk(e)
    <3>1. DryOwner(KeyOf[e])
      BY <2>2, KeyOfFacts DEF TransitionToDryRunOk, LiveInv, DryRunInv,
         DryOwner, SendersOf
    <3>2. /\ wire' = [wire EXCEPT ![e] = TransitionOf(KeyOf[e], "DRY_RUN_OK")]
          /\ UNCHANGED <<pc, req, durable>>
      BY <2>2 DEF TransitionToDryRunOk
    <3>. QED
      BY <3>1, <3>2 DEF TransitionOf
  <2>3. CASE PersistSentResult(e)
    BY <2>3 DEF PersistSentResult, TransitionOf
  <2>4. CASE UNCHANGED <<wire, pc, req, durable>>
    BY <2>4
  <2>. QED
    BY <1>1, <2>1, <2>2, <2>3, <2>4
       DEF NodeStep, RunSendGates, VerifySuppression, DryRunGate,
           LiveSendGates, PostReply, ClassifySendAttempt, RetryBackoffWait,
           ReconciliationPoll, ReconciliationWait
<1>2. ASSUME NEW e \in Execs,
             CallFails(e) \/ RequestLost(e) \/ ExecutionDies(e)
      PROVE  RecordInv'
  BY <1>2 DEF CallFails, RequestLost, ExecutionDies
<1>3. ASSUME NEW s \in Servers, NEW e \in Execs, RequestArrives(s, e)
      PROVE  RecordInv'
  BY <1>3 DEF RequestArrives, Receive, Goto
<1>4. ASSUME NEW s \in Servers, SidecarStep(s) PROVE RecordInv'
  <2> USE DEF SidecarStep, AnswerWith, BecomeIdle, Goto
  <2>1. UNCHANGED wire
    BY <1>4
  <2>2. CASE CreateLock(s)
    BY <2>1, <2>2 DEF CreateLock, HandlerOK
  <2>3. CASE CheckPriorState(s)
    BY <2>1, <2>3 DEF CheckPriorState
  <2>4. CASE CheckTransition(s)
    BY <2>1, <2>4 DEF CheckTransition, TransitionAllowed
  <2>5. CASE WriteState(s)
    <3>1. req[s] \in Requests /\ pc[s] = "write"
      BY <2>5 DEF WriteState, HandlerOK
    <3>2. req[s].op # "transition" => req[s].to = "LOCKED"
      BY <3>1, RequestFields
    <3>. QED
      BY <2>1, <2>5, <3>1, <3>2 DEF WriteState
  <2>6. CASE ReleaseLock(s)
    BY <2>1, <2>6 DEF ReleaseLock
  <2>7. CASE FileError(s)
    BY <2>1, <2>7 DEF FileError
  <2>8. CASE Crash(s)
    BY <2>1, <2>8 DEF Crash
  <2>. QED
    BY <1>4, <2>2, <2>3, <2>4, <2>5, <2>6, <2>7, <2>8
<1>5. ASSUME NEW s \in Servers, SidecarReplies(s) PROVE RecordInv'
  BY <1>5 DEF SidecarReplies, Reply, BecomeIdle, Goto
<1>6. CASE UNCHANGED senderVars
  BY <1>6 DEF senderVars
<1>. QED
  BY <1>1, <1>2, <1>3, <1>4, <1>5, <1>6 DEF SenderNext

LEMMA LiveInvHolds == SenderSpec => [](SenderInv /\ LiveInv)
<1>1. SenderInit => SenderInv /\ LiveInv
  BY SenderInvInit, LiveInvInit
<1>2. SenderInv /\ LiveInv /\ [SenderNext]_senderVars
        => (SenderInv /\ LiveInv)'
  BY SenderInvStep, DryRunInvStep, RecordInvStep DEF LiveInv
<1>. QED
  BY <1>1, <1>2, PTL DEF SenderSpec

\* An execution with DRY_RUN=true never POSTs, whatever runs beside it.
THEOREM DryRunsPostNothing == SenderSpec => []DryRunPostsNothing
<1>1. SenderInv /\ LiveInv => DryRunPostsNothing
  BY DEF SenderInv, SenderTypeInv, SenderTypeOK, LiveInv, DryRunInv,
     DryRunPostsNothing
<1>. QED
  BY LiveInvHolds, <1>1, PTL

\* A key for which a POST went out stays in the unfinished listing for good,
\* whatever becomes of the execution.
THEOREM PostsAreListed == SenderSpec => []EveryPostIsListed
<1>1. Unfinished("LOCKED")
  BY DEF Unfinished, IsTerminal, SendStateNames, CanTransition, Transitions
<1>2. ASSUME SenderInv, LiveInv, NEW e \in Execs, posts[e] > 0
      PROVE  durable[KeyOf[e]] = "LOCKED"
  <2>1. acquired[e] /\ ~ DryRun[e]
    BY <1>2 DEF SenderInv, HolderInv, LiveInv, DryRunInv
  <2>2. ~ DryOwner(KeyOf[e])
    BY <1>2, <2>1 DEF SenderInv, HolderInv, DryOwner, SendersOf
  <2>. QED
    BY <1>2, <2>1, <2>2, KeyOfFacts DEF SenderInv, HolderInv, OwnershipInv,
       GrantInv, GrantIsDurable, LiveInv, RecordInv
<1>3. SenderInv /\ LiveInv => EveryPostIsListed
  BY <1>1, <1>2, KeyOfFacts DEF EveryPostIsListed, UnfinishedKeys
<1>. QED
  BY LiveInvHolds, <1>3, PTL

-----------------------------------------------------------------------------
(***************************************************************************)
(* Why an execution is refused.  While nothing has been lost, cut short or *)
(* killed for a key, each of its requests has an execution that waits for  *)
(* it (CallsOK), and its files are there because an execution owns the key *)
(* or because the one handler is about to tell its caller so (TakenOK).    *)
(* With two processes two claims of a key may refuse each other before     *)
(* either caller hears: the theorem is about the one that is deployed.     *)
(***************************************************************************)
Owned(k) == \E f \in SendersOf(k) : acquired[f]

Taken(k) == lock[k] \/ durable[k] # NoRecord

\* Process s is in the course of giving key k away.
GrantsNow(s, k) ==
    /\ req[s].op = "acquire"
    /\ req[s].key = k
    /\ pc[s] \in {"check", "write"} \/ (pc[s] = "reply" /\ answer[s] = "ACQUIRED")

\* Process s has found that key k is taken.
FoundTaken(s, k) ==
    /\ pc[s] # "idle"
    /\ req[s].key = k
    /\ \/ /\ req[s].op = "acquire"
          /\ \/ pc[s] = "unlock"
             \/ pc[s] = "reply" /\ answer[s] # "ACQUIRED"
             \/ pc[s] = "check" /\ durable[k] # NoRecord
       \/ req[s].op = "transition" /\ pc[s] = "write"

WaitOK ==
    /\ \A e \in Execs : result[e] = "NOT_ACQUIRED" =>
          node[e] = "end" /\ ~ acquired[e]
    /\ \A s \in Servers : client[s] # NoExec => node[client[s]] \in WaitingNodes

CallsOK(k) ==
    /\ \A e \in SendersOf(k) : wire[e] # NoReq =>
          /\ node[e] \in WaitingNodes
          /\ wire[e].op = "acquire" <=> node[e] = "E2"
    /\ \A s \in Servers : (pc[s] # "idle" /\ req[s].key = k) =>
          /\ client[s] \in Execs
          /\ wire[client[s]] = NoReq
          /\ req[s].op = "acquire" <=> node[client[s]] = "E2"

TakenOK(k) ==
    /\ \A e \in SendersOf(k) : result[e] = "NOT_ACQUIRED" => Owned(k)
    /\ Taken(k) => Owned(k) \/ \E s \in Servers : GrantsNow(s, k)
    /\ \A s \in Servers : FoundTaken(s, k) => Owned(k)

CauseInv ==
    /\ WaitOK
    /\ \A k \in Keys \ Troubled : CallsOK(k) /\ TakenOK(k)

LEMMA CauseInit == SenderInit => CauseInv
<1> SUFFICES ASSUME SenderInit PROVE CauseInv
  OBVIOUS
<1> USE DEF SenderInit, Init
<1>1. WaitOK
  BY DEF WaitOK
<1>2. ASSUME NEW k \in Keys PROVE CallsOK(k) /\ TakenOK(k)
  BY <1>2 DEF CallsOK, TakenOK, Taken, FoundTaken, SendersOf
<1>. QED
  BY <1>1, <1>2 DEF CauseInv

\* Who owns a key owns it for good, and trouble stays trouble.
LEMMA OwnedStays ==
    ASSUME SenderInv, [SenderNext]_senderVars
    PROVE  /\ \A k : Owned(k) => Owned(k)'
           /\ Troubled \subseteq Troubled'
<1>0. SenderTypeOK /\ HolderInv
  BY DEF SenderInv, SenderTypeInv
<1>1. \A f \in Execs : acquired[f] => acquired'[f]
  BY AcquiredStays
<1>2. aborted \subseteq aborted'
  <2>1. [Next]_vars
    BY <1>0, StepOfSidecar
  <2>. QED
    BY <2>1 DEF Next, HandlerStep, vars, history, files, Receive, CreateLock,
       CheckPriorState, CheckTransition, WriteState, ReleaseLock, FileError,
       Crash, Reply
<1>3. faulty \subseteq faulty'
  BY DEF SenderNext, NodeStep, RunSendGates, AcquireSendOwnership,
     VerifySuppression, DryRunGate, TransitionToDryRunOk, LiveSendGates,
     PostReply, ClassifySendAttempt, RetryBackoffWait, PersistSentResult,
     ReconciliationPoll, ReconciliationWait, CallFails, RequestLost,
     ExecutionDies, RequestArrives, SidecarStep, SidecarReplies, record,
     senderVars
<1>. QED
  BY <1>1, <1>2, <1>3 DEF Owned, SendersOf, Troubled

LEMMA WaitStep ==
    ASSUME OneServer, SenderInv, CauseInv, [SenderNext]_senderVars
    PROVE  WaitOK'
<1>0. SenderTypeOK /\ HolderInv /\ WaitOK
  BY DEF SenderInv, SenderTypeInv, CauseInv
<1> USE <1>0, NoExecAssumption DEF WaitOK, OneServer, SenderTypeOK, GoTo, End,
        Call, execution, network, record, WaitingNodes
<1>1. ASSUME NEW e \in Execs, NodeStep(e) PROVE WaitOK'
  <2>1. node[e] \notin WaitingNodes /\ node[e] # "end"
    BY <1>1 DEF NodeStep, RunSendGates, AcquireSendOwnership,
         VerifySuppression, DryRunGate, TransitionToDryRunOk, LiveSendGates,
         PostReply, ClassifySendAttempt, RetryBackoffWait, PersistSentResult,
         ReconciliationPoll, ReconciliationWait
  <2>2. \E n : node' = [node EXCEPT ![e] = n]
    BY <1>1 DEF NodeStep, RunSendGates, AcquireSendOwnership,
         VerifySuppression, DryRunGate, TransitionToDryRunOk, LiveSendGates,
         PostReply, ClassifySendAttempt, RetryBackoffWait, PersistSentResult,
         ReconciliationPoll, ReconciliationWait
  <2>3. \/ result' = result
        \/ \E r : result' = [result EXCEPT ![e] = r] /\ r # "NOT_ACQUIRED"
    BY <1>1 DEF NodeStep, RunSendGates, AcquireSendOwnership,
         VerifySuppression, DryRunGate, TransitionToDryRunOk, LiveSendGates,
         PostReply, ClassifySendAttempt, RetryBackoffWait, PersistSentResult,
         ReconciliationPoll, ReconciliationWait
  <2>4. client' = client /\ acquired' = acquired
    BY <1>1 DEF NodeStep, RunSendGates, AcquireSendOwnership,
         VerifySuppression, DryRunGate, TransitionToDryRunOk, LiveSendGates,
         PostReply, ClassifySendAttempt, RetryBackoffWait, PersistSentResult,
         ReconciliationPoll, ReconciliationWait
  <2>. QED
    BY <2>1, <2>2, <2>3, <2>4
<1>2. ASSUME NEW e \in Execs, CallFails(e) PROVE WaitOK'
  BY <1>2 DEF CallFails, Deliver
<1>3. ASSUME NEW e \in Execs, RequestLost(e) PROVE WaitOK'
  BY <1>3 DEF RequestLost
<1>4. ASSUME NEW e \in Execs, ExecutionDies(e) PROVE WaitOK'
  BY <1>4 DEF ExecutionDies
<1>5. ASSUME NEW s \in Servers, NEW e \in Execs, RequestArrives(s, e)
      PROVE  WaitOK'
  BY <1>5 DEF RequestArrives
<1>6. ASSUME NEW s \in Servers, SidecarStep(s) PROVE WaitOK'
  BY <1>6 DEF SidecarStep
<1>7. ASSUME NEW s \in Servers, SidecarReplies(s) PROVE WaitOK'
  <2>1. \A t \in Servers : client'[t] = NoExec
    BY <1>7 DEF SidecarReplies
  <2>2. \A e \in Execs : result'[e] = "NOT_ACQUIRED" =>
          node'[e] = "end" /\ ~ acquired'[e]
    <3>1. CASE client[s] = NoExec
      BY <1>7, <3>1 DEF SidecarReplies
    <3>2. CASE client[s] \in Execs
      <4>1. Deliver(client[s], answer[s])
        BY <1>7, <3>2 DEF SidecarReplies
      <4>2. \A f \in Execs : f # client[s] =>
              /\ node'[f] = node[f] /\ result'[f] = result[f]
              /\ acquired'[f] = acquired[f]
        BY <4>1 DEF Deliver
      <4>3. result'[client[s]] = "NOT_ACQUIRED" =>
              node'[client[s]] = "end" /\ ~ acquired'[client[s]]
        BY <3>2, <4>1 DEF Deliver
      <4>. QED
        BY <4>2, <4>3
    <3>. QED
      BY <3>1, <3>2
  <2>. QED
    BY <2>1, <2>2
<1>8. CASE UNCHANGED senderVars
  BY <1>8 DEF senderVars
<1>. QED
  BY <1>1, <1>2, <1>3, <1>4, <1>5, <1>6, <1>7, <1>8 DEF SenderNext

\* A request of an untroubled key has its caller until it is answered: calls
\* that fail, callers that die and handlers cut short all trouble their key.
LEMMA CallsStep ==
    ASSUME OneServer, SenderInv, CauseInv, [SenderNext]_senderVars,
           NEW k \in Keys, k \notin Troubled'
    PROVE  CallsOK(k)'
<1>0. /\ SenderTypeOK /\ TypeInv /\ HolderInv /\ WaitOK /\ CallsOK(k)
      /\ k \notin faulty' /\ k \notin aborted'
  BY OwnedStays DEF SenderInv, SenderTypeInv, CauseInv, Troubled
<1> USE <1>0, KeyOfFacts, NoExecAssumption, NoReqAssumption, RequestFields
    DEF CallsOK, WaitOK, OneServer, SendersOf, SenderTypeOK, TypeInv, TypeOK,
        HolderInv, GoTo, End, Call, execution, network, record, vars, files,
        handler, history, WaitingNodes
<1>1. ASSUME NEW e \in Execs, NodeStep(e) PROVE CallsOK(k)'
  <2>1. /\ node[e] \notin WaitingNodes
        /\ \A f \in Execs : f # e => node'[f] = node[f] /\ wire'[f] = wire[f]
        /\ UNCHANGED <<pc, req, client>>
    BY <1>1 DEF NodeStep, RunSendGates, AcquireSendOwnership,
         VerifySuppression, DryRunGate, TransitionToDryRunOk, LiveSendGates,
         PostReply, ClassifySendAttempt, RetryBackoffWait, PersistSentResult,
         ReconciliationPoll, ReconciliationWait
  <2>2. \/ wire'[e] = wire[e]
        \/ wire'[e] = AcquireOf(KeyOf[e]) /\ node'[e] = "E2"
        \/ wire'[e] = TransitionOf(KeyOf[e], "DRY_RUN_OK") /\ node'[e] = "K2"
        \/ wire'[e] = TransitionOf(KeyOf[e], UnknownState) /\ node'[e] = "X2"
    BY <1>1 DEF NodeStep, RunSendGates, AcquireSendOwnership,
         VerifySuppression, DryRunGate, TransitionToDryRunOk, LiveSendGates,
         PostReply, ClassifySendAttempt, RetryBackoffWait, PersistSentResult,
         ReconciliationPoll, ReconciliationWait
  <2>3. KeyOf[e] = k => wire[e] = NoReq
    BY <2>1
  <2>4. \A f \in SendersOf(k) : wire'[f] # NoReq =>
          /\ node'[f] \in WaitingNodes
          /\ wire'[f].op = "acquire" <=> node'[f] = "E2"
    BY <2>1, <2>2, <2>3 DEF AcquireOf, TransitionOf
  <2>5. \A s \in Servers : (pc[s] # "idle" /\ req[s].key = k) => client[s] # e
    BY <2>1
  <2>. QED
    BY <2>1, <2>4, <2>5
<1>2. ASSUME NEW e \in Execs, CallFails(e) PROVE CallsOK(k)'
  <2>1. KeyOf[e] # k
    BY <1>2 DEF CallFails
  <2>2. \A f \in Execs : f # e => node'[f] = node[f]
    BY <1>2 DEF CallFails, Deliver
  <2>3. /\ client' = [s \in Servers |->
                        IF client[s] = e THEN NoExec ELSE client[s]]
        /\ UNCHANGED <<wire, pc, req>>
    BY <1>2 DEF CallFails
  <2>. QED
    BY <2>1, <2>2, <2>3
<1>3. ASSUME NEW e \in Execs, RequestLost(e) PROVE CallsOK(k)'
  <2>1. KeyOf[e] # k
    BY <1>3 DEF RequestLost
  <2>. QED
    BY <1>3, <2>1 DEF RequestLost
<1>4. ASSUME NEW e \in Execs, ExecutionDies(e) PROVE CallsOK(k)'
  <2>1. KeyOf[e] # k
    BY <1>4 DEF ExecutionDies
  <2>. QED
    BY <1>4, <2>1 DEF ExecutionDies
<1>5. ASSUME NEW s \in Servers, NEW e \in Execs, RequestArrives(s, e)
      PROVE  CallsOK(k)'
  <2>1. /\ wire[e] # NoReq
        /\ req' = [req EXCEPT ![s] = wire[e]]
        /\ wire' = [wire EXCEPT ![e] = NoReq]
        /\ client' = [client EXCEPT ![s] =
                        IF node[e] \in WaitingNodes THEN e ELSE NoExec]
        /\ node' = node
    BY <1>5 DEF RequestArrives, Receive
  <2>2. wire[e].key = k => e \in SendersOf(k)
    BY <2>1
  <2>. QED
    BY <2>1, <2>2
<1>6. ASSUME NEW s \in Servers, SidecarStep(s) PROVE CallsOK(k)'
  <2>1. /\ UNCHANGED <<node, wire>>
        /\ pc[s] # "idle"
        /\ \/ UNCHANGED <<req, client>>
           \/ pc' = [pc EXCEPT ![s] = "idle"]
    BY <1>6 DEF SidecarStep, CreateLock, CheckPriorState, CheckTransition,
         WriteState, ReleaseLock, FileError, Crash, BecomeIdle, Goto
  <2>. QED
    BY <2>1
<1>7. ASSUME NEW s \in Servers, SidecarReplies(s) PROVE CallsOK(k)'
  <2>1. /\ \A t \in Servers : pc'[t] = "idle"
        /\ wire' = wire
        /\ pc[s] # "idle"
    BY <1>7 DEF SidecarReplies, Reply, BecomeIdle, Goto
  <2>2. \/ node' = node
        \/ /\ client[s] \in Execs
           /\ \A f \in Execs : f # client[s] => node'[f] = node[f]
    BY <1>7 DEF SidecarReplies, Deliver
  <2>3. ASSUME NEW f \in SendersOf(k), wire[f] # NoReq, f = client[s]
        PROVE  FALSE
    <3>1. req[s].key = k
      BY <2>3
    <3>. QED
      BY <2>1, <2>3, <3>1
  <2>4. \A f \in SendersOf(k) : wire[f] # NoReq => node'[f] = node[f]
    BY <2>2, <2>3
  <2>5. \A f \in SendersOf(k) : wire'[f] # NoReq =>
          /\ node'[f] \in WaitingNodes
          /\ wire'[f].op = "acquire" <=> node'[f] = "E2"
    BY <2>1, <2>4
  <2>. QED
    BY <2>1, <2>5
<1>8. CASE UNCHANGED senderVars
  BY <1>8 DEF senderVars
<1>. QED
  BY <1>1, <1>2, <1>3, <1>4, <1>5, <1>6, <1>7, <1>8 DEF SenderNext

\* The files of an untroubled key and the refusals made because of them.
LEMMA TakenStep ==
    ASSUME OneServer, SenderInv, CauseInv, [SenderNext]_senderVars,
           NEW k \in Keys, k \notin Troubled'
    PROVE  TakenOK(k)'
<1>0. /\ SenderTypeOK /\ TypeInv /\ HolderInv /\ WaitOK
      /\ CallsOK(k) /\ TakenOK(k)
      /\ k \notin faulty' /\ k \notin aborted'
      /\ Owned(k) => Owned(k)'
  BY OwnedStays DEF SenderInv, SenderTypeInv, CauseInv, Troubled
<1> USE <1>0, KeyOfFacts, NoExecAssumption, NoReqAssumption, RequestFields
    DEF TakenOK, Taken, GrantsNow, FoundTaken, OneServer, SenderTypeOK,
        TypeInv, TypeOK, HandlerOK, GoTo, End, Call, execution, network,
        record, vars, files, handler, history
<1>1. ASSUME UNCHANGED vars,
             \A e \in SendersOf(k) : result'[e] = "NOT_ACQUIRED"
                                       => result[e] = "NOT_ACQUIRED"
      PROVE  TakenOK(k)'
  BY <1>1
<1>2. ASSUME NEW e \in Execs, NodeStep(e) PROVE TakenOK(k)'
  <2>1. UNCHANGED vars
    BY <1>2 DEF NodeStep, RunSendGates, AcquireSendOwnership,
         VerifySuppression, DryRunGate, TransitionToDryRunOk, LiveSendGates,
         PostReply, ClassifySendAttempt, RetryBackoffWait, PersistSentResult,
         ReconciliationPoll, ReconciliationWait
  <2>2. \/ result' = result
        \/ \E r : result' = [result EXCEPT ![e] = r] /\ r # "NOT_ACQUIRED"
    BY <1>2 DEF NodeStep, RunSendGates, AcquireSendOwnership,
         VerifySuppression, DryRunGate, TransitionToDryRunOk, LiveSendGates,
         PostReply, ClassifySendAttempt, RetryBackoffWait, PersistSentResult,
         ReconciliationPoll, ReconciliationWait
  <2>. QED
    BY <1>1, <2>1, <2>2 DEF SendersOf
<1>3. ASSUME NEW e \in Execs, CallFails(e) PROVE TakenOK(k)'
  <2>1. KeyOf[e] # k /\ UNCHANGED vars
    BY <1>3 DEF CallFails
  <2>2. \A f \in Execs : f # e => result'[f] = result[f]
    BY <1>3 DEF CallFails, Deliver
  <2>. QED
    BY <1>1, <2>1, <2>2 DEF SendersOf
<1>4. ASSUME NEW e \in Execs, RequestLost(e) \/ ExecutionDies(e)
      PROVE  TakenOK(k)'
  BY <1>1, <1>4 DEF RequestLost, ExecutionDies, SendersOf
<1>5. ASSUME NEW s \in Servers, NEW e \in Execs, RequestArrives(s, e)
      PROVE  TakenOK(k)'
  <2>1. /\ pc[s] = "idle"
        /\ pc' = [pc EXCEPT ![s] =
                    IF wire[e].op = "acquire" THEN "lock" ELSE "check"]
        /\ req' = [req EXCEPT ![s] = wire[e]]
        /\ UNCHANGED <<lock, durable, result>>
    BY <1>5 DEF RequestArrives, Receive, Goto
  <2>2. ~ GrantsNow(s, k) /\ ~ FoundTaken(s, k)'
    BY <2>1
  <2>3. Taken(k) => Owned(k)
    BY <2>1
  <2>. QED
    BY <2>1, <2>2, <2>3
<1>6. ASSUME NEW s \in Servers, SidecarStep(s) PROVE TakenOK(k)'
  <2>1. UNCHANGED <<result, acquired>>
    BY <1>6 DEF SidecarStep
  <2>2. SUFFICES /\ Taken(k)' => Owned(k)' \/ GrantsNow(s, k)'
                 /\ FoundTaken(s, k)' => Owned(k)'
    BY <2>1
  <2>3. Taken(k) => Owned(k) \/ GrantsNow(s, k)
    OBVIOUS
  <2> USE <2>3 DEF SidecarStep, AnswerWith, BecomeIdle, Goto
  <2>4. CASE CreateLock(s)
    BY <2>4 DEF CreateLock
  <2>5. CASE CheckPriorState(s)
    BY <2>5 DEF CheckPriorState
  <2>6. CASE CheckTransition(s)
    BY <2>6, NoRecordFacts DEF CheckTransition, TransitionAllowed
  <2>7. CASE WriteState(s)
    BY <2>7 DEF WriteState
  <2>8. CASE ReleaseLock(s)
    BY <2>8 DEF ReleaseLock
  <2>9. CASE FileError(s)
    <3>1. req[s].key # k
      BY <2>9 DEF FileError
    <3>. QED
      BY <2>9, <3>1 DEF FileError
  <2>10. CASE Crash(s)
    <3>1. req[s].key # k
      BY <2>10 DEF Crash
    <3>. QED
      BY <2>10, <3>1 DEF Crash
  <2>. QED
    BY <1>6, <2>4, <2>5, <2>6, <2>7, <2>8, <2>9, <2>10
<1>7. ASSUME NEW s \in Servers, SidecarReplies(s) PROVE TakenOK(k)'
  <2>1. /\ pc[s] = "reply"
        /\ pc' = [pc EXCEPT ![s] = "idle"]
        /\ UNCHANGED <<lock, durable>>
    BY <1>7 DEF SidecarReplies, Reply, BecomeIdle, Goto
  <2>2. ~ FoundTaken(s, k)'
    BY <2>1
  <2>3. GrantsNow(s, k) => Owned(k)'
    <3> SUFFICES ASSUME GrantsNow(s, k) PROVE Owned(k)'
      OBVIOUS
    <3>1. /\ client[s] \in Execs
          /\ node[client[s]] = "E2"
          /\ KeyOf[client[s]] = k
          /\ answer[s] = "ACQUIRED"
      BY <2>1 DEF CallsOK, HolderInv
    <3>2. acquired' = [acquired EXCEPT ![client[s]] = TRUE]
      BY <1>7, <3>1 DEF SidecarReplies, Deliver, NormalizeAcquisitionResult
    <3>. QED
      BY <3>1, <3>2 DEF Owned, SendersOf
  <2>4. ASSUME NEW e \in SendersOf(k), result'[e] = "NOT_ACQUIRED"
        PROVE  Owned(k)'
    <3>1. CASE result[e] = "NOT_ACQUIRED"
      BY <3>1
    <3>2. CASE result[e] # "NOT_ACQUIRED"
      <4>1. /\ e \in Execs /\ KeyOf[e] = k
            /\ e = client[s] /\ Deliver(e, answer[s])
            /\ node[e] = "E2" /\ answer[s] # "ACQUIRED"
        BY <1>7, <2>4, <3>2
           DEF SidecarReplies, Deliver, NormalizeAcquisitionResult, SendersOf
      <4>2. req[s].key = k /\ req[s].op = "acquire"
        BY <2>1, <4>1 DEF CallsOK, HolderInv
      <4>. QED
        BY <2>1, <4>1, <4>2
    <3>. QED
      BY <3>1, <3>2
  <2>. QED
    BY <2>1, <2>2, <2>3, <2>4
<1>8. CASE UNCHANGED senderVars
  BY <1>1, <1>8 DEF senderVars
<1>. QED
  BY <1>2, <1>3, <1>4, <1>5, <1>6, <1>7, <1>8 DEF SenderNext

\* An execution that was not given its key was refused for the sake of
\* another one that has it, unless a call of the key was lost, timed out or
\* failed, or something died: for any executions and keys, and one sidecar.
THEOREM RefusalsHaveCause ==
    ASSUME OneServer
    PROVE  SenderSpec => []RefusalHasCause
<1>1. SenderInit => SenderInv /\ CauseInv
  BY SenderInvInit, CauseInit
<1>2. SenderInv /\ CauseInv /\ [SenderNext]_senderVars
        => (SenderInv /\ CauseInv)'
  <2> SUFFICES ASSUME SenderInv, CauseInv, [SenderNext]_senderVars
               PROVE  CauseInv'
    BY SenderInvStep
  <2>1. WaitOK'
    BY WaitStep
  <2>2. ASSUME NEW k \in Keys, k \notin Troubled'
        PROVE  CallsOK(k)' /\ TakenOK(k)'
    BY <2>2, CallsStep, TakenStep
  <2>. QED
    BY <2>1, <2>2 DEF CauseInv
<1>3. SenderInv /\ CauseInv => RefusalHasCause
  <2> SUFFICES ASSUME SenderInv, CauseInv,
                      NEW e \in Execs, result[e] = "NOT_ACQUIRED",
                      KeyOf[e] \notin Troubled
               PROVE  \E f \in SendersOf(KeyOf[e]) \ {e} : acquired[f]
    BY DEF RefusalHasCause
  <2>1. Owned(KeyOf[e])
    BY KeyOfFacts DEF CauseInv, TakenOK, SendersOf
  <2>2. ~ acquired[e]
    BY DEF CauseInv, WaitOK
  <2>. QED
    BY <2>1, <2>2 DEF Owned
<1>. QED
  BY <1>1, <1>2, <1>3, PTL DEF SenderSpec

-----------------------------------------------------------------------------
(***************************************************************************)
(* The Sender is one of SendOnce.  What an execution has done so far can   *)
(* be read off its node (StageInv), because an answer of the sidecar       *)
(* reaches an execution only while it waits for one (CallerInv), with any  *)
(* number of processes.                                                    *)
(***************************************************************************)
CallerInv ==
    /\ \A e \in Execs : wire[e] # NoReq => node[e] \in WaitingNodes \cup {"end"}
    /\ \A s \in Servers : client[s] # NoExec =>
          node[client[s]] \in WaitingNodes /\ wire[client[s]] = NoReq
    /\ \A s, t \in Servers : client[s] # NoExec /\ client[s] = client[t] => s = t

StageInv ==
    /\ \A e \in Execs : node[e] \in {"G", "J", "K", "K2", "O"} =>
          acquired[e] /\ posts[e] = 0
    /\ \A e \in Execs : node[e] \in OwnerNodes \ {"Q"} => posts[e] > 0
    /\ \A e \in Execs : node[e] = "end" <=> result[e] # "NONE"

OnceInv == CallerInv /\ StageInv

LEMMA CallerStep ==
    ASSUME SenderInv, CallerInv, [SenderNext]_senderVars
    PROVE  CallerInv'
<1>0. SenderTypeOK /\ NoExec \notin Execs
  BY NoExecAssumption DEF SenderInv, SenderTypeInv
<1> USE <1>0 DEF CallerInv, SenderTypeOK, GoTo, End, Call, execution, network,
            record, WaitingNodes
<1>1. ASSUME NEW e \in Execs, NodeStep(e) PROVE CallerInv'
  <2>1. /\ node[e] \notin WaitingNodes \cup {"end"}
        /\ \A f \in Execs \ {e} : node'[f] = node[f] /\ wire'[f] = wire[f]
        /\ UNCHANGED client
    BY <1>1 DEF NodeStep, RunSendGates, AcquireSendOwnership,
         VerifySuppression, DryRunGate, TransitionToDryRunOk, LiveSendGates,
         PostReply, ClassifySendAttempt, RetryBackoffWait, PersistSentResult,
         ReconciliationPoll, ReconciliationWait
  <2>2. wire'[e] = wire[e] \/ node'[e] \in WaitingNodes
    BY <1>1 DEF NodeStep, RunSendGates, AcquireSendOwnership,
         VerifySuppression, DryRunGate, TransitionToDryRunOk, LiveSendGates,
         PostReply, ClassifySendAttempt, RetryBackoffWait, PersistSentResult,
         ReconciliationPoll, ReconciliationWait
  <2>. QED
    BY <2>1, <2>2
<1>2. ASSUME NEW e \in Execs, CallFails(e) PROVE CallerInv'
  <2>1. /\ \A f \in Execs \ {e} : node'[f] = node[f]
        /\ node'[e] \in {"G", "end"} /\ (node'[e] = "G" => FALSE)
    BY <1>2 DEF CallFails, Deliver, NormalizeAcquisitionResult
  <2>. QED
    BY <1>2, <2>1 DEF CallFails
<1>3. ASSUME NEW e \in Execs, RequestLost(e) PROVE CallerInv'
  BY <1>3 DEF RequestLost
<1>4. ASSUME NEW e \in Execs, ExecutionDies(e) PROVE CallerInv'
  BY <1>4 DEF ExecutionDies
<1>5. ASSUME NEW s \in Servers, NEW e \in Execs, RequestArrives(s, e)
      PROVE  CallerInv'
  BY <1>5 DEF RequestArrives
<1>6. ASSUME NEW s \in Servers, SidecarStep(s) PROVE CallerInv'
  BY <1>6 DEF SidecarStep
<1>7. ASSUME NEW s \in Servers, SidecarReplies(s) PROVE CallerInv'
  <2>1. client' = [client EXCEPT ![s] = NoExec] /\ UNCHANGED wire
    BY <1>7 DEF SidecarReplies
  <2>2. CASE client[s] = NoExec
    BY <1>7, <2>1, <2>2 DEF SidecarReplies
  <2>3. CASE client[s] \in Execs
    <3>1. Deliver(client[s], answer[s])
      BY <1>7, <2>3 DEF SidecarReplies
    <3>2. \A f \in Execs : f # client[s] => node'[f] = node[f]
      BY <3>1 DEF Deliver
    <3>3. \A t \in Servers : client'[t] # NoExec =>
            client'[t] = client[t] /\ client[t] # client[s]
      BY <2>1, <2>3
    <3>. QED
      BY <2>1, <2>3, <3>2, <3>3
  <2>. QED
    BY <2>2, <2>3
<1>8. CASE UNCHANGED senderVars
  BY <1>8 DEF senderVars
<1>. QED
  BY <1>1, <1>2, <1>3, <1>4, <1>5, <1>6, <1>7, <1>8 DEF SenderNext

\* An answer finds its execution at the node that asked.
LEMMA AnswerFindsCaller ==
    ASSUME SenderInv, CallerInv, NEW s \in Servers, SidecarReplies(s)
    PROVE  \/ UNCHANGED <<node, result, acquired>>
           \/ /\ client[s] \in Execs
              /\ node[client[s]] \in WaitingNodes
              /\ Deliver(client[s], answer[s])
  BY NoExecAssumption DEF SenderInv, CallerInv, SidecarReplies

LEMMA StageStep ==
    ASSUME SenderInv, OnceInv, [SenderNext]_senderVars
    PROVE  StageInv'
<1>0. SenderTypeOK /\ HolderInv /\ CallerInv /\ StageInv
  BY DEF SenderInv, SenderTypeInv, OnceInv
<1> USE <1>0 DEF HolderInv, StageInv, SenderTypeOK, GoTo, End, Call, execution,
            network, record, OwnerNodes, EarlyNodes, WaitingNodes
<1>1. ASSUME NEW e \in Execs, NodeStep(e) PROVE StageInv'
  <2>1. CASE PostReply(e)
    <3>1. /\ node[e] = "Q" /\ node' = [node EXCEPT ![e] = "R"]
          /\ posts' = [posts EXCEPT ![e] = @ + 1]
          /\ UNCHANGED <<result, acquired>>
      BY <2>1 DEF PostReply
    <3>. QED
      BY <3>1
  <2>2. CASE RunSendGates(e)
    BY <2>2 DEF RunSendGates
  <2>3. CASE AcquireSendOwnership(e)
    BY <2>3 DEF AcquireSendOwnership
  <2>4. CASE VerifySuppression(e)
    BY <2>4 DEF VerifySuppression
  <2>5. CASE DryRunGate(e)
    BY <2>5 DEF DryRunGate
  <2>6. CASE TransitionToDryRunOk(e)
    BY <2>6 DEF TransitionToDryRunOk
  <2>7. CASE LiveSendGates(e)
    BY <2>7 DEF LiveSendGates
  <2>8. CASE ClassifySendAttempt(e)
    BY <2>8 DEF ClassifySendAttempt
  <2>9. CASE RetryBackoffWait(e)
    BY <2>9 DEF RetryBackoffWait
  <2>10. CASE PersistSentResult(e)
    BY <2>10 DEF PersistSentResult
  <2>11. CASE ReconciliationPoll(e)
    <3>1. /\ node[e] = "V" /\ UNCHANGED <<acquired, posts>>
          /\ \/ node' = [node EXCEPT ![e] = "W3"] /\ UNCHANGED result
             \/ \E r \in {"SENT", "HUMAN_REVIEW"} :
                   /\ node' = [node EXCEPT ![e] = "end"]
                   /\ result' = [result EXCEPT ![e] = r]
      BY <2>11 DEF ReconciliationPoll
    <3>. QED
      BY <3>1
  <2>12. CASE ReconciliationWait(e)
    BY <2>12 DEF ReconciliationWait
  <2>. QED
    BY <1>1, <2>1, <2>2, <2>3, <2>4, <2>5, <2>6, <2>7, <2>8, <2>9, <2>10,
       <2>11, <2>12 DEF NodeStep
<1>2. ASSUME NEW e \in Execs, NEW a, Deliver(e, a), node[e] \in WaitingNodes,
             UNCHANGED posts
      PROVE  StageInv'
  <2>1. CASE node[e] = "E2" /\ a = "ACQUIRED"
    <3>1. /\ node' = [node EXCEPT ![e] = "G"]
          /\ acquired' = [acquired EXCEPT ![e] = TRUE]
          /\ UNCHANGED result
      BY <1>2, <2>1 DEF Deliver, NormalizeAcquisitionResult
    <3>2. posts[e] = 0
      BY <2>1
    <3>. QED
      BY <1>2, <2>1, <3>1, <3>2
  <2>2. CASE ~ (node[e] = "E2" /\ a = "ACQUIRED")
    <3>1. /\ node' = [node EXCEPT ![e] = "end"]
          /\ \A f \in Execs \ {e} : acquired'[f] = acquired[f]
          /\ \E r \in {"NOT_ACQUIRED", "SENT", "DRY_RUN_OK"} :
                result' = [result EXCEPT ![e] = r]
      BY <1>2, <2>2 DEF Deliver, NormalizeAcquisitionResult
    <3>. QED
      BY <1>2, <3>1
  <2>. QED
    BY <2>1, <2>2
<1>3. ASSUME NEW e \in Execs, CallFails(e) PROVE StageInv'
  BY <1>2, <1>3 DEF CallFails
<1>4. ASSUME NEW e \in Execs, RequestLost(e) \/ ExecutionDies(e)
      PROVE  StageInv'
  BY <1>4 DEF RequestLost, ExecutionDies
<1>5. ASSUME NEW s \in Servers,
             SidecarStep(s) \/ \E e \in Execs : RequestArrives(s, e)
      PROVE  StageInv'
  BY <1>5 DEF SidecarStep, RequestArrives
<1>6. ASSUME NEW s \in Servers, SidecarReplies(s) PROVE StageInv'
  <2>1. UNCHANGED posts
    BY <1>6 DEF SidecarReplies
  <2>2. CASE UNCHANGED <<node, result, acquired>>
    BY <2>1, <2>2
  <2>3. CASE /\ client[s] \in Execs
             /\ node[client[s]] \in WaitingNodes
             /\ Deliver(client[s], answer[s])
    BY <1>2, <2>1, <2>3
  <2>. QED
    BY <1>6, <2>2, <2>3, AnswerFindsCaller
<1>7. CASE UNCHANGED senderVars
  BY <1>7 DEF senderVars
<1>. QED
  BY <1>1, <1>3, <1>4, <1>5, <1>6, <1>7 DEF SenderNext

\* A step moves at most one execution from stage to stage, and only a claim
\* of a free key changes who holds one.
OthersStay(e) ==
    \A f \in Execs \ {e} : StageOf(f)' = StageOf(f) /\ acquired'[f] = acquired[f]

StageMove(e) ==
    \/ StageOf(e)' = StageOf(e) /\ acquired'[e] = acquired[e]
    \/ /\ StageOf(e) = "asked" /\ StageOf(e)' = "owner"
       /\ acquired'[e]
       /\ \A f \in Execs : acquired[f] => KeyOf[f] # KeyOf[e]
    \/ /\ <<StageOf(e), StageOf(e)'>> \in
             { <<"asked", "over">>, <<"owner", "over">>,
               <<"owner", "posted">>, <<"posted", "done">> }
       /\ acquired'[e] = acquired[e]

LEMMA NodeStepMoves ==
    ASSUME SenderInv, OnceInv, NEW e \in Execs, NodeStep(e)
    PROVE  OthersStay(e) /\ StageMove(e)
<1>0. SenderTypeOK /\ HolderInv /\ StageInv
  BY DEF SenderInv, SenderTypeInv, OnceInv
<1>1. OthersStay(e)
  <2>1. UNCHANGED acquired /\ \A f \in Execs \ {e} :
          node'[f] = node[f] /\ result'[f] = result[f] /\ posts'[f] = posts[f]
    BY <1>0 DEF SenderTypeOK, NodeStep, GoTo, End, Call, record, RunSendGates,
       AcquireSendOwnership, VerifySuppression, DryRunGate,
       TransitionToDryRunOk, LiveSendGates, PostReply, ClassifySendAttempt,
       RetryBackoffWait, PersistSentResult, ReconciliationPoll,
       ReconciliationWait
  <2>. QED
    BY <2>1 DEF OthersStay, StageOf
<1> USE <1>0 DEF HolderInv, StageInv, SenderTypeOK, GoTo, End, Call, execution,
            network, record, OwnerNodes, EarlyNodes, StageMove, StageOf,
            StoppedResults, PostedResults
<1>2. CASE PostReply(e)
  <2>1. /\ node[e] = "Q" /\ node' = [node EXCEPT ![e] = "R"]
        /\ posts' = [posts EXCEPT ![e] = @ + 1]
        /\ UNCHANGED <<result, acquired>>
    BY <1>2 DEF PostReply
  <2>. QED
    BY <1>1, <2>1
<1>3. CASE RunSendGates(e) \/ AcquireSendOwnership(e)
  BY <1>1, <1>3 DEF RunSendGates, AcquireSendOwnership
<1>4. CASE VerifySuppression(e) \/ DryRunGate(e)
  BY <1>1, <1>4 DEF VerifySuppression, DryRunGate
<1>5. CASE TransitionToDryRunOk(e) \/ LiveSendGates(e)
  BY <1>1, <1>5 DEF TransitionToDryRunOk, LiveSendGates
<1>6. CASE ClassifySendAttempt(e)
  BY <1>1, <1>6 DEF ClassifySendAttempt
<1>7. CASE RetryBackoffWait(e) \/ PersistSentResult(e) \/ ReconciliationWait(e)
  BY <1>1, <1>7 DEF RetryBackoffWait, PersistSentResult, ReconciliationWait
<1>8. CASE ReconciliationPoll(e)
  BY <1>1, <1>8 DEF ReconciliationPoll
<1>. QED
  BY <1>2, <1>3, <1>4, <1>5, <1>6, <1>7, <1>8 DEF NodeStep

LEMMA DeliverMoves ==
    ASSUME SenderInv, OnceInv, NEW e \in Execs, node[e] \in WaitingNodes,
           NEW a, Deliver(e, a), UNCHANGED posts,
           a = "ACQUIRED" => grants[KeyOf[e]] = 0
    PROVE  OthersStay(e) /\ StageMove(e)
<1>0. SenderTypeOK /\ HolderInv /\ StageInv
  BY DEF SenderInv, SenderTypeInv, OnceInv
<1>1. OthersStay(e)
  BY <1>0 DEF SenderTypeOK, OthersStay, StageOf, Deliver, GoTo, End
<1>2. a = "ACQUIRED" => \A f \in Execs : acquired[f] => KeyOf[f] # KeyOf[e]
  BY <1>0, KeyOfFacts DEF HolderInv
<1> USE <1>0 DEF HolderInv, StageInv, SenderTypeOK, GoTo, End, OwnerNodes,
            EarlyNodes, StageMove, StageOf, StoppedResults, PostedResults
<1>3. CASE node[e] = "E2"
  <2>1. posts[e] = 0 /\ ~ acquired[e] /\ StageOf(e) = "asked"
    BY <1>3
  <2>2. CASE a = "ACQUIRED"
    <3>1. /\ node' = [node EXCEPT ![e] = "G"]
          /\ acquired' = [acquired EXCEPT ![e] = TRUE]
          /\ UNCHANGED result
      BY <1>3, <2>2 DEF Deliver, NormalizeAcquisitionResult
    <3>. QED
      BY <1>1, <1>2, <1>3, <2>1, <2>2, <3>1
  <2>3. CASE a # "ACQUIRED"
    <3>1. /\ node' = [node EXCEPT ![e] = "end"]
          /\ acquired' = [acquired EXCEPT ![e] = FALSE]
          /\ result' = [result EXCEPT ![e] = "NOT_ACQUIRED"]
      BY <1>3, <2>3 DEF Deliver, NormalizeAcquisitionResult
    <3>. QED
      BY <1>1, <2>1, <3>1
  <2>. QED
    BY <2>2, <2>3
<1>4. CASE node[e] = "X2"
  BY <1>1, <1>4 DEF Deliver
<1>5. CASE node[e] = "K2"
  BY <1>1, <1>5 DEF Deliver
<1>. QED
  BY <1>3, <1>4, <1>5 DEF WaitingNodes

LEMMA StageMoves ==
    ASSUME SenderInv, OnceInv, [SenderNext]_senderVars
    PROVE  \/ \A e \in Execs :
                 StageOf(e)' = StageOf(e) /\ acquired'[e] = acquired[e]
           \/ \E e \in Execs : OthersStay(e) /\ StageMove(e)
<1>1. ASSUME NEW e \in Execs, CallFails(e)
      PROVE  OthersStay(e) /\ StageMove(e)
  BY <1>1, DeliverMoves DEF CallFails
<1>2. ASSUME NEW e \in Execs, ExecutionDies(e)
      PROVE  OthersStay(e) /\ StageMove(e)
  <2>0. SenderTypeOK /\ HolderInv /\ StageInv
    BY DEF SenderInv, SenderTypeInv, OnceInv
  <2>1. /\ node[e] # "end" /\ UNCHANGED <<acquired, posts>>
        /\ node' = [node EXCEPT ![e] = "end"]
        /\ result' = [result EXCEPT ![e] = "CRASHED"]
    BY <1>2 DEF ExecutionDies, End, GoTo
  <2>2. OthersStay(e)
    BY <2>0, <2>1 DEF OthersStay, StageOf, SenderTypeOK
  <2>. QED
    BY <2>0, <2>1, <2>2 DEF StageMove, StageOf, SenderTypeOK, StageInv,
       StoppedResults, PostedResults
<1>3. ASSUME NEW s \in Servers, SidecarReplies(s), client[s] \in Execs,
             node[client[s]] \in WaitingNodes, Deliver(client[s], answer[s])
      PROVE  OthersStay(client[s]) /\ StageMove(client[s])
  <2>1. req[s].key = KeyOf[client[s]]
    BY <1>3, NoExecAssumption DEF SenderInv, HolderInv
  <2>2. answer[s] = "ACQUIRED" => grants[KeyOf[client[s]]] = 0
    BY <1>3, <2>1 DEF SenderInv, OwnershipInv, GrantInv, SidecarReplies, Reply
  <2>3. UNCHANGED posts
    BY <1>3 DEF SidecarReplies, record
  <2>. QED
    BY <1>3, <2>2, <2>3, DeliverMoves
<1>4. ASSUME UNCHANGED <<node, result, acquired, posts>>
      PROVE  \A e \in Execs :
                 StageOf(e)' = StageOf(e) /\ acquired'[e] = acquired[e]
  BY <1>4 DEF StageOf
<1>5. ASSUME NEW s \in Servers, SidecarReplies(s)
      PROVE  \/ \A e \in Execs :
                   StageOf(e)' = StageOf(e) /\ acquired'[e] = acquired[e]
             \/ \E e \in Execs : OthersStay(e) /\ StageMove(e)
  <2>1. UNCHANGED posts
    BY <1>5 DEF SidecarReplies, record
  <2>. QED
    BY <1>3, <1>4, <1>5, <2>1, AnswerFindsCaller DEF OnceInv
<1>6. ASSUME \/ UNCHANGED senderVars
             \/ \E e \in Execs : RequestLost(e)
             \/ \E s \in Servers : SidecarStep(s)
             \/ \E s \in Servers, e \in Execs : RequestArrives(s, e)
      PROVE  UNCHANGED <<node, result, acquired, posts>>
  BY <1>6 DEF senderVars, execution, record, RequestLost, SidecarStep,
     RequestArrives
<1>. QED
  BY <1>1, <1>2, <1>4, <1>5, <1>6, NodeStepMoves DEF SenderNext

Claimed(acq) == {KeyOf[e] : e \in {f \in Execs : acq[f]}}
Held(e, st) == IF st \in {"owner", "posted", "done"} THEN {KeyOf[e]} ELSE {}

LEMMA OnceImplemented ==
    ASSUME SenderInv, OnceInv, [SenderNext]_senderVars
    PROVE  [Once!Next]_(Once!vars)
<1> DEFINE cl == Claimed(acquired)
           st == [e \in Execs |-> StageOf(e)]
           hd == [e \in Execs |-> Held(e, StageOf(e))]
<1>0. /\ Once!vars = <<cl, st, hd>>
      /\ Once!vars' = <<cl', st', hd'>>
  BY DEF Once!vars, Claimed, Held
<1>1. ASSUME \A e \in Execs :
                 StageOf(e)' = StageOf(e) /\ acquired'[e] = acquired[e]
      PROVE  UNCHANGED Once!vars
  <2>1. cl' = cl
    BY <1>1 DEF Claimed
  <2>2. st' = st /\ hd' = hd
    BY <1>1
  <2>. QED
    BY <1>0, <2>1, <2>2
<1>2. ASSUME NEW e \in Execs, OthersStay(e), StageMove(e)
      PROVE  [Once!Next]_(Once!vars)
  <2> DEFINE to == StageOf(e)'
  <2>1. /\ st' = [st EXCEPT ![e] = to]
        /\ hd' = [hd EXCEPT ![e] = Held(e, to)]
    BY <1>2 DEF OthersStay, Held
  <2>2. /\ st[e] = StageOf(e) /\ hd[e] = Held(e, StageOf(e))
        /\ st = [st EXCEPT ![e] = st[e]]
        /\ hd = [hd EXCEPT ![e] = hd[e]]
    OBVIOUS
  <2>3. acquired'[e] = acquired[e] => cl' = cl
    BY <1>2 DEF OthersStay, Claimed
  <2>4. CASE to = StageOf(e) /\ acquired'[e] = acquired[e]
    BY <1>0, <2>1, <2>2, <2>3, <2>4
  <2>5. CASE /\ StageOf(e) = "asked" /\ to = "owner" /\ acquired'[e]
             /\ \A f \in Execs : acquired[f] => KeyOf[f] # KeyOf[e]
    <3>1. cl' = cl \cup {KeyOf[e]} /\ KeyOf[e] \notin cl
      BY <1>2, <2>5 DEF OthersStay, Claimed
    <3>2. Once!Acquire(e, KeyOf[e])
      BY <1>0, <2>1, <2>2, <2>5, <3>1
      DEF Once!Acquire, Once!Move, Claimed, Held
    <3>. QED
      BY <3>2, KeyOfFacts DEF Once!Next
  <2>6. CASE /\ <<StageOf(e), to>> \in
                   { <<"asked", "over">>, <<"owner", "over">>,
                     <<"owner", "posted">>, <<"posted", "done">> }
             /\ acquired'[e] = acquired[e]
    <3> USE <2>1, <2>2, <2>3, <2>6 DEF Once!Next, Once!Move, Held, Claimed
    <3>1. CASE StageOf(e) = "asked" /\ to = "over"
      BY <3>1 DEF Once!Refuse
    <3>2. CASE StageOf(e) = "owner" /\ to = "over"
      BY <3>2 DEF Once!Withdraw
    <3>3. CASE StageOf(e) = "owner" /\ to = "posted"
      BY <3>3 DEF Once!Post
    <3>4. CASE StageOf(e) = "posted" /\ to = "done"
      BY <3>4 DEF Once!Report
    <3>. QED
      BY <3>1, <3>2, <3>3, <3>4
  <2>. QED
    BY <1>2, <2>4, <2>5, <2>6 DEF StageMove
<1>. QED
  BY <1>1, <1>2, StageMoves

\* The Sender with its sidecar implements SendOnce, for any executions, keys
\* and processes and whatever is lost, late or killed: an execution is given
\* a key that nobody has, POSTs only after that, says BLOCKED or DRY_RUN_OK
\* only if it has not POSTed, and SENT, FAILED or human review only if it has.
THEOREM SenderSendsOnce == SenderSpec => SendsOnce
<1>1. SenderInit => OnceInv /\ Once!Init
  BY DEF SenderInit, OnceInv, CallerInv, StageInv, OwnerNodes, Once!Init,
     StageOf, StoppedResults, PostedResults
<1>2. SenderInv /\ OnceInv /\ [SenderNext]_senderVars =>
        OnceInv' /\ [Once!Next]_(Once!vars)
  BY CallerStep, StageStep, OnceImplemented DEF OnceInv
<1>. QED
  BY <1>1, <1>2, SenderInvInit, SenderInvStep, PTL
  DEF SenderSpec, SendsOnce, Once!Spec

(***************************************************************************)
(* SendOnce is worth implementing: it keeps two senders from POSTing for   *)
(* one key by itself.  A key that somebody holds is claimed, and what is   *)
(* claimed is never given again.                                           *)
(***************************************************************************)
OnceClaims == {KeyOf[e] : e \in {f \in Execs : acquired[f]}}
OnceStage == [e \in Execs |-> StageOf(e)]
OnceHolds == [e \in Execs |-> Held(e, StageOf(e))]

HoldsInv ==
    /\ \A e \in Execs : OnceHolds[e] \subseteq OnceClaims
    /\ \A e, f \in Execs : e # f => OnceHolds[e] \cap OnceHolds[f] = {}

LEMMA HoldsStep ==
    ASSUME HoldsInv, [Once!Next]_(Once!vars)
    PROVE  HoldsInv'
<1> USE DEF HoldsInv
<1>0. /\ Once!vars = <<OnceClaims, OnceStage, OnceHolds>>
      /\ Once!vars' = <<OnceClaims', OnceStage', OnceHolds'>>
  BY DEF Once!vars, OnceClaims, OnceStage, OnceHolds, Held
<1>1. ASSUME NEW x \in Execs, NEW k \in Keys,
             Once!Acquire(x, k) \/ Once!LoseClaim(x, k)
      PROVE  HoldsInv'
  <2>1. \/ /\ k \notin OnceClaims
           /\ OnceHolds' = [OnceHolds EXCEPT ![x] = {k}]
        \/ OnceHolds' = OnceHolds
    BY <1>1 DEF Once!Acquire, Once!LoseClaim, OnceClaims, OnceHolds, Held
  <2>2. OnceClaims' = OnceClaims \cup {k}
    BY <1>1 DEF Once!Acquire, Once!LoseClaim, OnceClaims
  <2>3. OnceHolds = [e \in Execs |-> OnceHolds[e]]
    BY DEF OnceHolds
  <2>. QED
    BY <2>1, <2>2, <2>3
<1>2. ASSUME NEW x \in Execs,
             Once!Refuse(x) \/ Once!Withdraw(x) \/ Once!Post(x) \/ Once!Report(x)
      PROVE  HoldsInv'
  <2>1. \/ OnceHolds' = [OnceHolds EXCEPT ![x] = {}]
        \/ OnceHolds' = OnceHolds
    BY <1>2 DEF Once!Refuse, Once!Withdraw, Once!Post, Once!Report,
       OnceClaims, OnceHolds, Held
  <2>2. OnceClaims' = OnceClaims
    BY <1>2 DEF Once!Refuse, Once!Withdraw, Once!Post, Once!Report, OnceClaims
  <2>3. OnceHolds = [e \in Execs |-> OnceHolds[e]]
    BY DEF OnceHolds
  <2>. QED
    BY <2>1, <2>2, <2>3
<1>3. CASE UNCHANGED Once!vars
  BY <1>0, <1>3
<1>. QED
  BY <1>1, <1>2, <1>3 DEF Once!Next

\* Whoever implements SendOnce has no two senders POST for one key: what the
\* callers of a sender rely on follows from the abstract specification alone.
THEOREM SendOnceKeepsKeysApart == SendsOnce => []Once!OnePosterPerKey
<1>1. Once!Init => HoldsInv
  BY DEF Once!Init, HoldsInv, OnceHolds, OnceClaims, Held
<1>2. HoldsInv => Once!OnePosterPerKey
  BY DEF HoldsInv, Once!OnePosterPerKey, OnceHolds, Held
<1>. QED
  BY <1>1, <1>2, HoldsStep, PTL DEF SendsOnce, Once!Spec

\* With one sidecar process, the files of the composition keep the promise
\* that the sidecar makes to any caller (SendOwnership), although its callers
\* die, give up, and are answered late.
THEOREM CallersSeeOwnership ==
    ASSUME OneServer
    PROVE  SenderSpec => OwnershipSpec
<1>1. SenderInit => SoleInv /\ Ownership!Init
  BY SoleInit, SameMachine DEF SenderInit, Init, Ownership!Init
<1>2. SenderInv /\ SoleInv /\ [SenderNext]_senderVars =>
        SoleInv' /\ [Ownership!Next]_(Ownership!vars)
  BY StepOfSidecar, SoleStep, OwnershipImplemented
  DEF SenderInv, SenderTypeInv
<1>. QED
  BY <1>1, <1>2, SenderInvInit, SenderInvStep, PTL
  DEF SenderSpec, OwnershipSpec, Ownership!Spec

-----------------------------------------------------------------------------
(***************************************************************************)
(* The loops of the policy (SenderPlans), for lists of any length.  They   *)
(* are recursive functions: the lemmas ...LoopDef show that the equation   *)
(* of each has a solution, and what holds at every step of a loop is shown *)
(* for the numbers up to a length by the least one that is missing (UpTo). *)
(***************************************************************************)
LEMMA UpTo ==
    ASSUME NEW n \in Nat, NEW S \in SUBSET Nat,
           0 \in S, \A i \in S : i < n => i + 1 \in S
    PROVE  \A i \in 0..n : i \in S
<1> DEFINE Missing == {i \in 0..n : i \notin S}
           Below == {p \in Nat \X Nat : p[1] < p[2]}
<1> SUFFICES ASSUME Missing # {} PROVE FALSE
  OBVIOUS
<1>1. IsWellFoundedOn(Below, Nat)
  BY NatLessThanWellFounded DEF OpToRel
<1>2. PICK m \in Missing : \A i \in Missing : <<i, m>> \notin Below
  <2>1. Missing \in SUBSET Nat
    OBVIOUS
  <2> HIDE DEF Below, Missing
  <2>. QED
    BY <1>1, <2>1, WFMin
<1>3. m # 0 /\ m - 1 \in 0..n /\ <<m - 1, m>> \in Below
  OBVIOUS
<1>4. m - 1 \in S
  BY <1>2, <1>3
<1>. QED
  BY <1>3, <1>4

\* The equation that defines a loop has a solution, so the loop is one.
LEMMA PlanLoopDef ==
    ASSUME NEW O, NEW s \in Seq(O)
    PROVE  PlanLoop(s) = [i \in 0..Len(s) |->
             IF i = 0 THEN PlanStart ELSE PlanStep(PlanLoop(s)[i - 1], s, i)]
<1> DEFINE Loop(f, n) == f = [i \in 0..n |->
             IF i = 0 THEN PlanStart ELSE PlanStep(f[i - 1], s, i)]
           Defined == {n \in Nat : \E f : Loop(f, n)}
<1>1. 0 \in Defined
  <2>1. Loop([i \in 0..0 |-> PlanStart], 0)
    OBVIOUS
  <2>. QED
    BY <2>1
<1>2. ASSUME NEW n \in Defined PROVE n + 1 \in Defined
  <2>1. n \in Nat /\ n + 1 \in Nat
    OBVIOUS
  <2>2. PICK f : Loop(f, n)
    OBVIOUS
  <2> DEFINE g == [i \in 0..(n + 1) |->
                     IF i <= n THEN f[i] ELSE PlanStep(f[n], s, n + 1)]
  <2>3. \A i \in 0..(n + 1) :
          g[i] = IF i = 0 THEN PlanStart ELSE PlanStep(g[i - 1], s, i)
    BY <2>1, <2>2
  <2>4. Loop(g, n + 1)
    BY <2>1, <2>3
  <2>. QED
    BY <2>1, <2>4
<1>3. Len(s) \in Defined
  <2>1. Defined \in SUBSET Nat /\ Len(s) \in 0..Len(s) /\ Len(s) \in Nat
    OBVIOUS
  <2> HIDE DEF Defined
  <2>. QED
    BY <1>1, <1>2, <2>1, UpTo
<1>4. PlanLoop(s) = CHOOSE f : Loop(f, Len(s))
  BY DEF PlanLoop
<1>5. Loop(PlanLoop(s), Len(s))
  <2> HIDE DEF Loop
  <2>. QED
    BY <1>3, <1>4
<1>. QED
  BY <1>5

LEMMA ReconcileLoopDef ==
    ASSUME NEW O, NEW s \in Seq(O)
    PROVE  ReconcileLoop(s) = [i \in 0..Len(s) |->
             IF i = 0 THEN ReconcileStart
             ELSE ReconcileStep(ReconcileLoop(s)[i - 1], s[i])]
<1> DEFINE Loop(f, n) == f = [i \in 0..n |->
             IF i = 0 THEN ReconcileStart ELSE ReconcileStep(f[i - 1], s[i])]
           Defined == {n \in Nat : \E f : Loop(f, n)}
<1>1. 0 \in Defined
  <2>1. Loop([i \in 0..0 |-> ReconcileStart], 0)
    OBVIOUS
  <2>. QED
    BY <2>1
<1>2. ASSUME NEW n \in Defined PROVE n + 1 \in Defined
  <2>1. n \in Nat /\ n + 1 \in Nat
    OBVIOUS
  <2>2. PICK f : Loop(f, n)
    OBVIOUS
  <2> DEFINE g == [i \in 0..(n + 1) |->
                     IF i <= n THEN f[i] ELSE ReconcileStep(f[n], s[n + 1])]
  <2>3. \A i \in 0..(n + 1) :
          g[i] = IF i = 0 THEN ReconcileStart ELSE ReconcileStep(g[i - 1], s[i])
    BY <2>1, <2>2
  <2>4. Loop(g, n + 1)
    BY <2>1, <2>3
  <2>. QED
    BY <2>1, <2>4
<1>3. Len(s) \in Defined
  <2>1. Defined \in SUBSET Nat /\ Len(s) \in 0..Len(s) /\ Len(s) \in Nat
    OBVIOUS
  <2> HIDE DEF Defined
  <2>. QED
    BY <1>1, <1>2, <2>1, UpTo
<1>4. ReconcileLoop(s) = CHOOSE f : Loop(f, Len(s))
  BY DEF ReconcileLoop
<1>5. Loop(ReconcileLoop(s), Len(s))
  <2> HIDE DEF Loop
  <2>. QED
    BY <1>3, <1>4
<1>. QED
  BY <1>5

LEMMA SendLoopDef ==
    ASSUME NEW O, NEW s \in Seq(O)
    PROVE  Layer1!SendLoop(s) = [i \in 0..Len(s) |->
             IF i = 0 THEN Layer1!SendStart
             ELSE Layer1!SendStep(Layer1!SendLoop(s)[i - 1], s[i])]
<1> DEFINE Loop(f, n) == f = [i \in 0..n |->
             IF i = 0 THEN Layer1!SendStart
             ELSE Layer1!SendStep(f[i - 1], s[i])]
           Defined == {n \in Nat : \E f : Loop(f, n)}
<1>1. 0 \in Defined
  <2>1. Loop([i \in 0..0 |-> Layer1!SendStart], 0)
    OBVIOUS
  <2>. QED
    BY <2>1
<1>2. ASSUME NEW n \in Defined PROVE n + 1 \in Defined
  <2>1. n \in Nat /\ n + 1 \in Nat
    OBVIOUS
  <2>2. PICK f : Loop(f, n)
    OBVIOUS
  <2> DEFINE g == [i \in 0..(n + 1) |->
                     IF i <= n THEN f[i] ELSE Layer1!SendStep(f[n], s[n + 1])]
  <2>3. \A i \in 0..(n + 1) :
          g[i] = IF i = 0 THEN Layer1!SendStart
                 ELSE Layer1!SendStep(g[i - 1], s[i])
    BY <2>1, <2>2
  <2>4. Loop(g, n + 1)
    BY <2>1, <2>3
  <2>. QED
    BY <2>1, <2>4
<1>3. Len(s) \in Defined
  <2>1. Defined \in SUBSET Nat /\ Len(s) \in 0..Len(s) /\ Len(s) \in Nat
    OBVIOUS
  <2> HIDE DEF Defined
  <2>. QED
    BY <1>1, <1>2, <2>1, UpTo
<1>4. Layer1!SendLoop(s) = CHOOSE f : Loop(f, Len(s))
  BY DEF Layer1!SendLoop
<1>5. Loop(Layer1!SendLoop(s), Len(s))
  <2> HIDE DEF Loop
  <2>. QED
    BY <1>3, <1>4
<1>. QED
  BY <1>5

-----------------------------------------------------------------------------
\* The state p of the planning loop after i outcomes of the list s.
PlanAt(s, i, p) ==
    /\ p = [ done |-> p.done, finalState |-> p.finalState,
             attempts |-> p.attempts, delays |-> p.delays,
             secondPostAfterUncertain |-> p.secondPostAfterUncertain ]
    /\ p.done \in BOOLEAN
    /\ ~ p.done =>
         /\ p.attempts = i
         /\ i < Bound(s)
         /\ \A j \in 1..i : Retryable(s[j])
    /\ p.done =>
         /\ p.attempts \in 1..Bound(s)
         /\ \A j \in 1..(p.attempts - 1) : Retryable(s[j])
         /\ \/ /\ ~ Retryable(s[p.attempts])
               /\ p.finalState = TerminalState(s[p.attempts])
            \/ /\ Retryable(s[p.attempts])
               /\ p.attempts = Bound(s)
               /\ p.finalState = "RETRY_EXHAUSTED"

LEMMA PlanStart1 ==
    ASSUME NEW O, NEW s \in Seq(O), s # << >>
    PROVE  PlanAt(s, 0, PlanStart)
  BY DEF PlanAt, PlanStart, Bound, Min2, MAX_SEND_ATTEMPTS

LEMMA PlanStepAt ==
    ASSUME NEW O, NEW s \in Seq(O), NEW i \in 1..Len(s), NEW p,
           PlanAt(s, i - 1, p)
    PROVE  PlanAt(s, i, PlanStep(p, s, i))
<1> DEFINE q == PlanStep(p, s, i)
<1> SUFFICES PlanAt(s, i, q)
  OBVIOUS
<1> USE DEF PlanAt, Bound, Min2, MAX_SEND_ATTEMPTS
<1>1. CASE p.done
  BY <1>1 DEF PlanStep
<1>2. CASE ~ p.done /\ ~ Retryable(s[i])
  <2>1. q = [p EXCEPT !.done = TRUE, !.finalState = TerminalState(s[i]),
                     !.attempts = i,
                     !.secondPostAfterUncertain =
                         /\ TerminalState(s[i]) = "SEND_UNCERTAIN"
                         /\ i < Len(s)]
    BY <1>2 DEF PlanStep
  <2>2. q = [ done |-> TRUE, finalState |-> TerminalState(s[i]),
              attempts |-> i, delays |-> p.delays,
              secondPostAfterUncertain |->
                /\ TerminalState(s[i]) = "SEND_UNCERTAIN"
                /\ i < Len(s) ]
    BY <2>1
  <2> HIDE DEF q
  <2>. QED
    BY <1>2, <2>2
<1>3. CASE /\ ~ p.done /\ Retryable(s[i])
           /\ i = MAX_SEND_ATTEMPTS \/ i = Len(s)
  <2>1. q = [p EXCEPT !.done = TRUE, !.finalState = "RETRY_EXHAUSTED",
                     !.attempts = i]
    BY <1>3 DEF PlanStep
  <2>2. q = [ done |-> TRUE, finalState |-> "RETRY_EXHAUSTED",
              attempts |-> i, delays |-> p.delays,
              secondPostAfterUncertain |-> p.secondPostAfterUncertain ]
    BY <2>1
  <2> HIDE DEF q
  <2>. QED
    BY <1>3, <2>2
<1>4. CASE /\ ~ p.done /\ Retryable(s[i])
           /\ ~ (i = MAX_SEND_ATTEMPTS \/ i = Len(s))
  <2>1. q = [p EXCEPT !.attempts = i, !.delays = Append(@, DelayMs(s[i], i))]
    BY <1>4 DEF PlanStep
  <2>2. q = [ done |-> FALSE, finalState |-> p.finalState, attempts |-> i,
              delays |-> Append(p.delays, DelayMs(s[i], i)),
              secondPostAfterUncertain |-> p.secondPostAfterUncertain ]
    BY <1>4, <2>1
  <2> HIDE DEF q
  <2>. QED
    BY <1>4, <2>2
<1>. QED
  BY <1>1, <1>2, <1>3, <1>4

LEMMA PlanAtEnd ==
    ASSUME NEW O, NEW s \in Seq(O), s # << >>
    PROVE  /\ \A i \in 0..Len(s) : PlanAt(s, i, PlanLoop(s)[i])
           /\ PlanSendAttempts(s).done
<1> DEFINE Good == {i \in Nat : i <= Len(s) => PlanAt(s, i, PlanLoop(s)[i])}
<1>1. Len(s) \in Nat
  OBVIOUS
<1>2. 0 \in Good
  BY <1>1, PlanLoopDef, PlanStart1
<1>3. ASSUME NEW i \in Good, i < Len(s) PROVE i + 1 \in Good
  <2>1. PlanAt(s, i, PlanLoop(s)[i]) /\ i + 1 \in 1..Len(s)
    BY <1>1, <1>3
  <2>2. PlanLoop(s)[i + 1] = PlanStep(PlanLoop(s)[i], s, i + 1)
    BY <2>1, PlanLoopDef
  <2>3. PlanAt(s, i + 1, PlanStep(PlanLoop(s)[i], s, i + 1))
    BY <2>1, PlanStepAt
  <2>. QED
    BY <2>2, <2>3
<1>4. \A i \in 0..Len(s) : i \in Good
  <2>1. Good \in SUBSET Nat
    OBVIOUS
  <2> HIDE DEF Good
  <2>. QED
    BY <1>1, <1>2, <1>3, <2>1, UpTo
<1>5. \A i \in 0..Len(s) : PlanAt(s, i, PlanLoop(s)[i])
  BY <1>4
<1>6. PlanAt(s, Len(s), PlanSendAttempts(s))
  BY <1>1, <1>5 DEF PlanSendAttempts
<1>7. ~ Len(s) < Bound(s)
  BY <1>1 DEF Bound, Min2, MAX_SEND_ATTEMPTS
<1>8. PlanSendAttempts(s).done
  BY <1>6, <1>7 DEF PlanAt
<1>. QED
  BY <1>5, <1>8

LEMMA EarliestIs ==
    ASSUME NEW S \in SUBSET Nat, NEW i \in S, \A j \in S : i <= j
    PROVE  Earliest(S) = i
<1>1. \A k \in S : (\A j \in S : k <= j) => k = i
  OBVIOUS
<1>. QED
  BY <1>1 DEF Earliest

LEMMA StatusRanges ==
    ASSUME NEW n \in Nat
    PROVE  /\ n \in 200..299 => n \notin 400..404 /\ n \notin RetryableStatus
           /\ n \in 400..404 <=> n \in {400, 401, 402, 403, 404}
  BY DEF RetryableStatus

LEMMA TerminalStates ==
    ASSUME NEW o \in Outcomes
    PROVE  /\ TerminalState(o) # "RETRY_EXHAUSTED"
           /\ TerminalState(o) = "SENT" <=> Confirmed(o)
           /\ TerminalState(o) = "SEND_UNCERTAIN"
                  <=> ~ Confirmed(o) /\ ~ Refused(o)
           /\ Confirmed(o) => ~ Retryable(o)
<1>1. o.kind \in {"http", "network-error"} /\ o.status \in Nat
  BY OutcomesAssumption
<1>2. CASE o.kind = "network-error"
  BY <1>2 DEF TerminalState, Confirmed, Refused
<1>3. CASE o.kind = "http"
  <2>1. o.status \in 400..404 <=> o.status \in {400, 401, 402, 403, 404}
    BY <1>1, StatusRanges
  <2>2. CASE Confirmed(o)
    <3>1. o.status \in 200..299 /\ o.valid
      BY <2>2 DEF Confirmed
    <3>2. o.status \notin 400..404 /\ o.status \notin RetryableStatus
      BY <1>1, <3>1, StatusRanges
    <3>3. TerminalState(o) = "SENT"
      BY <1>1, <1>3, <2>1, <3>1, <3>2 DEF TerminalState
    <3>4. ~ Retryable(o)
      BY <1>3, <3>2 DEF Retryable
    <3>. QED
      BY <2>2, <3>2, <3>3, <3>4 DEF Refused
  <2>3. CASE o.status \in 400..404
    <3>1. o.status \notin 200..299
      BY <1>1, <2>3, StatusRanges
    <3>2. TerminalState(o) \in { "PERMANENT_FAILURE",
                                 "AUTH_OR_PLAN_FAILURE",
                                 "INVALID_REPLY_TARGET" }
      BY <1>1, <1>3, <2>1, <2>3, <3>1 DEF TerminalState
    <3>. QED
      BY <1>3, <2>3, <3>1, <3>2 DEF Confirmed, Refused
  <2>4. CASE ~ Confirmed(o) /\ o.status \notin 400..404
    <3>1. TerminalState(o) = "SEND_UNCERTAIN"
      BY <1>1, <1>3, <2>1, <2>4 DEF TerminalState, Confirmed
    <3>. QED
      BY <2>4, <3>1 DEF Refused
  <2>. QED
    BY <2>2, <2>3, <2>4
<1>. QED
  BY <1>1, <1>2, <1>3

\* The plan of every list of outcomes.
LEMMA PlanIsRight ==
    ASSUME NEW s \in Seq(Outcomes), s # << >>
    PROVE  LET plan == PlanSendAttempts(s)
               last == IF Definite(s) = {} THEN Bound(s)
                       ELSE Earliest(Definite(s))
               o == s[last]
           IN  /\ plan.attempts = last
               /\ (plan.finalState = "RETRY_EXHAUSTED") <=> (Definite(s) = {})
               /\ (plan.finalState = "SENT") <=> Confirmed(o)
               /\ (plan.finalState = "SEND_UNCERTAIN")
                    <=> ~ Retryable(o) /\ ~ Confirmed(o) /\ ~ Refused(o)
<1> DEFINE plan == PlanSendAttempts(s)
           last == IF Definite(s) = {} THEN Bound(s) ELSE Earliest(Definite(s))
<1>1. PlanAt(s, Len(s), plan) /\ plan.done
  BY PlanAtEnd DEF PlanSendAttempts
<1>2. Bound(s) \in 1..Len(s)
  BY DEF Bound, Min2, MAX_SEND_ATTEMPTS
<1>3. plan.attempts = last /\ (~ Retryable(s[last]) <=> Definite(s) # {})
  <2>1. CASE Retryable(s[plan.attempts])
    BY <1>1, <1>2, <2>1 DEF PlanAt, Definite
  <2>2. CASE ~ Retryable(s[plan.attempts])
    <3>1. /\ plan.attempts \in Definite(s)
          /\ \A j \in Definite(s) : plan.attempts <= j
      BY <1>1, <1>2, <2>2 DEF PlanAt, Definite
    <3>2. Definite(s) \in SUBSET Nat
      BY <1>2 DEF Definite
    <3>. QED
      BY <2>2, <3>1, <3>2, EarliestIs
  <2>. QED
    BY <2>1, <2>2
<1>4. last \in 1..Len(s) /\ s[last] \in Outcomes
  BY <1>1, <1>2, <1>3 DEF PlanAt
<1>5. plan.finalState =
        IF Retryable(s[last]) THEN "RETRY_EXHAUSTED" ELSE TerminalState(s[last])
  BY <1>1, <1>3 DEF PlanAt
<1>. QED
  BY <1>3, <1>4, <1>5, TerminalStates

-----------------------------------------------------------------------------
\* An outcome means the same to both senders, and is waited for as long.
LEMMA SameMeaning ==
    ASSUME NEW o \in Outcomes
    PROVE  /\ Layer1!IsRetryable(o) <=> Retryable(o)
           /\ ~ Retryable(o) =>
                /\ Layer1!StateOf(o) = TerminalState(o)
                /\ TerminalState(o) \notin
                     {"none", "PRE_SUBMISSION_NETWORK_FAILURE"}
           /\ Retryable(o) =>
                Layer1!StateOf(o) \in
                  {"RETRY_EXHAUSTED", "PRE_SUBMISSION_NETWORK_FAILURE"}
<1> USE DEF Layer1!IsRetryable, Layer1!RetryableNetworkPhases, Retryable,
            RetryableStatus
<1>1. o.kind \in {"http", "network-error"} /\ o.status \in Nat
  BY OutcomesAssumption
<1>2. Layer1!IsRetryable(o) <=> Retryable(o)
  BY <1>1
<1>3. CASE o.kind = "network-error"
  BY <1>2, <1>3 DEF Layer1!StateOf, TerminalState
<1>4. CASE o.kind = "http"
  <2>1. CASE o.status \in 200..299
    <3>1. o.status \notin {400, 401, 402, 403, 404} /\ ~ Retryable(o)
      BY <1>1, <1>4, <2>1, StatusRanges
    <3>. QED
      BY <1>2, <1>4, <2>1, <3>1 DEF Layer1!StateOf, TerminalState
  <2>2. CASE o.status \notin 200..299
    <3>1. CASE Retryable(o)
      BY <1>2, <1>4, <2>2, <3>1 DEF Layer1!StateOf
    <3>2. CASE ~ Retryable(o)
      BY <1>2, <1>4, <2>2, <3>2 DEF Layer1!StateOf, TerminalState
    <3>. QED
      BY <3>1, <3>2
  <2>. QED
    BY <2>1, <2>2
<1>. QED
  BY <1>1, <1>3, <1>4

LEMMA SameWait ==
    ASSUME NEW o \in Outcomes, NEW n \in 1..MAX_SEND_ATTEMPTS
    PROVE  Layer1!DelayAfter(o, n) = DelayMs(o, n)
<1>1. o.status = 429 => o.kind = "http"
  BY OutcomesAssumption DEF NoStatus
<1>. QED
  BY <1>1 DEF Layer1!DelayAfter, DelayMs, Layer1!Shorter, Min2,
     Layer1!defaultJitter, DeterministicJitter, Layer1!NoHeader, NoRetryAfter,
     BASE_BACKOFF_MS, MAX_BACKOFF_MS, RETRY_AFTER_CAP_MS

\* The planning loop p and the Layer 1 loop r after i outcomes of the list s.
Abreast(s, i, p, r) ==
    /\ p = [ done |-> p.done, finalState |-> p.finalState,
             attempts |-> p.attempts, delays |-> p.delays,
             secondPostAfterUncertain |-> p.secondPostAfterUncertain ]
    /\ p.done \in BOOLEAN
    /\ r = [ finalState |-> r.finalState, attempts |-> r.attempts,
             delays |-> r.delays ]
    /\ r.finalState = "none" /\ i < Len(s) =>
         /\ ~ p.done
         /\ r.attempts = i
         /\ i < MAX_SEND_ATTEMPTS
         /\ p.delays = r.delays
    /\ r.finalState # "none" =>
         /\ p.done
         /\ p.attempts = r.attempts
         /\ p.delays = r.delays
         /\ p.finalState = IF r.finalState = "PRE_SUBMISSION_NETWORK_FAILURE"
                           THEN "RETRY_EXHAUSTED" ELSE r.finalState

LEMMA AbreastStep ==
    ASSUME NEW s \in Seq(Outcomes), NEW i \in 1..Len(s), NEW p, NEW r,
           Abreast(s, i - 1, p, r)
    PROVE  Abreast(s, i, PlanStep(p, s, i), Layer1!SendStep(r, s[i]))
<1> DEFINE q == PlanStep(p, s, i)
           t == Layer1!SendStep(r, s[i])
<1> SUFFICES Abreast(s, i, q, t)
  OBVIOUS
<1> USE DEF Abreast, MAX_SEND_ATTEMPTS, Layer1!MAX_ATTEMPTS
<1>o. s[i] \in Outcomes /\ i \in Nat
  OBVIOUS
<1>r. Layer1!IsRetryable(s[i]) <=> Retryable(s[i])
  BY <1>o, SameMeaning
<1>1. CASE r.finalState # "none"
  <2>1. q = p /\ t = r
    BY <1>1 DEF PlanStep, Layer1!SendStep
  <2> HIDE DEF q, t
  <2>. QED
    BY <1>1, <2>1
<1>2. CASE r.finalState = "none"
  <2>1. /\ ~ p.done /\ r.attempts = i - 1 /\ r.attempts + 1 = i
        /\ i <= 3 /\ p.delays = r.delays
    BY <1>2
  <2>2. CASE ~ Retryable(s[i])
    <3>1. q = [ done |-> TRUE, finalState |-> TerminalState(s[i]),
                attempts |-> i, delays |-> p.delays,
                secondPostAfterUncertain |->
                  /\ TerminalState(s[i]) = "SEND_UNCERTAIN"
                  /\ i < Len(s) ]
      <4>1. q = [p EXCEPT !.done = TRUE, !.finalState = TerminalState(s[i]),
                         !.attempts = i,
                         !.secondPostAfterUncertain =
                             /\ TerminalState(s[i]) = "SEND_UNCERTAIN"
                             /\ i < Len(s)]
        BY <2>1, <2>2 DEF PlanStep
      <4>. QED
        BY <4>1
    <3>2. t = [ finalState |-> Layer1!StateOf(s[i]), attempts |-> i,
                delays |-> r.delays ]
      <4>1. t = [r EXCEPT !.finalState = Layer1!StateOf(s[i]),
                          !.attempts = @ + 1]
        BY <1>2, <1>r, <2>2 DEF Layer1!SendStep
      <4>. QED
        BY <2>1, <4>1
    <3> HIDE DEF q, t
    <3>. QED
      BY <1>o, <2>1, <2>2, <3>1, <3>2, SameMeaning
  <2>3. CASE Retryable(s[i]) /\ i = 3
    <3>1. q = [ done |-> TRUE, finalState |-> "RETRY_EXHAUSTED",
                attempts |-> i, delays |-> p.delays,
                secondPostAfterUncertain |-> p.secondPostAfterUncertain ]
      <4>1. q = [p EXCEPT !.done = TRUE, !.finalState = "RETRY_EXHAUSTED",
                         !.attempts = i]
        BY <2>1, <2>3 DEF PlanStep
      <4>. QED
        BY <4>1
    <3>2. t = [ finalState |-> Layer1!StateOf(s[i]), attempts |-> i,
                delays |-> r.delays ]
      <4>1. t = [r EXCEPT !.finalState = Layer1!StateOf(s[i]),
                          !.attempts = @ + 1]
        BY <1>2, <1>r, <2>1, <2>3 DEF Layer1!SendStep
      <4>. QED
        BY <2>1, <4>1
    <3>3. Layer1!StateOf(s[i]) \in
            {"RETRY_EXHAUSTED", "PRE_SUBMISSION_NETWORK_FAILURE"}
      BY <1>o, <2>3, SameMeaning
    <3> HIDE DEF q, t
    <3>. QED
      BY <2>1, <3>1, <3>2, <3>3
  <2>4. CASE Retryable(s[i]) /\ i # 3
    <3> DEFINE wait == DelayMs(s[i], i)
    <3>1. t = [ finalState |-> "none", attempts |-> i,
                delays |-> Append(r.delays, wait) ]
      <4>1. t = [r EXCEPT !.attempts = @ + 1,
                          !.delays = Append(@, Layer1!DelayAfter(s[i], i))]
        BY <1>2, <1>r, <2>1, <2>4 DEF Layer1!SendStep
      <4>2. Layer1!DelayAfter(s[i], i) = wait
        BY <1>o, <2>1, SameWait
      <4> HIDE DEF wait
      <4>. QED
        BY <1>2, <2>1, <4>1, <4>2
    <3>2. CASE i = Len(s)
      <4>1. q = [ done |-> TRUE, finalState |-> "RETRY_EXHAUSTED",
                  attempts |-> i, delays |-> p.delays,
                  secondPostAfterUncertain |-> p.secondPostAfterUncertain ]
        <5>1. q = [p EXCEPT !.done = TRUE, !.finalState = "RETRY_EXHAUSTED",
                           !.attempts = i]
          BY <2>1, <2>4, <3>2 DEF PlanStep
        <5>. QED
          BY <5>1
      <4> HIDE DEF q, t, wait
      <4>. QED
        BY <3>1, <3>2, <4>1
    <3>3. CASE i # Len(s)
      <4>1. q = [ done |-> FALSE, finalState |-> p.finalState,
                  attempts |-> i, delays |-> Append(p.delays, wait),
                  secondPostAfterUncertain |-> p.secondPostAfterUncertain ]
        <5>1. q = [p EXCEPT !.attempts = i, !.delays = Append(@, wait)]
          BY <2>1, <2>4, <3>3 DEF PlanStep
        <5> HIDE DEF wait
        <5>. QED
          BY <2>1, <5>1
      <4> HIDE DEF q, t, wait
      <4>. QED
        BY <2>1, <2>4, <3>1, <4>1
    <3>. QED
      BY <3>2, <3>3
  <2>. QED
    BY <2>2, <2>3, <2>4
<1>. QED
  BY <1>1, <1>2

LEMMA AbreastAtEnd ==
    ASSUME NEW s \in Seq(Outcomes)
    PROVE  Abreast(s, Len(s), PlanSendAttempts(s), Layer1!SendReply(s))
<1> DEFINE p(i) == PlanLoop(s)[i]
           r(i) == Layer1!SendLoop(s)[i]
           Good == {i \in Nat : i <= Len(s) => Abreast(s, i, p(i), r(i))}
<1>1. Len(s) \in Nat
  OBVIOUS
<1>2. 0 \in Good
  <2>1. p(0) = PlanStart /\ r(0) = Layer1!SendStart
    BY <1>1, PlanLoopDef, SendLoopDef
  <2>2. Abreast(s, 0, PlanStart, Layer1!SendStart)
    BY DEF Abreast, PlanStart, Layer1!SendStart, MAX_SEND_ATTEMPTS
  <2>. QED
    BY <2>1, <2>2
<1>3. ASSUME NEW i \in Good, i < Len(s) PROVE i + 1 \in Good
  <2>1. Abreast(s, i, p(i), r(i)) /\ i + 1 \in 1..Len(s) /\ (i + 1) - 1 = i
    BY <1>1, <1>3
  <2>2. /\ p(i + 1) = PlanStep(p(i), s, i + 1)
        /\ r(i + 1) = Layer1!SendStep(r(i), s[i + 1])
    BY <2>1, PlanLoopDef, SendLoopDef
  <2>3. Abreast(s, i + 1, PlanStep(p(i), s, i + 1),
                Layer1!SendStep(r(i), s[i + 1]))
    BY <2>1, AbreastStep
  <2>. QED
    BY <2>2, <2>3
<1>4. \A i \in 0..Len(s) : i \in Good
  <2>1. Good \in SUBSET Nat
    OBVIOUS
  <2> HIDE DEF Good
  <2>. QED
    BY <1>1, <1>2, <1>3, <2>1, UpTo
<1>. QED
  BY <1>1, <1>4 DEF PlanSendAttempts, Layer1!SendReply

-----------------------------------------------------------------------------
\* The waits of a planning loop p after i outcomes.
Waits == 0..RETRY_AFTER_CAP_MS

WaitsAt(i, p) ==
    /\ p = [ done |-> p.done, finalState |-> p.finalState,
             attempts |-> p.attempts, delays |-> p.delays,
             secondPostAfterUncertain |-> p.secondPostAfterUncertain ]
    /\ p.done \in BOOLEAN
    /\ p.delays \in Seq(Waits)
    /\ ~ p.done => Len(p.delays) = i /\ i < MAX_SEND_ATTEMPTS
    /\ p.done => p.attempts = Len(p.delays) + 1

LEMMA WaitIsBounded ==
    ASSUME NEW o \in Outcomes, NEW n \in 1..(MAX_SEND_ATTEMPTS - 1)
    PROVE  DelayMs(o, n) \in Waits
<1>1. o.retryAfter \in Nat \cup {NoRetryAfter}
  BY OutcomesAssumption
<1>2. n \in {1, 2}
  BY DEF MAX_SEND_ATTEMPTS
<1>3. 2^(n - 1) \in {1, 2} /\ DeterministicJitter(n) \in {37, 24}
  <2>1. CASE n = 1
    <3>1. n - 1 = 0 /\ 2^0 = 1
      BY <2>1
    <3>. QED
      BY <2>1, <3>1 DEF DeterministicJitter
  <2>2. CASE n = 2
    <3>1. n - 1 = 1 /\ 2^1 = 2
      BY <2>2
    <3>. QED
      BY <2>2, <3>1 DEF DeterministicJitter
  <2>. QED
    BY <1>2, <2>1, <2>2
<1>. QED
  BY <1>1, <1>3 DEF DelayMs, Waits, Min2, NoRetryAfter, BASE_BACKOFF_MS,
     MAX_BACKOFF_MS, RETRY_AFTER_CAP_MS

LEMMA WaitsStepAt ==
    ASSUME NEW s \in Seq(Outcomes), NEW i \in 1..Len(s), NEW p,
           WaitsAt(i - 1, p)
    PROVE  WaitsAt(i, PlanStep(p, s, i))
<1> DEFINE q == PlanStep(p, s, i)
<1> SUFFICES WaitsAt(i, q)
  OBVIOUS
<1> USE DEF WaitsAt, MAX_SEND_ATTEMPTS
<1>1. CASE p.done
  BY <1>1 DEF PlanStep
<1>2. ASSUME ~ p.done, NEW final, NEW second,
             q = [ done |-> TRUE, finalState |-> final, attempts |-> i,
                   delays |-> p.delays, secondPostAfterUncertain |-> second ]
      PROVE  WaitsAt(i, q)
  <2>1. i = Len(p.delays) + 1
    BY <1>2
  <2> HIDE DEF q
  <2>. QED
    BY <1>2, <2>1
<1>4. CASE ~ p.done /\ ~ Retryable(s[i])
  <2> DEFINE second == TerminalState(s[i]) = "SEND_UNCERTAIN" /\ i < Len(s)
  <2>1. q = [p EXCEPT !.done = TRUE, !.finalState = TerminalState(s[i]),
                      !.attempts = i, !.secondPostAfterUncertain = second]
    BY <1>4 DEF PlanStep
  <2>2. q = [ done |-> TRUE, finalState |-> TerminalState(s[i]),
              attempts |-> i, delays |-> p.delays,
              secondPostAfterUncertain |-> second ]
    BY <2>1
  <2>. QED
    BY <1>2, <1>4, <2>2
<1>5. CASE /\ ~ p.done /\ Retryable(s[i])
           /\ i = MAX_SEND_ATTEMPTS \/ i = Len(s)
  <2>1. q = [p EXCEPT !.done = TRUE, !.finalState = "RETRY_EXHAUSTED",
                     !.attempts = i]
    BY <1>5 DEF PlanStep
  <2>2. q = [ done |-> TRUE, finalState |-> "RETRY_EXHAUSTED",
              attempts |-> i, delays |-> p.delays,
              secondPostAfterUncertain |-> p.secondPostAfterUncertain ]
    BY <2>1
  <2>. QED
    BY <1>2, <1>5, <2>2
<1>3. CASE /\ ~ p.done /\ Retryable(s[i])
           /\ ~ (i = MAX_SEND_ATTEMPTS \/ i = Len(s))
  <2>1. q = [p EXCEPT !.attempts = i, !.delays = Append(@, DelayMs(s[i], i))]
    BY <1>3 DEF PlanStep
  <2>2. q = [ done |-> FALSE, finalState |-> p.finalState, attempts |-> i,
              delays |-> Append(p.delays, DelayMs(s[i], i)),
              secondPostAfterUncertain |-> p.secondPostAfterUncertain ]
    BY <1>3, <2>1
  <2>3. i \in 1..(MAX_SEND_ATTEMPTS - 1) /\ s[i] \in Outcomes
    BY <1>3
  <2>4. DelayMs(s[i], i) \in Waits
    BY <2>3, WaitIsBounded
  <2> HIDE DEF q
  <2>. QED
    BY <1>3, <2>2, <2>3, <2>4
<1>. QED
  BY <1>1, <1>3, <1>4, <1>5

LEMMA WaitsAtEnd ==
    ASSUME NEW s \in Seq(Outcomes), s # << >>
    PROVE  PlanSendAttempts(s).delays
             \in [1..(PlanSendAttempts(s).attempts - 1) -> Waits]
<1> DEFINE Good == {i \in Nat : i <= Len(s) => WaitsAt(i, PlanLoop(s)[i])}
<1>1. Len(s) \in Nat
  OBVIOUS
<1>2. 0 \in Good
  <2>1. PlanLoop(s)[0] = PlanStart
    BY <1>1, PlanLoopDef
  <2>2. WaitsAt(0, PlanStart)
    BY DEF WaitsAt, PlanStart, MAX_SEND_ATTEMPTS
  <2>. QED
    BY <2>1, <2>2
<1>3. ASSUME NEW i \in Good, i < Len(s) PROVE i + 1 \in Good
  <2>1. WaitsAt(i, PlanLoop(s)[i]) /\ i + 1 \in 1..Len(s)
    BY <1>1, <1>3
  <2>2. PlanLoop(s)[i + 1] = PlanStep(PlanLoop(s)[i], s, i + 1)
    BY <2>1, PlanLoopDef
  <2>3. WaitsAt(i + 1, PlanStep(PlanLoop(s)[i], s, i + 1))
    BY <2>1, WaitsStepAt
  <2>. QED
    BY <2>2, <2>3
<1>4. \A i \in 0..Len(s) : i \in Good
  <2>1. Good \in SUBSET Nat
    OBVIOUS
  <2> HIDE DEF Good
  <2>. QED
    BY <1>1, <1>2, <1>3, <2>1, UpTo
<1>5. WaitsAt(Len(s), PlanSendAttempts(s))
  BY <1>1, <1>4 DEF PlanSendAttempts
<1>6. PlanSendAttempts(s).done
  BY PlanAtEnd
<1>. QED
  BY <1>5, <1>6 DEF WaitsAt

-----------------------------------------------------------------------------
LEMMA SetSizes ==
    ASSUME NEW S, IsFiniteSet(S)
    PROVE  /\ Cardinality(S) > 1 <=> \E a, b \in S : a # b
           /\ Cardinality(S) = 1 <=> \E x : S = {x}
           /\ \A x : S = {x} => TheOnly(S) = x
<1>1. Cardinality(S) \in Nat
  BY FS_CardinalityType
<1>2. Cardinality(S) = 0 <=> S = {}
  BY FS_EmptySet
<1>3. Cardinality(S) = 1 <=> \E x : S = {x}
  BY FS_Singleton
<1>4. (S # {} /\ ~ \E x : S = {x}) <=> \E a, b \in S : a # b
  OBVIOUS
<1>5. \A x : S = {x} => TheOnly(S) = x
  BY DEF TheOnly
<1>. QED
  BY <1>1, <1>2, <1>3, <1>4, <1>5

\* The state r of the reconciliation loop after i polls.
VerdictAt(i, r) ==
    /\ r = [verdict |-> r.verdict, last |-> r.last, run |-> r.run]
    /\ r.verdict = "NONE" =>
         /\ \A j \in 1..i : j \notin Deciding
         /\ IF i > 0 /\ Cardinality(polls[i]) = 1
              THEN polls[i] = {r.last} /\ r.run = 1
              ELSE r.last = NoMatch /\ r.run = 0
    /\ r.verdict # "NONE" =>
         \E d \in 1..i :
             /\ d \in Deciding
             /\ \A j \in 1..(d - 1) : j \notin Deciding
             /\ r.verdict = IF Several(d) THEN "HUMAN_REVIEW_MULTIPLE_MATCHES"
                            ELSE "SENT_RECONCILED"

LEMMA VerdictStepAt ==
    ASSUME polls \in Seq(Matches), NEW i \in 1..Len(polls), NEW r,
           VerdictAt(i - 1, r)
    PROVE  VerdictAt(i, ReconcileStep(r, polls[i]))
<1> DEFINE ids == polls[i]
           t == ReconcileStep(r, ids)
<1> SUFFICES VerdictAt(i, t)
  OBVIOUS
<1>1. IsFiniteSet(ids) /\ ids \subseteq Nat \ {0}
  BY MatchesAssumption DEF NoMatch
<1>2. i \in Nat /\ i \in 1..Len(polls) /\ Len(polls) \in Nat
  OBVIOUS
<1>3. CASE r.verdict # "NONE"
  <2>1. t = r
    BY <1>3 DEF ReconcileStep
  <2>2. PICK d \in 1..(i - 1) :
            /\ d \in Deciding
            /\ \A j \in 1..(d - 1) : j \notin Deciding
            /\ r.verdict = IF Several(d) THEN "HUMAN_REVIEW_MULTIPLE_MATCHES"
                           ELSE "SENT_RECONCILED"
    BY <1>3 DEF VerdictAt
  <2>3. d \in 1..i
    BY <1>2
  <2>4. r = [verdict |-> r.verdict, last |-> r.last, run |-> r.run]
    BY DEF VerdictAt
  <2> HIDE DEF t
  <2>. QED
    BY <1>3, <2>1, <2>2, <2>3, <2>4 DEF VerdictAt
<1>4. CASE r.verdict = "NONE" /\ ids = {}
  <2>1. t = [verdict |-> "NONE", last |-> NoMatch, run |-> 0]
    <3>1. t = [r EXCEPT !.last = NoMatch, !.run = 0]
      BY <1>4 DEF ReconcileStep
    <3>. QED
      BY <1>4, <3>1 DEF VerdictAt
  <2>2. Cardinality(ids) = 0
    BY <1>4, FS_EmptySet
  <2>3. i \notin Deciding
    BY <2>2 DEF Deciding, Several, Repeated
  <2> HIDE DEF t
  <2>. QED
    BY <1>2, <1>4, <2>1, <2>2, <2>3 DEF VerdictAt
<1>5. CASE r.verdict = "NONE" /\ (\E a, b \in ids : a # b)
  <2>1. t = [ verdict |-> "HUMAN_REVIEW_MULTIPLE_MATCHES",
              last |-> r.last, run |-> r.run ]
    <3>1. t = [r EXCEPT !.verdict = "HUMAN_REVIEW_MULTIPLE_MATCHES"]
      BY <1>5 DEF ReconcileStep
    <3>. QED
      BY <1>5, <3>1 DEF VerdictAt
  <2>2. Several(i) /\ i \in Deciding
    BY <1>1, <1>2, <1>5, SetSizes DEF Several, Deciding
  <2>3. \A j \in 1..(i - 1) : j \notin Deciding
    BY <1>5 DEF VerdictAt
  <2> HIDE DEF t
  <2>. QED
    BY <1>2, <2>1, <2>2, <2>3 DEF VerdictAt
<1>6. CASE r.verdict = "NONE" /\ ids # {} /\ ~ (\E a, b \in ids : a # b)
  <2>1. PICK x : ids = {x}
    <3>1. PICK y : y \in ids
      BY <1>6
    <3> HIDE DEF ids
    <3>2. ids = {y}
      BY <1>6, <3>1
    <3>. QED
      BY <3>2
  <2>2. /\ Cardinality(ids) = 1 /\ ~ Several(i)
        /\ TheOnly(ids) = x
        /\ x # NoMatch
    BY <1>1, <2>1, SetSizes DEF Several, NoMatch
  <2> DEFINE n == IF x = r.last THEN r.run + 1 ELSE 1
  <2>3. t = [ verdict |-> IF n >= 2 THEN "SENT_RECONCILED" ELSE "NONE",
              last |-> x, run |-> n ]
    BY <1>6, <2>2 DEF ReconcileStep
  <2>4. \A j \in 1..(i - 1) : j \notin Deciding
    BY <1>6 DEF VerdictAt
  <2>5. CASE i > 1 /\ polls[i - 1] = {x}
    <3>1. Cardinality(polls[i - 1]) = 1
      BY <2>1, <2>2, <2>5
    <3>2. r.last = x /\ r.run = 1
      BY <1>2, <1>6, <2>5, <3>1 DEF VerdictAt
    <3>3. n = 2
      BY <3>2
    <3>4. i \in Deciding
      BY <1>2, <2>1, <2>2, <2>5 DEF Deciding, Repeated
    <3> HIDE DEF t, n
    <3>. QED
      BY <1>2, <2>2, <2>3, <2>4, <3>3, <3>4 DEF VerdictAt
  <2>6. CASE ~ (i > 1 /\ polls[i - 1] = {x})
    <3>1. r.last # x
      BY <1>2, <1>6, <2>2, <2>6 DEF VerdictAt
    <3>2. n = 1
      BY <3>1
    <3>3. i \notin Deciding
      BY <1>2, <2>1, <2>2, <2>6 DEF Deciding, Repeated
    <3> HIDE DEF t, n
    <3>4. t = [verdict |-> "NONE", last |-> x, run |-> 1]
      BY <2>3, <3>2
    <3>. QED
      BY <1>2, <2>1, <2>2, <2>4, <3>3, <3>4 DEF VerdictAt
  <2>. QED
    BY <2>5, <2>6
<1>. QED
  BY <1>3, <1>4, <1>5, <1>6

LEMMA VerdictIsRight ==
    ASSUME polls \in Seq(Matches)
    PROVE  ReconcileIsFirstDecidingPoll
<1> DEFINE r(i) == ReconcileLoop(polls)[i]
           n == Len(polls)
           Good == {i \in Nat : i <= n => VerdictAt(i, r(i))}
<1>1. n \in Nat
  OBVIOUS
<1>2. 0 \in Good
  <2>1. r(0) = ReconcileStart
    BY <1>1, ReconcileLoopDef
  <2>2. VerdictAt(0, ReconcileStart)
    BY DEF VerdictAt, ReconcileStart
  <2>. QED
    BY <2>1, <2>2
<1>3. ASSUME NEW i \in Good, i < n PROVE i + 1 \in Good
  <2>1. VerdictAt(i, r(i)) /\ i + 1 \in 1..n /\ (i + 1) - 1 = i
    BY <1>1, <1>3
  <2>2. r(i + 1) = ReconcileStep(r(i), polls[i + 1])
    BY <2>1, ReconcileLoopDef
  <2>3. VerdictAt(i + 1, ReconcileStep(r(i), polls[i + 1]))
    BY <2>1, VerdictStepAt
  <2>. QED
    BY <2>2, <2>3
<1>4. VerdictAt(n, r(n))
  <2>1. Good \in SUBSET Nat
    OBVIOUS
  <2>2. \A i \in 0..n : i \in Good
    <3> HIDE DEF Good
    <3>. QED
      BY <1>1, <1>2, <1>3, <2>1, UpTo
  <2>. QED
    BY <1>1, <2>2
<1>5. Deciding \in SUBSET Nat /\ Deciding \subseteq 1..n
  BY DEF Deciding
<1>6. CASE r(n).verdict = "NONE"
  <2>1. Deciding = {}
    BY <1>4, <1>5, <1>6 DEF VerdictAt
  <2>. QED
    BY <1>6, <2>1 DEF ReconcileIsFirstDecidingPoll, ReconcileMatches
<1>7. CASE r(n).verdict # "NONE"
  <2>1. PICK d \in 1..n :
            /\ d \in Deciding
            /\ \A j \in 1..(d - 1) : j \notin Deciding
            /\ r(n).verdict =
                 IF Several(d) THEN "HUMAN_REVIEW_MULTIPLE_MATCHES"
                 ELSE "SENT_RECONCILED"
    BY <1>4, <1>7 DEF VerdictAt
  <2>2. \A j \in Deciding : d <= j
    BY <1>1, <1>5, <2>1
  <2>3. Earliest(Deciding) = d
    BY <1>5, <2>1, <2>2, EarliestIs
  <2>. QED
    BY <1>7, <2>1, <2>3 DEF ReconcileIsFirstDecidingPoll, ReconcileMatches
<1>. QED
  BY <1>6, <1>7

-----------------------------------------------------------------------------
PlansInv == outcomes \in Seq(Outcomes) /\ polls \in Seq(Matches)

LEMMA PlansInvariant == PlansSpec => []PlansInv
<1>1. PlansInit => PlansInv
  BY DEF PlansInit, PlansInv
<1>2. PlansInv /\ [PlansNext]_plansVars => PlansInv'
  <2> SUFFICES ASSUME PlansInv, [PlansNext]_plansVars PROVE PlansInv'
    OBVIOUS
  <2> USE DEF PlansInv
  <2>1. ASSUME NEW o \in Outcomes, AddOutcome(o) PROVE PlansInv'
    BY <2>1 DEF AddOutcome
  <2>2. ASSUME NEW ids \in Matches, AddPoll(ids) PROVE PlansInv'
    BY <2>2 DEF AddPoll
  <2>3. CASE UNCHANGED plansVars
    BY <2>3 DEF plansVars
  <2>. QED
    BY <2>1, <2>2, <2>3 DEF PlansNext
<1>. QED
  BY <1>1, <1>2, PTL DEF PlansSpec

\* Whatever list of answers POST /emails/reply gives, however long:
\* planSendAttempts attempts up to the first definite answer, three times at
\* most, and its final state says what is known of the last answer.
THEOREM PlanIsFirstDefiniteAnswerHolds ==
    PlansSpec => []PlanIsFirstDefiniteAnswer
<1>1. PlansInv => PlanIsFirstDefiniteAnswer
  BY PlanIsRight DEF PlansInv, PlanIsFirstDefiniteAnswer
<1>. QED
  BY <1>1, PlansInvariant, PTL

\* Whatever list of answers the server gives: planSendAttempts agrees with
\* the sendReply loop of Layer 1 from which it was ported, in the attempts,
\* in the waits between them and in the final state.
THEOREM PlanFollowsLayer1Holds == PlansSpec => []PlanFollowsLayer1
<1>1. PlansInv => PlanFollowsLayer1
  BY AbreastAtEnd DEF PlansInv, PlanFollowsLayer1, Abreast
<1>. QED
  BY <1>1, PlansInvariant, PTL

\* However many outcomes, and whatever Retry-After the server asks for: the
\* plan waits between attempts only, and never longer than its cap.
THEOREM WaitsAreBoundedHolds == PlansSpec => []WaitsAreBounded
<1>1. PlansInv => WaitsAreBounded
  BY WaitsAtEnd DEF PlansInv, WaitsAreBounded, Waits
<1>. QED
  BY <1>1, PlansInvariant, PTL

\* Whatever the polls of a reconciliation find, and however many there are:
\* reconcileMatches answers for the first poll that decides.
THEOREM ReconcileIsFirstDecidingPollHolds ==
    PlansSpec => []ReconcileIsFirstDecidingPoll
<1>1. PlansInv => ReconcileIsFirstDecidingPoll
  BY VerdictIsRight DEF PlansInv
<1>. QED
  BY <1>1, PlansInvariant, PTL
-----------------------------------------------------------------------------
(***************************************************************************)
(* What SENT stands for.  An execution gets to X with a confirmed Email    *)
(* object only, and leaves the poll with SENT only if the poll had a       *)
(* match; a mail, once out, stays out.                                     *)
(***************************************************************************)
Mailed(e) == mail[KeyOf[e]] > 0

MailInv ==
    \A e \in Execs :
        /\ node[e] \in {"X", "X2"} \/ result[e] = "SENT" => Mailed(e)
        /\ node[e] = "R" /\ Confirmed(outcome[e]) => Mailed(e)

LEMMA ConfirmedIsDelivered ==
    ASSUME NEW o \in Responses, Confirmed(o)
    PROVE  Deliveries(o) = {1}
  BY DEF Responses, Response, Confirmed, Deliveries, NoStatus

\* A single poll without a match is no reason for SENT.
LEMMA ReconciledHasMatch ==
    ASSUME NEW ids, ReconcileMatches(<<ids>>) = "SENT_RECONCILED"
    PROVE  ids # {}
<1>1. <<ids>> \in Seq({ids}) /\ Len(<<ids>>) = 1 /\ <<ids>>[1] = ids
  OBVIOUS
<1> DEFINE after == ReconcileLoop(<<ids>>)
<1>2. after = [i \in 0..1 |-> IF i = 0 THEN ReconcileStart
                              ELSE ReconcileStep(after[i - 1], <<ids>>[i])]
  BY <1>1, ReconcileLoopDef
<1> HIDE DEF after
<1>3. after[1] = ReconcileStep(ReconcileStart, ids)
  BY <1>1, <1>2
<1>4. ids = {} => after[1].verdict = "NONE"
  BY <1>3 DEF ReconcileStep, ReconcileStart
<1>. QED
  BY <1>1, <1>4 DEF ReconcileMatches, after

LEMMA DeliverMail ==
    ASSUME SenderTypeOK, MailInv, NEW e \in Execs, node[e] \in WaitingNodes,
           NEW a, Deliver(e, a), UNCHANGED <<mail, outcome>>
    PROVE  MailInv'
  BY DEF SenderTypeOK, MailInv, Mailed, WaitingNodes, Deliver, GoTo, End

LEMMA SomeListed ==
    ASSUME NEW n \in Nat, NEW ids \in SUBSET (1..n), ids # {}
    PROVE  n > 0
<1>1. PICK i \in ids : i \in 1..n
  OBVIOUS
<1>. QED
  BY <1>1

LEMMA SentIsConfirmed ==
    ASSUME NEW o \in Responses \cup {NoResponse}, TerminalState(o) = "SENT"
    PROVE  Confirmed(o)
<1>1. o.kind = "http" /\ o.status \in {-1, 0, 200, 400, 401, 404, 429, 504}
  BY DEF Responses, Response, NoResponse, NoStatus
<1>. QED
  BY <1>1 DEF TerminalState, Confirmed

LEMMA NodeStepMail ==
    ASSUME SenderTypeOK, MailInv, NEW e \in Execs, NodeStep(e)
    PROVE  MailInv'
<1> USE DEF SenderTypeOK, MailInv, Mailed, GoTo, End, Call, record, execution,
            network
<1>1. CASE PostReply(e)
  <2>1. PICK o \in Responses : \E d \in Deliveries(o) :
          /\ outcome' = [outcome EXCEPT ![e] = o]
          /\ mail' = [mail EXCEPT ![KeyOf[e]] = @ + d]
    BY <1>1 DEF PostReply
  <2>2. PICK d \in Deliveries(o) :
          mail' = [mail EXCEPT ![KeyOf[e]] = @ + d]
    BY <2>1
  <2>3. d \in Nat /\ (Confirmed(o) => d = 1)
    BY <2>2, ConfirmedIsDelivered DEF Deliveries
  <2>4. \A f \in Execs : KeyOf[f] \in Keys /\ mail[KeyOf[f]] \in Nat
    BY KeyOfFacts
  <2>5. \A f \in Execs :
          mail'[KeyOf[f]] = IF KeyOf[f] = KeyOf[e] THEN mail[KeyOf[f]] + d
                            ELSE mail[KeyOf[f]]
    BY <2>2, <2>4
  <2>6. /\ \A f \in Execs : Mailed(f) => Mailed(f)'
        /\ Confirmed(o) => Mailed(e)'
    BY <2>3, <2>4, <2>5
  <2>7. /\ node[e] = "Q" /\ node' = [node EXCEPT ![e] = "R"]
        /\ UNCHANGED result
    BY <1>1 DEF PostReply
  <2> HIDE DEF Mailed
  <2>. QED
    BY <2>1, <2>6, <2>7
<1>2. CASE ClassifySendAttempt(e)
  <2>1. UNCHANGED <<mail, outcome>> /\ node[e] = "R"
    BY <1>2 DEF ClassifySendAttempt
  <2>2. \/ node' = [node EXCEPT ![e] = "T"] /\ UNCHANGED result
        \/ /\ TerminalState(outcome[e]) = "SENT"
           /\ node' = [node EXCEPT ![e] = "X"] /\ UNCHANGED result
        \/ node' = [node EXCEPT ![e] = "V"] /\ UNCHANGED result
        \/ /\ node' = [node EXCEPT ![e] = "end"]
           /\ result' = [result EXCEPT ![e] = "FAILED"]
    BY <1>2 DEF ClassifySendAttempt, AttemptNumber, MAX_SEND_ATTEMPTS
  <2>3. TerminalState(outcome[e]) = "SENT" => Mailed(e)
    BY <2>1, SentIsConfirmed
  <2>. QED
    BY <2>1, <2>2, <2>3
<1>3. CASE ReconciliationPoll(e)
  <2>1. PICK ids \in SUBSET (1..mail[KeyOf[e]]) :
          \/ node' = [node EXCEPT ![e] = "W3"] /\ UNCHANGED result
          \/ /\ node' = [node EXCEPT ![e] = "end"]
             /\ result' = [result EXCEPT ![e] =
                   IF ReconcileMatches(<<ids>>) = "SENT_RECONCILED"
                   THEN "SENT" ELSE "HUMAN_REVIEW"]
    BY <1>3 DEF ReconciliationPoll, PollsSeen
  <2>2. ReconcileMatches(<<ids>>) = "SENT_RECONCILED" => Mailed(e)
    <3>1. KeyOf[e] \in Keys /\ mail[KeyOf[e]] \in Nat
      BY KeyOfFacts
    <3>2. ids # {} => Mailed(e)
      BY <3>1, SomeListed
    <3>. QED
      BY <3>2, ReconciledHasMatch
  <2>3. UNCHANGED <<mail, outcome>> /\ node[e] = "V"
    BY <1>3 DEF ReconciliationPoll
  <2>. QED
    BY <2>1, <2>2, <2>3
<1>4. CASE RunSendGates(e) \/ AcquireSendOwnership(e) \/ VerifySuppression(e)
  BY <1>4 DEF RunSendGates, AcquireSendOwnership, VerifySuppression
<1>5. CASE DryRunGate(e) \/ TransitionToDryRunOk(e) \/ LiveSendGates(e)
  BY <1>5 DEF DryRunGate, TransitionToDryRunOk, LiveSendGates
<1>6. CASE RetryBackoffWait(e) \/ PersistSentResult(e) \/ ReconciliationWait(e)
  BY <1>6 DEF RetryBackoffWait, PersistSentResult, ReconciliationWait
<1>. QED
  BY <1>1, <1>2, <1>3, <1>4, <1>5, <1>6 DEF NodeStep

LEMMA MailStep ==
    ASSUME SenderInv, OnceInv, MailInv, [SenderNext]_senderVars
    PROVE  MailInv'
<1>0. SenderTypeOK
  BY DEF SenderInv, SenderTypeInv
<1>1. ASSUME NEW e \in Execs, CallFails(e) PROVE MailInv'
  BY <1>0, <1>1, DeliverMail DEF CallFails
<1>2. ASSUME NEW e \in Execs, ExecutionDies(e) PROVE MailInv'
  BY <1>0, <1>2 DEF ExecutionDies, End, GoTo, SenderTypeOK, MailInv, Mailed
<1>3. ASSUME UNCHANGED <<node, result, outcome, mail>> PROVE MailInv'
  BY <1>3 DEF MailInv, Mailed
<1>4. ASSUME NEW s \in Servers, SidecarReplies(s) PROVE MailInv'
  <2>1. UNCHANGED <<mail, outcome>>
    BY <1>4 DEF SidecarReplies, record
  <2>. QED
    BY <1>0, <1>3, <1>4, <2>1, AnswerFindsCaller, DeliverMail DEF OnceInv
<1>5. ASSUME \/ UNCHANGED senderVars
             \/ \E e \in Execs : RequestLost(e)
             \/ \E s \in Servers : SidecarStep(s)
             \/ \E s \in Servers, e \in Execs : RequestArrives(s, e)
      PROVE  UNCHANGED <<node, result, outcome, mail>>
  BY <1>5 DEF senderVars, execution, record, RequestLost, SidecarStep,
     RequestArrives
<1>. QED
  BY <1>0, <1>1, <1>2, <1>3, <1>4, <1>5, NodeStepMail DEF SenderNext

\* What the Sender reports as SENT was sent: for any executions, keys and
\* sidecar processes, whatever the responses of Instantly, the retries, the
\* polls and the answers of the sidecar.
THEOREM SentMeansMailedHolds == SenderSpec => []SentMeansMailed
<1>1. SenderInit => OnceInv /\ MailInv
  BY DEF SenderInit, OnceInv, CallerInv, StageInv, OwnerNodes, MailInv
<1>2. SenderInv /\ OnceInv /\ MailInv /\ [SenderNext]_senderVars =>
        OnceInv' /\ MailInv'
  BY CallerStep, StageStep, MailStep DEF OnceInv
<1>3. MailInv => SentMeansMailed
  BY DEF MailInv, Mailed, SentMeansMailed
<1>. QED
  BY <1>1, <1>2, <1>3, SenderInvInit, SenderInvStep, PTL DEF SenderSpec
=============================================================================
