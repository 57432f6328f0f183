-------------------------- MODULE SendStateProofs --------------------------
(***************************************************************************)
(* Theorems about SendState for every set of keys and processes.           *)
(***************************************************************************)
EXTENDS SendState, TLAPS

\* A request's fields, and what is in progress: what the handlers rely on.
LEMMA RequestFields ==
    ASSUME NEW r \in Requests
    PROVE  /\ r.op \in {"acquire", "transition"}
           /\ r.key \in Keys \cup {NoKey}
           /\ r.to \in SendStateNames \cup {UnknownState}
           /\ r.op = "acquire" => r.key \in Keys /\ r.to = "LOCKED"
  BY DEF Requests, SendStateNames

\* TypeOK alone is not inductive: a handler that runs has a request, and the
\* file names it uses are those of a key.
HandlerOK ==
    \A s \in Servers :
        /\ pc[s] # "idle" => req[s] \in Requests
        /\ pc[s] = "lock" => req[s].op = "acquire"
        /\ pc[s] \in {"write", "unlock"} =>
              /\ req[s].key \in Keys
              /\ req[s].to \in SendStateNames
        /\ answer[s] # "NONE" => pc[s] \in {"unlock", "reply"}
        /\ answer[s] = "ACQUIRED" => pc[s] = "reply" /\ req[s].op = "acquire"

TypeInv == TypeOK /\ HandlerOK

LEMMA TypeInit == Init => TypeInv
  BY DEF Init, TypeInv, TypeOK, HandlerOK, Recorded, Steps, Answers, NoRecord

LEMMA TypeStep == TypeInv /\ [Next]_vars => TypeInv'
<1> SUFFICES ASSUME TypeInv, [Next]_vars PROVE TypeInv'
    OBVIOUS
<1> USE DEF TypeInv, TypeOK, HandlerOK, Goto, AnswerWith, BecomeIdle,
            files, handler, history, Steps, Answers, Refusals
<1>1. ASSUME NEW s \in Servers, NEW r \in Requests, Receive(s, r)
      PROVE  TypeInv'
  BY <1>1, RequestFields DEF Receive
<1>2. ASSUME NEW s \in Servers, CreateLock(s) PROVE TypeInv'
  <2>1. req[s] \in Requests /\ req[s].op = "acquire"
    BY <1>2 DEF CreateLock
  <2>2. req[s].key \in Keys
    BY <2>1, RequestFields
  <2>3. CASE lock[req[s].key]
    BY <1>2, <2>1, <2>2, <2>3 DEF CreateLock
  <2>4. CASE ~ lock[req[s].key]
    BY <1>2, <2>1, <2>2, <2>4 DEF CreateLock
  <2>. QED
    BY <2>3, <2>4
<1>3. ASSUME NEW s \in Servers, CheckPriorState(s) PROVE TypeInv'
  BY <1>3, RequestFields DEF CheckPriorState, Recorded, SendStateNames
<1>4. ASSUME NEW s \in Servers, CheckTransition(s) PROVE TypeInv'
  <2>1. TransitionRefusal(req[s]) \in Refusals
    BY DEF TransitionRefusal
  <2>2. req[s] \in Requests
    BY <1>4 DEF CheckTransition
  <2>3. TransitionAllowed(req[s]) =>
          req[s].key \in Keys /\ req[s].to \in SendStateNames
    BY <2>2, RequestFields DEF TransitionAllowed
  <2>4. TransitionRefusal(req[s]) # "ACQUIRED"
    BY <2>1
  <2>. QED
    BY <1>4, <2>1, <2>2, <2>3, <2>4 DEF CheckTransition, Recorded
<1>5. ASSUME NEW s \in Servers, WriteState(s) PROVE TypeInv'
  BY <1>5, RequestFields DEF WriteState, Recorded
<1>6. ASSUME NEW s \in Servers, ReleaseLock(s) PROVE TypeInv'
  BY <1>6 DEF ReleaseLock
<1>7. ASSUME NEW s \in Servers, FileError(s) PROVE TypeInv'
  BY <1>7 DEF FileError
<1>8. ASSUME NEW s \in Servers, Crash(s) PROVE TypeInv'
  BY <1>8 DEF Crash, Recorded
<1>9. ASSUME NEW s \in Servers, Reply(s) PROVE TypeInv'
  BY <1>9, RequestFields DEF Reply, Recorded
<1>10. CASE UNCHANGED vars
  BY <1>10 DEF vars
<1>. QED
  BY <1>1, <1>2, <1>3, <1>4, <1>5, <1>6, <1>7, <1>8, <1>9, <1>10
     DEF Next, HandlerStep

\* Type correctness of the sidecar: every file, handler and history variable
\* keeps its type under any interleaving, crash and file error.
THEOREM TypeCorrect == Spec => []TypeOK
<1>1. Spec => []TypeInv
  BY TypeInit, TypeStep, PTL DEF Spec
<1>. QED
  BY <1>1, PTL DEF TypeInv

-----------------------------------------------------------------------------
(***************************************************************************)
(* Ownership, for any number of processes over the directory.  While a key *)
(* has no state file, its lock file is what keeps two acquire handlers     *)
(* apart; from the first write on, the state file does.                    *)
(***************************************************************************)

\* No record is not a state, and nothing moves out of it by a transition.
LEMMA NoRecordFacts ==
    /\ NoRecord \notin SendStateNames
    /\ \A to : ~ CanTransition(NoRecord, to)
  BY DEF NoRecord, SendStateNames, CanTransition, Transitions

\* The handler is in acquireSend with its own lock created.
Claiming(s) == pc[s] \in {"check", "write"} /\ req[s].op = "acquire"

ClaimInv ==
    /\ \A s \in Servers :
          Claiming(s) /\ durable[req[s].key] = NoRecord => lock[req[s].key]
    /\ \A s, t \in Servers :
          Claiming(s) /\ Claiming(t) /\ s # t /\ req[s].key = req[t].key
              => durable[req[s].key] # NoRecord
    /\ \A s \in Servers :
          Claiming(s) /\ pc[s] = "write" => durable[req[s].key] = NoRecord
    /\ \A s \in Servers :
          pc[s] = "unlock" \/ (pc[s] = "write" /\ req[s].op = "transition")
              => durable[req[s].key] # NoRecord

GrantInv ==
    /\ \A s \in Servers : answer[s] = "ACQUIRED" =>
          durable[req[s].key] # NoRecord /\ grants[req[s].key] = 0
    /\ \A s, t \in Servers :
          answer[s] = "ACQUIRED" /\ answer[t] = "ACQUIRED" /\ s # t
              => req[s].key # req[t].key
    /\ GrantIsDurable
    /\ AtMostOneGrant

OwnershipInv == TypeInv /\ ClaimInv /\ GrantInv

LEMMA OwnershipInit == Init => OwnershipInv
<1>1. Init => ClaimInv /\ GrantInv
  BY DEF Init, ClaimInv, Claiming, GrantInv, GrantIsDurable, AtMostOneGrant
<1>. QED
  BY <1>1, TypeInit DEF OwnershipInv

LEMMA OwnershipStep == OwnershipInv /\ [Next]_vars => OwnershipInv'
<1> SUFFICES ASSUME OwnershipInv, [Next]_vars PROVE ClaimInv' /\ GrantInv'
    BY TypeStep DEF OwnershipInv
<1>0. TypeInv /\ TypeInv'
  BY TypeStep DEF OwnershipInv
<1> USE <1>0 DEF OwnershipInv, ClaimInv, Claiming, GrantInv, GrantIsDurable,
            AtMostOneGrant, TypeInv, TypeOK, HandlerOK, Goto, AnswerWith,
            BecomeIdle, files, handler, history
<1>1. ASSUME NEW s \in Servers, NEW r \in Requests, Receive(s, r)
      PROVE  ClaimInv' /\ GrantInv'
  BY <1>1, RequestFields DEF Receive
<1>2. ASSUME NEW s \in Servers, CreateLock(s) PROVE ClaimInv' /\ GrantInv'
  BY <1>2, RequestFields DEF CreateLock
<1>3. ASSUME NEW s \in Servers, CheckPriorState(s)
      PROVE  ClaimInv' /\ GrantInv'
  BY <1>3, RequestFields DEF CheckPriorState
<1>4. ASSUME NEW s \in Servers, CheckTransition(s)
      PROVE  ClaimInv' /\ GrantInv'
  <2>1. TransitionRefusal(req[s]) # "ACQUIRED"
    BY DEF TransitionRefusal
  <2>2. TransitionAllowed(req[s]) => durable[req[s].key] # NoRecord
    BY NoRecordFacts DEF TransitionAllowed
  <2>3. CASE TransitionAllowed(req[s])
    BY <1>4, <2>2, <2>3 DEF CheckTransition
  <2>4. CASE ~ TransitionAllowed(req[s])
    BY <1>4, <2>1, <2>4 DEF CheckTransition
  <2>. QED
    BY <2>3, <2>4
<1>5. ASSUME NEW s \in Servers, WriteState(s) PROVE ClaimInv' /\ GrantInv'
  <2> DEFINE k == req[s].key
  <2>1. req[s] \in Requests /\ k \in Keys /\ req[s].to \in SendStateNames
    BY <1>5 DEF WriteState
  <2>2. /\ durable' = [durable EXCEPT ![k] = req[s].to]
        /\ durable'[k] # NoRecord
        /\ \A i \in Keys : i # k => durable'[i] = durable[i]
    BY <1>5, <2>1, NoRecordFacts DEF WriteState
  <2>3. UNCHANGED <<lock, req, grants>>
    BY <1>5 DEF WriteState
  <2>4. CASE req[s].op = "acquire"
    <3>1. durable[k] = NoRecord
      BY <1>5, <2>4 DEF WriteState
    <3>2. /\ grants[k] = 0
          /\ \A t \in Servers : answer[t] = "ACQUIRED" => req[t].key # k
      <4>1. grants[k] \in Nat /\ ~ (grants[k] > 0)
        BY <2>1, <3>1
      <4>. QED
        BY <3>1, <4>1
    <3>3. \A t \in Servers : t # s /\ Claiming(t) => req[t].key # k
      BY <1>5, <2>1, <2>4, <3>1 DEF WriteState
    <3>4. ClaimInv'
      BY <1>5, <2>1, <2>2, <2>3, <2>4, <3>3 DEF WriteState
    <3>5. GrantInv'
      BY <1>5, <2>1, <2>2, <2>3, <2>4, <3>2 DEF WriteState
    <3>. QED
      BY <3>4, <3>5
  <2>5. CASE req[s].op = "transition"
    <3>1. durable[k] # NoRecord
      BY <1>5, <2>5 DEF WriteState
    <3>2. ClaimInv'
      BY <1>5, <2>1, <2>2, <2>3, <2>5, <3>1 DEF WriteState
    <3>3. GrantInv'
      BY <1>5, <2>1, <2>2, <2>3, <2>5, <3>1 DEF WriteState
    <3>. QED
      BY <3>2, <3>3
  <2>. QED
    BY <2>1, <2>4, <2>5, RequestFields
<1>6. ASSUME NEW s \in Servers, ReleaseLock(s) PROVE ClaimInv' /\ GrantInv'
  BY <1>6 DEF ReleaseLock
<1>7. ASSUME NEW s \in Servers, FileError(s) PROVE ClaimInv' /\ GrantInv'
  <2>1. CASE pc[s] = "lock"
    <3>1. /\ answer[s] # "ACQUIRED"
          /\ UNCHANGED <<durable, req, grants>>
          /\ pc' = [pc EXCEPT ![s] = "reply"]
          /\ answer' = [answer EXCEPT ![s] = "BAD_REQUEST"]
      BY <1>7, <2>1 DEF FileError
    <3>2. \A i \in Keys : lock[i] => lock'[i]
      BY <1>7, <2>1 DEF FileError
    <3>3. \A t \in Servers : Claiming(t) => req[t].key \in Keys
      BY RequestFields
    <3>4. ClaimInv'
      BY <3>1, <3>2, <3>3
    <3>5. GrantInv'
      BY <3>1
    <3>. QED
      BY <3>4, <3>5
  <2>2. CASE pc[s] # "lock"
    BY <1>7, <2>2 DEF FileError
  <2>. QED
    BY <2>1, <2>2
<1>8. ASSUME NEW s \in Servers, Crash(s) PROVE ClaimInv' /\ GrantInv'
  BY <1>8 DEF Crash
<1>9. ASSUME NEW s \in Servers, Reply(s) PROVE ClaimInv' /\ GrantInv'
  BY <1>9, RequestFields DEF Reply
<1>10. CASE UNCHANGED vars
  BY <1>10 DEF vars
<1>. QED
  BY <1>1, <1>2, <1>3, <1>4, <1>5, <1>6, <1>7, <1>8, <1>9, <1>10
     DEF Next, HandlerStep

\* For any keys, any number of processes, crashes and failing file-system
\* calls: at most one acquire of a key is ever answered "acquired".
THEOREM SingleOwner == Spec => []AtMostOneGrant
<1>1. Spec => []OwnershipInv
  BY OwnershipInit, OwnershipStep, PTL DEF Spec
<1>2. OwnershipInv => AtMostOneGrant
  BY DEF OwnershipInv, GrantInv
<1>. QED
  BY <1>1, <1>2, PTL

\* ... and a granted key has a state file from then on.
THEOREM GrantsAreDurable == Spec => []GrantIsDurable
<1>1. Spec => []OwnershipInv
  BY OwnershipInit, OwnershipStep, PTL DEF Spec
<1>2. OwnershipInv => GrantIsDurable
  BY DEF OwnershipInv, GrantInv
<1>. QED
  BY <1>1, <1>2, PTL

-----------------------------------------------------------------------------
(***************************************************************************)
(* One process over the directory, as deployed: its handlers never         *)
(* interleave, so what transitionSend read is still there when it writes.  *)
(***************************************************************************)
OneServer == \A s, t \in Servers : s = t

LEMMA StateFacts ==
    /\ \A x \in Recorded : x = NoRecord \/ IsTerminal(x) \/ Unfinished(x)
    /\ \A x, y : CanTransition(x, y) =>
          x \in SendStateNames /\ y \in SendStateNames /\ Unfinished(x)
    /\ \A x : IsTerminal(x) => ~ Unfinished(x)
    /\ ~ Unfinished(NoRecord)
    /\ ~ IsTerminal("LOCKED")
    /\ "LOCKED" \in SendStateNames
<1>1. \A x, y : CanTransition(x, y) => x \in SendStateNames /\ y \in SendStateNames
  BY DEF CanTransition, Transitions, SendStateNames
<1>2. CanTransition("LOCKED", "BLOCKED") /\ "LOCKED" \in SendStateNames
      /\ "BLOCKED" \in SendStateNames
  BY DEF CanTransition, Transitions, SendStateNames
<1>. QED
  BY <1>1, <1>2, NoRecordFacts DEF Recorded, IsTerminal, Unfinished

SoleInv ==
    /\ UnfinishedIsLocked
    /\ DurableRefusalIsTerminal
    /\ \A s \in Servers :
          /\ pc[s] = "write" /\ req[s].op = "transition" =>
                CanTransition(durable[req[s].key], req[s].to)
          /\ pc[s] = "check" /\ req[s].op = "acquire" =>
                ~ Unfinished(durable[req[s].key])
          /\ pc[s] = "unlock" => ~ Unfinished(durable[req[s].key])

LEMMA SoleInit == Init => SoleInv
  BY StateFacts DEF Init, SoleInv, UnfinishedIsLocked, UnfinishedKeys,
                    DurableRefusalIsTerminal

LEMMA SoleStep ==
    ASSUME OneServer
    PROVE  OwnershipInv /\ SoleInv /\ [Next]_vars => SoleInv'
<1> SUFFICES ASSUME OwnershipInv, SoleInv, [Next]_vars PROVE SoleInv'
    OBVIOUS
<1>0. TypeInv /\ TypeInv' /\ ClaimInv
  BY TypeStep DEF OwnershipInv
<1> USE <1>0 DEF SoleInv, UnfinishedIsLocked, UnfinishedKeys,
            DurableRefusalIsTerminal, TypeInv, TypeOK, HandlerOK, Goto,
            AnswerWith, BecomeIdle, files, handler, history, OneServer
<1>1. ASSUME NEW s \in Servers, NEW r \in Requests, Receive(s, r)
      PROVE  SoleInv'
  <2>1. pc'[s] \in {"lock", "check"} /\ req'[s] = r
        /\ (pc'[s] = "check" => r.op # "acquire")
    BY <1>1 DEF Receive
  <2>. QED
    BY <1>1, <2>1 DEF Receive
<1>2. ASSUME NEW s \in Servers, CreateLock(s) PROVE SoleInv'
  <2>1. req[s] \in Requests /\ req[s].key \in Keys
    BY <1>2, RequestFields DEF CreateLock
  <2>. QED
    BY <1>2, <2>1 DEF CreateLock
<1>3. ASSUME NEW s \in Servers, CheckPriorState(s) PROVE SoleInv'
  <2>1. req[s] \in Requests /\ req[s].key \in Keys
    BY <1>3, RequestFields DEF CheckPriorState
  <2>2. durable[req[s].key] # NoRecord => IsTerminal(durable[req[s].key])
    BY <1>3, <2>1, StateFacts DEF CheckPriorState
  <2>3. \A t \in Servers : t = s
    BY <1>3
  <2>4. /\ UNCHANGED <<lock, durable, req>>
        /\ seen'[s] = durable[req[s].key]
        /\ pc'[s] \in {"write", "unlock"}
        /\ durable[req[s].key] # NoRecord \/ answer' = answer
        /\ req[s].op = "acquire" /\ pc[s] = "check"
    BY <1>3 DEF CheckPriorState
  <2>5. answer[s] = "NONE"
    BY <2>4
  <2>. QED
    BY <2>1, <2>2, <2>3, <2>4, <2>5
<1>4. ASSUME NEW s \in Servers, CheckTransition(s) PROVE SoleInv'
  <2>1. TransitionRefusal(req[s]) # "DURABLE_STATE_EXISTS"
    BY DEF TransitionRefusal
  <2>2. CASE TransitionAllowed(req[s])
    <3>1. answer[s] = "NONE" /\ answer' = answer
      BY <1>4, <2>2 DEF CheckTransition
    <3>. QED
      BY <1>4, <2>2, <3>1 DEF CheckTransition, TransitionAllowed
  <2>3. CASE ~ TransitionAllowed(req[s])
    BY <1>4, <2>1, <2>3 DEF CheckTransition
  <2>. QED
    BY <2>2, <2>3
<1>5. ASSUME NEW s \in Servers, WriteState(s) PROVE SoleInv'
  <2> DEFINE k == req[s].key
  <2>1. req[s] \in Requests /\ k \in Keys /\ req[s].to \in SendStateNames
    BY <1>5 DEF WriteState
  <2>2. /\ durable' = [durable EXCEPT ![k] = req[s].to]
        /\ durable'[k] = req[s].to
        /\ \A i \in Keys : i # k => durable'[i] = durable[i]
        /\ UNCHANGED <<lock, req, seen>>
    BY <1>5, <2>1 DEF WriteState
  <2>3. lock[k]
    <3>1. CASE req[s].op = "acquire"
      BY <1>5, <2>1, <3>1 DEF WriteState, ClaimInv, Claiming
    <3>2. CASE req[s].op = "transition"
      BY <1>5, <2>1, <3>2, StateFacts DEF WriteState
    <3>. QED
      BY <2>1, <3>1, <3>2, RequestFields
  <2>4. UnfinishedIsLocked'
    BY <2>2, <2>3
  <2>5. pc'[s] = "unlock" => ~ Unfinished(durable'[k])
    BY <1>5, <2>2, StateFacts DEF WriteState
  <2>6. /\ pc'[s] \in {"unlock", "reply"}
        /\ answer'[s] # "DURABLE_STATE_EXISTS"
        /\ \A t \in Servers : t = s
    BY <1>5 DEF WriteState
  <2>. QED
    BY <2>2, <2>4, <2>5, <2>6
<1>6. ASSUME NEW s \in Servers, ReleaseLock(s) PROVE SoleInv'
  BY <1>6 DEF ReleaseLock
<1>7. ASSUME NEW s \in Servers, FileError(s) PROVE SoleInv'
  <2>1. \A i \in Keys : lock[i] => lock'[i]
    BY <1>7 DEF FileError
  <2>2. /\ pc' = [pc EXCEPT ![s] = "reply"]
        /\ answer' = [answer EXCEPT ![s] = "BAD_REQUEST"]
        /\ UNCHANGED <<durable, req, seen>>
    BY <1>7 DEF FileError
  <2>. QED
    BY <2>1, <2>2
<1>8. ASSUME NEW s \in Servers, Crash(s) PROVE SoleInv'
  BY <1>8 DEF Crash
<1>9. ASSUME NEW s \in Servers, Reply(s) PROVE SoleInv'
  BY <1>9 DEF Reply
<1>10. CASE UNCHANGED vars
  BY <1>10 DEF vars
<1>. QED
  BY <1>1, <1>2, <1>3, <1>4, <1>5, <1>6, <1>7, <1>8, <1>9, <1>10
     DEF Next, HandlerStep

\* The abstract specification's copies of the state machine are the same.
LEMMA SameMachine ==
    /\ Ownership!NoRecord = NoRecord
    /\ Ownership!SendStateNames = SendStateNames
    /\ \A x, y : Ownership!CanTransition(x, y) <=> CanTransition(x, y)
  BY DEF Ownership!NoRecord, NoRecord, Ownership!SendStateNames,
         SendStateNames, Ownership!CanTransition, CanTransition,
         Ownership!Transitions, Transitions

\* A step of the sidecar is a step of its abstract specification, or none.
LEMMA OwnershipImplemented ==
    OwnershipInv /\ SoleInv /\ [Next]_vars
        => [Ownership!Next]_(Ownership!vars)
<1> SUFFICES ASSUME OwnershipInv, SoleInv, [Next]_vars
             PROVE  [Ownership!Next]_(Ownership!vars)
    OBVIOUS
<1> USE DEF Ownership!vars, Ownership!Next, files, handler, history
<1>0. TypeInv /\ ClaimInv /\ GrantInv
  BY DEF OwnershipInv
<1>1. ASSUME NEW s \in Servers, WriteState(s) PROVE Ownership!Next
  <2> DEFINE k == req[s].key
  <2>1. req[s] \in Requests /\ k \in Keys /\ req[s].to \in SendStateNames
    BY <1>0, <1>1 DEF WriteState, TypeInv, HandlerOK
  <2>2. durable' = [durable EXCEPT ![k] = req[s].to] /\ UNCHANGED grants
    BY <1>1 DEF WriteState
  <2>3. CASE req[s].op = "acquire"
    <3>1. durable[k] = NoRecord /\ req[s].to = "LOCKED"
      BY <1>0, <1>1, <2>1, <2>3, RequestFields
         DEF WriteState, ClaimInv, Claiming
    <3>2. Ownership!Claim(k)
      BY <2>2, <3>1, SameMachine DEF Ownership!Claim
    <3>. QED
      BY <2>1, <3>2
  <2>4. CASE req[s].op = "transition"
    <3>1. Ownership!Advance(k, req[s].to)
      BY <1>1, <2>2, <2>4, SameMachine
         DEF WriteState, SoleInv, Ownership!Advance
    <3>. QED
      BY <2>1, <3>1, SameMachine
  <2>. QED
    BY <2>1, <2>3, <2>4, RequestFields
<1>2. ASSUME NEW s \in Servers, Reply(s)
      PROVE  [Ownership!Next]_(Ownership!vars)
  <2>1. CASE answer[s] = "ACQUIRED"
    <3>1. req[s] \in Requests /\ req[s].key \in Keys
      BY <1>0, <1>2, <2>1, RequestFields DEF Reply, TypeInv, HandlerOK
    <3>2. durable[req[s].key] # NoRecord /\ grants[req[s].key] = 0
      BY <1>0, <2>1 DEF GrantInv
    <3>3. Ownership!Grant(req[s].key)
      BY <1>0, <1>2, <2>1, <3>1, <3>2, SameMachine
         DEF Reply, Ownership!Grant, TypeInv, TypeOK
    <3>. QED
      BY <3>1, <3>3
  <2>2. CASE answer[s] # "ACQUIRED"
    BY <1>2, <2>2 DEF Reply
  <2>. QED
    BY <2>1, <2>2
<1>3. ASSUME NEW s \in Servers,
             \/ \E r \in Requests : Receive(s, r)
             \/ CreateLock(s) \/ CheckPriorState(s) \/ CheckTransition(s)
             \/ ReleaseLock(s) \/ FileError(s) \/ Crash(s)
      PROVE  UNCHANGED Ownership!vars
  BY <1>3 DEF Receive, CreateLock, CheckPriorState, CheckTransition,
              ReleaseLock, FileError, Crash
<1>4. CASE UNCHANGED vars
  BY <1>4 DEF vars
<1>. QED
  BY <1>1, <1>2, <1>3, <1>4 DEF Next, HandlerStep

\* The deployed sidecar, one process: an unfinished record always has its
\* lock file, and DURABLE_STATE_EXISTS always reports a terminal state.
THEOREM SoleProcessSafety ==
    ASSUME OneServer
    PROVE  Spec => [](UnfinishedIsLocked /\ DurableRefusalIsTerminal)
<1>1. OwnershipInv /\ SoleInv /\ [Next]_vars => (OwnershipInv /\ SoleInv)'
  BY OwnershipStep, SoleStep
<1>2. SoleInv => UnfinishedIsLocked /\ DurableRefusalIsTerminal
  BY DEF SoleInv
<1>. QED
  BY OwnershipInit, SoleInit, <1>1, <1>2, PTL DEF Spec

\* The deployed sidecar implements SendOwnership: claimed once, granted at
\* most once, forward only, whatever crashes and file errors do to it.
THEOREM ImplementsOwnership ==
    ASSUME OneServer
    PROVE  Spec => OwnershipSpec
<1>1. OwnershipInv /\ SoleInv /\ [Next]_vars => (OwnershipInv /\ SoleInv)'
  BY OwnershipStep, SoleStep
<1>2. Init => Ownership!Init
  BY SameMachine DEF Init, Ownership!Init
<1>. QED
  BY OwnershipInit, SoleInit, OwnershipImplemented, <1>1, <1>2, PTL
     DEF Spec, OwnershipSpec, Ownership!Spec

\* Send states only move forward along ALLOWED_TRANSITIONS.
THEOREM StatesMoveForward ==
    ASSUME OneServer
    PROVE  Spec => ForwardOnly
<1> DEFINE Forward == \A k \in Keys :
                        \/ durable'[k] = durable[k]
                        \/ durable[k] = NoRecord /\ durable'[k] = "LOCKED"
                        \/ CanTransition(durable[k], durable'[k])
<1>1. OwnershipInv /\ SoleInv /\ [Next]_vars => (OwnershipInv /\ SoleInv)'
  BY OwnershipStep, SoleStep
<1>2. OwnershipInv /\ [Ownership!Next]_(Ownership!vars) => [Forward]_durable
  BY SameMachine
     DEF Ownership!Next, Ownership!vars, Ownership!Claim, Ownership!Grant,
         Ownership!Advance, OwnershipInv, TypeInv, TypeOK
<1>3. OwnershipInv /\ SoleInv /\ [Next]_vars => [Forward]_durable
  BY <1>2, OwnershipImplemented
<1>. QED
  BY OwnershipInit, SoleInit, <1>1, <1>3, PTL DEF Spec, ForwardOnly
-----------------------------------------------------------------------------
(***************************************************************************)
(* Locks that nobody gives back.  A handler deals with a lock from the     *)
(* call that creates it to the call that records or removes it; a handler  *)
(* that only waits for its turn, or has read a request, does not count.    *)
(***************************************************************************)
DealsWith(s, k) ==
    /\ req[s].key = k
    /\ \/ pc[s] \in {"write", "unlock"}
       \/ pc[s] = "check" /\ req[s].op = "acquire"

LockInv ==
    \A k \in Keys :
        lock[k] /\ ~ Unfinished(durable[k]) /\ k \notin aborted
            => \E s \in Servers : DealsWith(s, k)

LEMMA LockInit == Init => LockInv
  BY DEF Init, LockInv

LEMMA LockStep == TypeInv /\ LockInv /\ [Next]_vars => LockInv'
<1> SUFFICES ASSUME TypeInv, LockInv, [Next]_vars,
                    NEW k \in Keys,
                    lock'[k], ~ Unfinished(durable'[k]), k \notin aborted'
             PROVE  \E s \in Servers : DealsWith(s, k)'
  BY DEF LockInv
<1> USE DEF TypeInv, TypeOK, HandlerOK, files, history
\* A step that leaves the files and the other handlers alone can only undo
\* what its own handler did for k.
<1>1. ASSUME NEW s \in Servers, DealsWith(s, k) => DealsWith(s, k)',
             \A t \in Servers \ {s} : UNCHANGED <<pc[t], req[t]>>,
             UNCHANGED files, aborted \subseteq aborted'
      PROVE  \E t \in Servers : DealsWith(t, k)'
  BY <1>1 DEF LockInv, DealsWith
<1>2. ASSUME NEW s \in Servers, NEW r \in Requests, Receive(s, r)
      PROVE  \E t \in Servers : DealsWith(t, k)'
  <2>1. ~ DealsWith(s, k)  BY <1>2 DEF Receive, DealsWith
  <2>. QED  BY <1>1, <1>2, <2>1 DEF Receive, Goto
<1>3. ASSUME NEW s \in Servers, CreateLock(s)
      PROVE  \E t \in Servers : DealsWith(t, k)'
  <2>1. CASE lock' = lock
    <3>1. ~ DealsWith(s, k)  BY <1>3 DEF CreateLock, DealsWith
    <3>. QED  BY <1>1, <1>3, <2>1, <3>1 DEF CreateLock, Goto, AnswerWith
  <2>2. CASE req[s].key = k /\ pc'[s] = "check"
    BY <1>3, <2>2 DEF CreateLock, DealsWith
  <2>3. CASE req[s].key # k /\ lock' # lock
    <3>1. lock'[k] = lock[k] /\ durable' = durable /\ aborted' = aborted
      BY <1>3, <2>3 DEF CreateLock
    <3>2. PICK t \in Servers : DealsWith(t, k)
      BY <3>1 DEF LockInv
    <3>3. t # s  BY <2>3, <3>2 DEF DealsWith
    <3>. QED  BY <1>3, <3>2, <3>3 DEF CreateLock, DealsWith, Goto, AnswerWith
  <2>. QED  BY <1>3, <2>1, <2>2, <2>3 DEF CreateLock, Goto
<1>4. ASSUME NEW s \in Servers, CheckPriorState(s)
      PROVE  \E t \in Servers : DealsWith(t, k)'
  <2>1. DealsWith(s, k) => DealsWith(s, k)'
    BY <1>4 DEF CheckPriorState, DealsWith, Goto
  <2>. QED  BY <1>1, <1>4, <2>1 DEF CheckPriorState, Goto
<1>5. ASSUME NEW s \in Servers, CheckTransition(s)
      PROVE  \E t \in Servers : DealsWith(t, k)'
  <2>1. ~ DealsWith(s, k)  BY <1>5 DEF CheckTransition, DealsWith
  <2>. QED  BY <1>1, <1>5, <2>1 DEF CheckTransition, Goto, AnswerWith
<1>6. ASSUME NEW s \in Servers, WriteState(s)
      PROVE  \E t \in Servers : DealsWith(t, k)'
  <2>1. CASE req[s].key = k
    <3>1. durable'[k] = req[s].to /\ req[s].to \in SendStateNames
      BY <1>6, <2>1 DEF WriteState
    <3>2. IsTerminal(req[s].to)  BY <3>1 DEF Unfinished
    <3>3. req[s].op = "transition"
      BY <1>6, <3>2, StateFacts, RequestFields DEF WriteState
    <3>. QED  BY <1>6, <2>1, <3>2, <3>3 DEF WriteState, DealsWith, Goto
  <2>2. CASE req[s].key # k
    <3>1. lock'[k] = lock[k] /\ durable'[k] = durable[k] /\ aborted' = aborted
      BY <1>6, <2>2 DEF WriteState
    <3>2. PICK t \in Servers : DealsWith(t, k)
      BY <3>1 DEF LockInv
    <3>3. t # s  BY <2>2, <3>2 DEF DealsWith
    <3>. QED  BY <1>6, <3>2, <3>3 DEF WriteState, DealsWith, Goto
  <2>. QED  BY <2>1, <2>2
<1>7. ASSUME NEW s \in Servers, ReleaseLock(s)
      PROVE  \E t \in Servers : DealsWith(t, k)'
  <2>1. req[s].key # k  BY <1>7 DEF ReleaseLock
  <2>2. lock'[k] = lock[k] /\ durable' = durable /\ aborted' = aborted
    BY <1>7, <2>1 DEF ReleaseLock
  <2>3. PICK t \in Servers : DealsWith(t, k)
    BY <2>2 DEF LockInv
  <2>4. t # s  BY <2>1, <2>3 DEF DealsWith
  <2>. QED  BY <1>7, <2>3, <2>4 DEF ReleaseLock, DealsWith, Goto
<1>8. ASSUME NEW s \in Servers, FileError(s)
      PROVE  \E t \in Servers : DealsWith(t, k)'
  <2>1. req[s].key # k  BY <1>8 DEF FileError
  <2>2. lock'[k] = lock[k] /\ durable' = durable /\ k \notin aborted
    BY <1>8, <2>1 DEF FileError
  <2>3. PICK t \in Servers : DealsWith(t, k)
    BY <2>2 DEF LockInv
  <2>4. t # s  BY <2>1, <2>3 DEF DealsWith
  <2>. QED  BY <1>8, <2>3, <2>4 DEF FileError, DealsWith, AnswerWith, Goto
<1>9. ASSUME NEW s \in Servers, Crash(s)
      PROVE  \E t \in Servers : DealsWith(t, k)'
  <2>1. req[s].key # k  BY <1>9 DEF Crash
  <2>2. ~ DealsWith(s, k)  BY <2>1 DEF DealsWith
  <2>. QED  BY <1>1, <1>9, <2>2 DEF Crash, BecomeIdle, Goto
<1>10. ASSUME NEW s \in Servers, Reply(s)
       PROVE  \E t \in Servers : DealsWith(t, k)'
  <2>1. ~ DealsWith(s, k)  BY <1>10 DEF Reply, DealsWith
  <2>. QED  BY <1>1, <1>10, <2>1 DEF Reply, BecomeIdle, Goto
<1>11. CASE UNCHANGED vars
  BY <1>11 DEF vars, handler, LockInv, DealsWith
<1>. QED
  BY <1>2, <1>3, <1>4, <1>5, <1>6, <1>7, <1>8, <1>9, <1>10, <1>11
     DEF Next, HandlerStep

(***************************************************************************)
(* A lock that blocks its key for ever, with no unfinished record that the *)
(* watchdog could list, is left only by a handler that was cut short, for  *)
(* any number of processes: every early return gives its lock back.        *)
(***************************************************************************)
THEOREM OrphansNeedAnAbort == Spec => []OrphanLockNeedsAbort
<1>1. Spec => [](TypeInv /\ LockInv)
  BY TypeInit, TypeStep, LockInit, LockStep, PTL DEF Spec
<1>2. LockInv => OrphanLockNeedsAbort
  BY DEF LockInv, DealsWith, OrphanLockNeedsAbort, HandledKeys
<1>. QED
  BY <1>1, <1>2, PTL
=============================================================================
