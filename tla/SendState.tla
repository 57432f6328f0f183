----------------------------- MODULE SendState -----------------------------
(***************************************************************************)
(* The hmz-send-state sidecar: one lock file and one state file per send   *)
(* key, and the handlers of POST /v1/send/acquire and /v1/send/transition  *)
(* as the sequence of file-system calls they make.                         *)
(*                                                                         *)
(* A handler is synchronous between reading the request body and writing   *)
(* the response, so a process runs one handler at a time (pc[s]).  A crash *)
(* or a failing file-system call can still fall between two of its calls,  *)
(* and two processes over one state directory interleave call by call.     *)
(* The container keeps nothing in memory between requests: a restarted     *)
(* process is an idle one.                                                 *)
(***************************************************************************)
EXTENDS Naturals, SendStates

CONSTANTS
    Keys,      \* send keys (sha256 of the identity tuple, deriveSendKey)
    Servers,   \* sidecar processes over the state directory
    NoKey,     \* a transition request whose sendKey is missing or no string
    NoReq      \* no request is being handled

\* toState as a caller may send it: a state name, or something else.
UnknownState == "UNDEFINED"

Requests ==
    [op : {"acquire"}, key : Keys, to : {"LOCKED"}]
    \cup [op : {"transition"}, key : Keys \cup {NoKey},
          to : SendStateNames \cup {UnknownState}]

AcquireOf(k) == [op |-> "acquire", key |-> k, to |-> "LOCKED"]
TransitionOf(k, to) == [op |-> "transition", key |-> k, to |-> to]

ASSUME NoKeyAssumption == NoKey \notin Keys
ASSUME NoReqAssumption == NoReq \notin Requests

Refusals ==
    { "LOCK_ALREADY_HELD", "DURABLE_STATE_EXISTS", "INVALID_SEND_KEY",
      "UNKNOWN_STATE", "NOT_FOUND", "INVALID_TRANSITION", "BAD_REQUEST" }
Answers == {"NONE", "ACQUIRED", "OK"} \cup Refusals

Steps == {"idle", "lock", "check", "write", "unlock", "reply"}

VARIABLES
    (* the files of the state directory *)
    lock,      \* lock[k]: <key>.lock exists
    durable,   \* durable[k]: the state in <key>.state.json, or NoRecord
    (* the handler each process is running *)
    pc,        \* its next call
    req,       \* the request it serves
    answer,    \* the response it will send
    seen,      \* the state it read from the state file
    (* history *)
    grants,    \* how many responses have said "acquired" for each key
    aborted    \* keys a handler of which a crash or file error has cut short

files == <<lock, durable>>
handler == <<pc, req, answer, seen>>
history == <<grants, aborted>>
vars == <<files, handler, history>>

TypeOK ==
    /\ lock \in [Keys -> BOOLEAN]
    /\ durable \in [Keys -> Recorded]
    /\ pc \in [Servers -> Steps]
    /\ req \in [Servers -> Requests \cup {NoReq}]
    /\ answer \in [Servers -> Answers]
    /\ seen \in [Servers -> Recorded]
    /\ grants \in [Keys -> Nat]
    /\ aborted \in SUBSET Keys

Init ==
    /\ lock = [k \in Keys |-> FALSE]
    /\ durable = [k \in Keys |-> NoRecord]
    /\ pc = [s \in Servers |-> "idle"]
    /\ req = [s \in Servers |-> NoReq]
    /\ answer = [s \in Servers |-> "NONE"]
    /\ seen = [s \in Servers |-> NoRecord]
    /\ grants = [k \in Keys |-> 0]
    /\ aborted = {}

-----------------------------------------------------------------------------
Goto(s, step) == pc' = [pc EXCEPT ![s] = step]

AnswerWith(s, a) ==
    /\ answer' = [answer EXCEPT ![s] = a]
    /\ Goto(s, "reply")

\* The process has nothing left in memory of the request it served.
BecomeIdle(s) ==
    /\ Goto(s, "idle")
    /\ req' = [req EXCEPT ![s] = NoReq]
    /\ answer' = [answer EXCEPT ![s] = "NONE"]
    /\ seen' = [seen EXCEPT ![s] = NoRecord]

\* A request body is complete: the handler starts.
Receive(s, r) ==
    /\ pc[s] = "idle"
    /\ req' = [req EXCEPT ![s] = r]
    /\ Goto(s, IF r.op = "acquire" THEN "lock" ELSE "check")
    /\ UNCHANGED <<files, answer, seen, history>>

\* acquireLock: open(<key>.lock, 'wx').
CreateLock(s) ==
    LET k == req[s].key IN
    /\ pc[s] = "lock"
    /\ \/ /\ lock[k]
          /\ AnswerWith(s, "LOCK_ALREADY_HELD")
          /\ UNCHANGED lock
       \/ /\ ~ lock[k]
          /\ lock' = [lock EXCEPT ![k] = TRUE]
          /\ Goto(s, "check")
          /\ UNCHANGED answer
    /\ UNCHANGED <<durable, req, seen, history>>

\* Mutant: acquireSend trusts the lock alone and never reads the state file.
CheckPriorStateNever(s) ==
    /\ pc[s] = "check"
    /\ req[s].op = "acquire"
    /\ Goto(s, "write")
    /\ UNCHANGED <<files, req, answer, seen, history>>

\* Mutant: the early return for a prior state forgets to give the lock back.
CheckPriorStateKeepLock(s) ==
    LET k == req[s].key IN
    /\ pc[s] = "check"
    /\ req[s].op = "acquire"
    /\ seen' = [seen EXCEPT ![s] = durable[k]]
    /\ \/ durable[k] # NoRecord /\ AnswerWith(s, "DURABLE_STATE_EXISTS")
       \/ durable[k] = NoRecord /\ Goto(s, "write") /\ UNCHANGED answer
    /\ UNCHANGED <<files, req, history>>

\* acquireSend, lock in hand: a state file of any earlier run refuses the
\* claim, and the lock just created is given back first.
CheckPriorState(s) ==
    LET k == req[s].key IN
    /\ pc[s] = "check"
    /\ req[s].op = "acquire"
    /\ seen' = [seen EXCEPT ![s] = durable[k]]
    /\ \/ /\ durable[k] # NoRecord
          /\ answer' = [answer EXCEPT ![s] = "DURABLE_STATE_EXISTS"]
          /\ Goto(s, "unlock")
       \/ /\ durable[k] = NoRecord
          /\ Goto(s, "write")
          /\ UNCHANGED answer
    /\ UNCHANGED <<files, req, history>>

\* The reasons transitionSend refuses for, in the order it tests them.
TransitionRefusal(r) ==
    CASE r.key = NoKey -> "INVALID_SEND_KEY"
      [] r.key # NoKey /\ r.to = UnknownState -> "UNKNOWN_STATE"
      [] r.key # NoKey /\ r.to # UnknownState /\ durable[r.key] = NoRecord
           -> "NOT_FOUND"
      [] OTHER -> "INVALID_TRANSITION"

\* Mutant: toState is looked up but not tested against ALLOWED_TRANSITIONS.
TransitionAllowedAnywhere(r) ==
    /\ r.key # NoKey
    /\ r.to # UnknownState
    /\ durable[r.key] # NoRecord

\* Mutant: the UNKNOWN_STATE test is missing as well.
TransitionAllowedUnknown(r) ==
    /\ r.key # NoKey
    /\ durable[r.key] # NoRecord

TransitionAllowed(r) ==
    /\ r.key # NoKey
    /\ r.to # UnknownState
    /\ CanTransition(durable[r.key], r.to)

\* transitionSend up to its call of writeState.
CheckTransition(s) ==
    LET r == req[s] IN
    /\ pc[s] = "check"
    /\ r.op = "transition"
    /\ \/ /\ TransitionAllowed(r)
          /\ seen' = [seen EXCEPT ![s] = durable[r.key]]
          /\ Goto(s, "write")
          /\ UNCHANGED answer
       \/ /\ ~ TransitionAllowed(r)
          /\ AnswerWith(s, TransitionRefusal(r))
          /\ UNCHANGED seen
    /\ UNCHANGED <<files, req, history>>

\* Mutant: every transition releases the lock, not only a terminal one.
WriteStateAlwaysUnlock(s) ==
    LET r == req[s] IN
    /\ pc[s] = "write"
    /\ durable' = [durable EXCEPT ![r.key] = r.to]
    /\ answer' = [answer EXCEPT ![s] =
                    IF r.op = "acquire" THEN "ACQUIRED" ELSE "OK"]
    /\ Goto(s, IF r.op = "transition" THEN "unlock" ELSE "reply")
    /\ UNCHANGED <<lock, req, seen, history>>

\* writeState: the temporary file becomes the state file in one rename.
WriteState(s) ==
    LET r == req[s] IN
    /\ pc[s] = "write"
    /\ durable' = [durable EXCEPT ![r.key] = r.to]
    /\ answer' = [answer EXCEPT ![s] =
                    IF r.op = "acquire" THEN "ACQUIRED" ELSE "OK"]
    /\ Goto(s, IF r.op = "transition" /\ IsTerminal(r.to)
                 THEN "unlock" ELSE "reply")
    /\ UNCHANGED <<lock, req, seen, history>>

\* Mutant: releasing the lock also tidies the finished state file away.
ReleaseLockAndState(s) ==
    /\ pc[s] = "unlock"
    /\ lock' = [lock EXCEPT ![req[s].key] = FALSE]
    /\ durable' = [durable EXCEPT ![req[s].key] = NoRecord]
    /\ Goto(s, "reply")
    /\ UNCHANGED <<req, answer, seen, history>>

\* releaseLock: unlink, and a lock that is already gone is no error.
ReleaseLock(s) ==
    /\ pc[s] = "unlock"
    /\ lock' = [lock EXCEPT ![req[s].key] = FALSE]
    /\ Goto(s, "reply")
    /\ UNCHANGED <<durable, req, answer, seen, history>>

Reply(s) ==
    /\ pc[s] = "reply"
    /\ grants' = IF answer[s] = "ACQUIRED"
                   THEN [grants EXCEPT ![req[s].key] = @ + 1]
                   ELSE grants
    /\ BecomeIdle(s)
    /\ UNCHANGED <<files, aborted>>

-----------------------------------------------------------------------------
\* A file-system call throws (a full or unreadable volume) and the catch-all
\* answers 400.  What earlier calls did stays, and the failing call itself
\* may have created the lock file before failing to fill it.
FileError(s) ==
    LET k == req[s].key IN
    /\ pc[s] \in {"lock", "check", "write", "unlock"}
    /\ k \in Keys
    /\ AnswerWith(s, "BAD_REQUEST")
    /\ lock' \in IF pc[s] = "lock"
                   THEN {lock, [lock EXCEPT ![k] = TRUE]} ELSE {lock}
    /\ aborted' = aborted \cup {k}
    /\ UNCHANGED <<durable, req, seen, grants>>

\* The process dies; compose restarts the container.
Crash(s) ==
    /\ pc[s] # "idle"
    /\ BecomeIdle(s)
    /\ aborted' = aborted \cup ({req[s].key} \cap Keys)
    /\ UNCHANGED <<files, grants>>

HandlerStep(s) ==
    \/ CreateLock(s)
    \/ CheckPriorState(s)
    \/ CheckTransition(s)
    \/ WriteState(s)
    \/ ReleaseLock(s)
    \/ FileError(s)
    \/ Crash(s)

Next ==
    \E s \in Servers :
        \/ \E r \in Requests : Receive(s, r)
        \/ HandlerStep(s)
        \/ Reply(s)

Spec == Init /\ [][Next]_vars

-----------------------------------------------------------------------------
\* GET /v1/unfinished, the send half: what the SLA watchdog gets to see.
UnfinishedKeys == {k \in Keys : Unfinished(durable[k])}

\* Ownership: over any interleaving of processes, crashes and failing calls,
\* at most one caller of /v1/send/acquire is ever told that it owns a key.
\* acquireSend relies on the order lock, check, write for this.
AtMostOneGrant == \A k \in Keys : grants[k] <= 1

\* A key that has been granted never looks unclaimed again, so no later
\* rerun can be granted it: the claim outlives the lock file.
GrantIsDurable == \A k \in Keys : grants[k] > 0 => durable[k] # NoRecord

\* The lock file stays until the record is terminal: releaseLock in
\* acquireSend gives back only the lock that same call created, and
\* transitionSend's comes after the terminal write.
UnfinishedIsLocked == \A k \in UnfinishedKeys : lock[k]

\* A rerun that is refused with DURABLE_STATE_EXISTS learns a terminal prior
\* state: a send that is still in flight always answers LOCK_ALREADY_HELD,
\* without saying which state it is in.
DurableRefusalIsTerminal ==
    \A s \in Servers :
        (answer[s] = "DURABLE_STATE_EXISTS") => IsTerminal(seen[s])

\* A lock file without an unfinished record and without a handler that is
\* about to deal with it blocks its key for ever, and no listing shows it.
\* Only a handler cut short can leave one.
HandledKeys == {req[s].key : s \in {t \in Servers : pc[t] \notin {"idle", "reply"}}}
OrphanLockNeedsAbort ==
    \A k \in Keys :
        (lock[k] /\ ~ Unfinished(durable[k]) /\ k \notin HandledKeys)
            => k \in aborted

\* The state file of a key moves only along ALLOWED_TRANSITIONS, from no
\* record to LOCKED first: transitionSend's read and write are one unit for
\* a single process.
ForwardOnly ==
    [][\A k \in Keys :
         \/ durable'[k] = durable[k]
         \/ durable[k] = NoRecord /\ durable'[k] = "LOCKED"
         \/ CanTransition(durable[k], durable'[k])]_durable

\* The promise to callers.
Ownership == INSTANCE SendOwnership WITH status <- durable
OwnershipSpec == Ownership!Spec
=============================================================================
