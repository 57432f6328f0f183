--------------------------- MODULE ReconciledSend ---------------------------
(***************************************************************************)
(* The Layer 2 verification sender: one reply is posted through a one-shot *)
(* proxy on the same host that withholds the platform's response, and what *)
(* happened is found out by listing the sent mails.  Several runs (a rerun *)
(* after a crash, a second operator) share a state directory, which has a  *)
(* lock file and a state file for the send key; the key does not depend on *)
(* the run, so one key is enough here.                                     *)
(*                                                                         *)
(* A run and its proxy are one process.  A process that dies leaves both   *)
(* files as they are, and nothing ever removes a dead process's lock.      *)
(***************************************************************************)
EXTENDS Integers, FiniteSets

CONSTANTS
    Runs,       \* processes that call runLayer2 for the key
    MaxCopies,  \* Bound: mails the platform makes of one accepted POST
    MaxChecks,  \* Bound: listings that fit into poll.maxDurationMs
    NoRun, NoState

ASSUME NoRunAssumption == NoRun \notin Runs
ASSUME MaxCopiesAssumption == MaxCopies \in Nat
ASSUME MaxChecksAssumption == MaxChecks \in Nat

Verdicts ==
    { "SENT_RECONCILED", "HUMAN_REVIEW_ZERO_MATCHES",
      "HUMAN_REVIEW_MULTIPLE_MATCHES", "HUMAN_REVIEW_RECONCILIATION_ERROR" }
FinalStates ==
    Verdicts \cup { "HUMAN_REVIEW_UPSTREAM_NON_2XX",
                    "HUMAN_REVIEW_UPSTREAM_ERROR", "BLOCKED" }
States == FinalStates \cup {"LOCKED", "SUBMITTING", "SEND_UNCERTAIN"}
ASSUME NoStateAssumption == NoState \notin States

\* Where a run is, by the last thing it did.
Holding ==     \* between acquireLock and releaseLock
    { "acquired", "fresh", "locked", "verified", "submitting", "forwarded",
      "settled", "uncertain", "reconciling", "releasing" }
PCs == Holding \cup {"idle", "done", "crashed"}

\* What the proxy heard from the platform; the upstream status is all that
\* the run looks at.
Metas == {"none", "2xx", "non2xx", "error"}

\* The loop variables of reconcile: the last single match, how often it
\* came in a row, and the listings so far.  Mails are numbered per run.
Poll == [last : 0..MaxCopies, same : Nat, checks : 0..MaxChecks]

VARIABLES
    lock,       \* the run whose process created the lock file, or NoRun
    file,       \* state in the state file, or NoState
    pc,
    meta,       \* meta[r]: proxyMeta of r
    poll,       \* poll[r]: see Poll
    posted,     \* runs whose POST the proxy has passed on
    copies      \* copies[r]: mails that the platform has sent for it

vars == <<lock, file, pc, meta, poll, posted, copies>>

At(r, from, to) == pc[r] = from /\ pc' = [pc EXCEPT ![r] = to]

\* writeState: written to a temporary file and renamed, so never half.
WriteState(state) == file' = state

-----------------------------------------------------------------------------
\* checkLiveControls, then the exclusive create of the lock file.
Refused(r) ==
    /\ At(r, "idle", "done")
    /\ UNCHANGED <<lock, file, meta, poll, posted, copies>>

\* Mutant: an existing lock file is taken over.
AcquireLockStealing(r) ==
    /\ lock' = r
    /\ At(r, "idle", "acquired")
    /\ UNCHANGED <<file, meta, poll, posted, copies>>

AcquireLock(r) ==
    /\ lock = NoRun
    /\ lock' = r
    /\ At(r, "idle", "acquired")
    /\ UNCHANGED <<file, meta, poll, posted, copies>>

\* LOCK_ALREADY_HELD.
LockHeld(r) ==
    /\ lock # NoRun
    /\ At(r, "idle", "done")
    /\ UNCHANGED <<lock, file, meta, poll, posted, copies>>

\* Mutant: only a confirmed send keeps a rerun from starting.
ReadStateConfirmed(r) ==
    /\ IF file = "SENT_RECONCILED" THEN At(r, "acquired", "releasing")
                               ELSE At(r, "acquired", "fresh")
    /\ UNCHANGED <<lock, file, meta, poll, posted, copies>>

\* readState: any durable state blocks the run (DURABLE_STATE_EXISTS).
ReadState(r) ==
    /\ IF file # NoState THEN At(r, "acquired", "releasing")
                         ELSE At(r, "acquired", "fresh")
    /\ UNCHANGED <<lock, file, meta, poll, posted, copies>>

WriteLocked(r) ==
    /\ At(r, "fresh", "locked")
    /\ WriteState("LOCKED")
    /\ UNCHANGED <<lock, meta, poll, posted, copies>>

\* The inbound mail is fetched and compared with what the run expects; a
\* failed fetch and every mismatch end the key as BLOCKED.
Verify(r) ==
    /\ \/ At(r, "locked", "verified") /\ UNCHANGED file
       \/ At(r, "locked", "releasing") /\ WriteState("BLOCKED")
    /\ UNCHANGED <<lock, meta, poll, posted, copies>>

\* The proxy cannot be started: the exception releases the lock and leaves
\* the state LOCKED.
ProxyFails(r) ==
    /\ At(r, "verified", "releasing")
    /\ UNCHANGED <<lock, file, meta, poll, posted, copies>>

WriteSubmitting(r) ==
    /\ At(r, "verified", "submitting")
    /\ WriteState("SUBMITTING")
    /\ UNCHANGED <<lock, meta, poll, posted, copies>>

\* The POST to the proxy, and the proxy's one POST to the platform.  (The
\* proxy's 405 and 409 answer requests that no run makes.)
Submit(r) ==
    /\ At(r, "submitting", "forwarded")
    /\ posted' = posted \cup {r}
    /\ UNCHANGED <<lock, file, meta, poll, copies>>

\* The response, an error of the upstream call, or its timeout settles the
\* proxy, which destroys the client's socket: fetch fails, and the run's own
\* longer timeout only ends the fetch, not the wait for the proxy.  A fetch
\* that gets a response (DROP_RESPONSE_FAILED) is left out: the proxy writes
\* none to an upstream answer.  A 2xx is an acceptance, not yet a mail.
Settle(r) ==
    /\ At(r, "forwarded", "settled")
    /\ \E m \in {"2xx", "non2xx", "error"} :
         /\ meta' = [meta EXCEPT ![r] = m]
    /\ UNCHANGED <<lock, file, poll, posted, copies>>

WriteUncertain(r) ==
    /\ At(r, "settled", "uncertain")
    /\ WriteState("SEND_UNCERTAIN")
    /\ UNCHANGED <<lock, meta, poll, posted, copies>>

\* Only a confirmed 2xx is reconciled; the rest goes to a human.
Triage(r) ==
    /\ \/ meta[r] = "2xx" /\ At(r, "uncertain", "reconciling") /\ UNCHANGED file
       \/ /\ meta[r] = "non2xx" /\ At(r, "uncertain", "releasing")
          /\ WriteState("HUMAN_REVIEW_UPSTREAM_NON_2XX")
       \/ /\ meta[r] = "error" /\ At(r, "uncertain", "releasing")
          /\ WriteState("HUMAN_REVIEW_UPSTREAM_ERROR")
    /\ UNCHANGED <<lock, meta, poll, posted, copies>>

-----------------------------------------------------------------------------
(***************************************************************************)
(* reconcile.                                                              *)
(***************************************************************************)
\* Mutant: the deadline counts from the latest listing.
AfterListingUncounted(p, ids) ==
    LET id == CHOOSE i \in ids : TRUE
    IN  IF ids = {} THEN [last |-> 0, same |-> 0, checks |-> p.checks]
        ELSE [ last |-> id, same |-> IF id = p.last THEN p.same + 1 ELSE 1,
               checks |-> p.checks ]

\* ids has at most one element.
AfterListing(p, ids) ==
    LET id == CHOOSE i \in ids : TRUE
    IN  IF ids = {} THEN [last |-> 0, same |-> 0, checks |-> p.checks + 1]
        ELSE [ last |-> id, same |-> IF id = p.last THEN p.same + 1 ELSE 1,
               checks |-> p.checks + 1 ]

\* Mutant: the marker is not looked for; mails of the thread match.
ListingsUnmarked(r) == SUBSET (1..MaxCopies)

\* isExactMatch: the marker is drawn by the run, so that only mails of its
\* own POST match.  The listing may lag behind.
Listings(r) == SUBSET (1..copies[r])

Conclude(r, verdict) ==
    /\ At(r, "reconciling", "releasing")
    /\ WriteState(verdict)
    /\ UNCHANGED <<lock, meta, poll, posted, copies>>

ListingFails(r) == Conclude(r, "HUMAN_REVIEW_RECONCILIATION_ERROR")

SeveralMatches(r) ==
    /\ \E ids \in Listings(r) : Cardinality(ids) > 1
    /\ Conclude(r, "HUMAN_REVIEW_MULTIPLE_MATCHES")

\* consecutiveRequired = 2.
SameMatchAgain(r) ==
    /\ \E ids \in Listings(r) :
         Cardinality(ids) = 1 /\ AfterListing(poll[r], ids).same >= 2
    /\ Conclude(r, "SENT_RECONCILED")

Undecided(r, ids) == Cardinality(ids) <= 1 /\ AfterListing(poll[r], ids).same < 2

\* Time for another listing.
Continue(r) ==
    /\ pc[r] = "reconciling" /\ poll[r].checks + 1 < MaxChecks
    /\ \E ids \in Listings(r) :
         Undecided(r, ids) /\ poll' = [poll EXCEPT ![r] = AfterListing(@, ids)]
    /\ UNCHANGED <<lock, file, pc, meta, posted, copies>>

\* Listings may be slow: the deadline may come after any of them.
Deadline(r) ==
    /\ \E ids \in Listings(r) : Undecided(r, ids)
    /\ Conclude(r, "HUMAN_REVIEW_ZERO_MATCHES")

Reconcile(r) ==
    \/ ListingFails(r) \/ SeveralMatches(r) \/ SameMatchAgain(r)
    \/ Continue(r) \/ Deadline(r)

-----------------------------------------------------------------------------
\* The finally block.
ReleaseLock(r) ==
    /\ At(r, "releasing", "done")
    /\ lock' = NoRun
    /\ UNCHANGED <<file, meta, poll, posted, copies>>

Crash(r) ==
    /\ pc[r] \in Holding
    /\ pc' = [pc EXCEPT ![r] = "crashed"]
    /\ UNCHANGED <<lock, file, meta, poll, posted, copies>>

\* The platform carries a POST out, at any time once it has it, and may do
\* so twice.
CarryOut(r) ==
    /\ r \in posted /\ copies[r] < MaxCopies
    /\ copies' = [copies EXCEPT ![r] = @ + 1]
    /\ UNCHANGED <<lock, file, pc, meta, poll, posted>>

-----------------------------------------------------------------------------
Init ==
    /\ lock = NoRun /\ file = NoState
    /\ pc = [r \in Runs |-> "idle"]
    /\ meta = [r \in Runs |-> "none"]
    /\ poll = [r \in Runs |-> [last |-> 0, same |-> 0, checks |-> 0]]
    /\ posted = {}
    /\ copies = [r \in Runs |-> 0]

\* What a run does once it has the lock.
Work(r) ==
    \/ ReadState(r) \/ WriteLocked(r) \/ Verify(r) \/ ProxyFails(r)
    \/ WriteSubmitting(r) \/ Submit(r) \/ Settle(r) \/ WriteUncertain(r)
    \/ Triage(r) \/ Reconcile(r) \/ ReleaseLock(r)

Start(r) == Refused(r) \/ AcquireLock(r) \/ LockHeld(r)

Next == \E r \in Runs : Start(r) \/ Work(r) \/ Crash(r) \/ CarryOut(r)

Spec == Init /\ [][Next]_vars

\* A process that lives goes on: every call it waits for has a timeout, that
\* of the upstream call against silence only, so that it is assumed that the
\* platform does not lengthen one answer for ever.  Nobody has to start a
\* run, and the platform owes nothing else.
FairSpec == Spec /\ \A r \in Runs : WF_vars(Work(r))

-----------------------------------------------------------------------------
TypeOK ==
    /\ lock \in Runs \cup {NoRun}
    /\ file \in States \cup {NoState}
    /\ pc \in [Runs -> PCs]
    /\ meta \in [Runs -> Metas]
    /\ poll \in [Runs -> Poll]
    /\ posted \subseteq Runs
    /\ copies \in [Runs -> 0..MaxCopies]

(***************************************************************************)
(* "maximum POST count must be one" (run-local-self-test.mjs:217): in all  *)
(* runs for the key together, whichever of them crash at whichever point,  *)
(* at most one POST is passed on to the platform.                          *)
(***************************************************************************)
OnePost == \A r, s \in posted : r = s

(***************************************************************************)
(* "One controlled live reply POST ... the outcome was reconciled          *)
(* read-only" (run-layer2.mjs:501): the state SENT_RECONCILED, which the   *)
(* report turns into VERIFIED, is written only for a run whose POST was    *)
(* passed on and whose mail the platform has sent, although the response   *)
(* was withheld and the listings lag behind.                               *)
(***************************************************************************)
ReconciledMeansSent ==
    file = "SENT_RECONCILED" => \E r \in posted : copies[r] > 0

(***************************************************************************)
(* The state file only ever advances: to LOCKED first, to SUBMITTING       *)
(* before the POST, to SEND_UNCERTAIN after it, and a final state stays,   *)
(* whichever runs come and go.                                             *)
(***************************************************************************)
Earlier(state) ==
    IF state = "LOCKED" THEN {NoState}
    ELSE IF state \in {"SUBMITTING", "BLOCKED"} THEN {"LOCKED"}
    ELSE IF state = "SEND_UNCERTAIN" THEN {"SUBMITTING"}
    ELSE {"SEND_UNCERTAIN"}
FileOnlyAdvances == [][file' # file => file \in Earlier(file')]_vars

(***************************************************************************)
(* The runs are senders of SendOnce for their one key: the claim is the    *)
(* first state that is written, and a run that ends before its POST says   *)
(* so for good.                                                            *)
(***************************************************************************)
StageOf(r) ==
    IF r \in posted THEN IF pc[r] = "done" THEN "done" ELSE "posted"
    ELSE IF pc[r] \in {"locked", "verified", "submitting"} THEN "owner"
    ELSE IF pc[r] \in {"idle", "acquired", "fresh"} THEN "asked" ELSE "over"

Once == INSTANCE SendOnce WITH
    Keys <- {"key"},
    Senders <- Runs,
    claimed <- IF file = NoState THEN {} ELSE {"key"},
    stage <- [r \in Runs |-> StageOf(r)],
    holds <- [r \in Runs |-> IF StageOf(r) \in {"owner", "posted", "done"}
                             THEN {"key"} ELSE {}]
SendsOnce == Once!Spec

(***************************************************************************)
(* A run that has the lock ends, unless its process dies, and the lock is  *)
(* free again: every wait has a timeout, reconciliation has a deadline.    *)
(***************************************************************************)
RunsEnd == \A r \in Runs : pc[r] \in Holding ~> pc[r] \in {"done", "crashed"}

=============================================================================
