------------------------ MODULE ReconciledSendProofs ------------------------
(***************************************************************************)
(* OnePost, ReconciledMeansSent and FileOnlyAdvances for any number of     *)
(* runs, mails and listings.  The lock alone does not give them, since it  *)
(* is released after every run: the argument is that a run that is past    *)
(* ReadState is the only one, knows the state in the file, and that no     *)
(* state before SUBMITTING comes with a POST.                              *)
(***************************************************************************)
EXTENDS ReconciledSend, FiniteSetTheorems, TLAPS

HoldersOwnLock == \A r \in Runs : pc[r] \in Holding => lock = r
\* A run that is past ReadState knows what is in the file.
FileIsKnown ==
    \A r \in Runs :
      /\ pc[r] = "fresh" => file = NoState
      /\ pc[r] \in {"locked", "verified"} => file = "LOCKED"
      /\ pc[r] \in {"submitting", "forwarded", "settled"} => file = "SUBMITTING"
      /\ pc[r] \in {"uncertain", "reconciling"} => file = "SEND_UNCERTAIN"
EarlyMeansUnposted ==
    /\ file \in {NoState, "LOCKED", "BLOCKED"} => posted = {}
    /\ \A r \in Runs : pc[r] = "submitting" => posted = {}
LaterMeansPosted ==
    \A r \in Runs : pc[r] \in {"forwarded", "settled", "uncertain", "reconciling"}
                      => posted = {r}
CopiesArePosted == \A r \in Runs : copies[r] > 0 => r \in posted

IInv ==
    /\ TypeOK /\ OnePost /\ ReconciledMeansSent
    /\ HoldersOwnLock /\ FileIsKnown /\ EarlyMeansUnposted
    /\ LaterMeansPosted /\ CopiesArePosted

-----------------------------------------------------------------------------
(***************************************************************************)
(* Two runs never hold the lock at once, so a run that moves leaves what   *)
(* the invariant says of the others trivially true.                        *)
(***************************************************************************)
LEMMA OneHolder ==
    ASSUME HoldersOwnLock, NEW r \in Runs, pc[r] \in Holding
    PROVE  \A s \in Runs : pc[s] \in Holding => s = r
BY DEF HoldersOwnLock

\* Each named step keeps the counters of a reconciliation in range.
LEMMA AfterListingType ==
    ASSUME TypeOK, NEW r \in Runs, NEW ids \in Listings(r),
           poll[r].checks + 1 < MaxChecks
    PROVE  AfterListing(poll[r], ids) \in Poll
<1>1. poll[r] \in Poll /\ copies[r] \in 0..MaxCopies  BY DEF TypeOK
<1>2. CASE ids = {}
  BY <1>1, <1>2, MaxCopiesAssumption, MaxChecksAssumption DEF AfterListing, Poll
<1>3. CASE ids # {}
  <2> DEFINE id == CHOOSE i \in ids : TRUE
  <2>1. id \in ids  BY <1>3
  <2> HIDE DEF id
  <2>a. ids \subseteq 1..copies[r]  BY DEF Listings
  <2>2. id \in 0..MaxCopies
    BY <2>1, <2>a, <1>1, MaxCopiesAssumption
  <2>3. [ last |-> id, same |-> IF id = poll[r].last THEN poll[r].same + 1 ELSE 1,
          checks |-> poll[r].checks + 1 ] \in Poll
    BY <2>2, <1>1, MaxChecksAssumption DEF Poll
  <2> QED  BY <2>3, <1>3 DEF AfterListing, id
<1> QED  BY <1>2, <1>3

\* A single match is a mail that the platform has sent.
LEMMA MatchIsSent ==
    ASSUME TypeOK, NEW r \in Runs, NEW ids \in Listings(r), Cardinality(ids) = 1
    PROVE  copies[r] > 0
<1>1. ids # {}  BY FS_EmptySet
<1>2. copies[r] \in 0..MaxCopies  BY DEF TypeOK
<1>3. ids \subseteq 1..copies[r]  BY DEF Listings
<1>4. PICK id \in ids : id \in 1..copies[r]  BY <1>1, <1>3
<1> QED  BY <1>2, <1>4, MaxCopiesAssumption

-----------------------------------------------------------------------------
LEMMA InitIInv == Init => IInv
<1> SUFFICES ASSUME Init PROVE IInv  OBVIOUS
<1>1. TypeOK
  BY MaxCopiesAssumption, MaxChecksAssumption
  DEF Init, TypeOK, PCs, Metas, Poll
<1>2. OnePost /\ ReconciledMeansSent
  BY NoStateAssumption
  DEF Init, OnePost, ReconciledMeansSent, States, FinalStates, Verdicts
<1>3. HoldersOwnLock /\ FileIsKnown /\ LaterMeansPosted
  BY DEF Init, Holding, HoldersOwnLock, FileIsKnown, LaterMeansPosted
<1>4. EarlyMeansUnposted /\ CopiesArePosted
  BY DEF Init, EarlyMeansUnposted, CopiesArePosted
<1> QED  BY <1>1, <1>2, <1>3, <1>4 DEF IInv

(***************************************************************************)
(* Steps of a run that has the lock.                                       *)
(***************************************************************************)
LEMMA WorkIInv == ASSUME IInv, NEW r \in Runs, Work(r) PROVE IInv'
<1> USE NoStateAssumption, NoRunAssumption
    DEF IInv, TypeOK, At, PCs, Holding, States, FinalStates, Verdicts, Metas,
        WriteState, OnePost, ReconciledMeansSent, HoldersOwnLock, FileIsKnown,
        EarlyMeansUnposted, LaterMeansPosted, CopiesArePosted
<1>1. CASE ReadState(r)
  BY <1>1 DEF ReadState
<1>2. CASE WriteLocked(r)
  BY <1>2 DEF WriteLocked
<1>3. CASE Verify(r)
  BY <1>3 DEF Verify
<1>4. CASE ProxyFails(r)
  BY <1>4 DEF ProxyFails
<1>5. CASE WriteSubmitting(r)
  BY <1>5 DEF WriteSubmitting
<1>6. CASE Submit(r)
  BY <1>6 DEF Submit
<1>7. CASE Settle(r)
  BY <1>7 DEF Settle
<1>8. CASE WriteUncertain(r)
  BY <1>8 DEF WriteUncertain
<1>9. CASE Triage(r)
  BY <1>9 DEF Triage
<1>10. CASE Reconcile(r)
  <2>1. CASE ListingFails(r)
    BY <2>1 DEF ListingFails, Conclude
  <2>2. CASE SeveralMatches(r)
    BY <2>2 DEF SeveralMatches, Conclude
  <2>3. CASE SameMatchAgain(r)
    <3>1. copies[r] > 0  BY <2>3, MatchIsSent DEF SameMatchAgain
    <3> QED  BY <2>3, <3>1 DEF SameMatchAgain, Conclude
  <2>4. CASE Continue(r)
    <3>1. PICK ids \in Listings(r) :
            poll' = [poll EXCEPT ![r] = AfterListing(poll[r], ids)]
      BY <2>4 DEF Continue
    <3>2. AfterListing(poll[r], ids) \in Poll
      BY <2>4, AfterListingType DEF Continue
    <3>3. poll' \in [Runs -> Poll]  BY <3>1, <3>2
    <3> QED  BY <2>4, <3>3 DEF Continue
  <2>5. CASE Deadline(r)
    BY <2>5 DEF Deadline, Conclude
  <2> QED  BY <1>10, <2>1, <2>2, <2>3, <2>4, <2>5 DEF Reconcile
<1>11. CASE ReleaseLock(r)
  BY <1>11 DEF ReleaseLock
<1> QED
  BY <1>1, <1>2, <1>3, <1>4, <1>5, <1>6, <1>7, <1>8, <1>9, <1>10, <1>11 DEF Work

(***************************************************************************)
(* Steps of a run that does not have it, of the platform, and crashes.     *)
(***************************************************************************)
LEMMA OtherIInv ==
    ASSUME IInv, NEW r \in Runs, Start(r) \/ Crash(r) \/ CarryOut(r)
    PROVE  IInv'
<1> USE NoStateAssumption, NoRunAssumption
    DEF IInv, TypeOK, At, PCs, Holding, OnePost, ReconciledMeansSent,
        HoldersOwnLock, FileIsKnown, EarlyMeansUnposted, LaterMeansPosted,
        CopiesArePosted
<1>1. CASE Refused(r)
  BY <1>1 DEF Refused
<1>2. CASE AcquireLock(r)
  BY <1>2 DEF AcquireLock
<1>3. CASE LockHeld(r)
  BY <1>3 DEF LockHeld
<1>4. CASE Crash(r)
  BY <1>4 DEF Crash
<1>5. CASE CarryOut(r)
  BY <1>5, MaxCopiesAssumption DEF CarryOut
<1> QED  BY <1>1, <1>2, <1>3, <1>4, <1>5 DEF Start

LEMMA StepIInv == IInv /\ [Next]_vars => IInv'
<1> SUFFICES ASSUME IInv, [Next]_vars PROVE IInv'  OBVIOUS
<1>1. CASE Next
  BY <1>1, WorkIInv, OtherIInv DEF Next
<1>2. CASE UNCHANGED vars
  BY <1>2 DEF vars, IInv, TypeOK, OnePost, ReconciledMeansSent, HoldersOwnLock,
     FileIsKnown, EarlyMeansUnposted, LaterMeansPosted, CopiesArePosted
<1> QED  BY <1>1, <1>2

THEOREM Invariant == Spec => []IInv
BY InitIInv, StepIInv, PTL DEF Spec

-----------------------------------------------------------------------------
\* Every variable stays in its range.
THEOREM TypeCorrect == Spec => []TypeOK
BY Invariant, PTL DEF IInv

(***************************************************************************)
(* One POST in all runs for a key (runLayer2): whoever is past ReadState   *)
(* holds the lock and has found no state, and a state stays for good.      *)
(***************************************************************************)
THEOREM OnePostForEver == Spec => []OnePost
BY Invariant, PTL DEF IInv

(***************************************************************************)
(* The verdict SENT_RECONCILED stands for a mail that the platform sent    *)
(* (reconcile, isExactMatch).                                              *)
(***************************************************************************)
THEOREM ReconciledMailExists == Spec => []ReconciledMeansSent
BY Invariant, PTL DEF IInv

(***************************************************************************)
(* The state file only advances (writeState is only called in order).      *)
(***************************************************************************)
LEMMA StepAdvances == IInv /\ [Next]_vars => [file' # file => file \in Earlier(file')]_vars
<1> SUFFICES ASSUME IInv, NEW r \in Runs,
                    Start(r) \/ Work(r) \/ Crash(r) \/ CarryOut(r), file' # file
             PROVE  file \in Earlier(file')
  BY DEF Next, vars
<1>1. FileIsKnown  BY DEF IInv
<1> QED
  BY <1>1
  DEF FileIsKnown, Earlier, Start, Work, Crash, CarryOut, Refused, AcquireLock,
      LockHeld, ReadState, WriteLocked, Verify, ProxyFails, WriteSubmitting,
      Submit, Settle, WriteUncertain, Triage, Reconcile, ListingFails,
      SeveralMatches, SameMatchAgain, Continue, Deadline, Conclude, ReleaseLock,
      WriteState, At

THEOREM FileAdvances == Spec => FileOnlyAdvances
BY Invariant, StepAdvances, PTL DEF Spec, FileOnlyAdvances

-----------------------------------------------------------------------------
(***************************************************************************)
(* The runs are senders of SendOnce.                                       *)
(***************************************************************************)
Past == {"forwarded", "settled", "uncertain", "reconciling"}
PosterInv ==
    \A r \in posted : pc[r] \in Past \cup {"releasing", "done", "crashed"}

LEMMA PosterStep ==
    ASSUME IInv, PosterInv, [Next]_vars
    PROVE  PosterInv'
<1> USE DEF PosterInv, Past, IInv, TypeOK, At
<1>1. ASSUME NEW r \in Runs, Start(r) \/ Crash(r) \/ CarryOut(r)
      PROVE  PosterInv'
  BY <1>1 DEF Start, Refused, AcquireLock, LockHeld, Crash, CarryOut
<1>2. ASSUME NEW r \in Runs, Work(r) PROVE PosterInv'
  BY <1>2 DEF Work, ReadState, WriteLocked, Verify, ProxyFails,
     WriteSubmitting, Submit, Settle, WriteUncertain, Triage, Reconcile,
     ListingFails, SeveralMatches, SameMatchAgain, Continue, Deadline,
     Conclude, ReleaseLock
<1>3. CASE UNCHANGED vars
  BY <1>3 DEF vars
<1>. QED
  BY <1>1, <1>2, <1>3 DEF Next

\* A step moves one run from stage to stage; the claim and the keys follow.
Held(st) == IF st \in {"owner", "posted", "done"} THEN {"key"} ELSE {}
Claimed(state) == IF state = NoState THEN {} ELSE {"key"}

LEMMA StageMoves ==
    ASSUME IInv, PosterInv, NEW r \in Runs,
           Start(r) \/ Work(r) \/ Crash(r) \/ CarryOut(r)
    PROVE  /\ \A s \in Runs \ {r} : StageOf(s)' = StageOf(s)
           /\ \/ StageOf(r)' = StageOf(r) /\ Claimed(file)' = Claimed(file)
              \/ /\ StageOf(r) = "asked" /\ StageOf(r)' = "owner"
                 /\ file = NoState /\ file' # NoState
              \/ /\ <<StageOf(r), StageOf(r)'>> \in
                       { <<"asked", "over">>, <<"owner", "over">>,
                         <<"owner", "posted">>, <<"posted", "done">> }
                 /\ Claimed(file)' = Claimed(file)
<1> USE NoStateAssumption
    DEF IInv, TypeOK, At, StageOf, Claimed, PosterInv, Past, FileIsKnown,
        EarlyMeansUnposted, LaterMeansPosted, States, FinalStates, Verdicts,
        WriteState, Holding
<1>1. CASE Start(r)
  BY <1>1 DEF Start, Refused, AcquireLock, LockHeld
<1>2. CASE Crash(r) \/ CarryOut(r)
  BY <1>2 DEF Crash, CarryOut
<1>3. CASE ReadState(r) \/ WriteLocked(r) \/ Verify(r) \/ ProxyFails(r)
  BY <1>3 DEF ReadState, WriteLocked, Verify, ProxyFails
<1>4. CASE WriteSubmitting(r) \/ Submit(r) \/ Settle(r) \/ WriteUncertain(r)
  BY <1>4 DEF WriteSubmitting, Submit, Settle, WriteUncertain
<1>5. CASE Triage(r) \/ Reconcile(r) \/ ReleaseLock(r)
  BY <1>5 DEF Triage, Reconcile, ListingFails, SeveralMatches,
     SameMatchAgain, Continue, Deadline, Conclude, ReleaseLock
<1>. QED
  BY <1>1, <1>2, <1>3, <1>4, <1>5 DEF Work

LEMMA OnceImplemented ==
    ASSUME IInv, PosterInv, [Next]_vars
    PROVE  [Once!Next]_(Once!vars)
<1> DEFINE st == [s \in Runs |-> StageOf(s)]
           hd == [s \in Runs |-> Held(StageOf(s))]
<1>0. /\ Once!vars = <<Claimed(file), st, hd>>
      /\ Once!vars' = <<Claimed(file)', st', hd'>>
  BY DEF Once!vars, Claimed, Held
<1>1. CASE UNCHANGED vars
  BY <1>1 DEF vars, Once!vars, StageOf
<1>2. ASSUME NEW r \in Runs, Start(r) \/ Work(r) \/ Crash(r) \/ CarryOut(r)
      PROVE  [Once!Next]_(Once!vars)
  <2> DEFINE to == StageOf(r)'
  <2>1. \A s \in Runs \ {r} : StageOf(s)' = StageOf(s)
    BY <1>2, StageMoves
  <2>2. /\ st' = [st EXCEPT ![r] = to]
        /\ hd' = [hd EXCEPT ![r] = Held(to)]
    BY <2>1
  <2>3. /\ st[r] = StageOf(r) /\ hd[r] = Held(StageOf(r))
        /\ st = [st EXCEPT ![r] = st[r]]
        /\ hd = [hd EXCEPT ![r] = hd[r]]
    OBVIOUS
  <2>4. CASE to = StageOf(r) /\ Claimed(file)' = Claimed(file)
    <3>1. \A s \in Runs : StageOf(s)' = StageOf(s)
      BY <2>1, <2>4
    <3>2. st' = st /\ hd' = hd
      BY <3>1
    <3>. QED
      BY <1>0, <2>4, <3>2 DEF Claimed
  <2>5. CASE /\ StageOf(r) = "asked" /\ to = "owner"
             /\ file = NoState /\ file' # NoState
    <3>1. Once!Acquire(r, "key")
      BY <2>2, <2>3, <2>5 DEF Once!Acquire, Once!Move, Held
    <3>. QED
      BY <3>1 DEF Once!Next
  <2>6. CASE /\ <<StageOf(r), to>> \in
                   { <<"asked", "over">>, <<"owner", "over">>,
                     <<"owner", "posted">>, <<"posted", "done">> }
             /\ Claimed(file)' = Claimed(file)
    <3>1. CASE StageOf(r) = "asked" /\ to = "over"
      BY <2>2, <2>3, <2>6, <3>1
      DEF Once!Next, Once!Refuse, Once!Move, Held, Claimed
    <3>2. CASE StageOf(r) = "owner" /\ to = "over"
      BY <2>2, <2>3, <2>6, <3>2
      DEF Once!Next, Once!Withdraw, Once!Move, Held, Claimed
    <3>3. CASE StageOf(r) = "owner" /\ to = "posted"
      BY <2>2, <2>3, <2>6, <3>3
      DEF Once!Next, Once!Post, Once!Move, Held, Claimed
    <3>4. CASE StageOf(r) = "posted" /\ to = "done"
      BY <2>2, <2>3, <2>6, <3>4
      DEF Once!Next, Once!Report, Once!Move, Held, Claimed
    <3>. QED
      BY <2>6, <3>1, <3>2, <3>3, <3>4
  <2>. QED
    BY <1>2, <2>4, <2>5, <2>6, StageMoves
<1>. QED
  BY <1>1, <1>2 DEF Next

\* The Layer 2 sender (runLayer2) implements SendOnce: the key is claimed by
\* the first state that is written, only the run that wrote it POSTs, and a
\* run that has released the lock without a POST never makes one.
THEOREM RunsSendOnce == Spec => SendsOnce
<1>1. Init => PosterInv /\ Once!Init
  BY DEF Init, PosterInv, Once!Init, StageOf
<1>2. IInv /\ PosterInv /\ [Next]_vars =>
        PosterInv' /\ [Once!Next]_(Once!vars)
  BY PosterStep, OnceImplemented
<1>. QED
  BY <1>1, <1>2, Invariant, PTL DEF Spec, SendsOnce, Once!Spec

-----------------------------------------------------------------------------
(***************************************************************************)
(* How many steps a run has left.  Liveness is out of the prover's reach,  *)
(* but this is the bound that RunsEnd rests on: fairness gives a run that  *)
(* holds the lock its next step, and it has no more than StepsLeft of them.*)
(***************************************************************************)
Distance ==
    [ acquired |-> 10, fresh |-> 9, locked |-> 8, verified |-> 7,
      submitting |-> 6, forwarded |-> 5, settled |-> 4, uncertain |-> 3 ]

StepsLeft(r) ==
    IF pc[r] \notin Holding THEN 0
    ELSE IF pc[r] = "releasing" THEN 1
    ELSE IF pc[r] = "reconciling" THEN 2 + MaxChecks - poll[r].checks
    ELSE MaxChecks + Distance[pc[r]]

\* No step brings a run back, and no other run, nor the platform, delays it.
StepsRunOut ==
    [][\A r \in Runs :
         /\ Work(r) => StepsLeft(r)' < StepsLeft(r)
         /\ pc[r] \in Holding => StepsLeft(r)' <= StepsLeft(r)]_vars

LEMMA StepsFacts ==
    ASSUME TypeOK, NEW r \in Runs
    PROVE  /\ StepsLeft(r) \in 0..(MaxChecks + 10)
           /\ StepsLeft(r) > 0 <=> pc[r] \in Holding
           /\ poll[r].checks \in 0..MaxChecks
<1>1. poll[r].checks \in 0..MaxChecks /\ pc[r] \in PCs
  BY DEF TypeOK, Poll
<1>. QED
  BY <1>1, MaxChecksAssumption DEF StepsLeft, Distance, Holding

LEMMA WorkLowers ==
    ASSUME TypeOK, TypeOK', NEW r \in Runs, Work(r)
    PROVE  StepsLeft(r)' < StepsLeft(r) /\ StepsLeft(r)' <= StepsLeft(r)
<1>1. poll[r].checks \in 0..MaxChecks /\ pc[r] \in PCs
  BY DEF TypeOK, Poll
<1>2. ASSUME Continue(r)
      PROVE  StepsLeft(r)' < StepsLeft(r) /\ StepsLeft(r)' <= StepsLeft(r)
  <2>1. PICK ids \in Listings(r) :
          poll' = [poll EXCEPT ![r] = AfterListing(poll[r], ids)]
    BY <1>2 DEF Continue
  <2>2. poll'[r].checks = poll[r].checks + 1
    BY <2>1 DEF TypeOK, AfterListing
  <2>. QED
    BY <1>1, <1>2, <2>2, MaxChecksAssumption DEF Continue, StepsLeft, Holding
<1> USE <1>1, MaxChecksAssumption
    DEF TypeOK, At, PCs, Holding, StepsLeft, Distance
<1>3. CASE ReadState(r) \/ WriteLocked(r) \/ Verify(r) \/ ProxyFails(r)
  BY <1>3 DEF ReadState, WriteLocked, Verify, ProxyFails
<1>4. CASE WriteSubmitting(r) \/ Submit(r) \/ Settle(r) \/ WriteUncertain(r)
  BY <1>4 DEF WriteSubmitting, Submit, Settle, WriteUncertain
<1>5. CASE Triage(r) \/ ReleaseLock(r)
  BY <1>5 DEF Triage, ReleaseLock
<1>6. CASE Reconcile(r)
  BY <1>2, <1>6 DEF Reconcile, ListingFails, SeveralMatches, SameMatchAgain,
     Deadline, Conclude
<1>. QED
  BY <1>3, <1>4, <1>5, <1>6 DEF Work

LEMMA OthersDoNotDelay ==
    ASSUME TypeOK, TypeOK', NEW r \in Runs, pc[r] \in Holding, NEW s \in Runs,
           s # r \/ Start(s) \/ Crash(s) \/ CarryOut(s),
           Start(s) \/ Work(s) \/ Crash(s) \/ CarryOut(s)
    PROVE  StepsLeft(r)' <= StepsLeft(r)
<1>0. StepsLeft(r) \in 0..(MaxChecks + 10)
  BY StepsFacts
<1>1. \/ pc'[r] = pc[r] /\ poll'[r] = poll[r]
      \/ pc'[r] = "crashed"
  BY DEF TypeOK, Start, Work, Crash, CarryOut, Refused, AcquireLock, LockHeld,
     ReadState, WriteLocked, Verify, ProxyFails, WriteSubmitting, Submit,
     Settle, WriteUncertain, Triage, Reconcile, ListingFails, SeveralMatches,
     SameMatchAgain, Continue, Deadline, Conclude, ReleaseLock, At, Holding
<1>. QED
  BY <1>0, <1>1, MaxChecksAssumption DEF StepsLeft, Holding

\* A run of runLayer2 that holds the lock has a bounded number of steps to
\* make, each of them one less, whatever the platform lists and whoever else
\* runs: with a run that goes on as long as it lives, this is RunsEnd.
THEOREM RunsAreBounded ==
    Spec => StepsRunOut /\ [](\A r \in Runs :
                                 /\ StepsLeft(r) \in 0..(MaxChecks + 10)
                                 /\ StepsLeft(r) = 0 <=> pc[r] \notin Holding)
<1>1. TypeOK /\ TypeOK' /\ [Next]_vars =>
        [\A r \in Runs :
           /\ Work(r) => StepsLeft(r)' < StepsLeft(r)
           /\ pc[r] \in Holding => StepsLeft(r)' <= StepsLeft(r)]_vars
  <2> SUFFICES ASSUME TypeOK, TypeOK', Next, NEW r \in Runs
               PROVE  /\ Work(r) => StepsLeft(r)' < StepsLeft(r)
                      /\ pc[r] \in Holding => StepsLeft(r)' <= StepsLeft(r)
    OBVIOUS
  <2>1. Work(r) => StepsLeft(r)' < StepsLeft(r) /\ StepsLeft(r)' <= StepsLeft(r)
    BY WorkLowers
  <2>2. pc[r] \in Holding => StepsLeft(r)' <= StepsLeft(r)
    BY <2>1, OthersDoNotDelay DEF Next
  <2>. QED
    BY <2>1, <2>2
<1>2. TypeOK => \A r \in Runs :
                   /\ StepsLeft(r) \in 0..(MaxChecks + 10)
                   /\ StepsLeft(r) = 0 <=> pc[r] \notin Holding
  BY StepsFacts, MaxChecksAssumption
<1>. QED
  BY <1>1, <1>2, TypeCorrect, PTL DEF Spec, StepsRunOut

=============================================================================
