------------------------------ MODULE AlertOnce ------------------------------
(***************************************************************************)
(* What the readers of the chat may rely on, without runs, requests and    *)
(* files: an alert is recorded once, whoever learned of that posts it or   *)
(* loses it, and a lost alert is never posted.  Watchdog is shown to       *)
(* implement this specification.                                           *)
(***************************************************************************)
CONSTANT Alerts

VARIABLES
    recorded,   \* alerts that count as known, for ever
    pending,    \* those that will be posted, unless something fails
    posted      \* those that reached the chat

vars == <<recorded, pending, posted>>

TypeOK ==
    /\ recorded \in SUBSET Alerts
    /\ pending \in SUBSET Alerts
    /\ posted \in SUBSET Alerts

Init ==
    /\ recorded = {}
    /\ pending = {}
    /\ posted = {}

Record(a) ==
    /\ a \notin recorded
    /\ recorded' = recorded \cup {a}
    /\ pending' = pending \cup {a}
    /\ UNCHANGED posted

\* Who asked for it is gone already.
RecordForNobody(a) ==
    /\ a \notin recorded
    /\ recorded' = recorded \cup {a}
    /\ UNCHANGED <<pending, posted>>

\* One message with all of them.
Post(A) ==
    /\ A \subseteq pending
    /\ posted' = posted \cup A
    /\ pending' = pending \ A
    /\ UNCHANGED recorded

Lose(A) ==
    /\ A \subseteq pending
    /\ pending' = pending \ A
    /\ UNCHANGED <<recorded, posted>>

Next ==
    \/ \E a \in Alerts : Record(a) \/ RecordForNobody(a)
    \/ \E A \in SUBSET Alerts : Post(A) \/ Lose(A)

Spec == Init /\ [][Next]_vars
=============================================================================
