--------------------------- MODULE SendOwnership ---------------------------
(***************************************************************************)
(* What the send-state sidecar promises its callers, without lock files,   *)
(* handlers or crashes: a send key is claimed at most once, at most one    *)
(* caller is told that it owns the key, and the key's state only moves     *)
(* forward.  SendState is shown to implement this specification.           *)
(***************************************************************************)
EXTENDS Naturals, SendStates

CONSTANT Keys

VARIABLES
    status,   \* the durable send state of each key
    grants    \* how many callers have been answered "acquired" for each key

vars == <<status, grants>>

TypeOK ==
    /\ status \in [Keys -> Recorded]
    /\ grants \in [Keys -> Nat]

Init ==
    /\ status = [k \in Keys |-> NoRecord]
    /\ grants = [k \in Keys |-> 0]

\* The key leaves the unclaimed state, for ever.
Claim(k) ==
    /\ status[k] = NoRecord
    /\ status' = [status EXCEPT ![k] = "LOCKED"]
    /\ UNCHANGED grants

\* The one caller that claimed the key learns of it.  It may never learn: a
\* crash between Claim and Grant loses the answer but not the claim.
Grant(k) ==
    /\ status[k] # NoRecord
    /\ grants[k] = 0
    /\ grants' = [grants EXCEPT ![k] = 1]
    /\ UNCHANGED status

Advance(k, to) ==
    /\ CanTransition(status[k], to)
    /\ status' = [status EXCEPT ![k] = to]
    /\ UNCHANGED grants

Next ==
    \E k \in Keys :
        \/ Claim(k)
        \/ Grant(k)
        \/ \E to \in SendStateNames : Advance(k, to)

Spec == Init /\ [][Next]_vars
=============================================================================
