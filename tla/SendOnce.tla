------------------------------ MODULE SendOnce ------------------------------
(***************************************************************************)
(* What whoever hands a reply to a sender may rely on, without the         *)
(* sender's nodes, files and calls: a send key is claimed at most once,    *)
(* only the sender that was told of its claim POSTs, a sender that answers *)
(* that it stopped has not POSTed, and one that reports a result has.      *)
(* Sender, ReconciledSend, and the Sender as HumanApproval sees it, are    *)
(* shown to implement this specification.                                  *)
(***************************************************************************)
CONSTANTS Keys, Senders

VARIABLES
    claimed,   \* send keys that are taken, for ever
    stage,     \* stage[x]: see Stages
    holds      \* holds[x]: the key that x may POST for, as a set

vars == <<claimed, stage, holds>>

\* asked: not told of a claim;  over: ended, or gone, without a POST;
\* done: ended after a POST.  A sender that dies after its POST stays posted.
Stages == {"asked", "owner", "posted", "done", "over"}

TypeOK ==
    /\ claimed \in SUBSET Keys
    /\ stage \in [Senders -> Stages]
    /\ holds \in [Senders -> SUBSET Keys]

Init ==
    /\ claimed = {}
    /\ stage = [x \in Senders |-> "asked"]
    /\ holds = [x \in Senders |-> {}]

Move(x, from, to) ==
    /\ stage[x] = from
    /\ stage' = [stage EXCEPT ![x] = to]

Acquire(x, k) ==
    /\ k \notin claimed
    /\ claimed' = claimed \cup {k}
    /\ Move(x, "asked", "owner")
    /\ holds' = [holds EXCEPT ![x] = {k}]

\* The key is claimed, but the sender does not learn of it.
LoseClaim(x, k) ==
    /\ claimed' = claimed \cup {k}
    /\ Move(x, "asked", "over")
    /\ UNCHANGED holds

Refuse(x) ==
    /\ Move(x, "asked", "over")
    /\ UNCHANGED <<claimed, holds>>

\* The key stays claimed.
Withdraw(x) ==
    /\ Move(x, "owner", "over")
    /\ holds' = [holds EXCEPT ![x] = {}]
    /\ UNCHANGED claimed

Post(x) ==
    /\ Move(x, "owner", "posted")
    /\ UNCHANGED <<claimed, holds>>

Report(x) ==
    /\ Move(x, "posted", "done")
    /\ UNCHANGED <<claimed, holds>>

Next ==
    \E x \in Senders :
        \/ \E k \in Keys : Acquire(x, k) \/ LoseClaim(x, k)
        \/ Refuse(x) \/ Withdraw(x) \/ Post(x) \/ Report(x)

Spec == Init /\ [][Next]_vars

-----------------------------------------------------------------------------
Posted(x) == stage[x] \in {"posted", "done"}

\* No two senders POST for one key.
OnePosterPerKey ==
    \A x, y \in Senders :
        Posted(x) /\ Posted(y) /\ holds[x] \cap holds[y] # {} => x = y
=============================================================================
