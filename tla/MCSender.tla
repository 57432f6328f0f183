------------------------------ MODULE MCSender ------------------------------
(***************************************************************************)
(* Instances of Sender for TLC: executions that all compute the same key,  *)
(* which is the case that the sidecar is there for.                        *)
(***************************************************************************)
EXTENDS Sender

CONSTANTS k1, s1, e1, e2, e3

OneKey == {k1}
OneServerSet == {s1}
OneExec == {e1}
ThreeExecs == {e1, e2, e3}
SameKey == [e \in Execs |-> k1]

AllLive == [e \in Execs |-> FALSE]
OneDry == [e \in Execs |-> e = e1]
=============================================================================
