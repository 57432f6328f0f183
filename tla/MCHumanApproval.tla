-------------------------- MODULE MCHumanApproval --------------------------
(***************************************************************************)
(* Instances of HumanApproval for TLC: one case, created once or twice (a  *)
(* retried execution, or two inbound replies with the same hash), each     *)
(* time with a draft whose template gives it a send key of its own, and a  *)
(* few tabs.                                                               *)
(***************************************************************************)
EXTENDS HumanApproval, TLC

CONSTANT c1

MCCaseOf == [h \in Creations |-> c1]
MCKeyOf == [h \in Creations |-> h]
Symmetry == Permutations(Tabs) \cup Permutations(Creations)

=============================================================================
