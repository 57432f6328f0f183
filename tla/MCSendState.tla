---------------------------- MODULE MCSendState ----------------------------
(***************************************************************************)
(* The instance of SendState for TLC: the deployed sidecar, one process,   *)
(* with two keys.                                                          *)
(***************************************************************************)
EXTENDS SendState

CONSTANTS k1, k2, s1

TwoKeys == {k1, k2}
OneServerSet == {s1}
=============================================================================
