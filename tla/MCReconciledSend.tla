-------------------------- MODULE MCReconciledSend --------------------------
(***************************************************************************)
(* ReconciledSend for TLC: three runs of one key, a platform that may      *)
(* duplicate, and enough listings for a match to vanish and come back.     *)
(***************************************************************************)
EXTENDS ReconciledSend
=============================================================================
