------------------------------ MODULE MCWatchdog ------------------------------
(***************************************************************************)
(* Instances of Watchdog for TLC.                                          *)
(***************************************************************************)
EXTENDS Watchdog, TLC

CONSTANTS k1, x1, r1, r2

OneSend == {k1}
OneError == {x1}
OneRun == {r1}
TwoRuns == {r1, r2}

\* The classes differ in nothing that the runs over them ask.
OneErrorClass == {"RETRYABLE"}

RunSymmetry == Permutations(Runs)
=============================================================================
