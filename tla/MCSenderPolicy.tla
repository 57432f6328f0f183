--------------------------- MODULE MCSenderPolicy ---------------------------
(***************************************************************************)
(* Outcomes and polls of SenderPlans for TLC.                              *)
(***************************************************************************)
EXTENDS SenderPlans

\* The mock server's scenarios, and the Retry-After values around the cap,
\* other statuses, and a body that could not be read.
SampleOutcomes ==
    Layer1!Scenarios \cup
    { Layer1!Answer(NoStatus, FALSE, NoRetryAfter),
      Layer1!Answer(429, FALSE, 0), Layer1!Answer(429, FALSE, 5),
      Layer1!Answer(429, FALSE, 6), Layer1!Answer(504, FALSE, 60),
      Layer1!Answer(501, FALSE, NoRetryAfter) }

SamplePolls == SUBSET {1, 2}
=============================================================================
