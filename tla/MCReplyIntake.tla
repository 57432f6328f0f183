---------------------------- MODULE MCReplyIntake ----------------------------
(***************************************************************************)
(* ReplyIntake for TLC: two deliveries, of bodies with one key or two,     *)
(* accepted or refused, and a report of the harness.  A third delivery     *)
(* adds nothing: rows of different keys never meet, and of those with one  *)
(* key any two are the creator of the row and its duplicate.               *)
(***************************************************************************)
EXTENDS ReplyIntake, TLC

CONSTANTS k1, k2

Reply == [ key |-> k1, payload |-> "COMPLETE", live |-> FALSE, listed |-> FALSE,
           ordinary |-> TRUE ]
MCEvents ==
    { Reply,
      [Reply EXCEPT !.payload = "MALFORMED"],
      [Reply EXCEPT !.key = k2, !.payload = "INCOMPLETE", !.ordinary = FALSE],
      [Reply EXCEPT !.live = TRUE] }

Uncertain == [ error_class |-> Nothing, send_state |-> "SEND_UNCERTAIN",
               terminal |-> "SEND_UNCERTAIN", operator_action |-> Nothing,
               http_status |-> 503, retryable |-> Nothing ]
MCFlatItems == {Uncertain}

Symmetry == Permutations(Deliveries)
=============================================================================
