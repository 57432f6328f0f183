--------------------------- MODULE MCOfflineReview ---------------------------
(***************************************************************************)
(* OfflineReview for TLC: one case, created up to twice, and two posted    *)
(* forms.  The inputs are one with everything, one that lacks the booking  *)
(* link of its template, and one that lacks whatever node A does not ask   *)
(* of a case for a human: a mailbox, a draft, a chat to announce it.       *)
(***************************************************************************)
EXTENDS OfflineReview, TLC

Good == [ mode |-> "AI_DRAFT_APPROVAL", sender |-> "booking", needsBooking |-> TRUE,
          drafted |-> TRUE, chat |-> TRUE ]
MCCaseInputs ==
    { Good,
      [Good EXCEPT !.sender = "name"],
      [Good EXCEPT !.mode = "HUMAN_ONLY", !.sender = "none",
                   !.needsBooking = FALSE, !.drafted = FALSE, !.chat = FALSE] }
Symmetry == Permutations(Submissions)

=============================================================================
