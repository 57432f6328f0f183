-------------------------- MODULE MCDecisionEngine --------------------------
(***************************************************************************)
(* Instances of DecisionEngine for TLC.                                    *)
(***************************************************************************)
EXTENDS DecisionEngine, FiniteSetsExt

R(category, micro) ==
    [ class |-> Class(category, micro), text |-> TRUE, asks_booking |-> FALSE,
      asks_proof |-> FALSE, asks_scope |-> FALSE, safe |-> TRUE,
      op |-> "none", sure |-> TRUE, threat |-> FALSE, media |-> FALSE ]

Offer == R("INFORMATION_REQUEST", "OFFER_EXPLANATION")
Proof == R("INFORMATION_REQUEST", "PROOF_OR_CASE_STUDY_REQUEST")
Booking == R("BOOKING_REQUEST", "MEETING_TIME_REQUEST")
Pricing == R("PRICING_OR_COMMERCIAL_NEGOTIATION", "PRICING_REQUEST")
Unsubscribe == R("UNSUBSCRIBE", "UNSUBSCRIBE_OR_COMPLAINT")
Hostile == R("HOSTILE_OR_REPUTATIONAL_RISK", "ANGRY_COMPLAINT")
Interested == R("POSITIVE_INTEREST", "POSITIVE_INTEREST_GENERAL")
OutOfOffice == R("OUT_OF_OFFICE", "OOO_AUTO_REPLY")
Operational(op) ==
    [ R(IF op = "noop" THEN "" ELSE "OTHER", "AMBIGUOUS_SHORT_REPLY")
        EXCEPT !.op = op ]

Row(id, type, instr, brings, from, to, time) ==
    [ id |-> id, type |-> type, status |-> "active", from_form |-> TRUE,
      scope |-> "global", target |-> "", instr |-> instr, brings |-> brings,
      from |-> from, to |-> to, time |-> time, broken |-> FALSE ]

---------------------------------------------------------------------------
(* Drafting: the rules and the texts vary. *)

DraftReplies ==
    { Offer, [Proof EXCEPT !.asks_proof = TRUE],
      [Booking EXCEPT !.asks_booking = TRUE], [Pricing EXCEPT !.asks_scope = TRUE],
      [Interested EXCEPT !.asks_booking = TRUE], Interested,
      [Offer EXCEPT !.sure = FALSE], Unsubscribe,
      [Offer EXCEPT !.text = FALSE] }

DraftTexts ==
    { {"text", "ai"}, {"text", "ai", "claim"}, {"text", "ai", "disclaimed"},
      {"text", "ai", "boast"}, {"text", "ai", "near_token"},
      {"text", "ai", "validation"} }

ToBooking ==
    Row(1, "classification", {}, {}, Interested.class, Booking.class, 3)
ToOffer ==
    [Row(2, "style", {"exact_start"}, {"claim"}, Interested.class, Offer.class, 2)
        EXCEPT !.scope = "micro_intent", !.target = "OFFER_EXPLANATION"]
OfferToPricing ==
    Row(3, "draft_improvement", {}, {}, Offer.class, Pricing.class, 4)
StartExactly == Row(4, "style", {"exact_start"}, {"token"}, NoClass, NoClass, 5)
LinkedBooking ==
    [Row(5, "style", {"booking_url"}, {"boast"}, NoClass, NoClass, 4)
        EXCEPT !.scope = "micro_intent", !.target = "BOOKING_REQUEST"]
DirectPricing ==
    [Row(6, "style", {"pricing"}, {}, NoClass, NoClass, 2)
        EXCEPT !.scope = "broad_category", !.target = Pricing.class.category]
NewerToOffer == [ToOffer EXCEPT !.id = 7, !.time = 6, !.type = "classification"]
BrokenRow == [Row(8, "style", {}, {}, NoClass, NoClass, 9) EXCEPT !.broken = TRUE]

DraftRows ==
    { ToBooking, ToOffer, OfferToPricing, StartExactly, LinkedBooking,
      DirectPricing, NewerToOffer }

---------------------------------------------------------------------------
(* Safety actions: rules that lead to some or away from them. *)

SuppressionReplies ==
    { Unsubscribe, [Unsubscribe EXCEPT !.sure = FALSE],
      [Hostile EXCEPT !.threat = TRUE], [OutOfOffice EXCEPT !.media = TRUE],
      OutOfOffice, Offer, Operational("noop"), Operational("malformed"),
      Operational("unsupported") }

OfferToUnsubscribe ==
    Row(9, "classification", {}, {}, Offer.class, Unsubscribe.class, 2)
UnsubscribeToOffer ==
    Row(10, "classification", {}, {}, Unsubscribe.class, Offer.class, 2)

OfferToOutOfOffice ==
    Row(11, "classification", {}, {}, Offer.class, OutOfOffice.class, 1)

SuppressionRows ==
    {OfferToUnsubscribe, UnsubscribeToOffer, OfferToOutOfOffice, BrokenRow}

---------------------------------------------------------------------------
(* A table holds up to two drafting rows, or up to two suppression rows. *)

AllReplies == DraftReplies \cup SuppressionReplies
AllRows == DraftRows \cup SuppressionRows
AllTables ==
    {{}} \cup UNION { kSubset(n, rows) :
                         n \in 1 .. 2, rows \in {DraftRows, SuppressionRows} }

=============================================================================
