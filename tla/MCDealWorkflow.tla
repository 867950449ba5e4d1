------------------------- MODULE MCDealWorkflow -------------------------
(* Two workers and the targets that differ in what they do to the card.    *)
EXTENDS DealWorkflow

(* A new order; one with a prepared shipment of all units or of some; one of *)
(* Avito on its way to the customer.                                         *)
Parcel(status, consumed, whole) ==
  [status |-> status, consumed |-> consumed, sourced |-> status # "none",
   whole |-> whole, sold |-> consumed]
Start(avito, placed, order_, reserved_, parcel) ==
  [avito |-> avito, placed |-> placed, order |-> order_, reserved |-> reserved_,
   shipment |-> parcel]
Confirmed == [status |-> "confirmed", pay |-> "unpaid"]
Leaving   == [status |-> "shipping", pay |-> "paid"]
MCStarts ==
  {Start(FALSE, FALSE, NewOrder, "none", Parcel("none", FALSE, FALSE)),
   Start(FALSE, TRUE, Confirmed, "all", Parcel("pending", FALSE, TRUE)),
   Start(FALSE, FALSE, Confirmed, "part", Parcel("pending", FALSE, FALSE)),
   Start(TRUE, TRUE, Leaving, "none", Parcel("shipped", TRUE, TRUE))}
MCCases == {"completed", "cancelled"}
MCForms == {[status |-> "shipped", pay |-> "unpaid", prepaid |-> TRUE, tracked |-> TRUE]}
MCOrderTargets == {"confirmed", "done", "cancelled"}
MCPayTargets == {"paid"}
MCNextSteps == {"needs_payment"}
=============================================================================
