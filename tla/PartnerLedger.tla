--------------------------- MODULE PartnerLedger ---------------------------
(* What the shop promises a partner: an order that is paid for with his      *)
(* promo code earns his bonus at most once, and only while it is paid,       *)
(* however often the order is paid, refunded and paid again.                 *)
EXTENDS Naturals

CONSTANT Orders

VARIABLES paid,    \* paid[o]: the order counts as paid
          credits  \* credits[o]: bonus operations booked for the order

Init ==
  /\ paid = [o \in Orders |-> FALSE]
  /\ credits = [o \in Orders |-> 0]

Settle(o) ==
  /\ paid' = [paid EXCEPT ![o] = ~paid[o]]
  /\ UNCHANGED credits

Credit(o) ==
  /\ paid[o]
  /\ credits[o] = 0
  /\ credits' = [credits EXCEPT ![o] = 1]
  /\ UNCHANGED paid

Next == \E o \in Orders : Settle(o) \/ Credit(o)

Spec == Init /\ [][Next]_<<paid, credits>>
=============================================================================
