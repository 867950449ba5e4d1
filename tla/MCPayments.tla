---------------------------- MODULE MCPayments ----------------------------
(* One order with a payment of the provider, one that is edited in the admin. *)
EXTENDS Payments, TLC

CONSTANTS o1, o2, p1

PaymentsOf     == p1 :> o1
Settling       == {"partially_paid", "finished"}
JustFinished   == {"finished"}
PaidOrRefunded == {"paid", "refunded"}
=============================================================================
