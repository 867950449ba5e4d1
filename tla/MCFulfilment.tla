---------------------------- MODULE MCFulfilment ----------------------------
(* Two orders and a few lots, reservations and lines: small enough to        *)
(* exhaust, large enough for two orders to meet on one lot, for an order to  *)
(* be split over two warehouses and for a hold to be released twice.         *)
EXTENDS Fulfilment, TLC

CONSTANTS o1, o2

OneOrder == {o1}
OneUnit == [o \in OneOrder |-> 1]
TwoUnits == [o \in OneOrder |-> 2]
AnyDealWarehouse == Warehouses \cup {NoWh}

TwoOrders == {o1, o2}
TwoAndOne == [o \in TwoOrders |-> IF o = o1 THEN 2 ELSE 1]
DeskTargets == {"new", "confirmed", "shipping", "done", "cancelled"}
ShopTargets == {"confirmed", "shipping", "cancelled"}
NoDealWarehouse == {NoWh}
=============================================================================
