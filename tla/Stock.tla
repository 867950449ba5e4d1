------------------------------- MODULE Stock -------------------------------
(* The warehouse tables of the manager portal for one catalogue position:    *)
(* lots, the rows that bind lots to order lines, the cached balance of each  *)
(* warehouse and the quantity the shop publishes for its pickup point.       *)
(*                                                                           *)
(* A lot's number is its place in the FIFO order (received_at, id); a        *)
(* receipt may be back-dated, so a new lot may take any free number.  The    *)
(* number of an order line is its order: an order has one catalogue line.    *)
EXTENDS Integers, FiniteSets, Functions

CONSTANTS Orders,         \* orders, each with its manager deal
          Ordered,        \* Ordered[o]: OrderItem.active_quantity of o's line
          NumWarehouses,  \* warehouses, numbered in the order of their names
          MaxLots,        \* bound: InventoryLot rows of a behaviour
          MaxQty          \* bound: units in one receipt, reservation or shipment

ASSUME StockAssumption ==
  /\ IsFiniteSet(Orders)
  /\ Ordered \in [Orders -> Nat \ {0}]
  /\ NumWarehouses \in Nat \ {0}
  /\ MaxLots \in Nat \ {0}
  /\ MaxQty \in Nat \ {0}

Warehouses == 1..NumWarehouses
NoWh       == 0               \* a warehouse column that is NULL
Lots       == 1..MaxLots

VARIABLES lot,       \* lot[l]: an InventoryLot row; wh = NoWh while there is none
          reserved,  \* reserved[o][l]: reserved_qty of the RESERVED allocation
          released,  \* released[o]: the lots o has a RELEASED allocation row of
          shipped,   \* shipped[o][l]: shipped_qty of the SHIPPED allocation
          balance,   \* balance[w]: InventoryBalance.quantity
          public     \* public[w]: ProductStock.quantity of w's pickup point

stockVars == <<lot, reserved, released, shipped, balance, public>>

NoLot == [wh |-> NoWh, received |-> 0, remaining |-> 0]

StockTypeOK ==
  /\ lot \in [Lots -> [wh : Warehouses \cup {NoWh}, received : Nat, remaining : Nat]]
  /\ reserved \in [Orders -> [Lots -> Nat]]
  /\ released \in [Orders -> SUBSET Lots]
  /\ shipped \in [Orders -> [Lots -> Nat]]

StockInit ==
  /\ lot = [l \in Lots |-> NoLot]
  /\ reserved = [o \in Orders |-> [l \in Lots |-> 0]]
  /\ released = [o \in Orders |-> {}]
  /\ shipped = [o \in Orders |-> [l \in Lots |-> 0]]
  /\ balance = [w \in Warehouses |-> 0]
  /\ public = [w \in Warehouses |-> 0]

-----------------------------------------------------------------------------
NonNeg(n)    == IF n > 0 THEN n ELSE 0
Lesser(m, n) == IF m < n THEN m ELSE n
LastOf(S)    == CHOOSE x \in S : \A y \in S : y =< x
FirstOf(S)   == CHOOSE x \in S : \A y \in S : x =< y

LotsAt(w)    == {l \in Lots : lot[l].wh = w}
Remaining    == [l \in Lots |-> lot[l].remaining]
OnHand(w)    == SumFunctionOnSet(Remaining, LotsAt(w))
HeldAt(o, w) == SumFunctionOnSet(reserved[o], LotsAt(w))
Shipped(o)   == SumFunction(shipped[o])

(* _reserved_quantity_for_lot, _available_quantity_for_lot_reservation.      *)
HeldOn(l)  == SumFunction([o \in Orders |-> reserved[o][l]])
LotFree(l) == NonNeg(lot[l].remaining - HeldOn(l))

(* The ways to take q units from the lots S, oldest lot first, when lot l    *)
(* offers avail[l]: none when they do not offer q, one otherwise.            *)
UncheckedFifo(avail, S, q) ==     \* mutant: no min(available, needed)
  {t \in [Lots -> 0..MaxQty] :
     SumFunction(t) = q /\ \A l \in Lots : t[l] > 0 => l \in S}
Fifo(avail, S, q) ==
  {t \in [Lots -> 0..MaxQty] :
     /\ SumFunction(t) = q
     /\ \A l \in Lots : t[l] > 0 => /\ l \in S
                                    /\ t[l] =< avail[l]
                                    /\ \A m \in S : m < l => t[m] = avail[m]}

(* The same at every warehouse w at once, need[w] units there.               *)
TakeAcross(avail, need) ==
  {t \in [Lots -> 0..MaxQty] :
     /\ \A l \in LotsAt(NoWh) : t[l] = 0
     /\ \A w \in Warehouses :
          [l \in Lots |-> IF lot[l].wh = w THEN t[l] ELSE 0] \in Fifo(avail, LotsAt(w), need[w])}

(* rebuild_inventory_balance_cache: the balances of the warehouses W are     *)
(* recomputed from their lots lt.                                            *)
ForgottenRebuild(lt, W) == balance     \* mutant: the cache is not rebuilt
Rebuilt(lt, W) ==
  [w \in Warehouses |->
     IF w \in W
     THEN SumFunctionOnSet([l \in Lots |-> lt[l].remaining], {l \in Lots : lt[l].wh = w})
     ELSE balance[w]]

(* Releasing the units f of o's reserved allocations: a row that drops to    *)
(* zero changes its status to RELEASED, and the row (order item, lot,        *)
(* RELEASED) is unique, so a second one is an IntegrityError.                *)
Emptied(o, f) == {l \in Lots : f[l] > 0 /\ f[l] = reserved[o][l]}
Clashes(o, f) == Emptied(o, f) \cap released[o] # {}
=============================================================================
