----------------------------- MODULE Fulfilment -----------------------------
(* Reservations and shipments of the manager portal over the stock tables:   *)
(* what a change of an order's status, the reservation requests of its deal  *)
(* and the operations on its shipment do to documents and stock.             *)
(*                                                                           *)
(* One action is one request, run without interleaving.  A request whose     *)
(* exception leaves part of its writes committed has a disjunct or an action *)
(* for it; one that writes nothing when refused is not enabled then.         *)
EXTENDS Stock

CONSTANTS MaxResvs,       \* bound: Reservation rows of a behaviour
          MaxLines,       \* bound: ReservationItem rows
          Targets,        \* bound: the order statuses that staff set
          NoOrder,        \* a linked_order column that is NULL
          DealWarehouses  \* the stock_warehouse a deal may be opened with

OrderStatuses  == {"new", "confirmed", "shipping", "ready_for_pickup", "done", "cancelled"}
ActiveStatuses == {"draft", "active", "partial"}
ResvStatuses   == ActiveStatuses \cup {"released", "fulfilled", "cancelled", "expired"}
ShipStatuses   == {"pending", "shipped", "delivered", "cancelled"}

Resvs == 1..MaxResvs      \* a reservation's number is its id
NoRes == 0                \* a reservation column that is NULL
Lines == 1..MaxLines      \* a reservation line's number is its id
Direct == 0               \* the shipment item that names the order line only

ASSUME FulfilmentAssumption ==
  /\ MaxResvs \in Nat \ {0}
  /\ MaxLines \in Nat \ {0}
  /\ Targets \subseteq OrderStatuses
  /\ DealWarehouses \subseteq Warehouses \cup {NoWh}

VARIABLES res,    \* res[r]: a Reservation; "none" while there is no such row
          line,   \* line[k]: a ReservationItem; res = NoRes while there is none
          ship,   \* ship[o]: the Shipment of o, found by get_or_create(order=o)
          order,  \* order[o]: Order.status
          deal    \* deal[o]: stock_warehouse and primary_reservation of its deal

docVars == <<res, line, ship, order, deal>>
vars == <<lot, reserved, released, shipped, balance, public,
          res, line, ship, order, deal>>


Reservation == [status : ResvStatuses \cup {"none"}, wh : Warehouses \cup {NoWh},
                order : Orders \cup {NoOrder}]
ReservationItem == [res : Resvs \cup {NoRes}, linked : BOOLEAN,
                    qty : Nat, ful : Nat, rel : Nat]
Shipment == [status : ShipStatuses \cup {"none"}, res : Resvs \cup {NoRes},
             wh : Warehouses \cup {NoWh}, consumed : BOOLEAN,
             items : [Lines \cup {Direct} -> Nat]]

NoItems == [k \in Lines \cup {Direct} |-> 0]

DocsTypeOK ==
  /\ res \in [Resvs -> Reservation]
  /\ line \in [Lines -> ReservationItem]
  /\ ship \in [Orders -> Shipment]
  /\ order \in [Orders -> OrderStatuses]
  /\ deal \in [Orders -> [wh : Warehouses \cup {NoWh}, primary : Resvs \cup {NoRes}]]

Init ==
  /\ StockInit
  /\ res = [r \in Resvs |-> [status |-> "none", wh |-> NoWh, order |-> NoOrder]]
  /\ line = [k \in Lines |-> [res |-> NoRes, linked |-> FALSE,
                              qty |-> 0, ful |-> 0, rel |-> 0]]
  /\ ship = [o \in Orders |-> [status |-> "none", res |-> NoRes, wh |-> NoWh,
                               consumed |-> FALSE, items |-> NoItems]]
  /\ order = [o \in Orders |-> "new"]
  /\ \E wh \in [Orders -> DealWarehouses] :
       deal = [o \in Orders |-> [wh |-> wh[o], primary |-> NoRes]]

-----------------------------------------------------------------------------
(* Reading the reservation tables rs and ln.                                 *)
Active(it) == NonNeg(it.qty - it.ful - it.rel)
LinesOf(ln, r) == {k \in Lines : ln[k].res = r}
ActiveResvs(rs, o) == {r \in Resvs : rs[r].order = o /\ rs[r].status \in ActiveStatuses}
HoldingLines(rs, ln, o) ==
  {k \in Lines : ln[k].res \in ActiveResvs(rs, o) /\ Active(ln[k]) > 0}
SumActive(ln, K) == SumFunctionOnSet([k \in Lines |-> Active(ln[k])], K)

(* inventory_snapshot: reserved_on_hand and available of warehouse w.        *)
Promised(rs, ln, w) ==
  SumActive(ln, {k \in Lines : \E r \in Resvs : /\ ln[k].res = r
                                                /\ rs[r].status \in ActiveStatuses
                                                /\ rs[r].wh = w})
Free(w) == balance[w] - Promised(res, line, w)

(* existing_reserved of o's order line, and what it lacks of the order.      *)
ReservedFor(o) == SumActive(line, {k \in HoldingLines(res, line, o) : line[k].linked})
MissingAnew(o) == Ordered[o]     \* mutant: what is reserved is not deducted
Missing(o) == NonNeg(Ordered[o] - ReservedFor(o))

(* reservation_coverage_snapshot with no purchases: uncovered_count = 0.     *)
Covered(o) ==
  \/ ReservedFor(o) >= Ordered[o]
  \/ ship[o].consumed /\ SumFunction(ship[o].items) >= Ordered[o]

(* sync_public_stock_for_warehouse for the warehouses W, from the new state. *)
PublishedStock(rs, ln, bal, W) ==     \* mutant: publishes what is on hand
  [w \in Warehouses |-> IF w \in W THEN NonNeg(bal[w]) ELSE public[w]]
Published(rs, ln, bal, W) ==
  [w \in Warehouses |-> IF w \in W THEN NonNeg(bal[w] - Promised(rs, ln, w))
                                   ELSE public[w]]

(* recompute_reservation_status.                                             *)
StatusOf(ln, r, old) ==
  LET L == LinesOf(ln, r) IN
  IF old \in {"cancelled", "expired"} THEN old
  ELSE IF L = {} THEN "draft"
  ELSE IF \A k \in L : ln[k].ful >= ln[k].qty THEN "fulfilled"
  ELSE IF \A k \in L : ln[k].rel >= ln[k].qty THEN "released"
  ELSE IF \A k \in L : ln[k].ful = 0 /\ ln[k].rel = 0 THEN "active"
  ELSE "partial"

Recomputed(rs, ln, R) ==
  [r \in Resvs |-> IF r \in R THEN [rs[r] EXCEPT !.status = StatusOf(ln, r, @)]
                              ELSE rs[r]]

(* deal.primary_reservation, or the first active reservation of the deal.    *)
DealPrimary(rs, o, p) ==
  IF p # NoRes /\ rs[p].status \in ActiveStatuses THEN p
  ELSE IF ActiveResvs(rs, o) = {} THEN NoRes ELSE FirstOf(ActiveResvs(rs, o))

-----------------------------------------------------------------------------
(* Reserving g[w] units at each warehouse w for o's line: the newest active  *)
(* reservation of o at w, or a new one, gets a new line; the new lines take  *)
(* lots in FIFO order.  pref orders the warehouses.                          *)
Wanted(g) == {w \in Warehouses : g[w] > 0}
Existing(o, w) == {r \in ActiveResvs(res, o) : res[r].wh = w}
NewAt(o, g) == {w \in Wanted(g) : Existing(o, w) = {}}
UsedResvs == {r \in Resvs : res[r].status # "none"}
UsedLines == {k \in Lines : line[k].res # NoRes}

ResvFor(o, g, pref, w) ==
  IF Existing(o, w) # {} THEN LastOf(Existing(o, w))
  ELSE Cardinality(UsedResvs) + Cardinality({v \in NewAt(o, g) : v = w \/ <<v, w>> \in pref})
LineFor(g, pref, w) ==
  Cardinality(UsedLines) + Cardinality({v \in Wanted(g) : v = w \/ <<v, w>> \in pref})

FreeLots == [l \in Lots |-> LotFree(l)]
Holds(g) == TakeAcross(FreeLots, g)

ReservedRows(o, g, pref) ==
  [r \in Resvs |->
     IF \E w \in NewAt(o, g) : ResvFor(o, g, pref, w) = r
     THEN [status |-> "active", order |-> o,
           wh |-> CHOOSE w \in NewAt(o, g) : ResvFor(o, g, pref, w) = r]
     ELSE res[r]]
ReservedLines(o, g, pref) ==
  [k \in Lines |->
     IF \E w \in Wanted(g) : LineFor(g, pref, w) = k
     THEN LET w == CHOOSE v \in Wanted(g) : LineFor(g, pref, v) = k
          IN  [res |-> ResvFor(o, g, pref, w), linked |-> TRUE,
               qty |-> g[w], ful |-> 0, rel |-> 0]
     ELSE line[k]]

RoomFor(o, g) ==
  /\ Cardinality(UsedResvs) + Cardinality(NewAt(o, g)) =< MaxResvs
  /\ Cardinality(UsedLines) + Cardinality(Wanted(g)) =< MaxLines

Reserve(o, g, pref) ==
  /\ RoomFor(o, g)
  /\ \E h \in Holds(g) :
       reserved' = [reserved EXCEPT ![o] = [l \in Lots |-> @[l] + h[l]]]
  /\ line' = ReservedLines(o, g, pref)
  /\ res' = Recomputed(ReservedRows(o, g, pref), line',
                       {ResvFor(o, g, pref, w) : w \in Wanted(g)})
  /\ balance' = Rebuilt(lot, Wanted(g))
  /\ public' = Published(res', line', balance', Wanted(g))
  /\ UNCHANGED <<lot, released, shipped>>

(* The sort of ensure_order_reservations: most available first, then name.   *)
Preference ==
  {p \in Warehouses \X Warehouses :
     \/ Free(p[1]) > Free(p[2])
     \/ Free(p[1]) = Free(p[2]) /\ p[1] < p[2]}
OfferedStock == balance     \* mutant: the promises of others are not deducted
Offered == [w \in Warehouses |-> NonNeg(Free(w))]

(* The greedy split of q units over the warehouses in that order.            *)
Greedy(q) ==
  LET offered == Offered
      pref    == Preference
  IN  {g \in [Warehouses -> 0..MaxQty] :
         /\ SumFunction(g) = Lesser(q, SumFunction(offered))
         /\ \A w \in Warehouses : g[w] > 0 =>
              /\ g[w] =< offered[w]
              /\ \A v \in Warehouses : <<v, w>> \in pref => g[v] = offered[v]}

(* All q units at w.                                                         *)
AllAt(w, q) ==
  {g \in [Warehouses -> 0..MaxQty] : \A v \in Warehouses : g[v] = IF v = w THEN q ELSE 0}

-----------------------------------------------------------------------------
(* Releasing the lines K of o (RELEASE movements): every line gives up its   *)
(* active units, a line of the order also its holds at its warehouse.        *)
LinkedActive(K, w) ==
  SumActive(line, {k \in K : line[k].linked /\ res[line[k].res].wh = w})
Freed(o, K) ==
  TakeAcross(reserved[o],
             [w \in Warehouses |-> Lesser(LinkedActive(K, w), HeldAt(o, w))])
UnmarkedLines(K) == line     \* mutant: released_quantity is not written
ReleasedLines(K) ==
  [k \in Lines |-> IF k \in K /\ line[k].linked
                   THEN [line[k] EXCEPT !.rel = @ + Active(line[k])]
                   ELSE line[k]]
KeepHolds(o, f) == UNCHANGED <<reserved, released>>     \* mutant: lots stay held
DropHolds(o, f) ==
  /\ reserved' = [reserved EXCEPT ![o] = [l \in Lots |-> @[l] - f[l]]]
  /\ released' = [released EXCEPT ![o] = @ \cup Emptied(o, f)]

(* release_order_reservations works through o's active reservations by id    *)
(* and their lines by id, each line in a transaction of its own.             *)
Before(j, k) == \/ line[j].res < line[k].res
                \/ line[j].res = line[k].res /\ j < k
CanRelease(o, D) == \A f \in Freed(o, D) : ~Clashes(o, f)
ReleasedBefore(o) ==
  LET K == HoldingLines(res, line, o)
  IN  {k \in K : CanRelease(o, {j \in K : j = k \/ Before(j, k)})}

ClearPrimary(o, R) ==
  deal' = [deal EXCEPT ![o].primary = IF @ \in R THEN NoRes ELSE @]

-----------------------------------------------------------------------------
(* create_or_update_shipment_for_order: the shipment of o for reservation r  *)
(* (NoRes: the only active one, if there is exactly one).                    *)
SoleActive(rs, o) ==
  IF Cardinality(ActiveResvs(rs, o)) = 1 THEN FirstOf(ActiveResvs(rs, o)) ELSE NoRes
Unshipped(o) == IF Shipped(o) \in 0..Ordered[o] THEN Ordered[o] - Shipped(o) ELSE 0
RefilledShipmentFor(o, r0, rs, ln, dl, st) ==     \* mutant: refills a consumed one
  LET r == IF r0 # NoRes THEN r0 ELSE SoleActive(rs, o)
  IN  [status |-> "pending", res |-> r, consumed |-> FALSE,
       wh     |-> IF r # NoRes THEN rs[r].wh ELSE dl[o].wh,
       items  |-> [k \in Lines \cup {Direct} |->
                     IF r = NoRes THEN IF k = Direct THEN Ordered[o] ELSE 0
                     ELSE IF k # Direct /\ k \in LinesOf(ln, r) THEN Active(ln[k]) ELSE 0]]
ShipmentFor(o, r0, rs, ln, dl, st) ==
  LET old == ship[o]
      r   == IF r0 # NoRes THEN r0 ELSE SoleActive(rs, o)
      src == IF r # NoRes THEN rs[r].wh ELSE dl[o].wh
  IN  IF old.consumed
      THEN [old EXCEPT !.status = IF st = "done" /\ @ = "shipped" THEN "delivered" ELSE @]
      ELSE [status   |-> IF old.status = "cancelled" THEN "cancelled" ELSE "pending",
            res      |-> IF r # NoRes THEN r ELSE old.res,
            wh       |-> IF src # NoWh THEN src ELSE old.wh,
            consumed |-> FALSE,
            items    |-> IF r # NoRes
                         THEN [k \in Lines \cup {Direct} |->
                                 IF k # Direct /\ k \in LinesOf(ln, r) THEN Active(ln[k]) ELSE 0]
                         ELSE [NoItems EXCEPT ![Direct] = Unshipped(o)]]

(* dispatch_shipment of o's shipment in the form s, at order status st.      *)
Source(s) == IF s.wh # NoWh THEN s.wh ELSE IF s.res # NoRes THEN res[s.res].wh ELSE NoWh
Items(s) == {k \in Lines \cup {Direct} : s.items[k] > 0}
OrderItems(s) == {k \in Items(s) : k = Direct \/ line[k].linked}
OrderUnits(s) == SumFunctionOnSet(s.items, OrderItems(s))
Units(s) == SumFunction(s.items)
Dispatchable(s) ==
  /\ s.status = "pending"
  /\ ~s.consumed
  /\ Source(s) # NoWh
  /\ Items(s) # {}

(* What the dispatch takes: the holds it frees, all the units it takes from  *)
(* the lots, and those of them that go to the order line.  Which of the      *)
(* lots a line without an order line empties depends on the order of the     *)
(* items and is left open.                                                   *)
Dispatches(o, s) ==
  {d \in [freed : Fifo(reserved[o], LotsAt(Source(s)),
                       Lesser(OrderUnits(s), HeldAt(o, Source(s)))),
          taken : Fifo(Remaining, LotsAt(Source(s)), Units(s)),
          sold  : [Lots -> 0..MaxQty]] :
     /\ \A l \in Lots : d.sold[l] =< d.taken[l]
     /\ SumFunction(d.sold) = OrderUnits(s)
     /\ ~Clashes(o, d.freed)
     /\ \A k \in Items(s) \ {Direct} : s.items[k] =< Active(line[k])
     /\ Shipped(o) + OrderUnits(s) =< Ordered[o]}

DispatchedLines(s) ==
  [k \in Lines |-> [line[k] EXCEPT !.ful = @ + s.items[k]]]

HeldStock(o, s, d) ==     \* mutant: books the lots that were held, not those taken
  /\ DropHolds(o, d.freed)
  /\ lot' = [l \in Lots |-> [lot[l] EXCEPT !.remaining = @ - d.taken[l]]]
  /\ shipped' = [shipped EXCEPT ![o] = [l \in Lots |-> @[l] + d.freed[l]]]
  /\ balance' = Rebuilt(lot', {Source(s)})
ShipStock(o, s, d) ==
  /\ DropHolds(o, d.freed)
  /\ lot' = [l \in Lots |-> [lot[l] EXCEPT !.remaining = @ - d.taken[l]]]
  /\ shipped' = [shipped EXCEPT ![o] = [l \in Lots |-> @[l] + d.sold[l]]]
  /\ balance' = Rebuilt(lot', {Source(s)})

UnmarkedSent(s, st) == [s EXCEPT !.status = "shipped"]     \* mutant: no stock flag
Sent(s, st) == [s EXCEPT !.status = IF st = "done" THEN "delivered" ELSE "shipped",
                         !.consumed = TRUE]

Dispatch(o, s, st, d) ==
  /\ ShipStock(o, s, d)
  /\ line' = DispatchedLines(s)
  /\ res' = Recomputed(res, line', {line[k].res : k \in Items(s) \ {Direct}})
  /\ public' = Published(res', line', balance', {Source(s)})
  /\ ship' = [ship EXCEPT ![o] = Sent(s, st)]

-----------------------------------------------------------------------------
(* receipt_inventory, and the positive _apply_inventory_delta: a lot with its *)
(* own place in the FIFO order.                                               *)
Receipt(w, q) ==
  /\ \E l \in LotsAt(NoWh) :
       lot' = [lot EXCEPT ![l] = [wh |-> w, received |-> q, remaining |-> q]]
  /\ balance' = Rebuilt(lot', {w})
  /\ public' = Published(res, line, balance', {w})
  /\ UNCHANGED <<reserved, released, shipped, docVars>>

(* A status change with no stock effect: update_order_state, _bulk_transition *)
(* and sync_order_state_side_effects.                                         *)
Reopen(o, st) ==
  /\ st \in {"new", "ready_for_pickup"}
  /\ order[o] # st
  /\ order' = [order EXCEPT ![o] = st]
  /\ UNCHANGED <<stockVars, res, line, ship, deal>>

(* Confirmation reserves what is available, at the warehouses that have most. *)
(* The only reservation it creates becomes the deal's primary one.            *)
Confirm(o) ==
  /\ order[o] # "confirmed"
  /\ order' = [order EXCEPT ![o] = "confirmed"]
  /\ \E g \in Greedy(Missing(o)) :
       /\ Reserve(o, g, Preference)
       /\ deal' = IF Cardinality(NewAt(o, g)) = 1
                  THEN [deal EXCEPT ![o].primary =
                          ResvFor(o, g, Preference, CHOOSE w \in NewAt(o, g) : TRUE)]
                  ELSE deal
  /\ UNCHANGED ship

(* The lots do not carry the reservation: ensure_order_reservations rolls     *)
(* back and its ValueError leaves the saved status behind.                    *)
ConfirmUnreserved(o) ==
  /\ order[o] # "confirmed"
  /\ \E g \in Greedy(Missing(o)) : Holds(g) = {}
  /\ order' = [order EXCEPT ![o] = "confirmed"]
  /\ UNCHANGED <<stockVars, res, line, ship, deal>>

(* Cancellation: release_order_reservations.                                  *)
Cancel(o) ==
  LET K == HoldingLines(res, line, o)
      R == ActiveResvs(res, o)
      W == {res[r].wh : r \in R}
  IN  /\ order[o] # "cancelled"
      /\ order' = [order EXCEPT ![o] = "cancelled"]
      /\ \E f \in Freed(o, K) : ~Clashes(o, f) /\ DropHolds(o, f)
      /\ line' = ReleasedLines(K)
      /\ res' = [r \in Resvs |-> IF r \in R THEN [res[r] EXCEPT !.status = "cancelled"]
                                            ELSE res[r]]
      /\ public' = Published(res', line', balance, W)
      /\ ClearPrimary(o, R)
      /\ UNCHANGED <<lot, shipped, balance, ship>>

(* The release of one line raises IntegrityError: the lines before it stay    *)
(* released, the reservations before its own stay cancelled, and the shop is  *)
(* not told.                                                                  *)
CancelInterrupted(o) ==
  LET K    == HoldingLines(res, line, o)
      D    == ReleasedBefore(o)
      done == {r \in ActiveResvs(res, o) :
                 \A k \in K \ D : line[k].res > r}
  IN  /\ order[o] # "cancelled"
      /\ ~CanRelease(o, K)
      /\ order' = [order EXCEPT ![o] = "cancelled"]
      /\ \E f \in Freed(o, D) : DropHolds(o, f)
      /\ line' = ReleasedLines(D)
      /\ res' = [r \in Resvs |-> IF r \in done THEN [res[r] EXCEPT !.status = "cancelled"]
                                               ELSE res[r]]
      /\ UNCHANGED <<lot, shipped, balance, public, ship, deal>>

(* Shipping or done: sync_order_workflow_state prepares the shipment and, on  *)
(* a change of status, dispatches it when it can be.  A dispatch that raises  *)
(* leaves the status and the prepared shipment.                               *)
Fulfil(o, st) ==
  LET s == ShipmentFor(o, NoRes, res, line, deal, st) IN
  /\ st \in {"shipping", "done"}
  /\ order[o] # st
  /\ order' = [order EXCEPT ![o] = st]
  /\ \/ /\ Dispatchable(s)
        /\ \E d \in Dispatches(o, s) : Dispatch(o, s, st, d)
     \/ /\ Dispatchable(s) => Dispatches(o, s) = {}
        /\ ship' = [ship EXCEPT ![o] = s]
        /\ UNCHANGED <<stockVars, res, line>>
  /\ UNCHANGED deal

UpdateOrderState(o, st) ==
  \/ Reopen(o, st)
  \/ st = "confirmed" /\ (Confirm(o) \/ ConfirmUnreserved(o))
  \/ st = "cancelled" /\ (Cancel(o) \/ CancelInterrupted(o))
  \/ Fulfil(o, st)

-----------------------------------------------------------------------------
(* dispatch_shipment, ship_shipment.                                          *)
DispatchShipment(o) ==
  /\ Dispatchable(ship[o])
  /\ \E d \in Dispatches(o, ship[o]) : Dispatch(o, ship[o], order[o], d)
  /\ UNCHANGED <<order, deal>>

(* mark_shipment_delivered, once per shipment.                                *)
MarkDelivered(o) ==
  /\ ship[o].status = "shipped"
  /\ ship' = [ship EXCEPT ![o].status = "delivered"]
  /\ UNCHANGED <<stockVars, res, line, order, deal>>

(* cancel_shipment: the shipment's reservation gives up the lines shipped.    *)
CancelShipment(o) ==
  LET s == ship[o]
      K == {k \in Items(s) \ {Direct} : line[k].res = s.res}
  IN  /\ s.status = "pending"
      /\ ~s.consumed
      /\ ship' = [ship EXCEPT ![o].status = "cancelled"]
      /\ \E f \in Freed(o, K) : ~Clashes(o, f) /\ DropHolds(o, f)
      /\ line' = ReleasedLines(K)
      /\ res' = IF K = {} THEN res ELSE Recomputed(res, line', {s.res})
      /\ public' = IF s.res = NoRes THEN public
                   ELSE Published(res', line', balance, {res[s.res].wh})
      /\ UNCHANGED <<lot, shipped, balance, order, deal>>

-----------------------------------------------------------------------------
(* The strict reservation of a deal: all that the order lacks, at the deal's  *)
(* warehouse when it has one.  There the availability check compares the      *)
(* quantity with itself, so only the lots can refuse it.                      *)
StrictSplits(o) ==
  IF deal[o].wh # NoWh THEN AllAt(deal[o].wh, Missing(o))
  ELSE {g \in Greedy(Missing(o)) : SumFunction(g) = Missing(o)}
StrictRefused(o) == \A g \in StrictSplits(o) : Holds(g) = {}
Prepared(o) == ActiveResvs(res, o) # {} /\ Covered(o)

(* The deal's columns after its reservations became rs: a single warehouse    *)
(* becomes the deal's, p is its primary reservation so far.                   *)
DealWith(rs, o, p) ==
  LET W == {rs[r].wh : r \in ActiveResvs(rs, o)} IN
  [wh      |-> IF Cardinality(W) = 1 THEN CHOOSE w \in W : TRUE ELSE deal[o].wh,
   primary |-> DealPrimary(rs, o, p)]

ReserveStrictly(o) ==
  \E g \in StrictSplits(o) :
    /\ Reserve(o, g, Preference)
    /\ LET sole == deal[o].wh = NoWh /\ Cardinality(NewAt(o, g)) = 1
           p    == IF sole THEN ResvFor(o, g, Preference, CHOOSE w \in NewAt(o, g) : TRUE)
                           ELSE deal[o].primary
       IN  deal' = [deal EXCEPT ![o] = DealWith(res', o, p)]

KeepPrimary(o) ==
  deal' = [deal EXCEPT ![o].primary = DealPrimary(res, o, @)]

(* A deal that sells from stock reserves its order while it is created.       *)
ReserveOnCreation(o) ==
  /\ deal[o].wh # NoWh
  /\ order[o] = "new"
  /\ ship[o].status = "none"
  /\ \A r \in Resvs : res[r].order # o
  /\ \E g \in AllAt(deal[o].wh, Missing(o)) :
       /\ Reserve(o, g, {})
       /\ deal' = [deal EXCEPT ![o].primary = ResvFor(o, g, {}, deal[o].wh)]
  /\ UNCHANGED <<ship, order>>

(* reserve_order_item_for_manager_deal.                                       *)
ReserveOrderItem(o, w, q) ==
  /\ q =< Missing(o)
  /\ q =< Free(w)
  /\ \E g \in AllAt(w, q) : Reserve(o, g, {})
  /\ deal' = [deal EXCEPT ![o] = DealWith(res', o, @.primary)]
  /\ UNCHANGED <<ship, order>>

(* ensure_shipment_for_manager_deal.  A cancelled shipment does not count,    *)
(* yet get_or_create(order=order) finds it again.                             *)
HasShipment(o) == ship[o].status \notin {"none", "cancelled"}
PrimaryIfSole(rs, o, p) ==
  IF Cardinality(ActiveResvs(rs, o)) = 1 THEN DealPrimary(rs, o, p) ELSE NoRes

RefreshShipment(o) ==
  /\ HasShipment(o)
  /\ ship' = [ship EXCEPT ![o] = ShipmentFor(o, NoRes, res, line, deal, order[o])]
  /\ UNCHANGED <<stockVars, res, line, deal>>

OpenShipment(o) ==
  /\ ~HasShipment(o)
  /\ \/ /\ Prepared(o)
        /\ KeepPrimary(o)
        /\ UNCHANGED <<stockVars, res, line>>
        /\ ship' = [ship EXCEPT ![o] =
             ShipmentFor(o, PrimaryIfSole(res, o, deal[o].primary), res, line, deal, order[o])]
     \/ /\ ~Prepared(o)
        /\ ReserveStrictly(o)
        /\ ship' = [ship EXCEPT ![o] =
             ShipmentFor(o, PrimaryIfSole(res', o, deal'[o].primary), res', line', deal', order[o])]
     \/ /\ ~Prepared(o)
        /\ StrictRefused(o)
        /\ ship' = [ship EXCEPT ![o] =
             ShipmentFor(o, DealPrimary(res, o, deal[o].primary), res, line, deal, order[o])]
        /\ UNCHANGED <<stockVars, res, line, deal>>

EnsureShipment(o) == (RefreshShipment(o) \/ OpenShipment(o)) /\ UNCHANGED order

-----------------------------------------------------------------------------
(* A warehouse and an order desk that leave reserving to the confirmation of  *)
(* orders, and the same with the managers' requests on deals.                 *)
OrderDeskNext ==
  \/ \E w \in Warehouses, q \in 1..MaxQty : Receipt(w, q)
  \/ \E o \in Orders, st \in Targets : UpdateOrderState(o, st)
  \/ \E o \in Orders : DispatchShipment(o) \/ MarkDelivered(o) \/ CancelShipment(o)

DealDeskNext ==
  \/ OrderDeskNext
  \/ \E o \in Orders : ReserveOnCreation(o) \/ EnsureShipment(o)
  \/ \E o \in Orders, w \in Warehouses, q \in 1..MaxQty : ReserveOrderItem(o, w, q)

OrderDeskSpec == Init /\ [][OrderDeskNext]_vars
Spec == Init /\ [][DealDeskNext]_vars
-----------------------------------------------------------------------------
(* Every column has its type: no lot, allocation or line count drops below 0.  *)
TypeOK == StockTypeOK /\ DocsTypeOK

(* A lot never gives more than it received, and every unit that left a lot is  *)
(* booked on the order line it was sold to: the stock a behaviour of dispatches*)
(* consumed is the stock its orders received, lot by lot.                      *)
UnitsAccountedFor ==
  \A l \in Lots : lot[l].received - lot[l].remaining = SumFunction([o \in Orders |-> shipped[o][l]])

(* InventoryBalance is a faithful cache of the lots after every request, also  *)
(* after one that failed half way.                                             *)
BalanceIsTotal == \A w \in Warehouses : balance[w] = OnHand(w)

(* Holds on lots have a document: an order never keeps more units of a         *)
(* warehouse's lots reserved than its active reservation lines there say,      *)
(* whichever of confirm, ship, cancel and interrupted cancel came before.      *)
HoldsAreDocumented ==
  \A o \in Orders, w \in Warehouses :
    HeldAt(o, w) =< SumActive(line, {k \in HoldingLines(res, line, o) :
                                       line[k].linked /\ res[line[k].res].wh = w})

(* A reservation that is no longer active holds nothing back: all its lines    *)
(* are fulfilled or released.  Otherwise stock would stay out of sale, or be   *)
(* sold twice after a re-activation.                                           *)
ClosedReservationsAreEmpty ==
  \A k \in Lines : line[k].res # NoRes =>
    \/ res[line[k].res].status \in ActiveStatuses
    \/ line[k].ful + line[k].rel = line[k].qty

(* Fulfilled and released units of a reservation line never exceed it: the     *)
(* dispatch, the cancellation of its shipment and the cancellation of its      *)
(* order each take their part of the line only once.                           *)
LinesWithinQuantity == \A k \in Lines : line[k].ful + line[k].rel =< line[k].qty

(* Stock effects and the status of a shipment agree: consumed exactly when it  *)
(* was sent, never for a cancelled one, and what the reservation lines count   *)
(* as fulfilled never exceeds what was booked on the order.                    *)
ShipmentsMatchStock ==
  \A o \in Orders :
    /\ ship[o].consumed <=> ship[o].status \in {"shipped", "delivered"}
    /\ ship[o].consumed => OrderUnits(ship[o]) =< Shipped(o)
    /\ ~ship[o].consumed => Shipped(o) = 0

(* A cancelled order holds nothing back, whatever was confirmed, released and  *)
(* confirmed again before (docs/MANAGER_PORTAL.md: cancelling releases).       *)
CancelledOrderHoldsNoStock ==
  \A o \in Orders : order[o] = "cancelled" => \A l \in Lots : reserved[o][l] = 0

(* However often an order is confirmed, and whichever requests reserve for it  *)
(* on its deal, its reservations together never promise more than its line.    *)
PromisedWithinOrder == \A o \in Orders : ReservedFor(o) =< Ordered[o]

(* Once its stock effect is booked, a shipment is never cancelled, sent again  *)
(* or emptied: its items and its source stay what was taken from the lots.     *)
KeepsItsStock(o) ==
  /\ ship'[o].consumed
  /\ ship'[o].items = ship[o].items
  /\ ship'[o].wh = ship[o].wh
  /\ shipped'[o] = shipped[o]
KeepConsumed == \A o \in Orders : ship[o].consumed => KeepsItsStock(o)
ConsumedShipmentsAreFinal == [][KeepConsumed]_vars

(* A request that is not cut short tells the shop: a warehouse whose           *)
(* availability changed is published with its new availability.                *)
CompletedRequestsPublish ==
  [][(\A o \in Orders : ~CancelInterrupted(o)) =>
       \A w \in Warehouses :
         \/ public'[w] = NonNeg(balance'[w] - Promised(res', line', w))
         \/ public'[w] = public[w] /\ balance'[w] - Promised(res', line', w) = Free(w)]_vars

(* Reserving never promises what is not there: a request that raises the units *)
(* promised at a warehouse leaves them covered by its balance.                 *)
ReservingIsCovered ==
  [][\A w \in Warehouses :
       Promised(res', line', w) > Promised(res, line, w) =>
         Promised(res', line', w) =< balance'[w]]_vars
=============================================================================
