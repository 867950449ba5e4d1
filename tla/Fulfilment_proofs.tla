------------------------- MODULE Fulfilment_proofs -------------------------
(* What TLAPS proves of Fulfilment for every finite number of orders,        *)
(* warehouses, lots, reservations and lines.  First what needs no sum: the   *)
(* columns keep their types, a reservation that is closed is empty and none  *)
(* of its lines is overdrawn, a booked shipment is final.  Then sums over    *)
(* finite sets, and with them that lots, holds, cached balances, reservation *)
(* lines and shipments agree with each other after every request (DeskInv),  *)
(* that the shop is told, and that the order desk promises only what is      *)
(* free.                                                                     *)
EXTENDS Fulfilment, FiniteSetTheorems, WellFoundedInduction, TLAPS

(* A non-empty set of naturals has a least element.                          *)
LEMMA LeastNat ==
  ASSUME NEW S \in SUBSET Nat, S # {}
  PROVE  \E x \in S : \A y \in S : x =< y
<1>1. IsWellFoundedOn(OpToRel(<, Nat), Nat)
  BY NatLessThanWellFounded
<1>2. PICK x \in S : \A y \in S : ~ (<<y, x>> \in OpToRel(<, Nat))
  BY <1>1, WFMin, Zenon
<1>3. \A y \in S : ~(y < x)
  <2> TAKE y \in S
  <2> y \in Nat /\ x \in Nat
    OBVIOUS
  <2> QED
    BY <1>2, Zenon DEF OpToRel
<1> QED
  BY <1>3

(* The first and the last reservation of a non-empty set are members of it.  *)
LEMMA FirstOfType ==
  ASSUME NEW S \in SUBSET Resvs, S # {}
  PROVE  FirstOf(S) \in S
<1>1. S \in SUBSET Nat
  BY FulfilmentAssumption DEF Resvs
<1> QED
  BY <1>1, LeastNat, Zenon DEF FirstOf

LEMMA LastOfType ==
  ASSUME NEW S \in SUBSET Resvs, S # {}
  PROVE  LastOf(S) \in S
<1> DEFINE T == {d \in Nat : MaxResvs - d \in S}
<1>1. S \in SUBSET Nat /\ MaxResvs \in Nat /\ \A x \in S : x =< MaxResvs
  BY FulfilmentAssumption DEF Resvs
<1>2. ASSUME NEW x \in S
      PROVE  MaxResvs - x \in T
  <2>1. MaxResvs - x \in Nat /\ MaxResvs - (MaxResvs - x) = x
    BY <1>1
  <2> QED
    BY <2>1
<1>3. PICK d \in T : \A e \in T : d =< e
  BY <1>2, LeastNat, Zenon
<1>4. \A y \in S : y =< MaxResvs - d
  BY <1>1, <1>2, <1>3
<1>5. MaxResvs - d \in S
  BY <1>3
<1> QED
  BY <1>4, <1>5, Zenon DEF LastOf

-----------------------------------------------------------------------------
(* What is taken from the lots is bounded by what they offer.                *)
LEMMA FifoBound ==
  ASSUME NEW avail, NEW S, NEW q, NEW t \in Fifo(avail, S, q)
  PROVE  /\ t \in [Lots -> 0..MaxQty]
         /\ \A l \in Lots : t[l] > 0 => t[l] =< avail[l]
BY DEF Fifo

LEMMA TakeAcrossBound ==
  ASSUME StockTypeOK, NEW avail \in [Lots -> Nat], NEW need,
         NEW t \in TakeAcross(avail, need)
  PROVE  /\ t \in [Lots -> Nat]
         /\ \A l \in Lots : t[l] =< avail[l]
<1>1. t \in [Lots -> 0..MaxQty]
  BY DEF TakeAcross
<1>2. MaxQty \in Nat
  BY StockAssumption
<1>3. ASSUME NEW l \in Lots, t[l] > 0
      PROVE  t[l] =< avail[l]
  <2>1. lot[l].wh \in Warehouses
    BY <1>3 DEF TakeAcross, LotsAt, StockTypeOK
  <2> DEFINE u == [m \in Lots |-> IF lot[m].wh = lot[l].wh THEN t[m] ELSE 0]
  <2>2. u \in Fifo(avail, LotsAt(lot[l].wh), need[lot[l].wh])
    BY <2>1 DEF TakeAcross
  <2>3. u[l] = t[l]
    OBVIOUS
  <2> HIDE DEF u
  <2> QED
    BY <1>3, <2>2, <2>3, FifoBound
<1> QED
  BY <1>1, <1>2, <1>3

(* The tables are finite, and so are the rows in use.                        *)
LEMMA UsedResvsFinite ==
  /\ IsFiniteSet(UsedResvs) /\ Cardinality(UsedResvs) \in Nat
  /\ IsFiniteSet(UsedLines) /\ Cardinality(UsedLines) \in Nat
<1>1. MaxResvs \in Int /\ MaxLines \in Int
  BY FulfilmentAssumption
<1>2. IsFiniteSet(Resvs) /\ IsFiniteSet(Lines)
  BY <1>1, FS_Interval DEF Resvs, Lines
<1>3. UsedResvs \in SUBSET Resvs /\ UsedLines \in SUBSET Lines
  BY DEF UsedResvs, UsedLines
<1>4. IsFiniteSet(UsedResvs) /\ IsFiniteSet(UsedLines)
  BY <1>2, <1>3, FS_Subset
<1> QED
  BY <1>4, FS_CardinalityType

LEMMA SubsetCount ==
  ASSUME NEW S \in SUBSET Warehouses, NEW T \in SUBSET S
  PROVE  /\ Cardinality(S) \in Nat
         /\ Cardinality(T) \in 0..Cardinality(S)
<1>1. NumWarehouses \in Int
  BY StockAssumption
<1>2. IsFiniteSet(Warehouses)
  BY <1>1, FS_Interval DEF Warehouses
<1>3. IsFiniteSet(S)
  BY <1>2, FS_Subset
<1>4. IsFiniteSet(T) /\ Cardinality(T) =< Cardinality(S)
  BY <1>3, FS_Subset
<1> QED
  BY <1>3, <1>4, FS_CardinalityType

(* A new or an existing reservation has a number of its own table; NoRes     *)
(* stands for "none" where the warehouse asks for no units.                  *)
LEMMA ResvForType ==
  ASSUME NEW o, NEW g, NEW pref, NEW w, RoomFor(o, g)
  PROVE  ResvFor(o, g, pref, w) \in Resvs \cup {NoRes}
<1>1. CASE Existing(o, w) # {}
  <2>1. Existing(o, w) \in SUBSET Resvs
    BY DEF Existing, ActiveResvs
  <2> QED
    BY <1>1, <2>1, LastOfType DEF ResvFor
<1>2. CASE Existing(o, w) = {}
  <2> DEFINE S == NewAt(o, g)
             T == {v \in S : v = w \/ <<v, w>> \in pref}
  <2>1. S \in SUBSET Warehouses /\ T \in SUBSET S
    BY DEF NewAt, Wanted
  <2>2. Cardinality(S) \in Nat /\ Cardinality(T) \in 0..Cardinality(S)
    BY <2>1, SubsetCount
  <2>3. ResvFor(o, g, pref, w) = Cardinality(UsedResvs) + Cardinality(T)
    BY <1>2 DEF ResvFor
  <2>4. Cardinality(UsedResvs) + Cardinality(S) =< MaxResvs
    BY DEF RoomFor
  <2> HIDE DEF S, T
  <2>5. Cardinality(UsedResvs) + Cardinality(T) \in 0..MaxResvs
    BY <2>2, <2>4, UsedResvsFinite, FulfilmentAssumption
  <2> QED
    BY <2>3, <2>5, FulfilmentAssumption DEF Resvs, NoRes
<1> QED
  BY <1>1, <1>2

-----------------------------------------------------------------------------
(* The types of what the actions compute.                                    *)
LEMMA ActiveType ==
  ASSUME NEW it \in ReservationItem
  PROVE  Active(it) \in Nat
<1>1. it.qty \in Nat /\ it.ful \in Nat /\ it.rel \in Nat
  BY DEF ReservationItem
<1> QED
  BY <1>1 DEF Active, NonNeg

LEMMA RecomputedType ==
  ASSUME NEW rs \in [Resvs -> Reservation], NEW ln, NEW R
  PROVE  Recomputed(rs, ln, R) \in [Resvs -> Reservation]
<1>1. ASSUME NEW r \in Resvs
      PROVE  [rs[r] EXCEPT !.status = StatusOf(ln, r, @)] \in Reservation
  <2>1. rs[r] \in Reservation
    OBVIOUS
  <2>2. StatusOf(ln, r, rs[r].status) \in ResvStatuses \cup {"none"}
    BY <2>1 DEF StatusOf, Reservation, ResvStatuses, ActiveStatuses
  <2> QED
    BY <2>1, <2>2 DEF Reservation
<1> QED
  BY <1>1 DEF Recomputed

LEMMA ReservedRowsType ==
  ASSUME TypeOK, NEW o \in Orders, NEW g, NEW pref
  PROVE  ReservedRows(o, g, pref) \in [Resvs -> Reservation]
<1> SUFFICES ASSUME NEW r \in Resvs
             PROVE  ReservedRows(o, g, pref)[r] \in Reservation
  BY DEF ReservedRows
<1>1. CASE \E w \in NewAt(o, g) : ResvFor(o, g, pref, w) = r
  <2> DEFINE w == CHOOSE v \in NewAt(o, g) : ResvFor(o, g, pref, v) = r
  <2>1. w \in Warehouses
    BY <1>1 DEF NewAt, Wanted
  <2>2. ReservedRows(o, g, pref)[r] = [status |-> "active", order |-> o, wh |-> w]
    BY <1>1 DEF ReservedRows
  <2> HIDE DEF w
  <2> QED
    BY <2>1, <2>2 DEF Reservation, ResvStatuses, ActiveStatuses
<1>2. CASE ~ \E w \in NewAt(o, g) : ResvFor(o, g, pref, w) = r
  BY <1>2 DEF ReservedRows, TypeOK, DocsTypeOK
<1> QED
  BY <1>1, <1>2

LEMMA ReservedLinesType ==
  ASSUME TypeOK, NEW o, NEW g \in [Warehouses -> 0..MaxQty], NEW pref, RoomFor(o, g)
  PROVE  ReservedLines(o, g, pref) \in [Lines -> ReservationItem]
<1> SUFFICES ASSUME NEW k \in Lines
             PROVE  ReservedLines(o, g, pref)[k] \in ReservationItem
  BY DEF ReservedLines
<1>1. CASE \E w \in Wanted(g) : LineFor(g, pref, w) = k
  <2> DEFINE w == CHOOSE v \in Wanted(g) : LineFor(g, pref, v) = k
  <2>1. w \in Warehouses
    BY <1>1 DEF Wanted
  <2>2. ReservedLines(o, g, pref)[k] =
          [res |-> ResvFor(o, g, pref, w), linked |-> TRUE, qty |-> g[w], ful |-> 0, rel |-> 0]
    BY <1>1 DEF ReservedLines
  <2> HIDE DEF w
  <2>3. ResvFor(o, g, pref, w) \in Resvs \cup {NoRes}
    BY ResvForType
  <2>4. g[w] \in Nat
    BY <2>1, StockAssumption
  <2> QED
    BY <2>2, <2>3, <2>4 DEF ReservationItem
<1>2. CASE ~ \E w \in Wanted(g) : LineFor(g, pref, w) = k
  BY <1>2 DEF ReservedLines, TypeOK, DocsTypeOK
<1> QED
  BY <1>1, <1>2

LEMMA ReserveType ==
  ASSUME TypeOK, NEW o \in Orders, NEW g \in [Warehouses -> 0..MaxQty], NEW pref,
         Reserve(o, g, pref)
  PROVE  /\ StockTypeOK'
         /\ res' \in [Resvs -> Reservation]
         /\ line' \in [Lines -> ReservationItem]
<1>1. reserved' \in [Orders -> [Lots -> Nat]]
  <2>1. PICK h \in Holds(g) :
          reserved' = [reserved EXCEPT ![o] = [l \in Lots |-> @[l] + h[l]]]
    BY DEF Reserve
  <2>2. h \in [Lots -> Nat]
    BY <2>1, StockAssumption DEF Holds, TakeAcross
  <2> QED
    BY <2>1, <2>2 DEF TypeOK, StockTypeOK
<1>2. StockTypeOK'
  BY <1>1 DEF Reserve, TypeOK, StockTypeOK
<1>3. line' \in [Lines -> ReservationItem]
  BY ReservedLinesType DEF Reserve
<1>4. res' \in [Resvs -> Reservation]
  <2>1. ReservedRows(o, g, pref) \in [Resvs -> Reservation]
    BY ReservedRowsType
  <2> QED
    BY <2>1, RecomputedType DEF Reserve
<1> QED
  BY <1>2, <1>3, <1>4

LEMMA DropHoldsType ==
  ASSUME StockTypeOK, NEW o \in Orders, NEW f \in [Lots -> Nat],
         \A l \in Lots : f[l] =< reserved[o][l],
         DropHolds(o, f)
  PROVE  /\ reserved' \in [Orders -> [Lots -> Nat]]
         /\ released' \in [Orders -> SUBSET Lots]
<1>1. [l \in Lots |-> reserved[o][l] - f[l]] \in [Lots -> Nat]
  BY DEF StockTypeOK
<1>2. Emptied(o, f) \in SUBSET Lots
  BY DEF Emptied
<1> QED
  BY <1>1, <1>2 DEF DropHolds, StockTypeOK

LEMMA FreedBound ==
  ASSUME StockTypeOK, NEW o \in Orders, NEW K, NEW f \in Freed(o, K)
  PROVE  f \in [Lots -> Nat] /\ \A l \in Lots : f[l] =< reserved[o][l]
<1>1. reserved[o] \in [Lots -> Nat]
  BY DEF StockTypeOK
<1> QED
  BY <1>1, TakeAcrossBound DEF Freed

LEMMA ReleasedLinesType ==
  ASSUME TypeOK, NEW K
  PROVE  ReleasedLines(K) \in [Lines -> ReservationItem]
<1>1. ASSUME NEW k \in Lines
      PROVE  [line[k] EXCEPT !.rel = @ + Active(line[k])] \in ReservationItem
  <2>1. line[k] \in ReservationItem
    BY DEF TypeOK, DocsTypeOK
  <2>2. Active(line[k]) \in Nat
    BY <2>1, ActiveType
  <2> QED
    BY <2>1, <2>2 DEF ReservationItem
<1> QED
  BY <1>1 DEF ReleasedLines, TypeOK, DocsTypeOK

LEMMA DealPrimaryType ==
  ASSUME NEW rs, NEW o, NEW p \in Resvs \cup {NoRes}
  PROVE  DealPrimary(rs, o, p) \in Resvs \cup {NoRes}
<1>1. ActiveResvs(rs, o) \in SUBSET Resvs
  BY DEF ActiveResvs
<1> QED
  BY <1>1, FirstOfType DEF DealPrimary

LEMMA SoleActiveType ==
  ASSUME NEW rs, NEW o
  PROVE  SoleActive(rs, o) \in Resvs \cup {NoRes}
<1>1. ActiveResvs(rs, o) \in SUBSET Resvs
  BY DEF ActiveResvs
<1>2. Cardinality(ActiveResvs(rs, o)) = 1 => ActiveResvs(rs, o) # {}
  BY FS_EmptySet
<1> QED
  BY <1>1, <1>2, FirstOfType DEF SoleActive

LEMMA ShipmentForType ==
  ASSUME TypeOK, NEW o \in Orders, NEW r0 \in Resvs \cup {NoRes},
         NEW rs \in [Resvs -> Reservation], NEW ln \in [Lines -> ReservationItem],
         NEW dl \in [Orders -> [wh : Warehouses \cup {NoWh}, primary : Resvs \cup {NoRes}]],
         NEW st
  PROVE  ShipmentFor(o, r0, rs, ln, dl, st) \in Shipment
<1> DEFINE old == ship[o]
           r   == IF r0 # NoRes THEN r0 ELSE SoleActive(rs, o)
           src == IF r # NoRes THEN rs[r].wh ELSE dl[o].wh
           all == [k \in Lines \cup {Direct} |->
                     IF k # Direct /\ k \in LinesOf(ln, r) THEN Active(ln[k]) ELSE 0]
           dir == [NoItems EXCEPT ![Direct] = Unshipped(o)]
<1>1. old \in Shipment
  BY DEF TypeOK, DocsTypeOK
<1>2. r \in Resvs \cup {NoRes}
  BY SoleActiveType
<1>3. src \in Warehouses \cup {NoWh}
  BY <1>2 DEF Reservation
<1>4. all \in [Lines \cup {Direct} -> Nat]
  BY ActiveType DEF LinesOf
<1>5. dir \in [Lines \cup {Direct} -> Nat]
  <2>1. Unshipped(o) \in Nat
    BY StockAssumption DEF Unshipped
  <2> QED
    BY <2>1 DEF NoItems
<1>6. CASE old.consumed
  BY <1>1, <1>6 DEF ShipmentFor, Shipment, ShipStatuses
<1>7. CASE ~old.consumed
  <2>1. ShipmentFor(o, r0, rs, ln, dl, st) =
          [status   |-> IF old.status = "cancelled" THEN "cancelled" ELSE "pending",
           res      |-> IF r # NoRes THEN r ELSE old.res,
           wh       |-> IF src # NoWh THEN src ELSE old.wh,
           consumed |-> FALSE,
           items    |-> IF r # NoRes THEN all ELSE dir]
    BY <1>7 DEF ShipmentFor
  <2> HIDE DEF r, src, all, dir
  <2> QED
    BY <2>1, <1>1, <1>2, <1>3, <1>4, <1>5 DEF Shipment, ShipStatuses
<1> QED
  BY <1>6, <1>7

LEMMA DispatchType ==
  ASSUME TypeOK, NEW o \in Orders, NEW s \in Shipment, NEW st,
         NEW d \in Dispatches(o, s), Dispatch(o, s, st, d)
  PROVE  /\ StockTypeOK'
         /\ res' \in [Resvs -> Reservation]
         /\ line' \in [Lines -> ReservationItem]
         /\ ship' \in [Orders -> Shipment]
<1>1. /\ d.freed \in [Lots -> 0..MaxQty]
      /\ \A l \in Lots : d.freed[l] > 0 => d.freed[l] =< reserved[o][l]
      /\ d.taken \in [Lots -> 0..MaxQty]
      /\ \A l \in Lots : d.taken[l] > 0 => d.taken[l] =< Remaining[l]
      /\ d.sold \in [Lots -> 0..MaxQty]
  BY FifoBound DEF Dispatches
<1>2. reserved' \in [Orders -> [Lots -> Nat]] /\ released' \in [Orders -> SUBSET Lots]
  <2>1. d.freed \in [Lots -> Nat] /\ \A l \in Lots : d.freed[l] =< reserved[o][l]
    BY <1>1, StockAssumption DEF TypeOK, StockTypeOK
  <2> QED
    BY <2>1, DropHoldsType DEF Dispatch, ShipStock, TypeOK
<1>3. lot' \in [Lots -> [wh : Warehouses \cup {NoWh}, received : Nat, remaining : Nat]]
  <2>1. ASSUME NEW l \in Lots
        PROVE  lot[l].remaining - d.taken[l] \in Nat
    <3>1. lot[l].remaining \in Nat /\ Remaining[l] = lot[l].remaining
      BY DEF TypeOK, StockTypeOK, Remaining
    <3>2. d.taken[l] \in Nat
      BY <1>1, StockAssumption
    <3> QED
      BY <1>1, <3>1, <3>2
  <2> QED
    BY <2>1 DEF Dispatch, ShipStock, TypeOK, StockTypeOK
<1>4. shipped' \in [Orders -> [Lots -> Nat]]
  BY <1>1, StockAssumption DEF Dispatch, ShipStock, TypeOK, StockTypeOK
<1>5. line' \in [Lines -> ReservationItem]
  <2>1. \A k \in Lines : line[k] \in ReservationItem /\ s.items[k] \in Nat
    BY DEF TypeOK, DocsTypeOK, Shipment
  <2>2. \A k \in Lines : [line[k] EXCEPT !.ful = @ + s.items[k]] \in ReservationItem
    BY <2>1 DEF ReservationItem
  <2> QED
    BY <2>2 DEF Dispatch, DispatchedLines
<1>6. res' \in [Resvs -> Reservation]
  BY RecomputedType DEF Dispatch, TypeOK, DocsTypeOK
<1>7. ship' \in [Orders -> Shipment]
  BY DEF Dispatch, Sent, TypeOK, DocsTypeOK, Shipment, ShipStatuses
<1> QED
  BY <1>2, <1>3, <1>4, <1>5, <1>6, <1>7 DEF StockTypeOK

-----------------------------------------------------------------------------
(* Each action keeps the types.                                              *)
LEMMA ReceiptType ==
  ASSUME TypeOK, NEW w \in Warehouses, NEW q \in 1..MaxQty, Receipt(w, q)
  PROVE  TypeOK'
<1>1. PICK l \in LotsAt(NoWh) :
        lot' = [lot EXCEPT ![l] = [wh |-> w, received |-> q, remaining |-> q]]
  BY DEF Receipt
<1>2. q \in Nat
  BY StockAssumption
<1> QED
  BY <1>1, <1>2 DEF Receipt, TypeOK, StockTypeOK, DocsTypeOK, docVars

LEMMA ReopenType ==
  ASSUME TypeOK, NEW o \in Orders, NEW st, Reopen(o, st)
  PROVE  TypeOK'
BY DEF Reopen, TypeOK, StockTypeOK, DocsTypeOK, stockVars, OrderStatuses

LEMMA GreedyType ==
  ASSUME NEW q, NEW g \in Greedy(q)
  PROVE  g \in [Warehouses -> 0..MaxQty]
BY DEF Greedy

LEMMA ConfirmType ==
  ASSUME TypeOK, NEW o \in Orders, Confirm(o)
  PROVE  TypeOK'
<1>1. PICK g \in Greedy(Missing(o)) :
        /\ Reserve(o, g, Preference)
        /\ deal' = IF Cardinality(NewAt(o, g)) = 1
                   THEN [deal EXCEPT ![o].primary =
                           ResvFor(o, g, Preference, CHOOSE w \in NewAt(o, g) : TRUE)]
                   ELSE deal
  BY DEF Confirm
<1>2. /\ StockTypeOK'
      /\ res' \in [Resvs -> Reservation]
      /\ line' \in [Lines -> ReservationItem]
  BY <1>1, GreedyType, ReserveType
<1>3. ResvFor(o, g, Preference, CHOOSE w \in NewAt(o, g) : TRUE) \in Resvs \cup {NoRes}
  BY <1>1, ResvForType DEF Reserve
<1>4. deal' \in [Orders -> [wh : Warehouses \cup {NoWh}, primary : Resvs \cup {NoRes}]]
  BY <1>1, <1>3 DEF TypeOK, DocsTypeOK
<1>5. order' \in [Orders -> OrderStatuses] /\ ship' \in [Orders -> Shipment]
  BY DEF Confirm, TypeOK, DocsTypeOK, OrderStatuses
<1> QED
  BY <1>2, <1>4, <1>5 DEF TypeOK, DocsTypeOK

LEMMA ConfirmUnreservedType ==
  ASSUME TypeOK, NEW o \in Orders, ConfirmUnreserved(o)
  PROVE  TypeOK'
BY DEF ConfirmUnreserved, TypeOK, StockTypeOK, DocsTypeOK, stockVars, OrderStatuses

(* A reservation row whose status is set to "cancelled" keeps its type.      *)
LEMMA CancelledType ==
  ASSUME TypeOK, NEW R
  PROVE  [r \in Resvs |-> IF r \in R THEN [res[r] EXCEPT !.status = "cancelled"]
                                     ELSE res[r]] \in [Resvs -> Reservation]
BY DEF TypeOK, DocsTypeOK, Reservation, ResvStatuses

LEMMA CancelType ==
  ASSUME TypeOK, NEW o \in Orders, Cancel(o)
  PROVE  TypeOK'
<1> DEFINE K == HoldingLines(res, line, o)
<1>1. PICK f \in Freed(o, K) : DropHolds(o, f)
  BY DEF Cancel
<1>2. StockTypeOK'
  BY <1>1, FreedBound, DropHoldsType DEF Cancel, TypeOK, StockTypeOK
<1>3. line' \in [Lines -> ReservationItem]
  BY ReleasedLinesType DEF Cancel
<1>4. res' \in [Resvs -> Reservation]
  BY CancelledType DEF Cancel
<1>5. /\ order' \in [Orders -> OrderStatuses]
      /\ ship' \in [Orders -> Shipment]
      /\ deal' \in [Orders -> [wh : Warehouses \cup {NoWh}, primary : Resvs \cup {NoRes}]]
  BY DEF Cancel, ClearPrimary, TypeOK, DocsTypeOK, OrderStatuses
<1> QED
  BY <1>2, <1>3, <1>4, <1>5 DEF TypeOK, DocsTypeOK

LEMMA CancelInterruptedType ==
  ASSUME TypeOK, NEW o \in Orders, CancelInterrupted(o)
  PROVE  TypeOK'
<1>1. PICK f \in Freed(o, ReleasedBefore(o)) : DropHolds(o, f)
  BY DEF CancelInterrupted
<1>2. StockTypeOK'
  BY <1>1, FreedBound, DropHoldsType DEF CancelInterrupted, TypeOK, StockTypeOK
<1>3. line' \in [Lines -> ReservationItem]
  BY ReleasedLinesType DEF CancelInterrupted
<1>4. res' \in [Resvs -> Reservation]
  BY CancelledType DEF CancelInterrupted
<1> QED
  BY <1>2, <1>3, <1>4 DEF CancelInterrupted, TypeOK, DocsTypeOK, OrderStatuses

LEMMA FulfilType ==
  ASSUME TypeOK, NEW o \in Orders, NEW st, Fulfil(o, st)
  PROVE  TypeOK'
<1> DEFINE s == ShipmentFor(o, NoRes, res, line, deal, st)
<1>1. s \in Shipment
  BY ShipmentForType DEF TypeOK, DocsTypeOK
<1> HIDE DEF s
<1>2. order' \in [Orders -> OrderStatuses] /\ deal' = deal
  BY DEF Fulfil, TypeOK, DocsTypeOK, OrderStatuses
<1>3. CASE \E d \in Dispatches(o, s) : Dispatch(o, s, st, d)
  BY <1>1, <1>2, <1>3, DispatchType DEF TypeOK, DocsTypeOK
<1>4. CASE ship' = [ship EXCEPT ![o] = s] /\ UNCHANGED <<stockVars, res, line>>
  BY <1>1, <1>2, <1>4 DEF TypeOK, StockTypeOK, DocsTypeOK, stockVars
<1> QED
  BY <1>3, <1>4 DEF Fulfil, s

LEMMA DispatchShipmentType ==
  ASSUME TypeOK, NEW o \in Orders, DispatchShipment(o)
  PROVE  TypeOK'
<1>1. ship[o] \in Shipment
  BY DEF TypeOK, DocsTypeOK
<1> QED
  BY <1>1, DispatchType DEF DispatchShipment, TypeOK, DocsTypeOK

LEMMA ShipStatusType ==
  ASSUME TypeOK, NEW o \in Orders, NEW st \in ShipStatuses
  PROVE  [ship EXCEPT ![o].status = st] \in [Orders -> Shipment]
<1>1. ship \in [Orders -> Shipment] /\ ship[o] \in Shipment
  BY DEF TypeOK, DocsTypeOK
<1>2. [ship[o] EXCEPT !.status = st] \in Shipment
  BY <1>1 DEF Shipment
<1> QED
  BY <1>1, <1>2

LEMMA MarkDeliveredType ==
  ASSUME TypeOK, NEW o \in Orders, MarkDelivered(o)
  PROVE  TypeOK'
<1>1. ship' \in [Orders -> Shipment]
  BY ShipStatusType DEF MarkDelivered, ShipStatuses
<1> QED
  BY <1>1 DEF MarkDelivered, TypeOK, StockTypeOK, DocsTypeOK, stockVars

LEMMA CancelShipmentType ==
  ASSUME TypeOK, NEW o \in Orders, CancelShipment(o)
  PROVE  TypeOK'
<1> DEFINE K == {k \in Items(ship[o]) \ {Direct} : line[k].res = ship[o].res}
<1>1. PICK f \in Freed(o, K) : DropHolds(o, f)
  BY DEF CancelShipment
<1>2. StockTypeOK'
  BY <1>1, FreedBound, DropHoldsType DEF CancelShipment, TypeOK, StockTypeOK
<1>3. line' \in [Lines -> ReservationItem]
  BY ReleasedLinesType DEF CancelShipment
<1>4. res' \in [Resvs -> Reservation]
  BY RecomputedType DEF CancelShipment, TypeOK, DocsTypeOK
<1>5. ship' \in [Orders -> Shipment]
  BY ShipStatusType DEF CancelShipment, ShipStatuses
<1> QED
  BY <1>2, <1>3, <1>4, <1>5 DEF CancelShipment, TypeOK, DocsTypeOK

LEMMA AllAtType ==
  ASSUME NEW w, NEW q, NEW g \in AllAt(w, q)
  PROVE  g \in [Warehouses -> 0..MaxQty]
BY DEF AllAt

LEMMA DealWithType ==
  ASSUME TypeOK, NEW o \in Orders, NEW rs \in [Resvs -> Reservation],
         NEW p \in Resvs \cup {NoRes}
  PROVE  DealWith(rs, o, p) \in [wh : Warehouses \cup {NoWh}, primary : Resvs \cup {NoRes}]
<1> DEFINE W == {rs[r].wh : r \in ActiveResvs(rs, o)}
<1>1. W \in SUBSET (Warehouses \cup {NoWh})
  BY DEF ActiveResvs, Reservation
<1>2. Cardinality(W) = 1 => (CHOOSE w \in W : TRUE) \in W
  BY FS_EmptySet
<1>3. deal[o].wh \in Warehouses \cup {NoWh}
  BY DEF TypeOK, DocsTypeOK
<1>4. DealPrimary(rs, o, p) \in Resvs \cup {NoRes}
  BY DealPrimaryType
<1>5. DealWith(rs, o, p) =
        [wh |-> IF Cardinality(W) = 1 THEN CHOOSE w \in W : TRUE ELSE deal[o].wh,
         primary |-> DealPrimary(rs, o, p)]
  BY DEF DealWith
<1> HIDE DEF W
<1> QED
  BY <1>1, <1>2, <1>3, <1>4, <1>5

LEMMA ReserveOnCreationType ==
  ASSUME TypeOK, NEW o \in Orders, ReserveOnCreation(o)
  PROVE  TypeOK'
<1>1. PICK g \in AllAt(deal[o].wh, Missing(o)) :
        /\ Reserve(o, g, {})
        /\ deal' = [deal EXCEPT ![o].primary = ResvFor(o, g, {}, deal[o].wh)]
  BY DEF ReserveOnCreation
<1>2. /\ StockTypeOK'
      /\ res' \in [Resvs -> Reservation]
      /\ line' \in [Lines -> ReservationItem]
  BY <1>1, AllAtType, ReserveType
<1>3. ResvFor(o, g, {}, deal[o].wh) \in Resvs \cup {NoRes}
  BY <1>1, ResvForType DEF Reserve
<1> QED
  BY <1>1, <1>2, <1>3 DEF ReserveOnCreation, TypeOK, DocsTypeOK

LEMMA ReserveOrderItemType ==
  ASSUME TypeOK, NEW o \in Orders, NEW w, NEW q, ReserveOrderItem(o, w, q)
  PROVE  TypeOK'
<1>1. PICK g \in AllAt(w, q) : Reserve(o, g, {})
  BY DEF ReserveOrderItem
<1>2. /\ StockTypeOK'
      /\ res' \in [Resvs -> Reservation]
      /\ line' \in [Lines -> ReservationItem]
  BY <1>1, AllAtType, ReserveType
<1>3. DealWith(res', o, deal[o].primary)
        \in [wh : Warehouses \cup {NoWh}, primary : Resvs \cup {NoRes}]
  BY <1>2, DealWithType DEF TypeOK, DocsTypeOK
<1>4. deal' = [deal EXCEPT ![o] = DealWith(res', o, deal[o].primary)]
  BY DEF ReserveOrderItem, TypeOK, DocsTypeOK
<1> QED
  BY <1>2, <1>3, <1>4 DEF ReserveOrderItem, TypeOK, DocsTypeOK

(* The strict reservation of EnsureShipment.                                 *)
LEMMA ReserveStrictlyType ==
  ASSUME TypeOK, NEW o \in Orders, ReserveStrictly(o)
  PROVE  /\ StockTypeOK'
         /\ res' \in [Resvs -> Reservation]
         /\ line' \in [Lines -> ReservationItem]
         /\ deal' \in [Orders -> [wh : Warehouses \cup {NoWh}, primary : Resvs \cup {NoRes}]]
<1> DEFINE sole(g) == deal[o].wh = NoWh /\ Cardinality(NewAt(o, g)) = 1
           p(g) == IF sole(g)
                   THEN ResvFor(o, g, Preference, CHOOSE w \in NewAt(o, g) : TRUE)
                   ELSE deal[o].primary
<1>1. PICK g \in StrictSplits(o) :
        /\ Reserve(o, g, Preference)
        /\ deal' = [deal EXCEPT ![o] = DealWith(res', o, p(g))]
  BY DEF ReserveStrictly
<1>2. g \in [Warehouses -> 0..MaxQty]
  BY AllAtType, GreedyType DEF StrictSplits
<1>3. /\ StockTypeOK'
      /\ res' \in [Resvs -> Reservation]
      /\ line' \in [Lines -> ReservationItem]
  BY <1>1, <1>2, ReserveType
<1>4. p(g) \in Resvs \cup {NoRes}
  BY <1>1, ResvForType DEF Reserve, TypeOK, DocsTypeOK
<1> HIDE DEF p
<1>5. DealWith(res', o, p(g)) \in [wh : Warehouses \cup {NoWh}, primary : Resvs \cup {NoRes}]
  BY <1>3, <1>4, DealWithType
<1> QED
  BY <1>1, <1>3, <1>5 DEF TypeOK, DocsTypeOK

LEMMA PrimaryIfSoleType ==
  ASSUME NEW rs, NEW o, NEW p \in Resvs \cup {NoRes}
  PROVE  PrimaryIfSole(rs, o, p) \in Resvs \cup {NoRes}
BY DealPrimaryType DEF PrimaryIfSole

LEMMA EnsureShipmentType ==
  ASSUME TypeOK, NEW o \in Orders, EnsureShipment(o)
  PROVE  TypeOK'
<1> USE DEF TypeOK, DocsTypeOK
<1>1. deal[o].primary \in Resvs \cup {NoRes}
  OBVIOUS
<1>2. CASE RefreshShipment(o)
  <2>1. ShipmentFor(o, NoRes, res, line, deal, order[o]) \in Shipment
    BY ShipmentForType
  <2> QED
    BY <1>2, <2>1 DEF RefreshShipment, EnsureShipment, StockTypeOK, stockVars
<1>3. CASE /\ KeepPrimary(o)
           /\ UNCHANGED <<stockVars, res, line>>
           /\ ship' = [ship EXCEPT ![o] =
                ShipmentFor(o, PrimaryIfSole(res, o, deal[o].primary), res, line, deal, order[o])]
  <2>1. ShipmentFor(o, PrimaryIfSole(res, o, deal[o].primary), res, line, deal, order[o])
          \in Shipment
    BY <1>1, PrimaryIfSoleType, ShipmentForType
  <2>2. deal' \in [Orders -> [wh : Warehouses \cup {NoWh}, primary : Resvs \cup {NoRes}]]
    BY <1>1, <1>3, DealPrimaryType DEF KeepPrimary
  <2> QED
    BY <1>3, <2>1, <2>2 DEF EnsureShipment, StockTypeOK, stockVars
<1>4. CASE /\ ReserveStrictly(o)
           /\ ship' = [ship EXCEPT ![o] =
                ShipmentFor(o, PrimaryIfSole(res', o, deal'[o].primary),
                            res', line', deal', order[o])]
  <2>1. /\ StockTypeOK'
        /\ res' \in [Resvs -> Reservation]
        /\ line' \in [Lines -> ReservationItem]
        /\ deal' \in [Orders -> [wh : Warehouses \cup {NoWh}, primary : Resvs \cup {NoRes}]]
    BY <1>4, ReserveStrictlyType
  <2>2. PrimaryIfSole(res', o, deal'[o].primary) \in Resvs \cup {NoRes}
    BY <2>1, PrimaryIfSoleType
  <2>3. ShipmentFor(o, PrimaryIfSole(res', o, deal'[o].primary), res', line', deal', order[o])
          \in Shipment
    BY <2>1, <2>2, ShipmentForType
  <2> QED
    BY <1>4, <2>1, <2>3 DEF EnsureShipment
<1>5. CASE /\ ship' = [ship EXCEPT ![o] =
                ShipmentFor(o, DealPrimary(res, o, deal[o].primary), res, line, deal, order[o])]
           /\ UNCHANGED <<stockVars, res, line, deal>>
  <2>1. ShipmentFor(o, DealPrimary(res, o, deal[o].primary), res, line, deal, order[o])
          \in Shipment
    BY <1>1, DealPrimaryType, ShipmentForType
  <2> QED
    BY <1>5, <2>1 DEF EnsureShipment, StockTypeOK, stockVars
<1> QED
  BY <1>2, <1>3, <1>4, <1>5 DEF EnsureShipment, OpenShipment

(* Every column keeps its type, whatever the warehouses, orders and bounds.  *)
THEOREM TypeCorrect == Spec => []TypeOK
<1>1. Init => TypeOK
  BY FulfilmentAssumption DEF Init, StockInit, TypeOK, StockTypeOK, DocsTypeOK, NoLot,
     Reservation, ReservationItem, Shipment, NoItems, OrderStatuses
<1>2. TypeOK /\ [DealDeskNext]_vars => TypeOK'
  <2> SUFFICES ASSUME TypeOK, [DealDeskNext]_vars
               PROVE  TypeOK'
    OBVIOUS
  <2>1. CASE \E w \in Warehouses, q \in 1..MaxQty : Receipt(w, q)
    BY <2>1, ReceiptType
  <2>2. CASE \E o \in Orders, st \in Targets : UpdateOrderState(o, st)
    BY <2>2, ReopenType, ConfirmType, ConfirmUnreservedType, CancelType,
       CancelInterruptedType, FulfilType DEF UpdateOrderState
  <2>3. CASE \E o \in Orders : DispatchShipment(o) \/ MarkDelivered(o) \/ CancelShipment(o)
    BY <2>3, DispatchShipmentType, MarkDeliveredType, CancelShipmentType
  <2>4. CASE \E o \in Orders : ReserveOnCreation(o) \/ EnsureShipment(o)
    BY <2>4, ReserveOnCreationType, EnsureShipmentType
  <2>5. CASE \E o \in Orders, w \in Warehouses, q \in 1..MaxQty : ReserveOrderItem(o, w, q)
    BY <2>5, ReserveOrderItemType
  <2>6. CASE UNCHANGED vars
    BY <2>6 DEF vars, TypeOK, StockTypeOK, DocsTypeOK
  <2> QED
    BY <2>1, <2>2, <2>3, <2>4, <2>5, <2>6 DEF DealDeskNext, OrderDeskNext
<1> QED
  BY <1>1, <1>2, PTL DEF Spec

-----------------------------------------------------------------------------
(* Closed reservations are empty.  The invariant is inductive together with  *)
(* the bound of every line and the fact that no action of this module        *)
(* creates a line without an order line, which a release would not empty.    *)
AllLinked == \A k \in Lines : line[k].res # NoRes => line[k].linked
ReservationInv == TypeOK /\ LinesWithinQuantity /\ AllLinked /\ ClosedReservationsAreEmpty

(* A status recomputed from the lines is closed only over empty lines, or it *)
(* was cancelled or expired before.                                          *)
LEMMA StatusOfClosed ==
  ASSUME NEW ln \in [Lines -> ReservationItem], NEW r \in Resvs, NEW old, NEW k \in Lines,
         \A j \in Lines : ln[j].ful + ln[j].rel =< ln[j].qty,
         ln[k].res = r,
         StatusOf(ln, r, old) \notin ActiveStatuses
  PROVE  \/ old \in {"cancelled", "expired"}
         \/ ln[k].ful + ln[k].rel = ln[k].qty
<1>1. k \in LinesOf(ln, r)
  BY DEF LinesOf
<1>2. ln[k].qty \in Nat /\ ln[k].ful \in Nat /\ ln[k].rel \in Nat
  BY DEF ReservationItem
<1>3. ln[k].ful >= ln[k].qty => ln[k].ful + ln[k].rel = ln[k].qty
  BY <1>2
<1>4. ln[k].rel >= ln[k].qty => ln[k].ful + ln[k].rel = ln[k].qty
  BY <1>2
<1>5. \/ old \in {"cancelled", "expired"}
      \/ \A j \in LinesOf(ln, r) : ln[j].ful >= ln[j].qty
      \/ \A j \in LinesOf(ln, r) : ln[j].rel >= ln[j].qty
  BY <1>1, Zenon DEF StatusOf, ActiveStatuses
<1> QED
  BY <1>1, <1>3, <1>4, <1>5

(* A line with active units belongs to an active reservation, or to none.    *)
LEMMA ActiveLine ==
  ASSUME ReservationInv, NEW k \in Lines, Active(line[k]) > 0, line[k].res # NoRes
  PROVE  res[line[k].res].status \in ActiveStatuses
<1>1. line[k].qty \in Nat /\ line[k].ful \in Nat /\ line[k].rel \in Nat
  BY DEF ReservationInv, TypeOK, DocsTypeOK, ReservationItem
<1>2. line[k].ful + line[k].rel # line[k].qty
  BY <1>1 DEF Active, NonNeg
<1> QED
  BY <1>2 DEF ReservationInv, ClosedReservationsAreEmpty

LEMMA InactiveLine ==
  ASSUME ReservationInv, NEW k \in Lines, ~(Active(line[k]) > 0)
  PROVE  line[k].ful + line[k].rel = line[k].qty
<1>1. line[k].qty \in Nat /\ line[k].ful \in Nat /\ line[k].rel \in Nat
  BY DEF ReservationInv, TypeOK, DocsTypeOK, ReservationItem
<1> QED
  BY <1>1 DEF Active, NonNeg, ReservationInv, LinesWithinQuantity

(* Releasing lines empties those of the set and keeps the rest.              *)
LEMMA ReleasedLinesEmpty ==
  ASSUME ReservationInv, NEW K, NEW k \in Lines
  PROVE  /\ ReleasedLines(K)[k].res = line[k].res
         /\ ReleasedLines(K)[k].linked = line[k].linked
         /\ ReleasedLines(K)[k].qty = line[k].qty
         /\ ReleasedLines(K)[k].ful + ReleasedLines(K)[k].rel =< line[k].qty
         /\ k \notin K => ReleasedLines(K)[k] = line[k]
         /\ k \in K /\ line[k].res # NoRes =>
              ReleasedLines(K)[k].ful + ReleasedLines(K)[k].rel = line[k].qty
         /\ line[k].ful + line[k].rel = line[k].qty =>
              ReleasedLines(K)[k].ful + ReleasedLines(K)[k].rel = line[k].qty
<1>1. line[k] \in ReservationItem
  BY DEF ReservationInv, TypeOK, DocsTypeOK
<1>2. line[k].qty \in Nat /\ line[k].ful \in Nat /\ line[k].rel \in Nat
  BY <1>1 DEF ReservationItem
<1>3. line[k].ful + line[k].rel =< line[k].qty
  BY DEF ReservationInv, LinesWithinQuantity
<1>4. line[k].ful + (line[k].rel + Active(line[k])) = line[k].qty
  BY <1>2, <1>3 DEF Active, NonNeg
<1>5. k \in K /\ line[k].linked =>
        ReleasedLines(K)[k] = [line[k] EXCEPT !.rel = line[k].rel + Active(line[k])]
  BY <1>1 DEF ReleasedLines, ReservationItem
<1>6. ~(k \in K /\ line[k].linked) => ReleasedLines(K)[k] = line[k]
  BY DEF ReleasedLines
<1>7. line[k].res # NoRes => line[k].linked
  BY DEF ReservationInv, AllLinked
<1>8. CASE k \in K /\ line[k].linked
  <2>1. /\ ReleasedLines(K)[k].res = line[k].res
        /\ ReleasedLines(K)[k].linked = line[k].linked
        /\ ReleasedLines(K)[k].qty = line[k].qty
        /\ ReleasedLines(K)[k].ful = line[k].ful
        /\ ReleasedLines(K)[k].rel = line[k].rel + Active(line[k])
    BY <1>1, <1>5, <1>8 DEF ReservationItem
  <2> QED
    BY <2>1, <1>2, <1>4, <1>8
<1>9. CASE ~(k \in K /\ line[k].linked)
  BY <1>3, <1>6, <1>7, <1>9
<1> QED
  BY <1>8, <1>9

(* The reservations that Reserve works on are active while it does.          *)
LEMMA TouchedActive ==
  ASSUME TypeOK, NEW o \in Orders, NEW g, NEW pref, NEW w \in Wanted(g),
         NEW r \in Resvs, r = ResvFor(o, g, pref, w)
  PROVE  ReservedRows(o, g, pref)[r].status \in ActiveStatuses
<1>1. CASE \E v \in NewAt(o, g) : ResvFor(o, g, pref, v) = r
  BY <1>1 DEF ReservedRows, ActiveStatuses
<1>2. CASE ~ \E v \in NewAt(o, g) : ResvFor(o, g, pref, v) = r
  <2>1. Existing(o, w) # {}
    BY <1>2 DEF NewAt
  <2>2. Existing(o, w) \in SUBSET Resvs
    BY DEF Existing, ActiveResvs
  <2>3. r \in Existing(o, w)
    BY <2>1, <2>2, LastOfType DEF ResvFor
  <2>4. ReservedRows(o, g, pref)[r] = res[r]
    BY <1>2 DEF ReservedRows
  <2> QED
    BY <2>3, <2>4 DEF Existing, ActiveResvs
<1> QED
  BY <1>1, <1>2

LEMMA ReserveInv ==
  ASSUME ReservationInv, NEW o \in Orders, NEW g \in [Warehouses -> 0..MaxQty], NEW pref,
         Reserve(o, g, pref)
  PROVE  (LinesWithinQuantity /\ AllLinked /\ ClosedReservationsAreEmpty)'
<1> DEFINE rows == ReservedRows(o, g, pref)
           R    == {ResvFor(o, g, pref, w) : w \in Wanted(g)}
<1>1. /\ line' = ReservedLines(o, g, pref)
      /\ res' = Recomputed(rows, line', R)
  BY DEF Reserve
<1>2. /\ line' \in [Lines -> ReservationItem]
      /\ res' \in [Resvs -> Reservation]
  BY ReserveType DEF ReservationInv
<1>3. ASSUME NEW k \in Lines, \E w \in Wanted(g) : LineFor(g, pref, w) = k
      PROVE  /\ line'[k].res \in R
             /\ line'[k].linked
             /\ line'[k].ful + line'[k].rel =< line'[k].qty
  <2> DEFINE w == CHOOSE v \in Wanted(g) : LineFor(g, pref, v) = k
  <2>1. w \in Wanted(g)
    BY <1>3
  <2>2. line'[k] = [res |-> ResvFor(o, g, pref, w), linked |-> TRUE,
                    qty |-> g[w], ful |-> 0, rel |-> 0]
    BY <1>1, <1>3 DEF ReservedLines
  <2> HIDE DEF w
  <2>3. g[w] \in Nat
    BY <2>1, StockAssumption DEF Wanted
  <2> QED
    BY <2>1, <2>2, <2>3
<1>4. ASSUME NEW k \in Lines, ~ \E w \in Wanted(g) : LineFor(g, pref, w) = k
      PROVE  line'[k] = line[k]
  BY <1>1, <1>4 DEF ReservedLines
<1>5. LinesWithinQuantity'
  BY <1>3, <1>4 DEF LinesWithinQuantity, ReservationInv
<1>6. AllLinked'
  BY <1>3, <1>4 DEF AllLinked, ReservationInv
<1>7. ASSUME NEW r \in Resvs, r \in R
      PROVE  /\ rows[r].status \in ActiveStatuses
             /\ res'[r].status = StatusOf(line', r, rows[r].status)
  <2>1. rows[r].status \in ActiveStatuses
    BY <1>7, TouchedActive DEF ReservationInv
  <2>2. rows[r] \in Reservation
    BY ReservedRowsType DEF ReservationInv
  <2> HIDE DEF rows, R
  <2>3. res'[r] = [rows[r] EXCEPT !.status = StatusOf(line', r, rows[r].status)]
    BY <1>1, <1>7, <2>2 DEF Recomputed, Reservation
  <2> QED
    BY <2>1, <2>2, <2>3 DEF Reservation
<1>8. ASSUME NEW r \in Resvs, r \notin R
      PROVE  res'[r] = res[r]
  <2>1. rows[r] = res[r]
    BY <1>8 DEF ReservedRows, NewAt
  <2> QED
    BY <1>1, <1>8, <2>1 DEF Recomputed
<1>9. ASSUME NEW k \in Lines, line'[k].res # NoRes,
             res'[line'[k].res].status \notin ActiveStatuses
      PROVE  line'[k].ful + line'[k].rel = line'[k].qty
  <2> DEFINE r == line'[k].res
  <2>1. r \in Resvs
    BY <1>2, <1>9 DEF ReservationItem
  <2>2. CASE r \in R
    <3>1. rows[r].status \notin {"cancelled", "expired"}
      BY <1>7, <2>1, <2>2 DEF ActiveStatuses
    <3>2. StatusOf(line', r, rows[r].status) \notin ActiveStatuses
      BY <1>7, <1>9, <2>1, <2>2
    <3> HIDE DEF rows, R
    <3> QED
      BY <1>2, <1>5, <2>1, <3>1, <3>2, StatusOfClosed DEF LinesWithinQuantity
  <2>3. CASE r \notin R
    <3>1. line'[k] = line[k]
      BY <1>3, <1>4, <2>3
    <3>2. res'[r] = res[r]
      BY <1>8, <2>1, <2>3
    <3> QED
      BY <1>9, <3>1, <3>2 DEF ReservationInv, ClosedReservationsAreEmpty
  <2> QED
    BY <2>2, <2>3
<1> QED
  BY <1>5, <1>6, <1>9 DEF ClosedReservationsAreEmpty

LEMMA DispatchInv ==
  ASSUME ReservationInv, NEW o \in Orders, NEW s \in Shipment, NEW st,
         NEW d \in Dispatches(o, s), Dispatch(o, s, st, d)
  PROVE  (LinesWithinQuantity /\ AllLinked /\ ClosedReservationsAreEmpty)'
<1> DEFINE R == {line[k].res : k \in Items(s) \ {Direct}}
<1>1. /\ line' = [k \in Lines |-> [line[k] EXCEPT !.ful = @ + s.items[k]]]
      /\ res' = Recomputed(res, line', R)
  BY DEF Dispatch, DispatchedLines
<1>2. /\ line' \in [Lines -> ReservationItem]
      /\ res' \in [Resvs -> Reservation]
  BY DispatchType DEF ReservationInv
<1>3. ASSUME NEW k \in Lines
      PROVE  /\ line[k] \in ReservationItem
             /\ s.items[k] \in Nat
             /\ line'[k].res = line[k].res /\ line'[k].linked = line[k].linked
             /\ line'[k].qty = line[k].qty /\ line'[k].rel = line[k].rel
             /\ line'[k].ful = line[k].ful + s.items[k]
  <2>1. line[k] \in ReservationItem
    BY DEF ReservationInv, TypeOK, DocsTypeOK
  <2>2. s.items[k] \in Nat
    BY DEF Shipment
  <2>3. line'[k] = [line[k] EXCEPT !.ful = line[k].ful + s.items[k]]
    BY <1>1, <2>1 DEF ReservationItem
  <2> QED
    BY <2>1, <2>2, <2>3 DEF ReservationItem
<1>4. ASSUME NEW k \in Lines, s.items[k] > 0
      PROVE  /\ s.items[k] =< Active(line[k])
             /\ line[k].res \in R
  <2>1. k \in Items(s) \ {Direct}
    BY <1>4, FulfilmentAssumption DEF Items, Lines, Direct
  <2> QED
    BY <2>1 DEF Dispatches
<1>5. LinesWithinQuantity'
  <2>1. ASSUME NEW k \in Lines
        PROVE  line'[k].ful + line'[k].rel =< line'[k].qty
    <3>1. line[k].qty \in Nat /\ line[k].ful \in Nat /\ line[k].rel \in Nat
      BY <1>3 DEF ReservationItem
    <3>2. line[k].ful + line[k].rel =< line[k].qty
      BY DEF ReservationInv, LinesWithinQuantity
    <3>3. Active(line[k]) = line[k].qty - line[k].ful - line[k].rel
      BY <3>1, <3>2 DEF Active, NonNeg
    <3>4. s.items[k] =< Active(line[k])
      BY <1>3, <1>4, <3>1, <3>2, <3>3
    <3> QED
      BY <1>3, <3>1, <3>3, <3>4
  <2> QED
    BY <2>1 DEF LinesWithinQuantity
<1>6. AllLinked'
  BY <1>3 DEF AllLinked, ReservationInv
<1>7. ASSUME NEW k \in Lines, line'[k].res # NoRes,
             res'[line'[k].res].status \notin ActiveStatuses
      PROVE  line'[k].ful + line'[k].rel = line'[k].qty
  <2> DEFINE r == line[k].res
  <2>1. r \in Resvs /\ line'[k].res = r
    BY <1>3, <1>7 DEF ReservationItem
  <2>2. CASE r \in R
    <3>1. PICK j \in Items(s) \ {Direct} : line[j].res = r
      BY <2>2
    <3>2. j \in Lines /\ s.items[j] > 0
      BY DEF Items
    <3>3. Active(line[j]) > 0
      BY <1>3, <1>4, <3>2, ActiveType
    <3>4. res[r].status \in ActiveStatuses
      BY <3>1, <3>2, <3>3, <2>1, ActiveLine, <1>7
    <3>5. res'[r].status = StatusOf(line', r, res[r].status)
      <4>1. res[r] \in Reservation
        BY <2>1 DEF ReservationInv, TypeOK, DocsTypeOK
      <4> HIDE DEF r, R
      <4>2. res'[r] = [res[r] EXCEPT !.status = StatusOf(line', r, res[r].status)]
        BY <1>1, <2>1, <2>2, <4>1 DEF Recomputed, Reservation
      <4> QED
        BY <4>1, <4>2 DEF Reservation
    <3>6. res[r].status \notin {"cancelled", "expired"}
      BY <3>4 DEF ActiveStatuses
    <3> HIDE DEF r, R
    <3> QED
      BY <1>2, <1>5, <1>7, <2>1, <3>5, <3>6, StatusOfClosed DEF LinesWithinQuantity
  <2>3. CASE r \notin R
    <3>1. res'[r] = res[r]
      BY <1>1, <2>1, <2>3 DEF Recomputed
    <3>2. ~(s.items[k] > 0)
      BY <1>4, <2>3
    <3>3. line[k].ful + line[k].rel = line[k].qty
      BY <1>7, <2>1, <3>1 DEF ReservationInv, ClosedReservationsAreEmpty
    <3>4. line[k].ful \in Nat /\ s.items[k] = 0
      BY <1>3, <3>2 DEF ReservationItem
    <3> QED
      BY <1>3, <3>3, <3>4
  <2> QED
    BY <2>2, <2>3
<1> QED
  BY <1>5, <1>6, <1>7 DEF ClosedReservationsAreEmpty

(* The bounds and links of released lines, for every set of lines.           *)
LEMMA ReleasedLinesInv ==
  ASSUME ReservationInv, NEW K, line' = ReleasedLines(K)
  PROVE  LinesWithinQuantity' /\ AllLinked'
BY ReleasedLinesEmpty DEF LinesWithinQuantity, AllLinked, ReservationInv

LEMMA CancelInv ==
  ASSUME ReservationInv, NEW o \in Orders, Cancel(o)
  PROVE  (LinesWithinQuantity /\ AllLinked /\ ClosedReservationsAreEmpty)'
<1> DEFINE K == HoldingLines(res, line, o)
           R == ActiveResvs(res, o)
<1>1. /\ line' = ReleasedLines(K)
      /\ res' = [r \in Resvs |-> IF r \in R THEN [res[r] EXCEPT !.status = "cancelled"]
                                             ELSE res[r]]
  BY DEF Cancel
<1>2. LinesWithinQuantity' /\ AllLinked'
  BY <1>1, ReleasedLinesInv
<1>3. ASSUME NEW k \in Lines, line'[k].res # NoRes,
             res'[line'[k].res].status \notin ActiveStatuses
      PROVE  line'[k].ful + line'[k].rel = line'[k].qty
  <2>1. line'[k].res = line[k].res /\ line'[k].qty = line[k].qty
    BY <1>1, ReleasedLinesEmpty
  <2>2. line[k].res \in Resvs
    BY <1>3, <2>1 DEF ReservationInv, TypeOK, DocsTypeOK, ReservationItem
  <2>3. CASE k \in K
    BY <1>1, <1>3, <2>1, <2>3, ReleasedLinesEmpty
  <2>4. CASE k \notin K /\ line[k].res \in R
    <3>1. ~(Active(line[k]) > 0)
      BY <2>4 DEF HoldingLines
    <3> QED
      BY <1>1, <2>1, <3>1, InactiveLine, ReleasedLinesEmpty
  <2>5. CASE k \notin K /\ line[k].res \notin R
    <3>1. res'[line[k].res] = res[line[k].res]
      BY <1>1, <2>2, <2>5
    <3>2. line[k].ful + line[k].rel = line[k].qty
      BY <1>3, <2>1, <3>1 DEF ReservationInv, ClosedReservationsAreEmpty
    <3> QED
      BY <1>1, <2>1, <3>2, ReleasedLinesEmpty
  <2> QED
    BY <2>3, <2>4, <2>5
<1> QED
  BY <1>2, <1>3 DEF ClosedReservationsAreEmpty

LEMMA CancelInterruptedInv ==
  ASSUME ReservationInv, NEW o \in Orders, CancelInterrupted(o)
  PROVE  (LinesWithinQuantity /\ AllLinked /\ ClosedReservationsAreEmpty)'
<1> DEFINE K    == HoldingLines(res, line, o)
           D    == ReleasedBefore(o)
           done == {r \in ActiveResvs(res, o) : \A k \in K \ D : line[k].res > r}
<1>1. /\ line' = ReleasedLines(D)
      /\ res' = [r \in Resvs |-> IF r \in done THEN [res[r] EXCEPT !.status = "cancelled"]
                                                ELSE res[r]]
  BY DEF CancelInterrupted
<1>2. LinesWithinQuantity' /\ AllLinked'
  BY <1>1, ReleasedLinesInv
<1>3. ASSUME NEW k \in Lines, line'[k].res # NoRes,
             res'[line'[k].res].status \notin ActiveStatuses
      PROVE  line'[k].ful + line'[k].rel = line'[k].qty
  <2>1. line'[k].res = line[k].res /\ line'[k].qty = line[k].qty
    BY <1>1, ReleasedLinesEmpty
  <2>2. line[k].res \in Resvs /\ line[k].res \in Nat
    BY <1>3, <2>1, FulfilmentAssumption
    DEF ReservationInv, TypeOK, DocsTypeOK, ReservationItem, Resvs, NoRes
  <2>3. CASE k \in D
    BY <1>1, <1>3, <2>1, <2>3, ReleasedLinesEmpty
  <2>4. CASE k \notin D /\ line[k].res \in done
    <3>1. k \notin K
      BY <2>2, <2>4
    <3>2. ~(Active(line[k]) > 0)
      BY <2>4, <3>1 DEF HoldingLines
    <3> QED
      BY <1>1, <2>1, <3>2, InactiveLine, ReleasedLinesEmpty
  <2>5. CASE k \notin D /\ line[k].res \notin done
    <3>1. res'[line[k].res] = res[line[k].res]
      BY <1>1, <2>2, <2>5
    <3>2. line[k].ful + line[k].rel = line[k].qty
      BY <1>3, <2>1, <3>1 DEF ReservationInv, ClosedReservationsAreEmpty
    <3> QED
      BY <1>1, <2>1, <3>2, ReleasedLinesEmpty
  <2> QED
    BY <2>3, <2>4, <2>5
<1> QED
  BY <1>2, <1>3 DEF ClosedReservationsAreEmpty

LEMMA CancelShipmentInv ==
  ASSUME ReservationInv, NEW o \in Orders, CancelShipment(o)
  PROVE  (LinesWithinQuantity /\ AllLinked /\ ClosedReservationsAreEmpty)'
<1> DEFINE s == ship[o]
           K == {k \in Items(s) \ {Direct} : line[k].res = s.res}
<1>1. /\ line' = ReleasedLines(K)
      /\ res' = IF K = {} THEN res ELSE Recomputed(res, line', {s.res})
  BY DEF CancelShipment
<1>2. LinesWithinQuantity' /\ AllLinked'
  BY <1>1, ReleasedLinesInv
<1>3. line' \in [Lines -> ReservationItem]
  BY <1>1, ReleasedLinesType DEF ReservationInv
<1>4. ASSUME NEW k \in Lines, line'[k].res # NoRes,
             res'[line'[k].res].status \notin ActiveStatuses
      PROVE  line'[k].ful + line'[k].rel = line'[k].qty
  <2> DEFINE r == line[k].res
  <2>1. line'[k].res = r /\ line'[k].qty = line[k].qty
    BY <1>1, ReleasedLinesEmpty
  <2>2. r \in Resvs
    BY <1>4, <2>1 DEF ReservationInv, TypeOK, DocsTypeOK, ReservationItem
  <2>3. ASSUME res[r].status \notin ActiveStatuses
        PROVE  line'[k].ful + line'[k].rel = line'[k].qty
    <3>1. line[k].ful + line[k].rel = line[k].qty
      BY <1>4, <2>1, <2>3 DEF ReservationInv, ClosedReservationsAreEmpty
    <3> QED
      BY <1>1, <2>1, <3>1, ReleasedLinesEmpty
  <2>4. CASE K # {} /\ r = s.res
    <3>1. res'[r].status = StatusOf(line', r, res[r].status)
      <4>1. res[r] \in Reservation
        BY <2>2 DEF ReservationInv, TypeOK, DocsTypeOK
      <4>2. res' = Recomputed(res, line', {r})
        BY <1>1, <2>4
      <4> HIDE DEF r
      <4>3. res'[r] = [res[r] EXCEPT !.status = StatusOf(line', r, res[r].status)]
        BY <2>2, <4>1, <4>2 DEF Recomputed, Reservation
      <4> QED
        BY <4>1, <4>3 DEF Reservation
    <3>2. CASE res[r].status \in {"cancelled", "expired"}
      BY <2>3, <3>2 DEF ActiveStatuses
    <3>3. CASE res[r].status \notin {"cancelled", "expired"}
      <4>1. StatusOf(line', r, res[r].status) \notin ActiveStatuses
        BY <1>4, <2>1, <3>1
      <4> HIDE DEF r, s, K
      <4> QED
        BY <1>2, <1>3, <2>1, <2>2, <3>3, <4>1, StatusOfClosed DEF LinesWithinQuantity
    <3> QED
      BY <3>2, <3>3
  <2>5. CASE K = {} \/ r # s.res
    <3>1. res'[r] = res[r]
      BY <1>1, <2>2, <2>5 DEF Recomputed
    <3> QED
      BY <1>4, <2>1, <2>3, <3>1
  <2> QED
    BY <2>4, <2>5
<1> QED
  BY <1>2, <1>4 DEF ClosedReservationsAreEmpty

(* One step of the desk keeps the invariant.                                 *)
LEMMA UntouchedInv ==
  ASSUME ReservationInv, UNCHANGED <<res, line>>
  PROVE  (LinesWithinQuantity /\ AllLinked /\ ClosedReservationsAreEmpty)'
BY DEF ReservationInv, LinesWithinQuantity, AllLinked, ClosedReservationsAreEmpty

LEMMA UpdateOrderStateInv ==
  ASSUME ReservationInv, NEW o \in Orders, NEW st, UpdateOrderState(o, st)
  PROVE  (LinesWithinQuantity /\ AllLinked /\ ClosedReservationsAreEmpty)'
<1>1. CASE Reopen(o, st)
  BY <1>1, UntouchedInv DEF Reopen
<1>2. CASE Confirm(o)
  <2>1. PICK g \in Greedy(Missing(o)) : Reserve(o, g, Preference)
    BY <1>2 DEF Confirm
  <2> QED
    BY <2>1, GreedyType, ReserveInv
<1>3. CASE ConfirmUnreserved(o)
  BY <1>3, UntouchedInv DEF ConfirmUnreserved
<1>4. CASE Cancel(o)
  BY <1>4, CancelInv
<1>5. CASE CancelInterrupted(o)
  BY <1>5, CancelInterruptedInv
<1>6. CASE Fulfil(o, st)
  <2> DEFINE s == ShipmentFor(o, NoRes, res, line, deal, st)
  <2>1. s \in Shipment
    BY ShipmentForType DEF ReservationInv, TypeOK, DocsTypeOK
  <2> HIDE DEF s
  <2>2. CASE \E d \in Dispatches(o, s) : Dispatch(o, s, st, d)
    BY <2>1, <2>2, DispatchInv
  <2>3. CASE UNCHANGED <<res, line>>
    BY <2>3, UntouchedInv
  <2> QED
    BY <1>6, <2>2, <2>3 DEF Fulfil, s
<1> QED
  BY <1>1, <1>2, <1>3, <1>4, <1>5, <1>6 DEF UpdateOrderState

LEMMA EnsureShipmentInv ==
  ASSUME ReservationInv, NEW o \in Orders, EnsureShipment(o)
  PROVE  (LinesWithinQuantity /\ AllLinked /\ ClosedReservationsAreEmpty)'
<1>1. CASE UNCHANGED <<res, line>>
  BY <1>1, UntouchedInv
<1>2. CASE ReserveStrictly(o)
  <2>1. PICK g \in StrictSplits(o) : Reserve(o, g, Preference)
    BY <1>2 DEF ReserveStrictly
  <2>2. g \in [Warehouses -> 0..MaxQty]
    BY AllAtType, GreedyType DEF StrictSplits
  <2> QED
    BY <2>1, <2>2, ReserveInv
<1> QED
  BY <1>1, <1>2 DEF EnsureShipment, RefreshShipment, OpenShipment

LEMMA DeskStepInv ==
  ASSUME ReservationInv, [DealDeskNext]_vars
  PROVE  (LinesWithinQuantity /\ AllLinked /\ ClosedReservationsAreEmpty)'
<1>1. CASE \E w \in Warehouses, q \in 1..MaxQty : Receipt(w, q)
  BY <1>1, UntouchedInv DEF Receipt, docVars
<1>2. CASE \E o \in Orders, st \in Targets : UpdateOrderState(o, st)
  BY <1>2, UpdateOrderStateInv
<1>3. CASE \E o \in Orders : DispatchShipment(o)
  <2>1. PICK o \in Orders : \E d \in Dispatches(o, ship[o]) : Dispatch(o, ship[o], order[o], d)
    BY <1>3 DEF DispatchShipment
  <2>2. ship[o] \in Shipment
    BY DEF ReservationInv, TypeOK, DocsTypeOK
  <2> QED
    BY <2>1, <2>2, DispatchInv
<1>4. CASE \E o \in Orders : MarkDelivered(o)
  BY <1>4, UntouchedInv DEF MarkDelivered
<1>5. CASE \E o \in Orders : CancelShipment(o)
  BY <1>5, CancelShipmentInv
<1>6. CASE \E o \in Orders : ReserveOnCreation(o)
  <2>1. PICK o \in Orders : \E g \in AllAt(deal[o].wh, Missing(o)) : Reserve(o, g, {})
    BY <1>6 DEF ReserveOnCreation
  <2> QED
    BY <2>1, AllAtType, ReserveInv
<1>7. CASE \E o \in Orders : EnsureShipment(o)
  BY <1>7, EnsureShipmentInv
<1>8. CASE \E o \in Orders, w \in Warehouses, q \in 1..MaxQty : ReserveOrderItem(o, w, q)
  <2>1. PICK o \in Orders, w \in Warehouses, q \in 1..MaxQty :
          \E g \in AllAt(w, q) : Reserve(o, g, {})
    BY <1>8 DEF ReserveOrderItem
  <2> QED
    BY <2>1, AllAtType, ReserveInv
<1>9. CASE UNCHANGED vars
  BY <1>9, UntouchedInv DEF vars
<1> QED
  BY <1>1, <1>2, <1>3, <1>4, <1>5, <1>6, <1>7, <1>8, <1>9 DEF DealDeskNext, OrderDeskNext

(* The invariant that closes the argument holds of every behaviour.          *)
THEOREM ReservationInvariant == Spec => []ReservationInv
<1>1. Init => LinesWithinQuantity /\ AllLinked /\ ClosedReservationsAreEmpty
  BY DEF Init, LinesWithinQuantity, AllLinked, ClosedReservationsAreEmpty
<1>2. /\ LinesWithinQuantity /\ AllLinked /\ ClosedReservationsAreEmpty
      /\ TypeOK
      /\ [DealDeskNext]_vars
      => (LinesWithinQuantity /\ AllLinked /\ ClosedReservationsAreEmpty)'
  BY DeskStepInv DEF ReservationInv
<1> QED
  BY <1>1, <1>2, TypeCorrect, PTL DEF Spec, ReservationInv

(* A reservation that is no longer active keeps no unit of any line back.    *)
THEOREM ClosedReservationsStayEmpty == Spec => []ClosedReservationsAreEmpty
<1>1. ReservationInv => ClosedReservationsAreEmpty
  BY DEF ReservationInv
<1> QED
  BY <1>1, ReservationInvariant, PTL

(* No line is fulfilled and released beyond its quantity.                    *)
THEOREM LinesStayWithinQuantity == Spec => []LinesWithinQuantity
<1>1. ReservationInv => LinesWithinQuantity
  BY DEF ReservationInv
<1> QED
  BY <1>1, ReservationInvariant, PTL

-----------------------------------------------------------------------------
(* What a step owes to one shipment.                                         *)
Final(o) == ship[o].consumed => KeepsItsStock(o)

LEMMA ConsumedShipmentFor ==
  ASSUME NEW o, NEW r0, NEW rs, NEW ln, NEW dl, NEW st, ship[o] \in Shipment, ship[o].consumed
  PROVE  LET s == ShipmentFor(o, r0, rs, ln, dl, st)
         IN  s.consumed /\ s.items = ship[o].items /\ s.wh = ship[o].wh
BY DEF ShipmentFor, Shipment

LEMMA DispatchFinal ==
  ASSUME TypeOK, NEW o \in Orders, NEW s, NEW st, NEW d,
         ship[o].consumed => s.consumed, ~s.consumed,
         Dispatch(o, s, st, d), NEW p \in Orders
  PROVE  Final(p)
<1>1. CASE p = o
  BY <1>1 DEF Final, KeepsItsStock
<1>2. CASE p # o
  BY <1>2 DEF Final, KeepsItsStock, Dispatch, ShipStock, TypeOK, StockTypeOK, DocsTypeOK
<1> QED
  BY <1>1, <1>2

LEMMA RefreshedFinal ==
  ASSUME TypeOK, NEW o \in Orders, NEW r0, NEW rs, NEW ln, NEW dl, NEW st,
         ship' = [ship EXCEPT ![o] = ShipmentFor(o, r0, rs, ln, dl, st)],
         shipped' = shipped, NEW p \in Orders
  PROVE  Final(p)
<1>1. ship \in [Orders -> Shipment]
  BY DEF TypeOK, DocsTypeOK
<1>2. CASE p = o
  BY <1>1, <1>2, ConsumedShipmentFor DEF Final, KeepsItsStock
<1>3. CASE p # o
  BY <1>1, <1>3 DEF Final, KeepsItsStock
<1> QED
  BY <1>2, <1>3

LEMMA ShipStatusFinal ==
  ASSUME TypeOK, NEW o \in Orders, NEW st, ship' = [ship EXCEPT ![o].status = st],
         shipped' = shipped, NEW p \in Orders
  PROVE  Final(p)
BY DEF Final, KeepsItsStock, TypeOK, DocsTypeOK, Shipment

LEMMA UntouchedFinal ==
  ASSUME UNCHANGED <<ship, shipped>>, NEW p \in Orders
  PROVE  Final(p)
BY DEF Final, KeepsItsStock

LEMMA UpdateOrderStateFinal ==
  ASSUME TypeOK, NEW o \in Orders, NEW st, UpdateOrderState(o, st), NEW p \in Orders
  PROVE  Final(p)
<1>1. CASE Reopen(o, st)
  BY <1>1, UntouchedFinal DEF Reopen, stockVars
<1>2. CASE Confirm(o)
  BY <1>2, UntouchedFinal DEF Confirm, Reserve
<1>3. CASE ConfirmUnreserved(o)
  BY <1>3, UntouchedFinal DEF ConfirmUnreserved, stockVars
<1>4. CASE Cancel(o)
  BY <1>4, UntouchedFinal DEF Cancel
<1>5. CASE CancelInterrupted(o)
  BY <1>5, UntouchedFinal DEF CancelInterrupted
<1>6. CASE Fulfil(o, st)
  <2> DEFINE s == ShipmentFor(o, NoRes, res, line, deal, st)
  <2>1. ship[o].consumed => s.consumed
    BY ConsumedShipmentFor DEF TypeOK, DocsTypeOK
  <2>2. CASE /\ Dispatchable(s)
             /\ \E d \in Dispatches(o, s) : Dispatch(o, s, st, d)
    <3>1. ~s.consumed
      BY <2>2 DEF Dispatchable
    <3> HIDE DEF s
    <3> QED
      BY <2>1, <2>2, <3>1, DispatchFinal
  <2>3. CASE ship' = [ship EXCEPT ![o] = s] /\ UNCHANGED <<stockVars, res, line>>
    BY <2>3, RefreshedFinal DEF stockVars
  <2> QED
    BY <1>6, <2>2, <2>3 DEF Fulfil
<1> QED
  BY <1>1, <1>2, <1>3, <1>4, <1>5, <1>6 DEF UpdateOrderState

LEMMA EnsureShipmentFinal ==
  ASSUME TypeOK, NEW o \in Orders, EnsureShipment(o), NEW p \in Orders
  PROVE  Final(p)
<1>1. CASE RefreshShipment(o)
  BY <1>1, RefreshedFinal DEF RefreshShipment, stockVars
<1>2. CASE ReserveStrictly(o) /\ ship' = [ship EXCEPT ![o] =
             ShipmentFor(o, PrimaryIfSole(res', o, deal'[o].primary),
                         res', line', deal', order[o])]
  <2> DEFINE r0 == PrimaryIfSole(res', o, deal'[o].primary)
  <2>1. shipped' = shipped
    BY <1>2 DEF ReserveStrictly, Reserve
  <2>2. ship' = [ship EXCEPT ![o] = ShipmentFor(o, r0, res', line', deal', order[o])]
    BY <1>2
  <2> HIDE DEF r0
  <2> QED
    BY <2>1, <2>2, RefreshedFinal
<1>3. CASE /\ UNCHANGED <<stockVars, res, line>>
           /\ \E r0 : ship' = [ship EXCEPT ![o] =
                             ShipmentFor(o, r0, res, line, deal, order[o])]
  <2>1. PICK r0 : ship' = [ship EXCEPT ![o] =
                     ShipmentFor(o, r0, res, line, deal, order[o])]
    BY <1>3
  <2>2. shipped' = shipped
    BY <1>3 DEF stockVars
  <2> QED
    BY <2>1, <2>2, RefreshedFinal
<1> QED
  BY <1>1, <1>2, <1>3 DEF EnsureShipment, OpenShipment

(* A shipment whose stock effect is booked keeps its items, its source and   *)
(* what it took, whatever request comes next.                                *)
THEOREM ConsumedShipmentsStayFinal == Spec => ConsumedShipmentsAreFinal
<1>1. TypeOK /\ [DealDeskNext]_vars => [KeepConsumed]_vars
  <2> SUFFICES ASSUME TypeOK, DealDeskNext, NEW p \in Orders
               PROVE  Final(p)
    BY DEF Final, KeepConsumed
  <2>1. CASE \E w \in Warehouses, q \in 1..MaxQty : Receipt(w, q)
    BY <2>1, UntouchedFinal DEF Receipt, docVars
  <2>2. CASE \E o \in Orders, st \in Targets : UpdateOrderState(o, st)
    BY <2>2, UpdateOrderStateFinal
  <2>3. CASE \E o \in Orders : DispatchShipment(o)
    <3>1. PICK o \in Orders, d \in UNION {Dispatches(q, ship[q]) : q \in Orders} :
            ~ship[o].consumed /\ Dispatch(o, ship[o], order[o], d)
      BY <2>3 DEF DispatchShipment, Dispatchable
    <3> QED
      BY <3>1, DispatchFinal
  <2>4. CASE \E o \in Orders : MarkDelivered(o) \/ CancelShipment(o)
    BY <2>4, ShipStatusFinal DEF MarkDelivered, CancelShipment, stockVars
  <2>5. CASE \E o \in Orders : ReserveOnCreation(o)
    BY <2>5, UntouchedFinal DEF ReserveOnCreation, Reserve
  <2>6. CASE \E o \in Orders : EnsureShipment(o)
    BY <2>6, EnsureShipmentFinal
  <2>7. CASE \E o \in Orders, w \in Warehouses, q \in 1..MaxQty : ReserveOrderItem(o, w, q)
    BY <2>7, UntouchedFinal DEF ReserveOrderItem, Reserve
  <2> QED
    BY <2>1, <2>2, <2>3, <2>4, <2>5, <2>6, <2>7 DEF DealDeskNext, OrderDeskNext
<1> QED
  BY <1>1, TypeCorrect, PTL DEF Spec, ConsumedShipmentsAreFinal

-----------------------------------------------------------------------------
(* Sums over finite sets.  The community module defines a sum by recursion   *)
(* over the subsets, which takes an arbitrary element first; that any may be *)
(* taken first follows from a smallest subset for which one may not.         *)

PicksAny(g, f, S) ==
  /\ g \in [SUBSET S -> Int]
  /\ g[{}] = 0
  /\ \A T \in SUBSET S : \A x \in T : g[T] = f[x] + g[T \ {x}]

PicksOne(g, f, S) ==
  g = [s \in SUBSET S |-> IF s = {} THEN 0
                          ELSE f[CHOOSE x \in s : TRUE] + g[s \ {CHOOSE x \in s : TRUE}]]

(* The sum as the library defines it.                                        *)
LEMMA SumIsRecursive ==
  ASSUME NEW f, NEW S
  PROVE  SumFunctionOnSet(f, S) = (CHOOSE g : PicksOne(g, f, S))[S]
BY DEF SumFunctionOnSet, FoldFunctionOnSet, MapThenFoldSet, PicksOne

(* A family of subsets of a finite set has a member that is smallest.        *)
LEMMA SmallestSubset ==
  ASSUME NEW S, IsFiniteSet(S), NEW B, B \subseteq SUBSET S, B # {}
  PROVE  \E T \in B : \A x \in T : T \ {x} \notin B
<1>1. B \subseteq FiniteSubsetsOf(S)
  BY FS_Subset DEF FiniteSubsetsOf
<1>2. PICK T \in B : \A U \in B : <<U, T>> \notin StrictSubsetOrdering(S)
  <2>1. IsWellFoundedOn(StrictSubsetOrdering(S), FiniteSubsetsOf(S))
    BY FS_StrictSubsetOrderingWellFounded
  <2> QED BY <1>1, <2>1, WFMin
<1>3. \A x \in T : T \ {x} \notin B
  BY <1>2 DEF StrictSubsetOrdering
<1> QED BY <1>3

(* There is a function on the subsets that may take any element first.       *)
LEMMA PicksAnyExists ==
  ASSUME NEW f, NEW S, IsFiniteSet(S), \A x \in S : f[x] \in Int
  PROVE  \E g : PicksAny(g, f, S)
<1> DEFINE B == {T \in SUBSET S : ~ \E g : PicksAny(g, f, T)}
<1> SUFFICES ASSUME B # {} PROVE FALSE
  OBVIOUS
<1>1. PICK T \in B : \A x \in T : T \ {x} \notin B
  BY SmallestSubset
<1>2. T # {}
  <2>1. PicksAny([s \in {{}} |-> 0], f, {})
    BY DEF PicksAny
  <2> QED
    BY <1>1, <2>1
<1>3. PICK y \in T : TRUE
  BY <1>2
<1>4. PICK g : PicksAny(g, f, T \ {y})
  BY <1>1, <1>3
<1> DEFINE h == [s \in SUBSET T |-> IF y \in s THEN f[y] + g[s \ {y}] ELSE g[s]]
<1>5. f[y] \in Int
  BY <1>3
<1>6. \A s \in SUBSET T : s \ {y} \in SUBSET (T \ {y}) /\ (y \notin s => s \in SUBSET (T \ {y}))
  OBVIOUS
<1>7. h \in [SUBSET T -> Int]
  BY <1>4, <1>5, <1>6 DEF PicksAny
<1>8. h[{}] = 0
  BY <1>4 DEF PicksAny
<1>9. ASSUME NEW s \in SUBSET T, NEW x \in s
      PROVE  h[s] = f[x] + h[s \ {x}]
  <2>1. CASE x = y
    BY <2>1, <1>5
  <2>2. CASE x # y /\ y \in s
    <3>1. (s \ {x}) \ {y} = (s \ {y}) \ {x} /\ x \in s \ {y}
      BY <2>2
    <3>2. g[s \ {y}] = f[x] + g[(s \ {y}) \ {x}]
      BY <1>4, <1>6, <3>1 DEF PicksAny
    <3>3. g[(s \ {y}) \ {x}] \in Int /\ f[x] \in Int
      BY <1>4 DEF PicksAny
    <3>4. h[s] = f[y] + g[s \ {y}] /\ h[s \ {x}] = f[y] + g[(s \ {y}) \ {x}]
      BY <2>2, <3>1
    <3> QED BY <3>2, <3>3, <3>4, <1>5
  <2>3. CASE y \notin s
    BY <2>3, <1>4, <1>6 DEF PicksAny
  <2> QED BY <2>1, <2>2, <2>3
<1>10. PicksAny(h, f, T)
  BY <1>7, <1>8, <1>9 DEF PicksAny
<1> QED BY <1>10

(* The sum is that function.                                                 *)
LEMMA SumIsAny ==
  ASSUME NEW f, NEW S, IsFiniteSet(S), NEW g, PicksAny(g, f, S)
  PROVE  SumFunctionOnSet(f, S) = g[S]
<1>1. PicksOne(g, f, S)
  BY DEF PicksAny, PicksOne
<1> DEFINE h == CHOOSE h : PicksOne(h, f, S)
<1>2. PicksOne(h, f, S)
  BY <1>1
<1> HIDE DEF h
<1> DEFINE B == {T \in SUBSET S : h[T] # g[T]}
<1>3. B = {}
  <2> SUFFICES ASSUME B # {} PROVE FALSE
    OBVIOUS
  <2>1. PICK T \in B : \A x \in T : T \ {x} \notin B
    BY SmallestSubset
  <2>2. T # {}
    BY <1>1, <1>2 DEF PicksOne
  <2>3. PICK x \in T : x = CHOOSE y \in T : TRUE
    BY <2>2
  <2>4. h[T \ {x}] = g[T \ {x}]
    BY <2>1
  <2>5. h[T] = f[x] + h[T \ {x}]
    BY <1>2, <2>2, <2>3 DEF PicksOne
  <2>6. g[T] = f[x] + g[T \ {x}]
    BY <1>1, <2>2, <2>3 DEF PicksOne
  <2> QED BY <2>4, <2>5, <2>6
<1> QED BY <1>3, SumIsRecursive DEF h

(* The sum over the empty set, and what any element adds.                    *)
LEMMA SumRules ==
  ASSUME NEW f, NEW S, IsFiniteSet(S), \A x \in S : f[x] \in Int
  PROVE  /\ SumFunctionOnSet(f, S) \in Int
         /\ S = {} => SumFunctionOnSet(f, S) = 0
         /\ \A x \in S : SumFunctionOnSet(f, S) = f[x] + SumFunctionOnSet(f, S \ {x})
<1>1. PICK g : PicksAny(g, f, S)
  BY PicksAnyExists
<1>2. SumFunctionOnSet(f, S) = g[S]
  BY <1>1, SumIsAny
<1>3. ASSUME NEW x \in S
      PROVE  SumFunctionOnSet(f, S \ {x}) = g[S \ {x}]
  <2> DEFINE T == S \ {x}
             h == [U \in SUBSET T |-> g[U]]
  <2>1. IsFiniteSet(T)
    BY FS_Subset
  <2>2. PicksAny(h, f, T)
    BY <1>1 DEF PicksAny
  <2>3. SumFunctionOnSet(f, T) = h[T]
    BY <2>1, <2>2, SumIsAny
  <2> QED
    BY <2>3
<1> QED
  BY <1>1, <1>2, <1>3 DEF PicksAny

(* The sum of sums.                                                          *)
LEMMA SumAdd ==
  ASSUME NEW S, IsFiniteSet(S), NEW f, NEW g, NEW h,
         \A x \in S : f[x] \in Int /\ g[x] \in Int /\ h[x] = f[x] + g[x]
  PROVE  SumFunctionOnSet(h, S) = SumFunctionOnSet(f, S) + SumFunctionOnSet(g, S)
<1>1. PICK F : PicksAny(F, f, S)
  BY PicksAnyExists
<1>2. PICK G : PicksAny(G, g, S)
  BY PicksAnyExists
<1> DEFINE H == [T \in SUBSET S |-> F[T] + G[T]]
<1>3. PicksAny(H, h, S)
  <2>1. H \in [SUBSET S -> Int] /\ H[{}] = 0
    BY <1>1, <1>2 DEF PicksAny
  <2>2. ASSUME NEW T \in SUBSET S, NEW x \in T
        PROVE  H[T] = h[x] + H[T \ {x}]
    <3>1. F[T] = f[x] + F[T \ {x}] /\ G[T] = g[x] + G[T \ {x}]
      BY <1>1, <1>2 DEF PicksAny
    <3>2. f[x] \in Int /\ g[x] \in Int /\ F[T \ {x}] \in Int /\ G[T \ {x}] \in Int
      BY <1>1, <1>2 DEF PicksAny
    <3> QED
      BY <3>1, <3>2
  <2> QED
    BY <2>1, <2>2 DEF PicksAny
<1> QED
  BY <1>1, <1>2, <1>3, SumIsAny

(* A sum depends on its terms only.                                          *)
LEMMA SumSame ==
  ASSUME NEW S, IsFiniteSet(S), NEW f, NEW g,
         \A x \in S : f[x] \in Int /\ g[x] = f[x]
  PROVE  SumFunctionOnSet(g, S) = SumFunctionOnSet(f, S)
<1>1. PICK F : PicksAny(F, f, S)
  BY PicksAnyExists
<1>2. PicksAny(F, g, S)
  BY <1>1 DEF PicksAny
<1> QED
  BY <1>1, <1>2, SumIsAny

(* A sum of naturals is a natural, zero only if every term is.               *)
LEMMA SumNat ==
  ASSUME NEW S, IsFiniteSet(S), NEW f, \A x \in S : f[x] \in Nat
  PROVE  SumFunctionOnSet(f, S) \in Nat
<1>1. PICK F : PicksAny(F, f, S)
  BY PicksAnyExists
<1> DEFINE B == {T \in SUBSET S : F[T] \notin Nat}
<1>2. B = {}
  <2> SUFFICES ASSUME B # {} PROVE FALSE
    OBVIOUS
  <2>1. PICK T \in B : \A x \in T : T \ {x} \notin B
    BY SmallestSubset
  <2>2. PICK x \in T : TRUE
    <3>1. F[{}] = 0
      BY <1>1 DEF PicksAny
    <3>2. T = {} => F[T] \in Nat
      <4>1. T = {} => F[T] = F[{}]
        BY Zenon
      <4> QED
        BY <3>1, <4>1
    <3>3. F[T] \notin Nat
      OBVIOUS
    <3> QED
      BY <3>2, <3>3
  <2>3. F[T] = f[x] + F[T \ {x}] /\ F[T \ {x}] \in Nat /\ f[x] \in Nat
    BY <1>1, <2>1, <2>2 DEF PicksAny
  <2> QED
    BY <2>3
<1> QED
  BY <1>1, <1>2, SumIsAny

(* Terms that are zero may be left out.                                      *)
LEMMA SumSupport ==
  ASSUME NEW S, IsFiniteSet(S), NEW T \in SUBSET S, NEW f, \A x \in S : f[x] \in Int,
         \A x \in S \ T : f[x] = 0
  PROVE  SumFunctionOnSet(f, S) = SumFunctionOnSet(f, T)
<1>1. PICK F : PicksAny(F, f, S)
  BY PicksAnyExists
<1> DEFINE B == {U \in SUBSET S : F[U] # F[U \cap T]}
<1>2. B = {}
  <2> SUFFICES ASSUME B # {} PROVE FALSE
    OBVIOUS
  <2>1. PICK U \in B : \A x \in U : U \ {x} \notin B
    BY SmallestSubset
  <2>2. PICK x \in U : TRUE
    <3>1. U = {} => U = U \cap T
      OBVIOUS
    <3> QED
      BY <3>1
  <2>3. F[U \ {x}] = F[(U \ {x}) \cap T] /\ U \in SUBSET S /\ x \in S
    BY <2>1
  <2>4. F[U] = f[x] + F[U \ {x}] /\ f[x] \in Int /\ F[U \ {x}] \in Int
    BY <1>1, <2>3 DEF PicksAny
  <2>5. CASE x \in T
    <3>1. x \in U \cap T /\ (U \cap T) \ {x} = (U \ {x}) \cap T /\ U \cap T \in SUBSET S
      BY <2>5
    <3>2. F[U \cap T] = f[x] + F[(U \cap T) \ {x}]
      BY <1>1, <3>1 DEF PicksAny
    <3> QED
      BY <2>3, <2>4, <3>1, <3>2
  <2>6. CASE x \notin T
    <3>1. U \cap T = (U \ {x}) \cap T
      BY <2>6
    <3>2. f[x] = 0
      BY <2>3, <2>6
    <3>3. F[U \cap T] = F[(U \ {x}) \cap T]
      BY <3>1, Zenon
    <3>4. F[U] = F[U \cap T]
      BY <2>3, <2>4, <3>2, <3>3
    <3> QED
      BY <3>4
  <2> QED
    BY <2>5, <2>6
<1>3. F[S] = F[T]
  <2>1. S \cap T = T /\ S \in SUBSET S
    OBVIOUS
  <2> QED
    BY <1>2, <2>1
<1>4. SumFunctionOnSet(f, T) = F[T]
  <2> DEFINE G == [U \in SUBSET T |-> F[U]]
  <2>1. PicksAny(G, f, T)
    BY <1>1 DEF PicksAny
  <2>2. IsFiniteSet(T)
    BY FS_Subset
  <2>3. SumFunctionOnSet(f, T) = G[T]
    BY <2>1, <2>2, SumIsAny
  <2> QED
    BY <2>3
<1> QED
  BY <1>1, <1>3, <1>4, SumIsAny

(* Smaller terms, smaller sum.                                               *)
LEMMA SumAtMost ==
  ASSUME NEW S, IsFiniteSet(S), NEW f, NEW g,
         \A x \in S : f[x] \in Int /\ g[x] \in Int /\ f[x] =< g[x]
  PROVE  SumFunctionOnSet(f, S) =< SumFunctionOnSet(g, S)
<1> DEFINE d == [x \in S |-> g[x] - f[x]]
<1>1. \A x \in S : d[x] \in Nat /\ g[x] = f[x] + d[x]
  OBVIOUS
<1> HIDE DEF d
<1>2. SumFunctionOnSet(g, S) = SumFunctionOnSet(f, S) + SumFunctionOnSet(d, S)
  BY <1>1, SumAdd
<1>3. SumFunctionOnSet(d, S) \in Nat
  BY <1>1, SumNat
<1>4. SumFunctionOnSet(f, S) \in Int
  BY SumRules
<1> QED
  BY <1>2, <1>3, <1>4

(* A sum of naturals over fewer indices is smaller.                          *)
LEMMA SumWithin ==
  ASSUME NEW S, IsFiniteSet(S), NEW T \in SUBSET S, NEW f, \A x \in S : f[x] \in Nat
  PROVE  SumFunctionOnSet(f, T) =< SumFunctionOnSet(f, S)
<1> DEFINE g == [x \in S |-> IF x \in T THEN f[x] ELSE 0]
<1>1. SumFunctionOnSet(g, S) = SumFunctionOnSet(g, T)
  <2>1. \A x \in S : g[x] \in Int
    OBVIOUS
  <2>2. \A x \in S \ T : g[x] = 0
    OBVIOUS
  <2> HIDE DEF g
  <2> QED
    BY <2>1, <2>2, SumSupport
<1>2. SumFunctionOnSet(g, T) = SumFunctionOnSet(f, T)
  <2>1. \A x \in T : f[x] \in Int /\ g[x] = f[x]
    OBVIOUS
  <2>2. IsFiniteSet(T)
    BY FS_Subset
  <2> HIDE DEF g
  <2> QED
    BY <2>1, <2>2, SumSame
<1>3. SumFunctionOnSet(g, S) =< SumFunctionOnSet(f, S)
  <2>1. \A x \in S : g[x] \in Int /\ f[x] \in Int /\ g[x] =< f[x]
    OBVIOUS
  <2> HIDE DEF g
  <2> QED
    BY <2>1, SumAtMost
<1> QED
  BY <1>1, <1>2, <1>3

(* Terms that are each at most others, with the same sum, are the others.    *)
LEMMA SumEqual ==
  ASSUME NEW S, IsFiniteSet(S), NEW f, NEW g,
         \A x \in S : f[x] \in Int /\ g[x] \in Int /\ f[x] =< g[x],
         SumFunctionOnSet(f, S) = SumFunctionOnSet(g, S)
  PROVE  \A x \in S : f[x] = g[x]
<1> TAKE x \in S
<1>1. IsFiniteSet(S \ {x})
  BY FS_Subset
<1>2. SumFunctionOnSet(f, S \ {x}) =< SumFunctionOnSet(g, S \ {x})
  BY <1>1, SumAtMost
<1>3. /\ SumFunctionOnSet(f, S) = f[x] + SumFunctionOnSet(f, S \ {x})
      /\ SumFunctionOnSet(g, S) = g[x] + SumFunctionOnSet(g, S \ {x})
  BY SumRules
<1>4. SumFunctionOnSet(f, S \ {x}) \in Int /\ SumFunctionOnSet(g, S \ {x}) \in Int
  BY <1>1, SumRules
<1>5. f[x] \in Int /\ g[x] \in Int /\ f[x] =< g[x]
  OBVIOUS
<1>6. f[x] + SumFunctionOnSet(f, S \ {x}) = g[x] + SumFunctionOnSet(g, S \ {x})
  BY <1>3
<1>7. ASSUME NEW a \in Int, NEW b \in Int, NEW c \in Int, NEW d \in Int,
             a =< b, c =< d, a + c = b + d
      PROVE  a = b
  BY <1>7
<1> QED
  BY <1>2, <1>4, <1>5, <1>6, <1>7

(* A sum over a set with one more index.                                     *)
LEMMA SumInsert ==
  ASSUME NEW S, IsFiniteSet(S), NEW y, y \notin S, NEW f, \A x \in S \cup {y} : f[x] \in Int
  PROVE  SumFunctionOnSet(f, S \cup {y}) = f[y] + SumFunctionOnSet(f, S)
<1>1. IsFiniteSet(S \cup {y}) /\ (S \cup {y}) \ {y} = S
  BY FS_AddElement
<1> QED
  BY <1>1, SumRules

-----------------------------------------------------------------------------
(* The rows that the proofs over sums rest on, and the warehouses of a       *)
(* preference in their order.                                                *)

(* The tables are finite.                                                    *)
LEMMA FiniteTables ==
  /\ IsFiniteSet(Orders) /\ IsFiniteSet(Warehouses) /\ IsFiniteSet(Lots)
  /\ IsFiniteSet(Resvs) /\ IsFiniteSet(Lines) /\ IsFiniteSet(Lines \cup {Direct})
<1>1. IsFiniteSet(Warehouses) /\ IsFiniteSet(Lots) /\ IsFiniteSet(Resvs) /\ IsFiniteSet(Lines)
  BY FS_Interval, StockAssumption, FulfilmentAssumption DEF Warehouses, Lots, Resvs, Lines
<1> QED
  BY <1>1, FS_AddElement, StockAssumption

(* The rows that the balances, the shipments and the deals rest on.          *)
Numbered == /\ UsedResvs = 1..Cardinality(UsedResvs)
            /\ UsedLines = 1..Cardinality(UsedLines)

RowsWhole ==
  /\ \A r \in UsedResvs : res[r].wh # NoWh /\ res[r].order \in Orders
  /\ \A k \in Lines : IF line[k].res = NoRes THEN line[k].qty = 0 /\ ~line[k].linked
                                             ELSE line[k].res \in UsedResvs

LotsWhole ==
  \A l \in LotsAt(NoWh) : /\ lot[l].received = lot[l].remaining
                          /\ \A o \in Orders : reserved[o][l] = 0

(* A preference that puts the warehouses W in one order gives them the ranks *)
(* 1, 2, ... once each.                                                      *)
Sorts(pref, W) ==
  /\ \A v, w \in W : v # w => (<<v, w>> \in pref <=> <<w, v>> \notin pref)
  /\ \A u, v, w \in W : <<u, v>> \in pref /\ <<v, w>> \in pref => <<u, w>> \in pref
UpTo(pref, W, w) == {v \in W : v = w \/ <<v, w>> \in pref}

(* Two warehouses never have the same rank.                                  *)
LEMMA RanksDiffer ==
  ASSUME NEW W \in SUBSET Warehouses, NEW pref, Sorts(pref, W),
         NEW v \in W, NEW w \in W, <<v, w>> \in pref, v # w
  PROVE  Cardinality(UpTo(pref, W, v)) # Cardinality(UpTo(pref, W, w))
<1>1. UpTo(pref, W, v) \subseteq UpTo(pref, W, w)
  BY DEF UpTo, Sorts
<1>2. w \in UpTo(pref, W, w) /\ w \notin UpTo(pref, W, v)
  BY DEF UpTo, Sorts
<1>3. IsFiniteSet(UpTo(pref, W, w))
  <2>1. UpTo(pref, W, w) \in SUBSET Warehouses
    BY DEF UpTo
  <2> QED
    BY <2>1, FiniteTables, FS_Subset
<1>4. Cardinality(UpTo(pref, W, w)) = Cardinality(UpTo(pref, W, v))
        => UpTo(pref, W, w) = UpTo(pref, W, v)
  BY <1>1, <1>3, FS_Subset
<1> QED
  BY <1>2, <1>4

(* The ranks are the numbers up to the number of warehouses.                 *)
LEMMA RanksCover ==
  ASSUME NEW W \in SUBSET Warehouses, NEW pref, Sorts(pref, W)
  PROVE  /\ Cardinality(W) \in Nat
         /\ \A w \in W : Cardinality(UpTo(pref, W, w)) \in 1..Cardinality(W)
         /\ \A v, w \in W : v # w =>
              Cardinality(UpTo(pref, W, v)) # Cardinality(UpTo(pref, W, w))
         /\ \A n \in 1..Cardinality(W) : \E w \in W : Cardinality(UpTo(pref, W, w)) = n
<1>1. IsFiniteSet(W) /\ Cardinality(W) \in Nat
  BY FiniteTables, FS_Subset, FS_CardinalityType
<1>2. ASSUME NEW w \in W
      PROVE  Cardinality(UpTo(pref, W, w)) \in 1..Cardinality(W)
  <2>1. UpTo(pref, W, w) \in SUBSET W /\ w \in UpTo(pref, W, w)
    BY DEF UpTo
  <2>2. IsFiniteSet(UpTo(pref, W, w)) /\ Cardinality(UpTo(pref, W, w)) =< Cardinality(W)
    BY <1>1, <2>1, FS_Subset
  <2>3. Cardinality(UpTo(pref, W, w)) \in Nat /\ Cardinality(UpTo(pref, W, w)) # 0
    BY <2>1, <2>2, FS_CardinalityType, FS_EmptySet
  <2> QED
    BY <1>1, <2>2, <2>3
<1>3. ASSUME NEW v \in W, NEW w \in W, v # w
      PROVE  Cardinality(UpTo(pref, W, v)) # Cardinality(UpTo(pref, W, w))
  <2>1. <<v, w>> \in pref \/ <<w, v>> \in pref
    BY <1>3 DEF Sorts
  <2> QED
    BY <1>3, <2>1, RanksDiffer
<1> DEFINE rank == [w \in W |-> Cardinality(UpTo(pref, W, w))]
<1>4. rank \in Injection(W, 1..Cardinality(W))
  BY <1>2, <1>3 DEF Injection, IsInjective
<1>5. rank \in Surjection(W, 1..Cardinality(W))
  <2>1. IsFiniteSet(1..Cardinality(W)) /\ Cardinality(1..Cardinality(W)) = Cardinality(W)
    BY <1>1, FS_Interval
  <2> HIDE DEF rank
  <2> QED
    BY <1>1, <1>4, <2>1, FS_Injection
<1> QED
  BY <1>1, <1>2, <1>3, <1>5 DEF Surjection

-----------------------------------------------------------------------------
(* Reserve: which rows it writes.                                            *)

(* The new reservations and lines of Reserve get the numbers that follow the *)
(* last ones.                                                                *)
LEMMA NewResvs ==
  ASSUME Numbered, NEW o, NEW g, NEW pref, Sorts(pref, Wanted(g)), RoomFor(o, g)
  PROVE  /\ \A w \in NewAt(o, g) : ResvFor(o, g, pref, w) \in Resvs \ UsedResvs
         /\ \A v, w \in NewAt(o, g) : v # w => ResvFor(o, g, pref, v) # ResvFor(o, g, pref, w)
         /\ UsedResvs \cup {ResvFor(o, g, pref, w) : w \in NewAt(o, g)}
              = 1..(Cardinality(UsedResvs) + Cardinality(NewAt(o, g)))
<1> DEFINE W == NewAt(o, g)
           m == Cardinality(UsedResvs)
           n == Cardinality(W)
<1>1. W \in SUBSET Warehouses /\ Sorts(pref, W)
  BY DEF NewAt, Wanted, Sorts
<1>2. \A w \in W : ResvFor(o, g, pref, w) = m + Cardinality(UpTo(pref, W, w))
  BY DEF ResvFor, NewAt, UpTo
<1>3. m \in Nat /\ n \in Nat /\ m + n =< MaxResvs /\ MaxResvs \in Nat
  BY <1>1, RanksCover, UsedResvsFinite, FulfilmentAssumption DEF RoomFor
<1>4. UsedResvs = 1..m
  BY DEF Numbered
<1>5. /\ \A w \in W : Cardinality(UpTo(pref, W, w)) \in 1..n
      /\ \A v, w \in W : v # w => Cardinality(UpTo(pref, W, v)) # Cardinality(UpTo(pref, W, w))
      /\ \A i \in 1..n : \E w \in W : Cardinality(UpTo(pref, W, w)) = i
  BY <1>1, RanksCover
<1> HIDE DEF W, m, n
<1>6. \A w \in W : ResvFor(o, g, pref, w) \in (m + 1)..(m + n)
  BY <1>2, <1>3, <1>5
<1>7. \A w \in W : ResvFor(o, g, pref, w) \in Resvs \ UsedResvs
  BY <1>3, <1>4, <1>6 DEF Resvs
<1>8. \A v, w \in W : v # w => ResvFor(o, g, pref, v) # ResvFor(o, g, pref, w)
  BY <1>2, <1>3, <1>5
<1>9. ASSUME NEW r \in (m + 1)..(m + n)
      PROVE  \E w \in W : ResvFor(o, g, pref, w) = r
  <2>1. r - m \in 1..n /\ m + (r - m) = r
    BY <1>3
  <2> QED
    BY <1>2, <1>5, <2>1
<1>10. UsedResvs \cup {ResvFor(o, g, pref, w) : w \in W} = 1..(m + n)
  <2>1. 1..(m + n) = 1..m \cup (m + 1)..(m + n)
    BY <1>3
  <2> QED
    BY <1>4, <1>6, <1>9, <2>1
<1> QED
  BY <1>7, <1>8, <1>10 DEF W, m, n

LEMMA NewLines ==
  ASSUME Numbered, NEW o, NEW g, NEW pref, Sorts(pref, Wanted(g)), RoomFor(o, g)
  PROVE  /\ \A w \in Wanted(g) : LineFor(g, pref, w) \in Lines \ UsedLines
         /\ \A v, w \in Wanted(g) : v # w => LineFor(g, pref, v) # LineFor(g, pref, w)
         /\ UsedLines \cup {LineFor(g, pref, w) : w \in Wanted(g)}
              = 1..(Cardinality(UsedLines) + Cardinality(Wanted(g)))
<1> DEFINE W == Wanted(g)
           m == Cardinality(UsedLines)
           n == Cardinality(W)
<1>1. W \in SUBSET Warehouses
  BY DEF Wanted
<1>2. \A w \in W : LineFor(g, pref, w) = m + Cardinality(UpTo(pref, W, w))
  BY DEF LineFor, UpTo
<1>3. m \in Nat /\ n \in Nat /\ m + n =< MaxLines /\ MaxLines \in Nat
  BY <1>1, RanksCover, UsedResvsFinite, FulfilmentAssumption DEF RoomFor
<1>4. UsedLines = 1..m
  BY DEF Numbered
<1>5. /\ \A w \in W : Cardinality(UpTo(pref, W, w)) \in 1..n
      /\ \A v, w \in W : v # w => Cardinality(UpTo(pref, W, v)) # Cardinality(UpTo(pref, W, w))
      /\ \A i \in 1..n : \E w \in W : Cardinality(UpTo(pref, W, w)) = i
  BY <1>1, RanksCover
<1> HIDE DEF W, m, n
<1>6. \A w \in W : LineFor(g, pref, w) \in (m + 1)..(m + n)
  BY <1>2, <1>3, <1>5
<1>7. \A w \in W : LineFor(g, pref, w) \in Lines \ UsedLines
  BY <1>3, <1>4, <1>6 DEF Lines
<1>8. \A v, w \in W : v # w => LineFor(g, pref, v) # LineFor(g, pref, w)
  BY <1>2, <1>3, <1>5
<1>9. ASSUME NEW r \in (m + 1)..(m + n)
      PROVE  \E w \in W : LineFor(g, pref, w) = r
  <2>1. r - m \in 1..n /\ m + (r - m) = r
    BY <1>3
  <2> QED
    BY <1>2, <1>5, <2>1
<1>10. UsedLines \cup {LineFor(g, pref, w) : w \in W} = 1..(m + n)
  <2>1. 1..(m + n) = 1..m \cup (m + 1)..(m + n)
    BY <1>3
  <2> QED
    BY <1>4, <1>6, <1>9, <2>1
<1> QED
  BY <1>7, <1>8, <1>10 DEF W, m, n

(* An order with a reservation at a warehouse gets its line there.           *)
LEMMA OldResv ==
  ASSUME NEW o, NEW g, NEW pref, NEW w \in Wanted(g) \ NewAt(o, g)
  PROVE  LET r == ResvFor(o, g, pref, w)
         IN  r \in UsedResvs /\ res[r].order = o /\ res[r].wh = w
             /\ res[r].status \in ActiveStatuses
<1>1. Existing(o, w) # {} /\ Existing(o, w) \in SUBSET Resvs
  BY DEF NewAt, Existing, ActiveResvs
<1>2. ResvFor(o, g, pref, w) = LastOf(Existing(o, w))
  BY <1>1 DEF ResvFor
<1>3. ResvFor(o, g, pref, w) \in Existing(o, w)
  BY <1>1, <1>2, LastOfType
<1> QED
  BY <1>3 DEF Existing, ActiveResvs, UsedResvs, ActiveStatuses

LEMMA StatusOfUsed ==
  ASSUME NEW ln, NEW r, NEW old
  PROVE  StatusOf(ln, r, old) # "none"
BY DEF StatusOf

(* What Reserve writes: a line of g[w] units for each warehouse w it was     *)
(* asked for, in a reservation of the order at w; the other rows stay.       *)
LEMMA ReserveEffect ==
  ASSUME TypeOK, Numbered, NEW o \in Orders, NEW g \in [Warehouses -> 0..MaxQty], NEW pref,
         Sorts(pref, Wanted(g)), Reserve(o, g, pref)
  PROVE  /\ \A w \in Wanted(g) :
              /\ line'[LineFor(g, pref, w)].res = ResvFor(o, g, pref, w)
              /\ line'[LineFor(g, pref, w)].res \in UsedResvs'
              /\ res'[line'[LineFor(g, pref, w)].res].order = o
              /\ res'[line'[LineFor(g, pref, w)].res].wh = w
              /\ line'[LineFor(g, pref, w)].linked
              /\ line'[LineFor(g, pref, w)].qty = g[w]
              /\ line'[LineFor(g, pref, w)].ful = 0
              /\ line'[LineFor(g, pref, w)].rel = 0
         /\ \A k \in Lines : (\A w \in Wanted(g) : LineFor(g, pref, w) # k) => line'[k] = line[k]
         /\ \A r \in UsedResvs :
              r \in UsedResvs' /\ res'[r].order = res[r].order /\ res'[r].wh = res[r].wh
         /\ \A r \in UsedResvs' \ UsedResvs : res'[r].order = o /\ res'[r].wh \in Wanted(g)
         /\ Numbered'
<1> DEFINE rs == ReservedRows(o, g, pref)
           new == {ResvFor(o, g, pref, w) : w \in NewAt(o, g)}
<1>1. /\ \A w \in NewAt(o, g) : ResvFor(o, g, pref, w) \in Resvs \ UsedResvs
      /\ \A v, w \in NewAt(o, g) : v # w => ResvFor(o, g, pref, v) # ResvFor(o, g, pref, w)
      /\ UsedResvs \cup new = 1..(Cardinality(UsedResvs) + Cardinality(NewAt(o, g)))
  BY NewResvs DEF Reserve
<1>2. /\ \A w \in Wanted(g) : LineFor(g, pref, w) \in Lines \ UsedLines
      /\ \A v, w \in Wanted(g) : v # w => LineFor(g, pref, v) # LineFor(g, pref, w)
      /\ UsedLines \cup {LineFor(g, pref, w) : w \in Wanted(g)}
           = 1..(Cardinality(UsedLines) + Cardinality(Wanted(g)))
  BY NewLines DEF Reserve
<1>3. ASSUME NEW w \in NewAt(o, g)
      PROVE  rs[ResvFor(o, g, pref, w)] = [status |-> "active", order |-> o, wh |-> w]
  <2>1. w = CHOOSE v \in NewAt(o, g) : ResvFor(o, g, pref, v) = ResvFor(o, g, pref, w)
    BY <1>1, Zenon
  <2> QED
    BY <1>1, <2>1 DEF ReservedRows
<1>4. \A r \in Resvs \ new : rs[r] = res[r]
  BY DEF ReservedRows
<1>5. \A r \in Resvs : /\ res'[r].order = rs[r].order
                       /\ res'[r].wh = rs[r].wh
                       /\ res'[r].status # rs[r].status => res'[r].status # "none"
  <2>1. rs \in [Resvs -> Reservation]
    BY ReservedRowsType
  <2> HIDE DEF rs
  <2>2. res' = Recomputed(rs, line', {ResvFor(o, g, pref, w) : w \in Wanted(g)})
    BY DEF Reserve, rs
  <2> QED
    BY <2>1, <2>2, StatusOfUsed DEF Recomputed, Reservation
<1>6. ASSUME NEW r \in Resvs, r \notin new, r \notin UsedResvs
      PROVE  r \notin UsedResvs'
  <2>1. \A w \in Wanted(g) : ResvFor(o, g, pref, w) # r
    BY <1>6, OldResv
  <2>2. rs[r] = res[r] /\ res[r].status = "none"
    BY <1>4, <1>6 DEF UsedResvs
  <2>3. res'[r] = rs[r]
    BY <2>1 DEF Reserve, Recomputed
  <2> QED
    BY <2>2, <2>3 DEF UsedResvs
<1>7. ASSUME NEW r \in new
      PROVE  r \in UsedResvs' /\ res'[r].order = o /\ res'[r].wh \in Wanted(g)
  <2>1. PICK w \in NewAt(o, g) : r = ResvFor(o, g, pref, w)
    OBVIOUS
  <2>2. rs[r] = [status |-> "active", order |-> o, wh |-> w] /\ r \in Resvs
    BY <1>1, <1>3, <2>1
  <2>3. res'[r].status # "none" /\ res'[r].order = o /\ res'[r].wh = w
    BY <1>5, <2>2
  <2> QED
    BY <2>2, <2>3 DEF UsedResvs, NewAt
<1>8. ASSUME NEW r \in UsedResvs
      PROVE  r \in UsedResvs' /\ res'[r].order = res[r].order /\ res'[r].wh = res[r].wh
  <2>1. r \in Resvs /\ r \notin new
    BY <1>1 DEF UsedResvs
  <2>2. rs[r] = res[r] /\ res[r].status # "none"
    BY <1>4, <2>1 DEF UsedResvs
  <2>3. res'[r].status # "none" /\ res'[r].order = res[r].order /\ res'[r].wh = res[r].wh
    BY <1>5, <2>1, <2>2
  <2> QED
    BY <2>1, <2>3 DEF UsedResvs
<1>9. UsedResvs' = UsedResvs \cup new
  <2>1. UsedResvs' \subseteq Resvs /\ UsedResvs \subseteq Resvs /\ new \subseteq Resvs
    BY <1>1 DEF UsedResvs
  <2> QED
    BY <1>6, <1>7, <1>8, <2>1
<1>10. ASSUME NEW w \in Wanted(g)
       PROVE  LET r == ResvFor(o, g, pref, w)
              IN  r \in UsedResvs' /\ res'[r].order = o /\ res'[r].wh = w
  <2>1. CASE w \in NewAt(o, g)
    <3>1. rs[ResvFor(o, g, pref, w)] = [status |-> "active", order |-> o, wh |-> w]
      BY <1>3, <2>1
    <3> QED
      BY <1>1, <1>5, <1>7, <2>1, <3>1
  <2>2. CASE w \notin NewAt(o, g)
    BY <1>8, <2>2, OldResv
  <2> QED
    BY <2>1, <2>2
<1>11. ASSUME NEW w \in Wanted(g)
       PROVE  LET it == line'[LineFor(g, pref, w)]
              IN  /\ it.res = ResvFor(o, g, pref, w)
                  /\ it.linked
                  /\ it.qty = g[w] /\ it.ful = 0 /\ it.rel = 0
  <2>1. w = CHOOSE v \in Wanted(g) : LineFor(g, pref, v) = LineFor(g, pref, w)
    BY <1>2, Zenon
  <2>2. LineFor(g, pref, w) \in Lines
    BY <1>2
  <2>3. line' = ReservedLines(o, g, pref)
    BY DEF Reserve
  <2>4. line'[LineFor(g, pref, w)] = [res |-> ResvFor(o, g, pref, w), linked |-> TRUE,
                                      qty |-> g[w], ful |-> 0, rel |-> 0]
    BY <2>1, <2>2, <2>3 DEF ReservedLines
  <2> QED
    BY <2>4
<1>12. \A k \in Lines : (\A w \in Wanted(g) : LineFor(g, pref, w) # k) => line'[k] = line[k]
  BY DEF Reserve, ReservedLines
<1>13. UsedLines' = UsedLines \cup {LineFor(g, pref, w) : w \in Wanted(g)}
  <2>1. ASSUME NEW w \in Wanted(g)
        PROVE  LineFor(g, pref, w) \in UsedLines'
    <3>1. ResvFor(o, g, pref, w) # NoRes
      BY <1>10 DEF UsedResvs, Resvs, NoRes
    <3>2. LineFor(g, pref, w) \in Lines
      BY <1>2
    <3>3. line'[LineFor(g, pref, w)].res # NoRes
      BY <1>11, <3>1, Zenon
    <3> QED
      BY <3>2, <3>3 DEF UsedLines
  <2>2. \A k \in UsedLines : k \in UsedLines'
    BY <1>2, <1>12 DEF UsedLines
  <2>3. \A k \in UsedLines' : k \in UsedLines \/ \E w \in Wanted(g) : LineFor(g, pref, w) = k
    BY <1>12 DEF UsedLines
  <2> QED
    BY <2>1, <2>2, <2>3
<1>14. Numbered'
  <2>1. Cardinality(UsedResvs) \in Nat /\ Cardinality(UsedLines) \in Nat
    BY UsedResvsFinite
  <2>2. Cardinality(NewAt(o, g)) \in Nat /\ Cardinality(Wanted(g)) \in Nat
    BY SubsetCount DEF NewAt, Wanted
  <2>3. /\ UsedResvs' = 1..(Cardinality(UsedResvs) + Cardinality(NewAt(o, g)))
        /\ UsedLines' = 1..(Cardinality(UsedLines) + Cardinality(Wanted(g)))
    BY <1>1, <1>2, <1>9, <1>13
  <2>4. ASSUME NEW n \in Nat
        PROVE  Cardinality(1..n) = n
    BY FS_Interval
  <2> QED
    BY <2>1, <2>2, <2>3, <2>4 DEF Numbered
<1> QED
  <2>1. \A r \in UsedResvs' \ UsedResvs : res'[r].order = o /\ res'[r].wh \in Wanted(g)
    BY <1>7, <1>9
  <2>2. ASSUME NEW w \in Wanted(g)
        PROVE  /\ line'[LineFor(g, pref, w)].res = ResvFor(o, g, pref, w)
               /\ line'[LineFor(g, pref, w)].res \in UsedResvs'
               /\ res'[line'[LineFor(g, pref, w)].res].order = o
               /\ res'[line'[LineFor(g, pref, w)].res].wh = w
               /\ line'[LineFor(g, pref, w)].linked
               /\ line'[LineFor(g, pref, w)].qty = g[w]
               /\ line'[LineFor(g, pref, w)].ful = 0
               /\ line'[LineFor(g, pref, w)].rel = 0
    <3>1. line'[LineFor(g, pref, w)].res = ResvFor(o, g, pref, w)
      BY <1>11
    <3> QED
      BY <1>10, <1>11, <3>1
  <2> QED
    BY <1>8, <1>12, <1>14, <2>1, <2>2

-----------------------------------------------------------------------------
(* The units that lines promise, as sums over sets of lines.                 *)

(* Units g that are put, one by one, on indices outside of S.                *)
LEMMA SumPlaced ==
  ASSUME NEW S, IsFiniteSet(S), NEW W, IsFiniteSet(W), NEW c, NEW f, NEW g,
         \A x \in S : f[x] \in Int,
         \A w \in W : c[w] \notin S /\ g[w] \in Int /\ f[c[w]] = g[w],
         \A v, w \in W : v # w => c[v] # c[w]
  PROVE  SumFunctionOnSet(f, S \cup {c[w] : w \in W})
           = SumFunctionOnSet(f, S) + SumFunctionOnSet(g, W)
<1> DEFINE On(V) == S \cup {c[w] : w \in V}
           B == {V \in SUBSET W : ~(/\ IsFiniteSet(On(V))
                                    /\ SumFunctionOnSet(f, On(V)) =
                                         SumFunctionOnSet(f, S) + SumFunctionOnSet(g, V))}
<1>1. B = {}
  <2> SUFFICES ASSUME B # {} PROVE FALSE
    OBVIOUS
  <2>1. PICK V \in B : \A x \in V : V \ {x} \notin B
    BY SmallestSubset
  <2>2. V # {}
    <3> SUFFICES ASSUME V = {} PROVE FALSE
      OBVIOUS
    <3>1. On(V) = S
      OBVIOUS
    <3>2. SumFunctionOnSet(g, V) = 0
      BY SumRules, FS_EmptySet
    <3>3. SumFunctionOnSet(f, On(V)) = SumFunctionOnSet(f, S)
      BY <3>1, Zenon
    <3>4. SumFunctionOnSet(f, S) \in Int
      BY SumRules
    <3>5. SumFunctionOnSet(f, On(V)) = SumFunctionOnSet(f, S) + SumFunctionOnSet(g, V)
      BY <3>2, <3>3, <3>4
    <3>6. IsFiniteSet(On(V))
      BY <3>1, Zenon
    <3> QED
      BY <3>5, <3>6
  <2>3. PICK x \in V : TRUE
    BY <2>2
  <2>4. V \in SUBSET W /\ x \in W /\ IsFiniteSet(V)
    BY <2>1, FS_Subset
  <2>5. /\ IsFiniteSet(On(V \ {x}))
        /\ SumFunctionOnSet(f, On(V \ {x})) =
             SumFunctionOnSet(f, S) + SumFunctionOnSet(g, V \ {x})
    BY <2>1, <2>4
  <2>6. On(V) = On(V \ {x}) \cup {c[x]} /\ c[x] \notin On(V \ {x})
    BY <2>4
  <2>7. \A y \in On(V \ {x}) \cup {c[x]} : f[y] \in Int
    BY <2>4
  <2>8. SumFunctionOnSet(f, On(V \ {x}) \cup {c[x]}) = f[c[x]] + SumFunctionOnSet(f, On(V \ {x}))
    BY <2>5, <2>6, <2>7, SumInsert
  <2>9. SumFunctionOnSet(g, V) = g[x] + SumFunctionOnSet(g, V \ {x})
    BY <2>4, SumRules
  <2>10. SumFunctionOnSet(f, S) \in Int /\ SumFunctionOnSet(g, V \ {x}) \in Int
         /\ g[x] \in Int /\ f[c[x]] = g[x]
    <3>1. IsFiniteSet(V \ {x})
      BY <2>4, FS_Subset
    <3> QED
      BY <2>4, <3>1, SumRules
  <2>11. SumFunctionOnSet(f, On(V)) = SumFunctionOnSet(f, On(V \ {x}) \cup {c[x]})
    BY <2>6, Zenon
  <2>12. IsFiniteSet(On(V))
    <3> HIDE DEF On
    <3>1. IsFiniteSet(On(V \ {x}) \cup {c[x]})
      BY <2>5, FS_AddElement
    <3> QED
      BY <2>6, <3>1, Zenon
  <2> HIDE DEF On
  <2>13. SumFunctionOnSet(f, On(V)) = SumFunctionOnSet(f, S) + SumFunctionOnSet(g, V)
    BY <2>5, <2>8, <2>9, <2>10, <2>11
  <2> QED
    BY <2>12, <2>13
<1> QED
  BY <1>1

(* What the reservation lines promise, when a closed reservation is empty.   *)
Tidy(rs, ln) ==
  /\ rs \in [Resvs -> Reservation]
  /\ ln \in [Lines -> ReservationItem]
  /\ \A k \in Lines : ln[k].res # NoRes =>
       /\ ln[k].linked
       /\ rs[ln[k].res].status \in ActiveStatuses \/ Active(ln[k]) = 0

LinesFor(rs, ln, o)   == {k \in Lines : ln[k].res # NoRes /\ rs[ln[k].res].order = o}
LinesIn(rs, ln, w)    == {k \in Lines : ln[k].res # NoRes /\ rs[ln[k].res].wh = w}
LinesAt(rs, ln, o, w) == LinesFor(rs, ln, o) \cap LinesIn(rs, ln, w)

LEMMA SumActiveNat ==
  ASSUME NEW ln \in [Lines -> ReservationItem], NEW K \in SUBSET Lines
  PROVE  SumActive(ln, K) \in Nat
<1>1. IsFiniteSet(K)
  BY FiniteTables, FS_Subset
<1> DEFINE f == [k \in Lines |-> Active(ln[k])]
<1>2. \A k \in K : f[k] \in Nat
  BY ActiveType
<1> HIDE DEF f
<1> QED
  BY <1>1, <1>2, SumNat DEF SumActive, f

LEMMA SumActiveSupport ==
  ASSUME NEW ln \in [Lines -> ReservationItem], NEW K \in SUBSET Lines, NEW L \in SUBSET K,
         \A k \in K \ L : Active(ln[k]) = 0
  PROVE  SumActive(ln, K) = SumActive(ln, L)
<1>1. IsFiniteSet(K)
  BY FiniteTables, FS_Subset
<1> DEFINE f == [k \in Lines |-> Active(ln[k])]
<1>2. (\A k \in K : f[k] \in Int) /\ \A k \in K \ L : f[k] = 0
  BY ActiveType
<1> HIDE DEF f
<1> QED
  BY <1>1, <1>2, SumSupport DEF SumActive, f

(* The sums of the model as sums over such sets of lines: Promised, then     *)
(* Reserved, then Documented.                                                *)
LEMMA PromisedSum ==
  ASSUME NEW rs, NEW ln, Tidy(rs, ln), NEW w
  PROVE  Promised(rs, ln, w) = SumActive(ln, LinesIn(rs, ln, w))
<1> DEFINE L == {k \in Lines : \E r \in Resvs : /\ ln[k].res = r
                                                /\ rs[r].status \in ActiveStatuses
                                                /\ rs[r].wh = w}
<1>1. L \in SUBSET LinesIn(rs, ln, w) /\ LinesIn(rs, ln, w) \in SUBSET Lines
  BY FulfilmentAssumption DEF LinesIn, Resvs, NoRes
<1>2. ASSUME NEW k \in LinesIn(rs, ln, w) \ L
      PROVE  Active(ln[k]) = 0
  BY DEF LinesIn, Tidy, ReservationItem
<1>3. SumActive(ln, LinesIn(rs, ln, w)) = SumActive(ln, L)
  BY <1>1, <1>2, SumActiveSupport DEF Tidy
<1> QED
  BY <1>3 DEF Promised

LEMMA ReservedSum ==
  ASSUME NEW rs, NEW ln, Tidy(rs, ln), NEW o
  PROVE  SumActive(ln, {k \in HoldingLines(rs, ln, o) : ln[k].linked})
           = SumActive(ln, LinesFor(rs, ln, o))
<1> DEFINE L == {k \in HoldingLines(rs, ln, o) : ln[k].linked}
<1>1. L \in SUBSET LinesFor(rs, ln, o) /\ LinesFor(rs, ln, o) \in SUBSET Lines
  BY FulfilmentAssumption DEF LinesFor, HoldingLines, ActiveResvs, Resvs, NoRes
<1>2. ASSUME NEW k \in LinesFor(rs, ln, o) \ L
      PROVE  Active(ln[k]) = 0
  <2>1. k \in Lines /\ ln[k].res \in Resvs /\ rs[ln[k].res].order = o /\ ln[k].linked
    BY DEF LinesFor, Tidy, ReservationItem
  <2>2. Active(ln[k]) \in Nat
    BY <2>1, ActiveType DEF Tidy
  <2>3. rs[ln[k].res].status \in ActiveStatuses => ~(Active(ln[k]) > 0)
    BY <2>1 DEF HoldingLines, ActiveResvs
  <2> QED
    BY <2>1, <2>2, <2>3 DEF Tidy, LinesFor
<1>3. SumActive(ln, LinesFor(rs, ln, o)) = SumActive(ln, L)
  BY <1>1, <1>2, SumActiveSupport DEF Tidy
<1> QED
  BY <1>3

LEMMA DocumentedSum ==
  ASSUME NEW rs, NEW ln, Tidy(rs, ln), NEW o, NEW w
  PROVE  SumActive(ln, {k \in HoldingLines(rs, ln, o) : ln[k].linked /\ rs[ln[k].res].wh = w})
           = SumActive(ln, LinesAt(rs, ln, o, w))
<1> DEFINE L == {k \in HoldingLines(rs, ln, o) : ln[k].linked /\ rs[ln[k].res].wh = w}
<1>1. L \in SUBSET LinesAt(rs, ln, o, w) /\ LinesAt(rs, ln, o, w) \in SUBSET Lines
  BY FulfilmentAssumption
  DEF LinesAt, LinesFor, LinesIn, HoldingLines, ActiveResvs, Resvs, NoRes
<1>2. ASSUME NEW k \in LinesAt(rs, ln, o, w) \ L
      PROVE  Active(ln[k]) = 0
  <2>1. /\ k \in Lines /\ ln[k].res \in Resvs /\ ln[k].linked
        /\ rs[ln[k].res].order = o /\ rs[ln[k].res].wh = w
    BY DEF LinesAt, LinesFor, LinesIn, Tidy, ReservationItem
  <2>2. Active(ln[k]) \in Nat
    BY <2>1, ActiveType DEF Tidy
  <2>3. rs[ln[k].res].status \in ActiveStatuses => ~(Active(ln[k]) > 0)
    BY <2>1 DEF HoldingLines, ActiveResvs
  <2> QED
    BY <2>1, <2>2, <2>3 DEF Tidy, LinesAt, LinesFor
<1>3. SumActive(ln, LinesAt(rs, ln, o, w)) = SumActive(ln, L)
  BY <1>1, <1>2, SumActiveSupport DEF Tidy
<1> QED
  BY <1>3

(* Lines that give up the units less[k] of what is active.                   *)
LEMMA SumActiveLess ==
  ASSUME NEW ln \in [Lines -> ReservationItem], NEW it \in [Lines -> ReservationItem],
         NEW less, NEW K \in SUBSET Lines,
         \A k \in K : less[k] \in Nat /\ Active(it[k]) = Active(ln[k]) - less[k]
  PROVE  SumActive(ln, K) = SumActive(it, K) + SumFunctionOnSet(less, K)
<1>1. IsFiniteSet(K)
  BY FiniteTables, FS_Subset
<1> DEFINE f == [k \in Lines |-> Active(ln[k])]
           g == [k \in Lines |-> Active(it[k])]
<1>2. \A k \in K : g[k] \in Int /\ less[k] \in Int /\ f[k] = g[k] + less[k]
  BY ActiveType
<1> HIDE DEF f, g
<1> QED
  BY <1>1, <1>2, SumAdd DEF SumActive, f, g

LEMMA SumActiveSame ==
  ASSUME NEW ln \in [Lines -> ReservationItem], NEW it \in [Lines -> ReservationItem],
         NEW K \in SUBSET Lines, \A k \in K : Active(it[k]) = Active(ln[k])
  PROVE  SumActive(it, K) = SumActive(ln, K)
<1>1. IsFiniteSet(K)
  BY FiniteTables, FS_Subset
<1> DEFINE f == [k \in Lines |-> Active(ln[k])]
           g == [k \in Lines |-> Active(it[k])]
<1>2. \A k \in K : f[k] \in Int /\ g[k] = f[k]
  BY ActiveType
<1> HIDE DEF f, g
<1> QED
  BY <1>1, <1>2, SumSame DEF SumActive, f, g

-----------------------------------------------------------------------------
(* The units that orders hold on the lots of a warehouse.                    *)

(* The units that Fifo and TakeAcross take at a warehouse.                   *)
LEMMA FifoTotal ==
  ASSUME NEW avail, NEW S \in SUBSET Lots, NEW q, NEW t \in Fifo(avail, S, q)
  PROVE  /\ SumFunctionOnSet(t, S) = q
         /\ \A T \in SUBSET Lots : T \cap S = {} => SumFunctionOnSet(t, T) = 0
<1>1. t \in [Lots -> 0..MaxQty] /\ SumFunctionOnSet(t, Lots) = q /\ \A l \in Lots \ S : ~(t[l] > 0)
  BY DEF Fifo, SumFunction
<1>2. (\A l \in Lots : t[l] \in Int) /\ \A l \in Lots \ S : t[l] = 0
  BY <1>1, StockAssumption
<1>3. SumFunctionOnSet(t, S) = q
  BY <1>1, <1>2, FiniteTables, SumSupport
<1>4. ASSUME NEW T \in SUBSET Lots, T \cap S = {}
      PROVE  SumFunctionOnSet(t, T) = 0
  <2>1. IsFiniteSet(T) /\ IsFiniteSet({})
    BY FiniteTables, FS_Subset, FS_EmptySet
  <2>2. (\A l \in T : t[l] \in Int) /\ \A l \in T \ {} : t[l] = 0
    BY <1>2, <1>4
  <2>3. SumFunctionOnSet(t, T) = SumFunctionOnSet(t, {})
    BY <2>1, <2>2, SumSupport
  <2>4. SumFunctionOnSet(t, {}) = 0
    BY <2>1, SumRules
  <2> QED
    BY <2>3, <2>4
<1> QED
  BY <1>3, <1>4

LEMMA TakenAt ==
  ASSUME NEW avail, NEW need, NEW t \in TakeAcross(avail, need), NEW w \in Warehouses
  PROVE  SumFunctionOnSet(t, LotsAt(w)) = need[w]
<1> DEFINE u == [l \in Lots |-> IF lot[l].wh = w THEN t[l] ELSE 0]
<1>1. u \in Fifo(avail, LotsAt(w), need[w]) /\ t \in [Lots -> 0..MaxQty]
  BY DEF TakeAcross
<1>2. LotsAt(w) \in SUBSET Lots /\ IsFiniteSet(LotsAt(w))
  BY FiniteTables, FS_Subset DEF LotsAt
<1>3. \A l \in LotsAt(w) : t[l] \in Int /\ u[l] = t[l]
  BY <1>1, StockAssumption DEF LotsAt
<1> HIDE DEF u
<1>4. SumFunctionOnSet(u, LotsAt(w)) = need[w]
  BY <1>1, <1>2, FifoTotal
<1> QED
  BY <1>2, <1>3, <1>4, SumSame

LEMMA HeldAtNat ==
  ASSUME StockTypeOK, NEW o \in Orders, NEW w
  PROVE  HeldAt(o, w) \in Nat
<1>1. LotsAt(w) \in SUBSET Lots /\ IsFiniteSet(LotsAt(w))
  BY FiniteTables, FS_Subset DEF LotsAt
<1>2. \A l \in LotsAt(w) : reserved[o][l] \in Nat
  BY <1>1 DEF StockTypeOK
<1> QED
  BY <1>1, <1>2, SumNat DEF HeldAt

(* Holds that grow by t, or shrink by t, while no lot changes its warehouse. *)
LEMMA HeldMore ==
  ASSUME StockTypeOK, NEW o \in Orders, NEW t \in [Lots -> Nat], NEW w, LotsAt(w)' = LotsAt(w),
         \A l \in Lots : reserved'[o][l] = reserved[o][l] + t[l]
  PROVE  HeldAt(o, w)' = HeldAt(o, w) + SumFunctionOnSet(t, LotsAt(w))
<1>1. LotsAt(w) \in SUBSET Lots /\ IsFiniteSet(LotsAt(w))
  BY FiniteTables, FS_Subset DEF LotsAt
<1>2. \A l \in LotsAt(w) : /\ reserved[o][l] \in Int /\ t[l] \in Int
                           /\ reserved'[o][l] = reserved[o][l] + t[l]
  BY <1>1 DEF StockTypeOK
<1>3. SumFunctionOnSet(reserved'[o], LotsAt(w)) =
        SumFunctionOnSet(reserved[o], LotsAt(w)) + SumFunctionOnSet(t, LotsAt(w))
  BY <1>1, <1>2, SumAdd
<1> QED
  BY <1>3 DEF HeldAt

LEMMA HeldLess ==
  ASSUME StockTypeOK, NEW o \in Orders, NEW t \in [Lots -> Nat], NEW w, LotsAt(w)' = LotsAt(w),
         \A l \in Lots : t[l] =< reserved[o][l] /\ reserved'[o][l] = reserved[o][l] - t[l]
  PROVE  HeldAt(o, w) = HeldAt(o, w)' + SumFunctionOnSet(t, LotsAt(w))
<1>1. LotsAt(w) \in SUBSET Lots /\ IsFiniteSet(LotsAt(w))
  BY FiniteTables, FS_Subset DEF LotsAt
<1>2. \A l \in LotsAt(w) : /\ reserved'[o][l] \in Int /\ t[l] \in Int
                           /\ reserved[o][l] = reserved'[o][l] + t[l]
  BY <1>1 DEF StockTypeOK
<1>3. SumFunctionOnSet(reserved[o], LotsAt(w)) =
        SumFunctionOnSet(reserved'[o], LotsAt(w)) + SumFunctionOnSet(t, LotsAt(w))
  BY <1>1, <1>2, SumAdd
<1> QED
  BY <1>3 DEF HeldAt

LEMMA HeldSame ==
  ASSUME NEW o, NEW w, LotsAt(w)' = LotsAt(w), reserved'[o] = reserved[o]
  PROVE  HeldAt(o, w)' = HeldAt(o, w)
BY DEF HeldAt

(* A reservation of g adds its units to the lines of its order at each       *)
(* warehouse, and to no other lines.                                         *)
LEMMA ReservedLinesAt ==
  ASSUME TypeOK, TypeOK', Numbered, RowsWhole,
         NEW o \in Orders, NEW g \in [Warehouses -> 0..MaxQty], NEW pref,
         Sorts(pref, Wanted(g)), Reserve(o, g, pref)
  PROVE  /\ \A k \in UsedLines : line'[k] = line[k]
         /\ \A w \in Wanted(g) : LineFor(g, pref, w) \in Lines \ UsedLines
                                 /\ Active(line'[LineFor(g, pref, w)]) = g[w]
         /\ \A w \in Warehouses :
              LinesIn(res', line', w) = LinesIn(res, line, w) \cup
                                          {LineFor(g, pref, v) : v \in Wanted(g) \cap {w}}
         /\ \A q \in Orders :
              LinesFor(res', line', q) = LinesFor(res, line, q) \cup
                 {LineFor(g, pref, v) : v \in IF q = o THEN Wanted(g) ELSE {}}
<1>1. /\ \A w \in Wanted(g) : LineFor(g, pref, w) \in Lines \ UsedLines
      /\ \A v, w \in Wanted(g) : v # w => LineFor(g, pref, v) # LineFor(g, pref, w)
  BY NewLines DEF Reserve
<1> DEFINE new == {LineFor(g, pref, w) : w \in Wanted(g)}
<1>2. ASSUME NEW w \in Wanted(g)
      PROVE  /\ line'[LineFor(g, pref, w)].res # NoRes
             /\ res'[line'[LineFor(g, pref, w)].res].order = o
             /\ res'[line'[LineFor(g, pref, w)].res].wh = w
             /\ Active(line'[LineFor(g, pref, w)]) = g[w]
  <2>1. /\ line'[LineFor(g, pref, w)].res \in UsedResvs'
        /\ res'[line'[LineFor(g, pref, w)].res].order = o
        /\ res'[line'[LineFor(g, pref, w)].res].wh = w
        /\ line'[LineFor(g, pref, w)].qty = g[w]
        /\ line'[LineFor(g, pref, w)].ful = 0
        /\ line'[LineFor(g, pref, w)].rel = 0
    BY ReserveEffect
  <2>2. g[w] \in Nat
    BY StockAssumption DEF Wanted
  <2> QED
    BY <2>1, <2>2, FulfilmentAssumption DEF Active, NonNeg, UsedResvs, Resvs, NoRes
<1>3. \A k \in Lines \ new : line'[k] = line[k]
  BY ReserveEffect
<1>4. \A k \in UsedLines : k \in Lines /\ k \notin new
  BY <1>1 DEF UsedLines
<1>5. ASSUME NEW k \in Lines \ new, line[k].res # NoRes
      PROVE  /\ line'[k].res # NoRes
             /\ res'[line'[k].res].order = res[line[k].res].order
             /\ res'[line'[k].res].wh = res[line[k].res].wh
  <2>1. line[k].res \in UsedResvs /\ line'[k] = line[k]
    BY <1>3, <1>5 DEF RowsWhole
  <2>2. /\ res'[line[k].res].order = res[line[k].res].order
        /\ res'[line[k].res].wh = res[line[k].res].wh
    BY <2>1, ReserveEffect
  <2> QED
    BY <1>5, <2>1, <2>2
<1>6. ASSUME NEW k \in Lines \ new, line[k].res = NoRes
      PROVE  line'[k].res = NoRes
  BY <1>3, <1>6
<1>7. ASSUME NEW k \in new
      PROVE  k \in Lines /\ line[k].res = NoRes
  BY <1>1 DEF UsedLines
<1>8. ASSUME NEW w \in Warehouses
      PROVE  LinesIn(res', line', w) = LinesIn(res, line, w) \cup
                                         {LineFor(g, pref, v) : v \in Wanted(g) \cap {w}}
  <2>1. ASSUME NEW k \in Lines \ new
        PROVE  k \in LinesIn(res', line', w) <=> k \in LinesIn(res, line, w)
    BY <1>5, <1>6 DEF LinesIn
  <2>2. ASSUME NEW v \in Wanted(g)
        PROVE  /\ LineFor(g, pref, v) \in LinesIn(res', line', w) <=> v = w
               /\ LineFor(g, pref, v) \notin LinesIn(res, line, w)
    <3>1. LineFor(g, pref, v) \in new /\ LineFor(g, pref, v) \in Lines
      BY <1>1
    <3> QED
      BY <1>2, <1>7, <3>1 DEF LinesIn
  <2>3. ASSUME NEW k \in LinesIn(res', line', w)
        PROVE  k \in LinesIn(res, line, w) \/ \E v \in Wanted(g) \cap {w} : k = LineFor(g, pref, v)
    <3>1. k \in Lines
      BY DEF LinesIn
    <3> QED
      BY <2>1, <2>2, <3>1
  <2>4. ASSUME NEW k \in LinesIn(res, line, w)
        PROVE  k \in LinesIn(res', line', w)
    <3>1. k \in Lines /\ k \notin new
      BY <1>7 DEF LinesIn
    <3> QED
      BY <2>1, <3>1
  <2> QED
    BY <2>2, <2>3, <2>4
<1>9. ASSUME NEW q \in Orders
      PROVE  LinesFor(res', line', q) = LinesFor(res, line, q) \cup
               {LineFor(g, pref, v) : v \in IF q = o THEN Wanted(g) ELSE {}}
  <2>1. ASSUME NEW k \in Lines \ new
        PROVE  k \in LinesFor(res', line', q) <=> k \in LinesFor(res, line, q)
    BY <1>5, <1>6 DEF LinesFor
  <2>2. ASSUME NEW v \in Wanted(g)
        PROVE  /\ LineFor(g, pref, v) \in LinesFor(res', line', q) <=> q = o
               /\ LineFor(g, pref, v) \notin LinesFor(res, line, q)
    <3>1. LineFor(g, pref, v) \in new /\ LineFor(g, pref, v) \in Lines
      BY <1>1
    <3> QED
      BY <1>2, <1>7, <3>1 DEF LinesFor
  <2>3. ASSUME NEW k \in LinesFor(res', line', q)
        PROVE  k \in LinesFor(res, line, q)
               \/ \E v \in IF q = o THEN Wanted(g) ELSE {} : k = LineFor(g, pref, v)
    <3>1. k \in Lines
      BY DEF LinesFor
    <3> QED
      BY <2>1, <2>2, <3>1
  <2>4. ASSUME NEW k \in LinesFor(res, line, q)
        PROVE  k \in LinesFor(res', line', q)
    <3>1. k \in Lines /\ k \notin new
      BY <1>7 DEF LinesFor
    <3> QED
      BY <2>1, <3>1
  <2> QED
    BY <2>2, <2>3, <2>4
<1> QED
  BY <1>1, <1>2, <1>3, <1>4, <1>8, <1>9

-----------------------------------------------------------------------------
(* Reserve: what it adds to the sums over lines.                             *)

LEMMA SumWithNewLines ==
  ASSUME TypeOK, TypeOK', Numbered, RowsWhole,
         NEW o \in Orders, NEW g \in [Warehouses -> 0..MaxQty], NEW pref,
         Sorts(pref, Wanted(g)), Reserve(o, g, pref),
         NEW K \in SUBSET UsedLines, NEW V \in SUBSET Wanted(g)
  PROVE  SumActive(line', K \cup {LineFor(g, pref, w) : w \in V})
           = SumActive(line, K) + SumFunctionOnSet(g, V)
<1>1. K \in SUBSET Lines /\ IsFiniteSet(K)
  BY FiniteTables, FS_Subset DEF UsedLines
<1>2. V \in SUBSET Warehouses /\ IsFiniteSet(V)
  BY FiniteTables, FS_Subset DEF Wanted
<1>3. line \in [Lines -> ReservationItem] /\ line' \in [Lines -> ReservationItem]
  BY DEF TypeOK, DocsTypeOK
<1>4. /\ \A k \in UsedLines : line'[k] = line[k]
      /\ \A w \in Wanted(g) : LineFor(g, pref, w) \in Lines \ UsedLines
                              /\ Active(line'[LineFor(g, pref, w)]) = g[w]
  BY ReservedLinesAt
<1>5. \A v, w \in Wanted(g) : v # w => LineFor(g, pref, v) # LineFor(g, pref, w)
  BY NewLines DEF Reserve
<1> DEFINE f == [k \in Lines |-> Active(line'[k])]
           c == [w \in V |-> LineFor(g, pref, w)]
<1>6. \A k \in K : f[k] \in Int
  BY <1>1, <1>3, ActiveType
<1>7. \A w \in V : c[w] \notin K /\ g[w] \in Int /\ f[c[w]] = g[w]
  BY <1>2, <1>4, StockAssumption
<1>8. \A v, w \in V : v # w => c[v] # c[w]
  BY <1>5
<1>9. {c[w] : w \in V} = {LineFor(g, pref, w) : w \in V}
  OBVIOUS
<1> HIDE DEF f, c
<1>10. SumFunctionOnSet(f, K \cup {c[w] : w \in V}) = SumFunctionOnSet(f, K) + SumFunctionOnSet(g, V)
  BY <1>1, <1>2, <1>6, <1>7, <1>8, SumPlaced
<1>11. SumActive(line', K) = SumActive(line, K)
  BY <1>1, <1>3, <1>4, SumActiveSame
<1>12. SumFunctionOnSet(f, K) = SumActive(line', K)
  BY DEF SumActive, f
<1>13. SumFunctionOnSet(f, K \cup {c[w] : w \in V}) =
         SumActive(line', K \cup {LineFor(g, pref, w) : w \in V})
  BY <1>9, Zenon DEF SumActive, f
<1> QED
  BY <1>10, <1>11, <1>12, <1>13

LEMMA WantedSums ==
  ASSUME NEW g \in [Warehouses -> 0..MaxQty]
  PROVE  /\ SumFunctionOnSet(g, Wanted(g)) = SumFunction(g)
         /\ SumFunctionOnSet(g, {}) = 0
         /\ \A w \in Warehouses : SumFunctionOnSet(g, Wanted(g) \cap {w}) = g[w]
<1>1. \A w \in Warehouses : g[w] \in Nat
  BY StockAssumption
<1>2. Wanted(g) \in SUBSET Warehouses /\ \A w \in Warehouses \ Wanted(g) : g[w] = 0
  BY <1>1 DEF Wanted
<1>3. SumFunctionOnSet(g, Warehouses) = SumFunctionOnSet(g, Wanted(g))
  BY <1>1, <1>2, FiniteTables, SumSupport
<1>4. SumFunctionOnSet(g, {}) = 0
  BY FS_EmptySet, SumRules
<1>5. ASSUME NEW w \in Warehouses
      PROVE  SumFunctionOnSet(g, Wanted(g) \cap {w}) = g[w]
  <2>1. CASE w \in Wanted(g)
    <3>1. Wanted(g) \cap {w} = {} \cup {w}
      BY <2>1
    <3>2. SumFunctionOnSet(g, {} \cup {w}) = g[w] + SumFunctionOnSet(g, {})
      BY <1>1, FS_EmptySet, SumInsert
    <3>3. SumFunctionOnSet(g, Wanted(g) \cap {w}) = SumFunctionOnSet(g, {} \cup {w})
      BY <3>1, Zenon
    <3> QED
      BY <1>1, <1>4, <3>2, <3>3
  <2>2. CASE w \notin Wanted(g)
    <3>1. Wanted(g) \cap {w} = {} /\ g[w] = 0
      BY <1>2, <2>2
    <3>2. SumFunctionOnSet(g, Wanted(g) \cap {w}) = SumFunctionOnSet(g, {})
      BY <3>1, Zenon
    <3> QED
      BY <1>4, <3>1, <3>2
  <2> QED
    BY <2>1, <2>2
<1>6. SumFunction(g) = SumFunctionOnSet(g, Warehouses)
  BY DEF SumFunction
<1> QED
  BY <1>3, <1>4, <1>5, <1>6

LEMMA ReserveSums ==
  ASSUME TypeOK, TypeOK', Numbered, RowsWhole,
         NEW o \in Orders, NEW g \in [Warehouses -> 0..MaxQty], NEW pref,
         Sorts(pref, Wanted(g)), Reserve(o, g, pref)
  PROVE  /\ \A w \in Warehouses :
              SumActive(line', LinesIn(res', line', w))
                = SumActive(line, LinesIn(res, line, w)) + g[w]
         /\ \A q \in Orders, w \in Warehouses :
              SumActive(line', LinesAt(res', line', q, w))
                = SumActive(line, LinesAt(res, line, q, w)) + IF q = o THEN g[w] ELSE 0
         /\ \A q \in Orders :
              SumActive(line', LinesFor(res', line', q))
                = SumActive(line, LinesFor(res, line, q)) + IF q = o THEN SumFunction(g) ELSE 0
<1>1. /\ \A w : LinesIn(res, line, w) \subseteq UsedLines
      /\ \A q : LinesFor(res, line, q) \subseteq UsedLines
  BY DEF LinesIn, LinesFor, UsedLines
<1>2. ASSUME NEW w \in Warehouses
      PROVE  SumActive(line', LinesIn(res', line', w))
                = SumActive(line, LinesIn(res, line, w)) + g[w]
  <2>1. LinesIn(res', line', w) = LinesIn(res, line, w) \cup
                                    {LineFor(g, pref, v) : v \in Wanted(g) \cap {w}}
    BY ReservedLinesAt
  <2>2. SumActive(line', LinesIn(res, line, w) \cup
                           {LineFor(g, pref, v) : v \in Wanted(g) \cap {w}})
          = SumActive(line, LinesIn(res, line, w)) + SumFunctionOnSet(g, Wanted(g) \cap {w})
    BY <1>1, SumWithNewLines
  <2>3. SumFunctionOnSet(g, Wanted(g) \cap {w}) = g[w]
    BY WantedSums
  <2> QED
    BY <2>1, <2>2, <2>3, Zenon
<1>3. ASSUME NEW q \in Orders
      PROVE  SumActive(line', LinesFor(res', line', q))
               = SumActive(line, LinesFor(res, line, q)) + IF q = o THEN SumFunction(g) ELSE 0
  <2> DEFINE V == IF q = o THEN Wanted(g) ELSE {}
  <2>1. LinesFor(res', line', q) = LinesFor(res, line, q) \cup {LineFor(g, pref, v) : v \in V}
    BY ReservedLinesAt
  <2>2. V \in SUBSET Wanted(g)
    OBVIOUS
  <2>3. SumFunctionOnSet(g, V) = IF q = o THEN SumFunction(g) ELSE 0
    BY WantedSums
  <2> HIDE DEF V
  <2>4. SumActive(line', LinesFor(res, line, q) \cup {LineFor(g, pref, v) : v \in V})
          = SumActive(line, LinesFor(res, line, q)) + SumFunctionOnSet(g, V)
    BY <1>1, <2>2, SumWithNewLines
  <2> QED
    BY <2>1, <2>3, <2>4, Zenon
<1>4. ASSUME NEW q \in Orders, NEW w \in Warehouses
      PROVE  SumActive(line', LinesAt(res', line', q, w))
                = SumActive(line, LinesAt(res, line, q, w)) + IF q = o THEN g[w] ELSE 0
  <2> DEFINE V == IF q = o THEN Wanted(g) \cap {w} ELSE {}
  <2>1. LinesAt(res', line', q, w) = LinesAt(res, line, q, w) \cup {LineFor(g, pref, v) : v \in V}
    <3>1. /\ LinesIn(res', line', w) = LinesIn(res, line, w) \cup
                                         {LineFor(g, pref, v) : v \in Wanted(g) \cap {w}}
          /\ LinesFor(res', line', q) = LinesFor(res, line, q) \cup
                 {LineFor(g, pref, v) : v \in IF q = o THEN Wanted(g) ELSE {}}
      BY ReservedLinesAt
    <3>2. \A v \in Wanted(g) : LineFor(g, pref, v) \notin UsedLines
      BY ReservedLinesAt
    <3>3. \A u, v \in Wanted(g) : u # v => LineFor(g, pref, u) # LineFor(g, pref, v)
      BY NewLines DEF Reserve
    <3> QED
      BY <1>1, <3>1, <3>2, <3>3 DEF LinesAt
  <2>2. V \in SUBSET Wanted(g)
    OBVIOUS
  <2>3. SumFunctionOnSet(g, V) = IF q = o THEN g[w] ELSE 0
    BY WantedSums
  <2> HIDE DEF V
  <2>4. SumActive(line', LinesAt(res, line, q, w) \cup {LineFor(g, pref, v) : v \in V})
          = SumActive(line, LinesAt(res, line, q, w)) + SumFunctionOnSet(g, V)
    BY <1>1, <2>2, SumWithNewLines DEF LinesAt
  <2> QED
    BY <2>1, <2>3, <2>4, Zenon
<1> QED
  BY <1>2, <1>3, <1>4

-----------------------------------------------------------------------------
(* Stock and documents, and that Reserve keeps them in agreement.            *)

LEMMA TidyNow == ReservationInv => Tidy(res, line)
<1> SUFFICES ASSUME ReservationInv
             PROVE  Tidy(res, line)
  OBVIOUS
<1>1. ASSUME NEW k \in Lines, line[k].res # NoRes
      PROVE  line[k].linked /\ (res[line[k].res].status \in ActiveStatuses \/ Active(line[k]) = 0)
  <2>1. line[k] \in ReservationItem /\ line[k].linked
    BY <1>1 DEF ReservationInv, TypeOK, DocsTypeOK, AllLinked
  <2>2. Active(line[k]) \in Nat
    BY <2>1, ActiveType
  <2> QED
    BY <1>1, <2>1, <2>2, ActiveLine
<1> QED
  BY <1>1 DEF Tidy, ReservationInv, TypeOK, DocsTypeOK

LEMMA TidyNext == ReservationInv' => Tidy(res', line')
<1> SUFFICES ASSUME ReservationInv'
             PROVE  Tidy(res', line')
  OBVIOUS
<1>1. ASSUME NEW k \in Lines, line'[k].res # NoRes
      PROVE  line'[k].linked /\ (res'[line'[k].res].status \in ActiveStatuses \/ Active(line'[k]) = 0)
  <2>1. line'[k] \in ReservationItem /\ line'[k].linked
    BY <1>1 DEF ReservationInv, TypeOK, DocsTypeOK, AllLinked
  <2>2. Active(line'[k]) \in Nat
    BY <2>1, ActiveType
  <2>3. \/ res'[line'[k].res].status \in ActiveStatuses
        \/ line'[k].ful + line'[k].rel = line'[k].qty
    BY <1>1 DEF ReservationInv, ClosedReservationsAreEmpty
  <2>4. line'[k].ful + line'[k].rel = line'[k].qty => Active(line'[k]) = 0
    BY <2>1 DEF ReservationItem, Active, NonNeg
  <2> QED
    BY <2>1, <2>3, <2>4
<1> QED
  BY <1>1 DEF Tidy, ReservationInv, TypeOK, DocsTypeOK

(* The properties of a state over the sums above.                            *)
LEMMA HoldsSum ==
  ReservationInv =>
    (HoldsAreDocumented <=> \A o \in Orders, w \in Warehouses :
       HeldAt(o, w) =< SumActive(line, LinesAt(res, line, o, w)))
<1> SUFFICES ASSUME ReservationInv
             PROVE  HoldsAreDocumented <=> \A o \in Orders, w \in Warehouses :
                      HeldAt(o, w) =< SumActive(line, LinesAt(res, line, o, w))
  OBVIOUS
<1>1. ASSUME NEW o \in Orders, NEW w \in Warehouses
      PROVE  SumActive(line, {k \in HoldingLines(res, line, o) :
                                line[k].linked /\ res[line[k].res].wh = w})
               = SumActive(line, LinesAt(res, line, o, w))
  BY TidyNow, DocumentedSum
<1> QED
  BY <1>1, Zenon DEF HoldsAreDocumented

LEMMA HoldsSumNext ==
  ReservationInv' =>
    (HoldsAreDocumented' <=> \A o \in Orders, w \in Warehouses :
       HeldAt(o, w)' =< SumActive(line', LinesAt(res', line', o, w)))
<1> SUFFICES ASSUME ReservationInv'
             PROVE  HoldsAreDocumented' <=> \A o \in Orders, w \in Warehouses :
                      HeldAt(o, w)' =< SumActive(line', LinesAt(res', line', o, w))
  OBVIOUS
<1>1. ASSUME NEW o \in Orders, NEW w \in Warehouses
      PROVE  SumActive(line, {k \in HoldingLines(res, line, o) :
                                line[k].linked /\ res[line[k].res].wh = w})'
               = SumActive(line', LinesAt(res', line', o, w))
  BY TidyNext, DocumentedSum DEF SumActive, HoldingLines, ActiveResvs
<1> QED
  BY <1>1, Zenon DEF HoldsAreDocumented

LEMMA WithinSum ==
  ReservationInv =>
    \A o \in Orders : ReservedFor(o) = SumActive(line, LinesFor(res, line, o))
BY TidyNow, ReservedSum DEF ReservedFor

LEMMA WithinSumNext ==
  ReservationInv' =>
    \A o \in Orders : ReservedFor(o)' = SumActive(line', LinesFor(res', line', o))
BY TidyNext, ReservedSum DEF ReservedFor

LEMMA LineSumsNat ==
  ASSUME TypeOK, NEW o, NEW w
  PROVE  /\ SumActive(line, LinesFor(res, line, o)) \in Nat
         /\ SumActive(line, LinesIn(res, line, w)) \in Nat
         /\ SumActive(line, LinesAt(res, line, o, w)) \in Nat
BY SumActiveNat DEF LinesFor, LinesIn, LinesAt, TypeOK, DocsTypeOK

(* Stock and documents agree.                                                *)
StockDocs ==
  /\ Numbered
  /\ RowsWhole
  /\ LotsWhole
  /\ BalanceIsTotal
  /\ UnitsAccountedFor
  /\ HoldsAreDocumented
  /\ PromisedWithinOrder

LEMMA ReserveKeeps ==
  ASSUME ReservationInv, ReservationInv', StockDocs,
         NEW o \in Orders, NEW g \in [Warehouses -> 0..MaxQty], NEW pref,
         Sorts(pref, Wanted(g)), SumFunction(g) =< Missing(o), Reserve(o, g, pref)
  PROVE  StockDocs'
<1>1. /\ TypeOK /\ TypeOK' /\ Numbered /\ RowsWhole
      /\ StockTypeOK /\ StockTypeOK'
  BY DEF ReservationInv, StockDocs, TypeOK
<1>2. /\ \A w \in Warehouses : LotsAt(w)' = LotsAt(w)
      /\ LotsAt(NoWh)' = LotsAt(NoWh)
      /\ lot' = lot /\ shipped' = shipped
  BY DEF Reserve, LotsAt
<1>3. PICK h \in Holds(g) :
        reserved' = [reserved EXCEPT ![o] = [l \in Lots |-> @[l] + h[l]]]
  BY DEF Reserve
<1>4. h \in [Lots -> Nat] /\ \A l \in LotsAt(NoWh) : h[l] = 0
  <2>1. FreeLots \in [Lots -> Nat]
    <3>1. \A l \in Lots : LotFree(l) \in Nat
      <4> TAKE l \in Lots
      <4> DEFINE f == [q \in Orders |-> reserved[q][l]]
      <4>1. \A q \in Orders : f[q] \in Nat
        BY <1>1 DEF StockTypeOK
      <4> HIDE DEF f
      <4>2. SumFunctionOnSet(f, Orders) \in Nat
        BY <4>1, FiniteTables, SumNat
      <4>3. HeldOn(l) \in Nat
        BY <4>2 DEF HeldOn, SumFunction, f
      <4>4. lot[l].remaining \in Nat
        BY <1>1 DEF StockTypeOK
      <4> QED
        BY <4>3, <4>4 DEF LotFree, NonNeg
    <3> QED
      BY <3>1 DEF FreeLots
  <2> QED
    BY <1>1, <2>1, TakeAcrossBound DEF Holds, TakeAcross
<1>5. ASSUME NEW q \in Orders, NEW l \in Lots
      PROVE  reserved'[q][l] = reserved[q][l] + IF q = o THEN h[l] ELSE 0
  <2>1. reserved[q][l] \in Nat
    BY <1>1 DEF StockTypeOK
  <2> QED
    BY <1>1, <1>3, <2>1 DEF StockTypeOK
<1>6. RowsWhole'
  <2>1. ASSUME NEW r \in UsedResvs'
        PROVE  res'[r].wh # NoWh /\ res'[r].order \in Orders
    <3>1. CASE r \in UsedResvs
      BY <1>1, <3>1, ReserveEffect DEF RowsWhole
    <3>2. CASE r \notin UsedResvs
      <4>1. res'[r].order = o /\ res'[r].wh \in Wanted(g)
        BY <1>1, <3>2, ReserveEffect
      <4>2. Wanted(g) \subseteq Warehouses /\ NoWh \notin Warehouses
        BY StockAssumption DEF Wanted, Warehouses, NoWh
      <4> QED
        BY <4>1, <4>2
    <3> QED
      BY <3>1, <3>2
  <2>2. ASSUME NEW k \in Lines
        PROVE  IF line'[k].res = NoRes THEN line'[k].qty = 0 /\ ~line'[k].linked
                                       ELSE line'[k].res \in UsedResvs'
    <3>1. CASE \E w \in Wanted(g) : LineFor(g, pref, w) = k
      <4>1. line'[k].res \in UsedResvs'
        BY <1>1, <3>1, ReserveEffect
      <4> QED
        BY <4>1, FulfilmentAssumption DEF UsedResvs, Resvs, NoRes
    <3>2. CASE ~ \E w \in Wanted(g) : LineFor(g, pref, w) = k
      <4>1. line'[k] = line[k]
        BY <1>1, <3>2, ReserveEffect
      <4>2. line[k].res \in UsedResvs => line[k].res \in UsedResvs'
        BY <1>1, ReserveEffect
      <4> QED
        BY <1>1, <4>1, <4>2 DEF RowsWhole
    <3> QED
      BY <3>1, <3>2
  <2> QED
    BY <2>1, <2>2 DEF RowsWhole
<1>7. LotsWhole'
  <2>1. ASSUME NEW l \in LotsAt(NoWh)
        PROVE  lot[l].received = lot[l].remaining /\ \A q \in Orders : reserved'[q][l] = 0
    BY <1>4, <1>5 DEF StockDocs, LotsWhole, LotsAt
  <2> QED
    BY <1>2, <2>1 DEF LotsWhole
<1>8. BalanceIsTotal'
  <2>1. ASSUME NEW w \in Warehouses
        PROVE  balance'[w] = OnHand(w)
    BY DEF Reserve, Rebuilt, OnHand, Remaining, LotsAt, StockDocs, BalanceIsTotal
  <2>2. ASSUME NEW w \in Warehouses
        PROVE  OnHand(w)' = OnHand(w)
    BY <1>2 DEF OnHand, Remaining
  <2> QED
    BY <2>1, <2>2 DEF BalanceIsTotal
<1>9. UnitsAccountedFor'
  BY <1>2 DEF StockDocs, UnitsAccountedFor
<1>10. HoldsAreDocumented'
  <2>1. ASSUME NEW q \in Orders, NEW w \in Warehouses
        PROVE  HeldAt(q, w)' =< SumActive(line', LinesAt(res', line', q, w))
    <3>1. HeldAt(q, w) =< SumActive(line, LinesAt(res, line, q, w))
      BY HoldsSum DEF StockDocs
    <3>2. HeldAt(q, w)' = HeldAt(q, w) + IF q = o THEN g[w] ELSE 0
      <4>1. CASE q = o
        <5>1. HeldAt(o, w)' = HeldAt(o, w) + SumFunctionOnSet(h, LotsAt(w))
          BY <1>1, <1>2, <1>4, <1>5, HeldMore
        <5>2. SumFunctionOnSet(h, LotsAt(w)) = g[w]
          BY TakenAt DEF Holds
        <5> QED
          BY <4>1, <5>1, <5>2
      <4>2. CASE q # o
        <5>1. reserved'[q] = reserved[q]
          BY <1>1, <1>3, <4>2 DEF StockTypeOK
        <5>2. HeldAt(q, w)' = HeldAt(q, w)
          BY <1>2, <5>1, HeldSame
        <5>3. HeldAt(q, w) \in Nat
          BY <1>1, HeldAtNat
        <5> QED
          BY <4>2, <5>2, <5>3
      <4> QED
        BY <4>1, <4>2
    <3>3. SumActive(line', LinesAt(res', line', q, w))
            = SumActive(line, LinesAt(res, line, q, w)) + IF q = o THEN g[w] ELSE 0
      BY <1>1, ReserveSums
    <3>4. HeldAt(q, w) \in Nat /\ SumActive(line, LinesAt(res, line, q, w)) \in Nat /\ g[w] \in Nat
      BY <1>1, HeldAtNat, LineSumsNat, StockAssumption
    <3> QED
      BY <3>1, <3>2, <3>3, <3>4
  <2> QED
    BY <2>1, HoldsSumNext
<1>11. PromisedWithinOrder'
  <2>1. ASSUME NEW q \in Orders
        PROVE  SumActive(line', LinesFor(res', line', q)) =< Ordered[q]
    <3>1. SumActive(line, LinesFor(res, line, q)) =< Ordered[q]
      BY WithinSum DEF StockDocs, PromisedWithinOrder
    <3>2. SumActive(line, LinesFor(res, line, q)) \in Nat /\ Ordered[q] \in Nat
      BY <1>1, LineSumsNat, StockAssumption
    <3>3. q = o => SumFunction(g) =< Ordered[q] - SumActive(line, LinesFor(res, line, q))
      BY <3>1, <3>2, WithinSum DEF Missing, NonNeg
    <3>4. SumActive(line', LinesFor(res', line', q))
            = SumActive(line, LinesFor(res, line, q)) + IF q = o THEN SumFunction(g) ELSE 0
      BY <1>1, ReserveSums
    <3>5. SumFunction(g) \in Nat
      <4>1. \A w \in Warehouses : g[w] \in Nat
        BY StockAssumption
      <4> QED
        BY <4>1, FiniteTables, SumNat DEF SumFunction
    <3> QED
      BY <3>1, <3>2, <3>3, <3>4, <3>5
  <2> QED
    BY <2>1, WithinSumNext DEF PromisedWithinOrder
<1>12. Numbered'
  BY <1>1, ReserveEffect
<1> QED
  BY <1>6, <1>7, <1>8, <1>9, <1>10, <1>11, <1>12 DEF StockDocs

-----------------------------------------------------------------------------
(* The splits that the requests ask Reserve for.                             *)

(* What an action may rely on of the rows it finds: a reservation and a line *)
(* keep their place for good.                                                *)
RowsStay ==
  /\ \A k \in Lines : line[k].res # NoRes => line'[k].res = line[k].res
  /\ \A r \in UsedResvs : /\ r \in UsedResvs'
                          /\ res'[r].order = res[r].order
                          /\ res'[r].wh = res[r].wh

LEMMA ReserveRowsStay ==
  ASSUME TypeOK, Numbered, NEW o \in Orders, NEW g \in [Warehouses -> 0..MaxQty], NEW pref,
         Sorts(pref, Wanted(g)), Reserve(o, g, pref)
  PROVE  RowsStay
<1>1. \A r \in UsedResvs : r \in UsedResvs' /\ res'[r].order = res[r].order /\ res'[r].wh = res[r].wh
  BY ReserveEffect
<1>2. \A w \in Wanted(g) : LineFor(g, pref, w) \notin UsedLines
  BY NewLines DEF Reserve
<1>3. ASSUME NEW k \in Lines, line[k].res # NoRes
      PROVE  line'[k] = line[k]
  <2>1. \A w \in Wanted(g) : LineFor(g, pref, w) # k
    BY <1>2, <1>3 DEF UsedLines
  <2> QED
    BY <2>1, ReserveEffect
<1> QED
  BY <1>1, <1>3 DEF RowsStay

(* The splits that the requests reserve: they are sorted, and they stay      *)
(* within what the order lacks and, for a greedy one, within what is free.   *)
LEMMA FreeInt ==
  ASSUME ReservationInv, StockDocs, NEW w \in Warehouses
  PROVE  Free(w) \in Int /\ balance[w] \in Nat /\ Promised(res, line, w) \in Nat
<1>1. \A l \in LotsAt(w) : Remaining[l] \in Nat
  BY DEF ReservationInv, TypeOK, StockTypeOK, Remaining, LotsAt
<1>2. IsFiniteSet(LotsAt(w))
  BY FiniteTables, FS_Subset DEF LotsAt
<1>3. balance[w] \in Nat
  BY <1>1, <1>2, SumNat DEF StockDocs, BalanceIsTotal, OnHand
<1>4. Promised(res, line, w) \in Nat
  BY TidyNow, PromisedSum, LineSumsNat DEF ReservationInv
<1> QED
  BY <1>3, <1>4 DEF Free

LEMMA MissingNat ==
  ASSUME ReservationInv, NEW o \in Orders
  PROVE  /\ Missing(o) \in Nat
         /\ ReservedFor(o) = 0 => Missing(o) > 0
<1>1. ReservedFor(o) \in Nat
  BY WithinSum, LineSumsNat DEF ReservationInv
<1>2. Ordered[o] \in Nat \ {0}
  BY StockAssumption
<1> QED
  BY <1>1, <1>2 DEF Missing, NonNeg

LEMMA LexicalSorts ==
  ASSUME NEW W \in SUBSET Int, NEW f, \A w \in W : f[w] \in Int, NEW pref,
         \A v, w \in W : <<v, w>> \in pref <=> f[v] > f[w] \/ (f[v] = f[w] /\ v < w)
  PROVE  Sorts(pref, W)
<1>1. ASSUME NEW v \in W, NEW w \in W, v # w
      PROVE  <<v, w>> \in pref <=> <<w, v>> \notin pref
  BY <1>1
<1>2. ASSUME NEW u \in W, NEW v \in W, NEW w \in W, <<u, v>> \in pref, <<v, w>> \in pref
      PROVE  <<u, w>> \in pref
  <2>1. /\ f[u] > f[v] \/ (f[u] = f[v] /\ u < v)
        /\ f[v] > f[w] \/ (f[v] = f[w] /\ v < w)
    BY <1>2
  <2>2. f[u] > f[w] \/ (f[u] = f[w] /\ u < w)
    BY <2>1
  <2> QED
    BY <2>2
<1> QED
  BY <1>1, <1>2, Zenon DEF Sorts

LEMMA PreferenceSorts ==
  ASSUME ReservationInv, StockDocs, NEW W \in SUBSET Warehouses
  PROVE  Sorts(Preference, W)
<1> DEFINE f == [w \in Warehouses |-> Free(w)]
<1>1. W \in SUBSET Int /\ \A w \in W : f[w] \in Int
  BY FreeInt, StockAssumption DEF Warehouses
<1>2. Preference = {p \in Warehouses \X Warehouses : f[p[1]] > f[p[2]]
                                                   \/ (f[p[1]] = f[p[2]] /\ p[1] < p[2])}
  <2>1. \A p \in Warehouses \X Warehouses : f[p[1]] = Free(p[1]) /\ f[p[2]] = Free(p[2])
    OBVIOUS
  <2>2. \A p \in Warehouses \X Warehouses :
          p \in Preference <=> Free(p[1]) > Free(p[2]) \/ (Free(p[1]) = Free(p[2]) /\ p[1] < p[2])
    BY Zenon DEF Preference
  <2>3. Preference \subseteq Warehouses \X Warehouses
    BY Zenon DEF Preference
  <2> HIDE DEF f
  <2>4. ASSUME NEW p \in Warehouses \X Warehouses
        PROVE  p \in Preference <=> f[p[1]] > f[p[2]] \/ (f[p[1]] = f[p[2]] /\ p[1] < p[2])
    <3>1. f[p[1]] = Free(p[1]) /\ f[p[2]] = Free(p[2])
      BY <2>1, Zenon
    <3> QED
      BY <2>2, <3>1
  <2> QED
    BY <2>3, <2>4
<1> HIDE DEF f
<1>3. \A v, w \in W : <<v, w>> \in Preference <=> f[v] > f[w] \/ (f[v] = f[w] /\ v < w)
  BY <1>2
<1> QED
  BY <1>1, <1>3, LexicalSorts

LEMMA GreedyFits ==
  ASSUME ReservationInv, StockDocs, NEW q \in Nat, NEW g \in Greedy(q)
  PROVE  /\ g \in [Warehouses -> 0..MaxQty]
         /\ Sorts(Preference, Wanted(g))
         /\ SumFunction(g) =< q
         /\ \A w \in Warehouses : g[w] > 0 => g[w] =< Offered[w]
<1>1. Sorts(Preference, Wanted(g))
  BY PreferenceSorts DEF Wanted
<1>2. \A w \in Warehouses : Offered[w] \in Nat
  BY FreeInt DEF Offered, NonNeg
<1>3. SumFunctionOnSet(Offered, Warehouses) \in Nat
  BY <1>2, FiniteTables, SumNat
<1>4. SumFunction(Offered) \in Nat
  BY <1>3 DEF SumFunction, Offered
<1>5. SumFunction(g) =< q
  BY <1>4 DEF Greedy, Lesser
<1> QED
  BY <1>1, <1>5, GreedyType DEF Greedy

LEMMA AllAtFits ==
  ASSUME NEW w \in Warehouses, NEW q \in Nat, NEW g \in AllAt(w, q), NEW pref
  PROVE  /\ g \in [Warehouses -> 0..MaxQty]
         /\ Sorts(pref, Wanted(g))
         /\ SumFunction(g) = q
         /\ q > 0 => w \in Wanted(g)
<1>1. g \in [Warehouses -> 0..MaxQty] /\ \A v \in Warehouses : g[v] = IF v = w THEN q ELSE 0
  BY DEF AllAt
<1>2. Wanted(g) \subseteq {w}
  BY <1>1 DEF Wanted
<1>3. Sorts(pref, Wanted(g))
  BY <1>2 DEF Sorts
<1>4. SumFunctionOnSet(g, Warehouses) = q
  <2>1. IsFiniteSet({w}) /\ {w} \in SUBSET Warehouses
    BY FS_Singleton
  <2>2. SumFunctionOnSet(g, Warehouses) = SumFunctionOnSet(g, {w})
    BY <1>1, <2>1, FiniteTables, SumSupport
  <2>3. SumFunctionOnSet(g, {w}) = g[w] + SumFunctionOnSet(g, {w} \ {w})
    BY <1>1, <2>1, SumRules
  <2>4. {w} \ {w} = {} /\ IsFiniteSet({})
    BY FS_EmptySet
  <2>5. SumFunctionOnSet(g, {w} \ {w}) = 0
    BY <2>4, SumRules
  <2> QED
    BY <1>1, <2>2, <2>3, <2>5
<1>5. SumFunction(g) = q
  BY <1>1, <1>4 DEF SumFunction
<1>6. q > 0 => w \in Wanted(g)
  BY <1>1 DEF Wanted
<1> QED
  BY <1>1, <1>3, <1>5, <1>6

-----------------------------------------------------------------------------
(* Releasing lines: cancel, a cancelled shipment, a new split.               *)

(* Rows that keep their order and warehouse leave the numbering, the rows    *)
(* and the sets of lines as they are.                                        *)
RowsKept ==
  /\ \A k \in Lines : /\ line'[k].res = line[k].res
                      /\ line'[k].linked = line[k].linked
                      /\ line'[k].qty = line[k].qty
  /\ \A r \in Resvs : /\ res'[r].order = res[r].order
                      /\ res'[r].wh = res[r].wh
                      /\ res'[r].status = "none" <=> res[r].status = "none"

LEMMA RowsKeptEffect ==
  ASSUME Numbered, RowsWhole, RowsKept
  PROVE  /\ Numbered' /\ RowsWhole' /\ RowsStay
         /\ \A q \in Orders, w \in Warehouses :
              /\ LinesAt(res', line', q, w) = LinesAt(res, line, q, w)
              /\ LinesFor(res', line', q) = LinesFor(res, line, q)
              /\ LinesIn(res', line', w) = LinesIn(res, line, w)
<1>1. UsedResvs' = UsedResvs /\ UsedLines' = UsedLines
  BY DEF UsedResvs, UsedLines, RowsKept
<1>2. Numbered'
  BY <1>1, Zenon DEF Numbered
<1>3. \A k \in Lines : line[k].res # NoRes => line[k].res \in Resvs
  BY DEF RowsWhole, UsedResvs
<1>4. RowsWhole'
  <2>1. \A r \in UsedResvs' : res'[r].wh # NoWh /\ res'[r].order \in Orders
    BY <1>1 DEF RowsWhole, RowsKept, UsedResvs
  <2>2. \A k \in Lines : IF line'[k].res = NoRes THEN line'[k].qty = 0 /\ ~line'[k].linked
                                                 ELSE line'[k].res \in UsedResvs'
    BY <1>1 DEF RowsWhole, RowsKept
  <2> QED
    BY <2>1, <2>2 DEF RowsWhole
<1>5. RowsStay
  BY <1>1 DEF RowsStay, RowsKept, UsedResvs
<1>6. ASSUME NEW q \in Orders
      PROVE  LinesFor(res', line', q) = LinesFor(res, line, q)
  BY <1>3 DEF RowsKept, LinesFor
<1>7. ASSUME NEW w \in Warehouses
      PROVE  LinesIn(res', line', w) = LinesIn(res, line, w)
  BY <1>3 DEF RowsKept, LinesIn
<1> QED
  BY <1>2, <1>4, <1>5, <1>6, <1>7 DEF LinesAt

(* A recomputed status is one of a reservation in use.                       *)
LEMMA RecomputedKeeps ==
  ASSUME TypeOK, NEW ln, NEW R \in SUBSET UsedResvs, NEW r \in Resvs
  PROVE  LET rs == Recomputed(res, ln, R)
         IN  /\ rs[r].order = res[r].order
             /\ rs[r].wh = res[r].wh
             /\ rs[r].status = "none" <=> res[r].status = "none"
<1>1. res[r] \in Reservation
  BY DEF TypeOK, DocsTypeOK
<1>2. CASE r \in R
  <2>1. Recomputed(res, ln, R)[r] = [res[r] EXCEPT !.status = StatusOf(ln, r, @)]
    BY <1>2 DEF Recomputed
  <2>2. res[r].status # "none"
    BY <1>2 DEF UsedResvs
  <2>3. StatusOf(ln, r, res[r].status) # "none"
    BY StatusOfUsed
  <2> QED
    BY <1>1, <2>1, <2>2, <2>3 DEF Reservation
<1>3. CASE r \notin R
  BY <1>3 DEF Recomputed
<1> QED
  BY <1>2, <1>3

(* Releasing lines of one order takes from its holds, at every warehouse, at *)
(* most what the lines give up.                                              *)
LEMMA ReleasedActive ==
  ASSUME ReservationInv, NEW K, NEW k \in Lines, k \in K => line[k].linked
  PROVE  Active(ReleasedLines(K)[k]) = IF k \in K THEN 0 ELSE Active(line[k])
<1>1. line[k] \in ReservationItem /\ line[k].ful + line[k].rel =< line[k].qty
  BY DEF ReservationInv, TypeOK, DocsTypeOK, LinesWithinQuantity
<1>2. CASE k \in K
  <2>1. ReleasedLines(K)[k] = [line[k] EXCEPT !.rel = @ + Active(line[k])]
    BY <1>2 DEF ReleasedLines
  <2> QED
    BY <1>1, <1>2, <2>1 DEF Active, NonNeg, ReservationItem
<1>3. CASE k \notin K
  BY <1>3 DEF ReleasedLines
<1> QED
  BY <1>2, <1>3

LEMMA ReleaseSums ==
  ASSUME ReservationInv, ReservationInv', RowsWhole, RowsKept, Numbered,
         NEW o \in Orders, NEW K \in SUBSET Lines,
         \A k \in K : line[k].res # NoRes /\ res[line[k].res].order = o,
         line' = ReleasedLines(K)
  PROVE  /\ \A w \in Warehouses :
              /\ LinkedActive(K, w) \in Nat
              /\ SumActive(line, LinesAt(res, line, o, w))
                   = SumActive(line', LinesAt(res', line', o, w)) + LinkedActive(K, w)
         /\ \A q \in Orders \ {o}, w \in Warehouses :
              SumActive(line', LinesAt(res', line', q, w)) = SumActive(line, LinesAt(res, line, q, w))
         /\ \A q \in Orders :
              SumActive(line', LinesFor(res', line', q)) =< SumActive(line, LinesFor(res, line, q))
<1> DEFINE less == [k \in Lines |-> IF k \in K THEN Active(line[k]) ELSE 0]
           act  == [k \in Lines |-> Active(line[k])]
<1>1. /\ line \in [Lines -> ReservationItem] /\ line' \in [Lines -> ReservationItem]
      /\ \A k \in K : line[k].linked
  BY DEF ReservationInv, TypeOK, DocsTypeOK, AllLinked
<1>2. \A k \in Lines : Active(line[k]) \in Nat
  BY <1>1, ActiveType
<1>3. \A k \in Lines : /\ Active(line'[k]) = IF k \in K THEN 0 ELSE Active(line[k])
                       /\ Active(line'[k]) \in Nat
  BY <1>1, <1>2, ReleasedActive
<1>4. \A k \in Lines : less[k] \in Nat /\ Active(line'[k]) = Active(line[k]) - less[k]
  BY <1>2, <1>3
<1>5. ASSUME NEW w \in Warehouses
      PROVE  /\ LinkedActive(K, w) \in Nat
             /\ SumActive(line, LinesAt(res, line, o, w))
                  = SumActive(line', LinesAt(res', line', o, w)) + LinkedActive(K, w)
  <2> DEFINE L == LinesAt(res, line, o, w)
             M == {k \in K : line[k].linked /\ res[line[k].res].wh = w}
  <2>1. M = L \cap K /\ L \in SUBSET Lines /\ M \in SUBSET L
    BY <1>1 DEF LinesAt, LinesFor, LinesIn
  <2> HIDE DEF L, M
  <2>2. SumActive(line, L) = SumActive(line', L) + SumFunctionOnSet(less, L)
    <3> HIDE DEF less
    <3> QED
      BY <1>1, <1>4, <2>1, SumActiveLess
  <2>3. IsFiniteSet(L) /\ IsFiniteSet(M)
    BY <2>1, FiniteTables, FS_Subset
  <2>4. SumFunctionOnSet(less, L) = SumFunctionOnSet(less, M)
    <3>1. \A k \in L : less[k] \in Int
      BY <1>4, <2>1
    <3>2. \A k \in L \ M : less[k] = 0
      BY <2>1
    <3> HIDE DEF less
    <3> QED
      BY <2>1, <2>3, <3>1, <3>2, SumSupport
  <2>5. SumFunctionOnSet(less, M) = SumFunctionOnSet(act, M)
    <3>1. \A k \in M : act[k] \in Int /\ less[k] = act[k]
      BY <1>2, <2>1
    <3> HIDE DEF less, act
    <3> QED
      BY <2>3, <3>1, SumSame
  <2>6. LinkedActive(K, w) = SumFunctionOnSet(act, M)
    BY DEF LinkedActive, SumActive, act, M
  <2>7. LinkedActive(K, w) \in Nat
    BY <1>1, SumActiveNat DEF LinkedActive
  <2>8. LinesAt(res', line', o, w) = L
    BY RowsKeptEffect DEF L
  <2> QED
    BY <2>2, <2>4, <2>5, <2>6, <2>7, <2>8 DEF L
<1>6. ASSUME NEW q \in Orders \ {o}, NEW w \in Warehouses
      PROVE  SumActive(line', LinesAt(res', line', q, w)) = SumActive(line, LinesAt(res, line, q, w))
  <2>1. \A k \in LinesAt(res, line, q, w) : k \in Lines /\ k \notin K
    BY DEF LinesAt, LinesFor, LinesIn
  <2>2. SumActive(line', LinesAt(res, line, q, w)) = SumActive(line, LinesAt(res, line, q, w))
    BY <1>1, <1>3, <2>1, SumActiveSame DEF LinesAt, LinesFor, LinesIn
  <2> QED
    BY <2>2, RowsKeptEffect
<1>7. ASSUME NEW q \in Orders
      PROVE  SumActive(line', LinesFor(res', line', q)) =< SumActive(line, LinesFor(res, line, q))
  <2> DEFINE L == LinesFor(res, line, q)
             now == [k \in Lines |-> Active(line'[k])]
  <2>1. LinesFor(res', line', q) = L /\ L \in SUBSET Lines
    <3>1. L \in SUBSET Lines
      BY DEF LinesFor
    <3>2. NumWarehouses >= 1
      BY StockAssumption
    <3>3. 1 \in Warehouses
      BY <3>2, StockAssumption DEF Warehouses
    <3> QED
      BY <3>1, <3>3, RowsKeptEffect
  <2>2. \A k \in L : act[k] \in Int /\ now[k] \in Int /\ now[k] =< act[k]
    BY <1>2, <1>3, <2>1
  <2>3. IsFiniteSet(L)
    BY <2>1, FiniteTables, FS_Subset
  <2> HIDE DEF L
  <2>4. SumFunctionOnSet(now, L) =< SumFunctionOnSet(act, L)
    <3> HIDE DEF now, act
    <3> QED
      BY <2>2, <2>3, SumAtMost
  <2> QED
    BY <2>1, <2>4 DEF SumActive, L
<1> QED
  BY <1>5, <1>6, <1>7

LEMMA StockDocsNext ==
  ASSUME ReservationInv', Numbered', RowsWhole', LotsWhole', BalanceIsTotal', UnitsAccountedFor',
         \A q \in Orders, w \in Warehouses :
           HeldAt(q, w)' =< SumActive(line', LinesAt(res', line', q, w)),
         \A q \in Orders : SumActive(line', LinesFor(res', line', q)) =< Ordered[q]
  PROVE  StockDocs'
<1>1. HoldsAreDocumented'
  BY HoldsSumNext
<1>2. PromisedWithinOrder'
  BY WithinSumNext DEF PromisedWithinOrder
<1> QED
  BY <1>1, <1>2 DEF StockDocs

LEMMA StockDocsNow ==
  ASSUME ReservationInv, StockDocs
  PROVE  /\ \A q \in Orders, w \in Warehouses :
              HeldAt(q, w) =< SumActive(line, LinesAt(res, line, q, w))
         /\ \A q \in Orders : SumActive(line, LinesFor(res, line, q)) =< Ordered[q]
<1>1. \A q \in Orders, w \in Warehouses :
        HeldAt(q, w) =< SumActive(line, LinesAt(res, line, q, w))
  BY HoldsSum DEF StockDocs
<1>2. \A q \in Orders : SumActive(line, LinesFor(res, line, q)) =< Ordered[q]
  BY WithinSum DEF StockDocs, PromisedWithinOrder
<1> QED
  BY <1>1, <1>2

(* The lines of an order that sink, or stay, stay within the order.          *)
LEMMA OrderBound ==
  ASSUME TypeOK, TypeOK', NEW o \in Orders,
         SumActive(line, LinesFor(res, line, o)) =< Ordered[o],
         SumActive(line', LinesFor(res', line', o)) =< SumActive(line, LinesFor(res, line, o))
  PROVE  SumActive(line', LinesFor(res', line', o)) =< Ordered[o]
<1>1. SumActive(line, LinesFor(res, line, o)) \in Nat
  BY LineSumsNat
<1>2. SumActive(line', LinesFor(res', line', o)) \in Nat
  BY SumActiveNat DEF LinesFor, TypeOK, DocsTypeOK
<1>3. Ordered[o] \in Nat
  BY StockAssumption
<1> QED
  BY <1>1, <1>2, <1>3

(* A release of lines and of the holds behind them keeps them in agreement.  *)
LEMMA ReleaseKeeps ==
  ASSUME ReservationInv, ReservationInv', StockDocs, RowsKept,
         NEW o \in Orders, NEW K \in SUBSET Lines,
         \A k \in K : line[k].res # NoRes /\ res[line[k].res].order = o,
         line' = ReleasedLines(K),
         NEW f \in Freed(o, K), DropHolds(o, f), UNCHANGED <<lot, shipped, balance>>
  PROVE  StockDocs'
<1>1. /\ TypeOK /\ TypeOK' /\ StockTypeOK /\ StockTypeOK'
      /\ Numbered /\ RowsWhole
  BY DEF ReservationInv, StockDocs, TypeOK
<1>2. Numbered' /\ RowsWhole'
  BY <1>1, RowsKeptEffect
<1>3. f \in [Lots -> Nat] /\ \A l \in Lots : f[l] =< reserved[o][l]
  BY <1>1, FreedBound
<1>4. ASSUME NEW q \in Orders, NEW l \in Lots
      PROVE  reserved'[q][l] = reserved[q][l] - IF q = o THEN f[l] ELSE 0
  <2>1. reserved[q][l] \in Nat
    BY <1>1 DEF StockTypeOK
  <2> QED
    BY <1>1, <1>3, <2>1 DEF StockTypeOK, DropHolds
<1>5. \A w : LotsAt(w)' = LotsAt(w)
  BY DEF LotsAt
<1>6. LotsWhole'
  <2>1. ASSUME NEW l \in LotsAt(NoWh)
        PROVE  lot[l].received = lot[l].remaining /\ \A q \in Orders : reserved'[q][l] = 0
    <3>1. lot[l].received = lot[l].remaining /\ l \in Lots /\ \A q \in Orders : reserved[q][l] = 0
      BY DEF StockDocs, LotsWhole, LotsAt
    <3>2. f[l] = 0
      BY <1>3, <3>1
    <3> QED
      BY <1>4, <3>1, <3>2
  <2> QED
    BY <1>5, <2>1 DEF LotsWhole
<1>7. BalanceIsTotal' /\ UnitsAccountedFor'
  BY DEF StockDocs, BalanceIsTotal, UnitsAccountedFor, OnHand, Remaining, LotsAt
<1>8. ASSUME NEW q \in Orders, NEW w \in Warehouses
      PROVE  HeldAt(q, w)' =< SumActive(line', LinesAt(res', line', q, w))
  <2>1. HeldAt(q, w) =< SumActive(line, LinesAt(res, line, q, w))
    BY StockDocsNow
  <2>2. /\ HeldAt(q, w) \in Nat
        /\ SumActive(line, LinesAt(res, line, q, w)) \in Nat
        /\ SumActive(line', LinesAt(res', line', q, w)) \in Nat
    <3>1. HeldAt(q, w) \in Nat /\ SumActive(line, LinesAt(res, line, q, w)) \in Nat
      BY <1>1, HeldAtNat, LineSumsNat
    <3>2. SumActive(line', LinesAt(res', line', q, w)) \in Nat
      BY <1>1, SumActiveNat DEF LinesAt, LinesFor, TypeOK, DocsTypeOK
    <3> QED
      BY <3>1, <3>2
  <2>3. CASE q = o
    <3>1. HeldAt(o, w) = HeldAt(o, w)' + SumFunctionOnSet(f, LotsAt(w))
      BY <1>1, <1>3, <1>4, <1>5, HeldLess
    <3>2. SumFunctionOnSet(f, LotsAt(w)) = Lesser(LinkedActive(K, w), HeldAt(o, w))
      <4> DEFINE need == [v \in Warehouses |-> Lesser(LinkedActive(K, v), HeldAt(o, v))]
      <4>1. f \in TakeAcross(reserved[o], need)
        BY DEF Freed
      <4>2. need[w] = Lesser(LinkedActive(K, w), HeldAt(o, w))
        OBVIOUS
      <4> HIDE DEF need
      <4> QED
        BY <4>1, <4>2, TakenAt
    <3>3. /\ LinkedActive(K, w) \in Nat
          /\ SumActive(line, LinesAt(res, line, o, w))
               = SumActive(line', LinesAt(res', line', o, w)) + LinkedActive(K, w)
      BY <1>1, ReleaseSums
    <3>4. HeldAt(o, w)' \in Int
      <4>1. SumFunctionOnSet(reserved'[o], LotsAt(w)') \in Nat
        <5>1. \A l \in LotsAt(w) : reserved'[o][l] \in Nat
          BY <1>1 DEF LotsAt, StockTypeOK
        <5>2. IsFiniteSet(LotsAt(w))
          BY FiniteTables, FS_Subset DEF LotsAt
        <5> QED
          BY <1>5, <5>1, <5>2, SumNat
      <4> QED
        BY <4>1 DEF HeldAt
    <3>5. HeldAt(o, w) = HeldAt(o, w)' + Lesser(LinkedActive(K, w), HeldAt(o, w))
      BY <3>1, <3>2
    <3> HIDE DEF HeldAt, LinkedActive
    <3> QED
      BY <2>1, <2>2, <2>3, <3>3, <3>4, <3>5 DEF Lesser
  <2>4. CASE q # o
    <3>1. reserved'[q] = reserved[q]
      BY <1>1, <2>4 DEF StockTypeOK, DropHolds
    <3>2. HeldAt(q, w)' = HeldAt(q, w)
      BY <1>5, <3>1, HeldSame
    <3>3. SumActive(line', LinesAt(res', line', q, w)) = SumActive(line, LinesAt(res, line, q, w))
      BY <1>1, <2>4, ReleaseSums
    <3> QED
      BY <2>1, <3>2, <3>3
  <2> QED
    BY <2>3, <2>4
<1>9. ASSUME NEW q \in Orders
      PROVE  SumActive(line', LinesFor(res', line', q)) =< Ordered[q]
  BY <1>1, ReleaseSums, StockDocsNow, OrderBound
<1> QED
  BY <1>2, <1>6, <1>7, <1>8, <1>9, StockDocsNext

-----------------------------------------------------------------------------
(* Dispatch: the lots it takes from, the lines it books, the cache.          *)

(* One term that changes.                                                    *)
LEMMA SumChange ==
  ASSUME NEW S, IsFiniteSet(S), NEW y \in S, NEW f, NEW g,
         \A x \in S : f[x] \in Int /\ g[x] \in Int,
         \A x \in S \ {y} : g[x] = f[x]
  PROVE  /\ SumFunctionOnSet(f, S) \in Int
         /\ SumFunctionOnSet(g, S) = SumFunctionOnSet(f, S) + (g[y] - f[y])
<1>1. IsFiniteSet(S \ {y})
  BY FS_RemoveElement
<1>2. SumFunctionOnSet(f, S) = f[y] + SumFunctionOnSet(f, S \ {y})
      /\ SumFunctionOnSet(f, S) \in Int
  BY SumRules
<1>3. SumFunctionOnSet(g, S) = g[y] + SumFunctionOnSet(g, S \ {y})
  BY SumRules
<1>4. SumFunctionOnSet(g, S \ {y}) = SumFunctionOnSet(f, S \ {y})
  BY <1>1, SumSame
<1>5. SumFunctionOnSet(f, S \ {y}) \in Int
  BY <1>1, SumRules
<1> QED
  BY <1>2, <1>3, <1>4, <1>5

(* A shipment that may be sent takes its units from lines of its own order,  *)
(* in one reservation, at its own warehouse; so all that it takes from the   *)
(* lots is booked on the order.                                              *)
Sendable(o, s) ==
  /\ s \in Shipment
  /\ \A k \in Lines : s.items[k] > 0 =>
       /\ line[k].res # NoRes
       /\ line[k].res = s.res
       /\ s.wh = res[s.res].wh
  /\ s.res # NoRes => s.res \in UsedResvs /\ res[s.res].order = o
  /\ Dispatchable(s)

LEMMA SendableUnits ==
  ASSUME ReservationInv, RowsWhole, NEW o, NEW s, Sendable(o, s)
  PROVE  /\ Units(s) \in Nat
         /\ OrderUnits(s) = Units(s)
         /\ Source(s) \in Warehouses
         /\ \A k \in Lines : s.items[k] > 0 =>
              /\ line[k].res \in UsedResvs
              /\ res[line[k].res].order = o
              /\ res[line[k].res].wh = Source(s)
<1>1. /\ s.items \in [Lines \cup {Direct} -> Nat]
      /\ s.wh \in Warehouses \cup {NoWh} /\ s.res \in Resvs \cup {NoRes}
  BY DEF Sendable, Shipment
<1>2. Items(s) \in SUBSET (Lines \cup {Direct}) /\ OrderItems(s) = Items(s)
  BY DEF Items, OrderItems, Sendable, ReservationInv, AllLinked
<1>3. \A k \in Lines \cup {Direct} : s.items[k] \in Nat
  BY <1>1
<1>4. SumFunctionOnSet(s.items, Lines \cup {Direct}) = SumFunctionOnSet(s.items, Items(s))
  <2>1. \A k \in (Lines \cup {Direct}) \ Items(s) : s.items[k] = 0
    BY <1>3 DEF Items
  <2> QED
    BY <1>2, <1>3, <2>1, FiniteTables, SumSupport
<1>5. Units(s) = SumFunctionOnSet(s.items, Lines \cup {Direct})
  BY <1>1 DEF Units, SumFunction
<1>6. Units(s) \in Nat
  BY <1>3, <1>5, FiniteTables, SumNat
<1>7. OrderUnits(s) = Units(s)
  BY <1>2, <1>4, <1>5 DEF OrderUnits
<1>8. Source(s) \in Warehouses
  <2>1. s.res # NoRes => res[s.res].wh \in Warehouses \cup {NoWh}
    BY <1>1 DEF ReservationInv, TypeOK, DocsTypeOK, Reservation
  <2> QED
    BY <1>1, <2>1 DEF Sendable, Dispatchable, Source
<1>9. ASSUME NEW k \in Lines, s.items[k] > 0
      PROVE  /\ line[k].res \in UsedResvs
             /\ res[line[k].res].order = o
             /\ res[line[k].res].wh = Source(s)
  <2>1. line[k].res # NoRes /\ line[k].res = s.res /\ s.wh = res[s.res].wh
    BY <1>9 DEF Sendable
  <2>2. s.res \in UsedResvs /\ res[s.res].order = o
    BY <2>1 DEF Sendable
  <2>3. res[s.res].wh # NoWh
    BY <2>2 DEF RowsWhole
  <2> QED
    BY <2>1, <2>2, <2>3 DEF Source
<1> QED
  BY <1>6, <1>7, <1>8, <1>9

LEMMA DispatchTakes ==
  ASSUME ReservationInv, RowsWhole, NEW o \in Orders, NEW s, Sendable(o, s),
         NEW d \in Dispatches(o, s)
  PROVE  /\ d.taken \in [Lots -> Nat]
         /\ \A l \in Lots : /\ d.taken[l] =< lot[l].remaining
                            /\ d.taken[l] > 0 => lot[l].wh = Source(s)
         /\ d.sold = d.taken
         /\ SumFunction(d.sold) = Units(s)
         /\ d.freed \in [Lots -> Nat]
         /\ \A l \in Lots : /\ d.freed[l] =< reserved[o][l]
                            /\ d.freed[l] > 0 => lot[l].wh = Source(s)
<1>1. /\ d.freed \in Fifo(reserved[o], LotsAt(Source(s)), Lesser(OrderUnits(s), HeldAt(o, Source(s))))
      /\ d.taken \in Fifo(Remaining, LotsAt(Source(s)), Units(s))
      /\ d.sold \in [Lots -> 0..MaxQty]
      /\ \A l \in Lots : d.sold[l] =< d.taken[l]
      /\ SumFunction(d.sold) = OrderUnits(s)
  BY DEF Dispatches
<1>2. /\ lot \in [Lots -> [wh : Warehouses \cup {NoWh}, received : Nat, remaining : Nat]]
      /\ reserved \in [Orders -> [Lots -> Nat]]
  BY DEF ReservationInv, TypeOK, StockTypeOK
<1>3. d.taken \in [Lots -> 0..MaxQty] /\ d.freed \in [Lots -> 0..MaxQty]
  BY <1>1, FifoBound
<1>4. \A l \in Lots : d.taken[l] \in Nat /\ d.freed[l] \in Nat /\ d.sold[l] \in Nat
  BY <1>1, <1>3, StockAssumption
<1>5. ASSUME NEW l \in Lots
      PROVE  /\ d.taken[l] =< lot[l].remaining
             /\ d.taken[l] > 0 => lot[l].wh = Source(s)
             /\ d.freed[l] =< reserved[o][l]
             /\ d.freed[l] > 0 => lot[l].wh = Source(s)
  <2>1. d.taken[l] > 0 => l \in LotsAt(Source(s)) /\ d.taken[l] =< Remaining[l]
    BY <1>1 DEF Fifo
  <2>2. d.freed[l] > 0 => l \in LotsAt(Source(s)) /\ d.freed[l] =< reserved[o][l]
    BY <1>1 DEF Fifo
  <2>3. lot[l].remaining \in Nat /\ reserved[o][l] \in Nat /\ Remaining[l] = lot[l].remaining
    BY <1>2 DEF Remaining
  <2> QED
    BY <1>4, <2>1, <2>2, <2>3 DEF LotsAt
<1>6. d.sold = d.taken
  <2>1. SumFunctionOnSet(d.sold, Lots) = SumFunctionOnSet(d.taken, Lots)
    <3>1. SumFunction(d.sold) = SumFunctionOnSet(d.sold, Lots)
      BY <1>1 DEF SumFunction
    <3>2. SumFunction(d.taken) = SumFunctionOnSet(d.taken, Lots) /\ SumFunction(d.taken) = Units(s)
      BY <1>1, <1>3 DEF SumFunction, Fifo
    <3> QED
      BY <1>1, <3>1, <3>2, SendableUnits
  <2>2. \A l \in Lots : d.sold[l] \in Int /\ d.taken[l] \in Int /\ d.sold[l] =< d.taken[l]
    BY <1>1, <1>4
  <2>3. \A l \in Lots : d.sold[l] = d.taken[l]
    BY <2>1, <2>2, FiniteTables, SumEqual
  <2> QED
    BY <1>1, <1>3, <2>3
<1>7. SumFunction(d.sold) = Units(s)
  BY <1>1, SendableUnits
<1>8. d.taken \in [Lots -> Nat] /\ d.freed \in [Lots -> Nat]
  BY <1>3, <1>4
<1> QED
  BY <1>5, <1>6, <1>7, <1>8

(* What Dispatch writes: shipped units on the lines it was given, a status   *)
(* recomputed, every row in its place.                                       *)
LEMMA DispatchRows ==
  ASSUME ReservationInv, RowsWhole, NEW o \in Orders, NEW s, Sendable(o, s), NEW st,
         NEW d \in Dispatches(o, s), Dispatch(o, s, st, d)
  PROVE  /\ RowsKept
         /\ \A k \in Lines : /\ s.items[k] \in Nat
                             /\ Active(line'[k]) = Active(line[k]) - s.items[k]
                             /\ s.items[k] =< Active(line[k])
<1>1. /\ TypeOK /\ line \in [Lines -> ReservationItem]
      /\ s.items \in [Lines \cup {Direct} -> Nat]
  BY DEF ReservationInv, TypeOK, DocsTypeOK, Sendable, Shipment
<1>2. line' = DispatchedLines(s)
  BY DEF Dispatch
<1>3. ASSUME NEW k \in Lines
      PROVE  /\ line'[k].res = line[k].res /\ line'[k].linked = line[k].linked
             /\ line'[k].qty = line[k].qty /\ line'[k].rel = line[k].rel
             /\ line'[k].ful = line[k].ful + s.items[k]
  <2>1. line'[k] = [line[k] EXCEPT !.ful = @ + s.items[k]] /\ line[k] \in ReservationItem
    BY <1>1, <1>2 DEF DispatchedLines
  <2> QED
    BY <2>1 DEF ReservationItem
<1>4. \A k \in Items(s) \ {Direct} : k \in Lines /\ line[k].res \in UsedResvs
  <2>1. \A k \in Items(s) \ {Direct} : k \in Lines /\ s.items[k] > 0
    BY DEF Items
  <2> QED
    BY <2>1, SendableUnits
<1>5. \A r \in Resvs : /\ res'[r].order = res[r].order
                       /\ res'[r].wh = res[r].wh
                       /\ res'[r].status = "none" <=> res[r].status = "none"
  <2> DEFINE R == {line[k].res : k \in Items(s) \ {Direct}}
  <2>1. R \in SUBSET UsedResvs
    BY <1>4
  <2>2. res' = Recomputed(res, line', R)
    BY DEF Dispatch
  <2> HIDE DEF R
  <2> QED
    BY <1>1, <2>1, <2>2, RecomputedKeeps
<1>6. RowsKept
  BY <1>3, <1>5 DEF RowsKept
<1>7. ASSUME NEW k \in Lines
      PROVE  /\ s.items[k] \in Nat
             /\ Active(line'[k]) = Active(line[k]) - s.items[k]
             /\ s.items[k] =< Active(line[k])
  <2>1. s.items[k] \in Nat /\ line[k] \in ReservationItem
    BY <1>1
  <2>2. line[k].ful + line[k].rel =< line[k].qty
    BY DEF ReservationInv, LinesWithinQuantity
  <2>3. s.items[k] =< Active(line[k])
    <3>1. Active(line[k]) \in Nat
      BY <2>1, ActiveType
    <3>2. s.items[k] > 0 => k \in Items(s) \ {Direct}
      BY FulfilmentAssumption DEF Items, Lines, Direct
    <3>3. \A j \in Items(s) \ {Direct} : s.items[j] =< Active(line[j])
      BY DEF Dispatches
    <3> QED
      BY <2>1, <3>1, <3>2, <3>3
  <2>4. line[k].qty \in Nat /\ line[k].ful \in Nat /\ line[k].rel \in Nat
    BY <2>1 DEF ReservationItem
  <2> QED
    BY <1>3, <2>1, <2>2, <2>3, <2>4 DEF Active, NonNeg
<1> QED
  BY <1>6, <1>7

(* Stock: every unit that leaves a lot is booked on the order, and the cache *)
(* of the one warehouse that it leaves is rebuilt.                           *)
LEMMA DispatchStock ==
  ASSUME ReservationInv, StockDocs, NEW o \in Orders, NEW s, Sendable(o, s), NEW st,
         NEW d \in Dispatches(o, s), Dispatch(o, s, st, d)
  PROVE  /\ \A w : LotsAt(w)' = LotsAt(w)
         /\ LotsWhole' /\ BalanceIsTotal' /\ UnitsAccountedFor'
         /\ Shipped(o)' = Shipped(o) + Units(s)
         /\ \A q \in Orders \ {o} : Shipped(q)' = Shipped(q)
         /\ \A w \in Warehouses \ {Source(s)} : balance'[w] = balance[w]
<1>1. /\ StockTypeOK /\ RowsWhole
  BY DEF ReservationInv, StockDocs, TypeOK
<1>2. /\ d.taken \in [Lots -> Nat]
      /\ \A l \in Lots : /\ d.taken[l] =< lot[l].remaining
                         /\ d.taken[l] > 0 => lot[l].wh = Source(s)
      /\ d.sold = d.taken
      /\ SumFunction(d.sold) = Units(s)
      /\ d.freed \in [Lots -> Nat]
      /\ \A l \in Lots : /\ d.freed[l] =< reserved[o][l]
                         /\ d.freed[l] > 0 => lot[l].wh = Source(s)
  BY <1>1, DispatchTakes
<1>3. /\ lot' = [l \in Lots |-> [lot[l] EXCEPT !.remaining = @ - d.taken[l]]]
      /\ shipped' = [shipped EXCEPT ![o] = [l \in Lots |-> @[l] + d.sold[l]]]
      /\ reserved' = [reserved EXCEPT ![o] = [l \in Lots |-> @[l] - d.freed[l]]]
      /\ balance' = Rebuilt(lot', {Source(s)})
  BY DEF Dispatch, ShipStock, DropHolds
<1>4. Source(s) \in Warehouses /\ Source(s) # NoWh /\ Units(s) \in Nat
  BY <1>1, SendableUnits, StockAssumption DEF Warehouses, NoWh
<1>5. ASSUME NEW l \in Lots
      PROVE  /\ lot[l].remaining \in Nat /\ lot[l].received \in Nat
             /\ lot'[l].wh = lot[l].wh /\ lot'[l].received = lot[l].received
             /\ lot'[l].remaining = lot[l].remaining - d.taken[l]
             /\ d.taken[l] \in Nat /\ d.freed[l] \in Nat
  BY <1>1, <1>2, <1>3 DEF StockTypeOK
<1>6. ASSUME NEW q \in Orders, NEW l \in Lots
      PROVE  /\ shipped[q][l] \in Nat /\ reserved[q][l] \in Nat
             /\ shipped'[q][l] = shipped[q][l] + IF q = o THEN d.taken[l] ELSE 0
             /\ reserved'[q][l] = reserved[q][l] - IF q = o THEN d.freed[l] ELSE 0
  BY <1>1, <1>2, <1>3, <1>5 DEF StockTypeOK
<1>7. \A w : LotsAt(w)' = LotsAt(w)
  BY <1>5 DEF LotsAt
<1>8. LotsWhole'
  <2>1. ASSUME NEW l \in LotsAt(NoWh)
        PROVE  lot'[l].received = lot'[l].remaining /\ \A q \in Orders : reserved'[q][l] = 0
    <3>1. /\ l \in Lots /\ lot[l].wh = NoWh /\ lot[l].received = lot[l].remaining
          /\ \A q \in Orders : reserved[q][l] = 0
      BY DEF StockDocs, LotsWhole, LotsAt
    <3>2. d.taken[l] = 0 /\ d.freed[l] = 0
      BY <1>2, <1>4, <1>5, <3>1
    <3> QED
      BY <1>5, <1>6, <3>1, <3>2
  <2> QED
    BY <1>7, <2>1 DEF LotsWhole
<1>9. ASSUME NEW w \in Warehouses \ {Source(s)}
      PROVE  balance'[w] = balance[w]
  BY <1>3 DEF Rebuilt
<1>10. BalanceIsTotal'
  <2>1. ASSUME NEW w \in Warehouses \ {Source(s)}
        PROVE  balance'[w] = OnHand(w)'
    <3>1. \A l \in LotsAt(w) : Remaining[l] \in Int /\ (Remaining[l])' = Remaining[l]
      <4>1. \A l \in LotsAt(w) : l \in Lots /\ d.taken[l] = 0
        BY <1>2, <1>5 DEF LotsAt
      <4> QED
        BY <1>5, <4>1 DEF Remaining
    <3>2. IsFiniteSet(LotsAt(w))
      BY FiniteTables, FS_Subset DEF LotsAt
    <3>3. SumFunctionOnSet(Remaining', LotsAt(w)) = SumFunctionOnSet(Remaining, LotsAt(w))
      BY <3>1, <3>2, SumSame
    <3>4. balance[w] = OnHand(w)
      BY DEF StockDocs, BalanceIsTotal
    <3> QED
      BY <1>7, <1>9, <3>3, <3>4 DEF OnHand
  <2>2. ASSUME NEW w \in Warehouses, w = Source(s)
        PROVE  balance'[w] = OnHand(w)'
    <3>1. balance'[w] = SumFunctionOnSet([l \in Lots |-> lot'[l].remaining],
                                         {l \in Lots : lot'[l].wh = w})
      BY <1>3, <2>2 DEF Rebuilt
    <3> QED
      BY <3>1 DEF OnHand, Remaining, LotsAt
  <2>3. ASSUME NEW w \in Warehouses
        PROVE  balance'[w] = OnHand(w)'
    BY <2>1, <2>2
  <2> QED
    BY <2>3 DEF BalanceIsTotal
<1>11. UnitsAccountedFor'
  <2> SUFFICES ASSUME NEW l \in Lots
               PROVE  lot'[l].received - lot'[l].remaining
                        = SumFunction([q \in Orders |-> shipped'[q][l]])
    BY DEF UnitsAccountedFor
  <2> DEFINE f == [q \in Orders |-> shipped[q][l]]
             g == [q \in Orders |-> shipped'[q][l]]
  <2>1. /\ \A q \in Orders : f[q] \in Int /\ g[q] \in Int
        /\ \A q \in Orders \ {o} : g[q] = f[q]
        /\ g[o] - f[o] = d.taken[l]
    BY <1>5, <1>6
  <2>2. SumFunction(f) = SumFunctionOnSet(f, Orders) /\ SumFunction(g) = SumFunctionOnSet(g, Orders)
    BY DEF SumFunction
  <2>3. lot[l].received - lot[l].remaining = SumFunction(f)
    BY DEF StockDocs, UnitsAccountedFor
  <2> HIDE DEF f, g
  <2>4. /\ SumFunctionOnSet(f, Orders) \in Int
        /\ SumFunctionOnSet(g, Orders) = SumFunctionOnSet(f, Orders) + (g[o] - f[o])
    BY <2>1, FiniteTables, SumChange
  <2>5. lot'[l].received - lot'[l].remaining = SumFunction(g)
    BY <1>5, <2>1, <2>2, <2>3, <2>4
  <2> QED
    BY <2>5 DEF g
<1>12. Shipped(o)' = Shipped(o) + Units(s)
  <2>1. /\ \A l \in Lots : shipped[o][l] \in Int /\ d.sold[l] \in Int
        /\ \A l \in Lots : shipped'[o][l] = shipped[o][l] + d.sold[l]
    BY <1>2, <1>5, <1>6
  <2>2. SumFunctionOnSet(shipped'[o], Lots)
          = SumFunctionOnSet(shipped[o], Lots) + SumFunctionOnSet(d.sold, Lots)
    BY <2>1, FiniteTables, SumAdd
  <2>3. DOMAIN shipped[o] = Lots /\ DOMAIN shipped'[o] = Lots /\ DOMAIN d.sold = Lots
    BY <1>1, <1>2, <1>3 DEF StockTypeOK
  <2> QED
    BY <1>2, <2>2, <2>3 DEF Shipped, SumFunction
<1>13. ASSUME NEW q \in Orders \ {o}
       PROVE  Shipped(q)' = Shipped(q)
  <2>1. shipped'[q] = shipped[q]
    BY <1>1, <1>3 DEF StockTypeOK
  <2> QED
    BY <2>1, Zenon DEF Shipped
<1> QED
  BY <1>7, <1>8, <1>9, <1>10, <1>11, <1>12, <1>13

(* Documents: what the lines of the order lose covers what its holds keep.   *)
LEMMA DispatchSums ==
  ASSUME ReservationInv, ReservationInv', StockDocs, NEW o \in Orders, NEW s, Sendable(o, s),
         NEW st, NEW d \in Dispatches(o, s), Dispatch(o, s, st, d),
         NEW q \in Orders, NEW w \in Warehouses
  PROVE  \E n \in Nat :
           /\ SumActive(line, LinesAt(res, line, q, w))
                = SumActive(line', LinesAt(res', line', q, w)) + n
           /\ n =< Units(s)
           /\ ~(q = o /\ w = Source(s)) => n = 0
<1> DEFINE L == LinesAt(res, line, q, w)
           n == SumFunctionOnSet(s.items, L)
<1>1. /\ RowsWhole /\ Numbered
      /\ line \in [Lines -> ReservationItem] /\ line' \in [Lines -> ReservationItem]
      /\ s.items \in [Lines \cup {Direct} -> Nat]
  BY DEF StockDocs, ReservationInv, TypeOK, DocsTypeOK, Sendable, Shipment
<1>2. /\ RowsKept
      /\ \A k \in Lines : s.items[k] \in Nat /\ Active(line'[k]) = Active(line[k]) - s.items[k]
  BY <1>1, DispatchRows
<1>3. LinesAt(res', line', q, w) = L
  BY <1>1, <1>2, RowsKeptEffect
<1>4. L \in SUBSET Lines /\ L \in SUBSET (Lines \cup {Direct}) /\ IsFiniteSet(L)
  <2>1. L \in SUBSET Lines
    BY DEF LinesAt, LinesFor
  <2> QED
    BY <2>1, FiniteTables, FS_Subset
<1>5. ~(q = o /\ w = Source(s)) => \A k \in L : s.items[k] = 0
  <2>1. ASSUME NEW k \in L, s.items[k] # 0
        PROVE  q = o /\ w = Source(s)
    <3>1. k \in Lines /\ res[line[k].res].order = q /\ res[line[k].res].wh = w
      BY DEF LinesAt, LinesFor, LinesIn
    <3>2. s.items[k] > 0
      BY <1>2, <2>1, <3>1
    <3> QED
      BY <1>1, <3>1, <3>2, SendableUnits
  <2> QED
    BY <2>1
<1> HIDE DEF L
<1>6. SumActive(line, L) = SumActive(line', L) + n
  BY <1>1, <1>2, <1>4, SumActiveLess
<1>7. n \in Nat /\ n =< Units(s)
  <2>1. \A k \in Lines \cup {Direct} : s.items[k] \in Nat
    BY <1>1
  <2>2. n \in Nat
    BY <1>4, <2>1, SumNat
  <2>3. n =< SumFunctionOnSet(s.items, Lines \cup {Direct})
    BY <1>4, <2>1, FiniteTables, SumWithin
  <2>4. Units(s) = SumFunctionOnSet(s.items, Lines \cup {Direct})
    BY <1>1 DEF Units, SumFunction
  <2> QED
    BY <2>2, <2>3, <2>4
<1>8. ~(q = o /\ w = Source(s)) => n = 0
  <2>1. ASSUME \A k \in L : s.items[k] = 0
        PROVE  n = 0
    <3>1. \A k \in L : s.items[k] \in Int
      BY <2>1
    <3>2. {} \in SUBSET L /\ IsFiniteSet({})
      BY FS_EmptySet
    <3>3. SumFunctionOnSet(s.items, L) = SumFunctionOnSet(s.items, {})
      BY <1>4, <2>1, <3>1, <3>2, SumSupport
    <3>4. SumFunctionOnSet(s.items, {}) = 0
      BY <3>2, SumRules
    <3> QED
      BY <3>3, <3>4
  <2> QED
    BY <1>5, <2>1
<1> QED
  BY <1>3, <1>6, <1>7, <1>8 DEF L

LEMMA DispatchHeld ==
  ASSUME ReservationInv, StockDocs, NEW o \in Orders, NEW s, Sendable(o, s),
         NEW st, NEW d \in Dispatches(o, s), Dispatch(o, s, st, d),
         NEW q \in Orders, NEW w \in Warehouses
  PROVE  /\ HeldAt(q, w)' \in Int
         /\ HeldAt(q, w) = HeldAt(q, w)' +
              IF q = o /\ w = Source(s) THEN Lesser(Units(s), HeldAt(q, w)) ELSE 0
<1>1. /\ StockTypeOK /\ RowsWhole
  BY DEF ReservationInv, StockDocs, TypeOK
<1>2. /\ \A v : LotsAt(v)' = LotsAt(v)
      /\ HeldAt(q, w) \in Nat
  BY <1>1, DispatchStock, HeldAtNat
<1>3. CASE q # o
  <2>1. reserved'[q] = reserved[q]
    BY <1>1, <1>3 DEF StockTypeOK, Dispatch, ShipStock, DropHolds
  <2>2. HeldAt(q, w)' = HeldAt(q, w)
    BY <1>2, <2>1, HeldSame
  <2> QED
    BY <1>2, <1>3, <2>2
<1>4. CASE q = o
  <2>1. d.freed \in [Lots -> Nat] /\ \A l \in Lots : d.freed[l] =< reserved[o][l]
    BY <1>1, DispatchTakes
  <2>2. \A l \in Lots : reserved'[o][l] = reserved[o][l] - d.freed[l]
    BY <1>1 DEF StockTypeOK, Dispatch, ShipStock, DropHolds
  <2>3. HeldAt(o, w) = HeldAt(o, w)' + SumFunctionOnSet(d.freed, LotsAt(w))
    BY <1>1, <1>2, <2>1, <2>2, HeldLess
  <2>4. HeldAt(o, w)' \in Nat
    <3>1. \A l \in LotsAt(w) : reserved'[o][l] \in Nat
      <4>1. \A l \in Lots : reserved[o][l] \in Nat /\ d.freed[l] \in Nat
        BY <1>1, <2>1 DEF StockTypeOK
      <4> QED
        BY <2>1, <2>2, <4>1 DEF LotsAt
    <3>2. IsFiniteSet(LotsAt(w))
      BY FiniteTables, FS_Subset DEF LotsAt
    <3>3. SumFunctionOnSet(reserved'[o], LotsAt(w)) \in Nat
      BY <3>1, <3>2, SumNat
    <3> QED
      BY <1>2, <3>3 DEF HeldAt
  <2>5. /\ d.freed \in Fifo(reserved[o], LotsAt(Source(s)), Lesser(OrderUnits(s), HeldAt(o, Source(s))))
        /\ OrderUnits(s) = Units(s)
        /\ Source(s) \in Warehouses
        /\ LotsAt(Source(s)) \in SUBSET Lots
    BY <1>1, SendableUnits DEF Dispatches, LotsAt
  <2>6. CASE w = Source(s)
    <3>1. SumFunctionOnSet(d.freed, LotsAt(w)) = Lesser(Units(s), HeldAt(o, w))
      BY <2>5, <2>6, FifoTotal
    <3> QED
      BY <1>4, <2>3, <2>4, <2>6, <3>1
  <2>7. CASE w # Source(s)
    <3>1. LotsAt(w) \in SUBSET Lots /\ LotsAt(w) \cap LotsAt(Source(s)) = {}
      BY <2>7 DEF LotsAt
    <3>2. SumFunctionOnSet(d.freed, LotsAt(w)) = 0
      BY <2>5, <3>1, FifoTotal
    <3> QED
      BY <1>4, <2>3, <2>4, <2>7, <3>2
  <2> QED
    BY <2>6, <2>7
<1> QED
  BY <1>3, <1>4

(* A dispatch keeps stock and documents in agreement.                        *)
LEMMA DispatchKeeps ==
  ASSUME ReservationInv, ReservationInv', StockDocs, NEW o \in Orders, NEW s, Sendable(o, s),
         NEW st, NEW d \in Dispatches(o, s), Dispatch(o, s, st, d)
  PROVE  StockDocs'
<1>1. /\ TypeOK /\ TypeOK' /\ StockTypeOK /\ Numbered /\ RowsWhole
  BY DEF ReservationInv, StockDocs, TypeOK
<1>2. /\ RowsKept
      /\ \A k \in Lines : /\ s.items[k] \in Nat
                          /\ Active(line'[k]) = Active(line[k]) - s.items[k]
  BY <1>1, DispatchRows
<1>3. Numbered' /\ RowsWhole'
  BY <1>1, <1>2, RowsKeptEffect
<1>4. LotsWhole' /\ BalanceIsTotal' /\ UnitsAccountedFor'
  BY DispatchStock
<1>5. ASSUME NEW q \in Orders, NEW w \in Warehouses
      PROVE  HeldAt(q, w)' =< SumActive(line', LinesAt(res', line', q, w))
  <2>1. HeldAt(q, w) =< SumActive(line, LinesAt(res, line, q, w))
    BY StockDocsNow
  <2>2. PICK n \in Nat :
          /\ SumActive(line, LinesAt(res, line, q, w))
               = SumActive(line', LinesAt(res', line', q, w)) + n
          /\ n =< Units(s)
          /\ ~(q = o /\ w = Source(s)) => n = 0
    BY DispatchSums
  <2>3. /\ HeldAt(q, w)' \in Int
        /\ HeldAt(q, w) = HeldAt(q, w)' +
             IF q = o /\ w = Source(s) THEN Lesser(Units(s), HeldAt(q, w)) ELSE 0
    BY DispatchHeld
  <2>4. /\ SumActive(line', LinesAt(res', line', q, w)) \in Nat
        /\ HeldAt(q, w) \in Nat /\ Units(s) \in Nat
    <3>1. SumActive(line', LinesAt(res', line', q, w)) \in Nat
      BY <1>1, SumActiveNat DEF LinesAt, LinesFor, TypeOK, DocsTypeOK
    <3> QED
      BY <1>1, <3>1, HeldAtNat, SendableUnits
  <2> QED
    BY <2>1, <2>2, <2>3, <2>4 DEF Lesser
<1>6. ASSUME NEW q \in Orders
      PROVE  SumActive(line', LinesFor(res', line', q)) =< Ordered[q]
  <2> DEFINE L   == LinesFor(res, line, q)
             act == [k \in Lines |-> Active(line[k])]
             now == [k \in Lines |-> Active(line'[k])]
  <2>1. LinesFor(res', line', q) = L /\ L \in SUBSET Lines /\ IsFiniteSet(L)
    <3>1. L \in SUBSET Lines /\ IsFiniteSet(L)
      BY FiniteTables, FS_Subset DEF LinesFor
    <3>2. 1 \in Warehouses
      BY StockAssumption DEF Warehouses
    <3> QED
      BY <1>1, <1>2, <3>1, <3>2, RowsKeptEffect
  <2>2. \A k \in L : act[k] \in Int /\ now[k] \in Int /\ now[k] =< act[k]
    <3>1. \A k \in Lines : Active(line[k]) \in Nat
      BY <1>1, ActiveType DEF TypeOK, DocsTypeOK
    <3> QED
      BY <1>2, <2>1, <3>1
  <2> HIDE DEF L
  <2>3. SumFunctionOnSet(now, L) =< SumFunctionOnSet(act, L)
    <3> HIDE DEF now, act
    <3> QED
      BY <2>1, <2>2, SumAtMost
  <2>4. SumActive(line', LinesFor(res', line', q)) =< SumActive(line, LinesFor(res, line, q))
    BY <2>1, <2>3 DEF SumActive, L
  <2> QED
    BY <1>1, <2>4, StockDocsNow, OrderBound
<1> QED
  BY <1>3, <1>4, <1>5, <1>6, StockDocsNext

-----------------------------------------------------------------------------
(* A receipt, and steps that leave the stock tables alone.                   *)

(* A receipt fills a lot that no hold and no shipment is booked on.          *)
LEMMA ReceiptKeeps ==
  ASSUME ReservationInv, ReservationInv', StockDocs,
         NEW w \in Warehouses, NEW q \in 1..MaxQty, Receipt(w, q)
  PROVE  StockDocs'
<1>1. PICK l \in LotsAt(NoWh) :
        lot' = [lot EXCEPT ![l] = [wh |-> w, received |-> q, remaining |-> q]]
  BY DEF Receipt
<1>2. /\ balance' = Rebuilt(lot', {w})
      /\ reserved' = reserved /\ shipped' = shipped /\ res' = res /\ line' = line
  BY DEF Receipt, docVars
<1>3. /\ lot \in [Lots -> [wh : Warehouses \cup {NoWh}, received : Nat, remaining : Nat]]
      /\ reserved \in [Orders -> [Lots -> Nat]]
      /\ l \in Lots /\ lot[l].wh = NoWh /\ lot[l].received = lot[l].remaining
      /\ \A o \in Orders : reserved[o][l] = 0
      /\ q \in Nat /\ w # NoWh
  BY StockAssumption DEF ReservationInv, TypeOK, StockTypeOK, StockDocs, LotsWhole, LotsAt,
     Warehouses, NoWh
<1>4. /\ lot'[l] = [wh |-> w, received |-> q, remaining |-> q]
      /\ \A m \in Lots \ {l} : lot'[m] = lot[m]
  BY <1>1, <1>3
<1>5. Numbered' /\ RowsWhole'
  <2>1. UsedResvs' = UsedResvs /\ UsedLines' = UsedLines
    BY <1>2 DEF UsedResvs, UsedLines
  <2>2. Numbered'
    BY <2>1, Zenon DEF Numbered, StockDocs
  <2> QED
    BY <1>2, <2>1, <2>2 DEF RowsWhole, StockDocs
<1>6. LotsWhole'
  <2>1. ASSUME NEW m \in LotsAt(NoWh)'
        PROVE  lot'[m].received = lot'[m].remaining /\ \A o \in Orders : reserved'[o][m] = 0
    <3>1. m \in Lots /\ m # l /\ m \in LotsAt(NoWh)
      BY <1>3, <1>4 DEF LotsAt
    <3> QED
      BY <1>2, <1>4, <3>1 DEF StockDocs, LotsWhole
  <2> QED
    BY <2>1 DEF LotsWhole
<1>7. ASSUME NEW v \in Warehouses
      PROVE  /\ v # w => LotsAt(v)' = LotsAt(v)
             /\ v = w => LotsAt(v)' = LotsAt(v) \cup {l}
             /\ l \notin LotsAt(v)
             /\ IsFiniteSet(LotsAt(v))
             /\ LotsAt(v) \subseteq Lots
  <2>1. l \notin LotsAt(v)
    BY <1>3, StockAssumption DEF LotsAt, Warehouses, NoWh
  <2>2. v # w => LotsAt(v)' = LotsAt(v)
    BY <1>4, <2>1 DEF LotsAt
  <2>3. v = w => LotsAt(v)' = LotsAt(v) \cup {l}
    BY <1>3, <1>4 DEF LotsAt
  <2> QED
    BY <2>1, <2>2, <2>3, FiniteTables, FS_Subset DEF LotsAt
<1>8. ASSUME NEW v \in Warehouses
      PROVE  balance'[v] = OnHand(v)'
  <2>1. CASE v = w
    BY <1>2, <2>1 DEF Rebuilt, OnHand, Remaining, LotsAt
  <2>2. CASE v # w
    <3>1. \A m \in LotsAt(v) : Remaining[m] \in Int /\ (Remaining[m])' = Remaining[m]
      BY <1>3, <1>4, <1>7 DEF Remaining
    <3>2. SumFunctionOnSet(Remaining', LotsAt(v)) = SumFunctionOnSet(Remaining, LotsAt(v))
      BY <1>7, <3>1, SumSame
    <3>3. balance'[v] = balance[v]
      BY <1>2, <2>2 DEF Rebuilt
    <3>4. balance[v] = OnHand(v)
      BY DEF StockDocs, BalanceIsTotal
    <3> QED
      BY <1>7, <2>2, <3>2, <3>3, <3>4 DEF OnHand
  <2> QED
    BY <2>1, <2>2
<1>9. BalanceIsTotal'
  BY <1>8 DEF BalanceIsTotal
<1>10. UnitsAccountedFor'
  <2> SUFFICES ASSUME NEW m \in Lots
               PROVE  lot'[m].received - lot'[m].remaining
                        = SumFunction([o \in Orders |-> shipped'[o][m]])
    BY DEF UnitsAccountedFor
  <2>1. lot'[m].received - lot'[m].remaining = lot[m].received - lot[m].remaining
    BY <1>3, <1>4
  <2> QED
    BY <1>2, <2>1 DEF StockDocs, UnitsAccountedFor
<1>11. ASSUME NEW o \in Orders, NEW v \in Warehouses
       PROVE  HeldAt(o, v)' =< SumActive(line', LinesAt(res', line', o, v))
  <2>1. HeldAt(o, v) =< SumActive(line, LinesAt(res, line, o, v))
    BY StockDocsNow
  <2>2. HeldAt(o, v)' = HeldAt(o, v)
    <3>1. CASE v # w
      BY <1>2, <1>7, <3>1, HeldSame
    <3>2. CASE v = w
      <4> DEFINE S == LotsAt(v)
                 f == reserved[o]
      <4>1. /\ S \subseteq Lots /\ IsFiniteSet(S) /\ l \notin S
            /\ \A m \in S : f[m] \in Nat
            /\ \A m \in S \cup {l} : f[m] \in Int
            /\ f[l] = 0
        BY <1>3, <1>7
      <4>2. HeldAt(o, v) = SumFunctionOnSet(f, S)
        BY DEF HeldAt
      <4>3. HeldAt(o, v)' = SumFunctionOnSet(f, S \cup {l})
        BY <1>2, <1>7, <3>2 DEF HeldAt
      <4> HIDE DEF f, S
      <4>4. SumFunctionOnSet(f, S \cup {l}) = f[l] + SumFunctionOnSet(f, S)
        BY <4>1, SumInsert
      <4>5. SumFunctionOnSet(f, S) \in Nat
        BY <4>1, SumNat
      <4> QED
        BY <4>1, <4>2, <4>3, <4>4, <4>5
    <3> QED
      BY <3>1, <3>2
  <2> QED
    BY <1>2, <2>1, <2>2
<1>12. \A o \in Orders : SumActive(line', LinesFor(res', line', o)) =< Ordered[o]
  BY <1>2, StockDocsNow
<1> QED
  BY <1>5, <1>6, <1>9, <1>10, <1>11, <1>12, StockDocsNext

LEMMA UntouchedKeeps ==
  ASSUME StockDocs, UNCHANGED <<lot, reserved, shipped, balance, res, line>>
  PROVE  StockDocs'
<1>1. UsedResvs' = UsedResvs /\ UsedLines' = UsedLines
  BY DEF UsedResvs, UsedLines
<1>2. Numbered'
  BY <1>1, Zenon DEF Numbered, StockDocs
<1>3. RowsWhole'
  BY <1>1 DEF RowsWhole, StockDocs
<1>4. LotsWhole' /\ BalanceIsTotal' /\ UnitsAccountedFor'
  BY DEF StockDocs, LotsWhole, BalanceIsTotal, UnitsAccountedFor, OnHand, Remaining, LotsAt
<1>5. HoldsAreDocumented' /\ PromisedWithinOrder'
  BY DEF StockDocs, HoldsAreDocumented, PromisedWithinOrder, ReservedFor, HeldAt, LotsAt,
     SumActive, HoldingLines, ActiveResvs
<1> QED
  BY <1>2, <1>3, <1>4, <1>5 DEF StockDocs

-----------------------------------------------------------------------------
(* Shipments and deals name rows of their own order.                         *)

(* A shipment names lines in use; while it is not sent, lines of the one     *)
(* reservation it is for, at its own warehouse.  A deal's primary            *)
(* reservation is one of its order.                                          *)
Sentness(s) == s.consumed <=> s.status \in {"shipped", "delivered"}
OwnResv(o, r, rs) == r # NoRes => r \in Resvs /\ rs[r].status # "none" /\ rs[r].order = o
ShipFits(o, s, rs, ln) ==
  /\ Sentness(s)
  /\ OwnResv(o, s.res, rs)
  /\ \A k \in Lines : s.items[k] > 0 =>
       /\ ln[k].res # NoRes
       /\ ~s.consumed => ln[k].res = s.res /\ s.wh = rs[s.res].wh

ShipWhole ==
  \A o \in Orders :
    /\ ShipFits(o, ship[o], res, line)
    /\ Shipped(o) = IF ship[o].consumed THEN SumFunction(ship[o].items) ELSE 0
DealWhole == \A o \in Orders : OwnResv(o, deal[o].primary, res)

LEMMA OwnResvStays ==
  ASSUME RowsStay, NEW o, NEW r, OwnResv(o, r, res)
  PROVE  OwnResv(o, r, res')
BY DEF OwnResv, RowsStay, UsedResvs

LEMMA ShipFitsStays ==
  ASSUME RowsStay, NEW o, NEW s, ShipFits(o, s, res, line)
  PROVE  ShipFits(o, s, res', line')
<1>1. OwnResv(o, s.res, res')
  BY OwnResvStays DEF ShipFits
<1>2. s.res # NoRes => s.res \in UsedResvs
  BY DEF ShipFits, OwnResv, UsedResvs
<1>3. ASSUME NEW k \in Lines, s.items[k] > 0
      PROVE  /\ line'[k].res # NoRes
             /\ ~s.consumed => line'[k].res = s.res /\ s.wh = res'[s.res].wh
  <2>1. line[k].res # NoRes /\ line'[k].res = line[k].res
    BY <1>3 DEF ShipFits, RowsStay
  <2>2. ~s.consumed => line[k].res = s.res /\ s.wh = res[s.res].wh
    BY <1>3 DEF ShipFits
  <2> QED
    BY <1>2, <2>1, <2>2 DEF RowsStay
<1> QED
  BY <1>1, <1>3 DEF ShipFits

LEMMA FirstActive ==
  ASSUME NEW rs, NEW o, ActiveResvs(rs, o) # {}
  PROVE  OwnResv(o, FirstOf(ActiveResvs(rs, o)), rs)
<1>1. ActiveResvs(rs, o) \in SUBSET Resvs
  BY DEF ActiveResvs
<1>2. FirstOf(ActiveResvs(rs, o)) \in ActiveResvs(rs, o)
  BY <1>1, FirstOfType
<1> QED
  BY <1>2 DEF OwnResv, ActiveResvs, ActiveStatuses

LEMMA DealPrimaryOwn ==
  ASSUME NEW rs, NEW o, NEW p, OwnResv(o, p, rs)
  PROVE  OwnResv(o, DealPrimary(rs, o, p), rs)
<1>1. OwnResv(o, NoRes, rs)
  BY DEF OwnResv
<1> QED
  BY <1>1, FirstActive DEF DealPrimary

LEMMA PrimaryIfSoleOwn ==
  ASSUME NEW rs, NEW o, NEW p, OwnResv(o, p, rs)
  PROVE  OwnResv(o, PrimaryIfSole(rs, o, p), rs)
<1>1. OwnResv(o, NoRes, rs)
  BY DEF OwnResv
<1> QED
  BY <1>1, DealPrimaryOwn DEF PrimaryIfSole

(* create_or_update_shipment_for_order keeps a shipment whole.               *)
LEMMA ShipmentForFits ==
  ASSUME TypeOK, NEW o \in Orders, NEW r0 \in Resvs \cup {NoRes}, NEW rs, NEW ln, NEW dl, NEW st,
         rs \in [Resvs -> Reservation], OwnResv(o, r0, rs),
         \A r \in Resvs : rs[r].status # "none" => rs[r].wh # NoWh,
         ShipFits(o, ship[o], rs, ln)
  PROVE  LET s == ShipmentFor(o, r0, rs, ln, dl, st)
         IN  /\ ShipFits(o, s, rs, ln)
             /\ s.consumed = ship[o].consumed
             /\ s.consumed => s.items = ship[o].items
<1> DEFINE old == ship[o]
           s   == ShipmentFor(o, r0, rs, ln, dl, st)
           r   == IF r0 # NoRes THEN r0 ELSE SoleActive(rs, o)
           src == IF r # NoRes THEN rs[r].wh ELSE dl[o].wh
<1>1. old \in Shipment
  BY DEF TypeOK, DocsTypeOK
<1>2. OwnResv(o, r, rs)
  <2>1. OwnResv(o, SoleActive(rs, o), rs)
    <3>1. OwnResv(o, NoRes, rs)
      BY DEF OwnResv
    <3>2. Cardinality(ActiveResvs(rs, o)) = 1 => ActiveResvs(rs, o) # {}
      <4>1. Cardinality({}) = 0
        BY FS_EmptySet
      <4>2. ActiveResvs(rs, o) = {} => Cardinality(ActiveResvs(rs, o)) = 0
        BY <4>1, Zenon
      <4> QED
        BY <4>2
    <3> QED
      BY <3>1, <3>2, FirstActive DEF SoleActive
  <2> QED
    BY <2>1
<1>3. CASE old.consumed
  <2>1. s = [old EXCEPT !.status = IF st = "done" /\ @ = "shipped" THEN "delivered" ELSE @]
    BY <1>3 DEF ShipmentFor
  <2>2. /\ s.consumed = old.consumed /\ s.items = old.items /\ s.res = old.res /\ s.wh = old.wh
        /\ s.status \in {"shipped", "delivered"} <=> old.status \in {"shipped", "delivered"}
    BY <1>1, <2>1 DEF Shipment
  <2> HIDE DEF s
  <2>3. Sentness(s) /\ OwnResv(o, s.res, rs)
    BY <2>2 DEF ShipFits, Sentness
  <2>4. \A k \in Lines : s.items[k] > 0 => ln[k].res # NoRes
    BY <2>2 DEF ShipFits
  <2> QED
    BY <1>3, <2>2, <2>3, <2>4 DEF ShipFits, s
<1>4. CASE ~old.consumed
  <2>1. s = [status   |-> IF old.status = "cancelled" THEN "cancelled" ELSE "pending",
             res      |-> IF r # NoRes THEN r ELSE old.res,
             wh       |-> IF src # NoWh THEN src ELSE old.wh,
             consumed |-> FALSE,
             items    |-> IF r # NoRes
                          THEN [k \in Lines \cup {Direct} |->
                                  IF k # Direct /\ k \in LinesOf(ln, r) THEN Active(ln[k]) ELSE 0]
                          ELSE [NoItems EXCEPT ![Direct] = Unshipped(o)]]
    BY <1>4, Zenon DEF ShipmentFor
  <2>2. s.consumed = FALSE /\ s.status \notin {"shipped", "delivered"}
    BY <2>1
  <2>3. s.res = IF r # NoRes THEN r ELSE old.res
    BY <2>1
  <2>4. s.wh = IF src # NoWh THEN src ELSE old.wh
    BY <2>1
  <2>5. s.items = IF r # NoRes
                  THEN [k \in Lines \cup {Direct} |->
                          IF k # Direct /\ k \in LinesOf(ln, r) THEN Active(ln[k]) ELSE 0]
                  ELSE [NoItems EXCEPT ![Direct] = Unshipped(o)]
    BY <2>1
  <2> HIDE DEF s, r
  <2>6. OwnResv(o, s.res, rs)
    BY <1>2, <2>3 DEF ShipFits
  <2>7. ASSUME NEW k \in Lines, s.items[k] > 0
        PROVE  ln[k].res # NoRes /\ ln[k].res = s.res /\ s.wh = rs[s.res].wh
    <3>1. CASE r = NoRes
      <4>1. k # Direct
        BY FulfilmentAssumption DEF Lines, Direct
      <4>2. s.items[k] = 0
        BY <2>5, <3>1, <4>1 DEF NoItems
      <4> QED
        BY <2>7, <4>2
    <3>2. CASE r # NoRes
      <4>1. k \in LinesOf(ln, r)
        BY <2>5, <2>7, <3>2
      <4>2. rs[r].wh # NoWh /\ s.res = r
        BY <1>2, <2>3, <3>2 DEF OwnResv
      <4> QED
        BY <2>4, <3>2, <4>1, <4>2 DEF LinesOf
    <3> QED
      BY <3>1, <3>2
  <2>8. ShipFits(o, s, rs, ln)
    BY <2>2, <2>6, <2>7 DEF ShipFits, Sentness
  <2>9. old.consumed = FALSE
    BY <1>1, <1>4 DEF Shipment
  <2> QED
    BY <2>2, <2>8, <2>9 DEF s
<1> QED
  BY <1>3, <1>4

DeskInv == ReservationInv /\ StockDocs /\ ShipWhole /\ DealWhole

LEMMA SameRowsStay ==
  ASSUME UNCHANGED <<res, line>>
  PROVE  RowsStay
BY DEF RowsStay, UsedResvs

LEMMA ShipUntouched ==
  ASSUME RowsStay, ShipWhole, UNCHANGED <<ship, shipped>>
  PROVE  ShipWhole'
<1>1. ASSUME NEW o \in Orders
      PROVE  ShipFits(o, ship'[o], res', line')
  BY ShipFitsStays DEF ShipWhole
<1>2. ASSUME NEW o \in Orders
      PROVE  Shipped(o)' = Shipped(o)
  BY DEF Shipped
<1> QED
  BY <1>1, <1>2 DEF ShipWhole

LEMMA ShipReplaced ==
  ASSUME TypeOK, RowsStay, ShipWhole, NEW o \in Orders, NEW s, ship' = [ship EXCEPT ![o] = s],
         ShipFits(o, s, res', line'),
         Shipped(o)' = IF s.consumed THEN SumFunction(s.items) ELSE 0,
         \A q \in Orders \ {o} : Shipped(q)' = Shipped(q)
  PROVE  ShipWhole'
<1>1. ship'[o] = s /\ \A q \in Orders \ {o} : ship'[q] = ship[q]
  BY DEF TypeOK, DocsTypeOK
<1>2. ASSUME NEW q \in Orders \ {o}
      PROVE  ShipFits(q, ship'[q], res', line')
  BY <1>1, ShipFitsStays DEF ShipWhole
<1>3. ASSUME NEW q \in Orders
      PROVE  /\ ShipFits(q, ship'[q], res', line')
             /\ Shipped(q)' = IF ship'[q].consumed THEN SumFunction(ship'[q].items) ELSE 0
  <2>1. CASE q = o
    BY <1>1, <2>1
  <2>2. CASE q # o
    <3>1. ship'[q] = ship[q] /\ Shipped(q)' = Shipped(q)
      BY <1>1, <2>2
    <3>2. Shipped(q) = IF ship[q].consumed THEN SumFunction(ship[q].items) ELSE 0
      BY DEF ShipWhole
    <3> QED
      BY <1>2, <2>2, <3>1, <3>2
  <2> QED
    BY <2>1, <2>2
<1> QED
  BY <1>3 DEF ShipWhole

LEMMA DealUntouched ==
  ASSUME RowsStay, DealWhole, UNCHANGED deal
  PROVE  DealWhole'
BY OwnResvStays DEF DealWhole

LEMMA DealReplaced ==
  ASSUME RowsStay, DealWhole, NEW o \in Orders,
         \A q \in Orders \ {o} : deal'[q] = deal[q],
         OwnResv(o, deal'[o].primary, res')
  PROVE  DealWhole'
<1>1. ASSUME NEW q \in Orders
      PROVE  OwnResv(q, deal'[q].primary, res')
  <2>1. CASE q = o
    BY <2>1
  <2>2. CASE q # o
    <3>1. OwnResv(q, deal[q].primary, res')
      BY OwnResvStays DEF DealWhole
    <3> QED
      BY <2>2, <3>1
  <2> QED
    BY <2>1, <2>2
<1> QED
  BY <1>1 DEF DealWhole

(* What a step needs to keep the invariant of the desk.                      *)
LEMMA Fits ==
  ASSUME DeskInv, NEW o \in Orders
  PROVE  /\ TypeOK /\ Numbered /\ RowsWhole
         /\ ship[o] \in Shipment
         /\ ShipFits(o, ship[o], res, line)
         /\ ship[o].consumed \in BOOLEAN
         /\ ~ship[o].consumed => Shipped(o) = 0
         /\ OwnResv(o, deal[o].primary, res)
         /\ deal \in [Orders -> [wh : Warehouses \cup {NoWh}, primary : Resvs \cup {NoRes}]]
BY DEF DeskInv, ReservationInv, StockDocs, ShipWhole, DealWhole, TypeOK, DocsTypeOK, Shipment

(* A shipment that create_or_update_shipment_for_order has written.          *)
LEMMA RefreshedShip ==
  ASSUME DeskInv, TypeOK', RowsStay, RowsWhole', NEW o \in Orders,
         NEW r0, OwnResv(o, r0, res'), NEW dl, NEW st,
         ship' = [ship EXCEPT ![o] = ShipmentFor(o, r0, res', line', dl, st)],
         UNCHANGED shipped
  PROVE  ShipWhole'
<1> DEFINE s == ShipmentFor(o, r0, res', line', dl, st)
<1>1. /\ TypeOK /\ ShipFits(o, ship[o], res', line')
      /\ Shipped(o) = IF ship[o].consumed THEN SumFunction(ship[o].items) ELSE 0
      /\ ShipWhole
  BY Fits, ShipFitsStays DEF DeskInv, ShipWhole
<1>2. /\ r0 \in Resvs \cup {NoRes}
      /\ res' \in [Resvs -> Reservation]
      /\ \A r \in Resvs : res'[r].status # "none" => res'[r].wh # NoWh
  BY DEF OwnResv, TypeOK, DocsTypeOK, RowsWhole, UsedResvs
<1>3. /\ ShipFits(o, s, res', line')
      /\ s.consumed = ship[o].consumed
      /\ s.consumed => s.items = ship[o].items
  BY <1>1, <1>2, ShipmentForFits
<1>4. \A q \in Orders : Shipped(q)' = Shipped(q)
  BY DEF Shipped
<1>5. ship' = [ship EXCEPT ![o] = s]
  OBVIOUS
<1> HIDE DEF s
<1>6. Shipped(o)' = IF s.consumed THEN SumFunction(s.items) ELSE 0
  BY <1>1, <1>3, <1>4
<1> QED
  BY <1>1, <1>3, <1>4, <1>5, <1>6, ShipReplaced

(* A dispatch and a reservation, with the shipment and the deal they write.  *)
LEMMA DispatchDesk ==
  ASSUME DeskInv, ReservationInv', NEW o \in Orders, NEW s \in Shipment,
         ShipFits(o, s, res, line), ~ship[o].consumed, Dispatchable(s), NEW st,
         NEW d \in Dispatches(o, s), Dispatch(o, s, st, d), UNCHANGED deal
  PROVE  DeskInv'
<1>1. /\ TypeOK /\ Numbered /\ RowsWhole /\ ReservationInv /\ StockDocs /\ ShipWhole /\ DealWhole
      /\ Shipped(o) = 0
  BY Fits DEF DeskInv
<1>2. Sendable(o, s)
  BY DEF Sendable, ShipFits, OwnResv, UsedResvs, Dispatchable
<1>3. StockDocs'
  BY <1>1, <1>2, DispatchKeeps
<1>4. RowsStay
  BY <1>1, <1>2, DispatchRows, RowsKeptEffect
<1>5. DealWhole'
  BY <1>1, <1>4, DealUntouched
<1>6. /\ Shipped(o)' = Units(s)
      /\ \A q \in Orders \ {o} : Shipped(q)' = Shipped(q)
  <2>1. Units(s) \in Nat
    BY <1>1, <1>2, SendableUnits
  <2> QED
    BY <1>1, <1>2, <2>1, DispatchStock
<1> DEFINE t == Sent(s, st)
<1>7. /\ t.consumed = TRUE /\ t.items = s.items /\ t.res = s.res
      /\ t.status \in {"shipped", "delivered"}
  BY DEF Sent, Shipment
<1>8. ship' = [ship EXCEPT ![o] = t]
  BY DEF Dispatch
<1> HIDE DEF t
<1>9. ShipFits(o, t, res', line')
  <2>1. OwnResv(o, t.res, res')
    BY <1>4, <1>7, OwnResvStays DEF ShipFits
  <2>2. \A k \in Lines : s.items[k] > 0 => line'[k].res # NoRes
    BY <1>4 DEF ShipFits, RowsStay
  <2> QED
    BY <1>7, <2>1, <2>2 DEF ShipFits, Sentness
<1>10. ShipWhole'
  <2>1. Shipped(o)' = IF t.consumed THEN SumFunction(t.items) ELSE 0
    BY <1>6, <1>7 DEF Units
  <2> QED
    BY <1>1, <1>4, <1>6, <1>8, <1>9, <2>1, ShipReplaced
<1> QED
  BY <1>3, <1>5, <1>10 DEF DeskInv

LEMMA ReserveDesk ==
  ASSUME DeskInv, ReservationInv', NEW o \in Orders,
         NEW g \in [Warehouses -> 0..MaxQty], NEW pref,
         Sorts(pref, Wanted(g)), SumFunction(g) =< Missing(o), Reserve(o, g, pref)
  PROVE  /\ StockDocs' /\ RowsWhole' /\ RowsStay /\ UNCHANGED shipped
         /\ \A w \in Wanted(g) : OwnResv(o, ResvFor(o, g, pref, w), res')
<1>1. /\ TypeOK /\ Numbered /\ RowsWhole /\ ReservationInv /\ StockDocs
  BY Fits DEF DeskInv
<1>2. StockDocs'
  BY <1>1, ReserveKeeps
<1>3. RowsStay
  BY <1>1, ReserveRowsStay
<1>4. \A w \in Wanted(g) : /\ ResvFor(o, g, pref, w) \in UsedResvs'
                           /\ res'[ResvFor(o, g, pref, w)].order = o
  BY <1>1, ReserveEffect
<1>5. \A w \in Wanted(g) : OwnResv(o, ResvFor(o, g, pref, w), res')
  BY <1>4 DEF OwnResv, UsedResvs
<1> QED
  BY <1>2, <1>3, <1>5 DEF StockDocs, Reserve

-----------------------------------------------------------------------------
(* Every request of the desk keeps the invariant.                            *)

(* One lemma for each request, in the order of DealDeskNext.                 *)
LEMMA UntouchedDesk ==
  ASSUME DeskInv, ReservationInv',
         UNCHANGED <<lot, reserved, shipped, balance, res, line, ship, deal>>
  PROVE  DeskInv'
BY SameRowsStay, UntouchedKeeps, ShipUntouched, DealUntouched DEF DeskInv

LEMMA ReceiptDesk ==
  ASSUME DeskInv, ReservationInv', NEW w \in Warehouses, NEW q \in 1..MaxQty, Receipt(w, q)
  PROVE  DeskInv'
<1>1. UNCHANGED <<res, line, ship, deal, shipped>>
  BY DEF Receipt, docVars
<1> QED
  BY <1>1, ReceiptKeeps, SameRowsStay, ShipUntouched, DealUntouched DEF DeskInv

LEMMA ConfirmDesk ==
  ASSUME DeskInv, ReservationInv', NEW o \in Orders, Confirm(o)
  PROVE  DeskInv'
<1>1. PICK g \in Greedy(Missing(o)) :
        /\ Reserve(o, g, Preference)
        /\ deal' = IF Cardinality(NewAt(o, g)) = 1
                   THEN [deal EXCEPT ![o].primary =
                           ResvFor(o, g, Preference, CHOOSE w \in NewAt(o, g) : TRUE)]
                   ELSE deal
  BY DEF Confirm
<1>2. /\ g \in [Warehouses -> 0..MaxQty]
      /\ Sorts(Preference, Wanted(g))
      /\ SumFunction(g) =< Missing(o)
  BY MissingNat, GreedyFits DEF DeskInv
<1>3. /\ StockDocs' /\ RowsStay /\ UNCHANGED shipped
      /\ \A w \in Wanted(g) : OwnResv(o, ResvFor(o, g, Preference, w), res')
  BY <1>1, <1>2, ReserveDesk
<1>4. ShipWhole'
  BY <1>3, ShipUntouched DEF DeskInv, Confirm
<1>5. DealWhole'
  <2>1. CASE Cardinality(NewAt(o, g)) = 1
    <3> DEFINE w == CHOOSE v \in NewAt(o, g) : TRUE
    <3>1. NewAt(o, g) # {}
      <4>1. Cardinality({}) = 0
        BY FS_EmptySet
      <4>2. NewAt(o, g) = {} => Cardinality(NewAt(o, g)) = 0
        BY <4>1, Zenon
      <4> QED
        BY <2>1, <4>2
    <3>2. w \in Wanted(g)
      BY <3>1 DEF NewAt
    <3>3. deal' = [deal EXCEPT ![o].primary = ResvFor(o, g, Preference, w)]
      BY <1>1, <2>1
    <3> HIDE DEF w
    <3>4. /\ deal'[o].primary = ResvFor(o, g, Preference, w)
          /\ \A q \in Orders \ {o} : deal'[q] = deal[q]
      BY <3>3, Fits
    <3> QED
      BY <1>3, <3>2, <3>4, DealReplaced DEF DeskInv
  <2>2. CASE Cardinality(NewAt(o, g)) # 1
    BY <1>1, <1>3, <2>2, DealUntouched DEF DeskInv
  <2> QED
    BY <2>1, <2>2
<1> QED
  BY <1>3, <1>4, <1>5 DEF DeskInv

LEMMA ReleasedRowsKept ==
  ASSUME ReservationInv, NEW K, line' = ReleasedLines(K), NEW R \in SUBSET UsedResvs,
         \A r \in Resvs : res'[r] = IF r \in R THEN [res[r] EXCEPT !.status = "cancelled"]
                                              ELSE res[r]
  PROVE  RowsKept
<1>1. \A k \in Lines : /\ line'[k].res = line[k].res
                       /\ line'[k].linked = line[k].linked
                       /\ line'[k].qty = line[k].qty
  BY ReleasedLinesEmpty
<1>2. ASSUME NEW r \in Resvs
      PROVE  /\ res'[r].order = res[r].order
             /\ res'[r].wh = res[r].wh
             /\ res'[r].status = "none" <=> res[r].status = "none"
  <2>1. res[r] \in Reservation
    BY DEF ReservationInv, TypeOK, DocsTypeOK
  <2>2. r \in R => res[r].status # "none"
    BY DEF UsedResvs
  <2> QED
    BY <2>1, <2>2 DEF Reservation
<1> QED
  BY <1>1, <1>2 DEF RowsKept

LEMMA CancelRows ==
  ASSUME DeskInv, NEW o \in Orders, Cancel(o) \/ CancelInterrupted(o)
  PROVE  \E K \in SUBSET HoldingLines(res, line, o) :
           /\ \E f \in Freed(o, K) : DropHolds(o, f)
           /\ line' = ReleasedLines(K)
           /\ RowsKept
<1>1. PICK K \in SUBSET HoldingLines(res, line, o), R \in SUBSET ActiveResvs(res, o) :
        /\ \E f \in Freed(o, K) : DropHolds(o, f)
        /\ line' = ReleasedLines(K)
        /\ res' = [r \in Resvs |-> IF r \in R THEN [res[r] EXCEPT !.status = "cancelled"]
                                              ELSE res[r]]
  <2>1. CASE Cancel(o)
    BY <2>1 DEF Cancel
  <2>2. CASE CancelInterrupted(o)
    <3> DEFINE D    == ReleasedBefore(o)
               done == {r \in ActiveResvs(res, o) :
                          \A k \in HoldingLines(res, line, o) \ D : line[k].res > r}
    <3>1. D \in SUBSET HoldingLines(res, line, o)
      BY DEF ReleasedBefore
    <3>2. done \in SUBSET ActiveResvs(res, o)
      OBVIOUS
    <3>3. /\ \E f \in Freed(o, D) : DropHolds(o, f)
          /\ line' = ReleasedLines(D)
          /\ res' = [r \in Resvs |-> IF r \in done THEN [res[r] EXCEPT !.status = "cancelled"]
                                                   ELSE res[r]]
      BY <2>2, Zenon DEF CancelInterrupted
    <3> HIDE DEF D, done
    <3> QED
      BY <3>1, <3>2, <3>3
  <2> QED
    BY <2>1, <2>2
<1>2. R \in SUBSET UsedResvs
  BY DEF ActiveResvs, ActiveStatuses, UsedResvs
<1>3. RowsKept
  BY <1>1, <1>2, ReleasedRowsKept DEF DeskInv
<1> QED
  BY <1>1, <1>3

LEMMA CancelDesk ==
  ASSUME DeskInv, ReservationInv', NEW o \in Orders, Cancel(o) \/ CancelInterrupted(o)
  PROVE  DeskInv'
<1>1. PICK K \in SUBSET HoldingLines(res, line, o) :
        /\ \E f \in Freed(o, K) : DropHolds(o, f)
        /\ line' = ReleasedLines(K)
        /\ RowsKept
  BY CancelRows
<1>2. PICK f \in Freed(o, K) : DropHolds(o, f)
  BY <1>1
<1>3. UNCHANGED <<lot, shipped, balance, ship>>
  BY DEF Cancel, CancelInterrupted
<1>4. /\ K \in SUBSET Lines
      /\ \A k \in K : line[k].res # NoRes /\ res[line[k].res].order = o
  BY DEF HoldingLines, ActiveResvs, Resvs, NoRes
<1>5. StockDocs'
  BY <1>1, <1>2, <1>3, <1>4, ReleaseKeeps DEF DeskInv
<1>6. RowsStay
  BY <1>1, RowsKeptEffect DEF DeskInv, StockDocs
<1>7. ShipWhole'
  BY <1>3, <1>6, ShipUntouched DEF DeskInv
<1>8. DealWhole'
  <2>1. \/ deal' = deal
        \/ \E S : ClearPrimary(o, S)
    BY DEF Cancel, CancelInterrupted
  <2>2. ASSUME NEW S, ClearPrimary(o, S)
        PROVE  DealWhole'
    <3>1. /\ deal'[o].primary = NoRes \/ deal'[o].primary = deal[o].primary
          /\ \A q \in Orders \ {o} : deal'[q] = deal[q]
      BY <2>2, Fits DEF ClearPrimary
    <3>2. OwnResv(o, deal[o].primary, res') /\ OwnResv(o, NoRes, res')
      BY <1>6, Fits, OwnResvStays DEF OwnResv
    <3> QED
      BY <1>6, <3>1, <3>2, DealReplaced DEF DeskInv
  <2>3. deal' = deal => DealWhole'
    BY <1>6, DealUntouched DEF DeskInv
  <2> QED
    BY <2>1, <2>2, <2>3
<1> QED
  BY <1>5, <1>7, <1>8 DEF DeskInv

LEMMA PreparedFits ==
  ASSUME DeskInv, NEW o \in Orders, NEW st
  PROVE  LET s == ShipmentFor(o, NoRes, res, line, deal, st)
         IN  /\ s \in Shipment
             /\ ShipFits(o, s, res, line)
             /\ s.consumed = ship[o].consumed
<1>1. /\ TypeOK /\ RowsWhole /\ ShipFits(o, ship[o], res, line)
  BY Fits
<1>2. ShipmentFor(o, NoRes, res, line, deal, st) \in Shipment
  BY <1>1, ShipmentForType DEF TypeOK, DocsTypeOK
<1>3. /\ OwnResv(o, NoRes, res) /\ res \in [Resvs -> Reservation]
      /\ \A r \in Resvs : res[r].status # "none" => res[r].wh # NoWh
  BY <1>1 DEF OwnResv, TypeOK, DocsTypeOK, RowsWhole, UsedResvs
<1> QED
  BY <1>1, <1>2, <1>3, ShipmentForFits

LEMMA SendableFits ==
  ASSUME NEW o, NEW s \in Shipment, ShipFits(o, s, res, line), Dispatchable(s)
  PROVE  Sendable(o, s)
BY DEF Sendable, ShipFits, OwnResv, UsedResvs, Dispatchable

LEMMA FulfilDesk ==
  ASSUME DeskInv, ReservationInv', NEW o \in Orders, NEW st, Fulfil(o, st)
  PROVE  DeskInv'
<1> DEFINE s == ShipmentFor(o, NoRes, res, line, deal, st)
<1>1. UNCHANGED deal
  BY DEF Fulfil
<1>3. /\ s \in Shipment
      /\ ShipFits(o, s, res, line)
      /\ s.consumed = ship[o].consumed
  BY PreparedFits
<1>4. CASE Dispatchable(s) /\ \E d \in Dispatches(o, s) : Dispatch(o, s, st, d)
  <2>1. PICK d \in Dispatches(o, s) : Dispatch(o, s, st, d)
    BY <1>4
  <2>2. ~ship[o].consumed
    BY <1>3, <1>4 DEF Dispatchable
  <2> HIDE DEF s
  <2> QED
    BY <1>1, <1>3, <1>4, <2>1, <2>2, DispatchDesk
<1>5. CASE ship' = [ship EXCEPT ![o] = s] /\ UNCHANGED <<stockVars, res, line>>
  <2>1. UNCHANGED <<lot, reserved, shipped, balance, res, line>>
    BY <1>5 DEF stockVars
  <2>2. StockDocs' /\ RowsStay /\ DealWhole'
    BY <1>1, <2>1, UntouchedKeeps, SameRowsStay, DealUntouched DEF DeskInv
  <2>3. ship' = [ship EXCEPT ![o] = ShipmentFor(o, NoRes, res', line', deal, st)]
    BY <1>5, <2>1
  <2>4. TypeOK' /\ RowsWhole' /\ OwnResv(o, NoRes, res')
    BY <2>2 DEF ReservationInv, StockDocs, OwnResv
  <2>5. ShipWhole'
    BY <2>1, <2>2, <2>3, <2>4, RefreshedShip
  <2> QED
    BY <2>2, <2>5 DEF DeskInv
<1> QED
  BY <1>4, <1>5 DEF Fulfil

LEMMA DispatchShipmentDesk ==
  ASSUME DeskInv, ReservationInv', NEW o \in Orders, DispatchShipment(o)
  PROVE  DeskInv'
<1>1. PICK d \in Dispatches(o, ship[o]) : Dispatch(o, ship[o], order[o], d)
  BY DEF DispatchShipment
<1>2. Dispatchable(ship[o]) /\ ~ship[o].consumed /\ UNCHANGED deal
  BY DEF DispatchShipment, Dispatchable
<1> QED
  BY <1>1, <1>2, Fits, DispatchDesk

LEMMA ShipStatusDesk ==
  ASSUME DeskInv, RowsStay, NEW o \in Orders, NEW st \in ShipStatuses,
         ship' = [ship EXCEPT ![o].status = st], UNCHANGED shipped,
         ship[o].consumed <=> st \in {"shipped", "delivered"}
  PROVE  ShipWhole'
<1> DEFINE s == [ship[o] EXCEPT !.status = st]
<1>1. /\ TypeOK /\ ship[o] \in Shipment
      /\ ShipFits(o, ship[o], res', line')
      /\ Shipped(o) = IF ship[o].consumed THEN SumFunction(ship[o].items) ELSE 0
  BY Fits, ShipFitsStays DEF DeskInv, ShipWhole
<1>2. /\ s.status = st /\ s.consumed = ship[o].consumed /\ s.items = ship[o].items
      /\ s.res = ship[o].res /\ s.wh = ship[o].wh
  BY <1>1 DEF Shipment
<1>3. ship' = [ship EXCEPT ![o] = s]
  BY <1>1 DEF TypeOK, DocsTypeOK
<1> HIDE DEF s
<1>4. ShipFits(o, s, res', line')
  BY <1>1, <1>2 DEF ShipFits, Sentness
<1>5. \A q \in Orders : Shipped(q)' = Shipped(q)
  BY DEF Shipped
<1> QED
  BY <1>1, <1>2, <1>3, <1>4, <1>5, ShipReplaced DEF DeskInv

LEMMA MarkDeliveredDesk ==
  ASSUME DeskInv, ReservationInv', NEW o \in Orders, MarkDelivered(o)
  PROVE  DeskInv'
<1>1. UNCHANGED <<lot, reserved, shipped, balance, res, line, deal>>
  BY DEF MarkDelivered, stockVars
<1>2. StockDocs' /\ RowsStay /\ DealWhole'
  BY <1>1, UntouchedKeeps, SameRowsStay, DealUntouched DEF DeskInv
<1>3. ship[o].consumed
  BY Fits DEF MarkDelivered, ShipFits, Sentness
<1>4. ShipWhole'
  BY <1>1, <1>2, <1>3, ShipStatusDesk DEF MarkDelivered, ShipStatuses
<1> QED
  BY <1>2, <1>4 DEF DeskInv

LEMMA CancelShipmentRows ==
  ASSUME DeskInv, NEW o \in Orders, CancelShipment(o)
  PROVE  LET s == ship[o]
             K == {k \in Items(s) \ {Direct} : line[k].res = s.res}
         IN  /\ K \in SUBSET Lines
             /\ \A k \in K : /\ line[k].res # NoRes /\ line[k].res = s.res
                             /\ res[line[k].res].order = o
             /\ line' = ReleasedLines(K)
             /\ RowsKept
<1> DEFINE s == ship[o]
           K == {k \in Items(s) \ {Direct} : line[k].res = s.res}
<1>1. /\ line' = ReleasedLines(K)
      /\ res' = IF K = {} THEN res ELSE Recomputed(res, line', {s.res})
  BY DEF CancelShipment
<1>2. /\ ~s.consumed /\ TypeOK /\ s \in Shipment /\ ShipFits(o, s, res, line)
  BY Fits DEF CancelShipment
<1>3. /\ K \in SUBSET Lines
      /\ \A k \in K : line[k].res # NoRes /\ line[k].res = s.res
  <2>1. \A k \in K : k \in Lines /\ s.items[k] > 0 /\ line[k].res = s.res
    BY DEF Items
  <2> QED
    BY <1>2, <2>1 DEF ShipFits
<1>4. s.res # NoRes => s.res \in UsedResvs /\ res[s.res].order = o
  BY <1>2 DEF ShipFits, OwnResv, UsedResvs
<1> HIDE DEF K
<1>5. \A k \in Lines : /\ line'[k].res = line[k].res
                       /\ line'[k].linked = line[k].linked
                       /\ line'[k].qty = line[k].qty
  BY <1>1, ReleasedLinesEmpty DEF DeskInv
<1>6. CASE K = {}
  BY <1>1, <1>3, <1>5, <1>6 DEF RowsKept, K
<1>7. CASE K # {}
  <2>1. {s.res} \in SUBSET UsedResvs /\ res' = Recomputed(res, line', {s.res})
    BY <1>1, <1>3, <1>4, <1>7
  <2>2. \A r \in Resvs : /\ res'[r].order = res[r].order
                         /\ res'[r].wh = res[r].wh
                         /\ res'[r].status = "none" <=> res[r].status = "none"
    BY <1>2, <2>1, RecomputedKeeps
  <2>3. RowsKept
    BY <1>5, <2>2 DEF RowsKept
  <2>4. \A k \in K : res[line[k].res].order = o
    BY <1>3, <1>4
  <2> QED
    BY <1>1, <1>3, <2>3, <2>4 DEF K
<1> QED
  BY <1>6, <1>7

LEMMA CancelShipmentDesk ==
  ASSUME DeskInv, ReservationInv', NEW o \in Orders, CancelShipment(o)
  PROVE  DeskInv'
<1> DEFINE s == ship[o]
           K == {k \in Items(s) \ {Direct} : line[k].res = s.res}
<1>1. /\ ~s.consumed
      /\ ship' = [ship EXCEPT ![o].status = "cancelled"]
      /\ \E f \in Freed(o, K) : DropHolds(o, f)
      /\ UNCHANGED <<lot, shipped, balance, deal>>
  BY DEF CancelShipment
<1>2. /\ K \in SUBSET Lines
      /\ \A k \in K : line[k].res # NoRes /\ res[line[k].res].order = o
      /\ line' = ReleasedLines(K)
      /\ RowsKept
  BY CancelShipmentRows
<1> HIDE DEF K
<1>3. StockDocs'
  <2>1. PICK f \in Freed(o, K) : DropHolds(o, f)
    BY <1>1
  <2> QED
    BY <1>1, <1>2, <2>1, ReleaseKeeps DEF DeskInv
<1>4. RowsStay
  BY <1>2, RowsKeptEffect DEF DeskInv, StockDocs
<1>5. ShipWhole'
  BY <1>1, <1>4, ShipStatusDesk DEF ShipStatuses
<1>6. DealWhole'
  BY <1>1, <1>4, DealUntouched DEF DeskInv
<1> QED
  BY <1>3, <1>5, <1>6 DEF DeskInv

LEMMA ReserveOnCreationDesk ==
  ASSUME DeskInv, ReservationInv', NEW o \in Orders, ReserveOnCreation(o)
  PROVE  DeskInv'
<1> DEFINE w == deal[o].wh
<1>1. PICK g \in AllAt(w, Missing(o)) :
        /\ Reserve(o, g, {})
        /\ deal' = [deal EXCEPT ![o].primary = ResvFor(o, g, {}, w)]
  BY DEF ReserveOnCreation
<1>2. w \in Warehouses
  BY Fits DEF ReserveOnCreation
<1>3. ReservedFor(o) = 0
  <2>1. LinesFor(res, line, o) = {}
    BY Fits DEF LinesFor, ReserveOnCreation, RowsWhole, UsedResvs
  <2>2. IsFiniteSet({})
    BY FS_EmptySet
  <2>3. SumActive(line, {}) = 0
    BY <2>2, SumRules DEF SumActive
  <2> QED
    BY <2>1, <2>3, WithinSum DEF DeskInv
<1>4. Missing(o) \in Nat /\ Missing(o) > 0
  BY <1>3, MissingNat DEF DeskInv
<1> HIDE DEF w
<1>5. /\ g \in [Warehouses -> 0..MaxQty]
      /\ Sorts({}, Wanted(g))
      /\ SumFunction(g) =< Missing(o)
      /\ w \in Wanted(g)
  BY <1>2, <1>4, AllAtFits
<1>6. /\ StockDocs' /\ RowsStay /\ UNCHANGED shipped
      /\ \A v \in Wanted(g) : OwnResv(o, ResvFor(o, g, {}, v), res')
  BY <1>1, <1>5, ReserveDesk
<1>7. ShipWhole'
  BY <1>6, ShipUntouched DEF DeskInv, ReserveOnCreation
<1>8. DealWhole'
  <2>1. /\ deal'[o].primary = ResvFor(o, g, {}, w)
        /\ \A q \in Orders \ {o} : deal'[q] = deal[q]
    BY <1>1, Fits
  <2> QED
    BY <1>5, <1>6, <2>1, DealReplaced DEF DeskInv
<1> QED
  BY <1>6, <1>7, <1>8 DEF DeskInv

LEMMA ReserveOrderItemDesk ==
  ASSUME DeskInv, ReservationInv', NEW o \in Orders, NEW w \in Warehouses, NEW q \in 1..MaxQty,
         ReserveOrderItem(o, w, q)
  PROVE  DeskInv'
<1>1. PICK g \in AllAt(w, q) : Reserve(o, g, {})
  BY DEF ReserveOrderItem
<1>2. /\ q \in Nat /\ q =< Missing(o)
      /\ deal' = [deal EXCEPT ![o] = DealWith(res', o, deal[o].primary)]
  BY StockAssumption DEF ReserveOrderItem
<1>3. /\ g \in [Warehouses -> 0..MaxQty]
      /\ Sorts({}, Wanted(g))
      /\ SumFunction(g) =< Missing(o)
  BY <1>2, AllAtFits
<1>4. StockDocs' /\ RowsStay /\ UNCHANGED shipped
  BY <1>1, <1>3, ReserveDesk
<1>5. ShipWhole'
  BY <1>4, ShipUntouched DEF DeskInv, ReserveOrderItem
<1>6. DealWhole'
  <2>1. /\ deal'[o].primary = DealPrimary(res', o, deal[o].primary)
        /\ \A p \in Orders \ {o} : deal'[p] = deal[p]
    BY <1>2, Fits DEF DealWith
  <2>2. OwnResv(o, deal'[o].primary, res')
    BY <1>4, <2>1, Fits, OwnResvStays, DealPrimaryOwn
  <2> QED
    BY <1>4, <2>1, <2>2, DealReplaced DEF DeskInv
<1> QED
  BY <1>4, <1>5, <1>6 DEF DeskInv

LEMMA StrictSplitFits ==
  ASSUME DeskInv, NEW o \in Orders, NEW g \in StrictSplits(o)
  PROVE  /\ g \in [Warehouses -> 0..MaxQty]
         /\ Sorts(Preference, Wanted(g))
         /\ SumFunction(g) =< Missing(o)
<1>1. Missing(o) \in Nat
  BY MissingNat DEF DeskInv
<1>2. CASE deal[o].wh # NoWh
  <2>1. deal[o].wh \in Warehouses
    BY <1>2, Fits
  <2>2. g \in AllAt(deal[o].wh, Missing(o))
    BY <1>2 DEF StrictSplits
  <2> QED
    BY <1>1, <2>1, <2>2, AllAtFits
<1>3. CASE deal[o].wh = NoWh
  <2>1. g \in Greedy(Missing(o))
    BY <1>3 DEF StrictSplits
  <2> QED
    BY <1>1, <2>1, GreedyFits DEF DeskInv
<1> QED
  BY <1>2, <1>3

LEMMA ReserveStrictlyDesk ==
  ASSUME DeskInv, ReservationInv', NEW o \in Orders, ReserveStrictly(o)
  PROVE  StockDocs' /\ RowsWhole' /\ RowsStay /\ UNCHANGED shipped /\ DealWhole'
<1>1. PICK g \in StrictSplits(o) :
        /\ Reserve(o, g, Preference)
        /\ \E p : /\ \/ p = deal[o].primary
                      \/ \E w \in NewAt(o, g) : p = ResvFor(o, g, Preference, w)
                   /\ deal' = [deal EXCEPT ![o] = DealWith(res', o, p)]
  <2>1. PICK g \in StrictSplits(o) :
          /\ Reserve(o, g, Preference)
          /\ LET sole == deal[o].wh = NoWh /\ Cardinality(NewAt(o, g)) = 1
                 p    == IF sole THEN ResvFor(o, g, Preference, CHOOSE w \in NewAt(o, g) : TRUE)
                                 ELSE deal[o].primary
             IN  deal' = [deal EXCEPT ![o] = DealWith(res', o, p)]
    BY DEF ReserveStrictly
  <2>2. CASE Cardinality(NewAt(o, g)) = 1
    <3> DEFINE w == CHOOSE v \in NewAt(o, g) : TRUE
    <3>1. NewAt(o, g) # {}
      <4>1. Cardinality({}) = 0
        BY FS_EmptySet
      <4>2. NewAt(o, g) = {} => Cardinality(NewAt(o, g)) = 0
        BY <4>1, Zenon
      <4> QED
        BY <2>2, <4>2
    <3>2. w \in NewAt(o, g)
      BY <3>1
    <3>3. deal' = [deal EXCEPT ![o] = DealWith(res', o,
                     IF deal[o].wh = NoWh THEN ResvFor(o, g, Preference, w)
                                          ELSE deal[o].primary)]
      BY <2>1, <2>2
    <3> HIDE DEF w
    <3> QED
      BY <2>1, <3>2, <3>3
  <2>3. CASE Cardinality(NewAt(o, g)) # 1
    BY <2>1, <2>3
  <2> QED
    BY <2>2, <2>3
<1>2. /\ g \in [Warehouses -> 0..MaxQty]
      /\ Sorts(Preference, Wanted(g))
      /\ SumFunction(g) =< Missing(o)
  BY StrictSplitFits
<1>3. /\ StockDocs' /\ RowsWhole' /\ RowsStay /\ UNCHANGED shipped
      /\ \A w \in Wanted(g) : OwnResv(o, ResvFor(o, g, Preference, w), res')
  BY <1>1, <1>2, ReserveDesk
<1>4. PICK p : /\ \/ p = deal[o].primary
                  \/ \E w \in NewAt(o, g) : p = ResvFor(o, g, Preference, w)
               /\ deal' = [deal EXCEPT ![o] = DealWith(res', o, p)]
  BY <1>1
<1>5. OwnResv(o, p, res')
  <2>1. OwnResv(o, deal[o].primary, res')
    BY <1>3, Fits, OwnResvStays
  <2> QED
    BY <1>3, <1>4, <2>1 DEF NewAt
<1>6. DealWhole'
  <2>1. /\ deal'[o].primary = DealPrimary(res', o, p)
        /\ \A q \in Orders \ {o} : deal'[q] = deal[q]
    BY <1>4, Fits DEF DealWith
  <2> QED
    BY <1>3, <1>5, <2>1, DealPrimaryOwn, DealReplaced DEF DeskInv
<1> QED
  BY <1>3, <1>6

LEMMA EnsureShipmentDesk ==
  ASSUME DeskInv, ReservationInv', NEW o \in Orders, EnsureShipment(o)
  PROVE  DeskInv'
<1>1. OwnResv(o, deal[o].primary, res) /\ OwnResv(o, NoRes, res)
  BY Fits DEF OwnResv
<1>2. TypeOK'
  BY DEF ReservationInv
<1>3. ASSUME UNCHANGED <<stockVars, res, line>>
      PROVE  StockDocs' /\ RowsStay /\ RowsWhole' /\ UNCHANGED shipped
  <2>1. UNCHANGED <<lot, reserved, shipped, balance, res, line>>
    BY <1>3 DEF stockVars
  <2> QED
    BY <2>1, UntouchedKeeps, SameRowsStay DEF DeskInv, StockDocs
<1>4. ASSUME UNCHANGED <<stockVars, res, line>>, DealWhole',
             NEW r0, OwnResv(o, r0, res), NEW dl, NEW st,
             ship' = [ship EXCEPT ![o] = ShipmentFor(o, r0, res, line, dl, st)]
      PROVE  DeskInv'
  <2>1. ship' = [ship EXCEPT ![o] = ShipmentFor(o, r0, res', line', dl, st)] /\ OwnResv(o, r0, res')
    BY <1>4
  <2>2. StockDocs' /\ RowsStay /\ RowsWhole' /\ UNCHANGED shipped
    BY <1>3, <1>4
  <2>3. ShipWhole'
    BY <1>2, <2>1, <2>2, RefreshedShip
  <2> QED
    BY <1>4, <2>2, <2>3 DEF DeskInv
<1>5. CASE UNCHANGED <<stockVars, res, line, deal>>
  <2>1. DealWhole'
    BY <1>5, SameRowsStay, DealUntouched DEF DeskInv
  <2>2. \E r0 : /\ OwnResv(o, r0, res)
                /\ ship' = [ship EXCEPT ![o] = ShipmentFor(o, r0, res, line, deal, order[o])]
    <3>1. /\ OwnResv(o, DealPrimary(res, o, deal[o].primary), res)
          /\ OwnResv(o, PrimaryIfSole(res, o, deal[o].primary), res)
      BY <1>1, DealPrimaryOwn, PrimaryIfSoleOwn
    <3>2. CASE ship' = [ship EXCEPT ![o] = ShipmentFor(o, NoRes, res, line, deal, order[o])]
      BY <1>1, <3>2
    <3>3. CASE ship' = [ship EXCEPT ![o] =
                 ShipmentFor(o, DealPrimary(res, o, deal[o].primary), res, line, deal, order[o])]
      BY <3>1, <3>3
    <3>4. CASE ship' = [ship EXCEPT ![o] =
                 ShipmentFor(o, PrimaryIfSole(res, o, deal[o].primary), res, line, deal, order[o])]
      BY <3>1, <3>4
    <3>5. CASE ReserveStrictly(o) /\ ship' = [ship EXCEPT ![o] =
                 ShipmentFor(o, PrimaryIfSole(res', o, deal'[o].primary), res', line', deal', order[o])]
      BY <1>5, <3>1, <3>5
    <3> QED
      BY <3>2, <3>3, <3>4, <3>5 DEF EnsureShipment, RefreshShipment, OpenShipment
  <2> QED
    BY <1>4, <1>5, <2>1, <2>2
<1>6. CASE /\ KeepPrimary(o)
           /\ UNCHANGED <<stockVars, res, line>>
           /\ ship' = [ship EXCEPT ![o] =
                ShipmentFor(o, PrimaryIfSole(res, o, deal[o].primary), res, line, deal, order[o])]
  <2>1. /\ deal'[o].primary = DealPrimary(res, o, deal[o].primary)
        /\ \A q \in Orders \ {o} : deal'[q] = deal[q]
    BY <1>6, Fits DEF KeepPrimary
  <2>2. OwnResv(o, deal'[o].primary, res')
    BY <1>1, <1>6, <2>1, DealPrimaryOwn
  <2>3. DealWhole'
    BY <1>3, <1>6, <2>1, <2>2, DealReplaced DEF DeskInv
  <2> QED
    BY <1>1, <1>4, <1>6, <2>3, PrimaryIfSoleOwn
<1>7. CASE /\ ReserveStrictly(o)
           /\ ship' = [ship EXCEPT ![o] =
                ShipmentFor(o, PrimaryIfSole(res', o, deal'[o].primary),
                            res', line', deal', order[o])]
  <2>1. StockDocs' /\ RowsWhole' /\ RowsStay /\ UNCHANGED shipped /\ DealWhole'
    BY <1>7, ReserveStrictlyDesk
  <2>2. OwnResv(o, PrimaryIfSole(res', o, deal'[o].primary), res')
    BY <2>1, PrimaryIfSoleOwn DEF DealWhole
  <2>3. ShipWhole'
    BY <1>2, <1>7, <2>1, <2>2, RefreshedShip
  <2> QED
    BY <2>1, <2>3 DEF DeskInv
<1> QED
  BY <1>5, <1>6, <1>7 DEF EnsureShipment, RefreshShipment, OpenShipment

LEMMA UpdateOrderStateDesk ==
  ASSUME DeskInv, ReservationInv', NEW o \in Orders, NEW st, UpdateOrderState(o, st)
  PROVE  DeskInv'
<1>1. CASE Reopen(o, st)
  BY <1>1, UntouchedDesk DEF Reopen, stockVars
<1>2. CASE ConfirmUnreserved(o)
  BY <1>2, UntouchedDesk DEF ConfirmUnreserved, stockVars
<1> QED
  BY <1>1, <1>2, ConfirmDesk, CancelDesk, FulfilDesk DEF UpdateOrderState

(* Every step keeps the invariant, and it holds in the beginning.            *)
LEMMA DeskStep ==
  ASSUME DeskInv, ReservationInv', [DealDeskNext]_vars
  PROVE  DeskInv'
<1>1. CASE UNCHANGED vars
  BY <1>1, UntouchedDesk DEF vars
<1>2. CASE OrderDeskNext
  BY <1>2, ReceiptDesk, UpdateOrderStateDesk, DispatchShipmentDesk, MarkDeliveredDesk,
     CancelShipmentDesk DEF OrderDeskNext
<1>3. CASE \E o \in Orders : ReserveOnCreation(o) \/ EnsureShipment(o)
  BY <1>3, ReserveOnCreationDesk, EnsureShipmentDesk
<1>4. CASE \E o \in Orders, w \in Warehouses, q \in 1..MaxQty : ReserveOrderItem(o, w, q)
  BY <1>4, ReserveOrderItemDesk
<1> QED
  BY <1>1, <1>2, <1>3, <1>4 DEF DealDeskNext

LEMMA DeskInit ==
  ASSUME Init, ReservationInv
  PROVE  DeskInv
<1>1. /\ UsedResvs = {} /\ UsedLines = {}
      /\ lot = [l \in Lots |-> NoLot]
      /\ reserved = [o \in Orders |-> [l \in Lots |-> 0]]
      /\ shipped = [o \in Orders |-> [l \in Lots |-> 0]]
      /\ balance = [w \in Warehouses |-> 0]
      /\ \A k \in Lines : line[k] = [res |-> NoRes, linked |-> FALSE, qty |-> 0, ful |-> 0, rel |-> 0]
      /\ \A o \in Orders : ship[o] = [status |-> "none", res |-> NoRes, wh |-> NoWh,
                                      consumed |-> FALSE, items |-> NoItems]
      /\ \A o \in Orders : deal[o].primary = NoRes
  BY DEF Init, StockInit, UsedResvs, UsedLines
<1>2. IsFiniteSet({}) /\ Cardinality({}) = 0 /\ 1..0 = {}
  BY FS_EmptySet
<1>3. Numbered
  <2>1. Cardinality(UsedResvs) = 0 /\ Cardinality(UsedLines) = 0
    BY <1>1, <1>2, Zenon
  <2> QED
    BY <1>1, <1>2, <2>1 DEF Numbered
<1>4. RowsWhole /\ LotsWhole
  BY <1>1 DEF RowsWhole, LotsWhole, LotsAt, NoLot
<1>5. ASSUME NEW f, NEW S, IsFiniteSet(S), \A x \in S : f[x] = 0
      PROVE  SumFunctionOnSet(f, S) = 0
  <2>1. \A x \in S : f[x] \in Int
    BY <1>5
  <2>2. {} \in SUBSET S
    OBVIOUS
  <2>3. SumFunctionOnSet(f, S) = SumFunctionOnSet(f, {})
    BY <1>5, <2>1, <2>2, SumSupport
  <2>4. SumFunctionOnSet(f, {}) = 0
    BY <1>2, SumRules
  <2> QED
    BY <2>3, <2>4
<1>6. BalanceIsTotal
  <2>1. ASSUME NEW w \in Warehouses
        PROVE  OnHand(w) = 0
    <3>1. LotsAt(w) = {}
      BY <1>1, StockAssumption DEF LotsAt, NoLot, Warehouses, NoWh
    <3>2. SumFunctionOnSet(Remaining, {}) = 0
      BY <1>2, <1>5
    <3> QED
      BY <3>1, <3>2 DEF OnHand
  <2> QED
    BY <1>1, <2>1 DEF BalanceIsTotal
<1>7. UnitsAccountedFor
  <2>1. ASSUME NEW l \in Lots
        PROVE  lot[l].received - lot[l].remaining = SumFunction([o \in Orders |-> shipped[o][l]])
    <3> DEFINE f == [o \in Orders |-> shipped[o][l]]
    <3>1. \A o \in Orders : f[o] = 0
      BY <1>1
    <3>2. SumFunction(f) = SumFunctionOnSet(f, Orders)
      BY DEF SumFunction
    <3> HIDE DEF f
    <3>3. SumFunctionOnSet(f, Orders) = 0
      BY <1>5, <3>1, FiniteTables
    <3>4. lot[l].received = 0 /\ lot[l].remaining = 0
      BY <1>1 DEF NoLot
    <3>5. lot[l].received - lot[l].remaining = SumFunction(f)
      BY <3>2, <3>3, <3>4
    <3> QED
      BY <3>5 DEF f
  <2> QED
    BY <2>1 DEF UnitsAccountedFor
<1>8. HoldsAreDocumented
  <2>1. ASSUME NEW o \in Orders, NEW w \in Warehouses
        PROVE  HeldAt(o, w) =< SumActive(line, LinesAt(res, line, o, w))
    <3>1. \A l \in LotsAt(w) : reserved[o][l] = 0
      BY <1>1 DEF LotsAt
    <3>2. IsFiniteSet(LotsAt(w))
      BY FiniteTables, FS_Subset DEF LotsAt
    <3>3. HeldAt(o, w) = 0
      BY <1>5, <3>1, <3>2 DEF HeldAt
    <3> QED
      BY <3>3, LineSumsNat DEF ReservationInv
  <2> QED
    BY <2>1, HoldsSum
<1>9. PromisedWithinOrder
  <2>1. ASSUME NEW o \in Orders
        PROVE  ReservedFor(o) = 0
    <3>1. LinesFor(res, line, o) = {}
      BY <1>1 DEF LinesFor
    <3>2. SumActive(line, {}) = 0
      BY <1>2, SumRules DEF SumActive
    <3> QED
      BY <3>1, <3>2, WithinSum
  <2>2. \A o \in Orders : Ordered[o] \in Nat
    BY StockAssumption
  <2> QED
    BY <2>1, <2>2 DEF PromisedWithinOrder
<1>10. ShipWhole
  <2>1. ASSUME NEW o \in Orders
        PROVE  ShipFits(o, ship[o], res, line)
    BY <1>1 DEF ShipFits, Sentness, OwnResv, NoItems
  <2>2. ASSUME NEW o \in Orders
        PROVE  Shipped(o) = 0
    <3>1. \A l \in Lots : shipped[o][l] = 0
      BY <1>1
    <3>2. SumFunctionOnSet(shipped[o], Lots) = 0
      BY <1>5, <3>1, FiniteTables
    <3>3. DOMAIN shipped[o] = Lots
      BY <1>1
    <3> QED
      BY <3>2, <3>3 DEF Shipped, SumFunction
  <2>3. \A o \in Orders : ~ship[o].consumed
    BY <1>1
  <2> QED
    BY <2>1, <2>2, <2>3 DEF ShipWhole
<1>11. DealWhole
  BY <1>1 DEF DealWhole, OwnResv
<1> QED
  BY <1>3, <1>4, <1>6, <1>7, <1>8, <1>9, <1>10, <1>11 DEF DeskInv, StockDocs

-----------------------------------------------------------------------------
(* The properties of the stock tables.                                       *)

(* The stock tables and the documents agree after every request.             *)
THEOREM DeskInvariant == Spec => []DeskInv
<1>1. Init /\ ReservationInv => DeskInv
  BY DeskInit
<1>2. DeskInv /\ ReservationInv' /\ [DealDeskNext]_vars => DeskInv'
  BY DeskStep
<1> QED
  BY <1>1, <1>2, ReservationInvariant, PTL DEF Spec

(* Every unit received into a lot is still there or booked as shipped on an  *)
(* order: receipts, dispatches and cancellations lose and double none.       *)
THEOREM UnitsStayAccountedFor == Spec => []UnitsAccountedFor
<1>1. DeskInv => UnitsAccountedFor
  BY DEF DeskInv, StockDocs
<1> QED
  BY <1>1, DeskInvariant, PTL

(* The balance cached for a warehouse is what its lots add up to, whichever  *)
(* request last touched them: rebuild_balance_from_lots is never forgotten.  *)
THEOREM BalanceStaysTotal == Spec => []BalanceIsTotal
<1>1. DeskInv => BalanceIsTotal
  BY DEF DeskInv, StockDocs
<1> QED
  BY <1>1, DeskInvariant, PTL

(* What an order holds on the lots of a warehouse never exceeds what its     *)
(* open reservation lines there promise: no lot is held for a document that  *)
(* is gone, so cancelling an order frees everything it held.                 *)
THEOREM HoldsStayDocumented == Spec => []HoldsAreDocumented
<1>1. DeskInv => HoldsAreDocumented
  BY DEF DeskInv, StockDocs
<1> QED
  BY <1>1, DeskInvariant, PTL

(* The lines of an order never promise more than the order asks for,         *)
(* however often it is confirmed, fulfilled, split or topped up.             *)
THEOREM PromisesStayWithinOrder == Spec => []PromisedWithinOrder
<1>1. DeskInv => PromisedWithinOrder
  BY DEF DeskInv, StockDocs
<1> QED
  BY <1>1, DeskInvariant, PTL

(* A shipment is consumed exactly while it is shipped or delivered; then its *)
(* order units were taken from the lots, and before that the order has       *)
(* shipped nothing: no shipment is deducted twice.                           *)
THEOREM ShipmentsKeepToStock == Spec => []ShipmentsMatchStock
<1>1. DeskInv => ShipmentsMatchStock
  <2> SUFFICES ASSUME DeskInv, NEW o \in Orders
               PROVE  /\ ship[o].consumed <=> ship[o].status \in {"shipped", "delivered"}
                      /\ ship[o].consumed => OrderUnits(ship[o]) =< Shipped(o)
                      /\ ~ship[o].consumed => Shipped(o) = 0
    BY DEF ShipmentsMatchStock
  <2> DEFINE s == ship[o]
             I == Lines \cup {Direct}
  <2>1. s.items \in [I -> Nat] /\ OrderItems(s) \in SUBSET I
    BY Fits DEF Shipment, OrderItems, Items
  <2>2. OrderUnits(s) =< SumFunctionOnSet(s.items, I)
    BY <2>1, FiniteTables, SumWithin DEF OrderUnits
  <2>3. SumFunction(s.items) = SumFunctionOnSet(s.items, I)
    BY <2>1 DEF SumFunction
  <2>4. /\ Sentness(s)
        /\ Shipped(o) = IF s.consumed THEN SumFunction(s.items) ELSE 0
    BY DEF DeskInv, ShipWhole, ShipFits
  <2> QED
    BY <2>2, <2>3, <2>4 DEF Sentness
<1> QED
  BY <1>1, DeskInvariant, PTL

(* What a step does to the units promised at a warehouse.                    *)
LEMMA PromisedNow ==
  ASSUME ReservationInv, NEW w
  PROVE  /\ Promised(res, line, w) = SumActive(line, LinesIn(res, line, w))
         /\ Promised(res, line, w) \in Nat
<1>1. Promised(res, line, w) = SumActive(line, LinesIn(res, line, w))
  BY TidyNow, PromisedSum
<1> QED
  BY <1>1, LineSumsNat DEF ReservationInv

LEMMA PromisedThen ==
  ASSUME ReservationInv', NEW w
  PROVE  /\ Promised(res', line', w) = SumActive(line', LinesIn(res', line', w))
         /\ Promised(res', line', w) \in Nat
<1>1. Promised(res', line', w) = SumActive(line', LinesIn(res', line', w))
  BY TidyNext, PromisedSum
<1>2. SumActive(line', LinesIn(res', line', w)) \in Nat
  BY SumActiveNat DEF LinesIn, ReservationInv, TypeOK, DocsTypeOK
<1> QED
  BY <1>1, <1>2

LEMMA PromisedSinks ==
  ASSUME ReservationInv, ReservationInv', Numbered, RowsWhole, RowsKept, NEW w \in Warehouses,
         \A k \in Lines : Active(line'[k]) =< Active(line[k])
  PROVE  /\ Promised(res', line', w) =< Promised(res, line, w)
         /\ (\A k \in LinesIn(res, line, w) : Active(line'[k]) = Active(line[k]))
              => Promised(res', line', w) = Promised(res, line, w)
<1> DEFINE L   == LinesIn(res, line, w)
           act == [k \in Lines |-> Active(line[k])]
           now == [k \in Lines |-> Active(line'[k])]
<1>1. /\ line \in [Lines -> ReservationItem] /\ line' \in [Lines -> ReservationItem]
      /\ L \in SUBSET Lines /\ IsFiniteSet(L)
  BY FiniteTables, FS_Subset DEF ReservationInv, TypeOK, DocsTypeOK, LinesIn
<1>2. LinesIn(res', line', w) = L
  <2>1. \A k \in Lines : line[k].res # NoRes => line[k].res \in Resvs
    BY DEF RowsWhole, UsedResvs
  <2> QED
    BY <2>1 DEF RowsKept, LinesIn
<1> HIDE DEF L
<1>3. \A k \in L : act[k] \in Int /\ now[k] \in Int /\ now[k] =< act[k]
  <2>1. \A k \in Lines : Active(line[k]) \in Nat /\ Active(line'[k]) \in Nat
    BY <1>1, ActiveType
  <2> QED
    BY <1>1, <2>1
<1>4. SumFunctionOnSet(now, L) =< SumFunctionOnSet(act, L)
  <2> HIDE DEF now, act
  <2> QED
    BY <1>1, <1>3, SumAtMost
<1>5. SumActive(line', L) =< SumActive(line, L)
  BY <1>4 DEF SumActive
<1>6. (\A k \in L : Active(line'[k]) = Active(line[k])) => SumActive(line', L) = SumActive(line, L)
  BY <1>1, SumActiveSame
<1> QED
  BY <1>2, <1>5, <1>6, PromisedNow, PromisedThen DEF L

LEMMA ReservePromised ==
  ASSUME DeskInv, ReservationInv', NEW o \in Orders,
         NEW g \in [Warehouses -> 0..MaxQty], NEW pref,
         Sorts(pref, Wanted(g)), Reserve(o, g, pref), NEW w \in Warehouses
  PROVE  /\ Promised(res', line', w) = Promised(res, line, w) + g[w]
         /\ balance'[w] = balance[w]
<1>1. /\ TypeOK /\ TypeOK' /\ Numbered /\ RowsWhole /\ ReservationInv
  BY Fits DEF DeskInv, ReservationInv
<1>2. SumActive(line', LinesIn(res', line', w)) = SumActive(line, LinesIn(res, line, w)) + g[w]
  BY <1>1, ReserveSums
<1>3. balance'[w] = balance[w]
  BY DEF Reserve, Rebuilt, OnHand, Remaining, LotsAt, DeskInv, StockDocs, BalanceIsTotal
<1> QED
  BY <1>1, <1>2, <1>3, PromisedNow, PromisedThen

LEMMA ReleasePromised ==
  ASSUME DeskInv, ReservationInv', RowsKept, NEW K \in SUBSET Lines,
         \A k \in K : line[k].res # NoRes,
         line' = ReleasedLines(K), NEW w \in Warehouses
  PROVE  /\ Promised(res', line', w) =< Promised(res, line, w)
         /\ (\A k \in K : res[line[k].res].wh # w)
              => Promised(res', line', w) = Promised(res, line, w)
<1>1. /\ Numbered /\ RowsWhole /\ ReservationInv
  BY DEF DeskInv, StockDocs
<1>2. \A k \in Lines : /\ Active(line[k]) \in Nat
                       /\ Active(line'[k]) = IF k \in K THEN 0 ELSE Active(line[k])
  <2>1. \A k \in Lines : line[k] \in ReservationItem /\ (k \in K => line[k].linked)
    BY DEF DeskInv, ReservationInv, AllLinked, TypeOK, DocsTypeOK
  <2> QED
    BY <1>1, <2>1, ActiveType, ReleasedActive
<1>3. \A k \in Lines : Active(line'[k]) =< Active(line[k])
  BY <1>2
<1>4. (\A k \in K : res[line[k].res].wh # w)
        => \A k \in LinesIn(res, line, w) : Active(line'[k]) = Active(line[k])
  BY <1>2 DEF LinesIn
<1> QED
  BY <1>1, <1>3, <1>4, PromisedSinks

LEMMA DispatchPromised ==
  ASSUME DeskInv, ReservationInv', NEW o \in Orders, NEW s, Sendable(o, s), NEW st,
         NEW d \in Dispatches(o, s), Dispatch(o, s, st, d), NEW w \in Warehouses
  PROVE  /\ Promised(res', line', w) =< Promised(res, line, w)
         /\ w # Source(s) => Promised(res', line', w) = Promised(res, line, w)
<1>1. /\ Numbered /\ RowsWhole /\ ReservationInv
  BY Fits DEF DeskInv
<1>2. /\ RowsKept
      /\ \A k \in Lines : /\ s.items[k] \in Nat
                          /\ Active(line'[k]) = Active(line[k]) - s.items[k]
                          /\ s.items[k] =< Active(line[k])
  BY <1>1, DispatchRows
<1>3. \A k \in Lines : Active(line[k]) \in Nat
  BY ActiveType DEF DeskInv, ReservationInv, TypeOK, DocsTypeOK
<1>4. \A k \in Lines : Active(line'[k]) =< Active(line[k])
  BY <1>2, <1>3
<1>5. ASSUME w # Source(s), NEW k \in LinesIn(res, line, w)
      PROVE  Active(line'[k]) = Active(line[k])
  <2>1. k \in Lines /\ res[line[k].res].wh = w
    BY DEF LinesIn
  <2>2. s.items[k] = 0
    BY <1>1, <1>2, <1>5, <2>1, SendableUnits
  <2> QED
    BY <1>2, <1>3, <2>1, <2>2
<1> QED
  BY <1>1, <1>2, <1>4, <1>5, PromisedSinks

-----------------------------------------------------------------------------
(* What a request tells the shop.                                            *)

(* The shop is told of warehouse w.                                          *)
Told(w) ==
  \/ public'[w] = NonNeg(balance'[w] - Promised(res', line', w))
  \/ public'[w] = public[w] /\ balance'[w] - Promised(res', line', w) = Free(w)

LEMMA PublishedTells ==
  ASSUME NEW W, public' = Published(res', line', balance', W), NEW w \in Warehouses,
         w \notin W => /\ balance'[w] = balance[w]
                       /\ Promised(res', line', w) = Promised(res, line, w)
  PROVE  Told(w)
BY Zenon DEF Told, Published, Free

LEMMA UntouchedTells ==
  ASSUME NEW w \in Warehouses, public' = public, balance'[w] = balance[w],
         Promised(res', line', w) = Promised(res, line, w)
  PROVE  Told(w)
BY Zenon DEF Told, Free

LEMMA SamePromises ==
  ASSUME UNCHANGED <<res, line>>, NEW w
  PROVE  Promised(res', line', w) = Promised(res, line, w)
OBVIOUS

LEMMA ReserveTells ==
  ASSUME DeskInv, ReservationInv', NEW o \in Orders,
         NEW g \in [Warehouses -> 0..MaxQty], NEW pref,
         Sorts(pref, Wanted(g)), Reserve(o, g, pref), NEW w \in Warehouses
  PROVE  Told(w)
<1>1. public' = Published(res', line', balance', Wanted(g))
  BY DEF Reserve
<1>2. w \notin Wanted(g) => g[w] = 0
  BY StockAssumption DEF Wanted
<1>3. /\ Promised(res', line', w) = Promised(res, line, w) + g[w]
      /\ balance'[w] = balance[w]
      /\ Promised(res, line, w) \in Nat
  BY ReservePromised, PromisedNow DEF DeskInv
<1>4. w \notin Wanted(g) => Promised(res', line', w) = Promised(res, line, w)
  BY <1>2, <1>3
<1> QED
  BY <1>1, <1>3, <1>4, PublishedTells

LEMMA DispatchTells ==
  ASSUME DeskInv, ReservationInv', NEW o \in Orders, NEW s, Sendable(o, s), NEW st,
         NEW d \in Dispatches(o, s), Dispatch(o, s, st, d), NEW w \in Warehouses
  PROVE  Told(w)
<1>1. public' = Published(res', line', balance', {Source(s)})
  BY DEF Dispatch
<1>2. w # Source(s) => /\ balance'[w] = balance[w]
                       /\ Promised(res', line', w) = Promised(res, line, w)
  BY DispatchStock, DispatchPromised DEF DeskInv
<1> QED
  BY <1>1, <1>2, PublishedTells

LEMMA CancelTells ==
  ASSUME DeskInv, ReservationInv', NEW o \in Orders, Cancel(o), NEW w \in Warehouses
  PROVE  Told(w)
<1> DEFINE K == HoldingLines(res, line, o)
           W == {res[r].wh : r \in ActiveResvs(res, o)}
<1>1. /\ line' = ReleasedLines(K)
      /\ public' = Published(res', line', balance, W)
      /\ balance' = balance
  BY DEF Cancel
<1>2. RowsKept
  BY CancelRows
<1>3. K \in SUBSET Lines /\ \A k \in K : line[k].res # NoRes /\ res[line[k].res].wh \in W
  BY DEF HoldingLines, ActiveResvs, Resvs, NoRes
<1> HIDE DEF K, W
<1>4. w \notin W => Promised(res', line', w) = Promised(res, line, w)
  BY <1>1, <1>2, <1>3, ReleasePromised
<1> QED
  BY <1>1, <1>4, PublishedTells

LEMMA CancelShipmentTells ==
  ASSUME DeskInv, ReservationInv', NEW o \in Orders, CancelShipment(o), NEW w \in Warehouses
  PROVE  Told(w)
<1> DEFINE s == ship[o]
           K == {k \in Items(s) \ {Direct} : line[k].res = s.res}
<1>1. /\ public' = IF s.res = NoRes THEN public
                   ELSE Published(res', line', balance, {res[s.res].wh})
      /\ balance' = balance
  BY DEF CancelShipment
<1>2. /\ K \in SUBSET Lines
      /\ \A k \in K : line[k].res # NoRes /\ line[k].res = s.res
      /\ line' = ReleasedLines(K)
      /\ RowsKept
  BY CancelShipmentRows
<1> HIDE DEF K
<1>3. (\A k \in K : res[line[k].res].wh # w)
        => Promised(res', line', w) = Promised(res, line, w)
  BY <1>2, ReleasePromised
<1>4. CASE s.res = NoRes
  <2>1. K = {}
    BY <1>2, <1>4
  <2> QED
    BY <1>1, <1>3, <1>4, <2>1, UntouchedTells
<1>5. CASE s.res # NoRes
  <2>1. w \notin {res[s.res].wh} => Promised(res', line', w) = Promised(res, line, w)
    BY <1>2, <1>3
  <2> QED
    BY <1>1, <1>5, <2>1, PublishedTells
<1> QED
  BY <1>4, <1>5

(* What a step is to the stock and the reservations.                         *)
Sends(o) ==
  \E s, st : Sendable(o, s) /\ \E d \in Dispatches(o, s) : Dispatch(o, s, st, d)
Leaves == UNCHANGED <<balance, public, res, line>>

LEMMA OrderForms ==
  ASSUME DeskInv, NEW o \in Orders, NEW st, UpdateOrderState(o, st)
  PROVE  \/ Leaves \/ Sends(o) \/ Cancel(o) \/ CancelInterrupted(o)
         \/ \E g \in Greedy(Missing(o)) : Reserve(o, g, Preference)
<1>1. CASE Reopen(o, st) \/ ConfirmUnreserved(o)
  BY <1>1 DEF Reopen, ConfirmUnreserved, Leaves, stockVars
<1>2. CASE Confirm(o)
  BY <1>2 DEF Confirm
<1>3. CASE Fulfil(o, st)
  <2> DEFINE s == ShipmentFor(o, NoRes, res, line, deal, st)
  <2>1. s \in Shipment /\ ShipFits(o, s, res, line)
    BY PreparedFits
  <2>2. \/ Dispatchable(s) /\ \E d \in Dispatches(o, s) : Dispatch(o, s, st, d)
        \/ UNCHANGED <<stockVars, res, line>>
    BY <1>3 DEF Fulfil
  <2> HIDE DEF s
  <2>3. CASE Dispatchable(s) /\ \E d \in Dispatches(o, s) : Dispatch(o, s, st, d)
    BY <2>1, <2>3, SendableFits DEF Sends
  <2>4. CASE UNCHANGED <<stockVars, res, line>>
    BY <2>4 DEF Leaves, stockVars
  <2> QED
    BY <2>2, <2>3, <2>4
<1> QED
  BY <1>1, <1>2, <1>3 DEF UpdateOrderState

LEMMA ShipForms ==
  ASSUME DeskInv, NEW o \in Orders, DispatchShipment(o) \/ MarkDelivered(o) \/ CancelShipment(o)
  PROVE  Leaves \/ Sends(o) \/ CancelShipment(o)
<1>1. CASE DispatchShipment(o)
  <2>1. Dispatchable(ship[o]) /\ \E d \in Dispatches(o, ship[o]) : Dispatch(o, ship[o], order[o], d)
    BY <1>1 DEF DispatchShipment
  <2>2. Sendable(o, ship[o])
    BY <2>1, Fits, SendableFits
  <2> QED
    BY <2>1, <2>2 DEF Sends
<1>2. CASE MarkDelivered(o)
  BY <1>2 DEF MarkDelivered, Leaves, stockVars
<1> QED
  BY <1>1, <1>2

LEMMA DealForms ==
  ASSUME DeskInv, NEW o \in Orders,
         \/ ReserveOnCreation(o) \/ EnsureShipment(o)
         \/ \E w \in Warehouses, q \in 1..MaxQty : ReserveOrderItem(o, w, q)
  PROVE  \/ Leaves
         \/ \E g \in [Warehouses -> 0..MaxQty] : \E pref :
              Sorts(pref, Wanted(g)) /\ Reserve(o, g, pref)
<1>1. CASE ReserveOnCreation(o)
  <2>1. PICK g \in AllAt(deal[o].wh, Missing(o)) : Reserve(o, g, {})
    BY <1>1 DEF ReserveOnCreation
  <2>2. deal[o].wh \in Warehouses /\ Missing(o) \in Nat
    BY <1>1, Fits, MissingNat DEF ReserveOnCreation, DeskInv
  <2> QED
    BY <2>1, <2>2, AllAtFits
<1>2. CASE EnsureShipment(o)
  <2>1. CASE ReserveStrictly(o)
    <3>1. PICK g \in StrictSplits(o) : Reserve(o, g, Preference)
      BY <2>1 DEF ReserveStrictly
    <3> QED
      BY <3>1, StrictSplitFits
  <2> QED
    BY <1>2, <2>1 DEF EnsureShipment, RefreshShipment, OpenShipment, Leaves, stockVars
<1>3. CASE \E w \in Warehouses, q \in 1..MaxQty : ReserveOrderItem(o, w, q)
  <2>1. PICK w \in Warehouses, q \in 1..MaxQty : \E g \in AllAt(w, q) : Reserve(o, g, {})
    BY <1>3 DEF ReserveOrderItem
  <2>2. PICK g \in AllAt(w, q) : Reserve(o, g, {})
    BY <2>1
  <2>3. q \in Nat
    BY StockAssumption
  <2> QED
    BY <2>2, <2>3, AllAtFits
<1> QED
  BY <1>1, <1>2, <1>3

(* Every completed request tells the shop of every warehouse.                *)
LEMMA ReceiptTells ==
  ASSUME NEW v \in Warehouses, NEW q, Receipt(v, q), NEW w \in Warehouses
  PROVE  Told(w)
<1>1. public' = Published(res', line', balance', {v}) /\ UNCHANGED <<res, line>>
  BY DEF Receipt, docVars
<1>2. w # v => balance'[w] = balance[w]
  BY DEF Receipt, Rebuilt
<1> QED
  BY <1>1, <1>2, SamePromises, PublishedTells

LEMMA StepTells ==
  ASSUME DeskInv, ReservationInv', [DealDeskNext]_vars, \A o \in Orders : ~CancelInterrupted(o),
         NEW w \in Warehouses
  PROVE  Told(w)
<1>1. CASE Leaves
  BY <1>1, SamePromises, UntouchedTells DEF Leaves
<1>2. CASE \E v \in Warehouses, q \in 1..MaxQty : Receipt(v, q)
  BY <1>2, ReceiptTells
<1>3. ASSUME NEW o \in Orders, Sends(o)
      PROVE  Told(w)
  BY <1>3, DispatchTells DEF Sends
<1>4. ASSUME NEW o \in Orders, NEW st, UpdateOrderState(o, st)
      PROVE  Told(w)
  <2>1. ASSUME NEW g \in Greedy(Missing(o)), Reserve(o, g, Preference)
        PROVE  Told(w)
    <3>1. g \in [Warehouses -> 0..MaxQty] /\ Sorts(Preference, Wanted(g))
      BY MissingNat, GreedyFits DEF DeskInv
    <3> QED
      BY <2>1, <3>1, ReserveTells
  <2> QED
    BY <1>1, <1>3, <1>4, <2>1, OrderForms, CancelTells
<1>5. ASSUME NEW o \in Orders, DispatchShipment(o) \/ MarkDelivered(o) \/ CancelShipment(o)
      PROVE  Told(w)
  BY <1>1, <1>3, <1>5, ShipForms, CancelShipmentTells
<1>6. ASSUME NEW o \in Orders,
             \/ ReserveOnCreation(o) \/ EnsureShipment(o)
             \/ \E v \in Warehouses, q \in 1..MaxQty : ReserveOrderItem(o, v, q)
      PROVE  Told(w)
  BY <1>1, <1>6, DealForms, ReserveTells
<1>7. UNCHANGED vars => Leaves
  BY DEF vars, Leaves
<1> QED
  BY <1>1, <1>2, <1>4, <1>5, <1>6, <1>7 DEF DealDeskNext, OrderDeskNext

(* A request that completes leaves every warehouse it changed published to   *)
(* the shop at its new free stock (_sync_public_product_balance after        *)
(* reserve, release and dispatch); only a cancellation cut short between two *)
(* transactions may not.                                                     *)
THEOREM CompletedRequestsTell == Spec => CompletedRequestsPublish
<1>1. DeskInv /\ ReservationInv' /\ [DealDeskNext]_vars =>
        ((\A o \in Orders : ~CancelInterrupted(o)) =>
           \A w \in Warehouses :
             \/ public'[w] = NonNeg(balance'[w] - Promised(res', line', w))
             \/ public'[w] = public[w] /\ balance'[w] - Promised(res', line', w) = Free(w))
  BY StepTells DEF Told
<1>2. DeskInv /\ DeskInv' /\ [DealDeskNext]_vars =>
        [(\A o \in Orders : ~CancelInterrupted(o)) =>
           \A w \in Warehouses :
             \/ public'[w] = NonNeg(balance'[w] - Promised(res', line', w))
             \/ public'[w] = public[w] /\ balance'[w] - Promised(res', line', w) = Free(w)]_vars
  BY <1>1 DEF DeskInv
<1> QED
  BY <1>2, DeskInvariant, PTL DEF Spec, CompletedRequestsPublish

(* The order desk only promises what is free.                                *)
LEMMA OrderDeskIsPart == OrderDeskSpec => Spec
<1>1. [OrderDeskNext]_vars => [DealDeskNext]_vars
  BY DEF DealDeskNext
<1> QED
  BY <1>1, PTL DEF OrderDeskSpec, Spec

LEMMA DeskStepCovered ==
  ASSUME DeskInv, ReservationInv', [OrderDeskNext]_vars, NEW w \in Warehouses,
         Promised(res', line', w) > Promised(res, line, w)
  PROVE  Promised(res', line', w) =< balance'[w]
<1>1. Promised(res, line, w) \in Nat /\ Promised(res', line', w) \in Nat
  BY PromisedNow, PromisedThen DEF DeskInv
<1>2. ~UNCHANGED <<res, line>>
  BY <1>1, SamePromises
<1>3. \A o \in Orders : ~Sends(o)
  <2>1. ASSUME NEW o \in Orders, Sends(o)
        PROVE  Promised(res', line', w) =< Promised(res, line, w)
    BY <2>1, DispatchPromised DEF Sends
  <2> QED
    BY <1>1, <2>1
<1>4. ASSUME NEW o \in Orders, Cancel(o) \/ CancelInterrupted(o)
      PROVE  Promised(res', line', w) =< Promised(res, line, w)
  <2>1. PICK K \in SUBSET HoldingLines(res, line, o) : line' = ReleasedLines(K) /\ RowsKept
    BY <1>4, CancelRows
  <2>2. K \in SUBSET Lines /\ \A k \in K : line[k].res # NoRes
    BY DEF HoldingLines, ActiveResvs, Resvs, NoRes
  <2> QED
    BY <2>1, <2>2, ReleasePromised
<1>5. ASSUME NEW o \in Orders, CancelShipment(o)
      PROVE  Promised(res', line', w) =< Promised(res, line, w)
  <2> DEFINE K == {k \in Items(ship[o]) \ {Direct} : line[k].res = ship[o].res}
  <2>1. /\ K \in SUBSET Lines
        /\ \A k \in K : line[k].res # NoRes
        /\ line' = ReleasedLines(K) /\ RowsKept
    BY <1>5, CancelShipmentRows
  <2> HIDE DEF K
  <2> QED
    BY <2>1, ReleasePromised
<1>6. PICK o \in Orders : \E g \in Greedy(Missing(o)) : Reserve(o, g, Preference)
  <2>1. ~Leaves /\ ~UNCHANGED vars /\ \A v, q : ~Receipt(v, q)
    BY <1>2 DEF Leaves, vars, Receipt, docVars
  <2>2. \A p \in Orders : ~Cancel(p) /\ ~CancelInterrupted(p) /\ ~CancelShipment(p)
    BY <1>1, <1>4, <1>5
  <2>3. \A p \in Orders : ~(DispatchShipment(p) \/ MarkDelivered(p) \/ CancelShipment(p))
    BY <1>3, <2>1, <2>2, ShipForms
  <2>4. PICK p \in Orders, st \in Targets : UpdateOrderState(p, st)
    BY <2>1, <2>3 DEF OrderDeskNext
  <2> QED
    BY <1>3, <2>1, <2>2, <2>4, OrderForms
<1>7. PICK g \in Greedy(Missing(o)) : Reserve(o, g, Preference)
  BY <1>6
<1>8. /\ g \in [Warehouses -> 0..MaxQty]
      /\ Sorts(Preference, Wanted(g))
      /\ g[w] > 0 => g[w] =< Offered[w]
  BY MissingNat, GreedyFits DEF DeskInv
<1>9. /\ Promised(res', line', w) = Promised(res, line, w) + g[w]
      /\ balance'[w] = balance[w]
  BY <1>7, <1>8, ReservePromised
<1>10. g[w] \in Nat /\ balance[w] \in Nat
  BY <1>8, StockAssumption, FreeInt DEF DeskInv
<1>11. g[w] > 0 /\ g[w] =< NonNeg(balance[w] - Promised(res, line, w))
  BY <1>1, <1>8, <1>9, <1>10 DEF Offered, Free
<1> QED
  BY <1>1, <1>9, <1>10, <1>11 DEF NonNeg

(* At the order desk no request promises more of a warehouse than is there:  *)
(* Reserve is only asked for splits of what is free.                         *)
THEOREM ReservingStaysCovered == OrderDeskSpec => ReservingIsCovered
<1>1. DeskInv /\ DeskInv' /\ [OrderDeskNext]_vars =>
        [\A w \in Warehouses :
           Promised(res', line', w) > Promised(res, line, w) =>
             Promised(res', line', w) =< balance'[w]]_vars
  BY DeskStepCovered DEF DeskInv
<1> QED
  BY <1>1, OrderDeskIsPart, DeskInvariant, PTL DEF OrderDeskSpec, ReservingIsCovered

=============================================================================
