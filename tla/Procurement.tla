---------------------------- MODULE Procurement ----------------------------
(* Purchases and the cargoes that bring them: units are bought for an order   *)
(* line, put into cargoes, and a cargo is split, edited and received in       *)
(* parts.  Requests of several employees run at one time, READ COMMITTED:     *)
(* they work on instances loaded before their transactions, which lock a row  *)
(* when they write it, never when they read it.                               *)
(*                                                                            *)
(* The step that writes a row takes its lock; the writes of a transaction are *)
(* seen by the others from its last step, which commits it.                   *)
EXTENDS Integers, Functions

CONSTANTS Workers,      \* requests that are served at one time
          Orders,       \* order lines (OrderItem) that are bought for
          Warehouses,
          NoOrder, NoWarehouse,   \* NULL
          FirstLines,   \* lines of the purchase there is, all in one cargo
          CargoForm, PurchaseForm, \* bound: the statuses that employees choose
          MaxUnits,     \* bound: units of a row
          MaxRequests   \* bound: requests of a run

ASSUME ProcurementAssumption ==
  /\ FirstLines \in Nat /\ MaxUnits \in Nat /\ MaxRequests \in Nat
  /\ CargoForm \subseteq {"created", "awaiting_receipt", "received", "cancelled"}
  /\ PurchaseForm \subseteq {"ordered", "partial", "received", "cancelled"}
  /\ NoOrder \notin Orders /\ NoWarehouse \notin Warehouses

VARIABLES purchases, \* purchases[p]: Purchase.status
          lines,     \* PurchaseItem: [purchase, order, quantity, received]
          cargos,    \* Cargo: [status, warehouse], warehouse is its destination
          items,     \* CargoItem: [cargo, line, quantity, received]
          booked,    \* booked[i]: units of the lots that receipts of item i made
          locks,     \* locks[w]: rows that the transaction of w has written
          pc,        \* pc[w]: the next step of the request of w
          job,       \* job[w]: what the request asks and what it has read
          raced,     \* items that two requests worked on at one time
          served     \* requests begun

rows == <<purchases, lines, cargos, items, booked>>
vars == <<purchases, lines, cargos, items, booked, locks, pc, job, raced, served>>

(* A request creates at most one row of a table.                              *)
MaxRows == 1 + FirstLines + MaxRequests
Ids     == 1..MaxRows
Units   == 1..MaxUnits

(* No code here tells in_transit, arrived_rf and delivery_rf from created, or *)
(* draft from ordered; "" is the status of a row that is not there.           *)
CargoStatus    == {"created", "awaiting_receipt", "received", "cancelled"}
PurchaseStatus == {"ordered", "partial", "received", "cancelled"}

NoLine  == [purchase |-> 0, order |-> NoOrder, quantity |-> 0, received |-> 0]
NoCargo == [status |-> "", warehouse |-> NoWarehouse]
NoItem  == [cargo |-> 0, line |-> 0, quantity |-> 0, received |-> 0]

LineRows  == [purchase : 0..MaxRows, order : Orders \cup {NoOrder},
              quantity : Nat, received : Nat]
CargoRows == [status : CargoStatus \cup {""}, warehouse : Warehouses \cup {NoWarehouse}]
ItemRows  == [cargo : 0..MaxRows, line : 0..MaxRows, quantity : Nat, received : Nat]

(* mark and close are the statuses that the request is to write, if any.      *)
Jobs == [item : 0..MaxRows, line : 0..MaxRows, units : Nat, seen : ItemRows,
         bought : LineRows, cargo : CargoRows, to : Warehouses \cup {NoWarehouse},
         order : Orders \cup {NoOrder}, mark : PurchaseStatus \cup {""},
         close : CargoStatus \cup {""}]
NoJob == [item |-> 0, line |-> 0, units |-> 0, seen |-> NoItem, bought |-> NoLine,
          cargo |-> NoCargo, to |-> NoWarehouse, order |-> NoOrder,
          mark |-> "", close |-> ""]

Steps == {"idle", "redirect", "countItem", "countLine", "mark", "book", "close",
          "split", "load", "insert", "savePurchase", "saveLine"}

CargoRow(c)     == <<"cargo", c>>
ItemRow(i)      == <<"item", i>>
LineRow(l)      == <<"line", l>>
PurchaseRow(p)  == <<"purchase", p>>
StockRows(h)    == <<"stock", h>>    \* the balances of a warehouse, rebuilt together
NoRow           == <<"none", 0>>
Rows == ({"cargo", "item", "line", "purchase"} \X (0..MaxRows))
        \cup ({"stock"} \X (Warehouses \cup {NoWarehouse}))

TypeOK ==
  /\ purchases \in [Ids -> PurchaseStatus \cup {""}]
  /\ lines \in [Ids -> LineRows]
  /\ cargos \in [Ids -> CargoRows]
  /\ items \in [Ids -> ItemRows]
  /\ booked \in [Ids -> Nat]
  /\ locks \in [Workers -> SUBSET Rows]
  /\ pc \in [Workers -> Steps]
  /\ job \in [Workers -> Jobs]
  /\ raced \subseteq Ids
  /\ served \in 0..MaxRequests

Init ==
  /\ purchases = [p \in Ids |-> IF p = 1 THEN "ordered" ELSE ""]
  /\ \E o \in [1..FirstLines -> Orders], h \in Warehouses \cup {NoWarehouse} :
       /\ lines = [l \in Ids |-> IF l > FirstLines THEN NoLine
            ELSE [purchase |-> 1, order |-> o[l], quantity |-> MaxUnits, received |-> 0]]
       /\ cargos = [c \in Ids |-> IF c > 1 THEN NoCargo
            ELSE [status |-> "created", warehouse |-> h]]
       /\ items = [i \in Ids |-> IF i > FirstLines THEN NoItem
            ELSE [cargo |-> 1, line |-> i, quantity |-> MaxUnits, received |-> 0]]
  /\ booked = [i \in Ids |-> 0]
  /\ locks = [w \in Workers |-> {}]
  /\ pc = [w \in Workers |-> "idle"]
  /\ job = [w \in Workers |-> NoJob]
  /\ raced = {}
  /\ served = 0

-----------------------------------------------------------------------------
NonNeg(n) == IF n > 0 THEN n ELSE 0
AtMost(n, m) == IF n =< m THEN n ELSE m

Bought(p)   == purchases[p] # ""
Listed(l)   == lines[l].purchase # 0
Packed(i)   == items[i].cargo # 0
Open(c)     == cargos[c].status # ""

(* The next id of a table: rows are numbered as they are created.             *)
Fresh(there(_)) == {k \in Ids : ~there(k) /\ \A j \in 1..(k - 1) : there(j)}

Remaining(item) == NonNeg(item.quantity - item.received)

(* purchase_item_cargo_available_quantity: cancelled cargoes hold nothing.    *)
Allocated(l) ==
  SumFunctionOnSet([i \in Ids |-> items[i].quantity],
    {i \in Ids : items[i].line = l /\ cargos[items[i].cargo].status # "cancelled"})
Available(l) == NonNeg(lines[l].quantity - Allocated(l))

(* latest_purchase_item_for_order_item: none when the line must be created.   *)
Live(o) == {l \in Ids : Listed(l) /\ lines[l].order = o
                          /\ purchases[lines[l].purchase] # "cancelled"}
Latest(o) == {l \in Live(o) : \A m \in Live(o) :
                \/ lines[m].purchase < lines[l].purchase
                \/ lines[m].purchase = lines[l].purchase /\ m =< l}

-----------------------------------------------------------------------------
(* A request begins: it reads without a lock.                                 *)
Starts(w, step, j) ==
  /\ pc' = [pc EXCEPT ![w] = step]
  /\ job' = [job EXCEPT ![w] = j]
  /\ raced' = IF j.item # 0 /\ \E v \in Workers \ {w} : job[v].item = j.item
              THEN raced \cup {j.item} ELSE raced
  /\ UNCHANGED <<rows, locks>>

(* What a request on a cargo item has loaded, and on a purchase line.         *)
OnItem(i, q, h) ==
  [item |-> i, line |-> 0, units |-> q, seen |-> items[i], bought |-> NoLine,
   cargo |-> cargos[items[i].cargo], to |-> h, order |-> NoOrder,
   mark |-> "", close |-> ""]
WithLine(j, l) == [[j EXCEPT !.line = l] EXCEPT !.bought = lines[l]]

(* A request that is one statement, or one insert.                            *)
AtOnce == /\ served < MaxRequests /\ served' = served + 1
          /\ UNCHANGED <<locks, pc, job, raced>>

(* The row that the next step of w writes.                                    *)
Wants(w) ==
  CASE pc[w] = "redirect"                             -> CargoRow(job[w].seen.cargo)
    [] pc[w] \in {"countItem", "split"}               -> ItemRow(job[w].item)
    [] pc[w] \in {"countLine", "saveLine"}            -> LineRow(job[w].line)
    [] pc[w] \in {"mark", "savePurchase"}             -> PurchaseRow(job[w].bought.purchase)
    [] pc[w] = "book"                                 -> StockRows(job[w].to)
    [] pc[w] = "close" /\ job[w].close # ""           -> CargoRow(job[w].seen.cargo)
    [] OTHER                                          -> NoRow

Free(row)    == \A v \in Workers : row \notin locks[v]
WaitsFor(w)  == {v \in Workers \ {w} : Wants(w) \in locks[v]}
Writes(w, step) ==
  /\ WaitsFor(w) = {}
  /\ locks' = [locks EXCEPT ![w] = @ \cup {Wants(w)}]
  /\ pc' = [pc EXCEPT ![w] = step]
  /\ UNCHANGED <<rows, raced, served>>

Ends(w) ==
  /\ locks' = [locks EXCEPT ![w] = {}]
  /\ pc' = [pc EXCEPT ![w] = "idle"]
  /\ job' = [job EXCEPT ![w] = NoJob]
  /\ UNCHANGED <<raced, served>>
Commits(w) == WaitsFor(w) = {} /\ Ends(w)

-----------------------------------------------------------------------------
(* receive_cargo_item.  The page of the cargo receives at its destination and *)
(* reads the purchase line in the transaction; the console lets the employee  *)
(* choose the warehouse and has joined the line.                              *)
Receive(w, i, q, h) ==
  /\ Packed(i) /\ q =< Remaining(items[i]) /\ h # NoWarehouse
  /\ LET cargo == cargos[items[i].cargo]
         step == IF h = cargo.warehouse THEN "countItem" ELSE "redirect"
     IN \/ h = cargo.warehouse /\ Starts(w, step, OnItem(i, q, h))
        \/ /\ items[i].line # 0 /\ lines[items[i].line].order # NoOrder
           /\ cargo.status # "cancelled"
           /\ Starts(w, step, WithLine(OnItem(i, q, h), items[i].line))

Redirect(w) == pc[w] = "redirect" /\ Writes(w, "countItem") /\ UNCHANGED job

CountItem(w) ==
  /\ pc[w] = "countItem"
  /\ IF job[w].seen.line = 0 THEN Writes(w, "book") /\ UNCHANGED job
     ELSE /\ Writes(w, "countLine")
          /\ job' = IF job[w].line # 0 THEN job
                    ELSE [job EXCEPT ![w] = WithLine(@, job[w].seen.line)]

(* The units of the item and of its purchase line once w has received.        *)
Counted(w) == job[w].seen.received + job[w].units
WholeItem(w) ==            \* mutant: the item, not the part that came
  AtMost(job[w].bought.received + job[w].seen.quantity, job[w].bought.quantity)
Arrived(w) == AtMost(job[w].bought.received + job[w].units, job[w].bought.quantity)

(* The purchase is complete when all its lines are, as w sees them.           *)
Progress(w, p) ==
  LET got(l)  == IF l = job[w].line THEN Arrived(w) ELSE lines[l].received
      mine    == {l \in Ids : lines[l].purchase = p}
  IN  IF \A l \in mine : got(l) >= lines[l].quantity THEN "received"
      ELSE IF \E l \in mine : got(l) > 0 THEN "partial" ELSE purchases[p]

CountLine(w) ==
  /\ pc[w] = "countLine"
  /\ LET p == job[w].bought.purchase
     IN  IF Progress(w, p) = purchases[p] THEN Writes(w, "book") /\ UNCHANGED job
         ELSE Writes(w, "mark") /\ job' = [job EXCEPT ![w].mark = Progress(w, p)]

MarkPurchase(w) == pc[w] = "mark" /\ Writes(w, "book") /\ UNCHANGED job

(* receipt_inventory rewrites every balance of the warehouse; then w looks    *)
(* for items of the cargo that are still to come.                             *)
Rest(w) ==
  IF \E i \in Ids : /\ items[i].cargo = job[w].seen.cargo
                       /\ items[i].quantity >
                            IF i = job[w].item THEN Counted(w) ELSE items[i].received
  THEN "awaiting_receipt" ELSE "received"

Book(w) ==
  /\ pc[w] = "book"
  /\ Writes(w, "close")
  /\ job' = [job EXCEPT ![w].close = IF Rest(w) = job[w].cargo.status THEN "" ELSE Rest(w)]

BookedOnLine(w) == booked[job[w].item]                 \* mutant: only what the line lacks
                   + Arrived(w) - job[w].bought.received
Booked(w) == booked[job[w].item] + job[w].units

CloseCargo(w) ==
  /\ pc[w] = "close"
  /\ items' = [items EXCEPT ![job[w].item].received = Counted(w)]
  /\ lines' = IF job[w].line = 0 THEN lines
              ELSE [lines EXCEPT ![job[w].line].received = Arrived(w)]
  /\ purchases' = IF job[w].mark = "" THEN purchases
                  ELSE [purchases EXCEPT ![job[w].bought.purchase] = job[w].mark]
  /\ booked' = [booked EXCEPT ![job[w].item] = Booked(w)]
  /\ cargos' = [cargos EXCEPT ![job[w].seen.cargo] =
       [status    |-> IF job[w].close # "" THEN job[w].close ELSE @.status,
        warehouse |-> IF job[w].to # job[w].cargo.warehouse THEN job[w].to ELSE @.warehouse]]
  /\ Commits(w)

-----------------------------------------------------------------------------
(* split_cargo moves units that are still to come into a cargo of their own.  *)
AnyPart(item, q) == q =< MaxUnits                      \* mutant: not checked
UnreadPart(item, q) == q < item.quantity               \* mutant: received is forgotten
Splits(item, q) == q < Remaining(item)

BeginSplit(w, i, q) ==
  /\ Packed(i) /\ Splits(items[i], q)
  /\ Starts(w, "split", OnItem(i, q, NoWarehouse))

Split(w) ==
  /\ pc[w] = "split"
  /\ \E c \in Fresh(Open), k \in Fresh(Packed) :
       /\ cargos' = [cargos EXCEPT ![c] = job[w].cargo]
       /\ items' = [[items EXCEPT ![job[w].item].quantity = job[w].seen.quantity - job[w].units]
                      EXCEPT ![k] = [cargo |-> c, line |-> job[w].seen.line,
                                     quantity |-> job[w].units, received |-> 0]]
  /\ UNCHANGED <<purchases, lines, booked>>
  /\ Commits(w)

(* create_cargo_for_purchase_item checks what is left before it inserts.      *)
BeginLoad(w, l, q, s, h) ==
  /\ Listed(l) /\ lines[l].order # NoOrder /\ purchases[lines[l].purchase] # "cancelled"
  /\ q =< Available(l)
  /\ Starts(w, "load",
       [WithLine(NoJob, l) EXCEPT !.units = q, !.cargo = [status |-> s, warehouse |-> h]])

Load(w) ==
  /\ pc[w] = "load"
  /\ \E c \in Fresh(Open), k \in Fresh(Packed) :
       /\ cargos' = [cargos EXCEPT ![c] = job[w].cargo]
       /\ items' = [items EXCEPT ![k] = [cargo |-> c, line |-> job[w].line,
                                         quantity |-> job[w].units, received |-> 0]]
  /\ UNCHANGED <<purchases, lines, booked>>
  /\ Commits(w)

(* The pages of a cargo: an item of any size, the status and the destination. *)
AddItem(c, l, q) ==
  /\ Open(c) /\ (l # 0 => Listed(l))
  /\ \E k \in Fresh(Packed) :
       items' = [items EXCEPT ![k] = [cargo |-> c, line |-> l, quantity |-> q, received |-> 0]]
  /\ UNCHANGED <<purchases, lines, cargos, booked>>
  /\ AtOnce

EditCargo(c, s, h) ==
  /\ (IF Open(c) THEN Free(CargoRow(c)) ELSE c \in Fresh(Open))
  /\ cargos' = [cargos EXCEPT ![c] = [status |-> s, warehouse |-> h]]
  /\ UNCHANGED <<purchases, lines, items, booked>>
  /\ AtOnce

-----------------------------------------------------------------------------
(* upsert_purchase_for_order_item reads the latest line of the order line and *)
(* saves the whole rows of the purchase and of the line.                      *)
BeginPurchase(w, o, q, s) ==
  LET j == [[[NoJob EXCEPT !.order = o] EXCEPT !.units = q] EXCEPT !.mark = s]
  IN  \/ Live(o) = {} /\ Starts(w, "insert", j)
      \/ \E l \in Latest(o) : Starts(w, "savePurchase", WithLine(j, l))

InsertPurchase(w) ==
  /\ pc[w] = "insert"
  /\ \E p \in Fresh(Bought), l \in Fresh(Listed) :
       /\ purchases' = [purchases EXCEPT ![p] = job[w].mark]
       /\ lines' = [lines EXCEPT ![l] = [purchase |-> p, order |-> job[w].order,
                                         quantity |-> job[w].units, received |-> 0]]
  /\ UNCHANGED <<cargos, items, booked>>
  /\ Commits(w)

SavePurchase(w) == pc[w] = "savePurchase" /\ Writes(w, "saveLine") /\ UNCHANGED job

SaveLine(w) ==
  /\ pc[w] = "saveLine"
  /\ purchases' = [purchases EXCEPT ![job[w].bought.purchase] = job[w].mark]
  /\ lines' = [lines EXCEPT ![job[w].line] = [job[w].bought EXCEPT !.quantity = job[w].units]]
  /\ UNCHANGED <<cargos, items, booked>>
  /\ Commits(w)

(* The pages of a purchase: its status, and one more line.                    *)
EditPurchase(p, s) ==
  /\ (IF Bought(p) THEN Free(PurchaseRow(p)) ELSE p \in Fresh(Bought))
  /\ purchases' = [purchases EXCEPT ![p] = s]
  /\ UNCHANGED <<lines, cargos, items, booked>>
  /\ AtOnce

AddLine(p, o, q) ==
  /\ Bought(p)
  /\ \E l \in Fresh(Listed) :
       lines' = [lines EXCEPT ![l] = [purchase |-> p, order |-> o,
                                      quantity |-> q, received |-> 0]]
  /\ UNCHANGED <<purchases, cargos, items, booked>>
  /\ AtOnce

-----------------------------------------------------------------------------
(* PostgreSQL aborts a transaction of a circle of workers that wait for each  *)
(* other.                                                                     *)
Undetected(w) == FALSE /\ w \in Workers                     \* mutant: they wait for ever
Deadlocked(w) ==
  \E S \in SUBSET Workers :
    w \in S /\ \A v \in S : WaitsFor(v) \cap S # {}
Abort(w) == Deadlocked(w) /\ Ends(w) /\ UNCHANGED rows

Proceed(w) ==
  \/ Redirect(w) \/ CountItem(w) \/ CountLine(w) \/ MarkPurchase(w) \/ Book(w)
  \/ CloseCargo(w) \/ Split(w) \/ Load(w) \/ InsertPurchase(w) \/ SavePurchase(w)
  \/ SaveLine(w) \/ Abort(w)

Begins(w) == pc[w] = "idle" /\ served < MaxRequests /\ served' = served + 1

Ask(w) ==
  \E q \in Units :
    \/ \E i \in Ids : \/ BeginSplit(w, i, q)
                      \/ \E h \in Warehouses : Receive(w, i, q, h)
    \/ \E l \in Ids, s \in CargoForm, h \in Warehouses : BeginLoad(w, l, q, s, h)
    \/ \E o \in Orders, s \in PurchaseForm : BeginPurchase(w, o, q, s)

Edit ==
  \/ \E c \in Ids, l \in {0} \cup Ids, q \in Units : AddItem(c, l, q)
  \/ \E c \in Ids, s \in CargoForm, h \in Warehouses \cup {NoWarehouse} : EditCargo(c, s, h)
  \/ \E p \in Ids, o \in Orders \cup {NoOrder}, q \in Units : AddLine(p, o, q)
  \/ \E p \in Ids, s \in PurchaseForm : EditPurchase(p, s)

Next == Edit \/ \E w \in Workers : Proceed(w) \/ (Begins(w) /\ Ask(w))
Spec == Init /\ [][Next]_vars /\ \A w \in Workers : WF_vars(Proceed(w))

-----------------------------------------------------------------------------
(* What a cargo shows as received was put in stock, also when the counter is  *)
(* written from an instance that another receipt has overtaken.               *)
CountedIsBooked == \A i \in Ids : items[i].received =< booked[i]

(* A purchase line never shows more units than its cargoes brought.           *)
LineNeverAhead ==
  \A l \in Ids : lines[l].received =<
    SumFunctionOnSet(booked, {i \in Ids : items[i].line = l})

(* The stock has what the cargo shows, and no more than the cargo held, unless *)
(* two requests worked on the item at one time: nothing else, no sequence of   *)
(* splits, edits and partial receipts, receives an item twice.                 *)
OnlyRacesOverbook ==
  \A i \in Ids \ raced : items[i].received = booked[i] /\ booked[i] =< items[i].quantity

(* Every request is answered, also those that lock the same rows in opposite   *)
(* orders: a receipt the line before the purchase, the purchase form after it. *)
Answered == \A w \in Workers : pc[w] # "idle" ~> pc[w] = "idle"
=============================================================================
