------------------------- MODULE Procurement_proofs -------------------------
(* Whatever the number of employees, purchases and units: receipts that run   *)
(* at one time never show more units than they booked, and only two requests  *)
(* on one cargo item at one time can book more units than the item holds; and *)
(* a purchase line never shows more units than its cargoes brought.           *)
EXTENDS Procurement, TLAPS, FiniteSetTheorems, WellFoundedInduction

Receiving == {"redirect", "countItem", "countLine", "mark", "book", "close"}

(* A request holds the item as it was loaded, which is the item as it is      *)
(* unless another request has worked on it; and it asks for units to come.    *)
Holds(w) ==
  /\ job[w].item \in Ids /\ Packed(job[w].item)
  /\ job[w].seen.received =< booked[job[w].item]
  /\ job[w].item \notin raced => job[w].seen = items[job[w].item]

Working ==
  /\ \A w \in Workers : pc[w] \in Receiving \cup {"split"} => Holds(w)
  /\ \A w \in Workers : pc[w] \notin Receiving \cup {"split"} => job[w].item = 0
  /\ \A w \in Workers : pc[w] \in Receiving =>
       job[w].seen.received + job[w].units =< job[w].seen.quantity
  /\ \A w \in Workers : pc[w] = "split" =>
       job[w].seen.received + job[w].units < job[w].seen.quantity

(* Two requests on one item are a race.                                       *)
Alone == \A v, w \in Workers :
  v # w /\ job[v].item = job[w].item /\ job[w].item # 0 => job[w].item \in raced

(* No lot refers to an item that is not there yet.                            *)
Unbooked == \A i \in Ids : ~Packed(i) => booked[i] = 0

IInv == TypeOK /\ Working /\ Alone /\ Unbooked /\ CountedIsBooked /\ OnlyRacesOverbook

-----------------------------------------------------------------------------
LEMMA Constants == MaxRows \in Nat /\ Ids = 1..MaxRows /\ Units \subseteq Nat \ {0}
BY ProcurementAssumption DEF MaxRows, Ids, Units

LEMMA NoRowsOK == NoLine \in LineRows /\ NoCargo \in CargoRows /\ NoItem \in ItemRows
BY Constants DEF NoLine, NoCargo, NoItem, LineRows, CargoRows, ItemRows

LEMMA NoJobItem == NoJob.item = 0
BY DEF NoJob

LEMMA NoJobOK == NoJob \in Jobs
BY NoRowsOK, Constants DEF NoJob, Jobs

(* The jobs that requests start with, and the line that they load, are jobs.  *)
LEMMA OnItemOK ==
  ASSUME TypeOK, NEW i \in Ids, items[i].cargo \in Ids, NEW q \in Nat,
         NEW h \in Warehouses \cup {NoWarehouse}
  PROVE  OnItem(i, q, h) \in Jobs
<1>1. items[i] \in ItemRows /\ cargos[items[i].cargo] \in CargoRows  BY DEF TypeOK
<1>2. i \in 0..MaxRows /\ 0 \in 0..MaxRows  BY Constants
<1>. QED  BY <1>1, <1>2, NoRowsOK DEF OnItem, Jobs

LEMMA WithLineOK ==
  ASSUME TypeOK, NEW j \in Jobs, NEW l \in Ids
  PROVE  WithLine(j, l) \in Jobs
<1>1. l \in 0..MaxRows  BY Constants
<1>2. lines[l] \in LineRows  BY DEF TypeOK
<1>. QED  BY <1>1, <1>2 DEF WithLine, Jobs

LEMMA InitInv == Init => IInv
<1>. SUFFICES ASSUME Init PROVE IInv  OBVIOUS
<1>1. PICK o \in [1..FirstLines -> Orders], h \in Warehouses \cup {NoWarehouse} :
        /\ lines = [l \in Ids |-> IF l > FirstLines THEN NoLine
             ELSE [purchase |-> 1, order |-> o[l], quantity |-> MaxUnits, received |-> 0]]
        /\ cargos = [c \in Ids |-> IF c > 1 THEN NoCargo
             ELSE [status |-> "created", warehouse |-> h]]
        /\ items = [i \in Ids |-> IF i > FirstLines THEN NoItem
             ELSE [cargo |-> 1, line |-> i, quantity |-> MaxUnits, received |-> 0]]
  BY DEF Init
<1>2. lines \in [Ids -> LineRows]
  <2>1. \A l \in Ids : ~(l > FirstLines) =>
          [purchase |-> 1, order |-> o[l], quantity |-> MaxUnits, received |-> 0] \in LineRows
    BY ProcurementAssumption, Constants DEF LineRows, MaxRows
  <2>. QED  BY <1>1, <2>1, NoRowsOK
<1>3. cargos \in [Ids -> CargoRows]
  <2>1. [status |-> "created", warehouse |-> h] \in CargoRows  BY DEF CargoRows, CargoStatus
  <2>. QED  BY <1>1, <2>1, NoRowsOK
<1>4. items \in [Ids -> ItemRows]
  <2>1. \A i \in Ids : ~(i > FirstLines) =>
          [cargo |-> 1, line |-> i, quantity |-> MaxUnits, received |-> 0] \in ItemRows
    BY ProcurementAssumption, Constants DEF ItemRows, MaxRows
  <2>. QED  BY <1>1, <2>1, NoRowsOK
<1>5. \A i \in Ids : items[i].received = 0 /\ items[i].quantity >= 0
  BY <1>1, ProcurementAssumption, Constants DEF NoItem
<1>6. purchases \in [Ids -> PurchaseStatus \cup {""}] /\ booked \in [Ids -> Nat]
  BY DEF Init, PurchaseStatus
<1>7. /\ locks \in [Workers -> SUBSET Rows] /\ pc \in [Workers -> Steps]
      /\ job \in [Workers -> Jobs] /\ raced \subseteq Ids /\ served \in 0..MaxRequests
  <2>1. locks \in [Workers -> SUBSET Rows]
    <3>1. {} \in SUBSET Rows  OBVIOUS
    <3>. QED  BY <3>1 DEF Init
  <2>2. served \in 0..MaxRequests
    <3>1. served = 0  BY DEF Init
    <3>. QED  BY <3>1, ProcurementAssumption
  <2>. QED  BY <2>1, <2>2, NoJobOK DEF Init, Steps
<1>8. Working /\ Alone
  BY DEF Init, Working, Alone, NoJob, Receiving
<1>9. Unbooked /\ CountedIsBooked /\ OnlyRacesOverbook
  <2>1. \A i \in Ids : booked[i] = 0  BY DEF Init
  <2>. QED  BY <1>5, <2>1 DEF Unbooked, CountedIsBooked, OnlyRacesOverbook
<1>. QED  BY <1>2, <1>3, <1>4, <1>6, <1>7, <1>8, <1>9 DEF IInv, TypeOK

-----------------------------------------------------------------------------
(* A request that begins on a purchase, or on no row.                         *)
LEMMA StartsElsewhere ==
  ASSUME IInv, NEW w \in Workers, Begins(w), NEW step \in Steps, NEW j \in Jobs,
         Starts(w, step, j), step \notin Receiving \cup {"split"}, j.item = 0
  PROVE  IInv'
<1>. USE DEF IInv
<1>1. /\ pc' \in [Workers -> Steps] /\ pc'[w] = step /\ job'[w] = j
      /\ \A v \in Workers \ {w} : pc'[v] = pc[v] /\ job'[v] = job[v]
      /\ job' \in [Workers -> Jobs] /\ raced' = raced
  BY DEF Starts, TypeOK
<1>2. /\ purchases' = purchases /\ lines' = lines /\ cargos' = cargos /\ items' = items
      /\ booked' = booked /\ locks' = locks
  BY DEF Starts, rows
<1>3. served' \in 0..MaxRequests
  <2>1. served \in 0..MaxRequests  BY DEF TypeOK
  <2>2. served < MaxRequests /\ served' = served + 1  BY DEF Begins
  <2>. QED  BY <2>1, <2>2, ProcurementAssumption
<1>4. TypeOK'  BY <1>1, <1>2, <1>3 DEF TypeOK
<1>5. Working'  BY <1>1, <1>2 DEF Working, Holds, Packed
<1>6. Alone'  BY <1>1 DEF Alone
<1>. QED  BY <1>1, <1>2, <1>4, <1>5, <1>6
          DEF Unbooked, Packed, CountedIsBooked, OnlyRacesOverbook

(* A request that begins on a cargo item has loaded it as it is.              *)
LEMMA StartsOnItem ==
  ASSUME IInv, NEW w \in Workers, Begins(w), NEW step \in Steps, NEW j \in Jobs,
         Starts(w, step, j), j.item \in Ids, Packed(j.item), j.seen = items[j.item],
         \/ step \in Receiving /\ j.seen.received + j.units =< j.seen.quantity
         \/ step = "split" /\ j.seen.received + j.units < j.seen.quantity
  PROVE  IInv'
<1>. USE DEF IInv
<1>1. /\ pc' \in [Workers -> Steps] /\ pc'[w] = step /\ job'[w] = j
      /\ \A v \in Workers \ {w} : pc'[v] = pc[v] /\ job'[v] = job[v]
      /\ job' \in [Workers -> Jobs]
  BY DEF Starts, TypeOK
<1>2. /\ purchases' = purchases /\ lines' = lines /\ cargos' = cargos /\ items' = items
      /\ booked' = booked /\ locks' = locks
  BY DEF Starts, rows
<1>3. served' \in 0..MaxRequests
  <2>1. served \in 0..MaxRequests  BY DEF TypeOK
  <2>2. served < MaxRequests /\ served' = served + 1  BY DEF Begins
  <2>. QED  BY <2>1, <2>2, ProcurementAssumption
<1>4. /\ raced \subseteq raced' /\ raced' \subseteq Ids
      /\ (\E v \in Workers \ {w} : job[v].item = j.item) => j.item \in raced'
  <2>1. raced \subseteq Ids  BY DEF TypeOK
  <2>2. j.item # 0  BY Constants
  <2>3. raced' = IF \E v \in Workers \ {w} : job[v].item = j.item
                 THEN raced \cup {j.item} ELSE raced
    BY <2>2 DEF Starts
  <2>. QED  BY <2>1, <2>3
<1>5. TypeOK'  BY <1>1, <1>2, <1>3, <1>4 DEF TypeOK
<1>6. Working'
  <2>1. \A v \in Workers \ {w} : Holds(v) => Holds(v)'
    BY <1>1, <1>2, <1>4 DEF Holds, Packed
  <2>2. Holds(w)'
    BY <1>1, <1>2 DEF Holds, Packed, CountedIsBooked
  <2>3. step # "split" \/ step \notin Receiving  BY DEF Receiving
  <2>. QED  BY <1>1, <2>1, <2>2, <2>3 DEF Working, Receiving
<1>7. Alone'
  <2>1. j.item # 0  BY Constants
  <2>2. \A v \in Workers \ {w} : job[v].item = j.item => j.item \in raced'  BY <1>4
  <2>. QED  BY <1>1, <1>4, <2>1, <2>2 DEF Alone
<1>. QED  BY <1>2, <1>4, <1>5, <1>6, <1>7
          DEF Unbooked, Packed, CountedIsBooked, OnlyRacesOverbook

(* A step in the middle of a request takes a lock and may read a line.        *)
LEMMA WritesInv ==
  ASSUME IInv, NEW w \in Workers, NEW step \in Steps, Writes(w, step), Wants(w) \in Rows,
         job' \in [Workers -> Jobs], \A v \in Workers \ {w} : job'[v] = job[v],
         job'[w].item = job[w].item, job'[w].seen = job[w].seen, job'[w].units = job[w].units,
         \/ pc[w] \in Receiving /\ step \in Receiving
         \/ pc[w] \notin Receiving \cup {"split"} /\ step \notin Receiving \cup {"split"}
  PROVE  IInv'
<1>. USE DEF IInv
<1>1. /\ pc' \in [Workers -> Steps] /\ pc'[w] = step
      /\ \A v \in Workers \ {w} : pc'[v] = pc[v]
      /\ locks' \in [Workers -> SUBSET Rows]
  BY DEF Writes, TypeOK
<1>2. /\ purchases' = purchases /\ lines' = lines /\ cargos' = cargos /\ items' = items
      /\ booked' = booked /\ raced' = raced /\ served' = served
  BY DEF Writes, rows
<1>3. TypeOK'  BY <1>1, <1>2 DEF TypeOK
<1>4. \A v \in Workers : job'[v].item = job[v].item /\ job'[v].seen = job[v].seen
                         /\ job'[v].units = job[v].units
  OBVIOUS
<1>5. Working'
  <2>1. \A v \in Workers : Holds(v) => Holds(v)'
    BY <1>2, <1>4 DEF Holds, Packed
  <2>2. "split" \notin Receiving  BY DEF Receiving
  <2>. QED  BY <1>1, <1>4, <2>1, <2>2 DEF Working
<1>6. Alone'  BY <1>2, <1>4 DEF Alone
<1>. QED  BY <1>2, <1>3, <1>5, <1>6 DEF Unbooked, Packed, CountedIsBooked, OnlyRacesOverbook

-----------------------------------------------------------------------------
(* What the end of a request leaves: w holds no item, the others theirs.      *)
LEMMA EndsOK ==
  ASSUME IInv, NEW w \in Workers, Ends(w)
  PROVE  /\ locks' \in [Workers -> SUBSET Rows] /\ pc' \in [Workers -> Steps]
         /\ job' \in [Workers -> Jobs] /\ raced' = raced /\ served' = served
         /\ pc'[w] = "idle" /\ job'[w].item = 0
         /\ \A v \in Workers \ {w} : pc'[v] = pc[v] /\ job'[v] = job[v]
         /\ Alone'
<1>. USE DEF IInv
<1>1. {} \in SUBSET Rows /\ "idle" \in Steps  BY DEF Steps
<1>2. /\ locks' \in [Workers -> SUBSET Rows] /\ pc' \in [Workers -> Steps]
      /\ job' \in [Workers -> Jobs] /\ raced' = raced /\ served' = served
      /\ pc'[w] = "idle" /\ job'[w] = NoJob
      /\ \A v \in Workers \ {w} : pc'[v] = pc[v] /\ job'[v] = job[v]
  BY <1>1, NoJobOK DEF Ends, TypeOK
<1>3. job'[w].item = 0  BY <1>2, NoJobItem
<1>4. Alone'  BY <1>2, <1>3 DEF Alone
<1>. QED  BY <1>2, <1>3, <1>4

(* A request ends and the cargo items and their lots are as before.           *)
LEMMA EndsElsewhere ==
  ASSUME IInv, NEW w \in Workers, Ends(w), UNCHANGED <<items, booked>>,
         purchases' \in [Ids -> PurchaseStatus \cup {""}],
         lines' \in [Ids -> LineRows], cargos' \in [Ids -> CargoRows]
  PROVE  IInv'
<1>. USE DEF IInv
<1>1. TypeOK'  BY EndsOK DEF TypeOK
<1>2. Working'
  <2>1. \A v \in Workers \ {w} : Holds(v) => Holds(v)'
    <3>1. raced' = raced /\ \A v \in Workers \ {w} : job'[v] = job[v]  BY EndsOK
    <3>. QED  BY <3>1 DEF Holds, Packed
  <2>2. "idle" \notin Receiving \cup {"split"}  BY DEF Receiving
  <2>3. /\ pc'[w] = "idle" /\ raced' = raced
        /\ \A v \in Workers \ {w} : pc'[v] = pc[v] /\ job'[v] = job[v]
    BY EndsOK
  <2>4. job'[w].item = 0  BY EndsOK
  <2>5. \A v \in Workers : pc'[v] = IF v = w THEN "idle" ELSE pc[v]  BY <2>3
  <2>6. \A v \in Workers : v # w => job'[v] = job[v]  BY <2>3
  <2>. QED  BY <2>1, <2>2, <2>4, <2>5, <2>6 DEF Working
<1>. QED  BY <1>1, <1>2, EndsOK DEF Unbooked, Packed, CountedIsBooked, OnlyRacesOverbook

(* A cargo item that is created was no item of any request.                   *)
LEMMA FreshOK ==
  ASSUME IInv, NEW k \in Fresh(Packed)
  PROVE  /\ k \in Ids /\ ~Packed(k) /\ booked[k] = 0
         /\ \A w \in Workers : job[w].item # k
<1>1. k \in Ids /\ ~Packed(k)  BY DEF Fresh
<1>2. booked[k] = 0  BY <1>1 DEF IInv, Unbooked
<1>3. \A w \in Workers : job[w].item # k
  BY <1>1, Constants DEF IInv, Working, Holds
<1>. QED  BY <1>1, <1>2, <1>3

LEMMA LoadInv ==
  ASSUME IInv, NEW w \in Workers, Load(w)
  PROVE  IInv'
<1>. USE DEF IInv
<1>1. PICK c \in Fresh(Open), k \in Fresh(Packed) :
        /\ cargos' = [cargos EXCEPT ![c] = job[w].cargo]
        /\ items' = [items EXCEPT ![k] = [cargo |-> c, line |-> job[w].line,
                                          quantity |-> job[w].units, received |-> 0]]
  BY DEF Load
<1>2. Ends(w) /\ UNCHANGED <<purchases, lines, booked>>  BY DEF Load, Commits
<1>3. c \in Ids /\ k \in Ids  BY DEF Fresh
<1>4. job[w] \in Jobs  BY DEF TypeOK
<1>. DEFINE new == [cargo |-> c, line |-> job[w].line,
                    quantity |-> job[w].units, received |-> 0]
<1>5. new \in ItemRows /\ new.received = 0 /\ new.quantity \in Nat /\ new.cargo # 0
  <2>1. job[w].line \in 0..MaxRows /\ job[w].units \in Nat  BY <1>4 DEF Jobs
  <2>2. c \in 1..MaxRows /\ MaxRows \in Nat  BY <1>3, Constants
  <2>. QED  BY <2>1, <2>2 DEF ItemRows
<1>6. items' = [items EXCEPT ![k] = new]  BY <1>1
<1>. HIDE DEF new
<1>7. /\ items' \in [Ids -> ItemRows] /\ items'[k] = new
      /\ \A i \in Ids \ {k} : items'[i] = items[i]
  <2>1. items \in [Ids -> ItemRows]  BY DEF TypeOK
  <2>. QED  BY <2>1, <1>3, <1>5, <1>6
<1>8. cargos' \in [Ids -> CargoRows]
  BY <1>1, <1>3, <1>4 DEF TypeOK, Jobs
<1>9. TypeOK'  BY <1>2, <1>7, <1>8, EndsOK DEF TypeOK
<1>10. Working'
  <2>1. \A v \in Workers \ {w} : Holds(v) => Holds(v)'
    <3>. SUFFICES ASSUME NEW v \in Workers \ {w}, Holds(v) PROVE Holds(v)'  OBVIOUS
    <3>1. job'[v] = job[v] /\ booked' = booked /\ raced' = raced  BY <1>2, EndsOK
    <3>2. job[v].item \in Ids \ {k}  BY FreshOK DEF Holds
    <3>. QED  BY <3>1, <3>2, <1>7 DEF Holds, Packed
  <2>2. "idle" \notin Receiving \cup {"split"}  BY DEF Receiving
  <2>. QED  BY <1>2, EndsOK, <2>1, <2>2 DEF Working
<1>11. Unbooked'  BY <1>2, <1>7, <1>5 DEF Unbooked, Packed
<1>12. booked' = booked /\ raced' = raced /\ booked[k] = 0  BY <1>2, EndsOK, FreshOK
<1>13. CountedIsBooked' /\ OnlyRacesOverbook'
  BY <1>5, <1>7, <1>12 DEF CountedIsBooked, OnlyRacesOverbook
<1>. QED  BY <1>2, <1>9, <1>10, <1>11, <1>13, EndsOK

LEMMA SplitInv ==
  ASSUME IInv, NEW w \in Workers, Split(w)
  PROVE  IInv'
<1>. USE DEF IInv
<1>. DEFINE i == job[w].item
            less == job[w].seen.quantity - job[w].units
<1>1. PICK c \in Fresh(Open), k \in Fresh(Packed) :
        /\ cargos' = [cargos EXCEPT ![c] = job[w].cargo]
        /\ items' = [[items EXCEPT ![job[w].item].quantity = less]
                       EXCEPT ![k] = [cargo |-> c, line |-> job[w].seen.line,
                                      quantity |-> job[w].units, received |-> 0]]
  BY DEF Split
<1>2. /\ Ends(w) /\ UNCHANGED <<purchases, lines, booked>>
      /\ pc[w] = "split"
  BY DEF Split, Commits
<1>3. c \in Ids /\ k \in Ids  BY DEF Fresh
<1>4. job[w] \in Jobs  BY DEF TypeOK
<1>5. /\ Holds(w) /\ i \in Ids /\ i # k
      /\ job[w].seen.received + job[w].units < job[w].seen.quantity
  BY <1>2, FreshOK DEF Working, Holds
<1>6. /\ job[w].seen.received \in Nat /\ job[w].units \in Nat /\ job[w].seen.quantity \in Nat
      /\ job[w].seen.line \in 0..MaxRows
  BY <1>4 DEF Jobs, ItemRows
<1>7. less \in Nat /\ less > job[w].seen.received
  BY <1>5, <1>6
<1>. DEFINE new == [cargo |-> c, line |-> job[w].seen.line,
                    quantity |-> job[w].units, received |-> 0]
            rest == [items[i] EXCEPT !.quantity = less]
<1>8. new \in ItemRows /\ new.received = 0 /\ new.quantity \in Nat /\ new.cargo # 0
  BY <1>3, <1>6, Constants DEF ItemRows
<1>9. /\ items[i] \in ItemRows /\ rest \in ItemRows /\ rest.quantity = less
      /\ rest.received = items[i].received /\ rest.cargo = items[i].cargo
  BY <1>5, <1>7 DEF TypeOK, ItemRows
<1>10. items' = [[items EXCEPT ![i] = rest] EXCEPT ![k] = new]
  BY <1>1
<1>. HIDE DEF new, rest, less, i
<1>11. /\ items' \in [Ids -> ItemRows] /\ items'[k] = new /\ items'[i] = rest
       /\ \A j \in Ids \ {k, i} : items'[j] = items[j]
  BY <1>3, <1>5, <1>8, <1>9, <1>10 DEF TypeOK
<1>12. cargos' \in [Ids -> CargoRows]
  BY <1>1, <1>3, <1>4 DEF TypeOK, Jobs
<1>13. TypeOK'  BY <1>2, <1>11, <1>12, EndsOK DEF TypeOK
<1>14. i \notin raced => \A v \in Workers \ {w} : job[v].item # i
  BY <1>5, Constants DEF Alone, i
<1>15. Working'
  <2>1. \A v \in Workers \ {w} : Holds(v) => Holds(v)'
    <3>. SUFFICES ASSUME NEW v \in Workers \ {w}, Holds(v) PROVE Holds(v)'  OBVIOUS
    <3>1. job'[v] = job[v] /\ booked' = booked /\ raced' = raced
      BY <1>2, EndsOK
    <3>2. job[v].item \in Ids /\ job[v].item # k
      BY FreshOK DEF Holds
    <3>3. CASE job[v].item = i
      <4>1. items'[i].cargo = items[i].cargo  BY <1>9, <1>11
      <4>2. i \in raced  BY <3>3, <1>14
      <4>. QED  BY <3>1, <3>2, <3>3, <4>1, <4>2 DEF Holds, Packed
    <3>4. CASE job[v].item # i
      <4>1. items'[job[v].item] = items[job[v].item]  BY <3>2, <3>4, <1>11
      <4>. QED  BY <3>1, <3>2, <4>1 DEF Holds, Packed
    <3>. QED  BY <3>3, <3>4
  <2>2. "idle" \notin Receiving \cup {"split"}  BY DEF Receiving
  <2>. QED  BY <1>2, EndsOK, <2>1, <2>2 DEF Working
<1>16. Unbooked'
  BY <1>2, <1>8, <1>9, <1>11 DEF Unbooked, Packed
<1>17. CountedIsBooked'
  <2>1. booked' = booked /\ booked[k] = 0  BY <1>2, FreshOK
  <2>. QED  BY <2>1, <1>5, <1>8, <1>9, <1>11 DEF CountedIsBooked
<1>18. OnlyRacesOverbook'
  <2>1. i \notin raced => items[i] = job[w].seen
    BY <1>5 DEF Holds, i
  <2>2. booked' = booked /\ booked[k] = 0  BY <1>2, FreshOK
  <2>4. raced' = raced  BY <1>2, EndsOK
  <2>3. less \in Nat /\ (i \notin raced => booked[i] = items[i].received)
    BY <1>5, <1>7 DEF OnlyRacesOverbook
  <2>5. i \in Ids /\ job[w].seen.received \in Nat  BY <1>5, <1>6
  <2>6. \A j \in Ids \ raced : items'[j].received = booked[j] /\ booked[j] =< items'[j].quantity
    <3>. SUFFICES ASSUME NEW j \in Ids \ raced
                  PROVE  items'[j].received = booked[j] /\ booked[j] =< items'[j].quantity
      OBVIOUS
    <3>1. CASE j = i  BY <3>1, <2>1, <2>3, <2>5, <1>7, <1>9, <1>11
    <3>2. CASE j = k  BY <3>2, <2>2, <1>8, <1>11
    <3>3. CASE j # i /\ j # k  BY <3>3, <1>11 DEF OnlyRacesOverbook
    <3>. QED  BY <3>1, <3>2, <3>3
  <2>. QED  BY <2>2, <2>4, <2>6 DEF OnlyRacesOverbook
<1>. QED  BY <1>2, <1>13, <1>15, <1>16, <1>17, <1>18, EndsOK

-----------------------------------------------------------------------------
(* The end of a receipt: the stock gets what the counter gets.                *)
LEMMA CloseInv ==
  ASSUME IInv, NEW w \in Workers, CloseCargo(w)
  PROVE  IInv'
<1>. USE DEF IInv
<1>. DEFINE i == job[w].item
            got == job[w].seen.received + job[w].units
<1>1. Ends(w) /\ pc[w] \in Receiving  BY DEF CloseCargo, Commits, Receiving
<1>2. /\ items' = [items EXCEPT ![job[w].item].received = got]
      /\ booked' = [booked EXCEPT ![job[w].item] = booked[job[w].item] + job[w].units]
  BY DEF CloseCargo, Counted, Booked
<1>3. Holds(w) /\ i \in Ids /\ got =< job[w].seen.quantity
  BY <1>1 DEF Working, Holds
<1>4. job[w] \in Jobs  BY DEF TypeOK
<1>5. /\ job[w].seen.received \in Nat /\ job[w].units \in Nat /\ job[w].seen.quantity \in Nat
      /\ job[w].bought \in LineRows /\ job[w].seen \in ItemRows /\ job[w].cargo \in CargoRows
      /\ job[w].mark \in PurchaseStatus \cup {""} /\ job[w].close \in CargoStatus \cup {""}
      /\ job[w].to \in Warehouses \cup {NoWarehouse}
  BY <1>4 DEF Jobs, ItemRows
<1>6. booked[i] \in Nat /\ items[i] \in ItemRows  BY <1>3 DEF TypeOK
<1>22. got \in Nat /\ booked[i] + job[w].units \in Nat
  <2>1. job[w].seen.received \in Nat /\ job[w].units \in Nat /\ booked[i] \in Nat  BY <1>5, <1>6
  <2>. QED  BY <2>1
<1>. DEFINE new == [items[i] EXCEPT !.received = got]
<1>7. /\ new \in ItemRows /\ new.received = got /\ new.quantity = items[i].quantity
      /\ new.cargo = items[i].cargo
  <2>. HIDE DEF got
  <2>. QED  BY <1>6, <1>22 DEF ItemRows
<1>8. items' = [items EXCEPT ![i] = new]  BY <1>2
<1>9. booked' = [booked EXCEPT ![i] = booked[i] + job[w].units]  BY <1>2
<1>. HIDE DEF new, got, i
<1>10. /\ items' \in [Ids -> ItemRows] /\ items'[i] = new
       /\ \A j \in Ids \ {i} : items'[j] = items[j]
  <2>1. items \in [Ids -> ItemRows]  BY DEF TypeOK
  <2>. QED  BY <2>1, <1>3, <1>7, <1>8
<1>11. /\ booked' \in [Ids -> Nat] /\ booked'[i] = booked[i] + job[w].units
       /\ \A j \in Ids \ {i} : booked'[j] = booked[j]
  <2>1. booked \in [Ids -> Nat]  BY DEF TypeOK
  <2>. QED  BY <2>1, <1>3, <1>9, <1>22
<1>12. lines' \in [Ids -> LineRows]
  <2>1. lines \in [Ids -> LineRows]  BY DEF TypeOK
  <2>2. Arrived(w) \in Nat
    <3>1. /\ job[w].bought.received \in Nat /\ job[w].bought.quantity \in Nat
          /\ job[w].units \in Nat
      BY <1>5 DEF LineRows
    <3>. QED  BY <3>1 DEF Arrived, AtMost
  <2>3. \A l \in Ids : [lines[l] EXCEPT !.received = Arrived(w)] \in LineRows
    <3>. HIDE DEF Arrived
    <3>. QED  BY <2>1, <2>2 DEF LineRows
  <2>4. lines' = lines
        \/ lines' = [lines EXCEPT ![job[w].line] =
                       [lines[job[w].line] EXCEPT !.received = Arrived(w)]]
    BY DEF CloseCargo
  <2>. QED  BY <2>1, <2>3, <2>4
<1>13. purchases' \in [Ids -> PurchaseStatus \cup {""}]
  BY <1>5 DEF CloseCargo, TypeOK
<1>14. cargos' \in [Ids -> CargoRows]
  <2>1. cargos \in [Ids -> CargoRows]  BY DEF TypeOK
  <2>. DEFINE row(c) == [status |-> IF job[w].close # "" THEN job[w].close ELSE cargos[c].status,
               warehouse |-> IF job[w].to # job[w].cargo.warehouse THEN job[w].to
                             ELSE cargos[c].warehouse]
  <2>2. \A c \in Ids : row(c) \in CargoRows
    <3>. SUFFICES ASSUME NEW c \in Ids PROVE row(c) \in CargoRows  OBVIOUS
    <3>1. cargos[c] \in CargoRows  BY <2>1
    <3>. QED  BY <3>1, <1>5 DEF CargoRows
  <2>3. cargos' = [cargos EXCEPT ![job[w].seen.cargo] = row(job[w].seen.cargo)]
    BY DEF CloseCargo
  <2>. HIDE DEF row
  <2>. QED  BY <2>1, <2>2, <2>3
<1>15. TypeOK'  BY <1>1, <1>10, <1>11, <1>12, <1>13, <1>14, EndsOK DEF TypeOK
<1>16. i \notin raced => \A v \in Workers \ {w} : job[v].item # i
  BY <1>3, Constants DEF Alone, i
<1>17. Working'
  <2>1. \A v \in Workers \ {w} : Holds(v) => Holds(v)'
    <3>. SUFFICES ASSUME NEW v \in Workers \ {w}, Holds(v) PROVE Holds(v)'  OBVIOUS
    <3>1. job'[v] = job[v] /\ raced' = raced  BY <1>1, EndsOK
    <3>2. CASE job[v].item = i
      <4>1. items'[i].cargo = items[i].cargo  BY <1>7, <1>10
      <4>2. i \in raced  BY <3>2, <1>16
      <4>3. job[v].seen.received \in Nat  BY DEF TypeOK, Jobs, ItemRows
      <4>4. job[v].seen.received =< booked'[i]
        <5>1. job[v].seen.received =< booked[i]  BY <3>2 DEF Holds
        <5>2. job[w].units \in Nat /\ booked[i] \in Nat  BY <1>5, <1>6
        <5>. QED  BY <5>1, <5>2, <4>3, <1>11
      <4>. QED  BY <3>1, <3>2, <4>1, <4>2, <4>4 DEF Holds, Packed
    <3>3. CASE job[v].item # i
      <4>1. /\ items'[job[v].item] = items[job[v].item]
            /\ booked'[job[v].item] = booked[job[v].item]
        BY <3>3, <1>10, <1>11 DEF Holds
      <4>. QED  BY <3>1, <4>1 DEF Holds, Packed
    <3>. QED  BY <3>2, <3>3
  <2>2. "idle" \notin Receiving \cup {"split"}  BY DEF Receiving
  <2>. QED  BY <1>1, EndsOK, <2>1, <2>2 DEF Working
<1>18. Unbooked'
  <2>1. items'[i].cargo # 0  BY <1>3, <1>7, <1>10 DEF Holds, Packed, i
  <2>. QED  BY <2>1, <1>10, <1>11 DEF Unbooked, Packed
<1>19. got =< booked[i] + job[w].units
  <2>1. job[w].seen.received =< booked[i]  BY <1>3 DEF Holds, i
  <2>2. job[w].seen.received \in Nat /\ job[w].units \in Nat /\ booked[i] \in Nat  BY <1>5, <1>6
  <2>. QED  BY <2>1, <2>2 DEF got
<1>20. CountedIsBooked'
  BY <1>7, <1>10, <1>11, <1>19 DEF CountedIsBooked
<1>21. OnlyRacesOverbook'
  <2>1. i \notin raced => booked[i] + job[w].units = got /\ got =< items[i].quantity
    <3>1. i \notin raced => job[w].seen = items[i]  BY <1>3 DEF Holds, i
    <3>2. i \notin raced => booked[i] = items[i].received  BY <1>3 DEF OnlyRacesOverbook
    <3>. QED  BY <3>1, <3>2, <1>3 DEF got
  <2>2. raced' = raced  BY <1>1, EndsOK
  <2>3. \A j \in Ids \ raced : items'[j].received = booked'[j] /\ booked'[j] =< items'[j].quantity
    <3>. SUFFICES ASSUME NEW j \in Ids \ raced
                  PROVE items'[j].received = booked'[j] /\ booked'[j] =< items'[j].quantity
      OBVIOUS
    <3>1. CASE j = i  BY <3>1, <2>1, <1>7, <1>10, <1>11
    <3>2. CASE j # i  BY <3>2, <1>10, <1>11 DEF OnlyRacesOverbook
    <3>. QED  BY <3>1, <3>2
  <2>. QED  BY <2>2, <2>3 DEF OnlyRacesOverbook
<1>. QED  BY <1>1, <1>15, <1>17, <1>18, <1>20, <1>21, EndsOK

-----------------------------------------------------------------------------
(* The pages that change rows at once hold no item.                           *)
LEMMA AtOnceOK ==
  ASSUME IInv, AtOnce
  PROVE  /\ UNCHANGED <<locks, pc, job, raced>> /\ served' \in 0..MaxRequests
<1>1. served \in 0..MaxRequests  BY DEF IInv, TypeOK
<1>2. served < MaxRequests /\ served' = served + 1 /\ UNCHANGED <<locks, pc, job, raced>>
  BY DEF AtOnce
<1>. QED  BY <1>1, <1>2, ProcurementAssumption

LEMMA EditElsewhere ==
  ASSUME IInv, AtOnce, UNCHANGED <<items, booked>>,
         purchases' \in [Ids -> PurchaseStatus \cup {""}],
         lines' \in [Ids -> LineRows], cargos' \in [Ids -> CargoRows]
  PROVE  IInv'
<1>. USE DEF IInv
<1>1. UNCHANGED <<locks, pc, job, raced>> /\ served' \in 0..MaxRequests  BY AtOnceOK
<1>2. TypeOK'  BY <1>1 DEF TypeOK
<1>3. Working' /\ Alone' /\ Unbooked'
  BY <1>1 DEF Working, Alone, Unbooked, Holds, Packed
<1>. QED  BY <1>1, <1>2, <1>3 DEF CountedIsBooked, OnlyRacesOverbook

LEMMA AddItemInv ==
  ASSUME IInv, NEW c \in Ids, NEW l \in {0} \cup Ids, NEW q \in Units, AddItem(c, l, q)
  PROVE  IInv'
<1>. USE DEF IInv
<1>. DEFINE new == [cargo |-> c, line |-> l, quantity |-> q, received |-> 0]
<1>1. PICK k \in Fresh(Packed) : items' = [items EXCEPT ![k] = new]  BY DEF AddItem
<1>2. UNCHANGED <<purchases, lines, cargos, booked>> /\ AtOnce  BY DEF AddItem
<1>3. UNCHANGED <<locks, pc, job, raced>> /\ served' \in 0..MaxRequests  BY <1>2, AtOnceOK
<1>4. new \in ItemRows /\ new.received = 0 /\ new.quantity \in Nat /\ new.cargo # 0
  <2>1. c \in 1..MaxRows /\ l \in 0..MaxRows /\ q \in Nat  BY Constants
  <2>. QED  BY <2>1, Constants DEF ItemRows
<1>. HIDE DEF new
<1>5. k \in Ids /\ booked[k] = 0 /\ \A w \in Workers : job[w].item # k  BY FreshOK
<1>6. /\ items' \in [Ids -> ItemRows] /\ items'[k] = new
      /\ \A i \in Ids \ {k} : items'[i] = items[i]
  <2>1. items \in [Ids -> ItemRows]  BY DEF TypeOK
  <2>. QED  BY <2>1, <1>1, <1>4, <1>5
<1>7. TypeOK'  BY <1>2, <1>3, <1>6 DEF TypeOK
<1>8. Working' /\ Alone'
  <2>1. \A w \in Workers : Holds(w) => Holds(w)'
    BY <1>2, <1>3, <1>5, <1>6 DEF Holds, Packed
  <2>. QED  BY <2>1, <1>3 DEF Working, Alone
<1>9. Unbooked'  BY <1>2, <1>4, <1>6 DEF Unbooked, Packed
<1>10. CountedIsBooked' /\ OnlyRacesOverbook'
  BY <1>2, <1>3, <1>4, <1>5, <1>6 DEF CountedIsBooked, OnlyRacesOverbook
<1>. QED  BY <1>7, <1>8, <1>9, <1>10

LEMMA EditInv == IInv /\ Edit => IInv'
<1>. SUFFICES ASSUME IInv, Edit PROVE IInv'  OBVIOUS
<1>0. /\ purchases \in [Ids -> PurchaseStatus \cup {""}] /\ lines \in [Ids -> LineRows]
      /\ cargos \in [Ids -> CargoRows]
  BY DEF IInv, TypeOK
<1>1. CASE \E c \in Ids, l \in {0} \cup Ids, q \in Units : AddItem(c, l, q)
  BY <1>1, AddItemInv
<1>2. ASSUME NEW c \in Ids, NEW s \in CargoForm, NEW h \in Warehouses \cup {NoWarehouse},
             EditCargo(c, s, h)
      PROVE  IInv'
  <2>1. [status |-> s, warehouse |-> h] \in CargoRows
    BY ProcurementAssumption DEF CargoRows, CargoStatus
  <2>2. cargos' \in [Ids -> CargoRows]  BY <1>0, <1>2, <2>1 DEF EditCargo
  <2>3. UNCHANGED <<purchases, lines, items, booked>> /\ AtOnce  BY <1>2 DEF EditCargo
  <2>. QED  BY <1>0, <2>2, <2>3, EditElsewhere
<1>3. ASSUME NEW p \in Ids, NEW o \in Orders \cup {NoOrder}, NEW q \in Units, AddLine(p, o, q)
      PROVE  IInv'
  <2>1. [purchase |-> p, order |-> o, quantity |-> q, received |-> 0] \in LineRows
    BY Constants DEF LineRows
  <2>2. lines' \in [Ids -> LineRows]  BY <1>0, <1>3, <2>1 DEF AddLine
  <2>3. UNCHANGED <<purchases, cargos, items, booked>> /\ AtOnce  BY <1>3 DEF AddLine
  <2>. QED  BY <1>0, <2>2, <2>3, EditElsewhere
<1>4. ASSUME NEW p \in Ids, NEW s \in PurchaseForm, EditPurchase(p, s)
      PROVE  IInv'
  <2>1. purchases' \in [Ids -> PurchaseStatus \cup {""}]
    BY <1>0, <1>4, ProcurementAssumption DEF EditPurchase, PurchaseStatus
  <2>2. UNCHANGED <<lines, cargos, items, booked>> /\ AtOnce  BY <1>4 DEF EditPurchase
  <2>. QED  BY <1>0, <2>1, <2>2, EditElsewhere
<1>. QED  BY <1>1, <1>2, <1>3, <1>4 DEF Edit

-----------------------------------------------------------------------------
(* A request begins with a job that fits what it has read.                    *)
LEMMA AskInv ==
  ASSUME IInv, NEW w \in Workers, Begins(w), Ask(w)
  PROVE  IInv'
<1>. USE DEF IInv
<1>0. PICK q \in Units :
        \/ \E i \in Ids : BeginSplit(w, i, q) \/ \E h \in Warehouses : Receive(w, i, q, h)
        \/ \E l \in Ids, s \in CargoForm, h \in Warehouses : BeginLoad(w, l, q, s, h)
        \/ \E o \in Orders, s \in PurchaseForm : BeginPurchase(w, o, q, s)
  BY DEF Ask
<1>q. q \in Nat \ {0}  BY Constants
<1>1. ASSUME NEW i \in Ids, Packed(i)
      PROVE  /\ items[i] \in ItemRows /\ items[i].cargo \in Ids
             /\ items[i].quantity \in Nat /\ items[i].received \in Nat
  <2>1. items[i] \in ItemRows  BY DEF TypeOK
  <2>2. items[i].cargo \in 0..MaxRows /\ items[i].cargo # 0  BY <2>1, <1>1 DEF ItemRows, Packed
  <2>. QED  BY <2>1, <2>2, Constants DEF ItemRows
<1>2. ASSUME NEW i \in Ids, BeginSplit(w, i, q)
      PROVE  IInv'
  <2>1. Packed(i) /\ q < Remaining(items[i]) /\ Starts(w, "split", OnItem(i, q, NoWarehouse))
    BY <1>2 DEF BeginSplit, Splits
  <2>2. items[i].received + q < items[i].quantity
    BY <2>1, <1>1, <1>q DEF Remaining, NonNeg
  <2>3. OnItem(i, q, NoWarehouse) \in Jobs  BY <2>1, <1>1, <1>q, OnItemOK
  <2>. DEFINE j == OnItem(i, q, NoWarehouse)
  <2>4. j.item = i /\ j.seen = items[i] /\ j.units = q  BY DEF OnItem
  <2>5. "split" \in Steps  BY DEF Steps
  <2>. HIDE DEF j
  <2>. QED  BY <2>1, <2>2, <2>3, <2>4, <2>5, StartsOnItem DEF j
<1>3. ASSUME NEW i \in Ids, NEW h \in Warehouses, Receive(w, i, q, h)
      PROVE  IInv'
  <2>1. Packed(i) /\ q =< Remaining(items[i])  BY <1>3 DEF Receive
  <2>2. items[i].received + q =< items[i].quantity
    BY <2>1, <1>1, <1>q DEF Remaining, NonNeg
  <2>3. OnItem(i, q, h) \in Jobs  BY <2>1, <1>1, <1>q, OnItemOK
  <2>4. PICK j \in {OnItem(i, q, h), WithLine(OnItem(i, q, h), items[i].line)},
             step \in {"countItem", "redirect"} :
          /\ Starts(w, step, j)
          /\ j # OnItem(i, q, h) => items[i].line # 0
    BY <1>3 DEF Receive
  <2>5. items[i].line # 0 => items[i].line \in Ids
    BY <2>1, <1>1, Constants DEF ItemRows
  <2>6. j \in Jobs  BY <2>3, <2>4, <2>5, WithLineOK
  <2>7. j.item = i /\ j.seen = items[i] /\ j.units = q
    <3>1. CASE j = OnItem(i, q, h)  BY <3>1 DEF OnItem
    <3>2. CASE j # OnItem(i, q, h)
      <4>1. j = WithLine(OnItem(i, q, h), items[i].line)  BY <2>4, <3>2
      <4>2. OnItem(i, q, h).item = i /\ OnItem(i, q, h).seen = items[i]
            /\ OnItem(i, q, h).units = q
        BY DEF OnItem
      <4>. QED  BY <2>3, <4>1, <4>2 DEF WithLine, Jobs
    <3>. QED  BY <3>1, <3>2
  <2>8. step \in Steps /\ step \in Receiving  BY <2>4 DEF Steps, Receiving
  <2>. QED  BY <2>1, <2>2, <2>4, <2>6, <2>7, <2>8, StartsOnItem
<1>4. ASSUME NEW l \in Ids, NEW s \in CargoForm, NEW h \in Warehouses, BeginLoad(w, l, q, s, h)
      PROVE  IInv'
  <2>. DEFINE j == [[WithLine(NoJob, l) EXCEPT !.units = q]
                      EXCEPT !.cargo = [status |-> s, warehouse |-> h]]
  <2>1. Starts(w, "load", j)  BY <1>4 DEF BeginLoad
  <2>2. WithLine(NoJob, l) \in Jobs  BY NoJobOK, WithLineOK
  <2>3. WithLine(NoJob, l).item = 0  BY DEF WithLine, NoJob
  <2>4. [status |-> s, warehouse |-> h] \in CargoRows
    BY ProcurementAssumption DEF CargoRows, CargoStatus
  <2>5. j \in Jobs /\ j.item = 0  BY <2>2, <2>3, <2>4, <1>q DEF Jobs
  <2>6. "load" \in Steps /\ "load" \notin Receiving \cup {"split"}  BY DEF Steps, Receiving
  <2>. HIDE DEF j
  <2>. QED  BY <2>1, <2>5, <2>6, StartsElsewhere
<1>5. ASSUME NEW o \in Orders, NEW s \in PurchaseForm, BeginPurchase(w, o, q, s)
      PROVE  IInv'
  <2>. DEFINE j == [[[NoJob EXCEPT !.order = o] EXCEPT !.units = q] EXCEPT !.mark = s]
  <2>1. j \in Jobs /\ j.item = 0
    BY NoJobOK, NoJobItem, <1>q, ProcurementAssumption DEF Jobs, PurchaseStatus
  <2>2. \/ Starts(w, "insert", j)
        \/ \E l \in Ids : Starts(w, "savePurchase", WithLine(j, l))
    BY <1>5 DEF BeginPurchase, Latest, Live
  <2>. HIDE DEF j
  <2>4. \A l \in Ids : WithLine(j, l) \in Jobs /\ WithLine(j, l).item = 0
    BY <2>1, WithLineOK DEF WithLine, Jobs
  <2>5. /\ "insert" \in Steps /\ "insert" \notin Receiving \cup {"split"}
        /\ "savePurchase" \in Steps /\ "savePurchase" \notin Receiving \cup {"split"}
    BY DEF Steps, Receiving
  <2>. QED  BY <2>1, <2>2, <2>4, <2>5, StartsElsewhere
<1>. QED  BY <1>0, <1>2, <1>3, <1>4, <1>5

-----------------------------------------------------------------------------
(* Every row that a step locks is a row.                                      *)
LEMMA WantsOK ==
  ASSUME TypeOK, NEW w \in Workers,
         pc[w] \in {"redirect", "countItem", "countLine", "mark", "book", "savePurchase"}
  PROVE  Wants(w) \in Rows
<1>1. job[w] \in Jobs  BY DEF TypeOK
<1>2. /\ job[w].item \in 0..MaxRows /\ job[w].line \in 0..MaxRows
      /\ job[w].seen.cargo \in 0..MaxRows /\ job[w].bought.purchase \in 0..MaxRows
      /\ job[w].to \in Warehouses \cup {NoWarehouse}
  BY <1>1 DEF Jobs, ItemRows, LineRows
<1>4. /\ CargoRow(job[w].seen.cargo) \in Rows /\ ItemRow(job[w].item) \in Rows
      /\ LineRow(job[w].line) \in Rows /\ PurchaseRow(job[w].bought.purchase) \in Rows
      /\ StockRows(job[w].to) \in Rows
  BY <1>2 DEF CargoRow, ItemRow, LineRow, PurchaseRow, StockRows, Rows
<1>. QED  BY <1>4 DEF Wants

(* The steps in the middle of a request.                                      *)
LEMMA MiddleInv ==
  ASSUME IInv, NEW w \in Workers,
         \/ Redirect(w) \/ CountItem(w) \/ CountLine(w) \/ MarkPurchase(w)
         \/ Book(w) \/ SavePurchase(w)
  PROVE  IInv'
<1>. USE DEF IInv
<1>1. Wants(w) \in Rows
  BY WantsOK DEF Redirect, CountItem, CountLine, MarkPurchase, Book, SavePurchase
<1>2. job \in [Workers -> Jobs] /\ job[w] \in Jobs  BY DEF TypeOK
<1>3. {"redirect", "countItem", "countLine", "mark", "book", "close"} \subseteq Steps
      /\ {"savePurchase", "saveLine"} \subseteq Steps
  BY DEF Steps
<1>4. CASE Redirect(w)
  BY <1>1, <1>2, <1>3, <1>4, WritesInv DEF Redirect, Receiving
<1>5. CASE MarkPurchase(w)
  BY <1>1, <1>2, <1>3, <1>5, WritesInv DEF MarkPurchase, Receiving
<1>6. CASE SavePurchase(w)
  BY <1>1, <1>2, <1>3, <1>6, WritesInv DEF SavePurchase, Receiving
<1>7. CASE CountItem(w)
  <2>1. PICK step \in {"book", "countLine"} : Writes(w, step)
    BY <1>7 DEF CountItem
  <2>2. pc[w] = "countItem"  BY <1>7 DEF CountItem
  <2>3. CASE job' = job
    BY <1>1, <1>2, <1>3, <2>1, <2>2, <2>3, WritesInv DEF Receiving
  <2>4. CASE job' # job
    <3>. DEFINE j == WithLine(job[w], job[w].seen.line)
    <3>1. job' = [job EXCEPT ![w] = j] /\ job[w].seen.line # 0
      BY <1>7, <2>4 DEF CountItem
    <3>2. job[w].seen.line \in Ids
      <4>1. job[w].seen.line \in 0..MaxRows  BY <1>2 DEF Jobs, ItemRows
      <4>2. job[w].seen.line # 0  BY <3>1
      <4>. QED  BY <4>1, <4>2, Constants
    <3>3. j \in Jobs  BY <1>2, <3>2, WithLineOK
    <3>4. j.item = job[w].item /\ j.seen = job[w].seen /\ j.units = job[w].units
      BY <1>2 DEF WithLine, Jobs
    <3>. HIDE DEF j
    <3>5. /\ job' \in [Workers -> Jobs] /\ job'[w] = j
          /\ \A v \in Workers \ {w} : job'[v] = job[v]
      BY <1>2, <3>1, <3>3
    <3>. QED  BY <1>1, <1>3, <2>1, <2>2, <3>4, <3>5, WritesInv DEF Receiving
  <2>. QED  BY <2>3, <2>4
<1>8. CASE CountLine(w)
  <2>1. PICK step \in {"book", "mark"} : Writes(w, step)
    BY <1>8 DEF CountLine
  <2>2. pc[w] = "countLine"  BY <1>8 DEF CountLine
  <2>3. CASE job' = job
    BY <1>1, <1>2, <1>3, <2>1, <2>2, <2>3, WritesInv DEF Receiving
  <2>4. CASE job' # job
    <3>. DEFINE mark == Progress(w, job[w].bought.purchase)
                j == [job[w] EXCEPT !.mark = mark]
    <3>1. job' = [job EXCEPT ![w] = j] /\ mark # purchases[job[w].bought.purchase]
      BY <1>8, <2>4 DEF CountLine
    <3>2. mark \in {"received", "partial"}  BY <3>1 DEF Progress
    <3>. HIDE DEF mark
    <3>3. /\ j \in Jobs /\ j.item = job[w].item /\ j.seen = job[w].seen
          /\ j.units = job[w].units
      BY <1>2, <3>2 DEF Jobs, PurchaseStatus
    <3>. HIDE DEF j
    <3>5. /\ job' \in [Workers -> Jobs] /\ job'[w] = j
          /\ \A v \in Workers \ {w} : job'[v] = job[v]
      BY <1>2, <3>1, <3>3
    <3>. QED  BY <1>1, <1>3, <2>1, <2>2, <3>3, <3>5, WritesInv DEF Receiving
  <2>. QED  BY <2>3, <2>4
<1>9. CASE Book(w)
  <2>. DEFINE close == IF Rest(w) = job[w].cargo.status THEN "" ELSE Rest(w)
              j == [job[w] EXCEPT !.close = close]
  <2>1. Writes(w, "close") /\ pc[w] = "book" /\ job' = [job EXCEPT ![w] = j]
    BY <1>9 DEF Book
  <2>2. close \in CargoStatus \cup {""}  BY DEF Rest, CargoStatus
  <2>. HIDE DEF close
  <2>3. /\ j \in Jobs /\ j.item = job[w].item /\ j.seen = job[w].seen
        /\ j.units = job[w].units
    BY <1>2, <2>2 DEF Jobs
  <2>. HIDE DEF j
  <2>5. /\ job' \in [Workers -> Jobs] /\ job'[w] = j
        /\ \A v \in Workers \ {w} : job'[v] = job[v]
    BY <1>2, <2>1, <2>3
  <2>. QED  BY <1>1, <1>3, <2>1, <2>3, <2>5, WritesInv DEF Receiving
<1>. QED  BY <1>4, <1>5, <1>6, <1>7, <1>8, <1>9

(* The ends of a request that leave the cargo items as they are.              *)
LEMMA SavesInv ==
  ASSUME IInv, NEW w \in Workers, InsertPurchase(w) \/ SaveLine(w) \/ Abort(w)
  PROVE  IInv'
<1>0. /\ purchases \in [Ids -> PurchaseStatus \cup {""}] /\ lines \in [Ids -> LineRows]
      /\ cargos \in [Ids -> CargoRows]
  BY DEF IInv, TypeOK
<1>1. job[w] \in Jobs  BY DEF IInv, TypeOK
<1>2. /\ job[w].mark \in PurchaseStatus \cup {""} /\ job[w].units \in Nat
      /\ job[w].order \in Orders \cup {NoOrder} /\ job[w].bought \in LineRows
  BY <1>1 DEF Jobs
<1>3. CASE InsertPurchase(w)
  <2>1. PICK p \in Fresh(Bought), l \in Fresh(Listed) :
          /\ purchases' = [purchases EXCEPT ![p] = job[w].mark]
          /\ lines' = [lines EXCEPT ![l] = [purchase |-> p, order |-> job[w].order,
                                            quantity |-> job[w].units, received |-> 0]]
    BY <1>3 DEF InsertPurchase
  <2>2. p \in 0..MaxRows  BY Constants DEF Fresh
  <2>3. [purchase |-> p, order |-> job[w].order,
         quantity |-> job[w].units, received |-> 0] \in LineRows
    BY <1>2, <2>2 DEF LineRows
  <2>4. purchases' \in [Ids -> PurchaseStatus \cup {""}] /\ lines' \in [Ids -> LineRows]
    BY <1>0, <1>2, <2>1, <2>3
  <2>5. UNCHANGED <<cargos, items, booked>> /\ Ends(w)
    BY <1>3 DEF InsertPurchase, Commits
  <2>. QED  BY <1>0, <2>4, <2>5, EndsElsewhere
<1>4. CASE SaveLine(w)
  <2>1. [job[w].bought EXCEPT !.quantity = job[w].units] \in LineRows
    BY <1>2 DEF LineRows
  <2>2. purchases' \in [Ids -> PurchaseStatus \cup {""}] /\ lines' \in [Ids -> LineRows]
    BY <1>0, <1>2, <1>4, <2>1 DEF SaveLine
  <2>3. UNCHANGED <<cargos, items, booked>> /\ Ends(w)
    BY <1>4 DEF SaveLine, Commits
  <2>. QED  BY <1>0, <2>2, <2>3, EndsElsewhere
<1>5. CASE Abort(w)
  <2>1. Ends(w) /\ UNCHANGED <<purchases, lines, cargos, items, booked>>
    BY <1>5 DEF Abort, rows
  <2>. QED  BY <1>0, <2>1, EndsElsewhere
<1>. QED  BY <1>3, <1>4, <1>5

LEMMA NextInv == IInv /\ [Next]_vars => IInv'
<1>. SUFFICES ASSUME IInv, [Next]_vars PROVE IInv'  OBVIOUS
<1>1. CASE Edit  BY <1>1, EditInv
<1>2. ASSUME NEW w \in Workers, Proceed(w) PROVE IInv'
  <2>1. CASE \/ Redirect(w) \/ CountItem(w) \/ CountLine(w) \/ MarkPurchase(w)
             \/ Book(w) \/ SavePurchase(w)
    BY <2>1, MiddleInv
  <2>2. CASE InsertPurchase(w) \/ SaveLine(w) \/ Abort(w)  BY <2>2, SavesInv
  <2>3. CASE CloseCargo(w)  BY <2>3, CloseInv
  <2>4. CASE Split(w)  BY <2>4, SplitInv
  <2>5. CASE Load(w)  BY <2>5, LoadInv
  <2>. QED  BY <1>2, <2>1, <2>2, <2>3, <2>4, <2>5 DEF Proceed
<1>3. ASSUME NEW w \in Workers, Begins(w), Ask(w) PROVE IInv'
  BY <1>3, AskInv
<1>4. CASE UNCHANGED vars
  <2>1. TypeOK'  BY <1>4 DEF IInv, TypeOK, vars, rows
  <2>2. Working' /\ Alone'
    BY <1>4 DEF IInv, Working, Alone, Holds, Packed, vars, rows
  <2>3. Unbooked' /\ CountedIsBooked' /\ OnlyRacesOverbook'
    BY <1>4 DEF IInv, Unbooked, Packed, CountedIsBooked, OnlyRacesOverbook, vars, rows
  <2>. QED  BY <2>1, <2>2, <2>3 DEF IInv
<1>. QED  BY <1>1, <1>2, <1>3, <1>4 DEF Next

LEMMA InvHolds == Spec => []IInv
<1>. QED  BY InitInv, NextInv, PTL DEF Spec

-----------------------------------------------------------------------------
(* Requests work on rows that are there, and lock rows of the five tables.    *)
THEOREM TypeCorrect == Spec => []TypeOK
<1>1. IInv => TypeOK  BY DEF IInv
<1>. QED  BY <1>1, InvHolds, PTL

(* receive_cargo_item never shows more units of an item than it put in stock, *)
(* whatever receipts overtake each other.                                     *)
THEOREM CounterInStock == Spec => []CountedIsBooked
<1>1. IInv => CountedIsBooked  BY DEF IInv
<1>. QED  BY <1>1, InvHolds, PTL

(* An item is put in stock twice only when two requests had it at one time:   *)
(* the row lock that receive_cargo_item and split_cargo do not take before    *)
(* they read is the only thing that is missing.                               *)
THEOREM OverbookedByRaces == Spec => []OnlyRacesOverbook
<1>1. IInv => OnlyRacesOverbook  BY DEF IInv
<1>. QED  BY <1>1, InvHolds, PTL

-----------------------------------------------------------------------------
(* Sums.  The library folds a function over a set in an order that CHOOSE      *)
(* picks; the sum does not depend on it.                                      *)
PicksAny(g, f, S) ==
  /\ g \in [SUBSET S -> Int]
  /\ g[{}] = 0
  /\ \A T \in SUBSET S : \A x \in T : g[T] = f[x] + g[T \ {x}]

PicksOne(g, f, S) ==
  g = [s \in SUBSET S |-> IF s = {} THEN 0
                          ELSE f[CHOOSE x \in s : TRUE] + g[s \ {CHOOSE x \in s : TRUE}]]

(* The sum as the library defines it.                                        *)
LEMMA SumIsRecursive ==
  ASSUME NEW f, NEW S
  PROVE  SumFunctionOnSet(f, S) = (CHOOSE g : PicksOne(g, f, S))[S]
BY DEF SumFunctionOnSet, FoldFunctionOnSet, MapThenFoldSet, PicksOne

(* A family of subsets of a finite set has a member that is smallest.        *)
LEMMA SmallestSubset ==
  ASSUME NEW S, IsFiniteSet(S), NEW B, B \subseteq SUBSET S, B # {}
  PROVE  \E T \in B : \A x \in T : T \ {x} \notin B
<1>1. B \subseteq FiniteSubsetsOf(S)
  BY FS_Subset DEF FiniteSubsetsOf
<1>2. PICK T \in B : \A U \in B : <<U, T>> \notin StrictSubsetOrdering(S)
  <2>1. IsWellFoundedOn(StrictSubsetOrdering(S), FiniteSubsetsOf(S))
    BY FS_StrictSubsetOrderingWellFounded
  <2> QED BY <1>1, <2>1, WFMin
<1>3. \A x \in T : T \ {x} \notin B
  BY <1>2 DEF StrictSubsetOrdering
<1> QED BY <1>3

(* There is a function on the subsets that may take any element first.       *)
LEMMA PicksAnyExists ==
  ASSUME NEW f, NEW S, IsFiniteSet(S), \A x \in S : f[x] \in Int
  PROVE  \E g : PicksAny(g, f, S)
<1> DEFINE B == {T \in SUBSET S : ~ \E g : PicksAny(g, f, T)}
<1> SUFFICES ASSUME B # {} PROVE FALSE
  OBVIOUS
<1>1. PICK T \in B : \A x \in T : T \ {x} \notin B
  BY SmallestSubset
<1>2. T # {}
  <2>1. PicksAny([s \in {{}} |-> 0], f, {})
    BY DEF PicksAny
  <2> QED
    BY <1>1, <2>1
<1>3. PICK y \in T : TRUE
  BY <1>2
<1>4. PICK g : PicksAny(g, f, T \ {y})
  BY <1>1, <1>3
<1> DEFINE h == [s \in SUBSET T |-> IF y \in s THEN f[y] + g[s \ {y}] ELSE g[s]]
<1>5. f[y] \in Int
  BY <1>3
<1>6. \A s \in SUBSET T : s \ {y} \in SUBSET (T \ {y}) /\ (y \notin s => s \in SUBSET (T \ {y}))
  OBVIOUS
<1>7. h \in [SUBSET T -> Int]
  BY <1>4, <1>5, <1>6 DEF PicksAny
<1>8. h[{}] = 0
  BY <1>4 DEF PicksAny
<1>9. ASSUME NEW s \in SUBSET T, NEW x \in s
      PROVE  h[s] = f[x] + h[s \ {x}]
  <2>1. CASE x = y
    BY <2>1, <1>5
  <2>2. CASE x # y /\ y \in s
    <3>1. (s \ {x}) \ {y} = (s \ {y}) \ {x} /\ x \in s \ {y}
      BY <2>2
    <3>2. g[s \ {y}] = f[x] + g[(s \ {y}) \ {x}]
      BY <1>4, <1>6, <3>1 DEF PicksAny
    <3>3. g[(s \ {y}) \ {x}] \in Int /\ f[x] \in Int
      BY <1>4 DEF PicksAny
    <3>4. h[s] = f[y] + g[s \ {y}] /\ h[s \ {x}] = f[y] + g[(s \ {y}) \ {x}]
      BY <2>2, <3>1
    <3> QED BY <3>2, <3>3, <3>4, <1>5
  <2>3. CASE y \notin s
    BY <2>3, <1>4, <1>6 DEF PicksAny
  <2> QED BY <2>1, <2>2, <2>3
<1>10. PicksAny(h, f, T)
  BY <1>7, <1>8, <1>9 DEF PicksAny
<1> QED BY <1>10

(* The sum is that function.                                                 *)
LEMMA SumIsAny ==
  ASSUME NEW f, NEW S, IsFiniteSet(S), NEW g, PicksAny(g, f, S)
  PROVE  SumFunctionOnSet(f, S) = g[S]
<1>1. PicksOne(g, f, S)
  BY DEF PicksAny, PicksOne
<1> DEFINE h == CHOOSE h : PicksOne(h, f, S)
<1>2. PicksOne(h, f, S)
  BY <1>1
<1> HIDE DEF h
<1> DEFINE B == {T \in SUBSET S : h[T] # g[T]}
<1>3. B = {}
  <2> SUFFICES ASSUME B # {} PROVE FALSE
    OBVIOUS
  <2>1. PICK T \in B : \A x \in T : T \ {x} \notin B
    BY SmallestSubset
  <2>2. T # {}
    BY <1>1, <1>2 DEF PicksOne
  <2>3. PICK x \in T : x = CHOOSE y \in T : TRUE
    BY <2>2
  <2>4. h[T \ {x}] = g[T \ {x}]
    BY <2>1
  <2>5. h[T] = f[x] + h[T \ {x}]
    BY <1>2, <2>2, <2>3 DEF PicksOne
  <2>6. g[T] = f[x] + g[T \ {x}]
    BY <1>1, <2>2, <2>3 DEF PicksOne
  <2> QED BY <2>4, <2>5, <2>6
<1> QED BY <1>3, SumIsRecursive DEF h

(* The sum over the empty set, and what any element adds.                    *)
LEMMA SumRules ==
  ASSUME NEW f, NEW S, IsFiniteSet(S), \A x \in S : f[x] \in Int
  PROVE  /\ SumFunctionOnSet(f, S) \in Int
         /\ S = {} => SumFunctionOnSet(f, S) = 0
         /\ \A x \in S : SumFunctionOnSet(f, S) = f[x] + SumFunctionOnSet(f, S \ {x})
<1>1. PICK g : PicksAny(g, f, S)
  BY PicksAnyExists
<1>2. SumFunctionOnSet(f, S) = g[S]
  BY <1>1, SumIsAny
<1>3. ASSUME NEW x \in S
      PROVE  SumFunctionOnSet(f, S \ {x}) = g[S \ {x}]
  <2> DEFINE T == S \ {x}
             h == [U \in SUBSET T |-> g[U]]
  <2>1. IsFiniteSet(T)
    BY FS_Subset
  <2>2. PicksAny(h, f, T)
    BY <1>1 DEF PicksAny
  <2>3. SumFunctionOnSet(f, T) = h[T]
    BY <2>1, <2>2, SumIsAny
  <2> QED
    BY <2>3
<1> QED
  BY <1>1, <1>2, <1>3 DEF PicksAny

(* A sum depends on its terms only.                                          *)
LEMMA SumSame ==
  ASSUME NEW S, IsFiniteSet(S), NEW f, NEW g,
         \A x \in S : f[x] \in Int /\ g[x] = f[x]
  PROVE  SumFunctionOnSet(g, S) = SumFunctionOnSet(f, S)
<1>1. PICK F : PicksAny(F, f, S)
  BY PicksAnyExists
<1>2. PicksAny(F, g, S)
  BY <1>1 DEF PicksAny
<1> QED
  BY <1>1, <1>2, SumIsAny

(* One term that changes.                                                    *)
LEMMA SumChange ==
  ASSUME NEW S, IsFiniteSet(S), NEW y \in S, NEW f, NEW g,
         \A x \in S : f[x] \in Int /\ g[x] \in Int,
         \A x \in S \ {y} : g[x] = f[x]
  PROVE  /\ SumFunctionOnSet(f, S) \in Int
         /\ SumFunctionOnSet(g, S) = SumFunctionOnSet(f, S) + (g[y] - f[y])
<1>1. IsFiniteSet(S \ {y})
  BY FS_RemoveElement
<1>2. SumFunctionOnSet(f, S) = f[y] + SumFunctionOnSet(f, S \ {y})
      /\ SumFunctionOnSet(f, S) \in Int
  BY SumRules
<1>3. SumFunctionOnSet(g, S) = g[y] + SumFunctionOnSet(g, S \ {y})
  BY SumRules
<1>4. SumFunctionOnSet(g, S \ {y}) = SumFunctionOnSet(f, S \ {y})
  BY <1>1, SumSame
<1>5. SumFunctionOnSet(f, S \ {y}) \in Int
  BY <1>1, SumRules
<1> QED
  BY <1>2, <1>3, <1>4, <1>5

(* A sum of natural numbers that grow, over a set that grows.                *)
LEMMA SumGrows ==
  ASSUME NEW S, NEW T, S \subseteq T, IsFiniteSet(T), NEW f, NEW g,
         \A x \in T : f[x] \in Nat /\ g[x] \in Nat /\ f[x] =< g[x]
  PROVE  SumFunctionOnSet(f, S) =< SumFunctionOnSet(g, T)
<1> DEFINE Down(U) == SumFunctionOnSet(f, U \cap S)
           Up(U) == SumFunctionOnSet(g, U)
           B == {U \in SUBSET T : ~ (Down(U) =< Up(U))}
<1>1. ASSUME NEW U \in SUBSET T
      PROVE  /\ IsFiniteSet(U) /\ IsFiniteSet(U \cap S)
             /\ \A x \in U : f[x] \in Nat /\ g[x] \in Nat /\ f[x] =< g[x]
             /\ Down(U) \in Int /\ Up(U) \in Int
  <2>1. IsFiniteSet(U) /\ IsFiniteSet(U \cap S)
    BY FS_Subset
  <2>2. \A x \in U : f[x] \in Int /\ g[x] \in Int
    OBVIOUS
  <2> QED
    BY <2>1, <2>2, SumRules
<1>2. B = {}
  <2> SUFFICES ASSUME B # {} PROVE FALSE
    OBVIOUS
  <2>1. PICK U \in B : \A x \in U : U \ {x} \notin B
    BY SmallestSubset
  <2>2. CASE U = {}
    <3>1. U \cap S = {} /\ U \in SUBSET T
      BY <2>2
    <3>2. Down(U) = 0 /\ Up(U) = 0
      BY <1>1, <2>2, <3>1, SumRules
    <3> QED
      BY <2>1, <3>2
  <2>3. CASE U # {}
    <3>1. PICK x \in U : TRUE
      BY <2>3
    <3> DEFINE V == U \ {x}
    <3>2. V \in SUBSET T /\ U \in SUBSET T
      OBVIOUS
    <3>3. Down(V) =< Up(V) /\ Down(V) \in Int /\ Up(V) \in Int
      BY <1>1, <2>1, <3>2
    <3>4. Up(U) = g[x] + Up(V)
      <4>1. \A y \in U : g[y] \in Int
        BY <1>1, <3>2
      <4> QED
        BY <1>1, <3>2, <4>1, SumRules
    <3>5. Down(U) = Down(V) \/ Down(U) = f[x] + Down(V)
      <4>1. CASE x \in S
        <5>1. x \in U \cap S /\ (U \cap S) \ {x} = V \cap S
          BY <4>1
        <5>2. \A y \in U \cap S : f[y] \in Int
          BY <1>1, <3>2
        <5>3. SumFunctionOnSet(f, U \cap S)
                = f[x] + SumFunctionOnSet(f, (U \cap S) \ {x})
          BY <1>1, <3>2, <5>1, <5>2, SumRules
        <5> QED
          BY <5>1, <5>3
      <4>2. CASE x \notin S
        <5>1. U \cap S = V \cap S
          BY <4>2
        <5> QED
          BY <5>1
      <4> QED
        BY <4>1, <4>2
    <3>6. f[x] \in Nat /\ g[x] \in Nat /\ f[x] =< g[x]
      BY <1>1, <3>2
    <3> HIDE DEF Down, Up, V
    <3>7. Down(U) =< Up(U)
      BY <3>3, <3>4, <3>5, <3>6
    <3> QED
      BY <2>1, <3>7
  <2> QED
    BY <2>2, <2>3
<1>3. Down(T) =< Up(T)
  BY <1>2
<1>4. T \cap S = S
  OBVIOUS
<1> QED
  BY <1>3, <1>4

-----------------------------------------------------------------------------
(* The units that the cargoes of a purchase line brought.                     *)
Brought(l) == SumFunctionOnSet(booked, {i \in Ids : items[i].line = l})

(* What a request has read of a purchase line is not ahead of the cargoes,    *)
(* and the line that it has read is the one that its cargo item is of.        *)
Fits(j) ==
  /\ j.line # 0 => j.line \in Ids /\ j.bought.received =< Brought(j.line)
  /\ j.item # 0 => /\ j.item \in Ids /\ Packed(j.item)
                   /\ j.seen.line = items[j.item].line
                   /\ j.line # 0 => j.line = j.seen.line

(* A row that is not there brings units of no line.                           *)
Bare == \A i \in Ids : ~Packed(i) => items[i].line = 0

LInv == LineNeverAhead /\ Bare /\ \A w \in Workers : Fits(job[w])

LEMMA IdsFinite == IsFiniteSet(Ids)
BY FS_Interval, Constants

LEMMA BroughtInt ==
  ASSUME TypeOK, NEW l
  PROVE  Brought(l) \in Int
<1>1. IsFiniteSet({i \in Ids : items[i].line = l})
  BY IdsFinite, FS_Subset
<1>2. \A k \in {i \in Ids : items[i].line = l} : booked[k] \in Int
  <2>1. booked \in [Ids -> Nat]  BY DEF TypeOK
  <2>. QED  BY <2>1
<1>. QED  BY <1>1, <1>2, SumRules DEF Brought

(* Cargo items keep their line and their lots, so what they brought grows.    *)
LEMMA BroughtGrows ==
  ASSUME IInv, IInv', Bare, \A i \in Ids : booked[i] =< booked'[i],
         \A i \in Ids : Packed(i) => items'[i].line = items[i].line,
         NEW l \in Ids
  PROVE  Brought(l) =< Brought(l)' /\ Brought(l)' \in Int
<1>. DEFINE S == {i \in Ids : items[i].line = l}
            T == {i \in Ids : items'[i].line = l}
<1>1. S \subseteq T
  <2>1. l # 0  BY Constants
  <2>. QED  BY <2>1 DEF Bare
<1>2. IsFiniteSet(T)  BY IdsFinite, FS_Subset
<1>3. \A i \in T : booked[i] \in Nat /\ booked'[i] \in Nat /\ booked[i] =< booked'[i]
  BY DEF IInv, TypeOK
<1>4. Brought(l) = SumFunctionOnSet(booked, S) /\ Brought(l)' = SumFunctionOnSet(booked', T)
  BY DEF Brought
<1>5. \A i \in T : booked'[i] \in Int  BY <1>3
<1>. HIDE DEF S, T
<1>6. SumFunctionOnSet(booked', T) \in Int  BY <1>2, <1>5, SumRules
<1>. QED  BY <1>1, <1>2, <1>3, <1>4, <1>6, SumGrows

(* What a request fits, it fits when the cargoes have brought more.           *)
LEMMA LKept ==
  ASSUME IInv, IInv', Bare, Bare', \A i \in Ids : booked[i] =< booked'[i],
         \A i \in Ids : Packed(i) => Packed(i)' /\ items'[i].line = items[i].line,
         \A l \in Ids : \/ lines'[l].received =< Brought(l)
                        \/ lines'[l].received =< Brought(l)',
         NEW J, J = job', \A w \in Workers : Fits(J[w])
  PROVE  LInv'
<1>1. \A l \in Ids : /\ Brought(l) =< Brought(l)' /\ Brought(l) \in Int /\ Brought(l)' \in Int
  <2>1. \A l \in Ids : Brought(l) =< Brought(l)' /\ Brought(l)' \in Int
    BY BroughtGrows
  <2>2. \A l \in Ids : Brought(l) \in Int  BY BroughtInt DEF IInv
  <2>. QED  BY <2>1, <2>2
<1>2. LineNeverAhead'
  <2>1. \A l \in Ids : lines'[l].received \in Nat  BY DEF IInv, TypeOK, LineRows
  <2>2. \A l \in Ids : lines'[l].received =< Brought(l)'  BY <1>1, <2>1
  <2>. QED  BY <2>2 DEF LineNeverAhead, Brought
<1>3. ASSUME NEW w \in Workers
      PROVE  Fits(job[w])'
  <2>1. Fits(J[w]) /\ J[w] = job'[w] /\ job'[w] \in Jobs  BY DEF IInv, TypeOK
  <2>2. job'[w].line # 0 => /\ job'[w].line \in Ids
                            /\ job'[w].bought.received =< Brought(job'[w].line)
    BY <2>1 DEF Fits
  <2>3. job'[w].bought.received \in Nat  BY <2>1 DEF Jobs, LineRows
  <2>4. job'[w].line # 0 => job'[w].bought.received =< Brought(job[w].line)'
    <3>. SUFFICES ASSUME job'[w].line # 0
                  PROVE  job'[w].bought.received =< Brought(job[w].line)'
      OBVIOUS
    <3>1. PICK l \in Ids : l = job'[w].line  BY <2>2
    <3>2. Brought(l)' = Brought(job[w].line)'  BY <3>1 DEF Brought
    <3>. QED  BY <1>1, <2>2, <2>3, <3>1, <3>2
  <2>5. job'[w].item # 0 =>
          /\ job'[w].item \in Ids /\ Packed(job'[w].item)
          /\ job'[w].seen.line = items[job'[w].item].line
          /\ job'[w].line # 0 => job'[w].line = job'[w].seen.line
    BY <2>1 DEF Fits
  <2>6. job'[w].item # 0 => Packed(job[w].item)'
                            /\ items'[job'[w].item].line = items[job'[w].item].line
    BY <2>5 DEF Packed
  <2>. QED  BY <2>2, <2>4, <2>5, <2>6 DEF Fits
<1>. QED  BY <1>2, <1>3 DEF LInv

-----------------------------------------------------------------------------
(* The cargoes bring no fewer than no units.                                  *)
LEMMA BroughtNonNeg ==
  ASSUME IInv, NEW l \in Ids
  PROVE  Brought(l) >= 0 /\ Brought(l) \in Int
<1>. DEFINE T == {i \in Ids : items[i].line = l}
<1>1. {} \subseteq T /\ IsFiniteSet(T)  BY IdsFinite, FS_Subset
<1>2. \A i \in T : booked[i] \in Nat /\ booked[i] =< booked[i]
  <2>1. booked \in [Ids -> Nat]  BY DEF IInv, TypeOK
  <2>. QED  BY <2>1
<1>3. Brought(l) = SumFunctionOnSet(booked, T)  BY DEF Brought
<1>. HIDE DEF T
<1>4. SumFunctionOnSet(booked, {}) =< SumFunctionOnSet(booked, T)
  BY <1>1, <1>2, SumGrows
<1>5. SumFunctionOnSet(booked, {}) = 0
  <2>1. IsFiniteSet({})  BY FS_EmptySet
  <2>. QED  BY <2>1, SumRules
<1>6. Brought(l) \in Int  BY BroughtInt DEF IInv
<1>. QED  BY <1>3, <1>4, <1>5, <1>6

LEMMA InitLines == Init => LInv
<1>. SUFFICES ASSUME Init PROVE LInv  OBVIOUS
<1>0. IInv  BY InitInv
<1>1. \A l \in Ids : lines[l].received = 0
  <2>1. PICK o \in [1..FirstLines -> Orders] :
          lines = [l \in Ids |-> IF l > FirstLines THEN NoLine
            ELSE [purchase |-> 1, order |-> o[l], quantity |-> MaxUnits, received |-> 0]]
    BY DEF Init
  <2>. QED  BY <2>1 DEF NoLine
<1>2. Bare
  <2>1. items = [i \in Ids |-> IF i > FirstLines THEN NoItem
            ELSE [cargo |-> 1, line |-> i, quantity |-> MaxUnits, received |-> 0]]
    BY DEF Init
  <2>. QED  BY <2>1 DEF Bare, Packed, NoItem
<1>3. \A l \in Ids : Brought(l) >= 0  BY <1>0, BroughtNonNeg
<1>4. LineNeverAhead
  <2>1. \A l \in Ids : Brought(l) \in Int  BY <1>0, BroughtInt DEF IInv
  <2>2. \A l \in Ids : lines[l].received =< Brought(l)  BY <1>1, <1>3, <2>1
  <2>. QED  BY <2>2 DEF LineNeverAhead, Brought
<1>5. \A w \in Workers : Fits(job[w])
  BY DEF Init, NoJob, Fits
<1>. QED  BY <1>2, <1>4, <1>5 DEF LInv


-----------------------------------------------------------------------------
(* A step that leaves the cargo items and the lots.                           *)
LEMMA RowsKept ==
  ASSUME IInv, IInv', LInv, UNCHANGED <<items, booked>>,
         \A l \in Ids : lines'[l].received =< Brought(l),
         NEW J, J = job', \A w \in Workers : Fits(J[w])
  PROVE  LInv'
<1>1. \A i \in Ids : booked[i] =< booked'[i]
  <2>1. booked \in [Ids -> Nat]  BY DEF IInv, TypeOK
  <2>. QED  BY <2>1
<1>2. Bare /\ Bare'  BY DEF LInv, Bare, Packed
<1>3. \A i \in Ids : Packed(i) => Packed(i)' /\ items'[i].line = items[i].line
  BY DEF Packed
<1>. QED  BY <1>1, <1>2, <1>3, LKept

(* A step that adds a cargo item, or changes one that stays in its line.      *)
LEMMA ItemsKept ==
  ASSUME IInv, IInv', LInv, UNCHANGED <<lines, booked>>, NEW k \in Ids,
         items'[k].cargo # 0,
         \A i \in Ids \ {k} : /\ items'[i].line = items[i].line
                              /\ items'[i].cargo = items[i].cargo,
         Packed(k) => items'[k].line = items[k].line,
         NEW J, J = job', \A w \in Workers : Fits(J[w])
  PROVE  LInv'
<1>1. \A i \in Ids : booked[i] =< booked'[i]
  <2>1. booked \in [Ids -> Nat]  BY DEF IInv, TypeOK
  <2>. QED  BY <2>1
<1>2. Bare /\ Bare'  BY DEF LInv, Bare, Packed
<1>3. \A i \in Ids : Packed(i) => Packed(i)' /\ items'[i].line = items[i].line
  BY DEF Packed
<1>4. \A l \in Ids : lines'[l].received =< Brought(l)
  BY DEF LInv, LineNeverAhead, Brought
<1>. QED  BY <1>1, <1>2, <1>3, <1>4, LKept

LEMMA EndsFit ==
  ASSUME IInv, LInv, NEW w \in Workers, Ends(w)
  PROVE  \A J : J = job' => \A v \in Workers : Fits(J[v])
<1>1. Fits(NoJob)  BY DEF Fits, NoJob
<1>2. job' = [job EXCEPT ![w] = NoJob]  BY DEF Ends
<1>3. \A v \in Workers : Fits(job[v])  BY DEF LInv
<1>4. job \in [Workers -> Jobs]  BY DEF IInv, TypeOK
<1>. QED  BY <1>1, <1>2, <1>3, <1>4

LEMMA LineReceived ==
  ASSUME LInv, NEW l \in Ids
  PROVE  lines[l].received =< Brought(l)
BY DEF LInv, LineNeverAhead, Brought

(* A request that has read a purchase line.                                   *)
LEMMA WithLineFits ==
  ASSUME IInv, LInv, NEW j \in Jobs, Fits(j), NEW l \in Ids,
         j.item # 0 => j.seen.line = l
  PROVE  Fits(WithLine(j, l))
<1>1. /\ WithLine(j, l).line = l /\ WithLine(j, l).bought = lines[l]
      /\ WithLine(j, l).item = j.item /\ WithLine(j, l).seen = j.seen
  BY DEF WithLine, Jobs
<1>2. lines[l].received =< Brought(l)  BY LineReceived
<1>. HIDE DEF WithLine
<1>. QED  BY <1>1, <1>2 DEF Fits

LEMMA StepFits ==
  ASSUME IInv, LInv, NEW w \in Workers, NEW j, job' = [job EXCEPT ![w] = j], Fits(j)
  PROVE  \A J : J = job' => \A v \in Workers : Fits(J[v])
<1>1. \A v \in Workers : Fits(job[v])  BY DEF LInv
<1>2. job \in [Workers -> Jobs]  BY DEF IInv, TypeOK
<1>. QED  BY <1>1, <1>2

LEMMA StepLines ==
  ASSUME IInv, IInv', LInv, NEW w \in Workers, NEW j, job' = [job EXCEPT ![w] = j],
         Fits(j), UNCHANGED rows
  PROVE  LInv'
<1>1. \A J : J = job' => \A v \in Workers : Fits(J[v])  BY StepFits
<1>2. \A l \in Ids : lines'[l].received =< Brought(l)  BY LineReceived DEF rows
<1>. QED  BY <1>1, <1>2, RowsKept DEF rows

-----------------------------------------------------------------------------
LEMMA MiddleLines ==
  ASSUME IInv, IInv', LInv, NEW w \in Workers,
         \/ Redirect(w) \/ CountItem(w) \/ CountLine(w) \/ MarkPurchase(w)
         \/ Book(w) \/ SavePurchase(w)
  PROVE  LInv'
<1>0. job \in [Workers -> Jobs] /\ job[w] \in Jobs  BY DEF IInv, TypeOK
<1>1. Fits(job[w])  BY DEF LInv
<1>2. UNCHANGED rows
  BY DEF Redirect, CountItem, CountLine, MarkPurchase, Book, SavePurchase, Writes
<1>3. \E j : job' = [job EXCEPT ![w] = j] /\ Fits(j)
  <2>1. CASE job' = job
    <3>1. job' = [job EXCEPT ![w] = job[w]]  BY <1>0, <2>1
    <3>. QED  BY <1>1, <3>1
  <2>2. CASE CountItem(w) /\ job' # job
    <3>. DEFINE l == job[w].seen.line
    <3>1. job' = [job EXCEPT ![w] = WithLine(job[w], l)] /\ l # 0
      BY <2>2 DEF CountItem
    <3>2. l \in Ids
      <4>1. l \in 0..MaxRows  BY <1>0 DEF Jobs, ItemRows
      <4>. QED  BY <4>1, <3>1, Constants
    <3>. HIDE DEF l
    <3>3. Fits(WithLine(job[w], l))  BY <1>0, <1>1, <3>2, WithLineFits DEF l
    <3>. QED  BY <3>1, <3>3
  <2>3. CASE CountLine(w) /\ job' # job
    <3>. DEFINE mark == Progress(w, job[w].bought.purchase)
    <3>1. job' = [job EXCEPT ![w].mark = mark]  BY <2>3 DEF CountLine
    <3>. HIDE DEF mark
    <3>. DEFINE j == [job[w] EXCEPT !.mark = mark]
    <3>2. job' = [job EXCEPT ![w] = j]  BY <3>1
    <3>3. j.line = job[w].line /\ j.bought = job[w].bought /\ j.item = job[w].item
          /\ j.seen = job[w].seen
      BY <1>0 DEF Jobs
    <3>. HIDE DEF j
    <3>4. Fits(j)  BY <1>1, <3>3 DEF Fits
    <3>. QED  BY <3>2, <3>4
  <2>4. CASE Book(w)
    <3>. DEFINE close == IF Rest(w) = job[w].cargo.status THEN "" ELSE Rest(w)
    <3>1. job' = [job EXCEPT ![w].close = close]  BY <2>4 DEF Book
    <3>. HIDE DEF close
    <3>. DEFINE j == [job[w] EXCEPT !.close = close]
    <3>2. job' = [job EXCEPT ![w] = j]  BY <3>1
    <3>3. j.line = job[w].line /\ j.bought = job[w].bought /\ j.item = job[w].item
          /\ j.seen = job[w].seen
      BY <1>0 DEF Jobs
    <3>. HIDE DEF j
    <3>4. Fits(j)  BY <1>1, <3>3 DEF Fits
    <3>. QED  BY <3>2, <3>4
  <2>. QED  BY <2>1, <2>2, <2>3, <2>4 DEF Redirect, MarkPurchase, SavePurchase
<1>. QED  BY <1>2, <1>3, StepLines

(* A request begins with what it has read.                                    *)
LEMMA AskLines ==
  ASSUME IInv, IInv', LInv, NEW w \in Workers, Begins(w), Ask(w)
  PROVE  LInv'
<1>1. PICK step, j : Starts(w, step, j) /\ Fits(j)
  <2>0. PICK q \in Units :
          \/ \E i \in Ids : BeginSplit(w, i, q) \/ \E h \in Warehouses : Receive(w, i, q, h)
          \/ \E l \in Ids, s \in CargoForm, h \in Warehouses : BeginLoad(w, l, q, s, h)
          \/ \E o \in Orders, s \in PurchaseForm : BeginPurchase(w, o, q, s)
    BY DEF Ask
  <2>1. \A i \in Ids, h \in Warehouses \cup {NoWarehouse} : Packed(i) => Fits(OnItem(i, q, h))
    BY DEF Fits, OnItem
  <2>2. ASSUME NEW i \in Ids, BeginSplit(w, i, q)
        PROVE  \E step, j : Starts(w, step, j) /\ Fits(j)
    BY <2>1, <2>2 DEF BeginSplit
  <2>3. ASSUME NEW i \in Ids, NEW h \in Warehouses, Receive(w, i, q, h)
        PROVE  \E step, j : Starts(w, step, j) /\ Fits(j)
    <3>1. Packed(i)  BY <2>3 DEF Receive
    <3>. DEFINE o == OnItem(i, q, h)
    <3>2. Fits(o) /\ o.seen = items[i]  BY <2>1, <3>1 DEF OnItem
    <3>3. PICK j \in {o, WithLine(o, items[i].line)}, step \in {"countItem", "redirect"} :
            Starts(w, step, j) /\ (j # o => items[i].line # 0)
      BY <2>3 DEF Receive
    <3>4. items[i].cargo \in Ids /\ items[i].line \in 0..MaxRows
      <4>1. items[i] \in ItemRows  BY DEF IInv, TypeOK
      <4>2. items[i].cargo \in 0..MaxRows /\ items[i].cargo # 0
        BY <3>1, <4>1 DEF ItemRows, Packed
      <4>. QED  BY <4>1, <4>2, Constants DEF ItemRows
    <3>5. o \in Jobs
      <4>1. q \in Nat  BY Constants
      <4>. QED  BY <3>4, <4>1, OnItemOK DEF IInv
    <3>. HIDE DEF o
    <3>6. CASE j = o  BY <3>2, <3>3, <3>6
    <3>7. CASE j # o
      <4>1. items[i].line \in Ids  BY <3>3, <3>4, <3>7, Constants
      <4>2. Fits(WithLine(o, items[i].line))  BY <3>2, <3>5, <4>1, WithLineFits
      <4>. QED  BY <3>3, <3>7, <4>2
    <3>. QED  BY <3>6, <3>7
  <2>4. ASSUME NEW l \in Ids, NEW s \in CargoForm, NEW h \in Warehouses, BeginLoad(w, l, q, s, h)
        PROVE  \E step, j : Starts(w, step, j) /\ Fits(j)
    <3>. DEFINE j == [[WithLine(NoJob, l) EXCEPT !.units = q]
                        EXCEPT !.cargo = [status |-> s, warehouse |-> h]]
    <3>1. Starts(w, "load", j)  BY <2>4 DEF BeginLoad
    <3>2. j.line = l /\ j.bought = lines[l] /\ j.item = 0
      BY DEF WithLine, NoJob
    <3>. HIDE DEF j
    <3>3. Fits(j)  BY <3>2, LineReceived DEF Fits
    <3>. QED  BY <3>1, <3>3
  <2>5. ASSUME NEW o \in Orders, NEW s \in PurchaseForm, BeginPurchase(w, o, q, s)
        PROVE  \E step, j : Starts(w, step, j) /\ Fits(j)
    <3>. DEFINE j == [[[NoJob EXCEPT !.order = o] EXCEPT !.units = q] EXCEPT !.mark = s]
    <3>1. j \in Jobs
      <4>1. q \in Nat  BY Constants
      <4>. QED  BY NoJobOK, <4>1, ProcurementAssumption DEF Jobs, PurchaseStatus
    <3>2. j.item = 0 /\ j.line = 0  BY DEF NoJob
    <3>3. \/ Starts(w, "insert", j)
          \/ \E l \in Ids : Starts(w, "savePurchase", WithLine(j, l))
      BY <2>5 DEF BeginPurchase, Latest, Live
    <3>. HIDE DEF j
    <3>4. Fits(j)  BY <3>2 DEF Fits
    <3>5. \A l \in Ids : Fits(WithLine(j, l))  BY <3>1, <3>2, <3>4, WithLineFits
    <3>. QED  BY <3>3, <3>4, <3>5
  <2>. QED  BY <2>0, <2>2, <2>3, <2>4, <2>5
<1>2. job' = [job EXCEPT ![w] = j] /\ UNCHANGED rows  BY <1>1 DEF Starts
<1>. QED  BY <1>1, <1>2, StepLines

(* A cargo item that is created was no item, and brings nothing yet.          *)
LEMMA LoadLines ==
  ASSUME IInv, IInv', LInv, NEW w \in Workers, Load(w)
  PROVE  LInv'
<1>1. PICK c \in Fresh(Open), k \in Fresh(Packed) :
        items' = [items EXCEPT ![k] = [cargo |-> c, line |-> job[w].line,
                                       quantity |-> job[w].units, received |-> 0]]
  BY DEF Load
<1>2. Ends(w) /\ UNCHANGED <<lines, booked>>  BY DEF Load, Commits
<1>3. c # 0 /\ k \in Ids /\ ~Packed(k)  BY Constants DEF Fresh
<1>4. items \in [Ids -> ItemRows]  BY DEF IInv, TypeOK
<1>5. items'[k].cargo # 0 /\ \A i \in Ids \ {k} : items'[i] = items[i]
  BY <1>1, <1>3, <1>4
<1>. QED  BY <1>2, <1>3, <1>5, EndsFit, ItemsKept

LEMMA SplitLines ==
  ASSUME IInv, IInv', LInv, NEW w \in Workers, Split(w)
  PROVE  LInv'
<1>. DEFINE i == job[w].item
            less == job[w].seen.quantity - job[w].units
<1>1. PICK c \in Fresh(Open), k \in Fresh(Packed) :
        items' = [[items EXCEPT ![i].quantity = less]
                    EXCEPT ![k] = [cargo |-> c, line |-> job[w].seen.line,
                                   quantity |-> job[w].units, received |-> 0]]
  BY DEF Split
<1>2. Ends(w) /\ pc[w] = "split" /\ UNCHANGED <<lines, booked>>  BY DEF Split, Commits
<1>3. c # 0 /\ k \in Ids /\ ~Packed(k)  BY Constants DEF Fresh
<1>4. items \in [Ids -> ItemRows]  BY DEF IInv, TypeOK
<1>5. i \in Ids /\ i # k  BY <1>2, FreshOK DEF IInv, Working, Holds
<1>. DEFINE new == [cargo |-> c, line |-> job[w].seen.line,
                    quantity |-> job[w].units, received |-> 0]
            rest == [items[i] EXCEPT !.quantity = less]
<1>6. rest.line = items[i].line /\ rest.cargo = items[i].cargo
  <2>1. items[i] \in ItemRows  BY <1>4, <1>5
  <2>. QED  BY <2>1 DEF ItemRows
<1>7. new.cargo # 0  BY <1>3
<1>8. items' = [[items EXCEPT ![i] = rest] EXCEPT ![k] = new]  BY <1>1
<1>. HIDE DEF new, rest, less, i
<1>9. items'[k] = new /\ items'[i] = rest /\ \A j \in Ids \ {k, i} : items'[j] = items[j]
  BY <1>3, <1>4, <1>5, <1>8
<1>10. \A j \in Ids \ {k} : /\ items'[j].line = items[j].line
                            /\ items'[j].cargo = items[j].cargo
  BY <1>6, <1>9
<1>. QED  BY <1>2, <1>3, <1>7, <1>9, <1>10, EndsFit, ItemsKept

(* The purchase form writes back what it has read, never more.                *)
LEMMA SavesLines ==
  ASSUME IInv, IInv', LInv, NEW w \in Workers, InsertPurchase(w) \/ SaveLine(w) \/ Abort(w)
  PROVE  LInv'
<1>1. Ends(w) /\ UNCHANGED <<items, booked>>
  BY DEF InsertPurchase, SaveLine, Abort, Commits, rows
<1>2. lines \in [Ids -> LineRows] /\ job[w] \in Jobs  BY DEF IInv, TypeOK
<1>3. Fits(job[w])  BY DEF LInv
<1>4. ASSUME NEW l \in Ids
      PROVE  lines'[l].received =< Brought(l)
  <2>1. lines[l].received =< Brought(l) /\ Brought(l) >= 0  BY LineReceived, BroughtNonNeg
  <2>2. CASE lines' = lines  BY <2>1, <2>2
  <2>3. CASE InsertPurchase(w)
    <3>1. lines'[l] = lines[l] \/ lines'[l].received = 0
      BY <1>2, <2>3 DEF InsertPurchase
    <3>. QED  BY <2>1, <3>1
  <2>4. CASE SaveLine(w)
    <3>. DEFINE row == [job[w].bought EXCEPT !.quantity = job[w].units]
    <3>1. lines' = [lines EXCEPT ![job[w].line] = row]  BY <2>4 DEF SaveLine
    <3>2. row.received = job[w].bought.received  BY <1>2 DEF Jobs, LineRows
    <3>. HIDE DEF row
    <3>3. CASE job[w].line = l
      <4>1. lines'[l] = row  BY <1>2, <3>1, <3>3
      <4>2. l # 0  BY Constants
      <4>. QED  BY <1>3, <3>2, <3>3, <4>1, <4>2 DEF Fits
    <3>4. CASE job[w].line # l
      <4>1. lines'[l] = lines[l]  BY <1>2, <3>1, <3>4
      <4>. QED  BY <2>1, <4>1
    <3>. QED  BY <3>3, <3>4
  <2>. QED  BY <2>2, <2>3, <2>4 DEF Abort, rows
<1>. QED  BY <1>1, <1>4, EndsFit, RowsKept

(* A receipt adds to the line no more units than it books for the line, to    *)
(* what it has read of the line, which others may have added to.              *)
LEMMA CloseLines ==
  ASSUME IInv, IInv', LInv, NEW w \in Workers, CloseCargo(w)
  PROVE  LInv'
<1>. DEFINE i == job[w].item
            l == job[w].line
            got == Counted(w)
            more == booked[i] + job[w].units
<1>1. Ends(w) /\ pc[w] \in Receiving  BY DEF CloseCargo, Commits, Receiving
<1>2. /\ items' = [items EXCEPT ![i].received = got]
      /\ booked' = [booked EXCEPT ![i] = more]
      /\ lines' = IF l = 0 THEN lines ELSE [lines EXCEPT ![l].received = Arrived(w)]
  BY DEF CloseCargo, Booked
<1>3. /\ items \in [Ids -> ItemRows] /\ booked \in [Ids -> Nat]
      /\ lines \in [Ids -> LineRows] /\ job[w] \in Jobs
  BY DEF IInv, TypeOK
<1>4. i \in Ids /\ i # 0 /\ Packed(i)  BY <1>1, Constants DEF IInv, Working, Holds
<1>5. /\ job[w].units \in Nat /\ job[w].bought.received \in Nat
      /\ job[w].bought.quantity \in Nat
  BY <1>3 DEF Jobs, LineRows
<1>6. /\ Fits(job[w])
      /\ l # 0 => /\ l \in Ids /\ items[i].line = l
                  /\ job[w].bought.received =< Brought(l)
  BY <1>4 DEF LInv, Fits
<1>7. Arrived(w) =< job[w].bought.received + job[w].units /\ Arrived(w) \in Nat
  BY <1>5 DEF Arrived, AtMost
<1>. HIDE DEF got, Arrived
<1>8. \A j \in Ids : items'[j].line = items[j].line /\ items'[j].cargo = items[j].cargo
  <2>1. \A j \in Ids : items[j] \in ItemRows  BY <1>3
  <2>. QED  BY <1>2, <1>3, <1>4, <2>1 DEF ItemRows
<1>9. booked'[i] = booked[i] + job[w].units /\ \A j \in Ids \ {i} : booked'[j] = booked[j]
  BY <1>2, <1>3, <1>4
<1>10. \A j \in Ids : booked[j] \in Nat /\ booked'[j] \in Nat /\ booked[j] =< booked'[j]
  BY <1>3, <1>4, <1>5, <1>9
<1>11. Bare /\ Bare'  BY <1>8 DEF LInv, Bare, Packed
<1>12. \A j \in Ids : Packed(j) => Packed(j)' /\ items'[j].line = items[j].line
  BY <1>8 DEF Packed
<1>13. ASSUME NEW m \in Ids, m = l
       PROVE  Brought(m)' = Brought(m) + job[w].units /\ Brought(m) \in Int
  <2>. DEFINE S == {j \in Ids : items[j].line = m}
  <2>0. l # 0  BY <1>13, Constants
  <2>1. i \in S /\ IsFiniteSet(S)  BY <1>4, <1>6, <1>13, <2>0, IdsFinite, FS_Subset
  <2>2. \A j \in S : booked[j] \in Int /\ booked'[j] \in Int  BY <1>10
  <2>3. \A j \in S \ {i} : booked'[j] = booked[j]  BY <1>9
  <2>4. {j \in Ids : items'[j].line = m} = S  BY <1>8
  <2>5. Brought(m) = SumFunctionOnSet(booked, S) /\ Brought(m)' = SumFunctionOnSet(booked', S)
    BY <2>4 DEF Brought
  <2>. HIDE DEF S
  <2>6. /\ SumFunctionOnSet(booked, S) \in Int
        /\ SumFunctionOnSet(booked', S)
             = SumFunctionOnSet(booked, S) + (booked'[i] - booked[i])
    BY <2>1, <2>2, <2>3, SumChange
  <2>. QED  BY <1>4, <1>5, <1>9, <1>10, <2>5, <2>6
<1>14. ASSUME NEW m \in Ids
       PROVE  lines'[m].received =< Brought(m) \/ lines'[m].received =< Brought(m)'
  <2>1. lines[m].received =< Brought(m)  BY LineReceived
  <2>2. CASE m # l \/ l = 0
    <3>1. lines'[m] = lines[m]  BY <1>2, <1>3, <2>2
    <3>. QED  BY <2>1, <3>1
  <2>3. CASE m = l /\ l # 0
    <3>1. lines'[m].received = Arrived(w)
      <4>1. lines[m] \in LineRows  BY <1>3
      <4>. QED  BY <1>2, <1>3, <2>3, <4>1 DEF LineRows
    <3>2. Arrived(w) =< Brought(m)'  BY <1>5, <1>6, <1>7, <1>13, <2>3
    <3>. QED  BY <2>3, <3>1, <3>2
  <2>. QED  BY <2>2, <2>3
<1>. QED  BY <1>1, <1>10, <1>11, <1>12, <1>14, EndsFit, LKept

LEMMA EditLines ==
  ASSUME IInv, IInv', LInv, Edit
  PROVE  LInv'
<1>0. \A J : J = job => \A v \in Workers : Fits(J[v])  BY DEF LInv
<1>1. ASSUME NEW c \in Ids, NEW l \in {0} \cup Ids, NEW q \in Units, AddItem(c, l, q)
      PROVE  LInv'
  <2>1. PICK k \in Fresh(Packed) :
          items' = [items EXCEPT ![k] = [cargo |-> c, line |-> l, quantity |-> q,
                                         received |-> 0]]
    BY <1>1 DEF AddItem
  <2>2. UNCHANGED <<lines, booked, job>>  BY <1>1 DEF AddItem, AtOnce
  <2>3. c # 0 /\ k \in Ids /\ ~Packed(k)  BY Constants DEF Fresh
  <2>4. items \in [Ids -> ItemRows]  BY DEF IInv, TypeOK
  <2>5. items'[k].cargo # 0 /\ \A i \in Ids \ {k} : items'[i] = items[i]
    BY <2>1, <2>3, <2>4
  <2>. QED  BY <1>0, <2>2, <2>3, <2>5, ItemsKept
<1>2. ASSUME NEW c \in Ids, NEW s \in CargoForm, NEW h \in Warehouses \cup {NoWarehouse},
             EditCargo(c, s, h)
      PROVE  LInv'
  <2>1. UNCHANGED <<lines, items, booked, job>>  BY <1>2 DEF EditCargo, AtOnce
  <2>2. \A m \in Ids : lines'[m].received =< Brought(m)  BY <2>1, LineReceived
  <2>. QED  BY <1>0, <2>1, <2>2, RowsKept
<1>3. ASSUME NEW p \in Ids, NEW o \in Orders \cup {NoOrder}, NEW q \in Units, AddLine(p, o, q)
      PROVE  LInv'
  <2>1. UNCHANGED <<items, booked, job>>  BY <1>3 DEF AddLine, AtOnce
  <2>2. ASSUME NEW m \in Ids
        PROVE  lines'[m].received =< Brought(m)
    <3>1. lines[m].received =< Brought(m) /\ Brought(m) >= 0  BY LineReceived, BroughtNonNeg
    <3>2. lines \in [Ids -> LineRows]  BY DEF IInv, TypeOK
    <3>3. lines'[m] = lines[m] \/ lines'[m].received = 0  BY <1>3, <3>2 DEF AddLine
    <3>. QED  BY <3>1, <3>3
  <2>. QED  BY <1>0, <2>1, <2>2, RowsKept
<1>4. ASSUME NEW p \in Ids, NEW s \in PurchaseForm, EditPurchase(p, s)
      PROVE  LInv'
  <2>1. UNCHANGED <<lines, items, booked, job>>  BY <1>4 DEF EditPurchase, AtOnce
  <2>2. \A m \in Ids : lines'[m].received =< Brought(m)  BY <2>1, LineReceived
  <2>. QED  BY <1>0, <2>1, <2>2, RowsKept
<1>. QED  BY <1>1, <1>2, <1>3, <1>4 DEF Edit

LEMMA NextLines == IInv /\ LInv /\ [Next]_vars => LInv'
<1>. SUFFICES ASSUME IInv, LInv, [Next]_vars PROVE LInv'  OBVIOUS
<1>0. IInv'  BY NextInv
<1>1. CASE Edit  BY <1>0, <1>1, EditLines
<1>2. ASSUME NEW w \in Workers, Proceed(w) PROVE LInv'
  <2>1. CASE \/ Redirect(w) \/ CountItem(w) \/ CountLine(w) \/ MarkPurchase(w)
             \/ Book(w) \/ SavePurchase(w)
    BY <1>0, <2>1, MiddleLines
  <2>2. CASE InsertPurchase(w) \/ SaveLine(w) \/ Abort(w)  BY <1>0, <2>2, SavesLines
  <2>3. CASE CloseCargo(w)  BY <1>0, <2>3, CloseLines
  <2>4. CASE Split(w)  BY <1>0, <2>4, SplitLines
  <2>5. CASE Load(w)  BY <1>0, <2>5, LoadLines
  <2>. QED  BY <1>2, <2>1, <2>2, <2>3, <2>4, <2>5 DEF Proceed
<1>3. ASSUME NEW w \in Workers, Begins(w), Ask(w) PROVE LInv'
  BY <1>0, <1>3, AskLines
<1>4. CASE UNCHANGED vars
  <2>1. \A J : J = job => \A v \in Workers : Fits(J[v])  BY DEF LInv
  <2>2. \A m \in Ids : lines'[m].received =< Brought(m)  BY <1>4, LineReceived DEF vars, rows
  <2>. QED  BY <1>0, <1>4, <2>1, <2>2, RowsKept DEF vars, rows
<1>. QED  BY <1>1, <1>2, <1>3, <1>4 DEF Next

(* receive_cargo_item and the purchase form write the counter of a purchase   *)
(* line from an instance that others may have overtaken: the line may show    *)
(* less than its cargoes brought into stock, but never more.                  *)
THEOREM LinesNeverAhead == Spec => []LineNeverAhead
<1>1. IInv /\ LInv /\ [Next]_vars => IInv' /\ LInv'  BY NextInv, NextLines
<1>2. Init => IInv /\ LInv  BY InitInv, InitLines
<1>3. LInv => LineNeverAhead  BY DEF LInv
<1>. QED  BY <1>1, <1>2, <1>3, PTL DEF Spec
=============================================================================
