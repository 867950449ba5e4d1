-------------------------- MODULE WarehouseMoves --------------------------
(* Requests of the warehouse workspace, reservations and dispatches on       *)
(* several positions and warehouses at once, READ COMMITTED.  Whatever position *)
(* a request is about, it rebuilds the balances of the whole warehouse and so *)
(* writes rows that other requests are about to write or have locked.        *)
(*                                                                           *)
(* A cell is a position in a warehouse, with its balance row.  Its lots    *)
(* are one quantity: oldest lots first, the lots that a request does not see *)
(* are the last to be taken.  What a request writes it commits with its last *)
(* lock.                                                                     *)
EXTENDS Integers, FiniteSets, Functions

CONSTANTS Requests,    \* requests that the web workers serve
          Positions,   \* catalogue positions
          Warehouses,
          Jobs,        \* what a request may ask
          Stocks       \* stocks that they may find

Cells == Warehouses \X Positions
Kinds == {"receive", "expense", "count", "transfer", "reserve", "ship"}

(* qty: units to move or reserve, or the quantity that was counted.          *)
Job == [kind : Kinds, from : Cells, to : Cells, qty : Nat]

ASSUME WarehouseAssumption ==
  /\ IsFiniteSet(Warehouses)
  /\ Jobs \subseteq Job
  /\ \A j \in Jobs :
       /\ j.kind # "count" => j.qty > 0
       /\ IF j.kind = "transfer" THEN j.from[1] # j.to[1] /\ j.from[2] = j.to[2]
                                 ELSE j.to = j.from
  /\ Stocks \subseteq [Cells -> Nat]

VARIABLES job,      \* job[r]: what request r asks
          pc,       \* pc[r]: "start", "open", "waiting", "adding", "queued" or "done"
          delta,    \* delta[r]: quantity_delta, units that r adds to its lots
          cover,    \* cover[r]: missing_qty that r has worked out
          unseen,   \* unseen[r]: units of lots created since r asked for its lots
          left,     \* left[r]: what r leaves of the lots it has locked
          total,    \* total[r]: totals that r is to write on the balances
          lots,     \* lots[r]: the cells whose lots r has locked
          rows,     \* rows[r]: the cells whose balance row r has locked
          stock,    \* stock[c]: remaining_qty of the lots of a cell
          balance,  \* balance[c]: InventoryBalance.quantity
          found,    \* history: the stock before all requests
          entered,  \* history: units received, counted in or backfilled
          gone,     \* history: units that requests took or counted out
          exact     \* history: exact[r]: the count r read a balance that agreed
                    \* with the lots, and they have not changed since

vars == <<job, pc, delta, cover, unseen, left, total, lots, rows, stock, balance,
          found, entered, gone, exact>>
work  == <<delta, cover, unseen, left, total>>
goods == <<stock, balance, found, entered, gone>>

TypeOK ==
  /\ job \in [Requests -> Jobs]
  /\ pc \in [Requests -> {"start", "open", "waiting", "adding", "queued", "done"}]
  /\ delta \in [Requests -> Int]
  /\ cover \in [Requests -> Nat] /\ unseen \in [Requests -> Nat] /\ left \in [Requests -> Nat]
  /\ total \in [Requests -> [Cells -> Nat]]
  /\ lots \in [Requests -> SUBSET Cells] /\ rows \in [Requests -> SUBSET Cells]
  /\ stock \in [Cells -> Nat] /\ balance \in [Cells -> Nat]
  /\ found \in [Cells -> Nat]
  /\ entered \in [Positions -> Nat] /\ gone \in [Positions -> Nat]
  /\ exact \in [Requests -> BOOLEAN]

-----------------------------------------------------------------------------
NonNeg(n)    == IF n > 0 THEN n ELSE 0
Lesser(m, n) == IF m < n THEN m ELSE n
Stock(s, p)  == SumFunctionOnSet(s, Warehouses \X {p})

From(r)    == job[r].from
Touched(r) == {job[r].from[1], job[r].to[1]} \X Positions   \* cells that r rebuilds

(* The quantity that a request adds, as far as its input tells.              *)
Asked(j) == CASE j.kind = "receive"              -> j.qty
              [] j.kind \in {"count", "reserve"} -> 0
              [] OTHER                           -> -j.qty

Init ==
  /\ job \in [Requests -> Jobs]
  /\ pc = [r \in Requests |->
             IF job[r].kind \in {"count", "reserve", "ship"} THEN "start" ELSE "open"]
  /\ delta = [r \in Requests |-> Asked(job[r])]
  /\ cover = [r \in Requests |-> 0] /\ unseen = [r \in Requests |-> 0]
  /\ left = [r \in Requests |-> 0]
  /\ total = [r \in Requests |-> [c \in Cells |-> 0]]
  /\ lots = [r \in Requests |-> {}] /\ rows = [r \in Requests |-> {}]
  /\ stock \in Stocks /\ balance = stock /\ found = stock
  /\ entered = [p \in Positions |-> 0] /\ gone = [p \in Positions |-> 0]
  /\ exact = [r \in Requests |-> FALSE]

-----------------------------------------------------------------------------
Goes(r, where) == pc' = [pc EXCEPT ![r] = where]
Free(held, c)  == \A s \in Requests : c \notin held[s]

(* The stock with what r has done to it: the lots it took from hold what it  *)
(* left of them, whatever they hold by now.                                  *)
TakenTwice(r) ==           \* mutant: the sign of what a transfer brings
  IF delta[r] > 0 THEN [stock EXCEPT ![From(r)] = @ + delta[r]]
  ELSE [c \in Cells |-> IF c = From(r) THEN left[r] + unseen[r]
                        ELSE IF c = job[r].to THEN stock[c] + delta[r] ELSE stock[c]]
Moved(r) ==
  IF delta[r] > 0 THEN [stock EXCEPT ![From(r)] = @ + delta[r]]
  ELSE [c \in Cells |-> IF c = From(r) THEN left[r] + unseen[r]
                        ELSE IF c = job[r].to THEN stock[c] - delta[r] ELSE stock[c]]

Everywhere(r) == Stock(balance, From(r)[2])   \* mutant: no filter by warehouse
Recorded(r) == balance[From(r)]

(* create_adjustment reads the balance in a transaction of its own.          *)
ReadBalance(r) ==
  /\ job[r].kind = "count" /\ pc[r] = "start"
  /\ delta' = [delta EXCEPT ![r] = job[r].qty - Recorded(r)]
  /\ exact' = [exact EXCEPT ![r] = balance[From(r)] = stock[From(r)]]
  /\ Goes(r, IF job[r].qty = Recorded(r) THEN "done" ELSE "open")
  /\ UNCHANGED <<job, cover, unseen, left, total, lots, rows, goods>>

(* allocate_inventory_to_order_item begins with the balance row of its cell.  *)
Unserialized(r) == {}                         \* mutant: no select_for_update
Serialized(r) == {From(r)}
LockBalance(r) ==
  /\ job[r].kind \in {"reserve", "ship"} /\ pc[r] = "start"
  /\ Free(rows, From(r))
  /\ rows' = [rows EXCEPT ![r] = Serialized(r)]
  /\ cover' = [cover EXCEPT ![r] = NonNeg(balance[From(r)] - stock[From(r)])]
  /\ Goes(r, "open")
  /\ UNCHANGED <<job, delta, unseen, left, total, lots, goods, exact>>

(* A lot is created; the rebuild adds up what the transaction sees.          *)
Create(r) ==
  /\ pc[r] = "open" /\ delta[r] > 0
  /\ total' = [total EXCEPT ![r] = Moved(r)]
  /\ Goes(r, "queued")
  /\ UNCHANGED <<job, delta, cover, unseen, left, lots, rows, goods, exact>>

(* The statement that locks lots sees those that are committed as it begins. *)
AskLots(r) ==
  /\ pc[r] = "open" /\ delta[r] <= 0
  /\ unseen' = [unseen EXCEPT ![r] = 0]
  /\ Goes(r, "waiting")
  /\ UNCHANGED <<job, delta, cover, left, total, lots, rows, goods, exact>>

Done(r) ==
  /\ Goes(r, "done")
  /\ lots' = [lots EXCEPT ![r] = {}] /\ rows' = [rows EXCEPT ![r] = {}]
  /\ UNCHANGED <<job, work>>

Unguarded(r) == From(r) \in Cells       \* mutant: no select_for_update
LotsFree(r) == Free(lots, From(r))

(* It locks them and reads them again.  A shortage is an error; for a         *)
(* reservation also what other order lines hold, which this module leaves out.*)
Seen(r)   == NonNeg(stock[From(r)] - unseen[r]) + cover[r]
Wanted(r) == IF job[r].kind = "reserve" THEN job[r].qty ELSE -delta[r]
TakeLots(r) ==
  /\ pc[r] = "waiting" /\ LotsFree(r)
  /\ \/ /\ Seen(r) >= Wanted(r)
        /\ left' = [left EXCEPT ![r] = Seen(r) + delta[r]]
        /\ unseen' = [unseen EXCEPT ![r] = Lesser(@, stock[From(r)])]
        /\ lots' = [lots EXCEPT ![r] = {From(r)}]
        /\ Goes(r, "adding")
        /\ UNCHANGED <<job, delta, cover, total, rows>>
     \/ /\ Seen(r) < Wanted(r) \/ job[r].kind = "reserve"
        /\ Done(r)
  /\ UNCHANGED <<goods, exact>>

(* rebuild_inventory_balance_cache adds up the lots.                         *)
AddUp(r) ==
  /\ pc[r] = "adding"
  /\ total' = [total EXCEPT ![r] = Moved(r)]
  /\ Goes(r, "queued")
  /\ UNCHANGED <<job, delta, cover, unseen, left, lots, rows, goods, exact>>

(* ... then locks the balance rows one after another, in an order that the   *)
(* database chooses, ...                                                     *)
LockRow(r) ==
  /\ pc[r] = "queued"
  /\ \E c \in Touched(r) \ rows[r] :
       Free(rows, c) /\ rows' = [rows EXCEPT ![r] = @ \cup {c}]
  /\ UNCHANGED <<job, pc, work, lots, goods, exact>>

(* Units of the lots that it has created, and that are left of them.         *)
Created(r) == CASE job[r].kind = "transfer" -> -delta[r]
                [] delta[r] > 0             -> delta[r]
                [] OTHER                    -> Lesser(left[r], cover[r])

(* ... and writes the totals that it has read before.  A dispatch rebuilds a *)
(* second time, when it has all rows.                                        *)
Written(r) == IF job[r].kind = "ship" THEN Moved(r) ELSE total[r]
Commit(r) ==
  /\ pc[r] = "queued" /\ Touched(r) \subseteq rows[r]
  /\ stock' = Moved(r)
  /\ balance' = [c \in Cells |-> IF c \in Touched(r) THEN Written(r)[c] ELSE balance[c]]
  /\ entered' = [entered EXCEPT ![From(r)[2]] = @ + cover[r] + NonNeg(delta[r])]
  /\ gone' = IF job[r].kind = "transfer" THEN gone
             ELSE [gone EXCEPT ![From(r)[2]] = @ + NonNeg(-delta[r])]
  /\ Goes(r, "done")
  /\ lots' = [lots EXCEPT ![r] = {}] /\ rows' = [rows EXCEPT ![r] = {}]
  /\ unseen' = [s \in Requests |->
                  IF s # r /\ From(s) = job[r].to THEN unseen[s] + Created(r) ELSE unseen[s]]
  /\ exact' = [s \in Requests |-> exact[s] /\ From(s) \notin {From(r), job[r].to}]
  /\ UNCHANGED <<job, delta, cover, left, total, found>>

(* PostgreSQL's deadlock detector: the requests that wait in a circle.       *)
Blockers(r) ==
  CASE pc[r] = "waiting" -> {s \in Requests : From(r) \in lots[s]}
    [] pc[r] = "queued"  -> {s \in Requests \ {r} : (Touched(r) \ rows[r]) \cap rows[s] # {}}
    [] OTHER -> {}
Closed(S) == S # {} /\ \A s \in S : Blockers(s) \cap S # {}

Undetected(r) == FALSE /\ r \in Requests     \* mutant: they wait for ever
Deadlocked(r) ==
  \E S \in SUBSET Requests : r \in S /\ Closed(S) /\ \A T \in SUBSET S : Closed(T) => T = S
Abort(r) == Deadlocked(r) /\ Done(r) /\ UNCHANGED <<goods, exact>>

Step(r) == \/ ReadBalance(r) \/ LockBalance(r) \/ Create(r) \/ AskLots(r) \/ TakeLots(r)
           \/ AddUp(r) \/ LockRow(r) \/ Commit(r) \/ Abort(r)

Finished == (\A r \in Requests : pc[r] = "done") /\ UNCHANGED vars
Next == (\E r \in Requests : Step(r)) \/ Finished

(* A worker goes on with its request; the server grants a free row lock and  *)
(* detects a deadlock.                                                       *)
Spec == Init /\ [][Next]_vars /\ \A r \in Requests : WF_vars(Step(r))

-----------------------------------------------------------------------------
(* Every unit is in a lot or was taken by some request, and a transfer loses  *)
(* none, whichever requests save remaining_qty of the same lots.              *)
UnitsConserved ==
  \A p \in Positions : Stock(stock, p) + gone[p] = Stock(found, p) + entered[p]

(* A count leaves the quantity that was counted, on the lots and on the       *)
(* balance, unless the balance was already stale when it was read or another  *)
(* request moved goods of the cell before the count was saved.                *)
CountHolds ==
  [][\A r \in Requests :
       job[r].kind = "count" /\ exact[r] /\ pc[r] = "queued" /\ stock' # stock /\ pc'[r] = "done"
         => stock'[From(r)] = job[r].qty /\ balance'[From(r)] = job[r].qty]_vars

(* Every request is answered, although requests on different positions wait   *)
(* for the balance rows of the whole warehouse, two or more in a circle.      *)
Answered == \A r \in Requests : <>(pc[r] = "done")

(* Reservations and dispatches, of whatever positions, leave the balances     *)
(* equal to the totals of the lots if nothing else runs: each locks its       *)
(* balance row before it reads a lot, so that no other one commits until it   *)
(* has written its totals.                                                    *)
BalancesAgree ==
  (\A r \in Requests : job[r].kind \in {"reserve", "ship"}) => balance = stock
=============================================================================
