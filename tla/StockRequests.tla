--------------------------- MODULE StockRequests ---------------------------
(* Requests on the lots of one catalogue position of one warehouse that run  *)
(* at the same time, READ COMMITTED.  A reservation and the dispatch of an   *)
(* order line lock the balance row and then the lots; a write-off and the    *)
(* dispatch of a line without an order line lock lots and then, when they    *)
(* rebuild the cache, the balance row; a receipt locks the balance row only. *)
(* PostgreSQL aborts one of two requests that wait for each other.           *)
(*                                                                           *)
(* The rebuild writes the balance rows of all positions of the warehouse.    *)
(* "elsewhere" is a write-off, a receipt or a dispatch without an order line *)
(* of another position, which writes this balance too: it holds nothing of   *)
(* this position before.                                                     *)
(*                                                                           *)
(* What a request writes under its last lock it commits in the same step: no *)
(* other request sees the rows before.  The lots are numbered in FIFO order. *)
EXTENDS Integers, Functions

CONSTANTS NumRequests,  \* requests of one run of the web workers
          Kinds,        \* what they may ask
          NumLots,      \* lots in stock when they start
          Units,        \* units that each of them asks for
          MaxUnits,     \* bound: units of one lot at the start, or backfilled
          Surplus       \* bound: units of the first balance that no lot has

ASSUME StockRequestsAssumption ==
  /\ NumRequests \in Nat \ {0}
  /\ NumLots \in Nat
  /\ Kinds \subseteq {"receive", "reserve", "ship", "writeoff", "manual", "elsewhere"}
  /\ Units \in Nat \ {0}
  /\ MaxUnits \in Nat
  /\ Surplus \in Nat

VARIABLES kind,      \* kind[r]: what request r asks
          pc,        \* pc[r]: "start", "queued", "holding" or "done"
          seen,      \* seen[r][l]: remaining_qty of l as r has read it
          plan,      \* plan[r][l]: units r is to take from l
          cover,     \* cover[r]: missing_qty that r has worked out
          total,     \* total[r]: the quantity r is to write on the balance
          balLock,   \* the request that holds the row lock of the balance
          lotLock,   \* lotLock[l]: the one that holds the row lock of lot l
          remaining, \* remaining[l]: InventoryLot.remaining_qty
          received,  \* received[l]: InventoryLot.received_qty, 0 before l is there
          taken,     \* taken[l]: units that shipments and write-offs record of l
          held,      \* held[r][l]: reserved_qty for the order line of r
          balance,   \* InventoryBalance.quantity
          entered    \* units on the first balance, and those received since

vars == <<kind, pc, seen, plan, cover, total, balLock, lotLock, remaining,
          received, taken, held, balance, entered>>

Requests == 1..NumRequests
NoRequest == 0
LotOf(r) == NumLots + r       \* the lot that r creates, if it creates one
Lots     == 1..(NumLots + NumRequests)
None     == [l \in Lots |-> 0]

BalanceFirst == {"reserve", "ship"}
LotsFirst    == {"writeoff", "manual"}

TypeOK ==
  /\ kind \in [Requests -> Kinds]
  /\ pc \in [Requests -> {"start", "queued", "holding", "done"}]
  /\ seen \in [Requests -> [Lots -> Nat]]
  /\ plan \in [Requests -> [Lots -> Nat]]
  /\ cover \in [Requests -> Nat]
  /\ lotLock \in [Lots -> Requests \cup {NoRequest}]
  /\ remaining \in [Lots -> Nat]
  /\ received \in [Lots -> Nat]
  /\ taken \in [Lots -> Nat]
  /\ held \in [Requests -> [Lots -> Nat]]

-----------------------------------------------------------------------------
NonNeg(n) == IF n > 0 THEN n ELSE 0
Sum(f)    == SumFunction(f)
HeldOn(h, l) == Sum([r \in Requests |-> h[r][l]])      \* _reserved_quantity_for_lot

(* rebuild_inventory_balance_cache: the quantity for lots that have stock.   *)
Rebuilt(stock) == Sum(stock)

(* The ways to take Units from lots that offer avail, oldest lot first.      *)
UncheckedFifo(avail) ==      \* mutant: no min(available, needed)
  {t \in [Lots -> 0..Units] : Sum(t) = Units /\ DOMAIN avail = Lots}
Fifo(avail) ==
  {t \in [Lots -> 0..Units] :
     /\ Sum(t) = Units
     /\ \A l \in Lots : t[l] > 0 => /\ t[l] =< avail[l]
                                    /\ \A m \in 1..(l - 1) : t[m] = avail[m]}

(* The lots in stock are whole; the order lines to be shipped may have units *)
(* reserved; the balance may stand for units without a lot.                  *)
Init ==
  /\ kind \in [Requests -> Kinds]
  /\ pc = [r \in Requests |-> "start"]
  /\ seen = [r \in Requests |-> None]
  /\ plan = [r \in Requests |-> None]
  /\ cover = [r \in Requests |-> 0]
  /\ total = [r \in Requests |-> 0]
  /\ balLock = NoRequest
  /\ lotLock = [l \in Lots |-> NoRequest]
  /\ \E s \in [1..NumLots -> 0..MaxUnits] :
       remaining = [l \in Lots |-> IF l =< NumLots THEN s[l] ELSE 0]
  /\ received = remaining
  /\ taken = None
  /\ \E h \in [{r \in Requests : kind[r] = "ship"} -> Lots \cup {0}] :
       held = [r \in Requests |-> [l \in Lots |->
                 IF kind[r] = "ship" /\ h[r] = l THEN Units ELSE 0]]
  /\ \A l \in Lots : HeldOn(held, l) =< remaining[l]
  /\ \E n \in 0..Surplus : balance = Sum(remaining) + n
  /\ entered = balance

-----------------------------------------------------------------------------
(* Begin: the rows a request reads before it waits for a lock.               *)
Quiet(r) == UNCHANGED <<kind, balLock, lotLock, remaining, received, taken,
                        held, balance, entered>>
Goes(r, where) == pc' = [pc EXCEPT ![r] = where]

(* receipt_inventory creates the lot and adds up the lots it sees.           *)
BeginReceive(r) ==
  /\ kind[r] = "receive" /\ pc[r] = "start"
  /\ total' = [total EXCEPT ![r] = Rebuilt(remaining) + Units]
  /\ Goes(r, "queued") /\ Quiet(r)
  /\ UNCHANGED <<seen, plan, cover>>

(* rebuild_inventory_balance_cache for another position adds up these lots.  *)
BeginElsewhere(r) ==
  /\ kind[r] = "elsewhere" /\ pc[r] = "start"
  /\ total' = [total EXCEPT ![r] = Rebuilt(remaining)]
  /\ Goes(r, "queued") /\ Quiet(r)
  /\ UNCHANGED <<seen, plan, cover>>

(* _lock_matching_lots: the lots the statement will lock one after another.  *)
BeginWriteoff(r) ==
  /\ kind[r] = "writeoff" /\ pc[r] = "start"
  /\ seen' = [seen EXCEPT ![r] = remaining]
  /\ Goes(r, "queued") /\ Quiet(r)
  /\ UNCHANGED <<plan, cover, total>>

(* _consume_lots_without_allocation plans on lots it has not locked.         *)
BeginManual(r) ==
  /\ kind[r] = "manual" /\ pc[r] = "start"
  /\ seen' = [seen EXCEPT ![r] = remaining]
  /\ \/ \E t \in Fifo(remaining) :
          plan' = [plan EXCEPT ![r] = t] /\ Goes(r, "queued")
     \/ Fifo(remaining) = {} /\ plan' = plan /\ Goes(r, "done")
  /\ Quiet(r)
  /\ UNCHANGED <<cover, total>>

-----------------------------------------------------------------------------
(* Reservation and dispatch: the balance row first.                          *)
Unserialized == TRUE \/ balLock = NoRequest     \* mutant: no select_for_update
BalanceFree == balLock = NoRequest

(* _ensure_lot_coverage_from_balance, under the lock of the balance row.     *)
LockBalance(r) ==
  /\ kind[r] \in BalanceFirst /\ pc[r] = "start"
  /\ BalanceFree
  /\ balLock' = r
  /\ \E n \in 0..MaxUnits :
       n = NonNeg(balance - Sum(remaining)) /\ cover' = [cover EXCEPT ![r] = n]
  /\ Goes(r, "holding")
  /\ UNCHANGED <<kind, seen, plan, total, lotLock, remaining, received, taken,
                 held, balance, entered>>

InStock   == {l \in Lots : remaining[l] > 0}
Unlocked(S) == \A l \in S : lotLock[l] = NoRequest
WithCover(r) == [remaining EXCEPT ![LotOf(r)] = @ + cover[r]]

Unheld(stock, h) == stock                          \* mutant: holds are ignored
LotFree(stock, h) == [l \in Lots |-> NonNeg(stock[l] - HeldOn(h, l))]

Commit(r) ==
  /\ Goes(r, "done")
  /\ balLock' = IF balLock = r THEN NoRequest ELSE balLock
  /\ lotLock' = [l \in Lots |-> IF lotLock[l] = r THEN NoRequest ELSE lotLock[l]]
  /\ UNCHANGED <<kind, seen, plan, cover, total>>

Rollback(r) == Commit(r) /\ UNCHANGED <<remaining, received, taken, held, balance, entered>>

(* allocate_inventory_to_order_item once it has the locks of the lots: what  *)
(* it takes, the backfilled lot, the cache; a shortage is a ValueError.      *)
Allocated(r, t) ==
  /\ remaining' = IF kind[r] = "ship" THEN [l \in Lots |-> WithCover(r)[l] - t[l]]
                                      ELSE WithCover(r)
  /\ received' = [received EXCEPT ![LotOf(r)] = @ + cover[r]]
  /\ taken' = IF kind[r] = "ship" THEN [l \in Lots |-> taken[l] + t[l]] ELSE taken
  /\ held' = [held EXCEPT ![r] = IF kind[r] = "ship" THEN None ELSE t]
  /\ balance' = Rebuilt(remaining')
  /\ UNCHANGED entered

Offered(r) == IF kind[r] = "ship" THEN WithCover(r) ELSE LotFree(WithCover(r), held)

Allocate(r) ==
  /\ kind[r] \in BalanceFirst /\ pc[r] = "holding"
  /\ Unlocked(InStock)
  /\ \/ (\E t \in Fifo(Offered(r)) : Allocated(r, t)) /\ Commit(r)
     \/ Fifo(Offered(r)) = {} /\ Rollback(r)

-----------------------------------------------------------------------------
(* Write-off and dispatch without an order line: lots first.                 *)
Wanted(r) == {l \in Lots : IF kind[r] = "writeoff" THEN seen[r][l] > 0 ELSE plan[r][l] > 0}

LockFor(r) == lotLock' = [l \in Lots |-> IF l \in Wanted(r) THEN r ELSE lotLock[l]]

(* _consume_inventory_fifo takes from the locked rows, which it reads again; *)
(* a lot created since its statement began is not among them.                *)
ReadAgain(r) == [l \in Lots |-> IF l \in Wanted(r) THEN remaining[l] ELSE 0]

LockForWriteoff(r) ==
  /\ kind[r] = "writeoff" /\ pc[r] = "queued"
  /\ Unlocked(Wanted(r))
  /\ \/ /\ \E t \in Fifo(ReadAgain(r)) :
             /\ plan' = [plan EXCEPT ![r] = t]
             /\ total' = [total EXCEPT ![r] =
                            Rebuilt([l \in Lots |-> remaining[l] - t[l]])]
        /\ seen' = [seen EXCEPT ![r] = ReadAgain(r)]
        /\ LockFor(r)
        /\ Goes(r, "holding")
        /\ UNCHANGED <<kind, cover, balLock, remaining, received, taken, held,
                       balance, entered>>
     \/ Fifo(ReadAgain(r)) = {} /\ Rollback(r)

(* The lot that a request leaves: what it has read less what it takes.       *)
Left(r) == [l \in Lots |-> IF plan[r][l] > 0 THEN seen[r][l] - plan[r][l] ELSE remaining[l]]

(* Saving a lot locks its row: what it holds by then is overwritten.         *)
LockForManual(r) ==
  /\ kind[r] = "manual" /\ pc[r] = "queued"
  /\ Unlocked(Wanted(r))
  /\ total' = [total EXCEPT ![r] = Rebuilt(Left(r))]
  /\ LockFor(r)
  /\ Goes(r, "holding")
  /\ UNCHANGED <<kind, seen, plan, cover, balLock, remaining, received, taken, held,
                 balance, entered>>

(* rebuild_inventory_balance_cache waits for the balance row and writes the  *)
(* total it has read before.                                                 *)
Consume(r) ==
  /\ kind[r] \in LotsFirst /\ pc[r] = "holding"
  /\ BalanceFree
  /\ remaining' = Left(r)
  /\ taken' = [l \in Lots |-> taken[l] + plan[r][l]]
  /\ balance' = total[r]
  /\ Commit(r)
  /\ UNCHANGED <<received, held, entered>>

Receive(r) ==
  /\ kind[r] = "receive" /\ pc[r] = "queued"
  /\ BalanceFree
  /\ remaining' = [remaining EXCEPT ![LotOf(r)] = @ + Units]
  /\ received' = [received EXCEPT ![LotOf(r)] = @ + Units]
  /\ balance' = total[r]
  /\ entered' = entered + Units
  /\ Commit(r)
  /\ UNCHANGED <<taken, held>>

(* It waits for the row in balance_queryset.update and writes the old total. *)
Rewrite(r) ==
  /\ kind[r] = "elsewhere" /\ pc[r] = "queued"
  /\ BalanceFree
  /\ balance' = total[r]
  /\ Commit(r)
  /\ UNCHANGED <<remaining, received, taken, held, entered>>

-----------------------------------------------------------------------------
(* PostgreSQL's deadlock detector: r is aborted and its transaction undone   *)
(* when the request that r waits for waits for r.                            *)
Blockers(r) ==
  IF pc[r] # "holding" THEN {}
  ELSE IF kind[r] \in BalanceFirst THEN {lotLock[l] : l \in InStock} \ {NoRequest}
  ELSE {balLock} \ {NoRequest}

Deadlocked(r) == \E s \in Blockers(r) : r \in Blockers(s)

Abort(r) == Deadlocked(r) /\ Rollback(r)

Step(r) ==
  \/ BeginReceive(r) \/ BeginElsewhere(r) \/ BeginWriteoff(r) \/ BeginManual(r)
  \/ LockBalance(r) \/ LockForWriteoff(r) \/ LockForManual(r)
  \/ Allocate(r) \/ Consume(r) \/ Receive(r) \/ Rewrite(r) \/ Abort(r)

Done == (\A r \in Requests : pc[r] = "done") /\ UNCHANGED vars
Next == (\E r \in Requests : Step(r)) \/ Done

(* A worker goes on with its request; the server grants a free row lock and  *)
(* detects a deadlock.                                                       *)
Spec == Init /\ [][Next]_vars /\ \A r \in Requests : WF_vars(Step(r))

-----------------------------------------------------------------------------
(* Every unit of a lot is still there or was recorded as gone: two requests   *)
(* that take from one lot do not overwrite each other's remaining_qty.        *)
UnitsConserved == \A l \in Lots : received[l] = remaining[l] + taken[l]

(* No unit of a lot is reserved for two order lines.                          *)
NeverHeldTwice == \A l \in Lots : HeldOn(held, l) =< received[l]

(* Every request is answered, also one that waits for another that waits for  *)
(* it.                                                                        *)
Answered == \A r \in Requests : <>(pc[r] = "done")

(* The lots never stand for more units than were received or on the balance   *)
(* when the lots were introduced: the backfill counts no unit twice.          *)
NoPhantomStock == Sum(received) =< entered

(* Reservations, dispatches of order lines and write-offs of one position     *)
(* keep that promise of the lock in allocate_inventory_to_order_item among    *)
(* themselves: two of them never backfill from the same balance, although a   *)
(* write-off writes a total that it added up before it had the balance row.   *)
(* It takes that nobody receives goods meanwhile, and that nobody writes this *)
(* balance while moving goods of another position.                            *)
CoveredOnce ==
  (\A r \in Requests : kind[r] \in {"reserve", "ship", "writeoff"}) => NoPhantomStock
=============================================================================
