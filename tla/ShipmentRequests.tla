-------------------------- MODULE ShipmentRequests --------------------------
(* Requests on one shipment that run at the same time.  PostgreSQL runs them *)
(* READ COMMITTED: each reads rows before its transaction, waits for the row *)
(* lock of the shipment, checks again part of what it read, and writes the   *)
(* rest from what it read at first.                                          *)
(*                                                                           *)
(* The shipment sends Quantity units, the whole of one reservation line; the *)
(* line belongs to an order line (linked) or was reserved by hand.  Between  *)
(* its lock and its commit a request is one step: no other request writes    *)
(* the rows it has locked, and none sees what is not committed.              *)
EXTENDS Integers

CONSTANTS Requests,  \* requests of one run of the web workers
          Kinds,     \* what they may ask
          Quantity,  \* units of the shipment
          NoRequest  \* the holder of a free row lock

ASSUME RequestsAssumption ==
  /\ NoRequest \notin Requests
  /\ Kinds \subseteq {"dispatch", "cancel", "deliver", "release", "return"}
  /\ Quantity \in Nat \ {0}

VARIABLES kind,     \* kind[r]: what request r asks
          pc,       \* pc[r]: "start", "waiting", "locked" or "done"
          seen,     \* seen[r]: the rows r read before its transaction
          lock,     \* the request that holds the row lock of the shipment
          ship,     \* Shipment: status, inventory_consumed_at
          line,     \* ReservationItem: fulfilled_quantity, released_quantity
          linked,   \* the line has an order line
          held,     \* reserved_qty of the order line's allocations
          moved,    \* units taken from the lots (movements of the shipment)
          returned, \* ManagerDeal.returned_to_stock_at is set
          back      \* units put back into new lots

vars == <<kind, pc, seen, lock, ship, line, linked, held, moved, returned, back>>
rows == <<ship, line, held, moved, returned, back>>

Statuses == {"pending", "shipped", "delivered", "cancelled"}
Sent     == {"shipped", "delivered"}
Locking  == {"dispatch", "cancel", "deliver"}

Shipment == [status : Statuses, consumed : BOOLEAN]
Line     == [ful : Nat, rel : Nat]

TypeOK ==
  /\ kind \in [Requests -> Kinds]
  /\ pc \in [Requests -> {"start", "waiting", "locked", "done"}]
  /\ seen \in [Requests -> [ship : Shipment, line : Line]]
  /\ lock \in Requests \cup {NoRequest}
  /\ ship \in Shipment
  /\ line \in Line
  /\ linked \in BOOLEAN
  /\ held \in Nat /\ moved \in Nat /\ back \in Nat
  /\ returned \in BOOLEAN

Init ==
  /\ kind \in [Requests -> Kinds]
  /\ pc = [r \in Requests |-> "start"]
  /\ ship = [status |-> "pending", consumed |-> FALSE]
  /\ line = [ful |-> 0, rel |-> 0]
  /\ seen = [r \in Requests |-> [ship |-> ship, line |-> line]]
  /\ lock = NoRequest
  /\ linked \in BOOLEAN
  /\ held = IF linked THEN Quantity ELSE 0
  /\ moved = 0
  /\ returned = FALSE
  /\ back = 0

-----------------------------------------------------------------------------
Open(ln) == Quantity - ln.ful - ln.rel          \* active_reserved_quantity
Unbounded(m, n) == n     \* mutant: releases units that are not reserved
Lesser(m, n) == IF m < n THEN m ELSE n

(* The checks of a request on the rows it reads first.                       *)
Accepted(k, s, ret) ==
  \/ k = "dispatch" /\ ~s.consumed /\ s.status # "cancelled"
  \/ k = "cancel" /\ ~s.consumed /\ s.status = "pending"
  \/ k = "deliver" /\ s.status # "cancelled" /\ (s.consumed \/ s.status \in Sent)
  \/ k = "release"
  \/ k = "return" /\ s.status \in Sent /\ ~ret

(* The checks repeated on the locked row.                                    *)
TrustingConfirmed(k, s) == TRUE \/ s.consumed     \* mutant: none is repeated
Confirmed(k, s) ==
  \/ k = "dispatch" /\ ~s.consumed
  \/ k \in {"cancel", "deliver"} /\ s.status # "cancelled"

Begin(r) ==
  /\ pc[r] = "start"
  /\ seen' = [seen EXCEPT ![r] = [ship |-> ship, line |-> line]]
  /\ pc' = [pc EXCEPT ![r] =
              IF Accepted(kind[r], ship, returned) THEN "waiting" ELSE "done"]
  /\ UNCHANGED <<kind, lock, linked, rows>>

Lock(r) ==
  /\ pc[r] = "waiting"
  /\ kind[r] \in Locking
  /\ lock = NoRequest
  /\ IF Confirmed(kind[r], ship)
     THEN pc' = [pc EXCEPT ![r] = "locked"] /\ lock' = r
     ELSE pc' = [pc EXCEPT ![r] = "done"] /\ lock' = lock
  /\ UNCHANGED <<kind, seen, linked, rows>>

LeakyFinish(r) ==     \* mutant: the transaction stays open
  /\ pc' = [pc EXCEPT ![r] = "done"]
  /\ UNCHANGED <<kind, seen, linked, lock>>
Finish(r) ==
  /\ pc' = [pc EXCEPT ![r] = "done"]
  /\ lock' = IF lock = r THEN NoRequest ELSE lock
  /\ UNCHANGED <<kind, seen, linked>>

-----------------------------------------------------------------------------
(* The item is checked against the reservation line read before the lock and *)
(* against the order's shipped allocations of now; the lots may lack units   *)
(* all the same.  The new status is the order's.                             *)
Shippable(r) ==
  /\ Quantity =< Open(seen[r].line)
  /\ linked => moved = 0

Dispatch(r) ==
  /\ kind[r] = "dispatch"
  /\ pc[r] = "locked"
  /\ Finish(r)
  /\ \/ /\ Shippable(r)
        /\ held' = held - Lesser(held, Quantity)
        /\ moved' = moved + Quantity
        /\ line' = [seen[r].line EXCEPT !.ful = @ + Quantity]
        /\ \E st \in Sent : ship' = [status |-> st, consumed |-> TRUE]
     \/ UNCHANGED <<held, moved, line, ship>>
  /\ UNCHANGED <<returned, back>>

(* The RELEASE movement of the line in the form r has read.                  *)
ReleaseLine(r) ==
  LET q == Open(seen[r].line) IN
  IF linked /\ q > 0
  THEN /\ held' = held - Lesser(held, q)
       /\ line' = [seen[r].line EXCEPT !.rel = @ + q]
  ELSE UNCHANGED <<held, line>>

Cancel(r) ==
  /\ kind[r] = "cancel"
  /\ pc[r] = "locked"
  /\ Finish(r)
  /\ ReleaseLine(r)
  /\ ship' = [ship EXCEPT !.status = "cancelled"]
  /\ UNCHANGED <<moved, returned, back>>

Deliver(r) ==
  /\ kind[r] = "deliver"
  /\ pc[r] = "locked"
  /\ Finish(r)
  /\ ship' = [status |-> "delivered", consumed |-> TRUE]
  /\ UNCHANGED <<line, held, moved, returned, back>>

(* release_order_reservations does not lock the shipment.                    *)
Release(r) ==
  /\ kind[r] = "release"
  /\ pc[r] = "waiting"
  /\ Finish(r)
  /\ ReleaseLine(r)
  /\ UNCHANGED <<ship, moved, returned, back>>

(* reverse_shipment_for_manager_deal does not read the deal again.           *)
Return(r) ==
  /\ kind[r] = "return"
  /\ pc[r] = "waiting"
  /\ Finish(r)
  /\ back' = back + Quantity
  /\ returned' = TRUE
  /\ UNCHANGED <<ship, line, held, moved>>

Step(r) ==
  Begin(r) \/ Lock(r) \/ Dispatch(r) \/ Cancel(r) \/ Deliver(r) \/ Release(r) \/ Return(r)

Done == (\A r \in Requests : pc[r] = "done") /\ UNCHANGED vars
Next == (\E r \in Requests : Step(r)) \/ Done

(* A worker goes on with its request, and the server gives a free row lock   *)
(* to one that waits for it.                                                 *)
Spec == Init /\ [][Next]_vars /\ \A r \in Requests : WF_vars(Step(r))

-----------------------------------------------------------------------------
(* The goods of a shipment leave the warehouse once, however many requests    *)
(* dispatch it, with or without an order line that would refuse a second.     *)
TakenOnce == moved =< Quantity

(* inventory_consumed_at is set exactly when the goods were taken, whichever  *)
(* of dispatch and delivery set it.                                           *)
ConsumedIsTaken == ship.consumed <=> moved > 0

(* Every request is answered: no row lock is kept.                            *)
Answered == \A r \in Requests : <>(pc[r] = "done")
=============================================================================
