---------------------- MODULE ShipmentRequests_proofs ----------------------
(* The row lock of the shipment and the checks repeated under it let one     *)
(* dispatch take the goods, for any number of requests of any kinds.         *)
EXTENDS ShipmentRequests, TLAPS

(* Only the holder of the lock is inside its transaction.                    *)
LockInv == \A r \in Requests : pc[r] = "locked" <=> lock = r

(* What a request may still rely on of the checks it has made: a dispatch    *)
(* under the lock that the goods are there, a delivery that they are gone.   *)
ChecksInv ==
  \A r \in Requests :
    /\ kind[r] = "dispatch" /\ pc[r] = "locked" => ~ship.consumed
    /\ kind[r] = "deliver" /\ pc[r] \in {"waiting", "locked"} => ship.consumed

Inv ==
  /\ TypeOK
  /\ moved \in {0, Quantity}
  /\ ConsumedIsTaken
  /\ ship.status \in Sent => ship.consumed
  /\ LockInv
  /\ ChecksInv

-----------------------------------------------------------------------------
(* A request that ends its transaction, or is refused, frees the lock.       *)
LEMMA FinishLock ==
  ASSUME TypeOK, LockInv, NEW r \in Requests, Finish(r)
  PROVE  /\ LockInv'
         /\ pc' \in [Requests -> {"start", "waiting", "locked", "done"}]
         /\ lock' \in Requests \cup {NoRequest}
         /\ \A q \in Requests : q # r => pc'[q] = pc[q]
         /\ pc'[r] = "done"
BY RequestsAssumption DEF Finish, TypeOK, LockInv

(* The other checks outlive a step that sets the stock flag while it holds   *)
(* the lock, or leaves the flag alone.                                       *)
LEMMA FinishChecks ==
  ASSUME Inv, NEW r \in Requests, Finish(r),
         \/ ship'.consumed = ship.consumed
         \/ pc[r] = "locked" /\ ship'.consumed
  PROVE  ChecksInv'
<1> SUFFICES ASSUME NEW q \in Requests
             PROVE  /\ kind[q] = "dispatch" /\ pc'[q] = "locked" => ~ship'.consumed
                    /\ kind[q] = "deliver" /\ pc'[q] \in {"waiting", "locked"}
                         => ship'.consumed
  BY DEF Finish, ChecksInv
<1>1. CASE q = r
  BY <1>1, FinishLock DEF Inv
<1>2. CASE q # r
  <2>1. pc'[q] = pc[q]
    BY <1>2, FinishLock DEF Inv
  <2>2. pc[r] = "locked" => pc[q] # "locked"
    BY <1>2 DEF Inv, LockInv
  <2> QED
    BY <2>1, <2>2 DEF Inv, ChecksInv
<1> QED
  BY <1>1, <1>2

LEMMA ReleaseLineType ==
  ASSUME TypeOK, NEW r \in Requests, ReleaseLine(r)
  PROVE  held' \in Nat /\ line' \in Line
<1>1. seen[r].line \in Line /\ seen[r].line.ful \in Nat /\ seen[r].line.rel \in Nat
  BY DEF TypeOK, Line
<1>2. Open(seen[r].line) \in Int
  BY <1>1, RequestsAssumption DEF Open
<1>3. CASE linked /\ Open(seen[r].line) > 0
  <2> DEFINE q == Open(seen[r].line)
  <2>1. held - Lesser(held, q) \in Nat
    BY <1>2, <1>3 DEF TypeOK, Lesser
  <2>2. held' = held - Lesser(held, q)
    BY <1>3 DEF ReleaseLine
  <2>3. line' = [seen[r].line EXCEPT !.rel = seen[r].line.rel + q]
    BY <1>1, <1>3 DEF ReleaseLine, Line
  <2> QED
    BY <1>1, <1>2, <1>3, <2>1, <2>2, <2>3 DEF Line
<1>4. CASE ~(linked /\ Open(seen[r].line) > 0)
  BY <1>4 DEF ReleaseLine, TypeOK
<1> QED
  BY <1>3, <1>4

-----------------------------------------------------------------------------
LEMMA BeginInv ==
  ASSUME Inv, NEW r \in Requests, Begin(r)
  PROVE  Inv'
<1>1. TypeOK'
  BY DEF Inv, TypeOK, Begin, rows
<1>2. LockInv'
  BY DEF Inv, TypeOK, LockInv, Begin
<1>3. ChecksInv'
  BY DEF Inv, TypeOK, ChecksInv, Begin, rows, Accepted
<1> QED
  BY <1>1, <1>2, <1>3 DEF Inv, Begin, rows, ConsumedIsTaken

LEMMA LockStepInv ==
  ASSUME Inv, NEW r \in Requests, Lock(r)
  PROVE  Inv'
<1>1. TypeOK'
  BY DEF Inv, TypeOK, Lock, rows
<1>2. LockInv'
  BY RequestsAssumption DEF Inv, TypeOK, LockInv, Lock
<1>3. ChecksInv'
  BY DEF Inv, TypeOK, ChecksInv, Lock, rows, Confirmed
<1> QED
  BY <1>1, <1>2, <1>3 DEF Inv, Lock, rows, ConsumedIsTaken

LEMMA DispatchInv ==
  ASSUME Inv, NEW r \in Requests, Dispatch(r)
  PROVE  Inv'
<1>1. Finish(r) /\ pc[r] = "locked" /\ kind[r] = "dispatch"
  BY DEF Dispatch
<1>2. ~ship.consumed /\ moved = 0
  BY <1>1, RequestsAssumption DEF Inv, ChecksInv, ConsumedIsTaken
<1>3. CASE UNCHANGED <<held, moved, line, ship>>
  <2>1. ChecksInv'
    BY <1>1, <1>3, FinishChecks
  <2>2. LockInv' /\ TypeOK'
    BY <1>1, <1>3, FinishLock DEF Inv, TypeOK, Dispatch, Finish
  <2> QED
    BY <1>3, <2>1, <2>2 DEF Inv, ConsumedIsTaken
<1>4. CASE /\ held' = held - Lesser(held, Quantity)
           /\ moved' = moved + Quantity
           /\ line' = [seen[r].line EXCEPT !.ful = @ + Quantity]
           /\ \E st \in Sent : ship' = [status |-> st, consumed |-> TRUE]
  <2>1. ship' \in Shipment /\ ship'.consumed
    BY <1>4 DEF Sent, Shipment, Statuses
  <2>2. moved' = Quantity /\ Quantity > 0
    BY <1>2, <1>4, RequestsAssumption
  <2>3. held' \in Nat
    BY <1>4, RequestsAssumption DEF Inv, TypeOK, Lesser
  <2>4. line' \in Line
    <3>1. seen[r].line \in Line
      BY DEF Inv, TypeOK
    <3> QED
      BY <1>4, <3>1, RequestsAssumption DEF Line
  <2>5. ChecksInv'
    BY <1>1, <2>1, FinishChecks
  <2>6. LockInv' /\ TypeOK'
    BY <1>1, <2>1, <2>2, <2>3, <2>4, FinishLock, RequestsAssumption
    DEF Inv, TypeOK, Dispatch, Finish
  <2> QED
    BY <2>1, <2>2, <2>5, <2>6 DEF Inv, ConsumedIsTaken
<1> QED
  BY <1>3, <1>4 DEF Dispatch

LEMMA CancelInv ==
  ASSUME Inv, NEW r \in Requests, Cancel(r)
  PROVE  Inv'
<1>1. Finish(r) /\ ReleaseLine(r)
  BY DEF Cancel
<1>2. ship' \in Shipment /\ ship'.consumed = ship.consumed /\ ship'.status = "cancelled"
  BY DEF Cancel, Inv, TypeOK, Shipment, Statuses
<1>3. ChecksInv'
  BY <1>1, <1>2, FinishChecks
<1>4. LockInv' /\ TypeOK'
  BY <1>1, <1>2, FinishLock, ReleaseLineType DEF Inv, TypeOK, Cancel, Finish
<1> QED
  BY <1>2, <1>3, <1>4 DEF Inv, Cancel, ConsumedIsTaken, Sent

LEMMA DeliverInv ==
  ASSUME Inv, NEW r \in Requests, Deliver(r)
  PROVE  Inv'
<1>1. Finish(r) /\ pc[r] = "locked" /\ kind[r] = "deliver"
  BY DEF Deliver
<1>2. ship.consumed
  BY <1>1 DEF Inv, ChecksInv
<1>3. ship' \in Shipment /\ ship'.consumed
  BY DEF Deliver, Shipment, Statuses
<1>4. ChecksInv'
  BY <1>1, <1>3, FinishChecks
<1>5. LockInv' /\ TypeOK'
  BY <1>1, <1>3, FinishLock DEF Inv, TypeOK, Deliver, Finish
<1> QED
  BY <1>2, <1>3, <1>4, <1>5 DEF Inv, Deliver, ConsumedIsTaken

LEMMA ReleaseInv ==
  ASSUME Inv, NEW r \in Requests, Release(r)
  PROVE  Inv'
<1>1. Finish(r) /\ ReleaseLine(r) /\ ship' = ship
  BY DEF Release
<1>2. ChecksInv'
  BY <1>1, FinishChecks
<1>3. LockInv' /\ TypeOK'
  BY <1>1, FinishLock, ReleaseLineType DEF Inv, TypeOK, Release, Finish
<1> QED
  BY <1>2, <1>3 DEF Inv, Release, ConsumedIsTaken

LEMMA ReturnInv ==
  ASSUME Inv, NEW r \in Requests, Return(r)
  PROVE  Inv'
<1>1. Finish(r) /\ ship' = ship
  BY DEF Return
<1>2. ChecksInv'
  BY <1>1, FinishChecks
<1>3. back' \in Nat
  BY RequestsAssumption DEF Inv, TypeOK, Return
<1>4. returned' \in BOOLEAN /\ UNCHANGED <<line, held, moved>>
  BY DEF Return
<1>5. LockInv' /\ TypeOK'
  BY <1>1, <1>3, <1>4, FinishLock DEF Inv, TypeOK, Finish
<1> QED
  BY <1>1, <1>2, <1>4, <1>5 DEF Inv, ConsumedIsTaken

(* The invariant of the requests holds of every behaviour.                   *)
THEOREM RequestsInvariant == Spec => []Inv
<1>1. ASSUME Init
      PROVE  Inv
  <2>1. /\ ship \in Shipment /\ line \in Line
        /\ ~ship.consumed /\ ship.status = "pending"
    BY <1>1 DEF Init, Shipment, Line, Statuses
  <2>2. seen \in [Requests -> [ship : Shipment, line : Line]]
    BY <1>1, <2>1 DEF Init
  <2>3. held \in Nat /\ moved = 0 /\ back = 0
    BY <1>1, RequestsAssumption DEF Init
  <2>4. /\ pc \in [Requests -> {"start", "waiting", "locked", "done"}]
        /\ lock \in Requests \cup {NoRequest}
        /\ kind \in [Requests -> Kinds] /\ linked \in BOOLEAN /\ returned \in BOOLEAN
    BY <1>1 DEF Init
  <2>5. LockInv /\ ChecksInv
    BY <1>1, RequestsAssumption DEF Init, LockInv, ChecksInv
  <2> QED
    BY <2>1, <2>2, <2>3, <2>4, <2>5 DEF Inv, TypeOK, ConsumedIsTaken, Sent
<1>2. Inv /\ [Next]_vars => Inv'
  <2> SUFFICES ASSUME Inv, [Next]_vars
               PROVE  Inv'
    OBVIOUS
  <2>1. CASE UNCHANGED vars
    BY <2>1 DEF vars, Inv, TypeOK, LockInv, ChecksInv, ConsumedIsTaken
  <2>2. ASSUME NEW r \in Requests, Step(r)
        PROVE  Inv'
    BY <2>2, BeginInv, LockStepInv, DispatchInv, CancelInv, DeliverInv, ReleaseInv, ReturnInv
    DEF Step
  <2> QED
    BY <2>1, <2>2 DEF Next, Done
<1> QED
  BY <1>1, <1>2, PTL DEF Spec

(* The rows of the shipment and of its reservation line keep their types,    *)
(* and no request that ends leaves a stage that the code does not have.      *)
THEOREM TypeCorrect == Spec => []TypeOK
<1>1. Inv => TypeOK
  BY DEF Inv
<1> QED
  BY <1>1, RequestsInvariant, PTL

(* However many requests dispatch a shipment, its goods leave once.          *)
THEOREM GoodsTakenOnce == Spec => []TakenOnce
<1>1. Inv => TakenOnce
  BY RequestsAssumption DEF Inv, TakenOnce
<1> QED
  BY <1>1, RequestsInvariant, PTL

(* The stock flag of the shipment tells whether its goods are gone.          *)
THEOREM FlagTellsTaken == Spec => []ConsumedIsTaken
<1>1. Inv => ConsumedIsTaken
  BY DEF Inv
<1> QED
  BY <1>1, RequestsInvariant, PTL
=============================================================================
