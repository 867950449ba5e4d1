------------------------ MODULE StockRequests_proofs ------------------------
(* What holds of concurrent requests on the lots of a position for every     *)
(* number of requests, lots and units: types, that no update of a lot is     *)
(* lost, that no unit is held twice and that none is backfilled twice.  Only *)
(* the last two speak of what plans and holds add up to.                     *)
EXTENDS StockRequests, FiniteSetTheorems, WellFoundedInduction, TLAPS

(* A request's own lot is a lot, and no other request's.                      *)
LEMMA LotOfType ==
  ASSUME NEW r \in Requests
  PROVE  LotOf(r) \in Lots /\ \A s \in Requests : LotOf(s) = LotOf(r) => s = r
BY StockRequestsAssumption, SMT DEF LotOf, Lots, Requests

(* _consume_inventory_fifo, allocate_inventory_to_order_item: a plan takes no *)
(* more from a lot than the lot offers.                                       *)
LEMMA FifoBound ==
  ASSUME NEW avail, NEW t \in Fifo(avail)
  PROVE  /\ t \in [Lots -> 0..Units]
         /\ t \in [Lots -> Nat]
         /\ \A l \in Lots : t[l] > 0 => t[l] =< avail[l]
<1>1. t \in [Lots -> 0..Units] /\ \A l \in Lots : t[l] > 0 => t[l] =< avail[l]
  BY DEF Fifo
<1> QED
  BY <1>1, SMT

(* A plan takes no more than what the request has read of the lot, and a      *)
(* request that has read nothing yet has no plan.                             *)
PlanWithinSeen ==
  \A r \in Requests :
    /\ pc[r] = "start" => \A l \in Lots : plan[r][l] = 0
    /\ \A l \in Lots : plan[r][l] =< seen[r][l]

TInv == TypeOK /\ PlanWithinSeen

LEMMA InitTInv == Init => TInv
<1> SUFFICES ASSUME Init PROVE TInv
  OBVIOUS
<1>1. remaining \in [Lots -> Nat] /\ received = remaining
  <2>1. PICK s \in [1..NumLots -> 0..MaxUnits] :
          remaining = [l \in Lots |-> IF l =< NumLots THEN s[l] ELSE 0]
    BY DEF Init
  <2>2. \A l \in Lots : (IF l =< NumLots THEN s[l] ELSE 0) \in Nat
    BY StockRequestsAssumption, SMT DEF Lots
  <2> QED
    BY <2>1, <2>2 DEF Init
<1>2. held \in [Requests -> [Lots -> Nat]]
  BY StockRequestsAssumption DEF Init
<1>3. None \in [Lots -> Nat] /\ \A l \in Lots : None[l] = 0
  BY DEF None
<1> QED
  BY <1>1, <1>2, <1>3, SMT DEF Init, TInv, TypeOK, PlanWithinSeen

(* Ending a request releases its locks and leaves what the others work on.    *)
LEMMA CommitType ==
  ASSUME TInv, NEW r \in Requests, Commit(r)
  PROVE  /\ kind' \in [Requests -> Kinds]
         /\ pc' \in [Requests -> {"start", "queued", "holding", "done"}]
         /\ seen' \in [Requests -> [Lots -> Nat]]
         /\ plan' \in [Requests -> [Lots -> Nat]]
         /\ cover' \in [Requests -> Nat]
         /\ lotLock' \in [Lots -> Requests \cup {NoRequest}]
         /\ PlanWithinSeen'
BY DEF Commit, Goes, TInv, TypeOK, PlanWithinSeen

LEMMA RollbackType ==
  ASSUME TInv, NEW r \in Requests, Rollback(r) \/ Rewrite(r)
  PROVE  TInv'
BY CommitType DEF Rollback, Rewrite, TInv, TypeOK

LEMMA BeginType ==
  ASSUME TInv, NEW r \in Requests,
         BeginReceive(r) \/ BeginElsewhere(r) \/ BeginWriteoff(r) \/ BeginManual(r)
  PROVE  TInv'
<1> USE DEF Goes, Quiet
<1>1. CASE BeginReceive(r)
  BY <1>1 DEF BeginReceive, TInv, TypeOK, PlanWithinSeen
<1>4. CASE BeginElsewhere(r)
  BY <1>4 DEF BeginElsewhere, TInv, TypeOK, PlanWithinSeen
<1>2. CASE BeginWriteoff(r)
  BY <1>2, SMT DEF BeginWriteoff, TInv, TypeOK, PlanWithinSeen
<1>3. CASE BeginManual(r)
  <2>1. /\ seen' = [seen EXCEPT ![r] = remaining]
        /\ UNCHANGED <<kind, balLock, lotLock, remaining, received, taken, held,
                       balance, entered, cover, total>>
    BY <1>3 DEF BeginManual
  <2>2. CASE plan' = plan /\ Goes(r, "done")
    <3>1. \A l \in Lots : plan[r][l] = 0
      BY <1>3 DEF BeginManual, TInv, PlanWithinSeen
    <3> QED
      BY <2>1, <2>2, <3>1, SMT DEF TInv, TypeOK, PlanWithinSeen
  <2>3. ASSUME NEW t \in Fifo(remaining),
               plan' = [plan EXCEPT ![r] = t], Goes(r, "queued")
        PROVE  TInv'
    <3>1. t \in [Lots -> Nat] /\ \A l \in Lots : t[l] =< remaining[l]
      <4>1. t \in [Lots -> Nat] /\ \A l \in Lots : t[l] > 0 => t[l] =< remaining[l]
        BY FifoBound, <2>3
      <4>2. remaining \in [Lots -> Nat]
        BY DEF TInv, TypeOK
      <4> QED
        BY <4>1, <4>2, SMT
    <3>2. TypeOK'
      BY <2>1, <2>3, <3>1 DEF TInv, TypeOK
    <3>3. PlanWithinSeen'
      BY <2>1, <2>3, <3>1, SMT DEF TInv, TypeOK, PlanWithinSeen
    <3> QED
      BY <3>2, <3>3 DEF TInv
  <2> QED
    BY <1>3, <2>2, <2>3 DEF BeginManual
<1> QED
  BY <1>1, <1>2, <1>3, <1>4

LEMMA LockType ==
  ASSUME TInv, NEW r \in Requests,
         LockBalance(r) \/ LockForWriteoff(r) \/ LockForManual(r)
  PROVE  TInv'
<1> USE DEF Goes
<1>1. CASE LockBalance(r)
  BY <1>1, SMT DEF LockBalance, TInv, TypeOK, PlanWithinSeen
<1>2. CASE LockForManual(r)
  BY <1>2, SMT DEF LockForManual, LockFor, TInv, TypeOK, PlanWithinSeen
<1>3. CASE LockForWriteoff(r)
  <2>1. CASE Rollback(r)
    BY <2>1, RollbackType
  <2>2. ASSUME NEW t \in Fifo(ReadAgain(r)),
               plan' = [plan EXCEPT ![r] = t],
               seen' = [seen EXCEPT ![r] = ReadAgain(r)],
               LockFor(r), Goes(r, "holding"),
               UNCHANGED <<kind, cover, balLock, remaining, received, taken, held,
                           balance, entered>>
        PROVE  TInv'
    <3>1. ReadAgain(r) \in [Lots -> Nat]
      BY DEF ReadAgain, TInv, TypeOK
    <3>2. t \in [Lots -> Nat] /\ \A l \in Lots : t[l] =< ReadAgain(r)[l]
      BY FifoBound, <2>2, <3>1, SMT
    <3>3. TypeOK'
      BY <2>2, <3>1, <3>2, SMT DEF LockFor, TInv, TypeOK
    <3>4. PlanWithinSeen'
      BY <2>2, <3>1, <3>2, SMT DEF TInv, TypeOK, PlanWithinSeen
    <3> QED
      BY <3>3, <3>4 DEF TInv
  <2> QED
    BY <1>3, <2>1, <2>2 DEF LockForWriteoff
<1> QED
  BY <1>1, <1>2, <1>3

LEMMA AllocateType ==
  ASSUME TInv, NEW r \in Requests, Allocate(r)
  PROVE  TInv'
<1>1. CASE Rollback(r)
  BY <1>1, RollbackType
<1>2. ASSUME NEW t \in Fifo(Offered(r)), Allocated(r, t), Commit(r)
      PROVE  TInv'
  <2>1. WithCover(r) \in [Lots -> Nat]
    BY LotOfType, SMT DEF WithCover, TInv, TypeOK
  <2>2. t \in [Lots -> Nat]
    BY FifoBound, <1>2
  <2>3. remaining' \in [Lots -> Nat]
    <3>1. CASE kind[r] = "ship"
      <4>1. \A l \in Lots : t[l] =< WithCover(r)[l]
        BY FifoBound, <1>2, <2>1, <2>2, <3>1, SMT DEF Offered
      <4> QED
        BY <1>2, <2>1, <2>2, <3>1, <4>1, SMT DEF Allocated
    <3>2. CASE kind[r] # "ship"
      BY <1>2, <2>1, <3>2 DEF Allocated
    <3> QED
      BY <3>1, <3>2
  <2>4. received' \in [Lots -> Nat]
    BY <1>2, LotOfType, SMT DEF Allocated, TInv, TypeOK
  <2>5. taken' \in [Lots -> Nat]
    <3>1. taken \in [Lots -> Nat]
      BY DEF TInv, TypeOK
    <3>2. [l \in Lots |-> taken[l] + t[l]] \in [Lots -> Nat]
      BY <2>2, <3>1, SMT
    <3> QED
      BY <1>2, <3>1, <3>2 DEF Allocated
  <2>6. held' \in [Requests -> [Lots -> Nat]]
    <3>1. (IF kind[r] = "ship" THEN None ELSE t) \in [Lots -> Nat]
      BY <2>2, SMT DEF None
    <3> QED
      BY <1>2, <3>1 DEF Allocated, TInv, TypeOK
  <2> QED
    BY <1>2, <2>3, <2>4, <2>5, <2>6, CommitType DEF TInv, TypeOK
<1> QED
  BY <1>1, <1>2 DEF Allocate

LEMMA ConsumeType ==
  ASSUME TInv, NEW r \in Requests, Consume(r)
  PROVE  TInv'
<1>1. remaining' \in [Lots -> Nat]
  BY SMT DEF Consume, Left, TInv, TypeOK, PlanWithinSeen
<1>2. taken' \in [Lots -> Nat]
  BY SMT DEF Consume, TInv, TypeOK
<1> QED
  BY <1>1, <1>2, CommitType DEF Consume, TInv, TypeOK

LEMMA ReceiveType ==
  ASSUME TInv, NEW r \in Requests, Receive(r)
  PROVE  TInv'
<1>1. remaining' \in [Lots -> Nat] /\ received' \in [Lots -> Nat]
  BY StockRequestsAssumption, LotOfType, SMT DEF Receive, TInv, TypeOK
<1> QED
  BY <1>1, CommitType DEF Receive, TInv, TypeOK

LEMMA StepTInv == TInv /\ [Next]_vars => TInv'
<1> SUFFICES ASSUME TInv, [Next]_vars PROVE TInv'
  OBVIOUS
<1>1. ASSUME NEW r \in Requests, Step(r) PROVE TInv'
  BY <1>1, BeginType, LockType, AllocateType, ConsumeType, ReceiveType, RollbackType
     DEF Step, Abort
<1>2. CASE UNCHANGED vars
  BY <1>2 DEF vars, TInv, TypeOK, PlanWithinSeen
<1> QED
  BY <1>1, <1>2 DEF Next, Done

(* Type correctness: concurrent requests of every kind leave the columns of   *)
(* the lots and the allocations natural numbers, a lot that another request   *)
(* has emptied meanwhile included.                                            *)
THEOREM TypeCorrect == Spec => []TypeOK
<1>1. TInv => TypeOK
  BY DEF TInv
<1> QED
  BY <1>1, InitTInv, StepTInv, PTL DEF Spec

-----------------------------------------------------------------------------
(* The units of a lot, when no line without an order line is dispatched: a    *)
(* write-off holds the row locks of the lots it is to take from, and they     *)
(* still have what it has read; the lot of a receipt is not there before it.  *)
WriteoffLocks ==
  \A r \in Requests, l \in Lots :
    kind[r] = "writeoff" /\ pc[r] = "holding" /\ plan[r][l] > 0
      => lotLock[l] = r /\ seen[r][l] = remaining[l]

NotYetReceived ==
  \A r \in Requests :
    kind[r] = "receive" /\ pc[r] # "done" => remaining[LotOf(r)] = 0

CInv == TInv /\ UnitsConserved /\ WriteoffLocks /\ NotYetReceived

LEMMA InitCInv == Init => CInv
<1> SUFFICES ASSUME Init PROVE CInv
  OBVIOUS
<1>1. TInv
  BY InitTInv
<1>2. UnitsConserved
  BY <1>1, SMT DEF Init, UnitsConserved, None, TInv, TypeOK
<1>3. WriteoffLocks
  BY DEF Init, WriteoffLocks
<1>4. NotYetReceived
  <2>1. PICK s \in [1..NumLots -> 0..MaxUnits] :
          remaining = [l \in Lots |-> IF l =< NumLots THEN s[l] ELSE 0]
    BY DEF Init
  <2>2. \A r \in Requests : LotOf(r) \in Lots /\ ~(LotOf(r) =< NumLots)
    BY StockRequestsAssumption, LotOfType, SMT DEF LotOf, Requests
  <2> QED
    BY <2>1, <2>2 DEF NotYetReceived
<1> QED
  BY <1>1, <1>2, <1>3, <1>4 DEF CInv

LEMMA RollbackConserves ==
  ASSUME CInv, NEW r \in Requests, Rollback(r) \/ Rewrite(r)
  PROVE  CInv'
<1>1. TInv'
  BY RollbackType DEF CInv
<1>2. Commit(r) /\ UNCHANGED <<remaining, received, taken>>
  BY DEF Rollback, Rewrite
<1>3. UnitsConserved'
  BY <1>2 DEF CInv, UnitsConserved
<1>4. WriteoffLocks' /\ NotYetReceived'
  BY <1>2, SMT DEF CInv, WriteoffLocks, NotYetReceived, Commit, Goes, TInv, TypeOK
<1> QED
  BY <1>1, <1>3, <1>4 DEF CInv

LEMMA BeginConserves ==
  ASSUME CInv, NEW r \in Requests,
         BeginReceive(r) \/ BeginElsewhere(r) \/ BeginWriteoff(r) \/ BeginManual(r)
  PROVE  CInv'
<1>1. TInv'
  BY BeginType DEF CInv
<1>2. UNCHANGED <<kind, lotLock, remaining, received, taken>>
  BY DEF BeginReceive, BeginElsewhere, BeginWriteoff, BeginManual, Quiet
<1>3. /\ \A s \in Requests : s # r =>
            pc'[s] = pc[s] /\ plan'[s] = plan[s] /\ seen'[s] = seen[s]
      /\ pc[r] = "start" /\ pc'[r] # "holding"
  BY DEF BeginReceive, BeginElsewhere, BeginWriteoff, BeginManual, Goes, CInv, TInv, TypeOK
<1>4. WriteoffLocks'
  BY <1>2, <1>3 DEF CInv, WriteoffLocks
<1>5. NotYetReceived'
  BY <1>2, <1>3 DEF CInv, NotYetReceived
<1> QED
  BY <1>1, <1>2, <1>4, <1>5 DEF CInv, UnitsConserved

LEMMA LockConserves ==
  ASSUME CInv, NEW r \in Requests, kind[r] # "manual",
         LockBalance(r) \/ LockForWriteoff(r) \/ LockForManual(r)
  PROVE  CInv'
<1>1. TInv'
  BY LockType DEF CInv
<1>2. CASE Rollback(r)
  BY <1>2, RollbackConserves
<1>3. ASSUME LockBalance(r)
      PROVE  CInv'
  <2>1. /\ UNCHANGED <<kind, seen, plan, lotLock, remaining, received, taken>>
        /\ kind[r] # "writeoff"
        /\ pc[r] = "start"
        /\ \A s \in Requests : s # r => pc'[s] = pc[s]
    BY <1>3 DEF LockBalance, BalanceFirst, Goes, CInv, TInv, TypeOK
  <2> QED
    BY <1>1, <2>1 DEF CInv, UnitsConserved, WriteoffLocks, NotYetReceived
<1>4. ~LockForManual(r)
  BY DEF LockForManual
<1>5. ASSUME NEW t \in Fifo(ReadAgain(r)), kind[r] = "writeoff", pc[r] = "queued",
             Unlocked(Wanted(r)),
             plan' = [plan EXCEPT ![r] = t],
             seen' = [seen EXCEPT ![r] = ReadAgain(r)],
             LockFor(r), Goes(r, "holding"),
             UNCHANGED <<kind, remaining, received, taken>>
      PROVE  CInv'
  <2>1. \A l \in Lots : t[l] > 0 => t[l] =< ReadAgain(r)[l]
    BY FifoBound, <1>5
  <2>2. \A l \in Lots : t[l] > 0 => l \in Wanted(r) /\ ReadAgain(r)[l] = remaining[l]
    BY <2>1, FifoBound, <1>5, SMT DEF ReadAgain
  <2>3. WriteoffLocks'
    <3> SUFFICES ASSUME NEW s \in Requests, NEW l \in Lots,
                        kind'[s] = "writeoff", pc'[s] = "holding", plan'[s][l] > 0
                 PROVE  lotLock'[l] = s /\ seen'[s][l] = remaining'[l]
      BY DEF WriteoffLocks
    <3>1. CASE s = r
      BY <1>5, <2>2, <3>1 DEF LockFor, CInv, TInv, TypeOK
    <3>2. CASE s # r
      <4>1. lotLock[l] = s /\ seen'[s][l] = remaining'[l]
        BY <1>5, <3>2 DEF Goes, CInv, WriteoffLocks, TInv, TypeOK
      <4>2. s # NoRequest
        BY SMT DEF Requests, NoRequest
      <4>3. l \notin Wanted(r)
        BY <1>5, <4>1, <4>2 DEF Unlocked
      <4> QED
        BY <1>5, <4>1, <4>3 DEF LockFor
    <3> QED
      BY <3>1, <3>2
  <2>4. NotYetReceived'
    BY <1>5 DEF Goes, CInv, NotYetReceived, TInv, TypeOK
  <2> QED
    BY <1>1, <1>5, <2>3, <2>4 DEF CInv, UnitsConserved
<1> QED
  BY <1>2, <1>3, <1>4, <1>5 DEF LockForWriteoff

(* While a write-off holds a lot that has stock, no reservation and no        *)
(* dispatch gets the locks of the lots it needs.                              *)
LEMMA NoneHeld ==
  ASSUME CInv, Unlocked(InStock), NEW s \in Requests, NEW l \in Lots,
         kind[s] = "writeoff", pc[s] = "holding", plan[s][l] > 0
  PROVE  FALSE
<1>1. lotLock[l] = s /\ seen[s][l] = remaining[l]
  BY DEF CInv, WriteoffLocks
<1>2. plan[s][l] =< seen[s][l]
  BY DEF CInv, TInv, PlanWithinSeen
<1>3. remaining[l] > 0
  <2>1. plan[s][l] \in Nat /\ remaining[l] \in Nat
    BY DEF CInv, TInv, TypeOK
  <2> QED
    BY <1>1, <1>2, <2>1, SMT
<1>4. s # NoRequest
  BY SMT DEF Requests, NoRequest
<1> QED
  BY <1>1, <1>3, <1>4 DEF Unlocked, InStock

LEMMA AllocateConserves ==
  ASSUME CInv, NEW r \in Requests, Allocate(r)
  PROVE  CInv'
<1>1. TInv'
  BY AllocateType DEF CInv
<1>2. CASE Rollback(r)
  BY <1>2, RollbackConserves
<1>3. ASSUME NEW t \in Fifo(Offered(r)), Allocated(r, t), Commit(r)
      PROVE  CInv'
  <2>1. t \in [Lots -> Nat]
    BY FifoBound, <1>3
  <2>2. /\ remaining \in [Lots -> Nat] /\ received \in [Lots -> Nat]
        /\ taken \in [Lots -> Nat] /\ cover[r] \in Nat
        /\ remaining' \in [Lots -> Nat]
    BY <1>1 DEF CInv, TInv, TypeOK
  <2>3. UnitsConserved'
    <3>1. ASSUME NEW l \in Lots
          PROVE  received'[l] = remaining'[l] + taken'[l]
      <4>1. received[l] = remaining[l] + taken[l]
        BY DEF CInv, UnitsConserved
      <4>2. /\ received'[l] = IF l = LotOf(r) THEN received[l] + cover[r] ELSE received[l]
            /\ WithCover(r)[l] = IF l = LotOf(r) THEN remaining[l] + cover[r]
                                 ELSE remaining[l]
        BY <1>3, <2>2, LotOfType DEF Allocated, WithCover
      <4>3. CASE kind[r] = "ship"
        <5>1. remaining'[l] = WithCover(r)[l] - t[l] /\ taken'[l] = taken[l] + t[l]
          BY <1>3, <4>3 DEF Allocated
        <5> QED
          BY <2>1, <2>2, <4>1, <4>2, <5>1, SMT
      <4>4. CASE kind[r] # "ship"
        <5>1. remaining'[l] = WithCover(r)[l] /\ taken'[l] = taken[l]
          BY <1>3, <4>4 DEF Allocated
        <5> QED
          BY <2>2, <4>1, <4>2, <5>1, SMT
      <4> QED
        BY <4>3, <4>4
    <3> QED
      BY <3>1 DEF UnitsConserved
  <2>4. WriteoffLocks'
    <3> SUFFICES ASSUME NEW s \in Requests, NEW l \in Lots,
                        kind'[s] = "writeoff", pc'[s] = "holding", plan'[s][l] > 0
                 PROVE  FALSE
      BY DEF WriteoffLocks
    <3>1. kind[s] = "writeoff" /\ pc[s] = "holding" /\ plan[s][l] > 0
      BY <1>3 DEF Commit, Goes, CInv, TInv, TypeOK
    <3> QED
      BY <3>1, NoneHeld DEF Allocate
  <2>5. NotYetReceived'
    <3> SUFFICES ASSUME NEW s \in Requests, kind'[s] = "receive", pc'[s] # "done"
                 PROVE  remaining'[LotOf(s)] = 0
      BY DEF NotYetReceived
    <3>1. s # r /\ kind[s] = "receive" /\ pc[s] # "done"
      BY <1>3 DEF Allocate, BalanceFirst, Commit, Goes, CInv, TInv, TypeOK
    <3>2. LotOf(s) \in Lots /\ LotOf(s) # LotOf(r)
      BY <3>1, LotOfType
    <3>3. remaining[LotOf(s)] = 0 /\ WithCover(r)[LotOf(s)] = remaining[LotOf(s)]
      BY <2>2, <3>1, <3>2 DEF WithCover, CInv, NotYetReceived
    <3>4. CASE kind[r] = "ship"
      <4>1. remaining'[LotOf(s)] = 0 - t[LotOf(s)]
        BY <1>3, <3>2, <3>3, <3>4 DEF Allocated
      <4>2. remaining'[LotOf(s)] \in Nat /\ t[LotOf(s)] \in Nat
        BY <2>1, <2>2, <3>2
      <4> QED
        BY <4>1, <4>2, SMT
    <3>5. CASE kind[r] # "ship"
      BY <1>3, <3>3, <3>5 DEF Allocated
    <3> QED
      BY <3>4, <3>5
  <2> QED
    BY <1>1, <2>3, <2>4, <2>5 DEF CInv
<1> QED
  BY <1>2, <1>3 DEF Allocate

LEMMA ConsumeConserves ==
  ASSUME CInv, NEW r \in Requests, kind[r] # "manual", Consume(r)
  PROVE  CInv'
<1>1. TInv'
  BY ConsumeType DEF CInv
<1>2. kind[r] = "writeoff" /\ pc[r] = "holding" /\ Commit(r)
  BY DEF Consume, LotsFirst, CInv, TInv, TypeOK
<1>3. /\ remaining \in [Lots -> Nat] /\ taken \in [Lots -> Nat]
      /\ received' = received
      /\ taken' = [l \in Lots |-> taken[l] + plan[r][l]]
      /\ plan[r] \in [Lots -> Nat]
      /\ remaining' = Left(r)
  BY DEF Consume, CInv, TInv, TypeOK
<1>4. \A l \in Lots : /\ remaining'[l] = remaining[l] - plan[r][l]
                      /\ plan[r][l] =< remaining[l]
  <2> SUFFICES ASSUME NEW l \in Lots
               PROVE  /\ remaining'[l] = remaining[l] - plan[r][l]
                      /\ plan[r][l] =< remaining[l]
    OBVIOUS
  <2>1. CASE plan[r][l] > 0
    BY <1>2, <1>3, <2>1 DEF Left, CInv, WriteoffLocks, TInv, PlanWithinSeen
  <2>2. CASE ~(plan[r][l] > 0)
    <3>1. remaining'[l] = remaining[l]
      BY <1>3, <2>2 DEF Left
    <3> QED
      BY <1>3, <2>2, <3>1, SMT
  <2> QED
    BY <2>1, <2>2
<1>5. UnitsConserved'
  <2>1. ASSUME NEW l \in Lots
        PROVE  received[l] = (remaining[l] - plan[r][l]) + (taken[l] + plan[r][l])
    <3>1. received[l] = remaining[l] + taken[l]
      BY DEF CInv, UnitsConserved
    <3> QED
      BY <1>3, <3>1, SMT
  <2> QED
    BY <1>3, <1>4, <2>1 DEF UnitsConserved
<1>6. WriteoffLocks'
  <2> SUFFICES ASSUME NEW s \in Requests, NEW l \in Lots,
                      kind'[s] = "writeoff", pc'[s] = "holding", plan'[s][l] > 0
               PROVE  lotLock'[l] = s /\ seen'[s][l] = remaining'[l]
    BY DEF WriteoffLocks
  <2>1. /\ s # r /\ kind[s] = "writeoff" /\ pc[s] = "holding" /\ plan[s][l] > 0
        /\ seen'[s][l] = seen[s][l]
    BY <1>2 DEF Commit, Goes, CInv, TInv, TypeOK
  <2>2. lotLock[l] = s /\ seen[s][l] = remaining[l]
    BY <2>1 DEF CInv, WriteoffLocks
  <2>3. ~(plan[r][l] > 0)
    BY <1>2, <2>1, <2>2 DEF CInv, WriteoffLocks
  <2>4. remaining'[l] = remaining[l]
    BY <1>3, <2>3 DEF Left
  <2> QED
    BY <1>2, <2>1, <2>2, <2>4 DEF Commit
<1>7. NotYetReceived'
  <2> SUFFICES ASSUME NEW s \in Requests, kind'[s] = "receive", pc'[s] # "done"
               PROVE  remaining'[LotOf(s)] = 0
    BY DEF NotYetReceived
  <2>1. kind[s] = "receive" /\ pc[s] # "done"
    BY <1>2 DEF Commit, Goes, CInv, TInv, TypeOK
  <2>2. remaining[LotOf(s)] = 0 /\ LotOf(s) \in Lots
    BY <2>1, LotOfType DEF CInv, NotYetReceived
  <2> QED
    BY <1>3, <1>4, <2>2, SMT
<1> QED
  BY <1>1, <1>5, <1>6, <1>7 DEF CInv

LEMMA ReceiveConserves ==
  ASSUME CInv, NEW r \in Requests, Receive(r)
  PROVE  CInv'
<1>1. TInv'
  BY ReceiveType DEF CInv
<1>2. /\ kind[r] = "receive" /\ pc[r] = "queued" /\ Commit(r)
      /\ remaining \in [Lots -> Nat] /\ received \in [Lots -> Nat]
      /\ taken \in [Lots -> Nat] /\ taken' = taken
      /\ remaining' = [remaining EXCEPT ![LotOf(r)] = @ + Units]
      /\ received' = [received EXCEPT ![LotOf(r)] = @ + Units]
  BY DEF Receive, CInv, TInv, TypeOK
<1>3. UnitsConserved'
  BY <1>2, LotOfType, StockRequestsAssumption, SMT DEF CInv, UnitsConserved
<1>4. WriteoffLocks'
  <2> SUFFICES ASSUME NEW s \in Requests, NEW l \in Lots,
                      kind'[s] = "writeoff", pc'[s] = "holding", plan'[s][l] > 0
               PROVE  lotLock'[l] = s /\ seen'[s][l] = remaining'[l]
    BY DEF WriteoffLocks
  <2>1. /\ s # r /\ kind[s] = "writeoff" /\ pc[s] = "holding" /\ plan[s][l] > 0
        /\ seen'[s][l] = seen[s][l]
    BY <1>2 DEF Commit, Goes, CInv, TInv, TypeOK
  <2>2. lotLock[l] = s /\ seen[s][l] = remaining[l] /\ plan[s][l] =< seen[s][l]
    BY <2>1 DEF CInv, WriteoffLocks, TInv, PlanWithinSeen
  <2>3. l # LotOf(r)
    <3>1. plan[s][l] \in Nat /\ remaining[LotOf(r)] = 0
      BY <1>2 DEF CInv, NotYetReceived, TInv, TypeOK
    <3> QED
      BY <2>1, <2>2, <3>1, SMT
  <2> QED
    BY <1>2, <2>1, <2>2, <2>3 DEF Commit
<1>5. NotYetReceived'
  <2> SUFFICES ASSUME NEW s \in Requests, kind'[s] = "receive", pc'[s] # "done"
               PROVE  remaining'[LotOf(s)] = 0
    BY DEF NotYetReceived
  <2>1. s # r /\ kind[s] = "receive" /\ pc[s] # "done"
    BY <1>2 DEF Commit, Goes, CInv, TInv, TypeOK
  <2> QED
    BY <1>2, <2>1, LotOfType DEF CInv, NotYetReceived
<1> QED
  BY <1>1, <1>3, <1>4, <1>5 DEF CInv

NoManual == \A r \in Requests : kind[r] # "manual"

LEMMA StepCInv == CInv /\ NoManual /\ [Next]_vars => CInv'
<1> SUFFICES ASSUME CInv, NoManual, [Next]_vars PROVE CInv'
  OBVIOUS
<1>1. ASSUME NEW r \in Requests, Step(r) PROVE CInv'
  BY <1>1, BeginConserves, LockConserves, AllocateConserves, ConsumeConserves,
     ReceiveConserves, RollbackConserves DEF Step, Abort, NoManual
<1>2. CASE UNCHANGED vars
  <2>1. TInv'
    BY <1>2, StepTInv DEF CInv
  <2> QED
    BY <1>2, <2>1 DEF vars, CInv, UnitsConserved, WriteoffLocks, NotYetReceived
<1> QED
  BY <1>1, <1>2 DEF Next, Done

(* No lost update on a lot: receipts, reservations, dispatches of order lines *)
(* and write-offs that run at the same time account for every unit of every   *)
(* lot, whatever the order of their reads, waits, aborts and commits, as long *)
(* as no line without an order line is dispatched among them.                 *)
THEOREM LotsConserved ==
  ASSUME "manual" \notin Kinds
  PROVE  Spec => []UnitsConserved
<1>1. CInv => UnitsConserved
  BY DEF CInv
<1>2. CInv /\ [Next]_vars => CInv'
  <2>1. CInv => NoManual
    BY DEF CInv, TInv, TypeOK, NoManual
  <2> QED
    BY <2>1, StepCInv
<1> QED
  BY <1>1, <1>2, InitCInv, PTL DEF Spec

-----------------------------------------------------------------------------
(* Sums over finite sets: the community module takes an arbitrary element    *)
(* first; that any may be taken first follows from a smallest subset for     *)
(* which one may not.                                                        *)

PicksAny(g, f, S) ==
  /\ g \in [SUBSET S -> Int]
  /\ g[{}] = 0
  /\ \A T \in SUBSET S : \A x \in T : g[T] = f[x] + g[T \ {x}]

PicksOne(g, f, S) ==
  g = [s \in SUBSET S |-> IF s = {} THEN 0
                          ELSE f[CHOOSE x \in s : TRUE] + g[s \ {CHOOSE x \in s : TRUE}]]

(* The sum as the library defines it.                                        *)
LEMMA SumIsRecursive ==
  ASSUME NEW f, NEW S
  PROVE  SumFunctionOnSet(f, S) = (CHOOSE g : PicksOne(g, f, S))[S]
BY DEF SumFunctionOnSet, FoldFunctionOnSet, MapThenFoldSet, PicksOne

(* A family of subsets of a finite set has a member that is smallest.        *)
LEMMA SmallestSubset ==
  ASSUME NEW S, IsFiniteSet(S), NEW B, B \subseteq SUBSET S, B # {}
  PROVE  \E T \in B : \A x \in T : T \ {x} \notin B
<1>1. B \subseteq FiniteSubsetsOf(S)
  BY FS_Subset DEF FiniteSubsetsOf
<1>2. PICK T \in B : \A U \in B : <<U, T>> \notin StrictSubsetOrdering(S)
  <2>1. IsWellFoundedOn(StrictSubsetOrdering(S), FiniteSubsetsOf(S))
    BY FS_StrictSubsetOrderingWellFounded
  <2> QED BY <1>1, <2>1, WFMin
<1>3. \A x \in T : T \ {x} \notin B
  BY <1>2 DEF StrictSubsetOrdering
<1> QED BY <1>3

(* There is a function on the subsets that may take any element first.       *)
LEMMA PicksAnyExists ==
  ASSUME NEW f, NEW S, IsFiniteSet(S), \A x \in S : f[x] \in Int
  PROVE  \E g : PicksAny(g, f, S)
<1> DEFINE B == {T \in SUBSET S : ~ \E g : PicksAny(g, f, T)}
<1> SUFFICES ASSUME B # {} PROVE FALSE
  OBVIOUS
<1>1. PICK T \in B : \A x \in T : T \ {x} \notin B
  BY SmallestSubset
<1>2. T # {}
  <2>1. PicksAny([s \in {{}} |-> 0], f, {})
    BY DEF PicksAny
  <2> QED
    BY <1>1, <2>1
<1>3. PICK y \in T : TRUE
  BY <1>2
<1>4. PICK g : PicksAny(g, f, T \ {y})
  BY <1>1, <1>3
<1> DEFINE h == [s \in SUBSET T |-> IF y \in s THEN f[y] + g[s \ {y}] ELSE g[s]]
<1>5. f[y] \in Int
  BY <1>3
<1>6. \A s \in SUBSET T : s \ {y} \in SUBSET (T \ {y}) /\ (y \notin s => s \in SUBSET (T \ {y}))
  OBVIOUS
<1>7. h \in [SUBSET T -> Int]
  BY <1>4, <1>5, <1>6 DEF PicksAny
<1>8. h[{}] = 0
  BY <1>4 DEF PicksAny
<1>9. ASSUME NEW s \in SUBSET T, NEW x \in s
      PROVE  h[s] = f[x] + h[s \ {x}]
  <2>1. CASE x = y
    BY <2>1, <1>5
  <2>2. CASE x # y /\ y \in s
    <3>1. (s \ {x}) \ {y} = (s \ {y}) \ {x} /\ x \in s \ {y}
      BY <2>2
    <3>2. g[s \ {y}] = f[x] + g[(s \ {y}) \ {x}]
      BY <1>4, <1>6, <3>1 DEF PicksAny
    <3>3. g[(s \ {y}) \ {x}] \in Int /\ f[x] \in Int
      BY <1>4 DEF PicksAny
    <3>4. h[s] = f[y] + g[s \ {y}] /\ h[s \ {x}] = f[y] + g[(s \ {y}) \ {x}]
      BY <2>2, <3>1
    <3> QED BY <3>2, <3>3, <3>4, <1>5
  <2>3. CASE y \notin s
    BY <2>3, <1>4, <1>6 DEF PicksAny
  <2> QED BY <2>1, <2>2, <2>3
<1>10. PicksAny(h, f, T)
  BY <1>7, <1>8, <1>9 DEF PicksAny
<1> QED BY <1>10

(* The sum is that function.                                                 *)
LEMMA SumIsAny ==
  ASSUME NEW f, NEW S, IsFiniteSet(S), NEW g, PicksAny(g, f, S)
  PROVE  SumFunctionOnSet(f, S) = g[S]
<1>1. PicksOne(g, f, S)
  BY DEF PicksAny, PicksOne
<1> DEFINE h == CHOOSE h : PicksOne(h, f, S)
<1>2. PicksOne(h, f, S)
  BY <1>1
<1> HIDE DEF h
<1> DEFINE B == {T \in SUBSET S : h[T] # g[T]}
<1>3. B = {}
  <2> SUFFICES ASSUME B # {} PROVE FALSE
    OBVIOUS
  <2>1. PICK T \in B : \A x \in T : T \ {x} \notin B
    BY SmallestSubset
  <2>2. T # {}
    BY <1>1, <1>2 DEF PicksOne
  <2>3. PICK x \in T : x = CHOOSE y \in T : TRUE
    BY <2>2
  <2>4. h[T \ {x}] = g[T \ {x}]
    BY <2>1
  <2>5. h[T] = f[x] + h[T \ {x}]
    BY <1>2, <2>2, <2>3 DEF PicksOne
  <2>6. g[T] = f[x] + g[T \ {x}]
    BY <1>1, <2>2, <2>3 DEF PicksOne
  <2> QED BY <2>4, <2>5, <2>6
<1> QED BY <1>3, SumIsRecursive DEF h

(* The sum over the empty set, and what any element adds.                    *)
LEMMA SumRules ==
  ASSUME NEW f, NEW S, IsFiniteSet(S), \A x \in S : f[x] \in Int
  PROVE  /\ SumFunctionOnSet(f, S) \in Int
         /\ S = {} => SumFunctionOnSet(f, S) = 0
         /\ \A x \in S : SumFunctionOnSet(f, S) = f[x] + SumFunctionOnSet(f, S \ {x})
<1>1. PICK g : PicksAny(g, f, S)
  BY PicksAnyExists
<1>2. SumFunctionOnSet(f, S) = g[S]
  BY <1>1, SumIsAny
<1>3. ASSUME NEW x \in S
      PROVE  SumFunctionOnSet(f, S \ {x}) = g[S \ {x}]
  <2> DEFINE T == S \ {x}
             h == [U \in SUBSET T |-> g[U]]
  <2>1. IsFiniteSet(T)
    BY FS_Subset
  <2>2. PicksAny(h, f, T)
    BY <1>1 DEF PicksAny
  <2>3. SumFunctionOnSet(f, T) = h[T]
    BY <2>1, <2>2, SumIsAny
  <2> QED
    BY <2>3
<1> QED
  BY <1>1, <1>2, <1>3 DEF PicksAny

(* The sum of sums.                                                          *)
LEMMA SumAdd ==
  ASSUME NEW S, IsFiniteSet(S), NEW f, NEW g, NEW h,
         \A x \in S : f[x] \in Int /\ g[x] \in Int /\ h[x] = f[x] + g[x]
  PROVE  SumFunctionOnSet(h, S) = SumFunctionOnSet(f, S) + SumFunctionOnSet(g, S)
<1>1. PICK F : PicksAny(F, f, S)
  BY PicksAnyExists
<1>2. PICK G : PicksAny(G, g, S)
  BY PicksAnyExists
<1> DEFINE H == [T \in SUBSET S |-> F[T] + G[T]]
<1>3. PicksAny(H, h, S)
  <2>1. H \in [SUBSET S -> Int] /\ H[{}] = 0
    BY <1>1, <1>2 DEF PicksAny
  <2>2. ASSUME NEW T \in SUBSET S, NEW x \in T
        PROVE  H[T] = h[x] + H[T \ {x}]
    <3>1. F[T] = f[x] + F[T \ {x}] /\ G[T] = g[x] + G[T \ {x}]
      BY <1>1, <1>2 DEF PicksAny
    <3>2. f[x] \in Int /\ g[x] \in Int /\ F[T \ {x}] \in Int /\ G[T \ {x}] \in Int
      BY <1>1, <1>2 DEF PicksAny
    <3> QED
      BY <3>1, <3>2
  <2> QED
    BY <2>1, <2>2 DEF PicksAny
<1> QED
  BY <1>1, <1>2, <1>3, SumIsAny

(* A sum depends on its terms only.                                          *)
LEMMA SumSame ==
  ASSUME NEW S, IsFiniteSet(S), NEW f, NEW g,
         \A x \in S : f[x] \in Int /\ g[x] = f[x]
  PROVE  SumFunctionOnSet(g, S) = SumFunctionOnSet(f, S)
<1>1. PICK F : PicksAny(F, f, S)
  BY PicksAnyExists
<1>2. PicksAny(F, g, S)
  BY <1>1 DEF PicksAny
<1> QED
  BY <1>1, <1>2, SumIsAny

(* One term that changes.                                                    *)
LEMMA SumChange ==
  ASSUME NEW S, IsFiniteSet(S), NEW y \in S, NEW f, NEW g,
         \A x \in S : f[x] \in Int /\ g[x] \in Int,
         \A x \in S \ {y} : g[x] = f[x]
  PROVE  /\ SumFunctionOnSet(f, S) \in Int
         /\ SumFunctionOnSet(g, S) = SumFunctionOnSet(f, S) + (g[y] - f[y])
<1>1. IsFiniteSet(S \ {y})
  BY FS_RemoveElement
<1>2. SumFunctionOnSet(f, S) = f[y] + SumFunctionOnSet(f, S \ {y})
      /\ SumFunctionOnSet(f, S) \in Int
  BY SumRules
<1>3. SumFunctionOnSet(g, S) = g[y] + SumFunctionOnSet(g, S \ {y})
  BY SumRules
<1>4. SumFunctionOnSet(g, S \ {y}) = SumFunctionOnSet(f, S \ {y})
  BY <1>1, SumSame
<1>5. SumFunctionOnSet(f, S \ {y}) \in Int
  BY <1>1, SumRules
<1> QED
  BY <1>2, <1>3, <1>4, <1>5

-----------------------------------------------------------------------------
(* What the order line of one request holds on a lot changes the holds of    *)
(* the lot by as much.                                                       *)
LEMMA HeldOnChange ==
  ASSUME NEW h \in [Requests -> [Lots -> Nat]], NEW k \in [Requests -> [Lots -> Nat]],
         NEW r \in Requests, \A s \in Requests \ {r} : k[s] = h[s], NEW l \in Lots
  PROVE  /\ HeldOn(h, l) \in Int
         /\ HeldOn(k, l) = HeldOn(h, l) + (k[r][l] - h[r][l])
<1> DEFINE f == [s \in Requests |-> h[s][l]]
           g == [s \in Requests |-> k[s][l]]
<1>1. IsFiniteSet(Requests)
  BY FS_Interval, StockRequestsAssumption DEF Requests
<1>2. /\ \A s \in Requests : f[s] \in Int /\ g[s] \in Int
      /\ \A s \in Requests \ {r} : g[s] = f[s]
      /\ f[r] = h[r][l] /\ g[r] = k[r][l]
  OBVIOUS
<1>3. /\ HeldOn(h, l) = SumFunctionOnSet(f, Requests)
      /\ HeldOn(k, l) = SumFunctionOnSet(g, Requests)
  BY DEF HeldOn, Sum, SumFunction
<1> HIDE DEF f, g
<1>4. /\ SumFunctionOnSet(f, Requests) \in Int
      /\ SumFunctionOnSet(g, Requests) = SumFunctionOnSet(f, Requests) + (g[r] - f[r])
  BY <1>1, <1>2, SumChange
<1> QED
  BY <1>2, <1>3, <1>4

(* A lot never has more than was received into it, and no request has read   *)
(* more than that; a reservation that is not decided holds nothing yet.      *)
NoneAbove == \A l \in Lots : remaining[l] =< received[l]
SeenWithin == \A r \in Requests, l \in Lots : seen[r][l] =< received[l]
HoldsNothing == \A r \in Requests : kind[r] = "reserve" /\ pc[r] # "done" => held[r] = None

HInv == TInv /\ NoneAbove /\ SeenWithin /\ HoldsNothing /\ NeverHeldTwice

LEMMA InitHInv == Init => HInv
<1> SUFFICES ASSUME Init PROVE HInv
  OBVIOUS
<1>1. TInv /\ received = remaining
  BY InitTInv DEF Init
<1>2. NoneAbove
  BY <1>1 DEF NoneAbove, TInv, TypeOK
<1>3. SeenWithin
  BY <1>1 DEF Init, SeenWithin, None, TInv, TypeOK
<1>4. HoldsNothing
  <2>1. PICK h \in [{r \in Requests : kind[r] = "ship"} -> Lots \cup {0}] :
          held = [r \in Requests |-> [l \in Lots |->
                    IF kind[r] = "ship" /\ h[r] = l THEN Units ELSE 0]]
    BY DEF Init
  <2> QED
    BY <2>1 DEF HoldsNothing, None
<1>5. NeverHeldTwice
  BY <1>1 DEF Init, NeverHeldTwice
<1> QED
  BY <1>1, <1>2, <1>3, <1>4, <1>5 DEF HInv

(* A step that leaves the lots and the holds.                                *)
LEMMA StockLeftHInv ==
  ASSUME HInv, TInv', SeenWithin', UNCHANGED <<kind, remaining, received, held>>,
         \A r \in Requests : pc[r] = "done" => pc'[r] = "done"
  PROVE  HInv'
<1>1. NoneAbove' /\ NeverHeldTwice'
  BY DEF HInv, NoneAbove, NeverHeldTwice
<1>2. HoldsNothing'
  BY DEF HInv, HoldsNothing
<1> QED
  BY <1>1, <1>2 DEF HInv

LEMMA ReadHInv ==
  ASSUME HInv, NEW r \in Requests,
         \/ BeginReceive(r) \/ BeginElsewhere(r) \/ BeginWriteoff(r) \/ BeginManual(r)
         \/ LockBalance(r) \/ LockForWriteoff(r) \/ LockForManual(r)
         \/ Rollback(r) \/ Rewrite(r)
  PROVE  HInv'
<1>1. TInv'
  BY BeginType, LockType, RollbackType DEF HInv
<1>2. UNCHANGED <<kind, remaining, received, held>>
  BY DEF BeginReceive, BeginElsewhere, BeginWriteoff, BeginManual, Quiet, LockBalance,
         LockForWriteoff, LockForManual, Rollback, Rewrite, Commit
<1>3. \A s \in Requests : pc[s] = "done" => pc'[s] = "done"
  BY DEF BeginReceive, BeginElsewhere, BeginWriteoff, BeginManual, LockBalance, LockForWriteoff,
         LockForManual, Rollback, Rewrite, Commit, Goes, HInv, TInv, TypeOK
<1>4. seen' = seen \/ seen' = [seen EXCEPT ![r] = remaining]
      \/ seen' = [seen EXCEPT ![r] = ReadAgain(r)]
  BY DEF BeginReceive, BeginElsewhere, BeginWriteoff, BeginManual, LockBalance, LockForWriteoff,
         LockForManual, Rollback, Rewrite, Commit
<1>5. SeenWithin'
  <2> SUFFICES ASSUME NEW s \in Requests, NEW l \in Lots
               PROVE  seen'[s][l] =< received[l]
    BY <1>2 DEF SeenWithin
  <2>1. /\ seen[s][l] =< received[l] /\ remaining[l] =< received[l]
        /\ received[l] \in Nat /\ seen \in [Requests -> [Lots -> Nat]]
    BY DEF HInv, SeenWithin, NoneAbove, TInv, TypeOK
  <2>2. ReadAgain(r)[l] = IF l \in Wanted(r) THEN remaining[l] ELSE 0
    BY DEF ReadAgain
  <2> QED
    BY <1>4, <2>1, <2>2
<1> QED
  BY <1>1, <1>2, <1>3, <1>5, StockLeftHInv

(* The lots a committing request leaves for the others.                      *)
LEMMA CommitHInv ==
  ASSUME HInv, TInv', NEW r \in Requests, Commit(r),
         \A l \in Lots : received[l] =< received'[l] /\ remaining'[l] =< received'[l],
         NeverHeldTwice', \A s \in Requests \ {r} : held'[s] = held[s]
  PROVE  HInv'
<1>1. NoneAbove'
  BY DEF NoneAbove
<1>2. SeenWithin'
  <2> SUFFICES ASSUME NEW s \in Requests, NEW l \in Lots
               PROVE  seen[s][l] =< received'[l]
    BY DEF SeenWithin, Commit
  <2>1. seen[s][l] =< received[l] /\ received[l] =< received'[l]
    BY DEF HInv, SeenWithin
  <2>2. seen[s][l] \in Nat /\ received[l] \in Nat /\ received'[l] \in Nat
    BY DEF HInv, TInv, TypeOK
  <2> QED
    BY <2>1, <2>2
<1>3. HoldsNothing'
  <2> SUFFICES ASSUME NEW s \in Requests, kind[s] = "reserve", pc'[s] # "done"
               PROVE  held'[s] = None
    BY DEF HoldsNothing, Commit
  <2>1. s # r /\ pc[s] # "done"
    BY DEF Commit, Goes, HInv, TInv, TypeOK
  <2> QED
    BY <2>1 DEF HInv, HoldsNothing
<1> QED
  BY <1>1, <1>2, <1>3 DEF HInv

LEMMA AllocateHInv ==
  ASSUME HInv, NEW r \in Requests, NEW t \in Fifo(Offered(r)), Allocated(r, t), Commit(r),
         kind[r] \in BalanceFirst, pc[r] = "holding", TInv'
  PROVE  HInv'
<1>1. /\ t \in [Lots -> Nat] /\ \A l \in Lots : t[l] > 0 => t[l] =< Offered(r)[l]
  BY FifoBound
<1>2. /\ remaining \in [Lots -> Nat] /\ received \in [Lots -> Nat] /\ cover[r] \in Nat
      /\ held \in [Requests -> [Lots -> Nat]] /\ held' \in [Requests -> [Lots -> Nat]]
  BY DEF HInv, TInv, TypeOK
<1>3. ASSUME NEW l \in Lots
      PROVE  /\ received[l] =< received'[l] /\ remaining'[l] =< received'[l]
             /\ WithCover(r)[l] =< received'[l] /\ WithCover(r)[l] \in Nat
  <2>1. remaining[l] =< received[l]
    BY DEF HInv, NoneAbove
  <2>2. /\ received'[l] = IF l = LotOf(r) THEN received[l] + cover[r] ELSE received[l]
        /\ WithCover(r)[l] = IF l = LotOf(r) THEN remaining[l] + cover[r] ELSE remaining[l]
    BY <1>2, LotOfType DEF Allocated, WithCover
  <2>3. remaining'[l] = IF kind[r] = "ship" THEN WithCover(r)[l] - t[l] ELSE WithCover(r)[l]
    BY DEF Allocated
  <2> QED
    BY <1>1, <1>2, <2>1, <2>2, <2>3
<1>4. ASSUME NEW l \in Lots
      PROVE  HeldOn(held', l) =< received'[l]
  <2>1. /\ HeldOn(held, l) =< received[l] /\ received[l] =< received'[l]
        /\ received[l] \in Nat /\ received'[l] \in Nat
    BY <1>2, <1>3 DEF HInv, NeverHeldTwice, TInv, TypeOK
  <2>2. \A s \in Requests \ {r} : held'[s] = held[s]
    BY <1>2 DEF Allocated
  <2>3. /\ HeldOn(held, l) \in Int
        /\ HeldOn(held', l) = HeldOn(held, l) + (held'[r][l] - held[r][l])
    BY <1>2, <2>2, HeldOnChange
  <2>4. CASE kind[r] = "ship"
    <3>1. held'[r][l] = 0 /\ held[r][l] \in Nat
      BY <1>2, <2>4 DEF Allocated, None
    <3> QED
      BY <2>1, <2>3, <3>1
  <2>5. CASE kind[r] # "ship"
    <3>1. held'[r][l] = t[l] /\ held[r][l] = 0
      BY <1>2, <2>5 DEF Allocated, BalanceFirst, HInv, HoldsNothing, None
    <3>2. t[l] > 0 => t[l] =< NonNeg(WithCover(r)[l] - HeldOn(held, l))
      BY <1>1, <2>5 DEF Offered, LotFree
    <3>3. WithCover(r)[l] =< received'[l] /\ WithCover(r)[l] \in Nat /\ t[l] \in Nat
      BY <1>1, <1>3
    <3> QED
      BY <2>1, <2>3, <3>1, <3>2, <3>3 DEF NonNeg
  <2> QED
    BY <2>4, <2>5
<1>5. NeverHeldTwice' /\ \A s \in Requests \ {r} : held'[s] = held[s]
  BY <1>2, <1>4 DEF NeverHeldTwice, Allocated
<1> QED
  BY <1>3, <1>5, CommitHInv

LEMMA ConsumeHInv ==
  ASSUME HInv, NEW r \in Requests, Consume(r) \/ Receive(r)
  PROVE  HInv'
<1>1. TInv' /\ Commit(r) /\ held' = held
  BY ConsumeType, ReceiveType DEF Consume, Receive, HInv
<1>2. ASSUME NEW l \in Lots
      PROVE  received[l] =< received'[l] /\ remaining'[l] =< received'[l]
  <2>1. /\ remaining[l] =< received[l] /\ seen[r][l] =< received[l]
        /\ remaining[l] \in Nat /\ received[l] \in Nat /\ seen[r][l] \in Nat /\ plan[r][l] \in Nat
    BY DEF HInv, NoneAbove, SeenWithin, TInv, TypeOK
  <2>2. CASE Consume(r)
    <3>1. /\ received' = received
          /\ remaining'[l] = IF plan[r][l] > 0 THEN seen[r][l] - plan[r][l] ELSE remaining[l]
      BY <2>2 DEF Consume, Left
    <3> QED
      BY <2>1, <3>1
  <2>3. CASE Receive(r)
    <3>1. /\ received'[l] = IF l = LotOf(r) THEN received[l] + Units ELSE received[l]
          /\ remaining'[l] = IF l = LotOf(r) THEN remaining[l] + Units ELSE remaining[l]
      BY <2>3, LotOfType DEF Receive, HInv, TInv, TypeOK
    <3> QED
      BY <2>1, <3>1, StockRequestsAssumption
  <2> QED
    BY <2>2, <2>3
<1>3. NeverHeldTwice'
  <2> SUFFICES ASSUME NEW l \in Lots
               PROVE  HeldOn(held, l) =< received'[l]
    BY <1>1 DEF NeverHeldTwice
  <2>1. HeldOn(held, l) =< received[l] /\ received[l] =< received'[l]
    BY <1>2 DEF HInv, NeverHeldTwice
  <2>2. HeldOn(held, l) \in Int /\ received[l] \in Nat /\ received'[l] \in Nat
    BY <1>1, HeldOnChange DEF HInv, TInv, TypeOK
  <2> QED
    BY <2>1, <2>2
<1> QED
  BY <1>1, <1>2, <1>3, CommitHInv

LEMMA StepHInv == HInv /\ [Next]_vars => HInv'
<1> SUFFICES ASSUME HInv, [Next]_vars PROVE HInv'
  OBVIOUS
<1>1. TInv'
  BY StepTInv DEF HInv
<1>2. ASSUME NEW r \in Requests, Step(r) PROVE HInv'
  <2>1. CASE Allocate(r)
    BY <1>1, <2>1, AllocateHInv, ReadHInv DEF Allocate
  <2> QED
    BY <1>2, <2>1, ReadHInv, ConsumeHInv DEF Step, Abort
<1>3. CASE UNCHANGED vars
  <2>1. SeenWithin'
    BY <1>3 DEF vars, HInv, SeenWithin
  <2> QED
    BY <1>1, <1>3, <2>1, StockLeftHInv DEF vars
<1> QED
  BY <1>2, <1>3 DEF Next, Done

(* No unit of a lot is reserved for two order lines, whatever else runs: a   *)
(* reservation takes what the others leave under the lock of the balance row *)
(* (_reserved_quantity_for_lot), and a dispatch, a write-off or a dispatch   *)
(* without an order line never shrinks what was received.                    *)
THEOREM HeldOnce == Spec => []NeverHeldTwice
<1>1. HInv => NeverHeldTwice
  BY DEF HInv
<1> QED
  BY <1>1, InitHInv, StepHInv, PTL DEF Spec

-----------------------------------------------------------------------------
(* Sums over the lots.                                                       *)
LEMMA SumOfLots ==
  ASSUME NEW f \in [Lots -> Int], NEW g \in [Lots -> Int], NEW h \in [Lots -> Int],
         \A l \in Lots : h[l] = f[l] + g[l]
  PROVE  Sum(f) \in Int /\ Sum(g) \in Int /\ Sum(h) = Sum(f) + Sum(g)
<1>1. IsFiniteSet(Lots)
  BY FS_Interval, StockRequestsAssumption DEF Lots
<1>2. /\ Sum(f) = SumFunctionOnSet(f, Lots) /\ Sum(g) = SumFunctionOnSet(g, Lots)
      /\ Sum(h) = SumFunctionOnSet(h, Lots)
  BY DEF Sum, SumFunction
<1>3. SumFunctionOnSet(f, Lots) \in Int /\ SumFunctionOnSet(g, Lots) \in Int
  BY <1>1, SumRules
<1>4. SumFunctionOnSet(h, Lots) = SumFunctionOnSet(f, Lots) + SumFunctionOnSet(g, Lots)
  BY <1>1, SumAdd
<1> QED
  BY <1>2, <1>3, <1>4

LEMMA SumOfNone == None \in [Lots -> Int] /\ Sum(None) = 0
<1>1. None \in [Lots -> Int] /\ \A l \in Lots : None[l] = None[l] + None[l]
  BY DEF None
<1>2. Sum(None) \in Int /\ Sum(None) = Sum(None) + Sum(None)
  BY <1>1, SumOfLots
<1>3. \A n \in Int : n = n + n => n = 0
  OBVIOUS
<1> QED
  BY <1>1, <1>2, <1>3

LEMMA SumOfMore ==
  ASSUME NEW f \in [Lots -> Nat], NEW l \in Lots, NEW n \in Nat
  PROVE  Sum(f) \in Int /\ Sum([f EXCEPT ![l] = @ + n]) = Sum(f) + n
<1> DEFINE g == [f EXCEPT ![l] = @ + n]
<1>1. IsFiniteSet(Lots)
  BY FS_Interval, StockRequestsAssumption DEF Lots
<1>2. /\ g \in [Lots -> Nat] /\ g[l] = f[l] + n /\ \A m \in Lots \ {l} : g[m] = f[m]
  OBVIOUS
<1> HIDE DEF g
<1>3. /\ Sum(f) = SumFunctionOnSet(f, Lots) /\ Sum(g) = SumFunctionOnSet(g, Lots)
  BY <1>2 DEF Sum, SumFunction
<1>4. \A m \in Lots : f[m] \in Int /\ g[m] \in Int
  BY <1>2
<1>5. /\ SumFunctionOnSet(f, Lots) \in Int
      /\ SumFunctionOnSet(g, Lots) = SumFunctionOnSet(f, Lots) + (g[l] - f[l])
  BY <1>1, <1>2, <1>4, SumChange
<1>6. Sum(g) = Sum(f) + n /\ Sum(f) \in Int
  BY <1>2, <1>3, <1>5
<1> QED
  BY <1>6 DEF g

(* A plan takes something from some lot, and leaves the rest.                *)
LEMMA PlanTakes ==
  ASSUME NEW t \in [Lots -> Nat], Sum(t) = Units
  PROVE  \E l \in Lots : t[l] > 0
<1> SUFFICES ASSUME \A l \in Lots : ~(t[l] > 0) PROVE FALSE
  OBVIOUS
<1>1. t = None
  BY DEF None
<1> QED
  BY <1>1, SumOfNone, StockRequestsAssumption

LEMMA PlanLeaves ==
  ASSUME NEW f \in [Lots -> Nat], NEW t \in [Lots -> Nat]
  PROVE  /\ Sum(f) \in Int /\ Sum(t) \in Int
         /\ Sum([l \in Lots |-> f[l] - t[l]]) = Sum(f) - Sum(t)
         /\ Sum([l \in Lots |-> f[l] + t[l]]) = Sum(f) + Sum(t)
<1> DEFINE g == [l \in Lots |-> f[l] - t[l]]
           h == [l \in Lots |-> f[l] + t[l]]
<1>1. /\ f \in [Lots -> Int] /\ t \in [Lots -> Int] /\ g \in [Lots -> Int] /\ h \in [Lots -> Int]
      /\ \A l \in Lots : f[l] = g[l] + t[l] /\ h[l] = f[l] + t[l]
  OBVIOUS
<1> HIDE DEF g, h
<1>2. Sum(g) \in Int /\ Sum(t) \in Int /\ Sum(f) = Sum(g) + Sum(t)
  BY <1>1, SumOfLots
<1>3. Sum(f) \in Int /\ Sum(h) = Sum(f) + Sum(t)
  BY <1>1, SumOfLots
<1>4. Sum(g) = Sum(f) - Sum(t) /\ Sum(h) = Sum(f) + Sum(t) /\ Sum(f) \in Int /\ Sum(t) \in Int
  BY <1>2, <1>3
<1> QED
  BY <1>4 DEF g, h

(* What was received is what is there and what was taken.                    *)
LEMMA ReceivedSum ==
  ASSUME NEW rem \in [Lots -> Nat], NEW tak \in [Lots -> Nat], NEW rec \in [Lots -> Nat],
         \A l \in Lots : rec[l] = rem[l] + tak[l]
  PROVE  Sum(rem) \in Int /\ Sum(tak) \in Int /\ Sum(rec) = Sum(rem) + Sum(tak)
BY SumOfLots

-----------------------------------------------------------------------------
(* The backfill counts no unit twice while only reservations, dispatches of  *)
(* order lines and write-offs run.  The balance, with what was taken, never  *)
(* exceeds what was entered: a write-off writes a total that it added up     *)
(* before, but until then no lot changes.  No other write-off is in between, *)
(* for of two write-offs one sees every lot that the other still finds       *)
(* stock in, and a reservation or dispatch waits for the lots in stock.      *)
Orderly == \A r \in Requests : kind[r] \in {"reserve", "ship", "writeoff"}

Writing(r) == kind[r] = "writeoff" /\ pc[r] \in {"queued", "holding"}
Holding(r) == kind[r] = "writeoff" /\ pc[r] = "holding"

Sees(s, r) == \A l \in Lots : seen[r][l] > 0 /\ remaining[l] > 0 => seen[s][l] > 0
InOrder    == \A r, s \in Requests : Writing(r) /\ Writing(s) => Sees(r, s) \/ Sees(s, r)
Alone      == \A r, s \in Requests : Holding(r) /\ Holding(s) => r = s
SeenLocked == \A r \in Requests, l \in Lots : Holding(r) /\ seen[r][l] > 0 => lotLock[l] = r
Totals     == /\ total \in [Requests -> Int]
              /\ \A r \in Requests :
                   Holding(r) => Sum(plan[r]) = Units /\ total[r] = Sum(remaining) - Units
Covers ==
  \A r \in Requests : kind[r] \in BalanceFirst =>
    /\ pc[r] = "holding" <=> balLock = r
    /\ pc[r] = "holding" => cover[r] = NonNeg(balance - Sum(remaining))
    /\ pc[r] # "done" => received[LotOf(r)] = 0
Entered ==
  /\ balance \in Int /\ entered \in Int
  /\ Sum(received) =< entered
  /\ balance + Sum(taken) =< entered

KInv == /\ CInv /\ HInv
        /\ InOrder /\ Alone /\ SeenLocked /\ Totals /\ Covers /\ Entered

LEMMA KTypes ==
  ASSUME KInv
  PROVE  /\ TInv /\ balance \in Int /\ entered \in Int
         /\ remaining \in [Lots -> Nat] /\ received \in [Lots -> Nat] /\ taken \in [Lots -> Nat]
         /\ Sum(remaining) \in Int /\ Sum(taken) \in Int
         /\ Sum(received) = Sum(remaining) + Sum(taken)
<1>1. /\ TInv /\ remaining \in [Lots -> Nat] /\ received \in [Lots -> Nat]
      /\ taken \in [Lots -> Nat]
  BY DEF KInv, CInv, TInv, TypeOK
<1>2. \A l \in Lots : received[l] = remaining[l] + taken[l]
  BY DEF KInv, CInv, UnitsConserved
<1> QED
  BY <1>1, <1>2, ReceivedSum DEF KInv, Entered

LEMMA InitKInv == Init => KInv
<1> SUFFICES ASSUME Init PROVE KInv
  OBVIOUS
<1>1. CInv /\ HInv
  BY InitCInv, InitHInv
<1>2. \A r \in Requests : pc[r] = "start" /\ ~Writing(r) /\ ~Holding(r)
  BY DEF Init, Writing, Holding
<1>3. InOrder /\ Alone /\ SeenLocked /\ Totals
  BY <1>2 DEF Init, InOrder, Alone, SeenLocked, Totals
<1>4. \A r \in Requests : received[LotOf(r)] = 0
  <2>1. PICK s \in [1..NumLots -> 0..MaxUnits] :
          remaining = [l \in Lots |-> IF l =< NumLots THEN s[l] ELSE 0]
    BY DEF Init
  <2>2. \A r \in Requests : LotOf(r) \in Lots /\ ~(LotOf(r) =< NumLots)
    BY StockRequestsAssumption, LotOfType, SMT DEF LotOf, Requests
  <2> QED
    BY <2>1, <2>2 DEF Init
<1>5. Covers
  BY <1>4, SMT DEF Init, Covers, Requests, NoRequest
<1>6. Entered
  <2>1. PICK n \in 0..Surplus : balance = Sum(remaining) + n
    BY DEF Init
  <2>2. received = remaining /\ taken = None /\ entered = balance
    BY DEF Init
  <2>3. remaining \in [Lots -> Nat]
    BY <1>1 DEF CInv, TInv, TypeOK
  <2>4. Sum(remaining) \in Int
    BY <2>3, PlanLeaves
  <2>5. n \in Nat
    BY StockRequestsAssumption
  <2>6. Sum(taken) = 0 /\ Sum(received) = Sum(remaining)
    BY <2>2, SumOfNone
  <2> QED
    BY <2>1, <2>2, <2>4, <2>5, <2>6 DEF Entered
<1> QED
  BY <1>1, <1>3, <1>5, <1>6 DEF KInv

(* A request that ends without a write.                                      *)
LEMMA RollbackKInv ==
  ASSUME KInv, CInv', HInv', NEW r \in Requests, Rollback(r)
  PROVE  KInv'
<1>1. /\ \A s \in Requests \ {r} : pc'[s] = pc[s]
      /\ pc'[r] = "done"
      /\ balLock' = IF balLock = r THEN NoRequest ELSE balLock
      /\ \A l \in Lots : lotLock'[l] = IF lotLock[l] = r THEN NoRequest ELSE lotLock[l]
      /\ UNCHANGED <<kind, seen, plan, cover, total, remaining, received, taken, balance, entered>>
  BY KTypes DEF Rollback, Commit, Goes, TInv, TypeOK
<1>2. \A s \in Requests : /\ Writing(s)' => Writing(s) /\ s # r
                          /\ Holding(s)' => Holding(s) /\ s # r
  BY <1>1 DEF Writing, Holding
<1>3. InOrder'
  BY <1>1, <1>2 DEF KInv, InOrder, Sees
<1>4. Alone' /\ Totals'
  BY <1>1, <1>2 DEF KInv, Alone, Totals
<1>5. SeenLocked'
  BY <1>1, <1>2 DEF KInv, SeenLocked
<1>6. Covers'
  <2> SUFFICES ASSUME NEW s \in Requests, kind[s] \in BalanceFirst
               PROVE  /\ pc'[s] = "holding" <=> balLock' = s
                      /\ pc'[s] = "holding" => cover[s] = NonNeg(balance - Sum(remaining))
                      /\ pc'[s] # "done" => received[LotOf(s)] = 0
    BY <1>1 DEF Covers
  <2>1. /\ pc[s] = "holding" <=> balLock = s
        /\ pc[s] = "holding" => cover[s] = NonNeg(balance - Sum(remaining))
        /\ pc[s] # "done" => received[LotOf(s)] = 0
    BY DEF KInv, Covers
  <2>2. s # NoRequest
    BY SMT DEF Requests, NoRequest
  <2>3. CASE s = r
    BY <1>1, <2>1, <2>2, <2>3
  <2>4. CASE s # r
    BY <1>1, <2>1, <2>2, <2>4
  <2> QED
    BY <2>3, <2>4
<1>7. Entered'
  BY <1>1 DEF KInv, Entered
<1> QED
  BY <1>3, <1>4, <1>5, <1>6, <1>7 DEF KInv

LEMMA BeginKInv ==
  ASSUME KInv, CInv', HInv', NEW r \in Requests, BeginWriteoff(r)
  PROVE  KInv'
<1>1. /\ kind[r] = "writeoff" /\ pc[r] = "start"
      /\ \A s \in Requests \ {r} : pc'[s] = pc[s] /\ seen'[s] = seen[s]
      /\ pc'[r] = "queued" /\ seen'[r] = remaining
      /\ UNCHANGED <<kind, plan, cover, total, balLock, lotLock, remaining, received, taken,
                     balance, entered>>
  BY KTypes DEF BeginWriteoff, Quiet, Goes, TInv, TypeOK
<1>2. \A s \in Requests : Holding(s)' => Holding(s) /\ s # r
  BY <1>1 DEF Holding
<1>3. InOrder'
  <2> SUFFICES ASSUME NEW p \in Requests, NEW s \in Requests, Writing(p)', Writing(s)'
               PROVE  Sees(p, s)' \/ Sees(s, p)'
    BY DEF InOrder
  <2>1. CASE p = r \/ s = r
    BY <1>1, <2>1 DEF Sees
  <2>2. CASE p # r /\ s # r
    <3>1. Writing(p) /\ Writing(s)
      BY <1>1, <2>2 DEF Writing
    <3>2. Sees(p, s) \/ Sees(s, p)
      BY <3>1 DEF KInv, InOrder
    <3> QED
      BY <1>1, <2>2, <3>2 DEF Sees
  <2> QED
    BY <2>1, <2>2
<1>4. Alone' /\ Totals'
  BY <1>1, <1>2 DEF KInv, Alone, Totals
<1>5. SeenLocked'
  BY <1>1, <1>2 DEF KInv, SeenLocked
<1>6. Covers'
  BY <1>1 DEF KInv, Covers, BalanceFirst
<1>7. Entered'
  BY <1>1 DEF KInv, Entered
<1> QED
  BY <1>3, <1>4, <1>5, <1>6, <1>7 DEF KInv

LEMMA LockBalanceKInv ==
  ASSUME KInv, CInv', HInv', NEW r \in Requests, LockBalance(r)
  PROVE  KInv'
<1>1. /\ kind[r] \in BalanceFirst /\ pc[r] = "start" /\ balLock = NoRequest /\ balLock' = r
      /\ \A s \in Requests \ {r} : pc'[s] = pc[s] /\ cover'[s] = cover[s]
      /\ pc'[r] = "holding" /\ cover'[r] = NonNeg(balance - Sum(remaining))
      /\ UNCHANGED <<kind, seen, plan, total, lotLock, remaining, received, taken,
                     balance, entered>>
  BY KTypes DEF LockBalance, BalanceFree, Goes, TInv, TypeOK
<1>2. \A s \in Requests : /\ Writing(s)' => Writing(s)
                          /\ Holding(s)' => Holding(s)
  BY <1>1 DEF Writing, Holding, BalanceFirst
<1>3. InOrder'
  BY <1>1, <1>2 DEF KInv, InOrder, Sees
<1>4. Alone' /\ Totals'
  BY <1>1, <1>2 DEF KInv, Alone, Totals
<1>5. SeenLocked'
  BY <1>1, <1>2 DEF KInv, SeenLocked
<1>6. Covers'
  <2> SUFFICES ASSUME NEW s \in Requests, kind[s] \in BalanceFirst
               PROVE  /\ pc'[s] = "holding" <=> balLock' = s
                      /\ pc'[s] = "holding" => cover'[s] = NonNeg(balance - Sum(remaining))
                      /\ pc'[s] # "done" => received[LotOf(s)] = 0
    BY <1>1 DEF Covers
  <2>1. /\ pc[s] = "holding" <=> balLock = s
        /\ pc[s] # "done" => received[LotOf(s)] = 0
    BY DEF KInv, Covers
  <2>2. s # NoRequest
    BY SMT DEF Requests, NoRequest
  <2>3. CASE s = r
    BY <1>1, <2>1, <2>3
  <2>4. CASE s # r
    BY <1>1, <2>1, <2>2, <2>4
  <2> QED
    BY <2>3, <2>4
<1>7. Entered'
  BY <1>1 DEF KInv, Entered
<1> QED
  BY <1>3, <1>4, <1>5, <1>6, <1>7 DEF KInv

(* A write-off that gets its locks is alone: of two write-offs, what one     *)
(* takes from the other sees, and locks.                                     *)
LEMMA LocksAlone ==
  ASSUME KInv, NEW r \in Requests, kind[r] = "writeoff", pc[r] = "queued",
         Unlocked(Wanted(r)), NEW t \in Fifo(ReadAgain(r)), NEW s \in Requests, Holding(s)
  PROVE  FALSE
<1>1. /\ s # NoRequest /\ s # r
      /\ \A l \in Lots : seen[s][l] > 0 => lotLock[l] = s
      /\ \A l \in Lots : seen[r][l] > 0 => lotLock[l] = NoRequest
      /\ Writing(s) /\ Writing(r)
  BY SMT DEF Holding, Writing, Requests, NoRequest, KInv, SeenLocked, Unlocked, Wanted
<1>2. CASE Sees(s, r)
  <2>1. t \in [Lots -> Nat] /\ Sum(t) = Units
    BY FifoBound DEF Fifo
  <2>2. PICK l \in Lots : t[l] > 0
    BY <2>1, PlanTakes
  <2>3. t[l] =< ReadAgain(r)[l]
    BY <2>2, FifoBound
  <2>4. seen[r][l] > 0 /\ remaining[l] > 0
    BY <2>1, <2>2, <2>3, KTypes DEF ReadAgain, Wanted
  <2> QED
    BY <1>1, <1>2, <2>4 DEF Sees
<1>3. CASE Sees(r, s)
  <2>1. plan[s] \in [Lots -> Nat] /\ Sum(plan[s]) = Units
    BY KTypes DEF TInv, TypeOK, KInv, Totals
  <2>2. PICK l \in Lots : plan[s][l] > 0
    BY <2>1, PlanTakes
  <2>3. lotLock[l] = s /\ seen[s][l] = remaining[l]
    BY <2>2 DEF KInv, CInv, WriteoffLocks, Holding
  <2>4. plan[s][l] =< seen[s][l] /\ plan[s][l] \in Nat /\ seen[s][l] \in Nat
    BY KTypes DEF TInv, TypeOK, PlanWithinSeen
  <2>5. seen[s][l] > 0 /\ remaining[l] > 0
    BY <2>2, <2>3, <2>4
  <2> QED
    BY <1>1, <1>3, <2>5 DEF Sees
<1> QED
  BY <1>1, <1>2, <1>3 DEF KInv, InOrder

LEMMA LockWriteoffKInv ==
  ASSUME KInv, CInv', HInv', NEW r \in Requests, LockForWriteoff(r)
  PROVE  KInv'
<1>1. CASE Rollback(r)
  BY <1>1, RollbackKInv
<1>2. ASSUME NEW t \in Fifo(ReadAgain(r)),
             plan' = [plan EXCEPT ![r] = t],
             total' = [total EXCEPT ![r] = Rebuilt([l \in Lots |-> remaining[l] - t[l]])],
             seen' = [seen EXCEPT ![r] = ReadAgain(r)],
             LockFor(r), Goes(r, "holding"), Unlocked(Wanted(r)),
             kind[r] = "writeoff", pc[r] = "queued",
             UNCHANGED <<kind, cover, balLock, remaining, received, taken, balance, entered>>
      PROVE  KInv'
  <2>1. \A s \in Requests : ~Holding(s)
    BY <1>2, LocksAlone
  <2>2. /\ \A s \in Requests \ {r} : pc'[s] = pc[s] /\ seen'[s] = seen[s]
        /\ pc'[r] = "holding" /\ seen'[r] = ReadAgain(r) /\ plan'[r] = t
        /\ total'[r] = Rebuilt([l \in Lots |-> remaining[l] - t[l]])
    BY <1>2, KTypes DEF Goes, TInv, TypeOK, KInv, Totals
  <2>3. \A s \in Requests : /\ Holding(s)' => s = r
                            /\ Writing(s)' => Writing(s)
    BY <1>2, <2>1, <2>2 DEF Holding, Writing
  <2>4. \A l \in Lots : ReadAgain(r)[l] > 0 => seen[r][l] > 0 /\ l \in Wanted(r)
    BY <1>2 DEF ReadAgain, Wanted
  <2>5. \A l \in Lots : seen[r][l] > 0 /\ remaining[l] > 0 => ReadAgain(r)[l] > 0
    BY <1>2 DEF ReadAgain, Wanted
  <2>6. InOrder'
    <3> SUFFICES ASSUME NEW p \in Requests, NEW s \in Requests, Writing(p)', Writing(s)'
                 PROVE  Sees(p, s)' \/ Sees(s, p)'
      BY DEF InOrder
    <3>1. Sees(p, s) \/ Sees(s, p)
      BY <2>3 DEF KInv, InOrder
    <3>2. \A q \in Requests, l \in Lots : seen'[q][l] > 0 => seen[q][l] > 0
      BY <2>2, <2>4
    <3>3. \A q \in Requests, l \in Lots :
            seen[q][l] > 0 /\ remaining[l] > 0 => seen'[q][l] > 0
      BY <2>2, <2>5
    <3> QED
      BY <1>2, <3>1, <3>2, <3>3 DEF Sees
  <2>7. Alone'
    BY <2>3 DEF Alone
  <2>8. SeenLocked'
    BY <1>2, <2>2, <2>3, <2>4 DEF SeenLocked, LockFor
  <2>9. Totals'
    <3>1. t \in [Lots -> Nat] /\ Sum(t) = Units
      BY <1>2, FifoBound DEF Fifo
    <3>2. Rebuilt([l \in Lots |-> remaining[l] - t[l]]) = Sum(remaining) - Sum(t)
      BY <3>1, KTypes, PlanLeaves DEF Rebuilt
    <3>3. Sum(remaining) - Units \in Int
      BY KTypes, StockRequestsAssumption
    <3>4. total' \in [Requests -> Int]
      BY <1>2, <3>1, <3>2, <3>3 DEF KInv, Totals
    <3> QED
      BY <1>2, <2>2, <2>3, <3>1, <3>2, <3>4 DEF Totals
  <2>10. Covers'
    BY <1>2, <2>2 DEF KInv, Covers, BalanceFirst
  <2>11. Entered'
    BY <1>2 DEF KInv, Entered
  <2> QED
    BY <2>6, <2>7, <2>8, <2>9, <2>10, <2>11 DEF KInv
<1> QED
  BY <1>1, <1>2 DEF LockForWriteoff

(* While a write-off holds its lots, no reservation and no dispatch gets the *)
(* lots in stock.                                                            *)
LEMMA AllocateAlone ==
  ASSUME KInv, Unlocked(InStock), NEW s \in Requests, Holding(s)
  PROVE  FALSE
<1>1. plan[s] \in [Lots -> Nat] /\ Sum(plan[s]) = Units
  BY KTypes DEF TInv, TypeOK, KInv, Totals
<1>2. PICK l \in Lots : plan[s][l] > 0
  BY <1>1, PlanTakes
<1> QED
  BY <1>2, NoneHeld DEF KInv, Holding

(* Writes of r, the only one that holds anything of these lots: what is left *)
(* of a lot is what was there, or backfilled into the lot of r.              *)
LEMMA WrittenKInv ==
  ASSUME KInv, CInv', HInv', NEW r \in Requests, Commit(r),
         \A s \in Requests \ {r} : ~Holding(s),
         kind[r] \in BalanceFirst => pc[r] = "holding",
         balLock = NoRequest \/ balLock = r,
         \A l \in Lots : remaining'[l] > 0 /\ ~(remaining[l] > 0) => received[l] = 0,
         \A s \in Requests \ {r} : received'[LotOf(s)] = received[LotOf(s)],
         Entered'
  PROVE  KInv'
<1>1. /\ \A s \in Requests \ {r} : pc'[s] = pc[s]
      /\ pc'[r] = "done" /\ balLock' = NoRequest
      /\ UNCHANGED <<kind, seen, plan, cover, total>>
  BY KTypes DEF Commit, Goes, TInv, TypeOK
<1>2. \A s \in Requests : ~Holding(s)' /\ (Writing(s)' => Writing(s))
  BY <1>1 DEF Writing, Holding
<1>3. InOrder'
  <2> SUFFICES ASSUME NEW p \in Requests, NEW s \in Requests, Writing(p)', Writing(s)'
               PROVE  Sees(p, s)' \/ Sees(s, p)'
    BY DEF InOrder
  <2>1. Sees(p, s) \/ Sees(s, p)
    BY <1>2 DEF KInv, InOrder
  <2>2. ASSUME NEW q \in Requests, NEW l \in Lots, seen[q][l] > 0, remaining'[l] > 0
        PROVE  remaining[l] > 0
    <3>1. seen[q][l] =< received[l] /\ seen[q][l] \in Nat
      BY KTypes DEF KInv, HInv, SeenWithin, TInv, TypeOK
    <3>2. received[l] # 0
      BY <2>2, <3>1, KTypes
    <3> QED
      BY <2>2, <3>2
  <2> QED
    BY <1>1, <2>1, <2>2 DEF Sees
<1>4. Alone' /\ Totals' /\ SeenLocked'
  BY <1>1, <1>2 DEF KInv, Alone, Totals, SeenLocked
<1>5. Covers'
  <2> SUFFICES ASSUME NEW s \in Requests, kind[s] \in BalanceFirst
               PROVE  /\ pc'[s] # "holding" /\ balLock' # s
                      /\ pc'[s] # "done" => received'[LotOf(s)] = 0
    BY <1>1 DEF Covers
  <2>1. /\ pc[s] = "holding" <=> balLock = s
        /\ pc[s] # "done" => received[LotOf(s)] = 0
    BY DEF KInv, Covers
  <2>2. s # NoRequest
    BY SMT DEF Requests, NoRequest
  <2>3. CASE s = r
    BY <1>1, <2>2, <2>3
  <2>4. CASE s # r
    BY <1>1, <2>1, <2>2, <2>4
  <2> QED
    BY <2>3, <2>4
<1> QED
  BY <1>3, <1>4, <1>5 DEF KInv

LEMMA AllocateKInv ==
  ASSUME KInv, CInv', HInv', NEW r \in Requests, Allocate(r)
  PROVE  KInv'
<1>1. CASE Rollback(r)
  BY <1>1, RollbackKInv
<1>2. ASSUME NEW t \in Fifo(Offered(r)), Allocated(r, t), Commit(r)
      PROVE  KInv'
  <2>1. /\ kind[r] \in BalanceFirst /\ pc[r] = "holding" /\ Unlocked(InStock)
        /\ balLock = r /\ cover[r] = NonNeg(balance - Sum(remaining))
        /\ received[LotOf(r)] = 0
    BY DEF Allocate, KInv, Covers
  <2>2. t \in [Lots -> Nat] /\ cover[r] \in Nat /\ LotOf(r) \in Lots
    BY <1>2, FifoBound, LotOfType, KTypes DEF TInv, TypeOK
  <2>3. /\ \A l \in Lots : received'[l] = IF l = LotOf(r) THEN received[l] + cover[r]
                                          ELSE received[l]
        /\ \A l \in Lots \ {LotOf(r)} : remaining'[l] =< remaining[l]
    <3>1. \A l \in Lots : WithCover(r)[l] = IF l = LotOf(r) THEN remaining[l] + cover[r]
                                            ELSE remaining[l]
      BY <2>2, KTypes DEF WithCover
    <3>2. \A l \in Lots : remaining'[l] = IF kind[r] = "ship" THEN WithCover(r)[l] - t[l]
                                          ELSE WithCover(r)[l]
      BY <1>2 DEF Allocated
    <3>3. \A l \in Lots : received'[l] = IF l = LotOf(r) THEN received[l] + cover[r]
                                         ELSE received[l]
      BY <1>2, <2>2, KTypes DEF Allocated
    <3>4. \A l \in Lots \ {LotOf(r)} : remaining'[l] =< remaining[l]
      <4> TAKE l \in Lots \ {LotOf(r)}
      <4>1. WithCover(r)[l] = remaining[l] /\ remaining[l] \in Nat /\ t[l] \in Nat
        BY <2>2, <3>1, KTypes
      <4> QED
        BY <3>2, <4>1
    <3> QED
      BY <3>3, <3>4
  <2>4. \A l \in Lots : remaining'[l] > 0 /\ ~(remaining[l] > 0) => received[l] = 0
    <3> TAKE l \in Lots
    <3>1. remaining[l] \in Nat /\ remaining'[l] \in Nat
      BY KTypes DEF HInv, TInv, TypeOK
    <3> QED
      BY <2>1, <2>3, <3>1
  <2>5. \A s \in Requests \ {r} : received'[LotOf(s)] = received[LotOf(s)]
    BY <2>3, LotOfType
  <2>6. Entered'
    <3>1. /\ remaining' \in [Lots -> Nat] /\ received' \in [Lots -> Nat]
          /\ taken' \in [Lots -> Nat]
          /\ \A l \in Lots : received'[l] = remaining'[l] + taken'[l]
      BY DEF CInv, TInv, TypeOK, UnitsConserved
    <3>2. /\ Sum(remaining') \in Int /\ Sum(taken') \in Int
          /\ Sum(received') = Sum(remaining') + Sum(taken')
      BY <3>1, ReceivedSum
    <3>3. Sum(received') = Sum(received) + cover[r] /\ Sum(received) \in Int
      <4>1. received' = [received EXCEPT ![LotOf(r)] = @ + cover[r]]
        BY <1>2 DEF Allocated
      <4> QED
        BY <2>2, <4>1, SumOfMore, KTypes
    <3>4. balance' = Sum(remaining') /\ entered' = entered
      BY <1>2 DEF Allocated, Rebuilt
    <3>5. /\ Sum(received) =< entered /\ balance + Sum(taken) =< entered
          /\ Sum(received) = Sum(remaining) + Sum(taken)
          /\ balance \in Int /\ entered \in Int /\ Sum(remaining) \in Int /\ Sum(taken) \in Int
      BY KTypes DEF KInv, Entered
    <3>6. Sum(received) + cover[r] =< entered
      BY <2>1, <3>5 DEF NonNeg
    <3> QED
      BY <3>2, <3>3, <3>4, <3>5, <3>6 DEF Entered
  <2> QED
    BY <1>2, <2>1, <2>4, <2>5, <2>6, AllocateAlone, WrittenKInv
<1> QED
  BY <1>1, <1>2 DEF Allocate

LEMMA ConsumeKInv ==
  ASSUME KInv, CInv', HInv', NEW r \in Requests, kind[r] = "writeoff", Consume(r)
  PROVE  KInv'
<1>1. /\ Holding(r) /\ Commit(r) /\ balLock = NoRequest /\ remaining' = Left(r)
      /\ taken' = [l \in Lots |-> taken[l] + plan[r][l]]
      /\ balance' = total[r] /\ UNCHANGED <<received, entered>>
  BY DEF Consume, Holding, BalanceFree
<1>2. \A s \in Requests \ {r} : ~Holding(s)
  BY <1>1 DEF KInv, Alone
<1>3. \A l \in Lots : remaining'[l] > 0 => remaining[l] > 0
  <2> TAKE l \in Lots
  <2>1. /\ plan[r][l] > 0 => seen[r][l] = remaining[l]
        /\ plan[r][l] =< seen[r][l] /\ plan[r][l] \in Nat /\ remaining[l] \in Nat
    BY <1>1, KTypes DEF KInv, CInv, WriteoffLocks, Holding, TInv, TypeOK, PlanWithinSeen
  <2>2. remaining'[l] = IF plan[r][l] > 0 THEN seen[r][l] - plan[r][l] ELSE remaining[l]
    BY <1>1 DEF Left
  <2> QED
    BY <2>1, <2>2
<1>4. Entered'
  <2>1. Sum(plan[r]) = Units /\ total[r] = Sum(remaining) - Units
    BY <1>1 DEF KInv, Totals
  <2>2. plan[r] \in [Lots -> Nat]
    BY KTypes DEF TInv, TypeOK
  <2>3. Sum(taken') = Sum(taken) + Units
    BY <1>1, <2>1, <2>2, KTypes, PlanLeaves
  <2>4. /\ Sum(received) =< entered /\ entered \in Int
        /\ Sum(received) = Sum(remaining) + Sum(taken)
        /\ Sum(remaining) \in Int /\ Sum(taken) \in Int
    BY KTypes DEF KInv, Entered
  <2> QED
    BY <1>1, <2>1, <2>3, <2>4, StockRequestsAssumption DEF Entered
<1>5. kind[r] \notin BalanceFirst
  BY DEF BalanceFirst
<1> QED
  BY <1>1, <1>2, <1>3, <1>4, <1>5, WrittenKInv

LEMMA StepKInv == Orderly /\ KInv /\ [Next]_vars => KInv'
<1> SUFFICES ASSUME Orderly, KInv, [Next]_vars PROVE KInv'
  OBVIOUS
<1>1. CInv' /\ HInv'
  BY StepCInv, StepHInv DEF KInv, Orderly, NoManual
<1>2. ASSUME NEW r \in Requests, Step(r) PROVE KInv'
  <2>1. kind[r] \in {"reserve", "ship", "writeoff"}
    BY DEF Orderly
  <2>2. /\ ~BeginReceive(r) /\ ~BeginElsewhere(r) /\ ~BeginManual(r)
        /\ ~LockForManual(r) /\ ~Receive(r) /\ ~Rewrite(r)
    BY <2>1 DEF BeginReceive, BeginElsewhere, BeginManual, LockForManual, Receive, Rewrite
  <2>3. Consume(r) => kind[r] = "writeoff"
    BY <2>1 DEF Consume, LotsFirst
  <2> QED
    BY <1>1, <1>2, <2>2, <2>3, BeginKInv, LockBalanceKInv, LockWriteoffKInv, AllocateKInv,
       ConsumeKInv, RollbackKInv DEF Step, Abort
<1>3. CASE UNCHANGED vars
  <2>1. InOrder' /\ Alone' /\ SeenLocked' /\ Totals'
    BY <1>3 DEF vars, KInv, InOrder, Alone, SeenLocked, Totals, Sees, Writing, Holding
  <2>2. Covers' /\ Entered'
    BY <1>3 DEF vars, KInv, Covers, Entered
  <2> QED
    BY <1>1, <2>1, <2>2 DEF KInv
<1> QED
  BY <1>2, <1>3 DEF Next, Done

(* Reservations, dispatches of order lines and write-offs of one position    *)
(* never backfill a unit of its balance twice, however they interleave, while *)
(* no goods are received and no rebuild for another position writes the       *)
(* balance: the lots never stand for more than was entered                    *)
(* (_ensure_lot_coverage_from_balance under the row lock of the balance).     *)
THEOREM BackfilledOnce == Spec => []CoveredOnce
<1> DEFINE OInv == TypeOK /\ (Orderly => KInv)
<1>1. Init => OInv
  BY InitKInv, InitTInv DEF TInv
<1>2. TypeOK /\ TypeOK' /\ OInv /\ [Next]_vars => OInv'
  <2>1. [Next]_vars => kind' = kind
    BY DEF Next, Done, vars, Step, BeginReceive, BeginElsewhere, BeginWriteoff, BeginManual, Quiet,
           LockBalance, LockForWriteoff, LockForManual, Allocate, Consume, Receive, Rewrite,
           Abort, Rollback, Commit
  <2> QED
    BY <2>1, StepKInv DEF Orderly
<1>3. OInv => CoveredOnce
  BY DEF CoveredOnce, NoPhantomStock, Orderly, KInv, Entered
<1> QED
  BY <1>1, <1>2, <1>3, TypeCorrect, PTL DEF Spec
=============================================================================
