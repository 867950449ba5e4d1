----------------------- MODULE WarehouseMoves_proofs -----------------------
(* For any number of requests, positions and warehouses: what requests write *)
(* on lots and balances is what they found there and what they did to it.    *)
EXTENDS WarehouseMoves, FiniteSetTheorems, WellFoundedInduction, TLAPS

(* The quantity that a request adds is known but for counts.                 *)
DeltaInv == \A r \in Requests : job[r].kind # "count" => delta[r] = Asked(job[r])
TypeInv  == TypeOK /\ DeltaInv

(* A request that has locked its lots knows what they hold, but for the lots *)
(* created since; nobody else has locked them.                               *)
Holding(r) == pc[r] = "adding" \/ (pc[r] = "queued" /\ delta[r] <= 0)
LotsOf(r) ==
  /\ pc[r] \in {"waiting", "adding"} => delta[r] <= 0
  /\ job[r].kind \notin {"reserve", "ship"} => cover[r] = 0
  /\ lots[r] = IF Holding(r) THEN {From(r)} ELSE {}
  /\ Holding(r) => stock[From(r)] = left[r] - delta[r] - cover[r] + unseen[r]
Disjoint(held) == \A r, s \in Requests : s # r => held[r] \cap held[s] = {}
LotsInv == (\A r \in Requests : LotsOf(r)) /\ Disjoint(lots)

(* An exact count: nothing moved since it read the balance.                  *)
CountOf(r) ==
  job[r].kind = "count" =>
    /\ pc[r] = "start" => ~exact[r]
    /\ exact[r] =>
         /\ pc[r] # "done" => delta[r] = job[r].qty - stock[From(r)]
         /\ pc[r] = "waiting" \/ Holding(r) => unseen[r] = 0
         /\ pc[r] = "queued" => total[r][From(r)] = job[r].qty
CountInv == \A r \in Requests : CountOf(r)

OrdersOnly == \A r \in Requests : job[r].kind \in {"reserve", "ship"}

(* Reservations and dispatches: each has its balance row before it reads lots.*)
RowsOf(r) ==
  /\ cover[r] = 0
  /\ pc[r] \notin {"start", "done"} => From(r) \in rows[r]
  /\ pc[r] = "queued" => \A c \in Touched(r) : total[r][c] = Moved(r)[c]
BalanceInv == balance = stock /\ (\A r \in Requests : RowsOf(r)) /\ Disjoint(rows)

-----------------------------------------------------------------------------
LEMMA JobFacts ==
  ASSUME TypeInv, NEW r \in Requests
  PROVE  /\ job[r] \in Job /\ From(r) \in Cells /\ job[r].to \in Cells /\ job[r].qty \in Nat
         /\ From(r)[2] \in Positions
         /\ job[r].kind = "transfer" => delta[r] < 0 /\ job[r].to # From(r)
         /\ job[r].kind # "transfer" => job[r].to = From(r)
         /\ job[r].kind = "receive" => delta[r] > 0
         /\ job[r].kind \in {"expense", "ship"} => delta[r] < 0
         /\ job[r].kind = "reserve" => delta[r] = 0
<1>1. job[r] \in Jobs
  BY DEF TypeInv, TypeOK
<1>2. job[r] \in Job
  BY <1>1, WarehouseAssumption
<1>3. From(r) \in Cells /\ job[r].to \in Cells /\ job[r].qty \in Nat /\ From(r)[2] \in Positions
  BY <1>2 DEF Job, From, Cells
<1>4. /\ job[r].kind # "count" => job[r].qty > 0
      /\ IF job[r].kind = "transfer" THEN job[r].from[1] # job[r].to[1] ELSE job[r].to = job[r].from
  BY <1>1, WarehouseAssumption
<1>5. /\ job[r].kind \in {"transfer", "expense", "ship"} => delta[r] = -job[r].qty
      /\ job[r].kind = "receive" => delta[r] = job[r].qty
      /\ job[r].kind = "reserve" => delta[r] = 0
  BY DEF TypeInv, DeltaInv, Asked
<1> QED
  BY <1>2, <1>3, <1>4, <1>5 DEF From

LEMMA MovedType ==
  ASSUME TypeInv, NEW r \in Requests
  PROVE  /\ Moved(r) \in [Cells -> Nat]
         /\ Moved(r)[From(r)] = IF delta[r] > 0 THEN stock[From(r)] + delta[r] ELSE left[r] + unseen[r]
         /\ \A c \in Cells \ {From(r), job[r].to} : Moved(r)[c] = stock[c]
         /\ job[r].kind = "transfer" => Moved(r)[job[r].to] = stock[job[r].to] - delta[r]
<1>1. stock \in [Cells -> Nat] /\ delta[r] \in Int /\ left[r] \in Nat /\ unseen[r] \in Nat
  BY DEF TypeInv, TypeOK
<1>2. CASE delta[r] > 0
  <2>1. Moved(r) = [stock EXCEPT ![From(r)] = @ + delta[r]]
    BY <1>2 DEF Moved
  <2> QED BY <1>1, <1>2, <2>1, JobFacts
<1>3. CASE ~(delta[r] > 0)
  <2>1. Moved(r) = [c \in Cells |-> IF c = From(r) THEN left[r] + unseen[r]
                                    ELSE IF c = job[r].to THEN stock[c] - delta[r] ELSE stock[c]]
    BY <1>1, <1>3 DEF Moved
  <2> QED BY <1>1, <1>3, <2>1, JobFacts
<1> QED
  BY <1>1, <1>2, <1>3

LEMMA CreatedType ==
  ASSUME TypeInv, NEW r \in Requests
  PROVE  Created(r) \in Nat
<1>1. delta[r] \in Int /\ left[r] \in Nat /\ cover[r] \in Nat
  BY DEF TypeInv, TypeOK
<1>2. CASE job[r].kind = "transfer"
  BY <1>1, <1>2, JobFacts DEF Created
<1>3. CASE job[r].kind # "transfer" /\ delta[r] > 0
  BY <1>1, <1>3 DEF Created
<1>4. CASE job[r].kind # "transfer" /\ ~(delta[r] > 0)
  BY <1>1, <1>4 DEF Created, Lesser
<1> QED
  BY <1>2, <1>3, <1>4

-----------------------------------------------------------------------------
LEMMA InitType == Init => TypeInv
<1> SUFFICES ASSUME Init PROVE TypeInv
  OBVIOUS
<1>1. /\ job \in [Requests -> Jobs] /\ stock \in [Cells -> Nat]
      /\ \A j \in Jobs : j.qty \in Nat
  BY WarehouseAssumption DEF Init, Job
<1>2. \A r \in Requests : Asked(job[r]) \in Int
  BY <1>1 DEF Asked
<1>3. pc \in [Requests -> {"start", "open", "waiting", "adding", "queued", "done"}]
  BY DEF Init
<1>4. delta \in [Requests -> Int] /\ DeltaInv
  BY <1>2 DEF Init, DeltaInv
<1>5. total \in [Requests -> [Cells -> Nat]]
  BY DEF Init
<1>6. /\ cover \in [Requests -> Nat] /\ unseen \in [Requests -> Nat] /\ left \in [Requests -> Nat]
      /\ lots \in [Requests -> SUBSET Cells] /\ rows \in [Requests -> SUBSET Cells]
      /\ balance \in [Cells -> Nat] /\ found \in [Cells -> Nat]
      /\ entered \in [Positions -> Nat] /\ gone \in [Positions -> Nat]
      /\ exact \in [Requests -> BOOLEAN]
  BY <1>1 DEF Init
<1> QED
  BY <1>1, <1>3, <1>4, <1>5, <1>6 DEF TypeInv, TypeOK

LEMMA DoneType ==
  ASSUME TypeInv, NEW r \in Requests, Done(r), UNCHANGED <<goods, exact>>
  PROVE  TypeInv'
BY DEF TypeInv, TypeOK, DeltaInv, Done, Goes, work, goods

LEMMA NextType == TypeInv /\ [Next]_vars => TypeInv'
<1> SUFFICES ASSUME TypeInv, [Next]_vars PROVE TypeInv'
  OBVIOUS
<1> USE DEF TypeInv
<1>1. CASE UNCHANGED vars
  BY <1>1 DEF vars, TypeOK, DeltaInv
<1>2. ASSUME NEW r \in Requests, Step(r) PROVE TypeInv'
  <2>1. CASE ReadBalance(r)
    <3>1. job[r].qty - Recorded(r) \in Int
      BY JobFacts DEF Recorded, TypeOK
    <3>2. TypeOK'
      BY <2>1, <3>1 DEF ReadBalance, Goes, goods, TypeOK
    <3>3. DeltaInv'
      BY <2>1 DEF ReadBalance, DeltaInv, TypeOK
    <3> QED BY <3>2, <3>3
  <2>2. CASE LockBalance(r)
    <3>1. NonNeg(balance[From(r)] - stock[From(r)]) \in Nat
      BY JobFacts DEF NonNeg, TypeOK
    <3>2. Serialized(r) \in SUBSET Cells
      BY JobFacts DEF Serialized
    <3>3. TypeOK'
      BY <2>2, <3>1, <3>2 DEF LockBalance, Goes, goods, TypeOK
    <3>4. DeltaInv'
      BY <2>2 DEF LockBalance, DeltaInv
    <3> QED BY <3>3, <3>4
  <2>3. CASE Create(r)
    BY <2>3, MovedType DEF Create, Goes, goods, TypeOK, DeltaInv
  <2>4. CASE AskLots(r)
    BY <2>4 DEF AskLots, Goes, goods, TypeOK, DeltaInv
  <2>5. CASE TakeLots(r)
    <3>1. /\ stock[From(r)] \in Nat /\ unseen[r] \in Nat /\ cover[r] \in Nat /\ delta[r] \in Int
          /\ From(r) \in Cells
      BY JobFacts DEF TypeOK
    <3>2. Seen(r) \in Nat
      BY <3>1 DEF Seen, NonNeg
    <3>3. CASE Seen(r) >= Wanted(r) /\ ~Done(r)
      <4>1. delta[r] >= -Wanted(r) /\ Wanted(r) \in Int
        BY <3>1, JobFacts DEF Wanted
      <4>2. Seen(r) + delta[r] \in Nat /\ Lesser(unseen[r], stock[From(r)]) \in Nat
        BY <3>1, <3>2, <3>3, <4>1 DEF Lesser
      <4>3. {From(r)} \in SUBSET Cells
        BY <3>1
      <4>4. /\ left' = [left EXCEPT ![r] = Seen(r) + delta[r]]
            /\ unseen' = [unseen EXCEPT ![r] = Lesser(@, stock[From(r)])]
            /\ lots' = [lots EXCEPT ![r] = {From(r)}]
            /\ Goes(r, "adding")
            /\ UNCHANGED <<job, delta, cover, total, rows, goods, exact>>
        BY <2>5, <3>3 DEF TakeLots
      <4> QED BY <4>2, <4>3, <4>4 DEF Goes, goods, TypeOK, DeltaInv
    <3>4. CASE Done(r)
      BY <2>5, <3>4, DoneType DEF TakeLots
    <3> QED BY <2>5, <3>3, <3>4 DEF TakeLots
  <2>6. CASE AddUp(r)
    BY <2>6, MovedType DEF AddUp, Goes, goods, TypeOK, DeltaInv
  <2>7. CASE LockRow(r)
    <3>1. PICK c \in Touched(r) : rows' = [rows EXCEPT ![r] = @ \cup {c}]
      BY <2>7 DEF LockRow
    <3>2. Touched(r) \subseteq Cells
      BY JobFacts DEF Touched, From, Cells, Job
    <3> QED BY <2>7, <3>1, <3>2 DEF LockRow, work, goods, TypeOK, DeltaInv
  <2>8. CASE Commit(r)
    <3>1. stock' \in [Cells -> Nat]
      BY <2>8, MovedType DEF Commit
    <3>2. balance' \in [Cells -> Nat]
      <4>1. Written(r) \in [Cells -> Nat]
        BY MovedType DEF Written, TypeOK
      <4> QED BY <2>8, <4>1 DEF Commit, TypeOK
    <3>3. \A n \in Int : NonNeg(n) \in Nat
      BY DEF NonNeg
    <3>4. /\ delta[r] \in Int /\ cover[r] \in Nat
          /\ entered \in [Positions -> Nat] /\ gone \in [Positions -> Nat]
      BY DEF TypeOK
    <3>5. entered' \in [Positions -> Nat]
      BY <2>8, <3>3, <3>4, JobFacts DEF Commit
    <3>6. gone' \in [Positions -> Nat]
      BY <2>8, <3>3, <3>4, JobFacts DEF Commit
    <3>7. unseen' \in [Requests -> Nat]
      BY <2>8, CreatedType DEF Commit, TypeOK
    <3>8. exact' \in [Requests -> BOOLEAN]
      BY <2>8 DEF Commit, TypeOK
    <3>9. /\ pc' \in [Requests -> {"start", "open", "waiting", "adding", "queued", "done"}]
          /\ lots' \in [Requests -> SUBSET Cells] /\ rows' \in [Requests -> SUBSET Cells]
      BY <2>8 DEF Commit, Goes, TypeOK
    <3>10. UNCHANGED <<job, delta, cover, left, total, found>>
      BY <2>8 DEF Commit
    <3> QED BY <3>1, <3>2, <3>5, <3>6, <3>7, <3>8, <3>9, <3>10 DEF TypeOK, DeltaInv
  <2>9. CASE Abort(r)
    BY <2>9, DoneType DEF Abort
  <2> QED BY <1>2, <2>1, <2>2, <2>3, <2>4, <2>5, <2>6, <2>7, <2>8, <2>9 DEF Step
<1>3. CASE Finished
  BY <1>3 DEF Finished, vars, TypeOK, DeltaInv
<1> QED
  BY <1>1, <1>2, <1>3 DEF Next

(* Rows, locks and what requests remember only have quantities that the code *)
(* can write: no lot and no balance is ever negative (PositiveIntegerField). *)
THEOREM TypeCorrect == Spec => []TypeOK
<1>1. TypeInv => TypeOK
  BY DEF TypeInv
<1> QED
  BY <1>1, InitType, NextType, PTL DEF Spec

-----------------------------------------------------------------------------
(* A step of one request before its commit leaves the goods and what the      *)
(* others remember.                                                           *)
Aside(r) == ReadBalance(r) \/ LockBalance(r) \/ Create(r) \/ AskLots(r) \/ TakeLots(r)
            \/ AddUp(r) \/ LockRow(r) \/ Abort(r)

Same(s) ==
  /\ pc'[s] = pc[s] /\ delta'[s] = delta[s] /\ cover'[s] = cover[s] /\ left'[s] = left[s]
  /\ unseen'[s] = unseen[s] /\ total'[s] = total[s] /\ exact'[s] = exact[s]
  /\ lots'[s] = lots[s] /\ rows'[s] = rows[s]

LEMMA AsideSame ==
  ASSUME TypeInv, NEW r \in Requests, Aside(r)
  PROVE  job' = job /\ stock' = stock /\ balance' = balance /\ \A s \in Requests \ {r} : Same(s)
<1> USE DEF TypeInv, TypeOK, Same, Goes, Done, work, goods
<1>1. CASE ReadBalance(r)
  BY <1>1 DEF ReadBalance
<1>2. CASE LockBalance(r)
  BY <1>2 DEF LockBalance
<1>3. CASE Create(r)
  BY <1>3 DEF Create
<1>4. CASE AskLots(r)
  BY <1>4 DEF AskLots
<1>5. CASE TakeLots(r)
  BY <1>5 DEF TakeLots
<1>6. CASE AddUp(r)
  BY <1>6 DEF AddUp
<1>7. CASE LockRow(r)
  BY <1>7 DEF LockRow
<1>8. CASE Abort(r)
  BY <1>8 DEF Abort
<1> QED
  BY <1>1, <1>2, <1>3, <1>4, <1>5, <1>6, <1>7, <1>8 DEF Aside

(* What a request has saved, cell by cell.                                    *)
LEMMA CommitFacts ==
  ASSUME TypeInv, NEW r \in Requests, Commit(r)
  PROVE  /\ pc[r] = "queued" /\ pc' = [pc EXCEPT ![r] = "done"] /\ job' = job
         /\ stock' = Moved(r) /\ delta' = delta /\ cover' = cover /\ left' = left /\ total' = total
         /\ lots' = [lots EXCEPT ![r] = {}] /\ rows' = [rows EXCEPT ![r] = {}]
         /\ Touched(r) \subseteq rows[r]
         /\ \A c \in Cells : balance'[c] = IF c \in Touched(r) THEN Written(r)[c] ELSE balance[c]
         /\ \A s \in Requests : exact'[s] = (exact[s] /\ From(s) \notin {From(r), job[r].to})
         /\ \A s \in Requests \ {r} :
              unseen'[s] = IF From(s) = job[r].to THEN unseen[s] + Created(r) ELSE unseen[s]
BY DEF Commit, Goes, TypeInv, TypeOK

-----------------------------------------------------------------------------
LEMMA InitLots == Init => LotsInv
<1> SUFFICES ASSUME Init PROVE LotsInv
  OBVIOUS
<1>1. \A r \in Requests : lots[r] = {} /\ cover[r] = 0 /\ pc[r] \in {"start", "open"}
  BY DEF Init
<1> QED
  BY <1>1 DEF LotsInv, LotsOf, Holding, Disjoint

LEMMA LotsAside ==
  ASSUME TypeInv, LotsInv, NEW r \in Requests, Aside(r)
  PROVE  LotsInv'
<1>1. job' = job /\ stock' = stock /\ \A s \in Requests \ {r} : Same(s)
  BY AsideSame
<1>2. ASSUME NEW s \in Requests \ {r} PROVE LotsOf(s)'
  <2>1. Same(s) /\ LotsOf(s)
    BY <1>1 DEF LotsInv
  <2>2. From(s)' = From(s) /\ (Holding(s)' <=> Holding(s))
    BY <1>1, <2>1 DEF From, Holding, Same
  <2> QED BY <1>1, <2>1, <2>2 DEF LotsOf, Same
<1>3. /\ pc[r] \in {"start", "open", "waiting", "adding", "queued", "done"} /\ delta[r] \in Int
      /\ cover[r] \in Nat /\ unseen[r] \in Nat /\ left[r] \in Nat /\ stock[From(r)] \in Nat
      /\ LotsOf(r) /\ Disjoint(lots)
  BY JobFacts DEF TypeInv, TypeOK, LotsInv
<1>4. LotsOf(r)' /\ \A s \in Requests \ {r} : lots'[r] \cap lots[s] = {}
  <2>0. ASSUME lots'[r] = lots[r] \/ lots'[r] = {}
        PROVE  \A s \in Requests \ {r} : lots'[r] \cap lots[s] = {}
    BY <1>3, <2>0 DEF Disjoint
  <2>1. CASE ReadBalance(r)
    <3>1. /\ pc[r] = "start" /\ pc'[r] \in {"open", "done"} /\ cover' = cover /\ lots' = lots
      BY <2>1 DEF ReadBalance, Goes, TypeInv, TypeOK
    <3> QED BY <1>1, <1>3, <2>0, <3>1 DEF LotsOf, Holding
  <2>2. CASE LockBalance(r)
    <3>1. /\ pc[r] = "start" /\ pc'[r] = "open" /\ lots' = lots /\ job[r].kind \in {"reserve", "ship"}
      BY <2>2 DEF LockBalance, Goes, TypeInv, TypeOK
    <3> QED BY <1>1, <1>3, <2>0, <3>1 DEF LotsOf, Holding
  <2>3. CASE Create(r)
    <3>1. /\ pc[r] = "open" /\ pc'[r] = "queued" /\ lots' = lots /\ delta[r] > 0
          /\ delta' = delta /\ cover' = cover
      BY <2>3 DEF Create, Goes, TypeInv, TypeOK
    <3>2. ~Holding(r) /\ ~Holding(r)' /\ delta[r] # 0
      BY <1>3, <3>1 DEF Holding
    <3> QED BY <1>1, <1>3, <2>0, <3>1, <3>2 DEF LotsOf
  <2>4. CASE AskLots(r)
    <3>1. /\ pc[r] = "open" /\ pc'[r] = "waiting" /\ lots' = lots /\ delta[r] <= 0
          /\ delta' = delta /\ cover' = cover
      BY <2>4 DEF AskLots, Goes, TypeInv, TypeOK
    <3> QED BY <1>1, <1>3, <2>0, <3>1 DEF LotsOf, Holding
  <2>5. CASE TakeLots(r) /\ ~Done(r)
    <3>1. /\ pc[r] = "waiting" /\ pc'[r] = "adding" /\ lots'[r] = {From(r)} /\ LotsFree(r)
          /\ delta' = delta /\ cover' = cover /\ left'[r] = Seen(r) + delta[r]
          /\ unseen'[r] = Lesser(unseen[r], stock[From(r)])
      BY <2>5 DEF TakeLots, Goes, TypeInv, TypeOK
    <3>2. Seen(r) = stock[From(r)] - unseen'[r] + cover[r]
      BY <1>3, <3>1 DEF Seen, NonNeg, Lesser
    <3>3. Seen(r) \in Int /\ unseen'[r] \in Nat
      BY <1>3, <3>1, <3>2 DEF Lesser
    <3>4. stock[From(r)] = left'[r] - delta[r] - cover[r] + unseen'[r]
      BY <1>3, <3>1, <3>2, <3>3
    <3>5. \A s \in Requests : From(r) \notin lots[s]
      BY <3>1 DEF LotsFree, Free
    <3>6. From(r)' = From(r)
      BY <1>1 DEF From
    <3> QED BY <1>1, <1>3, <3>1, <3>4, <3>5, <3>6 DEF LotsOf, Holding
  <2>6. CASE TakeLots(r) /\ Done(r)
    <3>1. pc'[r] = "done" /\ lots'[r] = {} /\ cover' = cover
      BY <2>6 DEF TakeLots, Done, Goes, work, TypeInv, TypeOK
    <3> QED BY <1>1, <1>3, <2>0, <3>1 DEF LotsOf, Holding
  <2>7. CASE AddUp(r)
    <3>1. /\ pc[r] = "adding" /\ pc'[r] = "queued" /\ UNCHANGED <<lots, delta, cover, left, unseen>>
      BY <2>7 DEF AddUp, Goes, TypeInv, TypeOK
    <3>2. From(r)' = From(r)
      BY <1>1 DEF From
    <3>3. delta[r] <= 0
      BY <1>3, <3>1 DEF LotsOf
    <3>4. Holding(r) /\ Holding(r)'
      BY <1>3, <3>1, <3>3 DEF Holding
    <3> QED BY <1>1, <1>3, <2>0, <3>1, <3>2, <3>4 DEF LotsOf
  <2>8. CASE LockRow(r)
    <3>1. UNCHANGED <<pc, lots, delta, cover, left, unseen>>
      BY <2>8 DEF LockRow, work
    <3>2. From(r)' = From(r)
      BY <1>1 DEF From
    <3> QED BY <1>1, <1>3, <2>0, <3>1, <3>2 DEF LotsOf, Holding
  <2>9. CASE Abort(r)
    <3>1. pc'[r] = "done" /\ lots'[r] = {} /\ cover' = cover
      BY <2>9 DEF Abort, Done, Goes, work, TypeInv, TypeOK
    <3> QED BY <1>1, <1>3, <2>0, <3>1 DEF LotsOf, Holding
  <2> QED BY <2>1, <2>2, <2>3, <2>4, <2>5, <2>6, <2>7, <2>8, <2>9 DEF Aside
<1>5. Disjoint(lots')
  BY <1>1, <1>3, <1>4 DEF Disjoint, Same
<1> QED
  BY <1>2, <1>4, <1>5 DEF LotsInv, Disjoint

(* A commit changes the lots that another request has locked only by lots     *)
(* that this one does not see.                                                *)
LEMMA LotsCommit ==
  ASSUME TypeInv, LotsInv, NEW r \in Requests, Commit(r)
  PROVE  LotsInv'
<1>1. /\ pc[r] = "queued" /\ pc' = [pc EXCEPT ![r] = "done"] /\ job' = job
      /\ stock' = Moved(r) /\ delta' = delta /\ cover' = cover /\ left' = left
      /\ lots' = [lots EXCEPT ![r] = {}]
  BY CommitFacts
<1>2. pc \in [Requests -> {"start", "open", "waiting", "adding", "queued", "done"}]
      /\ lots \in [Requests -> SUBSET Cells]
  BY DEF TypeInv, TypeOK
<1>3. LotsOf(r)'
  BY <1>1, <1>2 DEF LotsInv, LotsOf, Holding
<1>4. ASSUME NEW s \in Requests \ {r} PROVE LotsOf(s)'
  <2>1. /\ pc'[s] = pc[s] /\ lots'[s] = lots[s] /\ (Holding(s)' <=> Holding(s)) /\ From(s)' = From(s)
    BY <1>1, <1>2 DEF Holding, From
  <2>2. SUFFICES ASSUME Holding(s)
                 PROVE  stock'[From(s)] = left[s] - delta[s] - cover[s] + unseen'[s]
    BY <1>1, <2>1 DEF LotsInv, LotsOf
  <2>3. /\ stock[From(s)] = left[s] - delta[s] - cover[s] + unseen[s] /\ lots[s] = {From(s)}
        /\ lots[r] \cap lots[s] = {}
    BY <2>2 DEF LotsInv, LotsOf, Disjoint
  <2>4. unseen'[s] = IF From(s) = job[r].to THEN unseen[s] + Created(r) ELSE unseen[s]
    BY CommitFacts
  <2>5. /\ delta[r] \in Int /\ delta[s] \in Int /\ cover[s] \in Nat /\ left[s] \in Nat
        /\ unseen[s] \in Nat /\ From(s) \in Cells /\ stock[From(s)] \in Nat
    BY JobFacts DEF TypeInv, TypeOK
  <2>6. delta[r] <= 0 => From(r) # From(s)
    BY <1>1, <2>3 DEF LotsInv, LotsOf, Holding
  <2>8. CASE From(s) = From(r)
    <3>1. delta[r] > 0
      BY <2>5, <2>6, <2>8
    <3>2. job[r].kind # "transfer" /\ job[r].to = From(r)
      BY <2>5, <3>1, JobFacts
    <3>3. Created(r) = delta[r]
      BY <3>1, <3>2 DEF Created
    <3>4. stock'[From(s)] = stock[From(s)] + delta[r]
      BY <1>1, <2>5, <2>8, <3>1, MovedType
    <3> QED BY <2>3, <2>4, <2>5, <2>8, <3>2, <3>3, <3>4
  <2>9. CASE From(s) # From(r) /\ From(s) = job[r].to
    <3>1. job[r].kind = "transfer" /\ delta[r] < 0
      BY <2>9, JobFacts
    <3>2. Created(r) = -delta[r]
      BY <2>5, <3>1 DEF Created
    <3>3. stock'[From(s)] = stock[From(s)] - delta[r]
      BY <1>1, <2>9, <3>1, MovedType
    <3> QED BY <2>3, <2>4, <2>5, <2>9, <3>2, <3>3
  <2>10. CASE From(s) # From(r) /\ From(s) # job[r].to
    <3>1. stock'[From(s)] = stock[From(s)]
      BY <1>1, <2>5, <2>10, MovedType
    <3> QED BY <2>3, <2>4, <2>10, <3>1
  <2> QED BY <2>8, <2>9, <2>10
<1>5. Disjoint(lots')
  BY <1>1, <1>2 DEF LotsInv, Disjoint
<1> QED
  BY <1>3, <1>4, <1>5 DEF LotsInv, Disjoint

-----------------------------------------------------------------------------
LEMMA InitCount == Init => CountInv
<1> SUFFICES ASSUME Init PROVE CountInv
  OBVIOUS
<1>1. \A r \in Requests : exact[r] = FALSE
  BY DEF Init
<1> QED
  BY <1>1 DEF CountInv, CountOf

LEMMA CountAside ==
  ASSUME TypeInv, LotsInv, CountInv, NEW r \in Requests, Aside(r)
  PROVE  CountInv'
<1>1. job' = job /\ stock' = stock /\ \A s \in Requests \ {r} : Same(s)
  BY AsideSame
<1>2. ASSUME NEW s \in Requests \ {r} PROVE CountOf(s)'
  <2>1. Same(s) /\ CountOf(s)
    BY <1>1 DEF CountInv
  <2>2. From(s)' = From(s) /\ (Holding(s)' <=> Holding(s))
    BY <1>1, <2>1 DEF From, Holding, Same
  <2> QED BY <1>1, <2>1, <2>2 DEF CountOf, Same
<1>3. CountOf(r)'
  <2> SUFFICES ASSUME job[r].kind = "count" PROVE CountOf(r)'
    BY <1>1 DEF CountOf
  <2>1. /\ pc[r] \in {"start", "open", "waiting", "adding", "queued", "done"} /\ delta[r] \in Int
        /\ cover[r] = 0 /\ unseen[r] \in Nat /\ left[r] \in Nat /\ stock[From(r)] \in Nat
        /\ job[r].qty \in Nat /\ From(r) \in Cells /\ LotsOf(r) /\ CountOf(r)
    BY JobFacts DEF TypeInv, TypeOK, LotsInv, LotsOf, CountInv
  <2>2. From(r)' = From(r)
    BY <1>1 DEF From
  <2>3. CASE ReadBalance(r)
    <3>1. /\ pc'[r] \in {"open", "done"} /\ delta'[r] = job[r].qty - balance[From(r)]
          /\ exact'[r] = (balance[From(r)] = stock[From(r)])
      BY <2>3 DEF ReadBalance, Recorded, Goes, TypeInv, TypeOK
    <3>2. ~Holding(r)'
      BY <3>1 DEF Holding
    <3> QED BY <1>1, <2>2, <3>1, <3>2 DEF CountOf
  <2>4. CASE Create(r)
    <3>1. /\ pc[r] = "open" /\ pc'[r] = "queued" /\ delta[r] > 0 /\ delta' = delta /\ exact' = exact
          /\ total'[r] = Moved(r)
      BY <2>4 DEF Create, Goes, TypeInv, TypeOK
    <3>2. total'[r][From(r)] = stock[From(r)] + delta[r]
      BY <2>1, <3>1, MovedType
    <3>3. ~Holding(r)'
      BY <2>1, <3>1 DEF Holding
    <3>4. exact[r] => delta[r] = job[r].qty - stock[From(r)]
      BY <2>1, <3>1 DEF CountOf
    <3>5. exact[r] => total'[r][From(r)] = job[r].qty
      BY <2>1, <3>2, <3>4
    <3> QED BY <1>1, <2>2, <3>1, <3>3, <3>4, <3>5 DEF CountOf
  <2>5. CASE AskLots(r)
    <3>1. /\ pc[r] = "open" /\ pc'[r] = "waiting" /\ delta' = delta /\ exact' = exact
          /\ unseen'[r] = 0
      BY <2>5 DEF AskLots, Goes, TypeInv, TypeOK
    <3> QED BY <1>1, <2>1, <2>2, <3>1 DEF CountOf
  <2>6. CASE TakeLots(r)
    <3>1. /\ pc[r] = "waiting" /\ delta' = delta /\ exact' = exact
          /\ \/ pc'[r] = "adding" /\ unseen'[r] = Lesser(unseen[r], stock[From(r)])
             \/ pc'[r] = "done"
      BY <2>6 DEF TakeLots, Done, Goes, work, TypeInv, TypeOK
    <3>2. unseen[r] = 0 => Lesser(unseen[r], stock[From(r)]) = 0
      BY <2>1 DEF Lesser
    <3> QED BY <1>1, <2>1, <2>2, <3>1, <3>2 DEF CountOf, Holding
  <2>7. CASE AddUp(r)
    <3>1. /\ pc[r] = "adding" /\ pc'[r] = "queued" /\ delta' = delta /\ exact' = exact
          /\ unseen' = unseen /\ total'[r] = Moved(r)
      BY <2>7 DEF AddUp, Goes, TypeInv, TypeOK
    <3>2. Holding(r) /\ delta[r] <= 0
      BY <2>1, <3>1 DEF Holding, LotsOf
    <3>3. total'[r][From(r)] = left[r] + unseen[r]
      BY <2>1, <3>1, <3>2, MovedType
    <3>4. stock[From(r)] = left[r] - delta[r] - cover[r] + unseen[r]
      BY <2>1, <3>2 DEF LotsOf
    <3>5. exact[r] => delta[r] = job[r].qty - stock[From(r)] /\ unseen[r] = 0
      BY <2>1, <3>1, <3>2 DEF CountOf
    <3>6. exact[r] => total'[r][From(r)] = job[r].qty
      BY <2>1, <3>3, <3>4, <3>5
    <3> QED BY <1>1, <2>2, <3>1, <3>5, <3>6 DEF CountOf
  <2>8. CASE LockRow(r)
    <3>1. UNCHANGED <<pc, delta, unseen, total, exact>>
      BY <2>8 DEF LockRow, work
    <3>2. Holding(r)' <=> Holding(r)
      BY <3>1 DEF Holding
    <3> QED BY <1>1, <2>1, <2>2, <3>1, <3>2 DEF CountOf
  <2>9. CASE Abort(r)
    <3>1. pc'[r] = "done" /\ ~Holding(r)'
      BY <2>9 DEF Abort, Done, Goes, TypeInv, TypeOK, Holding
    <3> QED BY <3>1 DEF CountOf
  <2>10. CASE LockBalance(r)
    BY <2>10 DEF LockBalance
  <2> QED BY <2>3, <2>4, <2>5, <2>6, <2>7, <2>8, <2>9, <2>10 DEF Aside
<1> QED
  BY <1>2, <1>3 DEF CountInv

LEMMA CountCommit ==
  ASSUME TypeInv, CountInv, NEW r \in Requests, Commit(r)
  PROVE  CountInv'
<1>1. /\ pc' = [pc EXCEPT ![r] = "done"] /\ job' = job /\ stock' = Moved(r) /\ delta' = delta
      /\ total' = total
      /\ \A s \in Requests : exact'[s] = (exact[s] /\ From(s) \notin {From(r), job[r].to})
  BY CommitFacts
<1>2. pc \in [Requests -> {"start", "open", "waiting", "adding", "queued", "done"}]
  BY DEF TypeInv, TypeOK
<1>3. CountOf(r)'
  BY <1>1, <1>2 DEF CountOf, Holding
<1>4. ASSUME NEW s \in Requests \ {r} PROVE CountOf(s)'
  <2>1. pc'[s] = pc[s] /\ From(s)' = From(s) /\ (Holding(s)' <=> Holding(s)) /\ CountOf(s)
    BY <1>1, <1>2 DEF Holding, From, CountInv
  <2>2. ASSUME exact'[s]
        PROVE  exact[s] /\ stock'[From(s)] = stock[From(s)] /\ unseen'[s] = unseen[s]
    <3>1. From(s) \in Cells \ {From(r), job[r].to} /\ exact[s]
      BY <1>1, <2>2, JobFacts
    <3>2. stock'[From(s)] = stock[From(s)]
      BY <1>1, <3>1, MovedType
    <3>3. unseen'[s] = unseen[s]
      BY <3>1, CommitFacts
    <3> QED BY <3>1, <3>2, <3>3
  <2>3. exact[s] = FALSE => exact'[s] = FALSE
    BY <1>1
  <2>4. exact[s] \in BOOLEAN /\ exact'[s] \in BOOLEAN
    BY <1>1 DEF TypeInv, TypeOK
  <2> QED BY <1>1, <2>1, <2>2, <2>3, <2>4 DEF CountOf
<1> QED
  BY <1>3, <1>4 DEF CountInv

-----------------------------------------------------------------------------
Inv == TypeInv /\ LotsInv /\ CountInv

LEMMA NextInv == Inv /\ [Next]_vars => Inv'
<1> SUFFICES ASSUME Inv, [Next]_vars PROVE Inv'
  OBVIOUS
<1>1. TypeInv'
  BY NextType DEF Inv
<1>2. CASE UNCHANGED vars \/ Finished
  <2>1. UNCHANGED vars
    BY <1>2 DEF Finished
  <2>2. LotsInv'
    BY <2>1 DEF vars, Inv, LotsInv, LotsOf, Holding, From, Disjoint
  <2>3. CountInv'
    BY <2>1 DEF vars, Inv, CountInv, CountOf, Holding, From
  <2> QED BY <1>1, <2>2, <2>3 DEF Inv
<1>3. ASSUME NEW r \in Requests, Aside(r) PROVE Inv'
  BY <1>1, <1>3, LotsAside, CountAside DEF Inv
<1>4. ASSUME NEW r \in Requests, Commit(r) PROVE Inv'
  BY <1>1, <1>4, LotsCommit, CountCommit DEF Inv
<1> QED
  BY <1>2, <1>3, <1>4 DEF Next, Step, Aside

LEMMA Invariance == Spec => []Inv
<1>1. Init => Inv
  BY InitType, InitLots, InitCount DEF Inv
<1> QED
  BY <1>1, NextInv, PTL DEF Spec

(* A commit saves what its lots held just before and what it does to them.   *)
LEMMA CommitSaves ==
  ASSUME Inv, NEW r \in Requests, Commit(r)
  PROVE  stock'[From(r)] = stock[From(r)] + cover[r] + delta[r]
<1>1. /\ delta[r] \in Int /\ cover[r] \in Nat /\ left[r] \in Nat /\ unseen[r] \in Nat
      /\ stock[From(r)] \in Nat /\ LotsOf(r) /\ pc[r] = "queued" /\ TypeInv
  BY JobFacts, CommitFacts DEF Inv, TypeInv, TypeOK, LotsInv
<1>2. stock'[From(r)]
        = IF delta[r] > 0 THEN stock[From(r)] + delta[r] ELSE left[r] + unseen[r]
  BY <1>1, MovedType, CommitFacts
<1>3. CASE delta[r] > 0
  <2>1. job[r].kind \notin {"reserve", "ship"}
    BY <1>1, <1>3, JobFacts
  <2>2. cover[r] = 0
    BY <1>1, <2>1 DEF LotsOf
  <2> QED BY <1>1, <1>2, <1>3, <2>2
<1>4. CASE delta[r] <= 0
  <2>1. stock[From(r)] = left[r] - delta[r] - cover[r] + unseen[r]
    BY <1>1, <1>4 DEF LotsOf, Holding
  <2> QED BY <1>1, <1>2, <1>4, <2>1
<1> QED BY <1>1, <1>3, <1>4

(* What a request saves on the lots it took from is what they held just       *)
(* before, less what it took: remaining_qty of a lot that another request     *)
(* changed meanwhile is never written over (_consume_inventory_fifo,          *)
(* allocate_inventory_to_order_item).                                         *)
Saves(r) == Commit(r) => stock'[From(r)] = stock[From(r)] + cover[r] + delta[r]

THEOREM NothingOverwritten == Spec => [][\A r \in Requests : Saves(r)]_vars
<1>1. Inv /\ [Next]_vars => [\A r \in Requests : Saves(r)]_vars
  BY CommitSaves DEF Saves
<1> QED
  BY <1>1, Invariance, PTL DEF Spec

(* A count whose balance was not stale, and that no request overtook, leaves  *)
(* the counted quantity on the lots and on the balance (create_adjustment).   *)
THEOREM CountsAreKept == Spec => CountHolds
<1>1. Inv /\ [Next]_vars =>
        [\A r \in Requests :
           job[r].kind = "count" /\ exact[r] /\ pc[r] = "queued" /\ stock' # stock /\ pc'[r] = "done"
             => stock'[From(r)] = job[r].qty /\ balance'[From(r)] = job[r].qty]_vars
  <2> SUFFICES ASSUME Inv, Next, NEW r \in Requests, job[r].kind = "count", exact[r],
                      pc[r] = "queued", stock' # stock, pc'[r] = "done"
               PROVE  stock'[From(r)] = job[r].qty /\ balance'[From(r)] = job[r].qty
    OBVIOUS
  <2>1. \A q \in Requests : ~Aside(q)
    BY AsideSame DEF Inv
  <2>2. PICK q \in Requests : Commit(q)
    BY <2>1 DEF Next, Step, Aside, Finished, vars
  <2>3. q = r
    BY <2>2, CommitFacts DEF Inv, TypeInv, TypeOK
  <2>4. /\ delta[r] \in Int /\ cover[r] = 0 /\ left[r] \in Nat /\ unseen[r] \in Nat
        /\ stock[From(r)] \in Nat /\ LotsOf(r) /\ CountOf(r) /\ From(r) \in Cells
        /\ job[r].qty \in Nat
    BY JobFacts DEF Inv, TypeInv, TypeOK, LotsInv, LotsOf, CountInv
  <2>5. delta[r] = job[r].qty - stock[From(r)] /\ total[r][From(r)] = job[r].qty
    BY <2>4 DEF CountOf
  <2>6. stock'[From(r)]
          = IF delta[r] > 0 THEN stock[From(r)] + delta[r] ELSE left[r] + unseen[r]
    BY <2>2, <2>3, MovedType, CommitFacts DEF Inv
  <2>7. delta[r] <= 0 => stock[From(r)] = left[r] - delta[r] - cover[r] + unseen[r]
    BY <2>4 DEF LotsOf, Holding
  <2>8. stock'[From(r)] = job[r].qty
    BY <2>4, <2>5, <2>6, <2>7
  <2>9. From(r) \in Touched(r)
    BY <2>4 DEF Touched, From, Cells
  <2>10. balance'[From(r)] = total[r][From(r)]
    BY <2>2, <2>3, <2>4, <2>9, CommitFacts DEF Inv, Written
  <2> QED BY <2>5, <2>8, <2>10
<1> QED
  BY <1>1, Invariance, PTL DEF Spec, CountHolds

-----------------------------------------------------------------------------
LEMMA OrderFacts ==
  ASSUME OrdersOnly, TypeInv, NEW r \in Requests
  PROVE  /\ job[r].kind \in {"reserve", "ship"} /\ job[r].to = From(r)
         /\ delta[r] <= 0 /\ delta[r] \in Int
         /\ From(r) \in Touched(r) /\ Touched(r) \subseteq Cells
         /\ \A s \in Requests : From(s) \notin Touched(r)
              => From(s) # From(r) /\ From(r) \notin Touched(s)
<1>1. job[r].kind \in {"reserve", "ship"} /\ delta[r] \in Int
  BY WarehouseAssumption DEF OrdersOnly, TypeInv, TypeOK
<1>2. job[r].to = From(r) /\ delta[r] <= 0 /\ From(r) \in Cells
  BY <1>1, JobFacts
<1>3. \A s \in Requests : /\ From(s) \in Cells
                          /\ Touched(s) = {From(s)[1]} \X Positions
  <2> TAKE s \in Requests
  <2>1. job[s].kind \in {"reserve", "ship"}
    BY DEF OrdersOnly, TypeInv, TypeOK
  <2>2. job[s].to = From(s) /\ From(s) \in Cells
    BY <2>1, JobFacts
  <2> QED BY <2>2 DEF Touched, From
<1>4. From(r) \in Touched(r) /\ Touched(r) \subseteq Cells
  BY <1>3 DEF Cells
<1>5. ASSUME NEW s \in Requests, From(s) \notin Touched(r)
      PROVE  From(s) # From(r) /\ From(r) \notin Touched(s)
  <2>1. From(s)[1] # From(r)[1]
    BY <1>3, <1>5 DEF Cells
  <2> QED BY <1>3, <2>1
<1> QED
  BY <1>1, <1>2, <1>4, <1>5

(* What they leave, written out.                                              *)
LEMMA OrderMoved ==
  ASSUME OrdersOnly, TypeInv, NEW r \in Requests
  PROVE  Moved(r) = [c \in Cells |-> IF c = From(r) THEN left[r] + unseen[r] ELSE stock[c]]
BY OrderFacts DEF Moved

LEMMA InitBalance == OrdersOnly /\ Init => BalanceInv
<1> SUFFICES ASSUME OrdersOnly, Init PROVE BalanceInv
  OBVIOUS
<1>1. \A r \in Requests : pc[r] = "start" /\ cover[r] = 0 /\ rows[r] = {}
  BY DEF Init, OrdersOnly
<1> QED
  BY <1>1 DEF Init, BalanceInv, RowsOf, Disjoint

LEMMA BalanceAside ==
  ASSUME OrdersOnly, TypeInv, BalanceInv, NEW r \in Requests, Aside(r)
  PROVE  BalanceInv'
<1>1. job' = job /\ stock' = stock /\ balance' = balance /\ \A s \in Requests \ {r} : Same(s)
  BY AsideSame
<1>2. \A s \in Requests : From(s)' = From(s) /\ Touched(s)' = Touched(s)
  BY <1>1 DEF From, Touched
<1>3. ASSUME NEW s \in Requests,
             delta'[s] = delta[s], left'[s] = left[s], unseen'[s] = unseen[s]
      PROVE  Moved(s)' = Moved(s)
  BY <1>1, <1>3 DEF Moved, From
<1>4. ASSUME NEW s \in Requests \ {r} PROVE RowsOf(s)'
  <2>1. Same(s) /\ RowsOf(s)
    BY <1>1 DEF BalanceInv
  <2>2. Moved(s)' = Moved(s)
    BY <1>3, <2>1 DEF Same
  <2> QED BY <1>2, <2>1, <2>2 DEF RowsOf, Same
<1>5. /\ RowsOf(r) /\ Disjoint(rows) /\ balance = stock
      /\ pc[r] \in {"start", "open", "waiting", "adding", "queued", "done"}
      /\ rows \in [Requests -> SUBSET Cells] /\ From(r) \in Cells /\ stock[From(r)] \in Nat
  BY JobFacts DEF BalanceInv, TypeInv, TypeOK
<1>6. job[r].kind \in {"reserve", "ship"} /\ ~(delta[r] > 0)
  BY OrderFacts
<1>7. RowsOf(r)' /\ \A s \in Requests \ {r} : rows'[r] \cap rows[s] = {}
  <2>0. ASSUME rows'[r] = rows[r] \/ rows'[r] = {}
        PROVE  \A s \in Requests \ {r} : rows'[r] \cap rows[s] = {}
    BY <1>5, <2>0 DEF Disjoint
  <2>1. CASE ReadBalance(r) \/ Create(r)
    BY <1>6, <2>1 DEF ReadBalance, Create
  <2>2. CASE LockBalance(r)
    <3>1. /\ pc'[r] = "open" /\ rows'[r] = {From(r)} /\ Free(rows, From(r))
          /\ cover'[r] = NonNeg(balance[From(r)] - stock[From(r)])
      BY <2>2 DEF LockBalance, Serialized, Goes, TypeInv, TypeOK
    <3>2. cover'[r] = 0
      BY <1>5, <3>1 DEF NonNeg
    <3>3. \A s \in Requests \ {r} : rows'[r] \cap rows[s] = {}
      BY <3>1 DEF Free
    <3> QED BY <1>2, <3>1, <3>2, <3>3 DEF RowsOf
  <2>3. CASE AskLots(r)
    <3>1. pc[r] = "open" /\ pc'[r] = "waiting" /\ rows' = rows /\ cover' = cover
      BY <2>3 DEF AskLots, Goes, TypeInv, TypeOK
    <3> QED BY <1>2, <1>5, <2>0, <3>1 DEF RowsOf
  <2>4. CASE TakeLots(r)
    <3>1. /\ pc[r] = "waiting" /\ cover' = cover
          /\ \/ pc'[r] = "adding" /\ rows' = rows
             \/ pc'[r] = "done" /\ rows'[r] = {}
      BY <2>4 DEF TakeLots, Done, Goes, work, TypeInv, TypeOK
    <3> QED BY <1>2, <1>5, <2>0, <3>1 DEF RowsOf
  <2>5. CASE AddUp(r)
    <3>1. /\ pc[r] = "adding" /\ pc'[r] = "queued" /\ total'[r] = Moved(r)
          /\ UNCHANGED <<rows, cover, delta, left, unseen>>
      BY <2>5 DEF AddUp, Goes, TypeInv, TypeOK
    <3>2. Moved(r)' = Moved(r)
      BY <1>3, <3>1
    <3> QED BY <1>2, <1>5, <2>0, <3>1, <3>2 DEF RowsOf
  <2>6. CASE LockRow(r)
    <3>1. PICK c \in Touched(r) : Free(rows, c) /\ rows' = [rows EXCEPT ![r] = @ \cup {c}]
      BY <2>6 DEF LockRow
    <3>2. rows'[r] = rows[r] \cup {c}
      BY <1>5, <3>1
    <3>3. UNCHANGED <<pc, cover, delta, left, unseen, total>>
      BY <2>6 DEF LockRow, work
    <3>4. Moved(r)' = Moved(r)
      BY <1>3, <3>3
    <3>5. RowsOf(r)'
      BY <1>2, <1>5, <3>2, <3>3, <3>4 DEF RowsOf
    <3>6. \A s \in Requests \ {r} : rows'[r] \cap rows[s] = {}
      BY <1>5, <3>1, <3>2 DEF Free, Disjoint
    <3> QED BY <3>5, <3>6
  <2>7. CASE Abort(r)
    <3>1. pc'[r] = "done" /\ rows'[r] = {} /\ cover' = cover
      BY <2>7 DEF Abort, Done, Goes, work, TypeInv, TypeOK
    <3> QED BY <1>5, <2>0, <3>1 DEF RowsOf
  <2> QED BY <2>1, <2>2, <2>3, <2>4, <2>5, <2>6, <2>7 DEF Aside
<1>8. Disjoint(rows')
  BY <1>1, <1>5, <1>7 DEF Disjoint, Same
<1> QED
  BY <1>1, <1>4, <1>5, <1>7, <1>8 DEF BalanceInv, Disjoint

(* Who commits holds every row of its warehouse, so no other reservation or   *)
(* dispatch from there is past its first lock.                                *)
LEMMA BalanceCommit ==
  ASSUME OrdersOnly, TypeInv, TypeInv', BalanceInv, NEW r \in Requests, Commit(r)
  PROVE  BalanceInv'
<1>1. /\ pc[r] = "queued" /\ pc' = [pc EXCEPT ![r] = "done"] /\ job' = job
      /\ stock' = Moved(r) /\ UNCHANGED <<delta, cover, left, total>>
      /\ rows' = [rows EXCEPT ![r] = {}] /\ Touched(r) \subseteq rows[r]
      /\ \A c \in Cells : balance'[c] = IF c \in Touched(r) THEN Written(r)[c] ELSE balance[c]
      /\ \A s \in Requests \ {r} :
           unseen'[s] = IF From(s) = job[r].to THEN unseen[s] + Created(r) ELSE unseen[s]
  BY CommitFacts
<1>2. /\ pc \in [Requests -> {"start", "open", "waiting", "adding", "queued", "done"}]
      /\ rows \in [Requests -> SUBSET Cells]
      /\ balance' \in [Cells -> Nat] /\ stock' \in [Cells -> Nat]
  BY DEF TypeInv, TypeOK
<1>3. Moved(r) = [c \in Cells |-> IF c = From(r) THEN left[r] + unseen[r] ELSE stock[c]]
  BY OrderMoved
<1>4. balance' = stock'
  <2>1. ASSUME NEW c \in Cells PROVE balance'[c] = stock'[c]
    <3>1. CASE c \in Touched(r)
      BY <1>1, <3>1 DEF BalanceInv, RowsOf, Written
    <3>2. CASE c \notin Touched(r)
      <4>1. c # From(r)
        BY <3>2, OrderFacts
      <4> QED BY <1>1, <1>3, <3>2, <4>1 DEF BalanceInv
    <3> QED BY <3>1, <3>2
  <2> QED BY <1>2, <2>1
<1>5. RowsOf(r)'
  BY <1>1, <1>2 DEF BalanceInv, RowsOf
<1>6. ASSUME NEW s \in Requests \ {r} PROVE RowsOf(s)'
  <2>1. /\ pc'[s] = pc[s] /\ rows'[s] = rows[s] /\ From(s)' = From(s) /\ Touched(s)' = Touched(s)
        /\ RowsOf(s)
    BY <1>1, <1>2 DEF From, Touched, BalanceInv
  <2>2. SUFFICES ASSUME pc[s] = "queued"
                 PROVE  \A c \in Touched(s) : Moved(s)'[c] = Moved(s)[c]
    BY <1>1, <2>1 DEF RowsOf
  <2>3. From(s) \notin Touched(r)
    BY <1>1, <2>1, <2>2 DEF RowsOf, BalanceInv, Disjoint
  <2>4. From(s) # From(r) /\ From(r) \notin Touched(s) /\ job[r].to = From(r)
    BY <2>3, OrderFacts
  <2>5. unseen'[s] = unseen[s]
    BY <1>1, <2>4
  <2>6. \A c \in Touched(s) : c \in Cells /\ stock'[c] = stock[c]
    BY <1>1, <1>3, <2>4, OrderFacts
  <2>7. Moved(s)' = [c \in Cells |-> IF c = From(s) THEN left[s] + unseen[s] ELSE stock'[c]]
    <3>1. job[s].to = From(s) /\ ~(delta[s] > 0)
      BY OrderFacts
    <3> QED BY <1>1, <2>1, <2>5, <3>1 DEF Moved
  <2>8. Moved(s) = [c \in Cells |-> IF c = From(s) THEN left[s] + unseen[s] ELSE stock[c]]
    BY OrderMoved
  <2> QED BY <2>6, <2>7, <2>8
<1>7. Disjoint(rows')
  BY <1>1, <1>2 DEF BalanceInv, Disjoint
<1> QED
  BY <1>4, <1>5, <1>6, <1>7 DEF BalanceInv, Disjoint

(* However many reservations and dispatches of whatever positions run at once,*)
(* the balances they leave are the totals of the lots                         *)
(* (allocate_inventory_to_order_item, rebuild_inventory_balance_cache).       *)
THEOREM OrdersAgree == Spec => []BalancesAgree
<1> DEFINE OInv == TypeInv /\ (OrdersOnly => BalanceInv)
<1>1. Init => OInv
  BY InitType, InitBalance
<1>2. OInv /\ [Next]_vars => OInv'
  <2> SUFFICES ASSUME OInv, [Next]_vars, OrdersOnly' PROVE BalanceInv'
    BY NextType
  <2>1. CASE UNCHANGED vars \/ Finished
    <3>1. UNCHANGED vars
      BY <2>1 DEF Finished
    <3>2. BalanceInv
      BY <3>1 DEF OrdersOnly, vars
    <3>3. \A r \in Requests : RowsOf(r)'
      <4> TAKE r \in Requests
      <4>1. Moved(r)' = Moved(r) /\ Touched(r)' = Touched(r) /\ From(r)' = From(r)
        BY <3>1 DEF vars, Moved, Touched, From
      <4> QED BY <3>1, <3>2, <4>1 DEF vars, BalanceInv, RowsOf
    <3> QED BY <3>1, <3>2, <3>3 DEF vars, BalanceInv, Disjoint
  <2>2. ASSUME NEW r \in Requests, Aside(r) PROVE BalanceInv'
    <3>1. OrdersOnly
      BY <2>2, AsideSame DEF OrdersOnly
    <3> QED BY <2>2, <3>1, BalanceAside
  <2>3. ASSUME NEW r \in Requests, Commit(r) PROVE BalanceInv'
    <3>1. OrdersOnly
      BY <2>3, CommitFacts DEF OrdersOnly
    <3> QED BY <2>3, <3>1, NextType, BalanceCommit
  <2> QED BY <2>1, <2>2, <2>3 DEF Next, Step, Aside
<1>3. OInv => BalancesAgree
  BY DEF BalanceInv, BalancesAgree, OrdersOnly
<1> QED
  BY <1>1, <1>2, <1>3, PTL DEF Spec

-----------------------------------------------------------------------------
(* Sums over finite sets: the community module takes an arbitrary element    *)
(* first; that any may be taken first follows from a smallest subset for     *)
(* which one may not.                                                        *)

PicksAny(g, f, S) ==
  /\ g \in [SUBSET S -> Int]
  /\ g[{}] = 0
  /\ \A T \in SUBSET S : \A x \in T : g[T] = f[x] + g[T \ {x}]

PicksOne(g, f, S) ==
  g = [s \in SUBSET S |-> IF s = {} THEN 0
                          ELSE f[CHOOSE x \in s : TRUE] + g[s \ {CHOOSE x \in s : TRUE}]]

(* The sum as the library defines it.                                        *)
LEMMA SumIsRecursive ==
  ASSUME NEW f, NEW S
  PROVE  SumFunctionOnSet(f, S) = (CHOOSE g : PicksOne(g, f, S))[S]
BY DEF SumFunctionOnSet, FoldFunctionOnSet, MapThenFoldSet, PicksOne

(* A family of subsets of a finite set has a member that is smallest.        *)
LEMMA SmallestSubset ==
  ASSUME NEW S, IsFiniteSet(S), NEW B, B \subseteq SUBSET S, B # {}
  PROVE  \E T \in B : \A x \in T : T \ {x} \notin B
<1>1. B \subseteq FiniteSubsetsOf(S)
  BY FS_Subset DEF FiniteSubsetsOf
<1>2. PICK T \in B : \A U \in B : <<U, T>> \notin StrictSubsetOrdering(S)
  <2>1. IsWellFoundedOn(StrictSubsetOrdering(S), FiniteSubsetsOf(S))
    BY FS_StrictSubsetOrderingWellFounded
  <2> QED BY <1>1, <2>1, WFMin
<1>3. \A x \in T : T \ {x} \notin B
  BY <1>2 DEF StrictSubsetOrdering
<1> QED BY <1>3

(* There is a function on the subsets that may take any element first.       *)
LEMMA PicksAnyExists ==
  ASSUME NEW f, NEW S, IsFiniteSet(S), \A x \in S : f[x] \in Int
  PROVE  \E g : PicksAny(g, f, S)
<1> DEFINE B == {T \in SUBSET S : ~ \E g : PicksAny(g, f, T)}
<1> SUFFICES ASSUME B # {} PROVE FALSE
  OBVIOUS
<1>1. PICK T \in B : \A x \in T : T \ {x} \notin B
  BY SmallestSubset
<1>2. T # {}
  <2>1. PicksAny([s \in {{}} |-> 0], f, {})
    BY DEF PicksAny
  <2> QED
    BY <1>1, <2>1
<1>3. PICK y \in T : TRUE
  BY <1>2
<1>4. PICK g : PicksAny(g, f, T \ {y})
  BY <1>1, <1>3
<1> DEFINE h == [s \in SUBSET T |-> IF y \in s THEN f[y] + g[s \ {y}] ELSE g[s]]
<1>5. f[y] \in Int
  BY <1>3
<1>6. \A s \in SUBSET T : s \ {y} \in SUBSET (T \ {y}) /\ (y \notin s => s \in SUBSET (T \ {y}))
  OBVIOUS
<1>7. h \in [SUBSET T -> Int]
  BY <1>4, <1>5, <1>6 DEF PicksAny
<1>8. h[{}] = 0
  BY <1>4 DEF PicksAny
<1>9. ASSUME NEW s \in SUBSET T, NEW x \in s
      PROVE  h[s] = f[x] + h[s \ {x}]
  <2>1. CASE x = y
    BY <2>1, <1>5
  <2>2. CASE x # y /\ y \in s
    <3>1. (s \ {x}) \ {y} = (s \ {y}) \ {x} /\ x \in s \ {y}
      BY <2>2
    <3>2. g[s \ {y}] = f[x] + g[(s \ {y}) \ {x}]
      BY <1>4, <1>6, <3>1 DEF PicksAny
    <3>3. g[(s \ {y}) \ {x}] \in Int /\ f[x] \in Int
      BY <1>4 DEF PicksAny
    <3>4. h[s] = f[y] + g[s \ {y}] /\ h[s \ {x}] = f[y] + g[(s \ {y}) \ {x}]
      BY <2>2, <3>1
    <3> QED BY <3>2, <3>3, <3>4, <1>5
  <2>3. CASE y \notin s
    BY <2>3, <1>4, <1>6 DEF PicksAny
  <2> QED BY <2>1, <2>2, <2>3
<1>10. PicksAny(h, f, T)
  BY <1>7, <1>8, <1>9 DEF PicksAny
<1> QED BY <1>10

(* The sum is that function.                                                 *)
LEMMA SumIsAny ==
  ASSUME NEW f, NEW S, IsFiniteSet(S), NEW g, PicksAny(g, f, S)
  PROVE  SumFunctionOnSet(f, S) = g[S]
<1>1. PicksOne(g, f, S)
  BY DEF PicksAny, PicksOne
<1> DEFINE h == CHOOSE h : PicksOne(h, f, S)
<1>2. PicksOne(h, f, S)
  BY <1>1
<1> HIDE DEF h
<1> DEFINE B == {T \in SUBSET S : h[T] # g[T]}
<1>3. B = {}
  <2> SUFFICES ASSUME B # {} PROVE FALSE
    OBVIOUS
  <2>1. PICK T \in B : \A x \in T : T \ {x} \notin B
    BY SmallestSubset
  <2>2. T # {}
    BY <1>1, <1>2 DEF PicksOne
  <2>3. PICK x \in T : x = CHOOSE y \in T : TRUE
    BY <2>2
  <2>4. h[T \ {x}] = g[T \ {x}]
    BY <2>1
  <2>5. h[T] = f[x] + h[T \ {x}]
    BY <1>2, <2>2, <2>3 DEF PicksOne
  <2>6. g[T] = f[x] + g[T \ {x}]
    BY <1>1, <2>2, <2>3 DEF PicksOne
  <2> QED BY <2>4, <2>5, <2>6
<1> QED BY <1>3, SumIsRecursive DEF h

(* The sum over the empty set, and what any element adds.                    *)
LEMMA SumRules ==
  ASSUME NEW f, NEW S, IsFiniteSet(S), \A x \in S : f[x] \in Int
  PROVE  /\ SumFunctionOnSet(f, S) \in Int
         /\ S = {} => SumFunctionOnSet(f, S) = 0
         /\ \A x \in S : SumFunctionOnSet(f, S) = f[x] + SumFunctionOnSet(f, S \ {x})
<1>1. PICK g : PicksAny(g, f, S)
  BY PicksAnyExists
<1>2. SumFunctionOnSet(f, S) = g[S]
  BY <1>1, SumIsAny
<1>3. ASSUME NEW x \in S
      PROVE  SumFunctionOnSet(f, S \ {x}) = g[S \ {x}]
  <2> DEFINE T == S \ {x}
             h == [U \in SUBSET T |-> g[U]]
  <2>1. IsFiniteSet(T)
    BY FS_Subset
  <2>2. PicksAny(h, f, T)
    BY <1>1 DEF PicksAny
  <2>3. SumFunctionOnSet(f, T) = h[T]
    BY <2>1, <2>2, SumIsAny
  <2> QED
    BY <2>3
<1> QED
  BY <1>1, <1>2, <1>3 DEF PicksAny

(* A sum depends on its terms only.                                          *)
LEMMA SumSame ==
  ASSUME NEW S, IsFiniteSet(S), NEW f, NEW g,
         \A x \in S : f[x] \in Int /\ g[x] = f[x]
  PROVE  SumFunctionOnSet(g, S) = SumFunctionOnSet(f, S)
<1>1. PICK F : PicksAny(F, f, S)
  BY PicksAnyExists
<1>2. PicksAny(F, g, S)
  BY <1>1 DEF PicksAny
<1> QED
  BY <1>1, <1>2, SumIsAny

(* One term that changes.                                                    *)
LEMMA SumChange ==
  ASSUME NEW S, IsFiniteSet(S), NEW y \in S, NEW f, NEW g,
         \A x \in S : f[x] \in Int /\ g[x] \in Int,
         \A x \in S \ {y} : g[x] = f[x]
  PROVE  /\ SumFunctionOnSet(f, S) \in Int
         /\ SumFunctionOnSet(g, S) = SumFunctionOnSet(f, S) + (g[y] - f[y])
<1>1. IsFiniteSet(S \ {y})
  BY FS_RemoveElement
<1>2. SumFunctionOnSet(f, S) = f[y] + SumFunctionOnSet(f, S \ {y})
      /\ SumFunctionOnSet(f, S) \in Int
  BY SumRules
<1>3. SumFunctionOnSet(g, S) = g[y] + SumFunctionOnSet(g, S \ {y})
  BY SumRules
<1>4. SumFunctionOnSet(g, S \ {y}) = SumFunctionOnSet(f, S \ {y})
  BY <1>1, SumSame
<1>5. SumFunctionOnSet(f, S \ {y}) \in Int
  BY <1>1, SumRules
<1> QED
  BY <1>2, <1>3, <1>4, <1>5

-----------------------------------------------------------------------------
(* The cells of a position are finitely many.                                *)
LEMMA CellsOf ==
  ASSUME NEW p \in Positions
  PROVE  /\ IsFiniteSet(Warehouses \X {p}) /\ Warehouses \X {p} \subseteq Cells
         /\ \A c \in Cells : c \in Warehouses \X {p} <=> c[2] = p
<1>1. IsFiniteSet(Warehouses) /\ IsFiniteSet({p})
  BY WarehouseAssumption, FS_Singleton
<1>2. IsFiniteSet(Warehouses \X {p})
  BY <1>1, FS_Product
<1> QED
  BY <1>2 DEF Cells

(* What a commit writes on its cells: units that it added or took, and for a *)
(* transfer the same units in another warehouse of the same position.        *)
LEMMA CommitMoves ==
  ASSUME Inv, NEW r \in Requests, Commit(r)
  PROVE  /\ stock'[From(r)] = stock[From(r)] + cover[r] + delta[r]
         /\ \A c \in Cells \ {From(r), job[r].to} : stock'[c] = stock[c]
         /\ job[r].kind = "transfer" =>
              /\ job[r].to # From(r) /\ job[r].to[2] = From(r)[2]
              /\ stock'[job[r].to] = stock[job[r].to] - delta[r]
              /\ cover[r] = 0 /\ delta[r] < 0
<1>1. stock' = Moved(r) /\ TypeInv /\ LotsOf(r)
  BY CommitFacts DEF Inv, LotsInv
<1>2. job[r].kind = "transfer" => job[r].to[2] = From(r)[2]
  <2>1. job[r] \in Jobs
    BY <1>1 DEF TypeInv, TypeOK
  <2> QED
    BY <2>1, WarehouseAssumption DEF From
<1> QED
  BY <1>1, <1>2, MovedType, JobFacts, CommitSaves DEF LotsOf

(* Units in the lots of position p and those taken, against those found and  *)
(* entered.                                                                  *)
LEMMA CommitConserves ==
  ASSUME Inv, Inv', NEW r \in Requests, Commit(r), NEW p \in Positions,
         Stock(stock, p) + gone[p] = Stock(found, p) + entered[p]
  PROVE  Stock(stock', p) + gone'[p] = Stock(found', p) + entered'[p]
<1> DEFINE C == Warehouses \X {p}
           f == From(r)
           t == job[r].to
<1>1. /\ stock \in [Cells -> Nat] /\ stock' \in [Cells -> Nat] /\ found \in [Cells -> Nat]
      /\ delta[r] \in Int /\ cover[r] \in Nat /\ TypeInv
      /\ entered \in [Positions -> Nat] /\ gone \in [Positions -> Nat]
  BY DEF Inv, TypeInv, TypeOK
<1>2. /\ f \in Cells /\ f[2] \in Positions /\ t \in Cells
      /\ job[r].kind # "transfer" => t = f
  BY <1>1, JobFacts
<1>3. /\ IsFiniteSet(C) /\ C \subseteq Cells /\ \A c \in Cells : c \in C <=> c[2] = p
  BY CellsOf
<1>4. /\ stock'[f] = stock[f] + cover[r] + delta[r]
      /\ \A c \in Cells \ {f, t} : stock'[c] = stock[c]
      /\ job[r].kind = "transfer" => /\ t # f /\ t[2] = f[2] /\ stock'[t] = stock[t] - delta[r]
                                     /\ cover[r] = 0 /\ delta[r] < 0
  BY CommitMoves
<1>5. /\ found' = found
      /\ entered' = [entered EXCEPT ![f[2]] = @ + cover[r] + NonNeg(delta[r])]
      /\ gone' = IF job[r].kind = "transfer" THEN gone
                 ELSE [gone EXCEPT ![f[2]] = @ + NonNeg(-delta[r])]
  BY DEF Commit
<1>6. \A c \in C : stock[c] \in Int /\ stock'[c] \in Int
  BY <1>1, <1>3
<1>7. SumFunctionOnSet(stock, C) \in Int /\ SumFunctionOnSet(found, C) \in Int
  BY <1>1, <1>3, SumRules
<1> HIDE DEF C, f, t
<1>8. /\ Stock(stock, p) = SumFunctionOnSet(stock, C)
       /\ Stock(stock', p) = SumFunctionOnSet(stock', C)
       /\ Stock(found', p) = Stock(found, p) /\ Stock(found, p) \in Int
  BY <1>5, <1>7 DEF Stock, C
<1>9. CASE f[2] # p
  <2>1. \A c \in C : stock'[c] = stock[c]
    BY <1>2, <1>3, <1>4, <1>9
  <2>2. SumFunctionOnSet(stock', C) = SumFunctionOnSet(stock, C)
    BY <1>3, <1>6, <2>1, SumSame
  <2>3. entered'[p] = entered[p] /\ gone'[p] = gone[p]
    BY <1>1, <1>5, <1>9
  <2> QED
    BY <1>8, <2>2, <2>3
<1>10. CASE f[2] = p /\ job[r].kind # "transfer"
  <2>1. f \in C /\ \A c \in C \ {f} : stock'[c] = stock[c]
    BY <1>2, <1>3, <1>4, <1>10
  <2>2. SumFunctionOnSet(stock', C) = SumFunctionOnSet(stock, C) + (stock'[f] - stock[f])
    BY <1>3, <1>6, <2>1, SumChange
  <2>3. /\ entered'[p] = entered[p] + cover[r] + NonNeg(delta[r])
        /\ gone'[p] = gone[p] + NonNeg(-delta[r])
    BY <1>1, <1>5, <1>10
  <2>4. NonNeg(delta[r]) - NonNeg(-delta[r]) = delta[r] /\ NonNeg(delta[r]) \in Int
        /\ NonNeg(-delta[r]) \in Int
    BY <1>1 DEF NonNeg
  <2>5. stock[f] \in Int /\ entered[p] \in Int /\ gone[p] \in Int
    BY <1>1, <1>2
  <2> QED
    BY <1>1, <1>4, <1>7, <1>8, <2>2, <2>3, <2>4, <2>5
<1>11. CASE f[2] = p /\ job[r].kind = "transfer"
  <2> DEFINE mid == [stock EXCEPT ![f] = stock'[f]]
  <2>1. f \in C /\ t \in C /\ t # f
    BY <1>2, <1>3, <1>4, <1>11
  <2>2. /\ \A c \in C \ {f} : mid[c] = stock[c]
        /\ \A c \in C \ {t} : stock'[c] = mid[c]
        /\ \A c \in C : mid[c] \in Int
        /\ mid[f] = stock'[f] /\ mid[t] = stock[t]
    BY <1>1, <1>3, <1>4, <1>6, <2>1
  <2> HIDE DEF mid
  <2>3. SumFunctionOnSet(mid, C) = SumFunctionOnSet(stock, C) + (mid[f] - stock[f])
    BY <1>3, <1>6, <2>1, <2>2, SumChange
  <2>4. SumFunctionOnSet(stock', C) = SumFunctionOnSet(mid, C) + (stock'[t] - mid[t])
    BY <1>3, <1>6, <2>1, <2>2, SumChange
  <2>5. /\ entered'[p] = entered[p] + cover[r] + NonNeg(delta[r])
        /\ gone'[p] = gone[p]
    BY <1>1, <1>5, <1>11
  <2>6. NonNeg(delta[r]) = 0 /\ cover[r] = 0
    BY <1>1, <1>4, <1>11 DEF NonNeg
  <2>7. stock[f] \in Int /\ stock[t] \in Int /\ entered[p] \in Int
    BY <1>1, <1>2
  <2> QED
    BY <1>1, <1>4, <1>7, <1>11, <1>8, <2>2, <2>3, <2>4, <2>5, <2>6, <2>7
<1> QED
  BY <1>9, <1>10, <1>11

(* Whichever requests save remaining_qty of the same lots, the lots of a     *)
(* position lose no unit and gain none: what is there and what was taken or  *)
(* counted out is what was found and what was received, counted in or        *)
(* backfilled, and a transfer changes neither.                               *)
THEOREM UnitsStayConserved == Spec => []UnitsConserved
<1>1. Init => UnitsConserved
  <2> SUFFICES ASSUME Init, NEW p \in Positions
               PROVE  Stock(stock, p) + gone[p] = Stock(found, p) + entered[p]
    BY DEF UnitsConserved
  <2>1. found = stock /\ gone[p] = 0 /\ entered[p] = 0
    BY DEF Init
  <2>2. Stock(found, p) = Stock(stock, p)
    BY <2>1
  <2> QED
    BY <2>1, <2>2
<1>2. Inv /\ Inv' /\ UnitsConserved /\ [Next]_vars => UnitsConserved'
  <2> SUFFICES ASSUME Inv, Inv', UnitsConserved, [Next]_vars, NEW p \in Positions
               PROVE  Stock(stock', p) + gone'[p] = Stock(found', p) + entered'[p]
    BY DEF UnitsConserved
  <2>1. Stock(stock, p) + gone[p] = Stock(found, p) + entered[p]
    BY DEF UnitsConserved
  <2>2. CASE UNCHANGED vars \/ Finished \/ \E r \in Requests : Aside(r)
    <3>1. UNCHANGED <<stock, found, entered, gone>>
      BY <2>2 DEF Finished, vars, Aside, ReadBalance, LockBalance, Create, AskLots, TakeLots,
                  AddUp, LockRow, Abort, goods
    <3> QED
      BY <2>1, <3>1
  <2>3. CASE \E r \in Requests : Commit(r)
    BY <2>1, <2>3, CommitConserves
  <2> QED
    BY <2>2, <2>3 DEF Next, Step, Aside
<1> QED
  BY <1>1, <1>2, Invariance, PTL DEF Spec
=============================================================================
