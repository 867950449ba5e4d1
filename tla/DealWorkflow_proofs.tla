------------------------ MODULE DealWorkflow_proofs ------------------------
(* Whatever requests run at one time on a deal, with however old instances,  *)
(* and whatever they left: a request that runs alone to its end repairs the  *)
(* card of the deal.                                                         *)
EXTENDS DealWorkflow, TLAPS

-----------------------------------------------------------------------------
(* Saving fields of an instance keeps the type of the row.                   *)
LEMMA PutType ==
  /\ \A F : \A r, n \in Deal : Put(r, F, n) \in Deal
  /\ \A F : \A r, n \in Order : Put(r, F, n) \in Order
BY SMTT(20) DEF Put, Deal, Order

LEMMA ChangedFields ==
  /\ \A r, n \in Deal : Changed(r, n) \in SUBSET DealFields
  /\ \A o, n \in Order : Changed(o, n) \in SUBSET {"status", "pay"}
BY SMTT(20) DEF Changed, Deal, DealFields, Order

(* recompute_deal_workflow gives a card.                                     *)
LEMMA ComputedFields ==
  ASSUME NEW d \in Deal, NEW o \in Order, NEW s \in Shipment, NEW r \in Reserved,
         NEW k \in BOOLEAN
  PROVE  Computed(d, o, s, r, k) \in Deal
<1> DEFINE a == CaseStatus(d, o, s)
           b == LegacyStatus(o, r, d.avito)
           c == PaymentState(d, o)
           e == Fulfilment(o, s, r)
           f == Delivery(d, o, s)
           g == ShipmentStatus(d, s)
           h == IF d.manual THEN d.step ELSE NextStep(d, o, s, r, k)
<1>1. a \in CaseStatuses
  BY SMTT(20) DEF CaseStatus, SuggestedCase, Deal, CaseStatuses
<1>2. b \in DealStatuses
  BY SMTT(20) DEF LegacyStatus, DealStatuses
<1>3. c \in {"unpaid", "partial", "paid", "refunded"}
  BY SMTT(20) DEF PaymentState
<1>4. e \in {"not_reserved", "reserved_stock", "fulfilled"}
  BY SMTT(20) DEF Fulfilment
<1>5. f \in {"not_required", "ready", "preparing", "shipped", "delivered"}
  BY SMTT(20) DEF Delivery, Deal
<1>6. g \in {"draft", "pending", "sent", "delivered"}
  BY SMTT(20) DEF ShipmentStatus, Deal
<1>7. h \in StepCodes
  <2>1. NextStep(d, o, s, r, k) \in StepCodes
    BY SMTT(20) DEF NextStep, StepCodes
  <2>2. d.step \in StepCodes
    BY SMTT(20) DEF Deal
  <2> QED BY <2>1, <2>2
<1>8. Computed(d, o, s, r, k)
        = [d EXCEPT !.case = a, !.status = b, !.payment = c, !.fulfil = e,
                    !.delivery = f, !.shipping = g, !.step = h]
  BY DEF Computed
<1> HIDE DEF a, b, c, e, f, g, h
<1> DEFINE d1 == [d EXCEPT !.case = a]
           d2 == [d1 EXCEPT !.status = b]
           d3 == [d2 EXCEPT !.payment = c]
           d4 == [d3 EXCEPT !.fulfil = e]
           d5 == [d4 EXCEPT !.delivery = f]
           d6 == [d5 EXCEPT !.shipping = g]
           d7 == [d6 EXCEPT !.step = h]
<1>9. Computed(d, o, s, r, k) = d7
  BY <1>8, Zenon
<1>10. d1 \in Deal
  BY <1>1, SMTT(20) DEF Deal
<1> HIDE DEF d1
<1>11. d2 \in Deal
  BY <1>2, <1>10, SMTT(20) DEF Deal
<1> HIDE DEF d2
<1>12. d3 \in Deal
  BY <1>3, <1>11, SMTT(20) DEF Deal
<1> HIDE DEF d3
<1>13. d4 \in Deal
  BY <1>4, <1>12, SMTT(20) DEF Deal
<1> HIDE DEF d4
<1>14. d5 \in Deal
  BY <1>5, <1>13, SMTT(20) DEF Deal
<1> HIDE DEF d5
<1>15. d6 \in Deal
  BY <1>6, <1>14, SMTT(20) DEF Deal
<1> HIDE DEF d6
<1>16. d7 \in Deal
  BY <1>7, <1>15, SMTT(20) DEF Deal
<1> QED
  BY <1>9, <1>16

-----------------------------------------------------------------------------
(* The steps of a request.                                                   *)
Todo == Seq(Steps \X Slots)
Then(do, x, t) == <<<<do, x>>>> \o t

LEMMA JoinTodo == ASSUME NEW s \in Todo, NEW t \in Todo PROVE s \o t \in Todo
BY DEF Todo

LEMMA ThenTodo ==
  ASSUME NEW do \in Steps, NEW x \in Slots, NEW t \in Todo
  PROVE  Then(do, x, t) \in Todo
BY DEF Then, Todo

(* The steps that requests begin with.                                       *)
LEMMA RequestTodo ==
  /\ <<>> \in Todo
  /\ <<<<"saveOrder", "seen">>, <<"saveDeal", "seen">>, <<"recompute", "seen">>>> \in Todo
  /\ <<<<"saveOrder", "seen">>, <<"effects", "seen">>>> \in Todo
  /\ <<<<"saveOrder", "seen">>, <<"attach", "seen">>, <<"effects", "seen">>>> \in Todo
  /\ <<<<"saveDeal", "seen">>>> \in Todo
  /\ <<<<"saveDeal", "seen">>, <<"recompute", "seen">>>> \in Todo
  /\ <<<<"saveDeal", "seen">>, <<"recompute", "seen">>, <<"recompute", "seen">>>> \in Todo
  /\ <<<<"recompute", "seen">>>> \in Todo
  /\ <<<<"recompute", "copy">>>> \in Todo
  /\ <<<<"reload", "late">>, <<"refresh", "late">>, <<"recompute", "late">>>> \in Todo
  /\ <<<<"reserve", "seen">>, <<"recompute", "seen">>, <<"refresh", "seen">>,
       <<"recompute", "seen">>, <<"recompute", "seen">>>> \in Todo
  /\ <<<<"load", "copy">>, <<"ensure", "copy">>, <<"recompute", "copy">>>> \in Todo
  /\ <<<<"refresh", "seen">>, <<"recompute", "seen">>>> \in Todo
  /\ <<<<"autodispatch", "late">>, <<"reload", "late">>, <<"recompute", "late">>>> \in Todo
  /\ \A do \in {"dispatch", "deliver", "cancel"} :
       <<<<do, "seen">>, <<"reload", "late">>, <<"recompute", "late">>>> \in Todo
<1> DEFINE Do(x, y) == <<x, y>>
<1>1. \A x \in Steps, y \in Slots : <<x, y>> \in Steps \X Slots
  OBVIOUS
<1>2. /\ "seen" \in Slots /\ "copy" \in Slots /\ "late" \in Slots
      /\ "saveOrder" \in Steps /\ "saveDeal" \in Steps /\ "attach" \in Steps
      /\ "effects" \in Steps /\ "load" \in Steps /\ "ensure" \in Steps /\ "refresh" \in Steps
      /\ "autodispatch" \in Steps /\ "dispatch" \in Steps /\ "deliver" \in Steps
      /\ "cancel" \in Steps /\ "reserve" \in Steps /\ "reload" \in Steps
      /\ "recompute" \in Steps
  BY DEF Steps, Slots
<1>3. /\ \A a \in Steps \X Slots : <<a>> \in Todo
      /\ \A a, b \in Steps \X Slots : <<a, b>> \in Todo
      /\ \A a, b, c \in Steps \X Slots : <<a, b, c>> \in Todo
      /\ \A a, b, c, d, e \in Steps \X Slots : <<a, b, c, d, e>> \in Todo
  BY DEF Todo
<1>4. <<>> \in Todo
  BY DEF Todo
<1> QED
  BY <1>1, <1>2, <1>3, <1>4, Zenon

LEMMA SyncTodo ==
  ASSUME NEW o
  PROVE  SyncSteps(o) \in Todo
<1> DEFINE sent == IF o.status = order.status THEN <<>>
                   ELSE <<<<"autodispatch", "late">>, <<"reload", "late">>,
                          <<"recompute", "late">>>>
           ship == <<<<"refresh", "seen">>, <<"recompute", "seen">>>> \o sent
           mid  == IF o.status \notin {"shipping", "done"} THEN <<>> ELSE ship
           load == <<<<"load", "copy">>, <<"ensure", "copy">>, <<"recompute", "copy">>>>
           last == <<<<"recompute", "copy">>>>
<1>1. sent \in Todo
  BY RequestTodo
<1>2. ship \in Todo
  BY <1>1, JoinTodo, RequestTodo
<1>3. mid \in Todo
  BY <1>2, RequestTodo
<1>4. load \in Todo /\ last \in Todo
  BY RequestTodo
<1>5. SyncSteps(o) = (load \o mid) \o last
  BY DEF SyncSteps
<1> HIDE DEF load, mid, last
<1>6. load \o mid \in Todo
  BY <1>3, <1>4, JoinTodo
<1> QED
  BY <1>4, <1>5, <1>6, JoinTodo

-----------------------------------------------------------------------------
(* Requests begin: nobody's rows change.                                     *)
LEMMA BlankType == Blank \in View /\ Idle \in Job /\ Idle.todo = <<>>
<1>1. NewOrder \in Order
  BY DEF NewOrder, Order, OrderStatuses, PayStatuses
<1>2. NewDeal(FALSE, FALSE) \in Deal
  BY SMTT(20) DEF NewDeal, Deal, CaseStatuses, DealStatuses, StepCodes
<1>3. Blank \in View
  BY <1>1, <1>2 DEF Blank, View
<1> HIDE DEF Blank
<1>4. Idle \in Job /\ Idle.todo = <<>>
  BY <1>3 DEF Idle, Job
<1> QED
  BY <1>3, <1>4

LEMMA BeginType ==
  ASSUME TypeOK, NEW w \in Workers, NEW todo \in Todo, NEW d \in Deal, NEW o \in Order,
         NEW dirty \in SUBSET DealFields, Begins(w, todo, d, o, dirty)
  PROVE  TypeOK'
<1> DEFINE j == [todo    |-> todo,
                 views   |-> [s \in Slots |-> IF s = "seen" THEN [deal |-> d, order |-> o]
                                              ELSE Blank],
                 dirty   |-> dirty,
                 changed |-> Changed(order, o)]
<1>1. /\ Quiet(w) /\ served' = served + 1 /\ served < MaxRequests
      /\ alone' = \A v \in Workers \ {w} : Quiet(v)
      /\ job' = [job EXCEPT ![w] = j]
      /\ UNCHANGED <<order, deal, shipment, reserved>>
  BY DEF Begins
<1>2. j \in Job
  <2>1. Changed(order, o) \in SUBSET {"status", "pay"}
    BY ChangedFields DEF TypeOK
  <2>2. [deal |-> d, order |-> o] \in View
    BY DEF View
  <2>3. [s \in Slots |-> IF s = "seen" THEN [deal |-> d, order |-> o] ELSE Blank]
          \in [Slots -> View]
    BY <2>2, BlankType
  <2>4. todo \in Seq(Steps \X Slots)
    BY DEF Todo
  <2> QED BY <2>1, <2>3, <2>4 DEF Job
<1> HIDE DEF j
<1>3. job' \in [Workers -> Job]
  BY <1>1, <1>2 DEF TypeOK
<1>4. alone' \in BOOLEAN
  BY <1>1
<1>5. served' \in 0..MaxRequests
  BY <1>1, DealAssumption DEF TypeOK
<1> QED
  BY <1>1, <1>3, <1>4, <1>5 DEF TypeOK

LEMMA FlagType ==
  ASSUME NEW d \in Deal, NEW b \in BOOLEAN
  PROVE  /\ [d EXCEPT !.manual = b] \in Deal
         /\ [d EXCEPT !.returned = b] \in Deal
         /\ [d EXCEPT !.placed = b] \in Deal
         /\ [d EXCEPT !.prepaid = b] \in Deal
         /\ [d EXCEPT !.tracked = b] \in Deal
BY SMTT(20) DEF Deal

LEMMA CodeType ==
  ASSUME NEW d \in Deal
  PROVE  /\ \A c \in StepCodes : [d EXCEPT !.step = c] \in Deal
         /\ \A c \in CaseStatuses : [d EXCEPT !.case = c] \in Deal
         /\ \A c \in DealStatuses : [d EXCEPT !.status = c] \in Deal
BY SMTT(20) DEF Deal

LEMMA BeginStep ==
  ASSUME TypeOK, NEW w \in Workers, Begin(w)
  PROVE  TypeOK'
<1>1. deal \in Deal /\ order \in Order /\ {} \in SUBSET DealFields
  BY DEF TypeOK
<1>2. CASE Move(w)
  <2>1. PICK c \in Cases :
          LET d == [deal EXCEPT !.case = c]
          IN  Begins(w, <<<<"saveOrder", "seen">>, <<"saveDeal", "seen">>, <<"recompute", "seen">>>>,
                     d, [order EXCEPT !.status = OrderStatusOf(c)], Changed(deal, d))
    BY <1>2 DEF Move
  <2> DEFINE d == [deal EXCEPT !.case = c]
  <2>2. d \in Deal
    BY <1>1, DealAssumption, CodeType
  <2>3. OrderStatusOf(c) \in OrderStatuses
    BY DEF OrderStatusOf, OrderStatuses
  <2>4. [order EXCEPT !.status = OrderStatusOf(c)] \in Order
    BY <1>1, <2>3, SMTT(20) DEF Order
  <2>5. Begins(w, <<<<"saveOrder", "seen">>, <<"saveDeal", "seen">>, <<"recompute", "seen">>>>,
               d, [order EXCEPT !.status = OrderStatusOf(c)], Changed(deal, d))
    BY <2>1
  <2> HIDE DEF d
  <2>6. Changed(deal, d) \in SUBSET DealFields
    BY <1>1, <2>2, ChangedFields
  <2> QED BY <2>2, <2>4, <2>5, <2>6, RequestTodo, BeginType
<1>3. CASE StateForm(w)
  <2>1. PICK f \in Forms :
          LET o == [status |-> OrderStatusOfForm(f.status), pay |-> f.pay]
              d == [deal EXCEPT !.status = f.status, !.prepaid = f.prepaid, !.tracked = f.tracked]
          IN  Begins(w, <<<<"saveDeal", "seen">>>>
                     \o (IF o = order THEN <<>>
                         ELSE <<<<"saveOrder", "seen">>, <<"effects", "seen">>>> \o SyncSteps(o))
                     \o <<<<"recompute", "seen">>>>,
                  d, o, {"status", "prepaid", "tracked"})
    BY <1>3 DEF StateForm
  <2> DEFINE o == [status |-> OrderStatusOfForm(f.status), pay |-> f.pay]
             d1 == [deal EXCEPT !.status = f.status]
             d2 == [d1 EXCEPT !.prepaid = f.prepaid]
             d3 == [d2 EXCEPT !.tracked = f.tracked]
             mid == IF o = order THEN <<>>
                    ELSE <<<<"saveOrder", "seen">>, <<"effects", "seen">>>> \o SyncSteps(o)
             todo == (<<<<"saveDeal", "seen">>>> \o mid) \o <<<<"recompute", "seen">>>>
  <2>2. /\ f.status \in DealStatuses /\ f.pay \in PayStatuses
        /\ f.prepaid \in BOOLEAN /\ f.tracked \in BOOLEAN
    BY DealAssumption
  <2>3. o \in Order
    BY <2>2 DEF Order, OrderStatusOfForm, OrderStatuses
  <2>4. [deal EXCEPT !.status = f.status, !.prepaid = f.prepaid, !.tracked = f.tracked] = d3
    BY Zenon
  <2>5. d1 \in Deal
    BY <1>1, <2>2, CodeType
  <2> HIDE DEF d1
  <2>6. d2 \in Deal
    BY <2>2, <2>5, FlagType
  <2> HIDE DEF d2
  <2>7. d3 \in Deal
    BY <2>2, <2>6, FlagType
  <2>8. Begins(w, todo, d3, o, {"status", "prepaid", "tracked"})
    BY <2>1, <2>4
  <2> HIDE DEF o, d3
  <2>9. mid \in Todo
    BY RequestTodo, SyncTodo, JoinTodo
  <2> HIDE DEF mid
  <2>10. todo \in Todo
    BY <2>9, RequestTodo, JoinTodo
  <2> HIDE DEF todo
  <2>11. {"status", "prepaid", "tracked"} \in SUBSET DealFields
    BY DEF DealFields
  <2> QED BY <2>3, <2>7, <2>8, <2>10, <2>11, BeginType
<1>4. CASE AdminChange(w)
  <2>1. PICK o \in {[order EXCEPT !.status = s] : s \in OrderTargets}
                   \cup {[order EXCEPT !.pay = p] : p \in PayTargets} :
          Begins(w, <<<<"saveOrder", "seen">>, <<"attach", "seen">>, <<"effects", "seen">>>>
                    \o SyncSteps(o), deal, o, {})
    BY <1>4 DEF AdminChange
  <2>2. /\ \A s \in OrderTargets : [order EXCEPT !.status = s] \in Order
        /\ \A p \in PayTargets : [order EXCEPT !.pay = p] \in Order
    BY <1>1, DealAssumption, SMTT(20) DEF Order
  <2>3. o \in Order
    BY <2>2
  <2>4. <<<<"saveOrder", "seen">>, <<"attach", "seen">>, <<"effects", "seen">>>> \o SyncSteps(o)
          \in Todo
    BY RequestTodo, SyncTodo, JoinTodo
  <2> QED BY <1>1, <2>1, <2>3, <2>4, BeginType
<1>5. CASE Override(w)
  <2> DEFINE todo == <<<<"saveDeal", "seen">>, <<"recompute", "seen">>, <<"recompute", "seen">>>>
  <2>1. PICK d \in {[deal EXCEPT !.step = c, !.manual = TRUE] : c \in NextSteps}
                   \cup {[deal EXCEPT !.manual = FALSE]} :
          Begins(w, todo, d, order, IF d.manual THEN {"step", "manual"} ELSE {"manual"})
    BY <1>5 DEF Override
  <2>2. [deal EXCEPT !.manual = FALSE] \in Deal
    BY <1>1, FlagType
  <2>3. ASSUME NEW c \in NextSteps PROVE [deal EXCEPT !.step = c, !.manual = TRUE] \in Deal
    <3> DEFINE e == [deal EXCEPT !.step = c]
    <3>1. e \in Deal
      BY <1>1, DealAssumption, CodeType
    <3>2. [deal EXCEPT !.step = c, !.manual = TRUE] = [e EXCEPT !.manual = TRUE]
      BY Zenon
    <3> HIDE DEF e
    <3>3. [e EXCEPT !.manual = TRUE] \in Deal
      BY <3>1, FlagType
    <3> QED BY <3>2, <3>3
  <2>4. d \in Deal
    BY <2>2, <2>3
  <2>5. {"step", "manual"} \in SUBSET DealFields /\ {"manual"} \in SUBSET DealFields
    BY DEF DealFields
  <2> QED BY <1>1, <2>1, <2>4, <2>5, RequestTodo, BeginType
<1>6. CASE Touch(w)
  BY <1>1, <1>6, RequestTodo, BeginType DEF Touch
<1>7. CASE PrepareShipment(w)
  BY <1>1, <1>7, RequestTodo, BeginType DEF PrepareShipment
<1>8. CASE ReturnGoods(w)
  <2>1. [deal EXCEPT !.returned = TRUE] \in Deal /\ {"returned"} \in SUBSET DealFields
    BY <1>1, FlagType DEF DealFields
  <2> QED BY <1>1, <1>8, <2>1, RequestTodo, BeginType DEF ReturnGoods
<1>9. CASE ShipmentEvent(w)
  <2>1. PICK do \in {"dispatch", "deliver", "cancel"} :
          Begins(w, <<<<do, "seen">>, <<"reload", "late">>, <<"recompute", "late">>>>, deal, order, {})
    BY <1>9 DEF ShipmentEvent
  <2> QED BY <1>1, <2>1, RequestTodo, BeginType
<1> QED
  BY <1>2, <1>3, <1>4, <1>5, <1>6, <1>7, <1>8, <1>9 DEF Begin

-----------------------------------------------------------------------------
(* A request takes a step: what it works on, and what it leaves.             *)
LEMMA Working ==
  ASSUME TypeOK, NEW w \in Workers, job[w].todo # <<>>
  PROVE  /\ job[w].todo \in Todo /\ Rest(w) \in Todo
         /\ Head(job[w].todo) \in Steps \X Slots
         /\ Mine(w) \in View /\ Mine(w).deal \in Deal /\ Mine(w).order \in Order
         /\ \A s \in Slots : job[w].views[s].order \in Order
         /\ \A n \in Nat : SubSeq(job[w].todo, n + 1, Len(job[w].todo)) \in Todo
<1>1. job[w] \in Job
  BY DEF TypeOK
<1>2. job[w].todo \in Seq(Steps \X Slots) /\ job[w].views \in [Slots -> View]
  BY <1>1 DEF Job
<1>3. job[w].todo \in Todo
  BY <1>2 DEF Todo
<1>4. Head(job[w].todo) \in Steps \X Slots /\ Rest(w) \in Todo
  BY <1>2 DEF Todo, Rest
<1>5. Mine(w) \in View
  BY <1>2, <1>4 DEF Mine
<1>6. Mine(w).deal \in Deal /\ Mine(w).order \in Order
  BY <1>5 DEF View
<1>7. \A s \in Slots : job[w].views[s].order \in Order
  BY <1>2 DEF View
<1>8. \A n \in Nat : SubSeq(job[w].todo, n + 1, Len(job[w].todo)) \in Todo
  BY <1>2 DEF Todo
<1> QED
  BY <1>3, <1>4, <1>5, <1>6, <1>7, <1>8

LEMMA GoesOnType ==
  ASSUME TypeOK, NEW w \in Workers, NEW t \in Todo, NEW v \in View
  PROVE  GoesOn(w, t, v) \in Job /\ GoesOn(w, t, v).todo = t
<1>1. job[w] \in Job
  BY DEF TypeOK
<1> DEFINE views == [s \in Slots |-> IF ~Needs(t, s) THEN Blank
                        ELSE IF s = Head(job[w].todo)[2] THEN v ELSE job[w].views[s]]
           dirty == IF At(w, "saveDeal") THEN {} ELSE job[w].dirty
           changed == IF At(w, "effects") \/ t = <<>> THEN {} ELSE job[w].changed
<1>2. views \in [Slots -> View]
  BY <1>1, BlankType DEF Job
<1>3. dirty \in SUBSET DealFields
  BY <1>1 DEF Job
<1>4. changed \in SUBSET {"status", "pay"}
  BY <1>1 DEF Job
<1>5. t \in Seq(Steps \X Slots)
  BY DEF Todo
<1>6. GoesOn(w, t, v) = [todo |-> t, views |-> views, dirty |-> dirty, changed |-> changed]
  BY DEF GoesOn
<1> HIDE DEF views, dirty, changed
<1> QED
  BY <1>2, <1>3, <1>4, <1>5, <1>6 DEF Job

LEMMA GoesJob ==
  ASSUME TypeOK, NEW w \in Workers, NEW t \in Todo, NEW v \in View, Goes(w, t, v)
  PROVE  /\ job' \in [Workers -> Job] /\ job'[w] = GoesOn(w, t, v) /\ job'[w].todo = t
         /\ \A u \in Workers \ {w} : job'[u] = job[u]
<1>1. job \in [Workers -> Job]
  BY DEF TypeOK
<1>2. GoesOn(w, t, v) \in Job /\ GoesOn(w, t, v).todo = t
  BY GoesOnType
<1>3. job' = [job EXCEPT ![w] = GoesOn(w, t, v)]
  BY DEF Goes
<1> QED
  BY <1>1, <1>2, <1>3

(* What Sets makes of the request of w: set are the fields that it will save. *)
LEMMA SetsJob ==
  ASSUME TypeOK, NEW w \in Workers, job[w].todo # <<>>,
         NEW new \in Deal, NEW o \in Order, Sets(w, new, o)
  PROVE  LET set == Changed(Mine(w).deal, new)
             now == GoesOn(w, Saves(w, set), [deal |-> new, order |-> o])
         IN  /\ set \in SUBSET DealFields /\ Saves(w, set) \in Todo
             /\ job' \in [Workers -> Job]
             /\ \A u \in Workers \ {w} : job'[u] = job[u]
             /\ job'[w].todo = Saves(w, set) /\ job'[w].views = now.views
             /\ job'[w].changed = now.changed /\ job'[w].dirty = set
<1> DEFINE set == Changed(Mine(w).deal, new)
           v == [deal |-> new, order |-> o]
           now == GoesOn(w, Saves(w, set), v)
<1>1. job' = [job EXCEPT ![w] = [now EXCEPT !.dirty = set]]
  BY DEF Sets
<1>2. set \in SUBSET DealFields
  BY Working, ChangedFields
<1>3. v \in View
  BY DEF View
<1> HIDE DEF set, v
<1>4. Saves(w, set) \in Todo
  <2>1. Then("saveDeal", Head(job[w].todo)[2], Rest(w)) \in Todo
    BY Working, ThenTodo DEF Steps
  <2> QED BY <2>1, Working DEF Saves, Then
<1>5. now \in Job /\ now.todo = Saves(w, set)
  BY <1>3, <1>4, GoesOnType
<1> HIDE DEF now
<1>6. LET j == [now EXCEPT !.dirty = set]
      IN  j \in Job /\ j.todo = now.todo /\ j.views = now.views /\ j.changed = now.changed
          /\ j.dirty = set
  BY <1>2, <1>5 DEF Job
<1>7. job \in [Workers -> Job]
  BY DEF TypeOK
<1>8. /\ job' \in [Workers -> Job] /\ job'[w] = [now EXCEPT !.dirty = set]
      /\ \A u \in Workers \ {w} : job'[u] = job[u]
  BY <1>1, <1>6, <1>7
<1> QED
  BY <1>2, <1>4, <1>5, <1>6, <1>8 DEF now, set, v

LEMMA GoesType ==
  ASSUME TypeOK, NEW w \in Workers, NEW t \in Todo, NEW v \in View, Goes(w, t, v),
         order' \in Order, deal' \in Deal, shipment' \in Shipment, reserved' \in Reserved,
         UNCHANGED <<alone, served>>
  PROVE  TypeOK'
<1>1. job' \in [Workers -> Job]
  BY GoesJob
<1> QED
  BY <1>1 DEF TypeOK

LEMMA SetsType ==
  ASSUME TypeOK, NEW w \in Workers, job[w].todo # <<>>,
         NEW new \in Deal, NEW o \in Order, Sets(w, new, o),
         reserved' \in Reserved, UNCHANGED <<order, deal, shipment, alone, served>>
  PROVE  TypeOK'
<1>1. job' \in [Workers -> Job]
  BY SetsJob
<1> QED
  BY <1>1 DEF TypeOK

LEMMA SkipType ==
  ASSUME TypeOK, NEW w \in Workers, job[w].todo # <<>>, NEW n \in Nat, Skips(w, n),
         UNCHANGED <<order, deal, shipment, reserved, alone, served>>
  PROVE  TypeOK'
<1> DEFINE t == SubSeq(job[w].todo, n + 1, Len(job[w].todo))
<1>1. t \in Todo /\ Mine(w) \in View /\ Goes(w, t, Mine(w))
  BY Working DEF Skips
<1>2. /\ order' \in Order /\ deal' \in Deal /\ shipment' \in Shipment
      /\ reserved' \in Reserved
  BY DEF TypeOK
<1> HIDE DEF t
<1> QED
  BY <1>1, <1>2, GoesType

-----------------------------------------------------------------------------
LEMMA StatusType ==
  ASSUME NEW s \in Shipment, NEW a \in {"none", "pending", "shipped", "delivered", "cancelled"}
  PROVE  LET n == [s EXCEPT !.status = a]
         IN  /\ n \in Shipment /\ n.status = a /\ n.consumed = s.consumed /\ n.whole = s.whole
             /\ n.sold = s.sold
BY SMTT(20) DEF Shipment

LEMMA SourcedType ==
  ASSUME NEW s \in Shipment, NEW c \in BOOLEAN, NEW b \in BOOLEAN
  PROVE  LET n == [s EXCEPT !.sourced = c, !.whole = b]
         IN  /\ n \in Shipment /\ n.status = s.status /\ n.consumed = s.consumed
             /\ n.sold = s.sold
<1> DEFINE m == [s EXCEPT !.sourced = c]
<1>1. m \in Shipment /\ m.status = s.status /\ m.consumed = s.consumed /\ m.sold = s.sold
  BY SMTT(20) DEF Shipment
<1>2. [s EXCEPT !.sourced = c, !.whole = b] = [m EXCEPT !.whole = b]
  BY Zenon
<1> HIDE DEF m
<1>3. LET n == [m EXCEPT !.whole = b]
      IN  n \in Shipment /\ n.status = m.status /\ n.consumed = m.consumed /\ n.sold = m.sold
  BY <1>1, SMTT(20) DEF Shipment
<1> QED
  BY <1>1, <1>2, <1>3

LEMMA ConsumedType ==
  ASSUME NEW s \in Shipment, NEW a \in {"none", "pending", "shipped", "delivered", "cancelled"},
         NEW n, n = [s EXCEPT !.status = a, !.consumed = TRUE]
  PROVE  n \in Shipment /\ n.status = a /\ n.consumed = TRUE
<1> DEFINE m == [s EXCEPT !.status = a]
<1>1. m \in Shipment /\ m.status = a
  BY StatusType
<1>2. n = [m EXCEPT !.consumed = TRUE]
  BY Zenon
<1> HIDE DEF m
<1>3. PICK b \in BOOLEAN : b = TRUE
  OBVIOUS
<1>4. LET x == [m EXCEPT !.consumed = b]
      IN  x \in Shipment /\ x.status = m.status /\ x.consumed = b
  BY <1>1, SMTT(20) DEF Shipment
<1>5. n = [m EXCEPT !.consumed = b]
  BY <1>2, <1>3
<1> QED
  BY <1>1, <1>3, <1>4, <1>5

LEMMA SoldType ==
  ASSUME NEW s \in Shipment, NEW b \in BOOLEAN
  PROVE  LET n == [s EXCEPT !.sold = b]
         IN  n \in Shipment /\ n.status = s.status /\ n.consumed = s.consumed
BY SMTT(20) DEF Shipment

LEMMA DispatchedType ==
  ASSUME TypeOK
  PROVE  /\ Dispatched \in Shipment /\ Dispatched.consumed = TRUE
         /\ Dispatched.status = IF order.status = "done" THEN "delivered" ELSE "shipped"
<1> DEFINE a == IF order.status = "done" THEN "delivered" ELSE "shipped"
<1>1. shipment \in Shipment
  BY DEF TypeOK
<1>2. PICK b \in BOOLEAN : b = (shipment.sold \/ shipment.whole)
  BY <1>1 DEF Shipment
<1>3. PICK m : m = [shipment EXCEPT !.status = a, !.consumed = TRUE]
  OBVIOUS
<1>4. Dispatched = [m EXCEPT !.sold = b]
  BY <1>2, <1>3, Zenon DEF Dispatched
<1>5. a \in {"none", "pending", "shipped", "delivered", "cancelled"}
  OBVIOUS
<1> HIDE DEF a
<1>6. m \in Shipment /\ m.status = a /\ m.consumed = TRUE
  BY <1>1, <1>3, <1>5, ConsumedType
<1>7. LET n == [m EXCEPT !.sold = b]
      IN  n \in Shipment /\ n.status = m.status /\ n.consumed = m.consumed
  BY <1>6, SoldType
<1> QED
  BY <1>4, <1>6, <1>7 DEF a

LEMMA EnsuredType ==
  ASSUME NEW d \in Deal, NEW o \in Order, NEW r \in Reserved
  PROVE  [d EXCEPT !.status = LegacyStatus(o, r, FALSE), !.prepaid = (o.pay = "paid")] \in Deal
<1> DEFINE a == LegacyStatus(o, r, FALSE)
           e == [d EXCEPT !.status = a]
<1>1. a \in DealStatuses
  BY DEF LegacyStatus, DealStatuses
<1>2. PICK b \in BOOLEAN : b = (o.pay = "paid")
  OBVIOUS
<1>3. [d EXCEPT !.status = a, !.prepaid = (o.pay = "paid")] = [e EXCEPT !.prepaid = b]
  BY <1>2, Zenon
<1> HIDE DEF a
<1>4. e \in Deal
  BY <1>1, CodeType
<1> HIDE DEF e
<1>5. [e EXCEPT !.prepaid = b] \in Deal
  BY <1>4, FlagType
<1> QED
  BY <1>3, <1>5 DEF a

LEMMA ReservedType ==
  \A r \in Reserved : /\ Below(r) \subseteq Reserved /\ Above(r) \subseteq Reserved
                      /\ r \in Below(r) /\ r \in Above(r)
BY DEF Below, Above, Reserved

-----------------------------------------------------------------------------
LEMMA StepType ==
  ASSUME TypeOK, NEW w \in Workers, Step(w)
  PROVE  TypeOK'
<1>1. /\ order \in Order /\ deal \in Deal /\ shipment \in Shipment /\ reserved \in Reserved
      /\ job[w].todo # <<>> /\ UNCHANGED <<alone, served>>
  BY DEF Step, SaveOrder, SaveDeal, Attach, Effects, Load, Ensure, Recompute, Refresh,
         DispatchShipment, MarkDelivered, CancelShipment, Reserve, Reload, At, TypeOK
<1>2. /\ Rest(w) \in Todo /\ Mine(w) \in View /\ Mine(w).deal \in Deal
      /\ Mine(w).order \in Order
  BY <1>1, Working
<1>3. CASE SaveOrder(w)
  <2>1. order' \in Order
    BY <1>1, <1>2, <1>3, PutType DEF SaveOrder
  <2> QED BY <1>1, <1>2, <1>3, <2>1, GoesType DEF SaveOrder
<1>4. CASE SaveDeal(w)
  <2>1. deal' \in Deal
    BY <1>1, <1>2, <1>4, PutType DEF SaveDeal
  <2> QED BY <1>1, <1>2, <1>4, <2>1, GoesType DEF SaveDeal
<1>5. CASE Attach(w)
  <2>1. [Mine(w) EXCEPT !.deal = deal] \in View
    BY <1>1, <1>2 DEF View
  <2> QED BY <1>1, <1>2, <1>5, <2>1, GoesType DEF Attach
<1>6. CASE Effects(w)
  <2>1. PICK t \in {Rest(w), <<<<"recompute", "seen">>>> \o Rest(w)} : Goes(w, t, Mine(w))
    BY <1>6, Zenon DEF Effects
  <2>2. t \in Todo
    <3>1. Then("recompute", "seen", Rest(w)) \in Todo
      BY <1>2, ThenTodo DEF Steps, Slots
    <3> QED BY <1>2, <2>1, <3>1 DEF Then
  <2>3. reserved' \in {"none"} \cup Above(reserved) \cup {reserved}
    BY <1>6 DEF Effects
  <2>4. reserved' \in Reserved
    BY <1>1, <2>3, ReservedType DEF Reserved
  <2> QED BY <1>1, <1>2, <1>6, <2>1, <2>2, <2>4, GoesType DEF Effects
<1>7. CASE Load(w)
  <2>1. [deal |-> deal, order |-> job[w].views["seen"].order] \in View
    BY <1>1, Working DEF View, Slots
  <2> QED BY <1>1, <1>2, <1>7, <2>1, GoesType DEF Load
<1>8. CASE Ensure(w)
  <2> DEFINE n == [Mine(w).deal EXCEPT !.status = LegacyStatus(Mine(w).order, reserved, FALSE),
                                       !.prepaid = (Mine(w).order.pay = "paid")]
  <2>1. n \in Deal
    BY <1>1, <1>2, EnsuredType
  <2>2. Sets(w, n, order) /\ UNCHANGED <<order, deal, shipment, reserved>>
    BY <1>8 DEF Ensure
  <2> HIDE DEF n
  <2> QED BY <1>1, <2>1, <2>2, SetsType
<1>9. CASE Recompute(w)
  <2>1. PICK k \in BOOLEAN :
          Sets(w, Computed(Mine(w).deal, Mine(w).order, shipment, reserved, k), Mine(w).order)
    BY <1>9 DEF Recompute
  <2>2. Computed(Mine(w).deal, Mine(w).order, shipment, reserved, k) \in Deal
    BY <1>1, <1>2, ComputedFields
  <2>3. UNCHANGED <<order, deal, shipment, reserved>>
    BY <1>9 DEF Recompute
  <2> QED BY <1>1, <1>2, <2>1, <2>2, <2>3, SetsType
<1>10. CASE Refresh(w)
  <2>1. PICK linked \in BOOLEAN :
          LET source == shipment.sourced \/ linked \/ Mine(w).deal.placed
              whole  == linked => reserved = "all"
          IN  \/ shipment' = [status |-> "pending", consumed |-> FALSE, sourced |-> source,
                              whole |-> whole, sold |-> FALSE]
              \/ shipment' = [shipment EXCEPT !.status = "delivered"]
              \/ shipment' = [shipment EXCEPT !.sourced = source, !.whole = whole]
              \/ shipment' = shipment
    BY <1>10, Zenon DEF Refresh
  <2> DEFINE source == shipment.sourced \/ linked \/ Mine(w).deal.placed
             whole  == linked => reserved = "all"
  <2>2. source \in BOOLEAN /\ whole \in BOOLEAN
    BY <1>1, <1>2 DEF Shipment
  <2>3. \/ shipment' = [status |-> "pending", consumed |-> FALSE, sourced |-> source,
                        whole |-> whole, sold |-> FALSE]
        \/ shipment' = [shipment EXCEPT !.status = "delivered"]
        \/ shipment' = [shipment EXCEPT !.sourced = source, !.whole = whole]
        \/ shipment' = shipment
    BY <2>1, Zenon
  <2> HIDE DEF source, whole
  <2>4. [status |-> "pending", consumed |-> FALSE, sourced |-> source,
         whole |-> whole, sold |-> FALSE] \in Shipment
    BY <2>2 DEF Shipment
  <2>5. shipment' \in Shipment
    <3>1. [shipment EXCEPT !.status = "delivered"] \in Shipment
      BY <1>1, StatusType
    <3>2. [shipment EXCEPT !.sourced = source, !.whole = whole] \in Shipment
      BY <1>1, <2>2, SourcedType
    <3> QED BY <1>1, <2>3, <2>4, <3>1, <3>2
  <2>6. Goes(w, Rest(w), Mine(w)) /\ UNCHANGED <<order, deal, reserved>>
    BY <1>10 DEF Refresh
  <2> QED BY <1>1, <1>2, <2>5, <2>6, GoesType
<1>11. CASE DispatchShipment(w)
  <2>1. \/ Skips(w, 3) /\ UNCHANGED <<order, deal, shipment, reserved>>
        \/ /\ shipment' = Dispatched /\ reserved' \in Below(reserved) /\ UNCHANGED <<order, deal>>
           /\ Goes(w, Rest(w), Mine(w))
    BY <1>11 DEF DispatchShipment
  <2>2. Dispatched \in Shipment /\ Below(reserved) \subseteq Reserved
    BY <1>1, DispatchedType, ReservedType
  <2> QED BY <1>1, <1>2, <2>1, <2>2, SkipType, GoesType
<1>12. CASE MarkDelivered(w)
  <2>1. \/ Skips(w, 3) /\ UNCHANGED <<order, deal, shipment, reserved>>
        \/ /\ shipment' = [shipment EXCEPT !.status = "delivered", !.consumed = TRUE]
           /\ deal' = deal \/ deal' = [deal EXCEPT !.case = "completed"]
           /\ Goes(w, Rest(w), Mine(w)) /\ UNCHANGED <<order, reserved>>
    BY <1>12 DEF MarkDelivered
  <2>2. [shipment EXCEPT !.status = "delivered", !.consumed = TRUE] \in Shipment
    BY <1>1, ConsumedType
  <2>3. [deal EXCEPT !.case = "completed"] \in Deal
    BY <1>1, CodeType DEF CaseStatuses
  <2> QED BY <1>1, <1>2, <2>1, <2>2, <2>3, SkipType, GoesType
<1>13. CASE CancelShipment(w)
  <2>1. \/ Skips(w, 3) /\ UNCHANGED <<order, deal, shipment, reserved>>
        \/ /\ shipment' = [shipment EXCEPT !.status = "cancelled"]
           /\ reserved' \in Below(reserved)
           /\ Goes(w, Rest(w), Mine(w)) /\ UNCHANGED <<order, deal>>
    BY <1>13 DEF CancelShipment
  <2>2. [shipment EXCEPT !.status = "cancelled"] \in Shipment /\ Below(reserved) \subseteq Reserved
    BY <1>1, StatusType, ReservedType
  <2> QED BY <1>1, <1>2, <2>1, <2>2, SkipType, GoesType
<1>14. CASE Reserve(w)
  <2>1. CASE Skips(w, 2) /\ UNCHANGED <<order, deal, shipment, reserved>>
    BY <1>1, <2>1, SkipType
  <2>2. CASE \E p \in {Mine(w).deal.placed, TRUE} :
               Sets(w, [Mine(w).deal EXCEPT !.placed = p], Mine(w).order)
             /\ reserved' = "all" /\ UNCHANGED <<order, deal, shipment>>
    <3>1. PICK p \in {Mine(w).deal.placed, TRUE} :
            Sets(w, [Mine(w).deal EXCEPT !.placed = p], Mine(w).order)
      BY <2>2
    <3>2. p \in BOOLEAN
      BY <1>2 DEF Deal
    <3>3. [Mine(w).deal EXCEPT !.placed = p] \in Deal /\ reserved' \in Reserved
      BY <1>2, <2>2, <3>2, FlagType DEF Reserved
    <3> QED BY <1>1, <1>2, <2>2, <3>1, <3>3, SetsType
  <2> QED BY <1>14, <2>1, <2>2 DEF Reserve
<1>15. CASE Reload(w)
  <2>1. Now \in View
    BY <1>1 DEF Now, View
  <2> QED BY <1>1, <1>2, <1>15, <2>1, GoesType DEF Reload
<1> QED
  BY <1>3, <1>4, <1>5, <1>6, <1>7, <1>8, <1>9, <1>10, <1>11, <1>12, <1>13, <1>14, <1>15 DEF Step

LEMMA FailsType ==
  ASSUME TypeOK, NEW w \in Workers, Fails(w)
  PROVE  TypeOK'
<1>1. /\ job' = [job EXCEPT ![w] = Idle] /\ alone' = FALSE
      /\ UNCHANGED <<order, deal, shipment, reserved, served>>
  BY DEF Fails
<1> QED
  BY <1>1, BlankType DEF TypeOK

LEMMA InitType == Init => TypeOK
<1> SUFFICES ASSUME Init PROVE TypeOK
  OBVIOUS
<1>1. PICK start \in Starts, k \in BOOLEAN :
        LET card(d) == Computed(d, start.order, start.shipment, start.reserved, k)
        IN  /\ order = start.order /\ shipment = start.shipment /\ reserved = start.reserved
            /\ deal = card(card(NewDeal(start.avito, start.placed)))
  BY DEF Init
<1> DEFINE card(d) == Computed(d, order, shipment, reserved, k)
<1>2. /\ order \in Order /\ shipment \in Shipment /\ reserved \in Reserved
      /\ start.avito \in BOOLEAN /\ start.placed \in BOOLEAN
  BY <1>1, DealAssumption
<1>3. deal = card(card(NewDeal(start.avito, start.placed)))
  BY <1>1
<1>4. \A a, p \in BOOLEAN : NewDeal(a, p) \in Deal
  BY SMTT(20) DEF NewDeal, Deal, CaseStatuses, DealStatuses, StepCodes
<1>5. \A d \in Deal : card(d) \in Deal
  BY <1>2, ComputedFields
<1> HIDE DEF card
<1>6. deal \in Deal
  BY <1>2, <1>3, <1>4, <1>5
<1>7. /\ job = [w \in Workers |-> Idle] /\ alone = TRUE /\ served = 0
  BY DEF Init
<1>8. job \in [Workers -> Job]
  BY <1>7, BlankType
<1>9. served \in 0..MaxRequests
  BY <1>7, DealAssumption
<1> QED
  BY <1>2, <1>6, <1>7, <1>8, <1>9 DEF TypeOK

LEMMA NextType == TypeOK /\ [Next]_vars => TypeOK'
<1> SUFFICES ASSUME TypeOK, [Next]_vars PROVE TypeOK'
  OBVIOUS
<1>1. CASE UNCHANGED vars
  BY <1>1 DEF vars, TypeOK
<1>2. ASSUME NEW w \in Workers, Begin(w) \/ Step(w) \/ Fails(w) PROVE TypeOK'
  BY <1>2, BeginStep, StepType, FailsType
<1> QED
  BY <1>1, <1>2 DEF Next

(* The rows of a deal and the instances that requests hold of them only have  *)
(* values of their choice fields, with whatever input and interleaving        *)
(* (ManagerDeal, Order, Shipment, recompute_deal_workflow).                   *)
THEOREM TypeCorrect == Spec => []TypeOK
BY InitType, NextType, PTL DEF Spec

-----------------------------------------------------------------------------
(* What a request that is alone leaves.  A field of the card is right when   *)
(* it says what the documents say: order o, shipment s and reservation r.    *)
CardFields == {"payment", "status", "fulfil", "case", "delivery", "shipping"}
Right(f, x, avito, o, s, r) ==
  /\ f = "payment"  => \A p \in {"paid", "refunded"} : x = p <=> o.pay = p
  /\ f = "status"   => x = LegacyStatus(o, r, avito)
  /\ f = "fulfil"   => x = Fulfilment(o, s, r)
  /\ f = "case"     => (s.status = "delivered" => x = "completed")
  /\ f = "delivery" => /\ s.status = "delivered" => x = "delivered"
                       /\ s.status = "shipped"   => x \in {"shipped", "delivered"}
  /\ f = "shipping" => /\ s.status = "delivered" => x = "delivered"
                       /\ s.status = "shipped"   => x = "sent"
Agrees(d, o, s, r) == \A f \in CardFields : Right(f, d[f], d.avito, o, s, r)

(* An instance v of the deal d and the order o: recompute_deal_workflow      *)
(* writes the fields that it changes on the instance.  The row will agree    *)
(* when the instance has the values of the row wherever those are not right. *)
Kin(v, d, o)  == v.order = o /\ v.deal.avito = d.avito
Same(v, d, o) == v.deal = d /\ v.order = o
Fits(v, d, o, s, r) ==
  /\ Kin(v, d, o)
  /\ \A f \in CardFields : Right(f, d[f], d.avito, o, s, r) \/ v.deal[f] = d[f]

LEMMA DealField ==
  /\ CardFields \subseteq DealFields /\ "avito" \in DealFields
  /\ \A d \in Deal : DOMAIN d = DealFields
BY SMTT(20) DEF CardFields, DealFields, Deal

LEMMA PutField ==
  ASSUME NEW d \in Deal, NEW n, NEW F, NEW f \in DealFields
  PROVE  Put(d, F, n)[f] = IF f \in F THEN n[f] ELSE d[f]
BY DealField DEF Put

LEMMA ChangedField ==
  ASSUME NEW d \in Deal, NEW n, NEW f \in DealFields
  PROVE  f \in Changed(d, n) <=> n[f] # d[f]
BY DealField DEF Changed

LEMMA SameDeal ==
  ASSUME NEW d \in Deal, NEW e \in Deal, \A f \in DealFields : d[f] = e[f]
  PROVE  d = e
BY SMTT(20) DEF Deal, DealFields

LEMMA PutSame ==
  ASSUME NEW d \in Deal, NEW n \in Deal
  PROVE  Put(d, Changed(d, n), n) = n
<1> DEFINE e == Put(d, Changed(d, n), n)
<1>1. e \in Deal
  BY PutType
<1>2. \A f \in DealFields : e[f] = n[f]
  BY PutField, ChangedField
<1> HIDE DEF e
<1>3. e = n
  BY <1>1, <1>2, SameDeal
<1> QED BY <1>3 DEF e

LEMMA PutNone ==
  ASSUME NEW d \in Deal, NEW n \in Deal
  PROVE  Put(d, {}, n) = d
<1> DEFINE e == Put(d, {}, n)
<1>1. e \in Deal
  BY PutType
<1>2. \A f \in DealFields : e[f] = d[f]
  BY PutField
<1> HIDE DEF e
<1>3. e = d
  BY <1>1, <1>2, SameDeal
<1> QED BY <1>3 DEF e

LEMMA PutAvito ==
  ASSUME NEW r \in Deal, NEW d \in Deal, NEW n \in Deal, n.avito = d.avito
  PROVE  Put(r, Changed(d, n), n).avito = r.avito
BY PutField, ChangedField, DealField

LEMMA ComputedCard ==
  ASSUME NEW d \in Deal, NEW o \in Order, NEW s \in Shipment, NEW r \in Reserved,
         NEW k \in BOOLEAN
  PROVE  LET c == Computed(d, o, s, r, k)
         IN  /\ c \in Deal /\ c.avito = d.avito
             /\ c.case = CaseStatus(d, o, s) /\ c.status = LegacyStatus(o, r, d.avito)
             /\ c.payment = PaymentState(d, o) /\ c.fulfil = Fulfilment(o, s, r)
             /\ c.delivery = Delivery(d, o, s) /\ c.shipping = ShipmentStatus(d, s)
<1>1. Computed(d, o, s, r, k) \in Deal
  BY ComputedFields
<1> DEFINE h == IF d.manual THEN d.step ELSE NextStep(d, o, s, r, k)
           b == LegacyStatus(o, r, d.avito)
<1>2. Computed(d, o, s, r, k)
        = [d EXCEPT !.case = CaseStatus(d, o, s), !.status = b, !.payment = PaymentState(d, o),
                    !.fulfil = Fulfilment(o, s, r), !.delivery = Delivery(d, o, s),
                    !.shipping = ShipmentStatus(d, s), !.step = h]
  BY DEF Computed
<1> HIDE DEF b, h
<1>3. LET c == Computed(d, o, s, r, k)
      IN  /\ c.avito = d.avito /\ c.case = CaseStatus(d, o, s) /\ c.status = b
          /\ c.payment = PaymentState(d, o) /\ c.fulfil = Fulfilment(o, s, r)
          /\ c.delivery = Delivery(d, o, s) /\ c.shipping = ShipmentStatus(d, s)
  BY <1>2, SMTT(20) DEF Deal
<1> QED
  BY <1>1, <1>3 DEF b

(* What is computed from the documents is right.                             *)
LEMMA ComputedRight ==
  ASSUME NEW d \in Deal, NEW o \in Order, NEW s \in Shipment, NEW r \in Reserved,
         NEW k \in BOOLEAN, NEW f \in CardFields
  PROVE  Right(f, Computed(d, o, s, r, k)[f], d.avito, o, s, r)
<1> DEFINE c == Computed(d, o, s, r, k)
<1>1. /\ c.case = CaseStatus(d, o, s) /\ c.status = LegacyStatus(o, r, d.avito)
      /\ c.payment = PaymentState(d, o) /\ c.fulfil = Fulfilment(o, s, r)
      /\ c.delivery = Delivery(d, o, s) /\ c.shipping = ShipmentStatus(d, s)
  BY ComputedCard
<1> HIDE DEF c
<1>2. \A p \in {"paid", "refunded"} : PaymentState(d, o) = p <=> o.pay = p
  BY DEF PaymentState
<1>3. /\ s.status = "delivered" => Delivery(d, o, s) = "delivered"
      /\ s.status = "shipped" => Delivery(d, o, s) \in {"shipped", "delivered"}
  BY DEF Delivery
<1>4. s.status = "delivered" => CaseStatus(d, o, s) = "completed"
  BY <1>3 DEF CaseStatus, ShipmentStatus, Live
<1>5. /\ s.status = "delivered" => ShipmentStatus(d, s) = "delivered"
      /\ s.status = "shipped" => ShipmentStatus(d, s) = "sent"
  BY DEF ShipmentStatus, Live
<1>6. f \in {"payment", "status", "fulfil", "case", "delivery", "shipping"}
  BY DEF CardFields
<1> QED
  BY <1>1, <1>2, <1>3, <1>4, <1>5, <1>6 DEF Right, c

(* An instance v of the row d is recomputed, n, and saved: the row is then e. *)
Row(d, v, n) == Put(d, Changed(v.deal, n), n)
Mends(d, v, n, e, o, s, r) ==
  /\ n \in Deal /\ n.avito = d.avito /\ e \in Deal /\ e.avito = d.avito
  /\ Fits(v, d, o, s, r) \/ Agrees(d, o, s, r) => Agrees(e, o, s, r)
  /\ v.deal = d => e = n
  /\ \A u : Fits(u, d, o, s, r) => Fits(u, e, o, s, r)

LEMMA RowAgrees ==
  ASSUME NEW d \in Deal, NEW o \in Order, NEW s \in Shipment, NEW r \in Reserved,
         NEW k \in BOOLEAN, NEW v \in View, Kin(v, d, o)
  PROVE  LET n == Computed(v.deal, o, s, r, k)
         IN  Mends(d, v, n, Row(d, v, n), o, s, r)
<1> DEFINE n == Computed(v.deal, o, s, r, k)
           e == Row(d, v, n)
<1>1. v.deal \in Deal /\ v.deal.avito = d.avito
  BY DEF View, Kin
<1>2. n \in Deal /\ n.avito = d.avito
  BY <1>1, ComputedCard
<1>3. \A f \in CardFields : Right(f, n[f], d.avito, o, s, r)
  BY <1>1, ComputedRight
<1> HIDE DEF n
<1>4. e \in Deal
  BY <1>2, PutType DEF Row
<1>5. \A f \in DealFields : e[f] = IF n[f] # v.deal[f] THEN n[f] ELSE d[f]
  BY <1>1, PutField, ChangedField DEF Row
<1> HIDE DEF e
<1>6. e.avito = d.avito
  BY <1>1, <1>2, <1>5, DealField
<1>7. \A f \in CardFields : \/ Right(f, e[f], d.avito, o, s, r)
                            \/ e[f] = d[f] /\ (v.deal[f] = d[f] => Right(f, d[f], d.avito, o, s, r))
  BY <1>3, <1>5, DealField
<1>8. Fits(v, d, o, s, r) \/ Agrees(d, o, s, r) => Agrees(e, o, s, r)
  BY <1>6, <1>7 DEF Fits, Agrees
<1>9. ASSUME v.deal = d PROVE e = n
  BY <1>2, <1>4, <1>5, <1>9, SameDeal
<1>10. \A u : Fits(u, d, o, s, r) => Fits(u, e, o, s, r)
  BY <1>6, <1>7 DEF Fits, Kin
<1> QED
  BY <1>2, <1>4, <1>6, <1>8, <1>9, <1>10 DEF e, n, Mends

LEMMA SameFits ==
  ASSUME NEW v, NEW d, NEW o, NEW s, NEW r, Same(v, d, o)
  PROVE  Fits(v, d, o, s, r) /\ Kin(v, d, o)
BY DEF Same, Fits, Kin

-----------------------------------------------------------------------------
(* Steps in a row.                                                           *)
LEMMA ThenFacts ==
  ASSUME NEW do \in Steps, NEW x \in Slots, NEW t \in Todo
  PROVE  /\ Then(do, x, t) \in Todo /\ Then(do, x, t) # <<>>
         /\ Head(Then(do, x, t)) = <<do, x>> /\ Tail(Then(do, x, t)) = t
         /\ \A y : Needs(Then(do, x, t), y)
                     <=> y = x \/ (y = "seen" /\ do = "load") \/ Needs(t, y)
<1> DEFINE a == Then(do, x, t)
<1>1. /\ a \in Todo /\ a # <<>> /\ Head(a) = <<do, x>> /\ Tail(a) = t
      /\ Len(a) = Len(t) + 1 /\ a[1] = <<do, x>>
      /\ \A i \in 1..Len(t) : a[i + 1] = t[i]
  BY DEF Todo, Then
<1> HIDE DEF a
<1>2. DOMAIN a = 1..(Len(t) + 1) /\ DOMAIN t = 1..Len(t) /\ Len(t) \in Nat
  BY <1>1 DEF Todo
<1>3. \A y : Needs(a, y) <=> y = x \/ (y = "seen" /\ do = "load") \/ Needs(t, y)
  <2> TAKE y
  <2>1. ASSUME NEW i \in DOMAIN a, a[i][2] = y \/ (y = "seen" /\ a[i][1] = "load")
        PROVE  y = x \/ (y = "seen" /\ do = "load") \/ Needs(t, y)
    <3>1. CASE i = 1
      BY <1>1, <2>1, <3>1
    <3>2. CASE i # 1
      <4>1. i - 1 \in DOMAIN t /\ a[i] = t[i - 1]
        BY <1>1, <1>2, <2>1, <3>2
      <4> QED BY <2>1, <4>1 DEF Needs
    <3> QED BY <3>1, <3>2
  <2>2. y = x \/ (y = "seen" /\ do = "load") => Needs(a, y)
    BY <1>1, <1>2 DEF Needs
  <2>3. ASSUME NEW i \in DOMAIN t, t[i][2] = y \/ (y = "seen" /\ t[i][1] = "load")
        PROVE  Needs(a, y)
    <3>1. i + 1 \in DOMAIN a /\ a[i + 1] = t[i]
      BY <1>1, <1>2
    <3> QED BY <2>3, <3>1 DEF Needs
  <2> QED BY <2>1, <2>2, <2>3 DEF Needs
<1> QED BY <1>1, <1>3 DEF a

LEMMA FirstNeeds ==
  \A do \in Steps, x \in Slots, t \in Todo : Needs(Then(do, x, t), x) /\ Then(do, x, t) # <<>>
BY ThenFacts

LEMMA NoNeeds == <<>> \in Todo /\ \A y : ~Needs(<<>>, y)
BY DEF Todo, Needs

LEMMA Unfolded ==
  ASSUME NEW t \in Todo, t # <<>>
  PROVE  /\ Head(t)[1] \in Steps /\ Head(t)[2] \in Slots /\ Tail(t) \in Todo
         /\ t = Then(Head(t)[1], Head(t)[2], Tail(t))
<1>1. Head(t) \in Steps \X Slots /\ Tail(t) \in Todo
  BY DEF Todo
<1>2. Head(t) = <<Head(t)[1], Head(t)[2]>>
  BY <1>1
<1>3. t = <<Head(t)>> \o Tail(t)
  BY DEF Todo
<1> QED BY <1>1, <1>2, <1>3 DEF Then

Computes(t) == \A i \in DOMAIN t : t[i][1] = "recompute"

LEMMA ComputesFacts ==
  /\ Computes(<<>>)
  /\ \A x \in Slots, t \in Todo : Computes(t) => Computes(Then("recompute", x, t))
  /\ \A t \in Todo : Computes(t) /\ t # <<>> => Head(t)[1] = "recompute" /\ Computes(Tail(t))
<1>1. Computes(<<>>)
  BY DEF Computes
<1>2. ASSUME NEW x \in Slots, NEW t \in Todo, Computes(t)
      PROVE  Computes(Then("recompute", x, t))
  <2> DEFINE a == Then("recompute", x, t)
  <2>1. /\ Len(a) = Len(t) + 1 /\ a[1] = <<"recompute", x>> /\ DOMAIN a = 1..Len(a)
        /\ \A i \in 1..Len(t) : a[i + 1] = t[i]
    BY DEF Todo, Then
  <2> HIDE DEF a
  <2>2. ASSUME NEW i \in DOMAIN a PROVE a[i][1] = "recompute"
    <3>1. CASE i = 1
      BY <2>1, <3>1
    <3>2. CASE i # 1
      <4>1. i - 1 \in 1..Len(t) /\ i - 1 \in DOMAIN t /\ a[i] = t[i - 1]
        BY <2>1, <3>2 DEF Todo
      <4> QED BY <1>2, <4>1 DEF Computes
    <3> QED BY <3>1, <3>2
  <2> QED BY <2>2 DEF Computes, a
<1>3. ASSUME NEW t \in Todo, Computes(t), t # <<>>
      PROVE  Head(t)[1] = "recompute" /\ Computes(Tail(t))
  <2>1. 1 \in DOMAIN t /\ Head(t) = t[1]
    BY <1>3 DEF Todo
  <2>2. \A i \in DOMAIN Tail(t) : i + 1 \in DOMAIN t /\ Tail(t)[i] = t[i + 1]
    BY <1>3 DEF Todo
  <2> QED BY <1>3, <2>1, <2>2 DEF Computes
<1> QED BY <1>1, <1>2, <1>3

(* The steps that the requests of one deal have left, by what the next one   *)
(* does.  Ends: the last computations of the workflow sync, and of the form. *)
Ends == {Then("recompute", "copy", <<>>),
         Then("recompute", "copy", Then("recompute", "seen", <<>>))}
Told(t)     == Then("reload", "late", Then("recompute", "late", t))
Going(t)    == Then("autodispatch", "late", Told(t))
Shipping(t) == Then("refresh", "seen", Then("recompute", "seen", t))
Ensured(t)  == Then("ensure", "copy", Then("recompute", "copy", t))
Loads(t)    == Then("load", "copy", Ensured(t))
Acts(t)     == Then("effects", "seen", Loads(t))
Middles     == {Shipping(t) : t \in Ends} \cup {Shipping(Going(t)) : t \in Ends}
Twice       == Then("recompute", "seen", Then("recompute", "seen", <<>>))

LEMMA Shapes ==
  ASSUME NEW t \in Todo
  PROVE  /\ Told(t) \in Todo /\ Told(t) # <<>> /\ Head(Told(t)) = <<"reload", "late">>
         /\ Tail(Told(t)) = Then("recompute", "late", t)
         /\ Going(t) \in Todo /\ Going(t) # <<>> /\ Head(Going(t)) = <<"autodispatch", "late">>
         /\ Tail(Going(t)) = Told(t)
         /\ Shipping(t) \in Todo /\ Shipping(t) # <<>> /\ Head(Shipping(t)) = <<"refresh", "seen">>
         /\ Tail(Shipping(t)) = Then("recompute", "seen", t)
         /\ Ensured(t) \in Todo /\ Ensured(t) # <<>> /\ Head(Ensured(t)) = <<"ensure", "copy">>
         /\ Tail(Ensured(t)) = Then("recompute", "copy", t)
         /\ Loads(t) \in Todo /\ Loads(t) # <<>> /\ Head(Loads(t)) = <<"load", "copy">>
         /\ Tail(Loads(t)) = Ensured(t)
         /\ Acts(t) \in Todo /\ Acts(t) # <<>> /\ Head(Acts(t)) = <<"effects", "seen">>
         /\ Tail(Acts(t)) = Loads(t)
         /\ Needs(Loads(t), "seen") /\ Needs(Acts(t), "seen")
         /\ \A y : /\ Needs(Told(t), y) <=> y = "late" \/ Needs(t, y)
                   /\ Needs(Going(t), y) <=> y = "late" \/ Needs(t, y)
                   /\ Needs(Shipping(t), y) <=> y = "seen" \/ Needs(t, y)
                   /\ Needs(Ensured(t), y) <=> y = "copy" \/ Needs(t, y)
<1>1. /\ "reload" \in Steps /\ "recompute" \in Steps /\ "autodispatch" \in Steps
      /\ "refresh" \in Steps /\ "ensure" \in Steps /\ "load" \in Steps /\ "effects" \in Steps
  BY DEF Steps
<1>2. "seen" \in Slots /\ "copy" \in Slots /\ "late" \in Slots
  BY DEF Slots
<1>3. \A x \in Slots : /\ Then("recompute", x, t) \in Todo
                       /\ \A y : Needs(Then("recompute", x, t), y) <=> y = x \/ Needs(t, y)
  BY <1>1, ThenFacts
<1>4. /\ Told(t) \in Todo /\ Told(t) # <<>> /\ Head(Told(t)) = <<"reload", "late">>
      /\ Tail(Told(t)) = Then("recompute", "late", t)
      /\ \A y : Needs(Told(t), y) <=> y = "late" \/ Needs(t, y)
  BY <1>1, <1>2, <1>3, ThenFacts DEF Told
<1>5. /\ Going(t) \in Todo /\ Going(t) # <<>> /\ Head(Going(t)) = <<"autodispatch", "late">>
      /\ Tail(Going(t)) = Told(t)
      /\ \A y : Needs(Going(t), y) <=> y = "late" \/ Needs(t, y)
  BY <1>1, <1>2, <1>4, ThenFacts DEF Going
<1>6. /\ Shipping(t) \in Todo /\ Shipping(t) # <<>> /\ Head(Shipping(t)) = <<"refresh", "seen">>
      /\ Tail(Shipping(t)) = Then("recompute", "seen", t)
      /\ \A y : Needs(Shipping(t), y) <=> y = "seen" \/ Needs(t, y)
  BY <1>1, <1>2, <1>3, ThenFacts DEF Shipping
<1>7. /\ Ensured(t) \in Todo /\ Ensured(t) # <<>> /\ Head(Ensured(t)) = <<"ensure", "copy">>
      /\ Tail(Ensured(t)) = Then("recompute", "copy", t)
      /\ \A y : Needs(Ensured(t), y) <=> y = "copy" \/ Needs(t, y)
  BY <1>1, <1>2, <1>3, ThenFacts DEF Ensured
<1>8. /\ Loads(t) \in Todo /\ Loads(t) # <<>> /\ Head(Loads(t)) = <<"load", "copy">>
      /\ Tail(Loads(t)) = Ensured(t) /\ Needs(Loads(t), "seen")
  BY <1>1, <1>2, <1>7, ThenFacts DEF Loads
<1>9. /\ Acts(t) \in Todo /\ Acts(t) # <<>> /\ Head(Acts(t)) = <<"effects", "seen">>
      /\ Tail(Acts(t)) = Loads(t) /\ Needs(Acts(t), "seen")
  BY <1>1, <1>2, <1>8, ThenFacts DEF Acts
<1> QED
  BY <1>4, <1>5, <1>6, <1>7, <1>8, <1>9

LEMMA SkipGoing ==
  ASSUME NEW t \in Todo
  PROVE  SubSeq(Going(t), 3 + 1, Len(Going(t))) = t
BY DEF Todo, Then, Going, Told, Steps, Slots

LEMMA SkipReserve ==
  ASSUME NEW t \in Todo, NEW u, u = Then("reserve", "seen", Then("recompute", "seen", t))
  PROVE  SubSeq(u, 2 + 1, Len(u)) = t
BY DEF Todo, Then, Steps, Slots

LEMMA EndFacts ==
  /\ Ends \subseteq Todo /\ Middles \subseteq Todo
  /\ \A t \in Ends : Computes(t) /\ Needs(t, "copy") /\ ~Needs(t, "late") /\ t # <<>>
  /\ \A m \in Middles : Needs(m, "copy") /\ Needs(m, "seen")
<1>1. "recompute" \in Steps /\ "seen" \in Slots /\ "copy" \in Slots /\ "late" \in Slots
  BY DEF Steps, Slots
<1> DEFINE a == Then("recompute", "copy", <<>>)
           b == Then("recompute", "seen", <<>>)
           c == Then("recompute", "copy", b)
<1>2. a \in Todo /\ Needs(a, "copy") /\ ~Needs(a, "late") /\ a # <<>>
  BY <1>1, NoNeeds, ThenFacts
<1>3. b \in Todo /\ ~Needs(b, "late")
  BY <1>1, NoNeeds, ThenFacts
<1>4. Computes(a) /\ Computes(b)
  BY <1>1, NoNeeds, ComputesFacts
<1> HIDE DEF a, b
<1>5. c \in Todo /\ Needs(c, "copy") /\ ~Needs(c, "late") /\ c # <<>>
  BY <1>1, <1>3, ThenFacts
<1>6. Computes(c)
  BY <1>1, <1>3, <1>4, ComputesFacts
<1>7. Ends = {a, c}
  BY DEF Ends, a, b
<1> HIDE DEF c
<1>8. /\ Ends \subseteq Todo
      /\ \A t \in Ends : Computes(t) /\ Needs(t, "copy") /\ ~Needs(t, "late") /\ t # <<>>
  BY <1>2, <1>4, <1>5, <1>6, <1>7
<1>9. \A m \in Middles : m \in Todo /\ Needs(m, "copy") /\ Needs(m, "seen")
  BY <1>8, Shapes DEF Middles
<1> QED
  BY <1>8, <1>9

-----------------------------------------------------------------------------
(* How the request j goes on from the rows d, o, s and r, when nobody else   *)
(* writes: the next computations make the card agree, or the deal is read    *)
(* again first.                                                              *)
Computing(t, v, d, o, s, r) ==
  /\ Computes(t)
  /\ \A x \in Slots : Needs(t, x) => Kin(v[x], d, o)
  /\ Agrees(d, o, s, r) \/ \E x \in Slots : Needs(t, x) /\ Fits(v[x], d, o, s, r)
Last == Then("refresh", "seen", Twice)
Late == Then("refresh", "late", Then("recompute", "late", <<>>))
Telling(t, v, d, o) ==
  \/ t = Then("reload", "late", Late)
  \/ \E u \in Ends \cup {<<>>} :
       t = Told(u) /\ \A x \in Slots : Needs(u, x) => Kin(v[x], d, o)
Sending(t, v, d, o, s, r) ==
  /\ \E u \in Ends : t = Going(u) \/ t = Then("recompute", "seen", Going(u))
  /\ Fits(v["copy"], d, o, s, r)
  /\ Needs(t, "seen") => Kin(v["seen"], d, o)
Syncing(t, v, d, o) ==
  /\ \/ \E m \in Ends \cup Middles :
          \/ t = Loads(m) \/ t = Then("recompute", "seen", Loads(m))
          \/ t = Acts(m)  \/ t = Then("attach", "seen", Acts(m))
          \/ t = Ensured(m) /\ v["copy"].deal = d
     \/ \E m \in Middles : (t = m \/ t = Then("recompute", "copy", m)) /\ Same(v["copy"], d, o)
  /\ Needs(t, "seen") => Kin(v["seen"], d, o)
Saving(j, t, v, d, o) ==
  \/ /\ \E m \in Ends \cup Middles :
          \/ t = Then("saveOrder", "seen", Acts(m))
          \/ t = Then("saveOrder", "seen", Then("attach", "seen", Acts(m)))
          \/ t = Then("saveDeal", "seen", Then("saveOrder", "seen", Acts(m)))
     /\ Put(o, j.changed, v.order) = v.order /\ v.deal.avito = d.avito
  \/ /\ t = Then("saveDeal", "seen", Then("recompute", "seen", <<>>))
          \/ t = Then("saveDeal", "seen", Twice)
     /\ v.order = o /\ Put(d, j.dirty, v.deal) = v.deal
  \/ /\ t = Then("saveOrder", "seen",
                 Then("saveDeal", "seen", Then("recompute", "seen", <<>>)))
     /\ Put(o, j.changed, v.order) = v.order /\ Put(d, j.dirty, v.deal) = v.deal
Preparing(t, v, d, o) ==
  \/ /\ \/ t = Last \/ t = Then("recompute", "seen", Last)
        \/ t = Then("reserve", "seen", Then("recompute", "seen", Last))
     /\ Same(v["seen"], d, o)
  \/ t = Late /\ Same(v["late"], d, o)
Handing(t, s) ==
  \/ t = Then("dispatch", "seen", Told(<<>>)) /\ ~s.consumed
  \/ t = Then("deliver", "seen", Told(<<>>)) /\ s.status # "cancelled"
  \/ t = Then("cancel", "seen", Told(<<>>)) /\ s.status # "cancelled"
Planned(j, d, o, s, r) ==
  \/ Computing(j.todo, j.views, d, o, s, r)
  \/ Telling(j.todo, j.views, d, o)
  \/ Sending(j.todo, j.views, d, o, s, r)
  \/ Syncing(j.todo, j.views, d, o)
  \/ Saving(j, j.todo, j.views["seen"], d, o)
  \/ Preparing(j.todo, j.views, d, o)
  \/ Handing(j.todo, s)

LEMMA Words ==
  /\ "saveOrder" \in Steps /\ "saveDeal" \in Steps /\ "attach" \in Steps /\ "effects" \in Steps
  /\ "load" \in Steps /\ "ensure" \in Steps /\ "refresh" \in Steps /\ "autodispatch" \in Steps
  /\ "dispatch" \in Steps /\ "deliver" \in Steps /\ "cancel" \in Steps /\ "reserve" \in Steps
  /\ "reload" \in Steps /\ "recompute" \in Steps
  /\ "seen" \in Slots /\ "copy" \in Slots /\ "late" \in Slots
BY DEF Steps, Slots

(* The last computations of a request that loads no deal.                    *)
LEMMA SeenFacts ==
  ASSUME NEW t, t = Then("recompute", "seen", <<>>) \/ t = Twice
  PROVE  /\ Needs(t, "seen") /\ \A y \in Slots : Needs(t, y) => y = "seen"
         /\ t \in Todo /\ Computes(t)
<1> DEFINE u == Then("recompute", "seen", <<>>)
<1>1. /\ u \in Todo /\ Needs(u, "seen") /\ \A y \in Slots : Needs(u, y) => y = "seen"
      /\ Computes(u)
  BY Words, NoNeeds, ThenFacts, ComputesFacts
<1>2. Twice = Then("recompute", "seen", u)
  BY DEF Twice
<1> HIDE DEF u
<1>3. /\ Twice \in Todo /\ Needs(Twice, "seen") /\ \A y \in Slots : Needs(Twice, y) => y = "seen"
      /\ Computes(Twice)
  BY <1>1, <1>2, Words, ThenFacts, ComputesFacts
<1> QED BY <1>1, <1>3 DEF u

LEMMA Parts ==
  /\ <<>> \in Todo /\ Then("recompute", "seen", <<>>) \in Todo
  /\ Then("recompute", "late", <<>>) \in Todo
  /\ Then("saveDeal", "seen", Then("recompute", "seen", <<>>)) \in Todo
  /\ Twice \in Todo /\ Last \in Todo /\ Late \in Todo
  /\ Then("recompute", "seen", Last) \in Todo
  /\ Told(<<>>) \in Todo
  /\ \A m \in Ends \cup Middles : m \in Todo /\ Loads(m) \in Todo /\ Acts(m) \in Todo
  /\ \A m \in Ends \cup Middles : Then("attach", "seen", Acts(m)) \in Todo
                                  /\ Then("saveOrder", "seen", Acts(m)) \in Todo
<1>1. <<>> \in Todo
  BY NoNeeds
<1>2. Then("recompute", "seen", <<>>) \in Todo /\ Then("recompute", "late", <<>>) \in Todo
  BY <1>1, Words, ThenFacts
<1>3. Twice \in Todo /\ Late \in Todo
  BY <1>2, Words, ThenFacts DEF Twice, Late
<1>4. Last \in Todo
  BY <1>3, Words, ThenFacts DEF Last
<1>5. /\ Then("saveDeal", "seen", Then("recompute", "seen", <<>>)) \in Todo
      /\ Then("recompute", "seen", Last) \in Todo
  BY <1>2, <1>4, Words, ThenFacts
<1>6. \A m \in Ends \cup Middles : m \in Todo /\ Loads(m) \in Todo /\ Acts(m) \in Todo
  BY EndFacts, Shapes
<1>7. \A m \in Ends \cup Middles : Then("attach", "seen", Acts(m)) \in Todo
                                  /\ Then("saveOrder", "seen", Acts(m)) \in Todo
  BY <1>6, Words, ThenFacts
<1>8. Told(<<>>) \in Todo
  BY <1>1, Shapes
<1> QED
  BY <1>1, <1>2, <1>3, <1>4, <1>5, <1>6, <1>7, <1>8

(* What the next step says of how the request goes on.                       *)
LEMMA ComputingHead ==
  ASSUME NEW t \in Todo, t # <<>>, NEW v, NEW d, NEW o, NEW s, NEW r,
         Computing(t, v, d, o, s, r)
  PROVE  Head(t)[1] = "recompute"
BY ComputesFacts DEF Computing

LEMMA TellingHead ==
  ASSUME NEW t, NEW v, NEW d, NEW o, Telling(t, v, d, o)
  PROVE  Head(t)[1] = "reload"
<1>1. Ends \cup {<<>>} \subseteq Todo
  BY EndFacts, Parts
<1>2. CASE t = Then("reload", "late", Late)
  <2>1. Head(t) = <<"reload", "late">>
    BY <1>2, Words, Parts, ThenFacts
  <2> QED BY <2>1
<1>3. CASE \E u \in Ends \cup {<<>>} : t = Told(u)
  <2>1. Head(t) = <<"reload", "late">>
    BY <1>1, <1>3, Shapes
  <2> QED BY <2>1
<1> QED BY <1>2, <1>3 DEF Telling

LEMMA SendingHead ==
  ASSUME NEW t, NEW v, NEW d, NEW o, NEW s, NEW r, Sending(t, v, d, o, s, r)
  PROVE  \/ Head(t)[1] = "autodispatch" /\ \E u \in Ends : t = Going(u)
         \/ Head(t)[1] = "recompute" /\ \E u \in Ends : t = Then("recompute", "seen", Going(u))
<1>1. PICK u \in Ends : t = Going(u) \/ t = Then("recompute", "seen", Going(u))
  BY DEF Sending
<1>2. u \in Todo /\ Going(u) \in Todo
  BY EndFacts, Shapes
<1>3. CASE t = Going(u)
  <2>1. Head(t) = <<"autodispatch", "late">>
    BY <1>2, <1>3, Shapes
  <2> QED BY <1>3, <2>1
<1>4. CASE t = Then("recompute", "seen", Going(u))
  <2>1. Head(t) = <<"recompute", "seen">>
    BY <1>2, <1>4, Words, ThenFacts
  <2> QED BY <1>4, <2>1
<1> QED BY <1>1, <1>3, <1>4

LEMMA MiddleHead ==
  ASSUME NEW m \in Middles
  PROVE  /\ m \in Todo /\ m # <<>> /\ Head(m) = <<"refresh", "seen">>
         /\ \E u \in Ends : m = Shipping(u) \/ m = Shipping(Going(u))
<1>1. PICK u \in Ends : m = Shipping(u) \/ m = Shipping(Going(u))
  BY DEF Middles
<1>2. u \in Todo /\ Going(u) \in Todo
  BY EndFacts, Shapes
<1> QED BY <1>1, <1>2, Shapes

SyncHead(t, d, v, o) ==
  \/ /\ Head(t)[1] = "load"
     /\ \E m \in Ends \cup Middles : t = Loads(m)
  \/ /\ Head(t)[1] = "recompute"
     /\ \/ \E m \in Ends \cup Middles : t = Then("recompute", "seen", Loads(m))
        \/ Same(v["copy"], d, o) /\ \E m \in Middles : t = Then("recompute", "copy", m)
  \/ /\ Head(t)[1] = "effects"
     /\ \E m \in Ends \cup Middles : t = Acts(m)
  \/ /\ Head(t)[1] = "attach"
     /\ \E m \in Ends \cup Middles : t = Then("attach", "seen", Acts(m))
  \/ /\ Head(t)[1] = "ensure" /\ v["copy"].deal = d
     /\ \E m \in Ends \cup Middles : t = Ensured(m)
  \/ /\ Head(t)[1] = "refresh" /\ Same(v["copy"], d, o) /\ t \in Middles

LEMMA SyncingHead ==
  ASSUME NEW t, NEW v, NEW d, NEW o, Syncing(t, v, d, o)
  PROVE  SyncHead(t, d, v, o)
<1>1. CASE \E m \in Ends \cup Middles :
             \/ t = Loads(m) \/ t = Then("recompute", "seen", Loads(m))
             \/ t = Acts(m)  \/ t = Then("attach", "seen", Acts(m))
             \/ t = Ensured(m) /\ v["copy"].deal = d
  <2>1. PICK m \in Ends \cup Middles :
             \/ t = Loads(m) \/ t = Then("recompute", "seen", Loads(m))
             \/ t = Acts(m)  \/ t = Then("attach", "seen", Acts(m))
             \/ t = Ensured(m) /\ v["copy"].deal = d
    BY <1>1
  <2>2. m \in Todo /\ Loads(m) \in Todo /\ Acts(m) \in Todo
    BY Parts
  <2>3. /\ Head(Loads(m)) = <<"load", "copy">> /\ Head(Acts(m)) = <<"effects", "seen">>
        /\ Head(Ensured(m)) = <<"ensure", "copy">>
    BY <2>2, Shapes
  <2>4. /\ Head(Then("recompute", "seen", Loads(m))) = <<"recompute", "seen">>
        /\ Head(Then("attach", "seen", Acts(m))) = <<"attach", "seen">>
    BY <2>2, Words, ThenFacts
  <2> QED BY <2>1, <2>3, <2>4 DEF SyncHead
<1>2. CASE \E m \in Middles : (t = m \/ t = Then("recompute", "copy", m)) /\ Same(v["copy"], d, o)
  <2>1. PICK m \in Middles : (t = m \/ t = Then("recompute", "copy", m)) /\ Same(v["copy"], d, o)
    BY <1>2
  <2>2. Head(m) = <<"refresh", "seen">> /\ Head(Then("recompute", "copy", m)) = <<"recompute", "copy">>
    BY MiddleHead, Words, ThenFacts
  <2> QED BY <2>1, <2>2 DEF SyncHead
<1> QED BY <1>1, <1>2 DEF Syncing

SaveHead(j, t, v, d, o) ==
  \/ /\ Head(t)[1] = "saveOrder" /\ Put(o, j.changed, v.order) = v.order
     /\ \/ /\ v.deal.avito = d.avito
           /\ \E m \in Ends \cup Middles :
                Tail(t) = Acts(m) \/ Tail(t) = Then("attach", "seen", Acts(m))
        \/ /\ Put(d, j.dirty, v.deal) = v.deal
           /\ Tail(t) = Then("saveDeal", "seen", Then("recompute", "seen", <<>>))
  \/ /\ Head(t)[1] = "saveDeal"
     /\ \/ /\ Put(o, j.changed, v.order) = v.order /\ v.deal.avito = d.avito
           /\ \E m \in Ends \cup Middles : Tail(t) = Then("saveOrder", "seen", Acts(m))
        \/ /\ v.order = o /\ Put(d, j.dirty, v.deal) = v.deal
           /\ Tail(t) = Then("recompute", "seen", <<>>) \/ Tail(t) = Twice

LEMMA SavingHead ==
  ASSUME NEW j, NEW t, NEW v, NEW d, NEW o, Saving(j, t, v, d, o)
  PROVE  Head(t)[2] = "seen" /\ SaveHead(j, t, v, d, o)
<1>1. ASSUME NEW u \in Todo
      PROVE  /\ t = Then("saveOrder", "seen", u) =>
                  Head(t)[1] = "saveOrder" /\ Head(t)[2] = "seen" /\ Tail(t) = u
             /\ t = Then("saveDeal", "seen", u) =>
                  Head(t)[1] = "saveDeal" /\ Head(t)[2] = "seen" /\ Tail(t) = u
  BY Words, ThenFacts
<1>2. CASE /\ \E m \in Ends \cup Middles :
                \/ t = Then("saveOrder", "seen", Acts(m))
                \/ t = Then("saveOrder", "seen", Then("attach", "seen", Acts(m)))
                \/ t = Then("saveDeal", "seen", Then("saveOrder", "seen", Acts(m)))
           /\ Put(o, j.changed, v.order) = v.order /\ v.deal.avito = d.avito
  BY <1>1, <1>2, Parts DEF SaveHead
<1>3. CASE /\ \/ t = Then("saveDeal", "seen", Then("recompute", "seen", <<>>))
              \/ t = Then("saveDeal", "seen", Twice)
           /\ v.order = o /\ Put(d, j.dirty, v.deal) = v.deal
  BY <1>1, <1>3, Parts DEF SaveHead
<1>4. CASE /\ t = Then("saveOrder", "seen",
                       Then("saveDeal", "seen", Then("recompute", "seen", <<>>)))
           /\ Put(o, j.changed, v.order) = v.order /\ Put(d, j.dirty, v.deal) = v.deal
  BY <1>1, <1>4, Parts DEF SaveHead
<1> QED BY <1>2, <1>3, <1>4 DEF Saving

LEMMA PreparingHead ==
  ASSUME NEW t, NEW v, NEW d, NEW o, Preparing(t, v, d, o)
  PROVE  \/ Head(t)[1] = "refresh" /\ t = Last /\ Same(v["seen"], d, o)
         \/ Head(t)[1] = "refresh" /\ t = Late /\ Same(v["late"], d, o)
         \/ /\ Head(t)[1] = "recompute" /\ t = Then("recompute", "seen", Last)
            /\ Same(v["seen"], d, o)
         \/ /\ Head(t)[1] = "reserve" /\ Same(v["seen"], d, o)
            /\ t = Then("reserve", "seen", Then("recompute", "seen", Last))
<1>1. /\ Head(Last) = <<"refresh", "seen">> /\ Head(Late) = <<"refresh", "late">>
      /\ Head(Then("recompute", "seen", Last)) = <<"recompute", "seen">>
      /\ Head(Then("reserve", "seen", Then("recompute", "seen", Last))) = <<"reserve", "seen">>
  BY Words, Parts, ThenFacts DEF Last, Late
<1> QED BY <1>1 DEF Preparing

LEMMA HandingHead ==
  ASSUME NEW t, NEW s, Handing(t, s)
  PROVE  \/ Head(t)[1] = "dispatch" /\ Tail(t) = Told(<<>>) /\ ~s.consumed
         \/ Head(t)[1] = "deliver" /\ Tail(t) = Told(<<>>) /\ s.status # "cancelled"
         \/ Head(t)[1] = "cancel" /\ Tail(t) = Told(<<>>) /\ s.status # "cancelled"
<1>1. \A do \in {"dispatch", "deliver", "cancel"} :
        /\ Head(Then(do, "seen", Told(<<>>))) = <<do, "seen">>
        /\ Tail(Then(do, "seen", Told(<<>>))) = Told(<<>>)
  BY Words, Parts, ThenFacts
<1>2. CASE t = Then("dispatch", "seen", Told(<<>>)) /\ ~s.consumed
  BY <1>1, <1>2
<1>3. CASE t = Then("deliver", "seen", Told(<<>>)) /\ s.status # "cancelled"
  BY <1>1, <1>3
<1>4. CASE t = Then("cancel", "seen", Told(<<>>)) /\ s.status # "cancelled"
  BY <1>1, <1>4
<1> QED BY <1>2, <1>3, <1>4 DEF Handing

-----------------------------------------------------------------------------
(* A step of the request j, which is j2 after it: the steps t are left, and  *)
(* v is the instance that it worked on.                                      *)
Onward(j, j2, t, v) ==
  /\ j2.todo = t
  /\ \A x \in Slots : Needs(t, x) =>
       j2.views[x] = IF x = Head(j.todo)[2] THEN v ELSE j.views[x]
  /\ Head(j.todo)[1] # "effects" /\ t # <<>> => j2.changed = j.changed
  /\ Head(j.todo)[1] = "saveOrder" => j2.dirty = j.dirty

(* The request has set the columns of an instance that it saves next.        *)
Pending(j, d, o, s, r) ==
  LET v == j.views[Head(j.todo)[2]]
  IN  /\ j.todo # <<>> /\ Head(j.todo)[1] = "saveDeal"
      /\ \A j2 : Onward(j, j2, Tail(j.todo), v)
                  => Planned(j2, Put(d, j.dirty, v.deal), o, s, r)

LoneInv == alone =>
  /\ \A u, w \in Workers : ~Quiet(u) /\ ~Quiet(w) => u = w
  /\ (\A w \in Workers : Quiet(w)) => Agrees(deal, order, shipment, reserved)
  /\ \A w \in Workers : ~Quiet(w) =>
       \/ Planned(job[w], deal, order, shipment, reserved)
       \/ Pending(job[w], deal, order, shipment, reserved)

(* The instance that the request works on.                                   *)
Held(j) == j.views[Head(j.todo)[2]]

LEMMA RecomputePlan ==
  ASSUME NEW j \in Job, NEW j2, NEW d \in Deal, NEW o \in Order, NEW s \in Shipment,
         NEW r \in Reserved, NEW v2,
         j.todo # <<>>, Head(j.todo)[1] = "recompute",
         Planned(j, d, o, s, r), Onward(j, j2, Tail(j.todo), v2),
         \E k \in BOOLEAN : v2.deal = Computed(Held(j).deal, Held(j).order, s, r, k),
         v2.order = Held(j).order
  PROVE  Planned(j2, Row(d, Held(j), v2.deal), o, s, r)
<1>a. PICK k \in BOOLEAN : v2.deal = Computed(Held(j).deal, Held(j).order, s, r, k)
  OBVIOUS
<1>b. PICK v : v = j.views[Head(j.todo)[2]]
  OBVIOUS
<1>c. v = Held(j)
  BY <1>b DEF Held
<1>d. PICK e : e = Row(d, v, v2.deal)
  OBVIOUS
<1>e. v2.deal = Computed(v.deal, v.order, s, r, k) /\ v2.order = v.order
  BY <1>a, <1>c
<1>f. SUFFICES Planned(j2, e, o, s, r)
  BY <1>c, <1>d
<1> USE <1>b
<1> DEFINE t == j.todo
           x == Head(t)[2]
           n == v2.deal
<1>1. t \in Todo /\ x \in Slots /\ Tail(t) \in Todo /\ v \in View
  BY Unfolded DEF Job, Todo
<1>2. v2.deal = n /\ v2.order = v.order
  BY <1>e
<1>3. \A y \in Slots : Needs(t, y) <=> y = x \/ Needs(Tail(t), y)
  <2>1. t = Then("recompute", x, Tail(t))
    BY <1>1, Unfolded
  <2>2. ASSUME NEW u \in Todo, NEW y
        PROVE  Needs(Then("recompute", x, u), y) <=> y = x \/ Needs(u, y)
    <3>1. "recompute" \in Steps
      BY Words
    <3> HIDE DEF x
    <3> QED BY <1>1, <3>1, ThenFacts
  <2> QED BY <1>1, <2>1, <2>2
<1>4. Kin(v, d, o) =>
        /\ Kin(v2, e, o) /\ e.avito = d.avito
        /\ Fits(v, d, o, s, r) \/ Agrees(d, o, s, r) => Agrees(e, o, s, r)
        /\ v.deal = d => e = n
        /\ \A u : Fits(u, d, o, s, r) => Fits(u, e, o, s, r)
  <2> SUFFICES ASSUME Kin(v, d, o)
               PROVE  /\ Kin(v2, e, o) /\ e.avito = d.avito
                      /\ Fits(v, d, o, s, r) \/ Agrees(d, o, s, r) => Agrees(e, o, s, r)
                      /\ v.deal = d => e = n
                      /\ \A u : Fits(u, d, o, s, r) => Fits(u, e, o, s, r)
    OBVIOUS
  <2>1. v.order = o
    BY DEF Kin
  <2>2. /\ n.avito = d.avito /\ e.avito = d.avito
        /\ Fits(v, d, o, s, r) \/ Agrees(d, o, s, r) => Agrees(e, o, s, r)
        /\ v.deal = d => e = n
        /\ \A u : Fits(u, d, o, s, r) => Fits(u, e, o, s, r)
    <3>1. n = Computed(v.deal, o, s, r, k) /\ e = Row(d, v, n)
      BY <1>d, <1>e, <2>1
    <3> HIDE DEF n
    <3>2. Mends(d, v, Computed(v.deal, o, s, r, k), Row(d, v, Computed(v.deal, o, s, r, k)),
                o, s, r)
      BY <1>1, RowAgrees
    <3>3. Mends(d, v, n, e, o, s, r)
      BY <3>1, <3>2
    <3> QED BY <3>3 DEF Mends
  <2> QED BY <1>2, <2>1, <2>2 DEF Kin
<1>5. \A u : Kin(v, d, o) /\ Kin(u, d, o) => Kin(u, e, o)
  BY <1>4 DEF Kin
<1>6. \A y \in Slots : Needs(Tail(t), y) =>
        j2.views[y] = IF y = x THEN v2 ELSE j.views[y]
  BY DEF Onward
<1>7. j2.todo = Tail(t)
  BY DEF Onward
<1> HIDE DEF n
<1>8. ASSUME Computing(t, j.views, d, o, s, r) PROVE Planned(j2, e, o, s, r)
  <2>1. Kin(v, d, o)
    BY <1>1, <1>3, <1>8 DEF Computing
  <2>2. Computes(Tail(t))
    BY <1>1, <1>8, ComputesFacts DEF Computing
  <2>3. \A y \in Slots : Needs(Tail(t), y) => Kin(j2.views[y], e, o)
    BY <1>3, <1>4, <1>5, <1>6, <1>8, <2>1 DEF Computing
  <2>4. CASE Agrees(d, o, s, r)
    BY <1>4, <1>7, <2>1, <2>2, <2>3, <2>4 DEF Computing, Planned
  <2>5. CASE \E y \in Slots : Needs(t, y) /\ Fits(j.views[y], d, o, s, r)
    <3>1. PICK y \in Slots : Needs(t, y) /\ Fits(j.views[y], d, o, s, r)
      BY <2>5
    <3>2. CASE y = x
      <4>1. Agrees(e, o, s, r)
        BY <1>4, <2>1, <3>1, <3>2
      <4> QED BY <1>7, <2>2, <2>3, <4>1 DEF Computing, Planned
    <3>3. CASE y # x
      <4>1. Needs(Tail(t), y) /\ j2.views[y] = j.views[y]
        BY <1>3, <1>6, <3>1, <3>3
      <4>2. Fits(j2.views[y], e, o, s, r)
        BY <1>4, <2>1, <3>1, <4>1
      <4> QED BY <1>7, <2>2, <2>3, <4>1, <4>2 DEF Computing, Planned
    <3> QED BY <3>2, <3>3
  <2> QED BY <1>8, <2>4, <2>5 DEF Computing
<1>9. ASSUME Sending(t, j.views, d, o, s, r) PROVE Planned(j2, e, o, s, r)
  <2>1. PICK u \in Ends : t = Then("recompute", "seen", Going(u))
    BY <1>9, SendingHead
  <2>2. u \in Todo /\ Going(u) \in Todo /\ Needs(Going(u), "copy")
    BY EndFacts, Shapes
  <2>3. x = "seen" /\ Tail(t) = Going(u)
    BY <2>1, <2>2, Words, ThenFacts
  <2>4. Kin(v, d, o) /\ Fits(j.views["copy"], d, o, s, r)
    BY <1>3, <1>9, <2>3, Words DEF Sending
  <2>5. Fits(j2.views["copy"], e, o, s, r)
    BY <1>4, <1>6, <2>2, <2>3, <2>4, Words
  <2>6. Needs(Tail(t), "seen") => Kin(j2.views["seen"], e, o)
    BY <1>4, <1>6, <2>3, <2>4, Words
  <2> QED BY <1>7, <2>3, <2>5, <2>6 DEF Sending, Planned
<1>10. ASSUME Syncing(t, j.views, d, o) PROVE Planned(j2, e, o, s, r)
  <2>1. \/ \E m \in Ends \cup Middles : t = Then("recompute", "seen", Loads(m))
        \/ Same(j.views["copy"], d, o) /\ \E m \in Middles : t = Then("recompute", "copy", m)
    BY <1>10, SyncingHead DEF SyncHead
  <2>2. CASE \E m \in Ends \cup Middles : t = Then("recompute", "seen", Loads(m))
    <3>1. PICK m \in Ends \cup Middles : t = Then("recompute", "seen", Loads(m))
      BY <2>2
    <3>2. x = "seen" /\ Tail(t) = Loads(m)
      BY <3>1, Parts, Words, ThenFacts
    <3>3. Kin(v, d, o)
      BY <1>3, <1>10, <3>2, Words DEF Syncing
    <3>4. Needs(Tail(t), "seen") => Kin(j2.views["seen"], e, o)
      BY <1>4, <1>6, <3>2, <3>3, Words
    <3> QED BY <1>7, <3>2, <3>4 DEF Syncing, Planned
  <2>3. CASE Same(j.views["copy"], d, o) /\ \E m \in Middles : t = Then("recompute", "copy", m)
    <3>1. PICK m \in Middles : t = Then("recompute", "copy", m)
      BY <2>3
    <3>2. x = "copy" /\ Tail(t) = m /\ Needs(m, "copy")
      BY <3>1, EndFacts, Words, ThenFacts
    <3>3. Kin(v, d, o) /\ v.deal = d
      BY <2>3, <3>2 DEF Same, Kin
    <3>4. Same(j2.views["copy"], e, o)
      BY <1>2, <1>4, <1>6, <3>2, <3>3, Words DEF Same, Kin
    <3>5. Needs(Tail(t), "seen") => Kin(j2.views["seen"], e, o)
      BY <1>3, <1>5, <1>6, <1>10, <3>2, <3>3, Words DEF Syncing
    <3> QED BY <1>7, <3>2, <3>4, <3>5 DEF Syncing, Planned
  <2> QED BY <2>1, <2>2, <2>3
<1>11. ASSUME Preparing(t, j.views, d, o) PROVE Planned(j2, e, o, s, r)
  <2>1. t = Then("recompute", "seen", Last) /\ Same(j.views["seen"], d, o)
    BY <1>11, PreparingHead
  <2>2. x = "seen" /\ Tail(t) = Last /\ Needs(Last, "seen")
    <3>1. Last \in Todo /\ Twice \in Todo
      BY Parts
    <3>2. Head(t) = <<"recompute", "seen">> /\ Tail(t) = Last
      BY <2>1, <3>1, Words, ThenFacts
    <3>3. Needs(Last, "seen")
      BY <3>1, Words, FirstNeeds DEF Last
    <3>4. <<"recompute", "seen">>[2] = "seen"
      OBVIOUS
    <3> QED BY <3>2, <3>3, <3>4
  <2>3. Kin(v, d, o) /\ v.deal = d
    BY <2>1, <2>2 DEF Same, Kin
  <2>4. Same(j2.views["seen"], e, o)
    BY <1>2, <1>4, <1>6, <2>2, <2>3, Words DEF Same, Kin
  <2> QED BY <1>7, <2>2, <2>4 DEF Preparing, Planned
<1> QED
  BY <1>8, <1>9, <1>10, <1>11, TellingHead, SavingHead, HandingHead DEF Planned, SaveHead

LEMMA SaveOrderPlan ==
  ASSUME NEW j \in Job, NEW j2, NEW d \in Deal, NEW o \in Order, NEW s, NEW r, NEW v,
         j.todo # <<>>, Head(j.todo)[1] = "saveOrder", v = j.views[Head(j.todo)[2]],
         Planned(j, d, o, s, r), Onward(j, j2, Tail(j.todo), v),
         NEW o2, o2 = Put(o, j.changed, v.order)
  PROVE  Planned(j2, d, o2, s, r)
<1> DEFINE t == Tail(j.todo)
<1>1. j.todo \in Todo
  BY DEF Job, Todo
<1>2. Saving(j, j.todo, j.views["seen"], d, o)
  BY <1>1, ComputingHead, TellingHead, SendingHead, SyncingHead, PreparingHead, HandingHead
     DEF Planned, SyncHead
<1>3. v = j.views["seen"] /\ SaveHead(j, j.todo, v, d, o)
  BY <1>2, SavingHead
<1>4. o2 = v.order
  BY <1>3 DEF SaveHead
<1>5. j2.todo = t /\ (Needs(t, "seen") => j2.views["seen"] = v)
  BY <1>2, SavingHead, Words DEF Onward
<1>6. CASE /\ v.deal.avito = d.avito
           /\ \E m \in Ends \cup Middles : t = Acts(m) \/ t = Then("attach", "seen", Acts(m))
  <2>1. Needs(t, "seen") => Kin(j2.views["seen"], d, o2)
    BY <1>4, <1>5, <1>6 DEF Kin
  <2> QED BY <1>5, <1>6, <2>1 DEF Syncing, Planned
<1>7. CASE /\ Put(d, j.dirty, v.deal) = v.deal
           /\ t = Then("saveDeal", "seen", Then("recompute", "seen", <<>>))
  <2>1. Needs(t, "seen")
    BY <1>7, Parts, Words, FirstNeeds
  <2>2. j2.dirty = j.dirty
    BY DEF Onward
  <2>3. Saving(j2, t, j2.views["seen"], d, o2)
    BY <1>4, <1>5, <1>7, <2>1, <2>2 DEF Saving
  <2> QED BY <1>5, <2>3 DEF Planned
<1> QED BY <1>3, <1>6, <1>7 DEF SaveHead

LEMMA SaveDealPlan ==
  ASSUME NEW j \in Job, NEW j2, NEW d \in Deal, NEW o \in Order, NEW s, NEW r, NEW v,
         j.todo # <<>>, Head(j.todo)[1] = "saveDeal", v = j.views[Head(j.todo)[2]],
         Planned(j, d, o, s, r), Onward(j, j2, Tail(j.todo), v),
         NEW d2, d2 = Put(d, j.dirty, v.deal)
  PROVE  Planned(j2, d2, o, s, r)
<1> DEFINE t == Tail(j.todo)
<1>1. j.todo \in Todo
  BY DEF Job, Todo
<1>2. Saving(j, j.todo, j.views["seen"], d, o)
  BY <1>1, ComputingHead, TellingHead, SendingHead, SyncingHead, PreparingHead, HandingHead
     DEF Planned, SyncHead
<1>3. v = j.views["seen"] /\ SaveHead(j, j.todo, v, d, o)
  BY <1>2, SavingHead
<1>4. d2.avito = IF "avito" \in j.dirty THEN v.deal.avito ELSE d.avito
  <2>1. "avito" \in DealFields
    BY DealField
  <2>2. \A F, n : Put(d, F, n)["avito"] = IF "avito" \in F THEN n["avito"] ELSE d["avito"]
    BY <2>1, PutField
  <2> QED BY <2>2
<1>5. /\ j2.todo = t /\ (Needs(t, "seen") => j2.views["seen"] = v)
      /\ t # <<>> => j2.changed = j.changed
  BY <1>2, <1>3, SavingHead, Words DEF Onward
<1>6. CASE /\ Put(o, j.changed, v.order) = v.order /\ v.deal.avito = d.avito
           /\ \E m \in Ends \cup Middles : t = Then("saveOrder", "seen", Acts(m))
  <2>1. PICK m \in Ends \cup Middles : t = Then("saveOrder", "seen", Acts(m))
    BY <1>6
  <2>2. Acts(m) \in Todo
    BY Parts
  <2>3. Needs(t, "seen") /\ t # <<>>
    BY <2>1, <2>2, Words, FirstNeeds
  <2>4. v.deal.avito = d2.avito
    BY <1>4, <1>6
  <2>5. Saving(j2, t, j2.views["seen"], d2, o)
    BY <1>5, <1>6, <2>3, <2>4 DEF Saving
  <2> QED BY <1>5, <2>5 DEF Planned
<1>7. CASE /\ v.order = o /\ d2 = v.deal
           /\ t = Then("recompute", "seen", <<>>) \/ t = Twice
  <2>1. /\ Needs(t, "seen") /\ Computes(t) /\ \A y \in Slots : Needs(t, y) => y = "seen"
    BY <1>7, SeenFacts
  <2>2. Same(j2.views["seen"], d2, o)
    BY <1>5, <1>7, <2>1 DEF Same
  <2>3. Computing(t, j2.views, d2, o, s, r)
    BY <2>1, <2>2, SameFits, Words DEF Computing
  <2> QED BY <1>5, <2>3 DEF Planned
<1> QED BY <1>3, <1>6, <1>7 DEF SaveHead

LEMMA AttachPlan ==
  ASSUME NEW j \in Job, NEW j2, NEW d \in Deal, NEW o \in Order, NEW s, NEW r, NEW v2,
         j.todo # <<>>, Head(j.todo)[1] = "attach",
         v2.deal = d, v2.order = j.views[Head(j.todo)[2]].order,
         Planned(j, d, o, s, r), Onward(j, j2, Tail(j.todo), v2)
  PROVE  Planned(j2, d, o, s, r)
<1>1. j.todo \in Todo
  BY DEF Job, Todo
<1>2. Syncing(j.todo, j.views, d, o)
  BY <1>1, ComputingHead, TellingHead, SendingHead, SavingHead, PreparingHead, HandingHead
     DEF Planned, SaveHead
<1>3. PICK m \in Ends \cup Middles : j.todo = Then("attach", "seen", Acts(m))
  BY <1>2, SyncingHead DEF SyncHead
<1>4. m \in Todo /\ Acts(m) \in Todo /\ Needs(Acts(m), "seen")
  BY Parts, Shapes
<1>5. Head(j.todo)[2] = "seen" /\ Tail(j.todo) = Acts(m) /\ Needs(j.todo, "seen")
  BY <1>3, <1>4, Words, ThenFacts
<1>6. Kin(j2.views["seen"], d, o) /\ j2.todo = Acts(m)
  BY <1>2, <1>4, <1>5, Words DEF Onward, Syncing, Kin
<1> QED BY <1>6 DEF Syncing, Planned

LEMMA EffectsPlan ==
  ASSUME NEW j \in Job, NEW j2, NEW d \in Deal, NEW o \in Order, NEW s, NEW r, NEW r2, NEW t,
         j.todo # <<>>, Head(j.todo)[1] = "effects",
         t = Tail(j.todo) \/ t = Then("recompute", "seen", Tail(j.todo)),
         Planned(j, d, o, s, r), Onward(j, j2, t, j.views[Head(j.todo)[2]])
  PROVE  Planned(j2, d, o, s, r2)
<1>1. j.todo \in Todo
  BY DEF Job, Todo
<1>2. Syncing(j.todo, j.views, d, o)
  BY <1>1, ComputingHead, TellingHead, SendingHead, SavingHead, PreparingHead, HandingHead
     DEF Planned, SaveHead
<1>3. PICK m \in Ends \cup Middles : j.todo = Acts(m)
  BY <1>2, SyncingHead DEF SyncHead
<1>4. m \in Todo /\ Loads(m) \in Todo
  BY Parts
<1>5. /\ Head(j.todo) = <<"effects", "seen">> /\ Tail(j.todo) = Loads(m)
      /\ Needs(j.todo, "seen") /\ Needs(Loads(m), "seen")
  BY <1>3, <1>4, Shapes
<1>6. Needs(t, "seen")
  <2>1. Needs(Then("recompute", "seen", Loads(m)), "seen")
    BY <1>4, Words, ThenFacts
  <2> QED BY <1>5, <2>1
<1>7. Kin(j2.views["seen"], d, o) /\ j2.todo = t
  BY <1>2, <1>5, <1>6, Words DEF Onward, Syncing
<1> QED BY <1>5, <1>7 DEF Syncing, Planned

LEMMA LoadPlan ==
  ASSUME NEW j \in Job, NEW j2, NEW d \in Deal, NEW o \in Order, NEW s, NEW r, NEW v2,
         j.todo # <<>>, Head(j.todo)[1] = "load",
         v2.deal = d,
         Planned(j, d, o, s, r), Onward(j, j2, Tail(j.todo), v2)
  PROVE  Planned(j2, d, o, s, r)
<1>1. j.todo \in Todo
  BY DEF Job, Todo
<1>2. Syncing(j.todo, j.views, d, o)
  BY <1>1, ComputingHead, TellingHead, SendingHead, SavingHead, PreparingHead, HandingHead
     DEF Planned, SaveHead
<1>3. PICK m \in Ends \cup Middles : j.todo = Loads(m)
  BY <1>2, SyncingHead DEF SyncHead
<1>4. m \in Todo
  BY Parts
<1>5. /\ Head(j.todo) = <<"load", "copy">> /\ Tail(j.todo) = Ensured(m)
      /\ Needs(j.todo, "seen") /\ Needs(Ensured(m), "copy")
  BY <1>3, <1>4, Shapes
<1>6. Head(j.todo)[2] = "copy"
  BY <1>5
<1>7. j2.views["copy"].deal = d /\ j2.todo = Ensured(m)
  BY <1>5, <1>6, Words DEF Onward
<1>8. Needs(Ensured(m), "seen") => Kin(j2.views["seen"], d, o)
  BY <1>2, <1>5, <1>6, Words DEF Onward, Syncing
<1> QED BY <1>7, <1>8 DEF Syncing, Planned

LEMMA EnsurePlan ==
  ASSUME NEW j \in Job, NEW j2, NEW d \in Deal, NEW o \in Order, NEW s, NEW r, NEW v2, NEW d2,
         j.todo # <<>>, Head(j.todo)[1] = "ensure",
         j.views[Head(j.todo)[2]].deal = d => v2.deal = d2,
         v2.order = o, d2.avito = d.avito,
         Planned(j, d, o, s, r), Onward(j, j2, Tail(j.todo), v2)
  PROVE  Planned(j2, d2, o, s, r)
<1>1. j.todo \in Todo
  BY DEF Job, Todo
<1>2. Syncing(j.todo, j.views, d, o)
  BY <1>1, ComputingHead, TellingHead, SendingHead, SavingHead, PreparingHead, HandingHead
     DEF Planned, SaveHead
<1>3. PICK m \in Ends \cup Middles : j.todo = Ensured(m)
  BY <1>2, SyncingHead DEF SyncHead
<1>4. m \in Todo
  BY Parts
<1> DEFINE t == Then("recompute", "copy", m)
<1>5. /\ Head(j.todo) = <<"ensure", "copy">> /\ Tail(j.todo) = t
      /\ \A y : Needs(j.todo, y) <=> y = "copy" \/ Needs(m, y)
  BY <1>3, <1>4, Shapes
<1>6. Head(j.todo)[2] = "copy" /\ j.views["copy"].deal = d
  BY <1>2, <1>5, SyncingHead DEF SyncHead
<1>7. \A y : Needs(t, y) <=> y = "copy" \/ Needs(m, y)
  BY <1>4, Words, ThenFacts
<1>8. j2.todo = t /\ Same(j2.views["copy"], d2, o)
  BY <1>5, <1>6, <1>7, Words DEF Onward, Same
<1>9. Needs(t, "seen") => Kin(j2.views["seen"], d2, o)
  BY <1>2, <1>5, <1>6, <1>7, Words DEF Onward, Syncing, Kin
<1> HIDE DEF t
<1>10. CASE m \in Middles
  <2>1. Syncing(t, j2.views, d2, o)
    BY <1>8, <1>9, <1>10 DEF Syncing, t
  <2> QED BY <1>8, <2>1 DEF Planned
<1>11. CASE m \in Ends
  <2>1. Computes(t) /\ ~Needs(t, "late")
    BY <1>4, <1>7, <1>11, EndFacts, Words, ComputesFacts DEF t
  <2>2. Needs(t, "copy") /\ Fits(j2.views["copy"], d2, o, s, r) /\ Kin(j2.views["copy"], d2, o)
    BY <1>7, <1>8, SameFits
  <2>3. \A y \in Slots : Needs(t, y) => Kin(j2.views[y], d2, o)
    BY <1>9, <2>1, <2>2 DEF Slots
  <2>4. Computing(t, j2.views, d2, o, s, r)
    BY <2>1, <2>2, <2>3, Words DEF Computing
  <2> QED BY <1>8, <2>4 DEF Planned
<1> QED BY <1>10, <1>11

LEMMA RefreshPlan ==
  ASSUME NEW j \in Job, NEW j2, NEW d \in Deal, NEW o \in Order, NEW s, NEW r, NEW s2,
         j.todo # <<>>, Head(j.todo)[1] = "refresh",
         Planned(j, d, o, s, r), Onward(j, j2, Tail(j.todo), j.views[Head(j.todo)[2]])
  PROVE  Planned(j2, d, o, s2, r)
<1> DEFINE t == j.todo
<1>1. t \in Todo
  BY DEF Job, Todo
<1>2. Syncing(t, j.views, d, o) \/ Preparing(t, j.views, d, o)
  BY <1>1, ComputingHead, TellingHead, SendingHead, SavingHead, HandingHead
     DEF Planned, SaveHead
<1>3. j2.todo = Tail(t) /\ \A y \in Slots : Needs(Tail(t), y) => j2.views[y] = j.views[y]
  BY DEF Onward
<1>4. CASE Syncing(t, j.views, d, o)
  <2>1. t \in Middles /\ Same(j.views["copy"], d, o)
    BY <1>4, SyncingHead DEF SyncHead
  <2>2. Needs(t, "seen") /\ Needs(t, "copy")
    BY <2>1, EndFacts
  <2>3. Kin(j.views["seen"], d, o)
    BY <1>4, <2>2 DEF Syncing
  <2>4. PICK u \in Ends : t = Shipping(u) \/ t = Shipping(Going(u))
    BY <2>1, MiddleHead
  <2>5. u \in Todo /\ Going(u) \in Todo /\ Needs(u, "copy") /\ ~Needs(u, "late") /\ Computes(u)
    BY EndFacts, Shapes
  <2>6. CASE t = Shipping(u)
    <3>1. Tail(t) = Then("recompute", "seen", u)
      BY <2>5, <2>6, Shapes
    <3>2. Computes(Tail(t)) /\ Needs(Tail(t), "copy") /\ ~Needs(Tail(t), "late")
      <4>1. \A y : Needs(Then("recompute", "seen", u), y) <=> y = "seen" \/ Needs(u, y)
        BY <2>5, Words, ThenFacts
      <4>2. Computes(Tail(t))
        BY <2>5, <3>1, Words, ComputesFacts
      <4> QED BY <2>5, <3>1, <4>1, <4>2
    <3>3. Fits(j2.views["copy"], d, o, s2, r) /\ Kin(j2.views["copy"], d, o)
      BY <1>3, <2>1, <3>2, SameFits, Words
    <3>4. \A y \in Slots : Needs(Tail(t), y) => Kin(j2.views[y], d, o)
      BY <1>3, <2>3, <3>2, <3>3 DEF Slots
    <3>5. Computing(Tail(t), j2.views, d, o, s2, r)
      BY <3>2, <3>3, <3>4, Words DEF Computing
    <3> QED BY <1>3, <3>5 DEF Planned
  <2>7. CASE t = Shipping(Going(u))
    <3>1. Tail(t) = Then("recompute", "seen", Going(u))
      BY <2>5, <2>7, Shapes
    <3>2. Needs(Going(u), "copy")
      BY <2>5, Shapes
    <3>3. Needs(Tail(t), "copy") /\ Needs(Tail(t), "seen")
      <4>1. \A y : Needs(Then("recompute", "seen", Going(u)), y) <=> y = "seen" \/ Needs(Going(u), y)
        BY <2>5, Words, ThenFacts
      <4> QED BY <3>1, <3>2, <4>1
    <3>4. Fits(j2.views["copy"], d, o, s2, r) /\ Kin(j2.views["seen"], d, o)
      BY <1>3, <2>1, <2>3, <3>3, SameFits, Words
    <3>5. Sending(Tail(t), j2.views, d, o, s2, r)
      BY <3>1, <3>4 DEF Sending
    <3> QED BY <1>3, <3>5 DEF Planned
  <2> QED BY <2>4, <2>6, <2>7
<1>5. CASE t = Last /\ Same(j.views["seen"], d, o)
  <2>1. Tail(t) = Twice
    BY <1>5, SeenFacts, Words, ThenFacts DEF Last
  <2>2. /\ Needs(Twice, "seen") /\ Computes(Twice) /\ \A y \in Slots : Needs(Twice, y) => y = "seen"
    BY SeenFacts
  <2>3. Fits(j2.views["seen"], d, o, s2, r) /\ Kin(j2.views["seen"], d, o)
    BY <1>3, <1>5, <2>1, <2>2, SameFits, Words
  <2>4. Computing(Twice, j2.views, d, o, s2, r)
    BY <2>2, <2>3, Words DEF Computing
  <2> QED BY <1>3, <2>1, <2>4 DEF Planned
<1>6. CASE t = Late /\ Same(j.views["late"], d, o)
  <2> DEFINE u == Then("recompute", "late", <<>>)
  <2>1. Tail(t) = u
    BY <1>6, Parts, Words, ThenFacts DEF Late
  <2>2. Needs(u, "late") /\ Computes(u) /\ \A y \in Slots : Needs(u, y) => y = "late"
    BY Words, NoNeeds, ThenFacts, ComputesFacts
  <2> HIDE DEF u
  <2>3. Fits(j2.views["late"], d, o, s2, r) /\ Kin(j2.views["late"], d, o)
    BY <1>3, <1>6, <2>1, <2>2, SameFits, Words
  <2>4. Computing(u, j2.views, d, o, s2, r)
    BY <2>2, <2>3, Words DEF Computing
  <2> QED BY <1>3, <2>1, <2>4 DEF Planned
<1> QED BY <1>2, <1>4, <1>5, <1>6, PreparingHead

(* The goods go: the request will read the deal again.                       *)
LEMMA ToldPlan ==
  ASSUME NEW j2, NEW d, NEW o, NEW s, NEW r, NEW u \in Ends \cup {<<>>}, j2.todo = Told(u),
         \A x \in Slots : Needs(u, x) => Kin(j2.views[x], d, o)
  PROVE  Planned(j2, d, o, s, r)
<1>1. Telling(j2.todo, j2.views, d, o)
  BY DEF Telling
<1> QED BY <1>1 DEF Planned

LEMMA HandPlan ==
  ASSUME NEW j \in Job, NEW j2, NEW d \in Deal, NEW o \in Order, NEW s, NEW r, NEW v,
         NEW d2, NEW s2, NEW r2,
         j.todo # <<>>, Head(j.todo)[1] \in {"dispatch", "deliver", "cancel"},
         Planned(j, d, o, s, r)
  PROVE  /\ Head(j.todo)[1] = "dispatch" => ~s.consumed
         /\ Head(j.todo)[1] # "dispatch" => s.status # "cancelled"
         /\ Onward(j, j2, Tail(j.todo), v) => Planned(j2, d2, o, s2, r2)
<1>1. j.todo \in Todo
  BY DEF Job, Todo
<1>2. Handing(j.todo, s)
  BY <1>1, ComputingHead, TellingHead, SendingHead, SavingHead, SyncingHead, PreparingHead
     DEF Planned, SaveHead, SyncHead
<1>3. /\ Tail(j.todo) = Told(<<>>)
      /\ Head(j.todo)[1] = "dispatch" => ~s.consumed
      /\ Head(j.todo)[1] # "dispatch" => s.status # "cancelled"
  BY <1>2, HandingHead
<1>4. ASSUME Onward(j, j2, Tail(j.todo), v) PROVE Planned(j2, d2, o, s2, r2)
  <2>1. j2.todo = Told(<<>>)
    BY <1>3, <1>4 DEF Onward
  <2> QED BY <2>1, NoNeeds, ToldPlan
<1> QED BY <1>3, <1>4

LEMMA AutodispatchPlan ==
  ASSUME NEW j \in Job, NEW j2, NEW d \in Deal, NEW o \in Order, NEW s, NEW r, NEW v,
         j.todo # <<>>, Head(j.todo)[1] = "autodispatch", Planned(j, d, o, s, r)
  PROVE  /\ Onward(j, j2, SubSeq(j.todo, 3 + 1, Len(j.todo)), v) => Planned(j2, d, o, s, r)
         /\ \A s2, r2 : Onward(j, j2, Tail(j.todo), v) => Planned(j2, d, o, s2, r2)
<1> DEFINE t == j.todo
<1>1. t \in Todo
  BY DEF Job, Todo
<1>2. Sending(t, j.views, d, o, s, r)
  BY <1>1, ComputingHead, TellingHead, SyncingHead, SavingHead, PreparingHead, HandingHead
     DEF Planned, SaveHead, SyncHead
<1>3. PICK u \in Ends : t = Going(u)
  BY <1>2, SendingHead
<1>4. u \in Todo /\ Needs(u, "copy") /\ ~Needs(u, "late") /\ Computes(u)
  BY EndFacts
<1>5. /\ Tail(t) = Told(u) /\ Head(t) = <<"autodispatch", "late">>
      /\ \A y : /\ Needs(t, y) <=> y = "late" \/ Needs(u, y)
                /\ Needs(Told(u), y) <=> y = "late" \/ Needs(u, y)
  BY <1>3, <1>4, Shapes
<1>6. SubSeq(t, 3 + 1, Len(t)) = u
  BY <1>3, <1>4, SkipGoing
<1>7. Head(t)[2] = "late"
  BY <1>5
<1>8. /\ Fits(j.views["copy"], d, o, s, r) /\ Kin(j.views["copy"], d, o)
      /\ \A y \in Slots : Needs(u, y) => y # "late" /\ Kin(j.views[y], d, o)
  <2>1. Kin(j.views["copy"], d, o)
    BY <1>2 DEF Sending, Fits
  <2>2. Needs(u, "seen") => Kin(j.views["seen"], d, o)
    BY <1>2, <1>5 DEF Sending
  <2> QED BY <1>2, <1>4, <2>1, <2>2 DEF Sending, Slots
<1>9. ASSUME Onward(j, j2, u, v) PROVE Planned(j2, d, o, s, r)
  <2>1. j2.todo = u /\ \A y \in Slots : Needs(u, y) => j2.views[y] = j.views[y]
    BY <1>4, <1>7, <1>9 DEF Onward
  <2>2. Computing(u, j2.views, d, o, s, r)
    BY <1>4, <1>8, <2>1, Words DEF Computing
  <2> QED BY <2>1, <2>2 DEF Planned
<1>10. ASSUME NEW s2, NEW r2, Onward(j, j2, Told(u), v) PROVE Planned(j2, d, o, s2, r2)
  <2>1. /\ j2.todo = Told(u)
        /\ \A y \in Slots : Needs(u, y) /\ y # "late" => j2.views[y] = j.views[y]
    BY <1>5, <1>7, <1>10 DEF Onward
  <2>2. \A y \in Slots : Needs(u, y) => Kin(j2.views[y], d, o)
    BY <1>8, <2>1
  <2> QED BY <2>1, <2>2, ToldPlan
<1> QED BY <1>5, <1>6, <1>9, <1>10

LEMMA ReserveHead ==
  ASSUME NEW j \in Job, NEW d \in Deal, NEW o \in Order, NEW s, NEW r,
         j.todo # <<>>, Head(j.todo)[1] = "reserve", Planned(j, d, o, s, r)
  PROVE  /\ Same(j.views["seen"], d, o) /\ Head(j.todo)[2] = "seen"
         /\ Tail(j.todo) = Then("recompute", "seen", Last)
         /\ SubSeq(j.todo, 2 + 1, Len(j.todo)) = Last
<1> DEFINE t == j.todo
           u == Then("recompute", "seen", Last)
<1>1. t \in Todo
  BY DEF Job, Todo
<1>2. Preparing(t, j.views, d, o)
  BY <1>1, ComputingHead, TellingHead, SyncingHead, SavingHead, SendingHead, HandingHead
     DEF Planned, SaveHead, SyncHead
<1>3. t = Then("reserve", "seen", u) /\ Same(j.views["seen"], d, o)
  BY <1>2, PreparingHead
<1>4. SubSeq(t, 2 + 1, Len(t)) = Last
  BY <1>3, Parts, SkipReserve
<1>5. u \in Todo
  BY Parts
<1> HIDE DEF u
<1>6. Head(t)[2] = "seen" /\ Tail(t) = u
  BY <1>3, <1>5, Words, ThenFacts
<1> QED BY <1>3, <1>4, <1>6 DEF u

LEMMA ReserveSkipPlan ==
  ASSUME NEW j \in Job, NEW j2, NEW d \in Deal, NEW o \in Order, NEW s, NEW r, NEW v,
         j.todo # <<>>, Head(j.todo)[1] = "reserve", v = j.views[Head(j.todo)[2]],
         Planned(j, d, o, s, r), Onward(j, j2, SubSeq(j.todo, 2 + 1, Len(j.todo)), v)
  PROVE  Planned(j2, d, o, s, r)
<1>1. /\ Same(v, d, o) /\ Head(j.todo)[2] = "seen"
      /\ SubSeq(j.todo, 2 + 1, Len(j.todo)) = Last
  BY ReserveHead
<1>2. Needs(Last, "seen")
  BY SeenFacts, FirstNeeds, Words DEF Last
<1>3. j2.todo = Last /\ Same(j2.views["seen"], d, o)
  BY <1>1, <1>2, Words DEF Onward
<1>4. Preparing(Last, j2.views, d, o)
  BY <1>3 DEF Preparing
<1> QED BY <1>3, <1>4 DEF Planned

LEMMA ReservePlan ==
  ASSUME NEW j \in Job, NEW j2, NEW d \in Deal, NEW o \in Order, NEW s, NEW r,
         NEW v, NEW v2, NEW d2, NEW r2,
         j.todo # <<>>, Head(j.todo)[1] = "reserve", v = j.views[Head(j.todo)[2]],
         Planned(j, d, o, s, r), v2.order = v.order, v.deal = d => v2.deal = d2,
         Onward(j, j2, Tail(j.todo), v2)
  PROVE  Planned(j2, d2, o, s, r2)
<1> DEFINE u == Then("recompute", "seen", Last)
<1>1. Same(v, d, o) /\ Head(j.todo)[2] = "seen" /\ Tail(j.todo) = u
  BY ReserveHead
<1>2. Needs(u, "seen")
  BY Parts, FirstNeeds, Words
<1> HIDE DEF u
<1>3. j2.todo = u /\ Same(j2.views["seen"], d2, o)
  BY <1>1, <1>2, Words DEF Onward, Same
<1>4. Preparing(u, j2.views, d2, o)
  BY <1>3 DEF Preparing, u
<1> QED BY <1>3, <1>4 DEF Planned

LEMMA ReloadPlan ==
  ASSUME NEW j \in Job, NEW j2, NEW d \in Deal, NEW o \in Order, NEW s, NEW r, NEW v2,
         j.todo # <<>>, Head(j.todo)[1] = "reload", Same(v2, d, o),
         Planned(j, d, o, s, r), Onward(j, j2, Tail(j.todo), v2)
  PROVE  Planned(j2, d, o, s, r)
<1> DEFINE t == j.todo
<1>1. t \in Todo
  BY DEF Job, Todo
<1>2. Telling(t, j.views, d, o)
  BY <1>1, ComputingHead, SendingHead, SyncingHead, SavingHead, PreparingHead, HandingHead
     DEF Planned, SaveHead, SyncHead
<1>3. CASE t = Then("reload", "late", Late)
  <2>0. Needs(Late, "late")
    BY Parts, Words, FirstNeeds DEF Late
  <2>1. Head(t) = <<"reload", "late">> /\ Tail(t) = Late /\ Needs(Late, "late")
    BY <1>3, <2>0, Parts, Words, ThenFacts
  <2>2. Head(t)[2] = "late"
    BY <2>1
  <2>3. j2.todo = Late /\ Same(j2.views["late"], d, o)
    BY <2>1, <2>2, Words DEF Onward
  <2>4. Preparing(Late, j2.views, d, o)
    BY <2>3 DEF Preparing
  <2> QED BY <2>3, <2>4 DEF Planned
<1>4. CASE \E u \in Ends \cup {<<>>} :
             t = Told(u) /\ \A x \in Slots : Needs(u, x) => Kin(j.views[x], d, o)
  <2>1. PICK u \in Ends \cup {<<>>} :
             t = Told(u) /\ \A x \in Slots : Needs(u, x) => Kin(j.views[x], d, o)
    BY <1>4
  <2>2. u \in Todo /\ Computes(u)
    BY EndFacts, NoNeeds, ComputesFacts
  <2> DEFINE a == Then("recompute", "late", u)
  <2>3. Head(t) = <<"reload", "late">> /\ Tail(t) = a
    BY <2>1, <2>2, Shapes
  <2>4. Computes(a) /\ \A y : Needs(a, y) <=> y = "late" \/ Needs(u, y)
    BY <2>2, Words, ThenFacts, ComputesFacts
  <2> HIDE DEF a
  <2>5. Head(t)[2] = "late"
    BY <2>3
  <2>6. j2.todo = a /\ Same(j2.views["late"], d, o)
    BY <2>3, <2>4, <2>5, Words DEF Onward
  <2>7. Fits(j2.views["late"], d, o, s, r) /\ Kin(j2.views["late"], d, o)
    BY <2>6, SameFits
  <2>8. \A y \in Slots : Needs(a, y) => Kin(j2.views[y], d, o)
    BY <2>1, <2>3, <2>4, <2>5, <2>7 DEF Onward
  <2>9. Computing(a, j2.views, d, o, s, r)
    BY <2>4, <2>7, <2>8, Words DEF Computing
  <2> QED BY <2>6, <2>9 DEF Planned
<1> QED BY <1>2, <1>3, <1>4 DEF Telling

(* Nothing is left to do: the card agrees.                                   *)
LEMMA DonePlan ==
  ASSUME NEW j, j.todo = <<>>, NEW d, NEW o, NEW s, NEW r, Planned(j, d, o, s, r)
  PROVE  Agrees(d, o, s, r)
<1> DEFINE t == j.todo
           first == {Told(u) : u \in Ends \cup {<<>>}} \cup {Going(u) : u \in Ends}
           loads == {Loads(m) : m \in Ends \cup Middles}
           acts  == {Acts(m) : m \in Ends \cup Middles}
           ready == {Ensured(m) : m \in Ends \cup Middles}
           tails == Middles \cup first \cup loads \cup acts
                      \cup {Then("attach", "seen", a) : a \in acts}
                      \cup {Then("saveOrder", "seen", a) : a \in acts}
                      \cup {Then("recompute", "seen", <<>>), Twice, Last, Late,
                            Then("recompute", "seen", Last),
                            Then("saveDeal", "seen", Then("recompute", "seen", <<>>))}
<1>1. /\ first \subseteq Todo /\ <<>> \notin first /\ loads \subseteq Todo /\ <<>> \notin loads
      /\ acts \subseteq Todo /\ <<>> \notin acts /\ <<>> \notin ready
  BY EndFacts, NoNeeds, Shapes
<1>2. Middles \subseteq Todo /\ <<>> \notin Middles
  BY EndFacts, MiddleHead
<1> HIDE DEF first, loads, acts, ready
<1>3. tails \subseteq Todo
  BY <1>1, <1>2, Parts, Words, ThenFacts
<1>4. Last # <<>> /\ Late # <<>>
  BY Parts, SeenFacts, Words, FirstNeeds DEF Last, Late
<1>5. \A do \in Steps, x \in Slots, u \in tails : Then(do, x, u) # <<>>
  BY <1>3, FirstNeeds
<1>6. ~Telling(t, j.views, d, o)
  <2>1. Then("reload", "late", Late) # <<>>
    BY Parts, Words, FirstNeeds
  <2> QED BY <1>1, <2>1 DEF Telling, first
<1>7. ~Sending(t, j.views, d, o, s, r)
  <2>1. \A u \in Ends : Going(u) \in first
    BY DEF first
  <2> QED BY <1>1, <1>5, <2>1, Words DEF Sending
<1>8. ~Syncing(t, j.views, d, o)
  <2>1. \A m \in Ends \cup Middles : Loads(m) \in loads /\ Acts(m) \in acts /\ Ensured(m) \in ready
    BY DEF loads, acts, ready
  <2> QED BY <1>1, <1>2, <1>5, <2>1, Words DEF Syncing
<1>9. ~Saving(j, t, j.views["seen"], d, o)
  <2>1. \A m \in Ends \cup Middles : Acts(m) \in acts
    BY DEF acts
  <2> QED BY <1>5, <2>1, Words DEF Saving
<1>10. ~Preparing(t, j.views, d, o)
  BY <1>4, <1>5, Words DEF Preparing
<1>11. ~Handing(t, s)
  BY Parts, Words, FirstNeeds DEF Handing
<1>12. \A x : ~Needs(t, x)
  BY NoNeeds
<1> QED
  BY <1>6, <1>7, <1>8, <1>9, <1>10, <1>11, <1>12 DEF Planned, Computing

-----------------------------------------------------------------------------
LEMMA GoesOnward ==
  ASSUME TypeOK, NEW w \in Workers, job[w].todo # <<>>, NEW t \in Todo, NEW v \in View,
         Goes(w, t, v)
  PROVE  Onward(job[w], job'[w], t, v)
<1> DEFINE views == [x \in Slots |-> IF ~Needs(t, x) THEN Blank
                        ELSE IF x = Head(job[w].todo)[2] THEN v ELSE job[w].views[x]]
           dirty == IF At(w, "saveDeal") THEN {} ELSE job[w].dirty
           changed == IF At(w, "effects") \/ t = <<>> THEN {} ELSE job[w].changed
<1>1. job'[w] = GoesOn(w, t, v)
  BY GoesJob
<1>2. GoesOn(w, t, v) = [todo |-> t, views |-> views, dirty |-> dirty, changed |-> changed]
  BY DEF GoesOn
<1>3. /\ job'[w].todo = t /\ job'[w].views = views /\ job'[w].dirty = dirty
      /\ job'[w].changed = changed
  BY <1>1, <1>2
<1>4. \A x \in Slots : Needs(t, x) =>
        job'[w].views[x] = IF x = Head(job[w].todo)[2] THEN v ELSE job[w].views[x]
  BY <1>3
<1> QED BY <1>3, <1>4 DEF Onward, At

(* Sets: the request has saved, or it saves next, and goes on as if it had    *)
(* done both at once.                                                        *)
LEMMA SavedOnward ==
  ASSUME NEW j \in Job, NEW j2, NEW u, j.todo # <<>>,
         Onward(j, j2, Then("saveDeal", Head(j.todo)[2], Tail(j.todo)), u)
  PROVE  /\ j2.todo # <<>> /\ Head(j2.todo) = <<"saveDeal", Head(j.todo)[2]>>
         /\ Tail(j2.todo) = Tail(j.todo) /\ j2.views[Head(j2.todo)[2]] = u
<1> DEFINE x == Head(j.todo)[2]
           t == Tail(j.todo)
           c == Then("saveDeal", x, t)
<1>1. x \in Slots /\ t \in Todo
  BY Unfolded DEF Job, Todo
<1>2. j2.todo = c /\ \A y \in Slots : Needs(c, y) => j2.views[y] = IF y = x THEN u ELSE j.views[y]
  BY DEF Onward
<1> HIDE DEF x, t
<1>3. c # <<>> /\ Head(c) = <<"saveDeal", x>> /\ Tail(c) = t /\ Needs(c, x)
  BY <1>1, Words, ThenFacts
<1> HIDE DEF c
<1>4. Head(c)[2] = x
  BY <1>3
<1> QED BY <1>1, <1>2, <1>3, <1>4 DEF x, t

LEMMA SaveOnward ==
  ASSUME NEW j \in Job, NEW j2, NEW j3, NEW u, j.todo # <<>>,
         Head(j.todo)[1] \notin {"effects", "saveOrder"},
         Onward(j, j2, Then("saveDeal", Head(j.todo)[2], Tail(j.todo)), u),
         Onward(j2, j3, Tail(j2.todo), j2.views[Head(j2.todo)[2]])
  PROVE  Onward(j, j3, Tail(j.todo), u)
<1> DEFINE x == Head(j.todo)[2]
           t == Tail(j.todo)
           c == Then("saveDeal", x, t)
<1>1. x \in Slots /\ t \in Todo
  BY Unfolded DEF Job, Todo
<1>2. /\ j2.todo = c /\ (c # <<>> => j2.changed = j.changed)
      /\ \A y \in Slots : Needs(c, y) => j2.views[y] = IF y = x THEN u ELSE j.views[y]
  BY DEF Onward
<1>3. Head(j2.todo) = <<"saveDeal", x>> /\ Tail(j2.todo) = t /\ j2.views[Head(j2.todo)[2]] = u
  BY SavedOnward
<1> HIDE DEF x, t
<1>4. c # <<>> /\ \A y : Needs(c, y) <=> y = x \/ Needs(t, y)
  BY <1>1, Words, ThenFacts
<1> HIDE DEF c
<1>5. Head(j2.todo)[2] = x /\ Head(j2.todo)[1] = "saveDeal"
  BY <1>3
<1>6. /\ j3.todo = t /\ (t # <<>> => j3.changed = j2.changed)
      /\ \A y \in Slots : Needs(t, y) => j3.views[y] = IF y = x THEN u ELSE j2.views[y]
  BY <1>3, <1>5 DEF Onward
<1>7. \A y \in Slots : Needs(t, y) => j3.views[y] = IF y = x THEN u ELSE j.views[y]
  BY <1>2, <1>4, <1>6
<1> QED
  BY <1>2, <1>4, <1>6, <1>7 DEF Onward, x, t

LEMMA SetsOnward ==
  ASSUME TypeOK, NEW w \in Workers, job[w].todo # <<>>,
         NEW new \in Deal, NEW o \in Order, Sets(w, new, o)
  PROVE  LET set == Changed(Mine(w).deal, new)
         IN  /\ job'[w].dirty = set
             /\ At(w, "effects") \/ At(w, "saveOrder")
                  \/ Onward(job[w], job'[w], Saves(w, set), [deal |-> new, order |-> o])
<1> DEFINE set == Changed(Mine(w).deal, new)
           t == Saves(w, set)
           v == [deal |-> new, order |-> o]
           views == [x \in Slots |-> IF ~Needs(t, x) THEN Blank
                        ELSE IF x = Head(job[w].todo)[2] THEN v ELSE job[w].views[x]]
           changed == IF At(w, "effects") \/ t = <<>> THEN {} ELSE job[w].changed
<1>1. /\ job'[w].todo = t /\ job'[w].views = GoesOn(w, t, v).views
      /\ job'[w].changed = GoesOn(w, t, v).changed /\ job'[w].dirty = set
  BY SetsJob
<1>2. GoesOn(w, t, v).views = views /\ GoesOn(w, t, v).changed = changed
  BY DEF GoesOn
<1> HIDE DEF t, v, set
<1>3. \A x \in Slots : Needs(t, x) =>
        job'[w].views[x] = IF x = Head(job[w].todo)[2] THEN v ELSE job[w].views[x]
  BY <1>1, <1>2
<1>4. ~At(w, "effects") /\ ~At(w, "saveOrder") => Onward(job[w], job'[w], t, v)
  BY <1>1, <1>2, <1>3 DEF Onward, At
<1> QED BY <1>1, <1>4 DEF t, v, set

LEMMA SetsPlan ==
  ASSUME TypeOK, NEW w \in Workers, job[w].todo # <<>>, ~At(w, "effects"), ~At(w, "saveOrder"),
         NEW new \in Deal, NEW o \in Order, Sets(w, new, o),
         NEW d2, d2 = Put(deal, Changed(Mine(w).deal, new), new), NEW s, NEW r, NEW p,
         \A j3 : Onward(job[w], j3, Tail(job[w].todo), [deal |-> new, order |-> o])
                  => Planned(j3, d2, p, s, r)
  PROVE  Planned(job'[w], deal, p, s, r) \/ Pending(job'[w], deal, p, s, r)
<1> DEFINE set == Changed(Mine(w).deal, new)
           u == [deal |-> new, order |-> o]
           j == job[w]
           j2 == job'[w]
<1>1. j2.dirty = set /\ Onward(j, j2, Saves(w, set), u)
  BY SetsOnward
<1>2. deal \in Deal /\ j \in Job /\ u.deal = new
  BY DEF TypeOK
<1>3. d2 = Put(deal, set, new)
  OBVIOUS
<1>4. \A j3 : Onward(j, j3, Tail(j.todo), u) => Planned(j3, d2, p, s, r)
  OBVIOUS
<1>5. Head(j.todo)[1] \notin {"effects", "saveOrder"}
  BY DEF At
<1>6. Saves(w, set) = IF set = {} THEN Tail(j.todo) ELSE Then("saveDeal", Head(j.todo)[2], Tail(j.todo))
  BY DEF Saves, Rest, Then
<1>7. j.todo # <<>>
  OBVIOUS
<1> HIDE DEF set, u, j, j2
<1>8. CASE set = {}
  <2>1. d2 = deal
    BY <1>2, <1>3, <1>8, PutNone
  <2>2. Onward(j, j2, Tail(j.todo), u)
    BY <1>1, <1>6, <1>8
  <2>3. Planned(j2, deal, p, s, r)
    BY <1>4, <2>1, <2>2
  <2> QED BY <2>3 DEF j2
<1>9. CASE set # {}
  <2>1. Onward(j, j2, Then("saveDeal", Head(j.todo)[2], Tail(j.todo)), u)
    BY <1>1, <1>6, <1>9
  <2>2. /\ j2.todo # <<>> /\ Head(j2.todo) = <<"saveDeal", Head(j.todo)[2]>>
        /\ Tail(j2.todo) = Tail(j.todo) /\ j2.views[Head(j2.todo)[2]] = u
        /\ \A j3 : Onward(j2, j3, Tail(j2.todo), j2.views[Head(j2.todo)[2]])
                     => Onward(j, j3, Tail(j.todo), u)
    BY <1>2, <1>5, <1>7, <2>1, SavedOnward, SaveOnward
  <2>3. Head(j2.todo)[1] = "saveDeal"
    BY <2>2
  <2>4. Pending(j2, deal, p, s, r)
    BY <1>1, <1>2, <1>3, <1>4, <2>2, <2>3 DEF Pending
  <2> QED BY <2>4 DEF j2
<1> QED BY <1>8, <1>9

LEMMA StepPlan ==
  ASSUME TypeOK, NEW w \in Workers, Step(w),
         Planned(job[w], deal, order, shipment, reserved)
  PROVE  \/ Planned(job'[w], deal', order', shipment', reserved')
         \/ Pending(job'[w], deal', order', shipment', reserved')
<1> DEFINE j == job[w]
           j2 == job'[w]
           v == Mine(w)
<1>1. /\ order \in Order /\ deal \in Deal /\ shipment \in Shipment /\ reserved \in Reserved
      /\ j \in Job
  BY DEF TypeOK
<1>2. j.todo # <<>>
  BY DEF Step, SaveOrder, SaveDeal, Attach, Effects, Load, Ensure, Recompute, Refresh,
         DispatchShipment, MarkDelivered, CancelShipment, Reserve, Reload, At
<1>3. /\ Rest(w) \in Todo /\ Rest(w) = Tail(j.todo)
      /\ v \in View /\ v.deal \in Deal /\ v.order \in Order /\ v = j.views[Head(j.todo)[2]]
      /\ \A n \in Nat : SubSeq(j.todo, n + 1, Len(j.todo)) \in Todo
  BY <1>2, Working DEF Rest, Mine
<1>4. \A do : At(w, do) => Head(j.todo)[1] = do
  BY DEF At
<1>5. \A t \in Todo, u \in View : Goes(w, t, u) => Onward(j, j2, t, u)
  BY <1>2, GoesOnward
<1>6. \A d, o : [deal |-> d, order |-> o].deal = d /\ [deal |-> d, order |-> o].order = o
  OBVIOUS
<1>7. \A d \in Deal, o \in Order : [deal |-> d, order |-> o] \in View
  BY DEF View
<1>8. \A d \in Deal : LET u == [v EXCEPT !.deal = d]
                      IN  u \in View /\ u.deal = d /\ u.order = v.order
  BY <1>3 DEF View
<1>9. \A n : Skips(w, n) <=> Goes(w, SubSeq(j.todo, n + 1, Len(j.todo)), v)
  BY DEF Skips
<1>10. Planned(j, deal, order, shipment, reserved)
  OBVIOUS
<1>11. ASSUME SaveOrder(w) PROVE Planned(j2, deal', order', shipment', reserved')
  <2>1. /\ At(w, "saveOrder") /\ order' = Put(order, j.changed, v.order) /\ Goes(w, Rest(w), v)
        /\ deal' = deal /\ shipment' = shipment /\ reserved' = reserved
    BY <1>11 DEF SaveOrder
  <2> HIDE DEF j, j2, v
  <2>2. Head(j.todo)[1] = "saveOrder" /\ Onward(j, j2, Tail(j.todo), v)
    BY <1>3, <1>4, <1>5, <2>1
  <2>3. Planned(j2, deal, order', shipment, reserved)
    BY <1>1, <1>2, <1>3, <1>10, <2>1, <2>2, SaveOrderPlan
  <2> QED BY <2>1, <2>3
<1>12. ASSUME SaveDeal(w) PROVE Planned(j2, deal', order', shipment', reserved')
  <2>1. /\ At(w, "saveDeal") /\ deal' = Put(deal, j.dirty, v.deal) /\ Goes(w, Rest(w), v)
        /\ order' = order /\ shipment' = shipment /\ reserved' = reserved
    BY <1>12 DEF SaveDeal
  <2> HIDE DEF j, j2, v
  <2>2. Head(j.todo)[1] = "saveDeal" /\ Onward(j, j2, Tail(j.todo), v)
    BY <1>3, <1>4, <1>5, <2>1
  <2>3. Planned(j2, deal', order, shipment, reserved)
    BY <1>1, <1>2, <1>3, <1>10, <2>1, <2>2, SaveDealPlan
  <2> QED BY <2>1, <2>3
<1>13. ASSUME Attach(w) PROVE Planned(j2, deal', order', shipment', reserved')
  <2> DEFINE u == [v EXCEPT !.deal = deal]
  <2>1. /\ At(w, "attach") /\ Goes(w, Rest(w), u)
        /\ order' = order /\ deal' = deal /\ shipment' = shipment /\ reserved' = reserved
    BY <1>13 DEF Attach
  <2>2. u \in View /\ u.deal = deal /\ u.order = v.order
    BY <1>1, <1>8
  <2> HIDE DEF j, j2, v, u
  <2>3. Head(j.todo)[1] = "attach" /\ Onward(j, j2, Tail(j.todo), u)
    BY <1>3, <1>4, <1>5, <2>1, <2>2
  <2>4. Planned(j2, deal, order, shipment, reserved)
    BY <1>1, <1>2, <1>3, <1>10, <2>2, <2>3, AttachPlan
  <2> QED BY <2>1, <2>4
<1>14. ASSUME Effects(w) PROVE Planned(j2, deal', order', shipment', reserved')
  <2>1. /\ At(w, "effects")
        /\ order' = order /\ deal' = deal /\ shipment' = shipment
        /\ \E t \in {Rest(w), <<<<"recompute", "seen">>>> \o Rest(w)} : Goes(w, t, v)
    BY <1>14 DEF Effects
  <2>2. PICK t \in {Rest(w), <<<<"recompute", "seen">>>> \o Rest(w)} : Goes(w, t, v)
    BY <2>1
  <2>3. t \in Todo
    <3>1. Then("recompute", "seen", Rest(w)) \in Todo
      BY <1>3, Words, ThenTodo
    <3> QED BY <1>3, <2>2, <3>1 DEF Then
  <2> HIDE DEF j, j2, v
  <2>4. t = Tail(j.todo) \/ t = Then("recompute", "seen", Tail(j.todo))
    BY <1>3, <2>2 DEF Then
  <2>5. Head(j.todo)[1] = "effects" /\ Onward(j, j2, t, j.views[Head(j.todo)[2]])
    BY <1>3, <1>4, <1>5, <2>1, <2>2, <2>3
  <2>6. Planned(j2, deal, order, shipment, reserved')
    BY <1>1, <1>2, <1>10, <2>4, <2>5, EffectsPlan
  <2> QED BY <2>1, <2>6
<1>15. ASSUME Load(w) PROVE Planned(j2, deal', order', shipment', reserved')
  <2> DEFINE u == [deal |-> deal, order |-> job[w].views["seen"].order]
  <2>1. /\ At(w, "load") /\ Goes(w, Rest(w), u)
        /\ order' = order /\ deal' = deal /\ shipment' = shipment /\ reserved' = reserved
    BY <1>15 DEF Load
  <2>2. u \in View /\ u.deal = deal
    BY <1>1, <1>2, <1>6, <1>7, Working, Words
  <2> HIDE DEF j, j2, v, u
  <2>3. Head(j.todo)[1] = "load" /\ Onward(j, j2, Tail(j.todo), u)
    BY <1>3, <1>4, <1>5, <2>1, <2>2
  <2>4. Planned(j2, deal, order, shipment, reserved)
    BY <1>1, <1>2, <1>10, <2>2, <2>3, LoadPlan
  <2> QED BY <2>1, <2>4
<1>16. ASSUME Ensure(w)
       PROVE  Planned(j2, deal', order', shipment', reserved') \/ Pending(j2, deal', order', shipment', reserved')
  <2> DEFINE d == v.deal
             new == [d EXCEPT !.status = LegacyStatus(v.order, reserved, FALSE),
                              !.prepaid = (v.order.pay = "paid")]
             u == [deal |-> new, order |-> order]
             d2 == Put(deal, Changed(d, new), new)
  <2>1. /\ At(w, "ensure") /\ Sets(w, new, order)
        /\ order' = order /\ deal' = deal /\ shipment' = shipment /\ reserved' = reserved
    BY <1>16 DEF Ensure
  <2>2. d \in Deal
    BY <1>3
  <2>3. new \in Deal
    BY <1>1, <1>3, EnsuredType
  <2>4. new.avito = d.avito
    BY <2>2, SMTT(20) DEF Deal
  <2> HIDE DEF new
  <2>5. u.deal = new /\ u.order = order
    BY <1>6
  <2> HIDE DEF j, j2, v, u, d
  <2>6. d2.avito = deal.avito /\ (d = deal => u.deal = d2)
    BY <1>1, <2>2, <2>3, <2>4, <2>5, PutAvito, PutSame
  <2> HIDE DEF d2
  <2>7. Head(j.todo)[1] = "ensure"
    BY <1>4, <2>1
  <2>8. ASSUME NEW j3, Onward(j, j3, Tail(j.todo), u) PROVE Planned(j3, d2, order, shipment, reserved)
    BY <1>1, <1>2, <1>3, <1>10, <2>5, <2>6, <2>7, <2>8, EnsurePlan DEF d
  <2>9. Planned(j2, deal, order, shipment, reserved) \/ Pending(j2, deal, order, shipment, reserved)
    BY <1>1, <1>2, <1>4, <2>1, <2>3, <2>7, <2>8, SetsPlan DEF j, j2, v, u, d, d2
  <2> QED BY <2>1, <2>9
<1>17. ASSUME Recompute(w)
       PROVE  Planned(j2, deal', order', shipment', reserved') \/ Pending(j2, deal', order', shipment', reserved')
  <2>1. PICK k \in BOOLEAN : Sets(w, Computed(v.deal, v.order, shipment, reserved, k), v.order)
    BY <1>17 DEF Recompute
  <2> DEFINE new == Computed(v.deal, v.order, shipment, reserved, k)
             u == [deal |-> new, order |-> v.order]
             d2 == Put(deal, Changed(v.deal, new), new)
  <2>2. /\ At(w, "recompute") /\ Sets(w, new, v.order)
        /\ order' = order /\ deal' = deal /\ shipment' = shipment /\ reserved' = reserved
    BY <1>17, <2>1 DEF Recompute
  <2>3. new \in Deal
    BY <1>1, <1>3, ComputedCard
  <2> HIDE DEF new
  <2>4. u.deal = new /\ u.order = v.order /\ d2 = Row(deal, v, u.deal)
    BY <1>6 DEF Row
  <2> HIDE DEF j, j2, v, u, d2
  <2>5. Head(j.todo)[1] = "recompute"
    BY <1>4, <2>2
  <2>6. u.deal = Computed(v.deal, v.order, shipment, reserved, k)
    BY <2>4 DEF new
  <2>7. ASSUME NEW j3, Onward(j, j3, Tail(j.todo), u) PROVE Planned(j3, d2, order, shipment, reserved)
    <3>1. j \in Job /\ j.todo # <<>> /\ Head(j.todo)[1] = "recompute"
      BY <1>1, <1>2, <2>5
    <3>2. v = Held(j)
      BY <1>3 DEF Held
    <3>3. u.order = Held(j).order /\ d2 = Row(deal, Held(j), u.deal)
      BY <2>4, <3>2
    <3>4. \E c \in BOOLEAN : u.deal = Computed(Held(j).deal, Held(j).order, shipment, reserved, c)
      BY <2>6, <3>2
    <3>5. Planned(j3, Row(deal, Held(j), u.deal), order, shipment, reserved)
      BY <1>1, <1>10, <2>7, <3>1, <3>3, <3>4, RecomputePlan
    <3> QED BY <3>3, <3>5
  <2>8. Planned(j2, deal, order, shipment, reserved) \/ Pending(j2, deal, order, shipment, reserved)
    BY <1>2, <1>3, <1>4, <2>2, <2>3, <2>5, <2>7, SetsPlan DEF j, j2, v, u, d2
  <2> QED BY <2>2, <2>8
<1>18. ASSUME Refresh(w) PROVE Planned(j2, deal', order', shipment', reserved')
  <2>1. /\ At(w, "refresh") /\ Goes(w, Rest(w), v)
        /\ order' = order /\ deal' = deal /\ reserved' = reserved
    BY <1>18 DEF Refresh
  <2> HIDE DEF j, j2, v
  <2>2. Head(j.todo)[1] = "refresh" /\ Onward(j, j2, Tail(j.todo), j.views[Head(j.todo)[2]])
    BY <1>3, <1>4, <1>5, <2>1
  <2>3. Planned(j2, deal, order, shipment', reserved)
    BY <1>1, <1>2, <1>10, <2>2, RefreshPlan
  <2> QED BY <2>1, <2>3
<1>19. ASSUME DispatchShipment(w) PROVE Planned(j2, deal', order', shipment', reserved')
  <2>1. /\ At(w, "dispatch") \/ At(w, "autodispatch")
        /\ order' = order /\ deal' = deal
        /\ \/ /\ shipment.consumed \/ At(w, "autodispatch")
              /\ Skips(w, 3) /\ shipment' = shipment /\ reserved' = reserved
           \/ Goes(w, Rest(w), v)
    BY <1>19 DEF DispatchShipment
  <2> HIDE DEF j, j2, v
  <2>2. CASE At(w, "dispatch")
    <3>1. Head(j.todo)[1] = "dispatch"
      BY <1>4, <2>2
    <3>2. /\ ~shipment.consumed
          /\ Onward(j, j2, Tail(j.todo), v) => Planned(j2, deal, order, shipment', reserved')
      BY <1>1, <1>2, <1>10, <3>1, HandPlan
    <3>3. ~At(w, "autodispatch")
      BY <1>4, <3>1
    <3>4. Onward(j, j2, Tail(j.todo), v)
      BY <1>3, <1>5, <2>1, <3>2, <3>3
    <3> QED BY <2>1, <3>2, <3>4
  <2>3. CASE At(w, "autodispatch")
    <3>1. Head(j.todo)[1] = "autodispatch"
      BY <1>4, <2>3
    <3>2. /\ Onward(j, j2, SubSeq(j.todo, 3 + 1, Len(j.todo)), v)
               => Planned(j2, deal, order, shipment, reserved)
          /\ Onward(j, j2, Tail(j.todo), v) => Planned(j2, deal, order, shipment', reserved')
      BY <1>1, <1>2, <1>10, <3>1, AutodispatchPlan
    <3>3. CASE Goes(w, Rest(w), v)
      BY <1>3, <1>5, <2>1, <3>2, <3>3
    <3>4. CASE Skips(w, 3) /\ shipment' = shipment /\ reserved' = reserved
      <4>1. SubSeq(j.todo, 3 + 1, Len(j.todo)) \in Todo /\ v \in View
        BY <1>3
      <4>2. Goes(w, SubSeq(j.todo, 3 + 1, Len(j.todo)), v)
        BY <1>9, <3>4
      <4>3. Onward(j, j2, SubSeq(j.todo, 3 + 1, Len(j.todo)), v)
        BY <1>5, <4>1, <4>2
      <4> QED BY <2>1, <3>2, <3>4, <4>3
    <3> QED BY <2>1, <3>3, <3>4
  <2> QED BY <2>1, <2>2, <2>3
<1>20. ASSUME MarkDelivered(w) \/ CancelShipment(w)
       PROVE  Planned(j2, deal', order', shipment', reserved')
  <2>1. /\ At(w, "deliver") \/ At(w, "cancel")
        /\ order' = order /\ (shipment.status = "cancelled" \/ Goes(w, Rest(w), v))
    BY <1>20 DEF MarkDelivered, CancelShipment
  <2> HIDE DEF j, j2, v
  <2>2. Head(j.todo)[1] \in {"deliver", "cancel"}
    BY <1>4, <2>1
  <2>3. /\ shipment.status # "cancelled"
        /\ Onward(j, j2, Tail(j.todo), v) => Planned(j2, deal', order, shipment', reserved')
    BY <1>1, <1>2, <1>10, <2>2, HandPlan
  <2>4. Onward(j, j2, Tail(j.todo), v)
    BY <1>3, <1>5, <2>1, <2>3
  <2> QED BY <2>1, <2>3, <2>4
<1>21. ASSUME Reserve(w)
       PROVE  Planned(j2, deal', order', shipment', reserved') \/ Pending(j2, deal', order', shipment', reserved')
  <2>1. At(w, "reserve") /\ order' = order /\ deal' = deal /\ shipment' = shipment
    BY <1>21 DEF Reserve
  <2>2. Head(j.todo)[1] = "reserve"
    BY <1>4, <2>1
  <2>3. CASE Skips(w, 2) /\ reserved' = reserved
    <3> HIDE DEF j, j2, v
    <3>1. SubSeq(j.todo, 2 + 1, Len(j.todo)) \in Todo /\ v \in View
      BY <1>3
    <3>2. Goes(w, SubSeq(j.todo, 2 + 1, Len(j.todo)), v)
      BY <1>9, <2>3
    <3>3. Onward(j, j2, SubSeq(j.todo, 2 + 1, Len(j.todo)), v)
      BY <1>5, <3>1, <3>2
    <3>4. Planned(j2, deal, order, shipment, reserved)
      BY <1>1, <1>2, <1>3, <1>10, <2>2, <3>3, ReserveSkipPlan
    <3> QED BY <2>1, <2>3, <3>4
  <2>4. CASE \E p \in {v.deal.placed, TRUE} : Sets(w, [v.deal EXCEPT !.placed = p], v.order)
    <3>1. PICK p \in {v.deal.placed, TRUE} : Sets(w, [v.deal EXCEPT !.placed = p], v.order)
      BY <2>4
    <3> DEFINE new == [v.deal EXCEPT !.placed = p]
               u == [deal |-> new, order |-> v.order]
               d2 == Put(deal, Changed(v.deal, new), new)
    <3>2. Sets(w, new, v.order)
      BY <3>1
    <3>3. p \in BOOLEAN
      BY <1>3 DEF Deal
    <3>4. new \in Deal
      BY <1>3, <3>3, FlagType
    <3> HIDE DEF new
    <3>5. u.deal = new /\ u.order = v.order
      BY <1>6
    <3> HIDE DEF j, j2, v, u
    <3>6. v.deal = deal => u.deal = d2
      BY <1>1, <3>4, <3>5, PutSame
    <3> HIDE DEF d2
    <3>7. ASSUME NEW j3, Onward(j, j3, Tail(j.todo), u) PROVE Planned(j3, d2, order, shipment, reserved')
      BY <1>1, <1>2, <1>3, <1>10, <2>2, <3>5, <3>6, <3>7, ReservePlan
    <3>8. \/ Planned(j2, deal, order, shipment, reserved')
          \/ Pending(j2, deal, order, shipment, reserved')
      BY <1>2, <1>3, <1>4, <2>2, <3>2, <3>4, <3>7, SetsPlan DEF j, j2, v, u, d2
    <3> QED BY <2>1, <3>8
  <2> QED BY <1>21, <2>3, <2>4 DEF Reserve
<1>22. ASSUME Reload(w) PROVE Planned(j2, deal', order', shipment', reserved')
  <2>1. /\ At(w, "reload") /\ Goes(w, Rest(w), Now)
        /\ order' = order /\ deal' = deal /\ shipment' = shipment /\ reserved' = reserved
    BY <1>22 DEF Reload
  <2>2. Now \in View /\ Same(Now, deal, order)
    BY <1>1, <1>6, <1>7 DEF Now, Same
  <2> HIDE DEF j, j2, v
  <2>3. Head(j.todo)[1] = "reload" /\ Onward(j, j2, Tail(j.todo), Now)
    BY <1>3, <1>4, <1>5, <2>1, <2>2
  <2>4. Planned(j2, deal, order, shipment, reserved)
    BY <1>1, <1>2, <1>10, <2>2, <2>3, ReloadPlan
  <2> QED BY <2>1, <2>4
<1> QED
  BY <1>11, <1>12, <1>13, <1>14, <1>15, <1>16, <1>17, <1>18, <1>19, <1>20, <1>21, <1>22 DEF Step

(* The only step that waits is the save of what was set.                     *)
LEMMA PendingPlan ==
  ASSUME TypeOK, NEW w \in Workers, Step(w),
         Pending(job[w], deal, order, shipment, reserved)
  PROVE  Planned(job'[w], deal', order', shipment', reserved')
<1> DEFINE j == job[w]
           v == Mine(w)
<1>1. j.todo # <<>> /\ Head(j.todo)[1] = "saveDeal" /\ v = j.views[Head(j.todo)[2]]
  BY DEF Pending, Mine
<1>2. \A do : do # "saveDeal" => ~At(w, do)
  BY <1>1 DEF At
<1>3. SaveDeal(w)
  BY <1>2 DEF Step, SaveOrder, SaveDeal, Attach, Effects, Load, Ensure, Recompute, Refresh,
         DispatchShipment, MarkDelivered, CancelShipment, Reserve, Reload
<1>4. /\ deal' = Put(deal, j.dirty, v.deal) /\ Goes(w, Rest(w), v)
      /\ order' = order /\ shipment' = shipment /\ reserved' = reserved
  BY <1>3 DEF SaveDeal
<1>5. Rest(w) \in Todo /\ v \in View /\ Rest(w) = Tail(j.todo)
  BY <1>1, Working DEF Rest
<1>6. Onward(j, job'[w], Tail(j.todo), v)
  BY <1>1, <1>4, <1>5, GoesOnward
<1>7. \A j2 : Onward(j, j2, Tail(j.todo), v)
              => Planned(j2, Put(deal, j.dirty, v.deal), order, shipment, reserved)
  BY <1>1 DEF Pending
<1> HIDE DEF j, v
<1>8. Planned(job'[w], Put(deal, j.dirty, v.deal), order, shipment, reserved)
  BY <1>6, <1>7
<1> QED
  BY <1>4, <1>8

(* A request that is alone takes a step.                                     *)
LEMMA LoneStep ==
  ASSUME TypeOK, LoneInv, NEW w \in Workers, Step(w)
  PROVE  LoneInv'
<1>1. job \in [Workers -> Job]
  BY DEF TypeOK
<1>2. job[w].todo # <<>> /\ alone' = alone
  BY DEF Step, SaveOrder, SaveDeal, Attach, Effects, Load, Ensure, Recompute, Refresh,
         DispatchShipment, MarkDelivered, CancelShipment, Reserve, Reload, At
<1>3. \E q : job' = [job EXCEPT ![w] = q]
  BY DEF Step, SaveOrder, SaveDeal, Attach, Effects, Load, Ensure, Recompute, Refresh,
         DispatchShipment, MarkDelivered, CancelShipment, Reserve, Reload, Skips, Goes, Sets
<1>4. \A u \in Workers \ {w} : job'[u] = job[u]
  BY <1>1, <1>3
<1> SUFFICES ASSUME alone PROVE LoneInv'
  BY <1>2 DEF LoneInv
<1>5. /\ \A u \in Workers \ {w} : job[u].todo = <<>>
      /\ \/ Planned(job[w], deal, order, shipment, reserved)
         \/ Pending(job[w], deal, order, shipment, reserved)
  BY <1>2 DEF LoneInv, Quiet
<1>6. \A u \in Workers \ {w} : job'[u].todo = <<>>
  BY <1>4, <1>5
<1>7. \/ Planned(job'[w], deal', order', shipment', reserved')
      \/ Pending(job'[w], deal', order', shipment', reserved')
  BY <1>5, StepPlan, PendingPlan
<1>8. job'[w].todo = <<>> => ~Pending(job'[w], deal', order', shipment', reserved')
  BY DEF Pending
<1>9. job'[w].todo = <<>> => Agrees(deal', order', shipment', reserved')
  BY <1>7, <1>8, DonePlan
<1> QED
  BY <1>6, <1>7, <1>9 DEF LoneInv, Quiet

-----------------------------------------------------------------------------
(* A request begins.  What the worker then has to do.                        *)
Opened(j, todo, d, o, dirty, row) ==
  /\ j.todo = todo /\ j.dirty = dirty /\ j.changed = Changed(row, o)
  /\ j.views["seen"].deal = d /\ j.views["seen"].order = o

LEMMA LoneBegins ==
  ASSUME TypeOK, NEW w \in Workers, NEW todo, NEW d, NEW o, NEW dirty,
         Begins(w, todo, d, o, dirty),
         \A j : Opened(j, todo, d, o, dirty, order) => Planned(j, deal, order, shipment, reserved)
  PROVE  LoneInv'
<1> DEFINE views == [x \in Slots |-> IF x = "seen" THEN [deal |-> d, order |-> o] ELSE Blank]
           j == [todo |-> todo, views |-> views, dirty |-> dirty, changed |-> Changed(order, o)]
<1>1. /\ alone' = \A v \in Workers \ {w} : Quiet(v)
      /\ job' = [job EXCEPT ![w] = j] /\ job \in [Workers -> Job]
      /\ UNCHANGED <<order, deal, shipment, reserved>>
  BY DEF Begins, TypeOK
<1>2. views["seen"].deal = d /\ views["seen"].order = o
  BY Words
<1> HIDE DEF views
<1>3. Opened(j, todo, d, o, dirty, order)
  BY <1>2 DEF Opened
<1> HIDE DEF j
<1>4. Planned(j, deal, order, shipment, reserved)
  BY <1>3
<1>5. job'[w] = j /\ \A u \in Workers \ {w} : job'[u] = job[u]
  BY <1>1
<1>6. Planned(job'[w], deal', order', shipment', reserved')
  BY <1>1, <1>4, <1>5
<1>7. job'[w].todo = <<>> => Agrees(deal', order', shipment', reserved')
  BY <1>6, DonePlan
<1> SUFFICES ASSUME alone' PROVE LoneInv'
  BY DEF LoneInv
<1>8. \A u \in Workers \ {w} : job'[u].todo = <<>>
  BY <1>1, <1>5 DEF Quiet
<1> QED
  BY <1>6, <1>7, <1>8 DEF LoneInv, Quiet

(* Saving the fields in which an instance differs makes the row equal to it. *)
LEMMA PutOthers ==
  ASSUME NEW d \in Deal, NEW n \in Deal, NEW F, \A f \in DealFields \ F : n[f] = d[f]
  PROVE  Put(d, F, n) = n
<1> DEFINE e == Put(d, F, n)
<1>1. e \in Deal
  BY PutType
<1>2. \A f \in DealFields : e[f] = n[f]
  BY PutField
<1> HIDE DEF e
<1>3. e = n
  BY <1>1, <1>2, SameDeal
<1> QED BY <1>3 DEF e

LEMMA PutOrder ==
  ASSUME NEW o \in Order, NEW n \in Order
  PROVE  Put(o, Changed(o, n), n) = n
BY SMTT(20) DEF Put, Changed, Order

(* The steps of a request, one by one.                                       *)
LEMMA Spelled ==
  /\ \A a \in Steps, x \in Slots : <<<<a, x>>>> = Then(a, x, <<>>)
  /\ \A a, b \in Steps, x, y \in Slots :
       <<<<a, x>>, <<b, y>>>> = Then(a, x, Then(b, y, <<>>))
  /\ \A a, b, c \in Steps, x, y, z \in Slots :
       <<<<a, x>>, <<b, y>>, <<c, z>>>> = Then(a, x, Then(b, y, Then(c, z, <<>>)))
<1> DEFINE S == Steps \X Slots
<1>1. \A a \in Steps, x \in Slots : <<a, x>> \in S
  OBVIOUS
<1> HIDE DEF S
<1>2. \A p \in S : <<p>> = <<p>> \o <<>>
  OBVIOUS
<1>3. \A p, q \in S : <<p, q>> = <<p>> \o <<q>>
  <2> TAKE p, q \in S
  <2>1. <<p, q>> = Append(<<p>>, q)
    OBVIOUS
  <2>2. <<p>> \o <<q>> = Append(<<p>>, q)
    OBVIOUS
  <2> QED BY <2>1, <2>2
<1>4. \A p, q, r \in S : <<p, q, r>> = <<p>> \o <<q, r>>
  OBVIOUS
<1>5. \A p, q \in S : <<p, q>> = <<p>> \o (<<q>> \o <<>>)
  BY <1>2, <1>3, Zenon
<1>6. \A p, q, r \in S : <<p, q, r>> = <<p>> \o (<<q>> \o (<<r>> \o <<>>))
  <2> TAKE p, q, r \in S
  <2>1. <<p, q, r>> = <<p>> \o <<q, r>>
    BY <1>4
  <2>2. <<q, r>> = <<q>> \o (<<r>> \o <<>>)
    BY <1>5
  <2> QED BY <2>1, <2>2, Zenon
<1>7. \A a \in Steps, x \in Slots : <<<<a, x>>>> = Then(a, x, <<>>)
  BY <1>1, <1>2, Zenon DEF Then
<1>8. \A a, b \in Steps, x, y \in Slots :
        <<<<a, x>>, <<b, y>>>> = Then(a, x, Then(b, y, <<>>))
  <2> TAKE a, b \in Steps, x, y \in Slots
  <2>1. <<a, x>> \in S /\ <<b, y>> \in S
    BY <1>1
  <2>2. <<<<a, x>>, <<b, y>>>> = <<<<a, x>>>> \o (<<<<b, y>>>> \o <<>>)
    BY <1>5, <2>1, Zenon
  <2> QED BY <2>2, Zenon DEF Then
<1>9. \A a, b, c \in Steps, x, y, z \in Slots :
        <<<<a, x>>, <<b, y>>, <<c, z>>>> = Then(a, x, Then(b, y, Then(c, z, <<>>)))
  <2> TAKE a, b, c \in Steps, x, y, z \in Slots
  <2>1. <<a, x>> \in S /\ <<b, y>> \in S /\ <<c, z>> \in S
    BY <1>1
  <2>2. <<<<a, x>>, <<b, y>>, <<c, z>>>>
          = <<<<a, x>>>> \o (<<<<b, y>>>> \o (<<<<c, z>>>> \o <<>>))
    BY <1>6, <2>1, Zenon
  <2> QED BY <2>2, Zenon DEF Then
<1> QED BY <1>7, <1>8, <1>9

LEMMA SpelledSync ==
  /\ <<<<"recompute", "copy">>>> = Then("recompute", "copy", <<>>)
  /\ <<<<"recompute", "seen">>>> = Then("recompute", "seen", <<>>)
  /\ <<<<"refresh", "seen">>, <<"recompute", "seen">>>>
       = Then("refresh", "seen", Then("recompute", "seen", <<>>))
  /\ <<<<"load", "copy">>, <<"ensure", "copy">>, <<"recompute", "copy">>>>
       = Then("load", "copy", Then("ensure", "copy", Then("recompute", "copy", <<>>)))
  /\ <<<<"autodispatch", "late">>, <<"reload", "late">>, <<"recompute", "late">>>>
       = Then("autodispatch", "late", Then("reload", "late", Then("recompute", "late", <<>>)))
<1>1. /\ <<<<"recompute", "copy">>>> = Then("recompute", "copy", <<>>)
      /\ <<<<"recompute", "seen">>>> = Then("recompute", "seen", <<>>)
  BY Spelled, Words, Zenon
<1>2. \A a, b \in Steps, x, y \in Slots :
        <<<<a, x>>, <<b, y>>>> = Then(a, x, Then(b, y, <<>>))
  BY Spelled
<1>3. \A a, b, c \in Steps, x, y, z \in Slots :
        <<<<a, x>>, <<b, y>>, <<c, z>>>> = Then(a, x, Then(b, y, Then(c, z, <<>>)))
  BY Spelled
<1>4. <<<<"refresh", "seen">>, <<"recompute", "seen">>>>
       = Then("refresh", "seen", Then("recompute", "seen", <<>>))
  <2>1. "refresh" \in Steps /\ "recompute" \in Steps /\ "seen" \in Slots
    BY Words
  <2> QED BY <1>2, <2>1, Zenon
<1>5. <<<<"load", "copy">>, <<"ensure", "copy">>, <<"recompute", "copy">>>>
       = Then("load", "copy", Then("ensure", "copy", Then("recompute", "copy", <<>>)))
  <2>1. "load" \in Steps /\ "ensure" \in Steps /\ "recompute" \in Steps /\ "copy" \in Slots
    BY Words
  <2> QED BY <1>3, <2>1, SMTT(30)
<1>6. <<<<"autodispatch", "late">>, <<"reload", "late">>, <<"recompute", "late">>>>
       = Then("autodispatch", "late", Then("reload", "late", Then("recompute", "late", <<>>)))
  <2>1. "autodispatch" \in Steps /\ "reload" \in Steps /\ "recompute" \in Steps /\ "late" \in Slots
    BY Words
  <2> QED BY <1>3, <2>1, SMTT(30)
<1> QED BY <1>1, <1>4, <1>5, <1>6

Join(s, t) == s \o t

LEMMA Joined ==
  ASSUME NEW s \in Todo, NEW t \in Todo, NEW u \in Todo
  PROVE  /\ Join(s, t) \in Todo /\ Join(Join(s, t), u) = Join(s, Join(t, u))
         /\ Join(<<>>, t) = t /\ Join(t, <<>>) = t
BY DEF Todo, Join

LEMMA ThenJoin ==
  ASSUME NEW a \in Steps, NEW x \in Slots, NEW t \in Todo, NEW u \in Todo
  PROVE  Join(Then(a, x, t), u) = Then(a, x, Join(t, u))
<1> DEFINE p == <<<<a, x>>>>
<1>1. p \in Todo
  BY DEF Todo
<1>2. \A s : Then(a, x, s) = Join(p, s)
  BY DEF Then, Join
<1> HIDE DEF p
<1> QED BY <1>1, <1>2, Joined

LEMMA ThenJoinOnce ==
  ASSUME NEW a \in Steps, NEW x \in Slots, NEW t \in Todo, NEW u \in Todo
  PROVE  /\ Join(Then(a, x, <<>>), u) = Then(a, x, u)
         /\ Join(Join(Then(a, x, <<>>), t), u) = Then(a, x, Join(t, u))
<1>1. <<>> \in Todo /\ Join(t, u) \in Todo /\ Then(a, x, <<>>) \in Todo
  BY NoNeeds, Joined, ThenFacts
<1>2. \A v \in Todo : Join(Then(a, x, <<>>), v) = Then(a, x, v)
  BY <1>1, Joined, ThenJoin
<1> QED BY <1>1, <1>2, Joined

LEMMA ThenJoinTwice ==
  ASSUME NEW a \in Steps, NEW b \in Steps, NEW x \in Slots, NEW y \in Slots, NEW u \in Todo
  PROVE  Join(Then(a, x, Then(b, y, <<>>)), u) = Then(a, x, Then(b, y, u))
<1>1. Then(b, y, <<>>) \in Todo /\ Join(Then(b, y, <<>>), u) = Then(b, y, u)
  BY NoNeeds, ThenFacts, ThenJoinOnce
<1> QED BY <1>1, ThenJoin

LEMMA ThenJoinDeep ==
  ASSUME NEW a \in Steps, NEW b \in Steps, NEW x \in Slots, NEW y \in Slots,
         NEW t \in Todo, NEW u \in Todo
  PROVE  Join(Then(a, x, Then(b, y, t)), u) = Then(a, x, Then(b, y, Join(t, u)))
<1>1. Then(b, y, t) \in Todo /\ Join(Then(b, y, t), u) = Then(b, y, Join(t, u))
  BY ThenFacts, ThenJoin
<1> QED BY <1>1, ThenJoin

(* sync_order_workflow_state, alone or before the form computes once more.   *)
LEMMA SyncSpelled ==
  ASSUME NEW o
  PROVE  /\ SyncSteps(o) \in Todo
         /\ \E m \in Ends \cup Middles : SyncSteps(o) = Loads(m)
         /\ \E m \in Ends \cup Middles : SyncSteps(o) \o <<<<"recompute", "seen">>>> = Loads(m)
<1> DEFINE go   == <<<<"autodispatch", "late">>, <<"reload", "late">>, <<"recompute", "late">>>>
           sent == IF o.status = order.status THEN <<>> ELSE go
           send == <<<<"refresh", "seen">>, <<"recompute", "seen">>>>
           mid  == IF o.status \notin {"shipping", "done"} THEN <<>> ELSE Join(send, sent)
           load == <<<<"load", "copy">>, <<"ensure", "copy">>, <<"recompute", "copy">>>>
           last == <<<<"recompute", "copy">>>>
           more == <<<<"recompute", "seen">>>>
           long == Then("recompute", "copy", Then("recompute", "seen", <<>>))
<1>1. SyncSteps(o) = Join(Join(load, mid), last)
  BY DEF SyncSteps, Join
<1>2. /\ go = Going(<<>>) /\ send = Shipping(<<>>) /\ load = Loads(<<>>)
      /\ last = Then("recompute", "copy", <<>>) /\ more = Then("recompute", "seen", <<>>)
  BY SpelledSync, Zenon DEF Going, Told, Shipping, Loads, Ensured
<1> HIDE DEF go, send, load, last, more
<1>3. /\ go \in Todo /\ send \in Todo /\ load \in Todo /\ last \in Todo /\ more \in Todo
      /\ <<>> \in Todo
  BY <1>2, Shapes, Parts, Words, ThenFacts
<1>4. ASSUME NEW t \in Todo
      PROVE  /\ Join(<<>>, t) = t /\ Join(go, t) = Going(t) /\ Join(send, t) = Shipping(t)
             /\ Join(load, t) = Loads(t)
  <2>1. Join(<<>>, t) = t
    BY Joined
  <2>2. \A a, b \in Steps, x, y \in Slots :
          Join(Then(a, x, Then(b, y, <<>>)), t) = Then(a, x, Then(b, y, t))
    BY ThenJoinTwice
  <2>3. ASSUME NEW a \in Steps, NEW b \in Steps, NEW c \in Steps,
               NEW x \in Slots, NEW y \in Slots, NEW z \in Slots
        PROVE  Join(Then(a, x, Then(b, y, Then(c, z, <<>>))), t)
                 = Then(a, x, Then(b, y, Then(c, z, t)))
    <3>1. Then(c, z, <<>>) \in Todo /\ Join(Then(c, z, <<>>), t) = Then(c, z, t)
      BY <1>3, ThenFacts, ThenJoinOnce
    <3> QED BY <3>1, ThenJoinDeep
  <2>4. Join(go, t) = Going(t) /\ Join(send, t) = Shipping(t) /\ Join(load, t) = Loads(t)
    <3>1. Join(send, t) = Shipping(t)
      <4>1. Join(Then("refresh", "seen", Then("recompute", "seen", <<>>)), t)
              = Then("refresh", "seen", Then("recompute", "seen", t))
        BY <2>2, Words, SMTT(20)
      <4> QED BY <1>2, <4>1, Zenon DEF Shipping
    <3>2. Join(go, t) = Going(t)
      <4>1. Join(Then("autodispatch", "late", Then("reload", "late", Then("recompute", "late", <<>>))), t)
              = Then("autodispatch", "late", Then("reload", "late", Then("recompute", "late", t)))
        BY <2>3, Words, SMTT(20)
      <4> QED BY <1>2, <4>1, Zenon DEF Going, Told
    <3>3. Join(load, t) = Loads(t)
      <4>1. Join(Then("load", "copy", Then("ensure", "copy", Then("recompute", "copy", <<>>))), t)
              = Then("load", "copy", Then("ensure", "copy", Then("recompute", "copy", t)))
        BY <2>3, Words, SMTT(20)
      <4> QED BY <1>2, <4>1, Zenon DEF Loads, Ensured
    <3> QED BY <3>1, <3>2, <3>3
  <2> QED BY <2>1, <2>4
<1>5. Join(last, more) = long /\ last \in Ends /\ long \in Ends /\ long \in Todo
  <2>1. Join(last, more) = long
    BY <1>2, <1>3, <1>4, Words, ThenJoin
  <2>2. last \in Ends /\ long \in Ends
    BY <1>2 DEF Ends
  <2> QED BY <2>1, <2>2, EndFacts
<1> HIDE DEF long
<1>6. ASSUME NEW t \in Ends
      PROVE  mid \in Todo /\ Join(mid, t) \in Ends \cup Middles
  <2>1. t \in Todo
    BY EndFacts
  <2>2. CASE o.status \notin {"shipping", "done"}
    BY <1>3, <1>4, <2>1, <2>2
  <2>3. CASE o.status \in {"shipping", "done"}
    <3>1. sent \in Todo /\ (Join(sent, t) = t \/ Join(sent, t) = Going(t))
      BY <1>3, <1>4, <2>1
    <3> HIDE DEF sent
    <3>2. mid = Join(send, sent)
      BY <2>3
    <3>3. mid \in Todo /\ Join(mid, t) = Join(send, Join(sent, t))
      BY <1>3, <2>1, <3>1, <3>2, Joined
    <3>4. Join(send, t) = Shipping(t) /\ Join(send, Going(t)) = Shipping(Going(t))
      BY <1>4, <2>1, Shapes
    <3>5. Join(mid, t) \in Middles
      BY <3>1, <3>3, <3>4 DEF Middles
    <3> QED BY <3>3, <3>5
  <2> QED BY <2>2, <2>3
<1> HIDE DEF mid
<1>7. ASSUME NEW t \in Ends
      PROVE  \E m \in Ends \cup Middles : Join(Join(load, mid), t) = Loads(m)
  <2>1. t \in Todo /\ mid \in Todo /\ Join(mid, t) \in Ends \cup Middles
    BY <1>6, EndFacts
  <2>2. Join(Join(load, mid), t) = Join(load, Join(mid, t))
    BY <1>3, <2>1, Joined
  <2>3. Join(mid, t) \in Todo
    BY <2>1, Parts
  <2> QED BY <1>4, <2>1, <2>2, <2>3
<1>8. \E m \in Ends \cup Middles : SyncSteps(o) = Loads(m)
  BY <1>1, <1>5, <1>7
<1>9. Join(SyncSteps(o), more) = Join(Join(load, mid), long)
  <2>1. mid \in Todo /\ Join(load, mid) \in Todo
    BY <1>3, <1>5, <1>6, Joined
  <2> QED BY <1>1, <1>3, <1>5, <2>1, Joined
<1>10. \E m \in Ends \cup Middles : Join(SyncSteps(o), more) = Loads(m)
  BY <1>5, <1>7, <1>9
<1>11. SyncSteps(o) \in Todo
  BY <1>8, Parts
<1> QED
  BY <1>8, <1>10, <1>11 DEF more, Join

LEMMA SpelledRequests ==
  /\ <<<<"recompute", "seen">>>> = Then("recompute", "seen", <<>>)
  /\ <<<<"saveDeal", "seen">>>> = Then("saveDeal", "seen", <<>>)
  /\ <<<<"saveDeal", "seen">>, <<"recompute", "seen">>>>
       = Then("saveDeal", "seen", Then("recompute", "seen", <<>>))
  /\ <<<<"saveOrder", "seen">>, <<"effects", "seen">>>>
       = Then("saveOrder", "seen", Then("effects", "seen", <<>>))
  /\ <<<<"saveOrder", "seen">>, <<"saveDeal", "seen">>, <<"recompute", "seen">>>>
       = Then("saveOrder", "seen", Then("saveDeal", "seen", Then("recompute", "seen", <<>>)))
  /\ <<<<"saveOrder", "seen">>, <<"attach", "seen">>, <<"effects", "seen">>>>
       = Then("saveOrder", "seen", Then("attach", "seen", Then("effects", "seen", <<>>)))
  /\ <<<<"saveDeal", "seen">>, <<"recompute", "seen">>, <<"recompute", "seen">>>>
       = Then("saveDeal", "seen", Twice)
  /\ <<<<"reload", "late">>, <<"refresh", "late">>, <<"recompute", "late">>>>
       = Then("reload", "late", Late)
  /\ \A do \in Steps : <<<<do, "seen">>, <<"reload", "late">>, <<"recompute", "late">>>>
                         = Then(do, "seen", Told(<<>>))
<1>1. \A a, b \in Steps, x, y \in Slots :
        <<<<a, x>>, <<b, y>>>> = Then(a, x, Then(b, y, <<>>))
  BY Spelled
<1>2. \A a, b, c \in Steps, x, y, z \in Slots :
        <<<<a, x>>, <<b, y>>, <<c, z>>>> = Then(a, x, Then(b, y, Then(c, z, <<>>)))
  BY Spelled
<1>3. /\ "saveOrder" \in Steps /\ "saveDeal" \in Steps /\ "recompute" \in Steps
      /\ "effects" \in Steps /\ "attach" \in Steps /\ "seen" \in Slots
  BY Words
<1>4. /\ <<<<"recompute", "seen">>>> = Then("recompute", "seen", <<>>)
      /\ <<<<"saveDeal", "seen">>>> = Then("saveDeal", "seen", <<>>)
  BY <1>3, Spelled, Zenon
<1>5. <<<<"saveDeal", "seen">>, <<"recompute", "seen">>>>
       = Then("saveDeal", "seen", Then("recompute", "seen", <<>>))
  BY <1>1, <1>3, SMTT(30)
<1>6. <<<<"saveOrder", "seen">>, <<"effects", "seen">>>>
       = Then("saveOrder", "seen", Then("effects", "seen", <<>>))
  BY <1>1, <1>3, SMTT(30)
<1>7. <<<<"saveOrder", "seen">>, <<"saveDeal", "seen">>, <<"recompute", "seen">>>>
       = Then("saveOrder", "seen", Then("saveDeal", "seen", Then("recompute", "seen", <<>>)))
  BY <1>2, <1>3, SMTT(30)
<1>8. <<<<"saveOrder", "seen">>, <<"attach", "seen">>, <<"effects", "seen">>>>
       = Then("saveOrder", "seen", Then("attach", "seen", Then("effects", "seen", <<>>)))
  BY <1>2, <1>3, SMTT(30)
<1>9. <<<<"saveDeal", "seen">>, <<"recompute", "seen">>, <<"recompute", "seen">>>>
       = Then("saveDeal", "seen", Twice)
  BY <1>2, <1>3, SMTT(30) DEF Twice
<1>10. <<<<"reload", "late">>, <<"refresh", "late">>, <<"recompute", "late">>>>
        = Then("reload", "late", Late)
  <2>1. "reload" \in Steps /\ "refresh" \in Steps /\ "recompute" \in Steps /\ "late" \in Slots
    BY Words
  <2> QED BY <1>2, <2>1, SMTT(30) DEF Late
<1>11. \A do \in Steps : <<<<do, "seen">>, <<"reload", "late">>, <<"recompute", "late">>>>
                          = Then(do, "seen", Told(<<>>))
  <2>1. "reload" \in Steps /\ "recompute" \in Steps /\ "late" \in Slots
    BY Words
  <2> QED BY <1>2, <1>3, <2>1, SMTT(30) DEF Told
<1> QED BY <1>4, <1>5, <1>6, <1>7, <1>8, <1>9, <1>10, <1>11

LEMMA SpelledReserve ==
  <<<<"reserve", "seen">>, <<"recompute", "seen">>, <<"refresh", "seen">>,
    <<"recompute", "seen">>, <<"recompute", "seen">>>>
  = Then("reserve", "seen", Then("recompute", "seen", Last))
<1>1. <<<<"reserve", "seen">>, <<"recompute", "seen">>>>
        = Then("reserve", "seen", Then("recompute", "seen", <<>>))
  <2>1. "reserve" \in Steps /\ "recompute" \in Steps /\ "seen" \in Slots
    BY Words
  <2> QED BY <2>1, Spelled, SMTT(30)
<1>2. <<<<"refresh", "seen">>, <<"recompute", "seen">>, <<"recompute", "seen">>>> = Last
  <2>1. "refresh" \in Steps /\ "recompute" \in Steps /\ "seen" \in Slots
    BY Words
  <2> QED BY <2>1, Spelled, SMTT(30) DEF Last, Twice
<1>3. <<<<"reserve", "seen">>, <<"recompute", "seen">>, <<"refresh", "seen">>,
        <<"recompute", "seen">>, <<"recompute", "seen">>>>
      = Join(<<<<"reserve", "seen">>, <<"recompute", "seen">>>>,
             <<<<"refresh", "seen">>, <<"recompute", "seen">>, <<"recompute", "seen">>>>)
  BY DEF Join
<1>4. Join(Then("reserve", "seen", Then("recompute", "seen", <<>>)), Last)
        = Then("reserve", "seen", Then("recompute", "seen", Last))
  <2>1. Join(Then("recompute", "seen", <<>>), Last) = Then("recompute", "seen", Join(<<>>, Last))
    BY Words, Parts, ThenJoin
  <2>2. Join(<<>>, Last) = Last
    BY Parts, Joined
  <2>3. Join(Then("reserve", "seen", Then("recompute", "seen", <<>>)), Last)
          = Then("reserve", "seen", Join(Then("recompute", "seen", <<>>), Last))
    BY Words, Parts, ThenJoin
  <2> QED BY <2>1, <2>2, <2>3
<1> QED BY <1>1, <1>2, <1>3, <1>4, Zenon

(* Requests that save the order and then sync: AdminChange, StateForm.       *)
LEMMA SyncPlanned ==
  ASSUME NEW m \in Ends \cup Middles, NEW j, NEW d, NEW o, NEW row, NEW s, NEW r, NEW u,
         row \in Order, o \in Order, u.avito = d.avito,
         \/ j.todo = Then("saveOrder", "seen", Then("attach", "seen", Acts(m)))
         \/ j.todo = Then("saveDeal", "seen", Then("saveOrder", "seen", Acts(m))),
         j.changed = Changed(row, o), j.views["seen"].deal = u, j.views["seen"].order = o
  PROVE  Planned(j, d, row, s, r)
<1>1. Put(row, j.changed, o) = o
  BY PutOrder
<1>2. Saving(j, j.todo, j.views["seen"], d, row)
  BY <1>1 DEF Saving
<1> QED BY <1>2 DEF Planned

(* Requests that save the deal and compute it.                               *)
LEMMA SavePlanned ==
  ASSUME NEW j, NEW d, NEW o, NEW s, NEW r, NEW u, NEW F,
         \/ j.todo = Then("saveDeal", "seen", Then("recompute", "seen", <<>>))
         \/ j.todo = Then("saveDeal", "seen", Twice),
         j.dirty = F, Put(d, F, u) = u, j.views["seen"].deal = u, j.views["seen"].order = o
  PROVE  Planned(j, d, o, s, r)
<1>1. Saving(j, j.todo, j.views["seen"], d, o)
  BY DEF Saving
<1> QED BY <1>1 DEF Planned

LEMMA MoveBegins ==
  ASSUME TypeOK, NEW w \in Workers, Move(w)
  PROVE  LoneInv'
<1> DEFINE todo == <<<<"saveOrder", "seen">>, <<"saveDeal", "seen">>, <<"recompute", "seen">>>>
<1>1. PICK c \in Cases :
        LET d == [deal EXCEPT !.case = c]
        IN  Begins(w, todo, d, [order EXCEPT !.status = OrderStatusOf(c)], Changed(deal, d))
  BY DEF Move
<1> DEFINE d == [deal EXCEPT !.case = c]
           o == [order EXCEPT !.status = OrderStatusOf(c)]
<1>2. deal \in Deal /\ order \in Order
  BY DEF TypeOK
<1>3. d \in Deal
  BY <1>2, DealAssumption, SMTT(20) DEF Deal
<1>4. OrderStatusOf(c) \in OrderStatuses
  BY DEF OrderStatusOf, OrderStatuses
<1>5. o \in Order
  BY <1>2, <1>4, SMTT(20) DEF Order
<1>6. Begins(w, todo, d, o, Changed(deal, d))
  BY <1>1
<1>7. todo = Then("saveOrder", "seen", Then("saveDeal", "seen", Then("recompute", "seen", <<>>)))
  BY SpelledRequests
<1> HIDE DEF d, o, todo
<1>8. Put(order, Changed(order, o), o) = o /\ Put(deal, Changed(deal, d), d) = d
  BY <1>2, <1>3, <1>5, PutOrder, PutSame
<1>9. ASSUME NEW j, Opened(j, todo, d, o, Changed(deal, d), order)
      PROVE  Planned(j, deal, order, shipment, reserved)
  <2>1. Saving(j, j.todo, j.views["seen"], deal, order)
    BY <1>7, <1>8, <1>9 DEF Opened, Saving
  <2> QED BY <2>1 DEF Planned
<1> QED BY <1>6, <1>9, LoneBegins

LEMMA StateFormBegins ==
  ASSUME TypeOK, NEW w \in Workers, StateForm(w)
  PROVE  LoneInv'
<1> DEFINE F == {"status", "prepaid", "tracked"}
<1>1. PICK f \in Forms :
        LET o == [status |-> OrderStatusOfForm(f.status), pay |-> f.pay]
            d == [deal EXCEPT !.status = f.status, !.prepaid = f.prepaid, !.tracked = f.tracked]
        IN  Begins(w, <<<<"saveDeal", "seen">>>>
                   \o (IF o = order THEN <<>>
                       ELSE <<<<"saveOrder", "seen">>, <<"effects", "seen">>>> \o SyncSteps(o))
                   \o <<<<"recompute", "seen">>>>,
                d, o, F)
  BY DEF StateForm
<1> DEFINE o == [status |-> OrderStatusOfForm(f.status), pay |-> f.pay]
           d1 == [deal EXCEPT !.status = f.status]
           d2 == [d1 EXCEPT !.prepaid = f.prepaid]
           d == [d2 EXCEPT !.tracked = f.tracked]
           acts == Join(<<<<"saveOrder", "seen">>, <<"effects", "seen">>>>, SyncSteps(o))
           mid == IF o = order THEN <<>> ELSE acts
           todo == Join(Join(<<<<"saveDeal", "seen">>>>, mid), <<<<"recompute", "seen">>>>)
<1>2. /\ deal \in Deal /\ order \in Order
      /\ f.status \in DealStatuses /\ f.pay \in PayStatuses
      /\ f.prepaid \in BOOLEAN /\ f.tracked \in BOOLEAN
  BY DealAssumption DEF TypeOK
<1>3. o \in Order
  BY <1>2 DEF Order, OrderStatusOfForm, OrderStatuses
<1>4. [deal EXCEPT !.status = f.status, !.prepaid = f.prepaid, !.tracked = f.tracked] = d
  BY Zenon
<1>5. Begins(w, todo, d, o, F)
  BY <1>1, <1>4 DEF Join
<1>6. d1 \in Deal /\ \A g \in DealFields \ F : d1[g] = deal[g]
  BY <1>2, DealField, SMTT(20) DEF Deal
<1> HIDE DEF d1
<1>7. d2 \in Deal /\ \A g \in DealFields \ F : d2[g] = deal[g]
  BY <1>2, <1>6, DealField, SMTT(20) DEF Deal
<1> HIDE DEF d2
<1>8. d \in Deal /\ \A g \in DealFields \ F : d[g] = deal[g]
  BY <1>2, <1>7, DealField, SMTT(20) DEF Deal
<1> HIDE DEF d, o, acts
<1>9. d.avito = deal.avito /\ Put(deal, F, d) = d
  BY <1>2, <1>8, DealField, PutOthers
<1>10. CASE o = order
  <2>1. todo = Then("saveDeal", "seen", Then("recompute", "seen", <<>>))
    <3>1. mid = <<>>
      BY <1>10
    <3>2. todo = Join(Join(Then("saveDeal", "seen", <<>>), <<>>), Then("recompute", "seen", <<>>))
      BY <3>1, SpelledRequests
    <3>3. Then("saveDeal", "seen", <<>>) \in Todo
      BY Parts, Words, ThenFacts
    <3> QED BY <3>2, <3>3, Parts, Words, Joined, ThenJoin
  <2> HIDE DEF todo, F
  <2>2. ASSUME NEW j, Opened(j, todo, d, o, F, order)
        PROVE  Planned(j, deal, order, shipment, reserved)
    BY <1>9, <1>10, <2>1, <2>2, SavePlanned DEF Opened
  <2> QED BY <1>5, <2>2, LoneBegins
<1>11. CASE o # order
  <2> DEFINE more == Then("recompute", "seen", <<>>)
  <2>1. PICK m \in Ends \cup Middles : Join(SyncSteps(o), more) = Loads(m)
    BY SyncSpelled, SpelledRequests DEF Join
  <2>2. SyncSteps(o) \in Todo /\ more \in Todo
    BY SyncSpelled, Parts
  <2>3. acts = Join(Then("saveOrder", "seen", Then("effects", "seen", <<>>)), SyncSteps(o))
    BY SpelledRequests DEF acts
  <2>4. todo = Join(Join(Then("saveDeal", "seen", <<>>), acts), more)
    BY <1>11, SpelledRequests
  <2> HIDE DEF more, todo, mid, F
  <2>5. acts = Then("saveOrder", "seen", Then("effects", "seen", SyncSteps(o)))
    BY <2>2, <2>3, ThenJoinTwice, Words
  <2>6. Join(acts, more) = Then("saveOrder", "seen", Then("effects", "seen", Loads(m)))
    BY <2>1, <2>2, <2>5, ThenJoinDeep, Words
  <2>7. acts \in Todo /\ Then("saveDeal", "seen", <<>>) \in Todo
    BY <2>2, <2>5, Parts, Words, ThenFacts
  <2>8. todo = Then("saveDeal", "seen", Join(acts, more))
    BY <2>2, <2>4, <2>7, ThenJoinOnce, Words
  <2>9. todo = Then("saveDeal", "seen", Then("saveOrder", "seen", Acts(m)))
    BY <2>6, <2>8 DEF Acts
  <2>10. ASSUME NEW j, Opened(j, todo, d, o, F, order)
         PROVE  Planned(j, deal, order, shipment, reserved)
    BY <1>2, <1>3, <1>9, <2>9, <2>10, SyncPlanned DEF Opened
  <2> QED BY <1>5, <2>10, LoneBegins
<1> QED BY <1>10, <1>11

LEMMA AdminChangeBegins ==
  ASSUME TypeOK, NEW w \in Workers, AdminChange(w)
  PROVE  LoneInv'
<1>1. PICK o \in {[order EXCEPT !.status = x] : x \in OrderTargets}
                 \cup {[order EXCEPT !.pay = p] : p \in PayTargets} :
        Begins(w, <<<<"saveOrder", "seen">>, <<"attach", "seen">>, <<"effects", "seen">>>>
                  \o SyncSteps(o), deal, o, {})
  BY DEF AdminChange
<1> DEFINE todo == Join(<<<<"saveOrder", "seen">>, <<"attach", "seen">>, <<"effects", "seen">>>>,
                        SyncSteps(o))
<1>2. order \in Order
  BY DEF TypeOK
<1>3. /\ \A x \in OrderTargets : [order EXCEPT !.status = x] \in Order
      /\ \A p \in PayTargets : [order EXCEPT !.pay = p] \in Order
  BY <1>2, DealAssumption, SMTT(20) DEF Order
<1>4. o \in Order
  BY <1>3
<1>5. PICK m \in Ends \cup Middles : SyncSteps(o) = Loads(m)
  BY SyncSpelled
<1>6. todo = Then("saveOrder", "seen", Then("attach", "seen", Acts(m)))
  <2>1. todo = Join(Then("saveOrder", "seen", Then("attach", "seen", Then("effects", "seen", <<>>))),
                    SyncSteps(o))
    BY SpelledRequests
  <2>2. Then("effects", "seen", <<>>) \in Todo /\ SyncSteps(o) \in Todo
    BY NoNeeds, Words, ThenFacts, SyncSpelled
  <2>3. Join(Then("effects", "seen", <<>>), SyncSteps(o)) = Then("effects", "seen", SyncSteps(o))
    BY <2>2, Words, ThenJoinOnce
  <2> HIDE DEF todo
  <2>4. todo = Then("saveOrder", "seen", Then("attach", "seen", Then("effects", "seen", SyncSteps(o))))
    BY <2>1, <2>2, <2>3, Words, ThenJoinDeep
  <2> QED BY <1>5, <2>4 DEF Acts
<1>7. Begins(w, todo, deal, o, {})
  BY <1>1 DEF Join
<1> HIDE DEF todo
<1>8. ASSUME NEW j, Opened(j, todo, deal, o, {}, order)
      PROVE  Planned(j, deal, order, shipment, reserved)
  BY <1>2, <1>4, <1>6, <1>8, SyncPlanned DEF Opened
<1> QED BY <1>7, <1>8, LoneBegins

LEMMA OtherFields ==
  ASSUME NEW d \in Deal, NEW x
  PROVE  /\ \A g \in DealFields \ {"step"} : [d EXCEPT !.step = x][g] = d[g]
         /\ \A g \in DealFields \ {"returned"} : [d EXCEPT !.returned = x][g] = d[g]
BY DealField

LEMMA ManualField ==
  ASSUME NEW d \in Deal, NEW x \in BOOLEAN, NEW e, e = [d EXCEPT !.manual = x]
  PROVE  e \in Deal /\ e.manual = x /\ \A g \in DealFields \ {"manual"} : e[g] = d[g]
<1>1. e \in Deal
  BY FlagType
<1>2. e.manual = x
  BY DealField DEF DealFields
<1>3. \A g \in DealFields \ {"manual"} : e[g] = d[g]
  BY DealField
<1> QED BY <1>1, <1>2, <1>3

LEMMA OverrideBegins ==
  ASSUME TypeOK, NEW w \in Workers, Override(w)
  PROVE  LoneInv'
<1> DEFINE todo == <<<<"saveDeal", "seen">>, <<"recompute", "seen">>, <<"recompute", "seen">>>>
<1>1. PICK d \in {[deal EXCEPT !.step = c, !.manual = TRUE] : c \in NextSteps}
                 \cup {[deal EXCEPT !.manual = FALSE]} :
        Begins(w, todo, d, order, IF d.manual THEN {"step", "manual"} ELSE {"manual"})
  BY DEF Override
<1>2. deal \in Deal
  BY DEF TypeOK
<1>3. PICK F : /\ F = IF d.manual THEN {"step", "manual"} ELSE {"manual"}
               /\ d \in Deal /\ \A g \in DealFields \ F : d[g] = deal[g]
  <2>1. CASE d = [deal EXCEPT !.manual = FALSE]
    <3>1. PICK b \in BOOLEAN : b = FALSE
      OBVIOUS
    <3>2. d = [deal EXCEPT !.manual = b]
      BY <2>1, <3>1, Zenon
    <3>3. /\ d \in Deal /\ d.manual = b
          /\ \A g \in DealFields \ {"manual"} : d[g] = deal[g]
      BY <1>2, <3>2, ManualField, DealField
    <3> QED BY <3>1, <3>3
  <2>2. CASE \E c \in NextSteps : d = [deal EXCEPT !.step = c, !.manual = TRUE]
    <3>1. PICK c \in NextSteps : d = [deal EXCEPT !.step = c, !.manual = TRUE]
      BY <2>2
    <3> DEFINE e == [deal EXCEPT !.step = c]
    <3>2. e \in Deal /\ \A g \in DealFields \ {"step"} : e[g] = deal[g]
      <4>1. e \in Deal
        BY <1>2, DealAssumption, CodeType
      <4> QED BY <1>2, <4>1, OtherFields, Zenon
    <3>3. d = [e EXCEPT !.manual = TRUE]
      BY <3>1, Zenon
    <3> HIDE DEF e
    <3>4. d \in Deal /\ d.manual = TRUE /\ \A g \in DealFields \ {"manual"} : d[g] = e[g]
      <4>1. PICK b \in BOOLEAN : b = TRUE
        OBVIOUS
      <4>2. d = [e EXCEPT !.manual = b]
        BY <3>3, <4>1, Zenon
      <4>3. d \in Deal /\ d.manual = b /\ \A g \in DealFields \ {"manual"} : d[g] = e[g]
        <5>1. d \in Deal
          BY <3>2, <4>2, ManualField
        <5>2. d.manual = b
          BY <3>2, <4>2, ManualField
        <5>3. \A g \in DealFields \ {"manual"} : d[g] = e[g]
          BY <3>2, <4>2, DealField
        <5> QED BY <5>1, <5>2, <5>3
      <4> QED BY <4>1, <4>3
    <3>5. \A g \in DealFields \ {"step", "manual"} : d[g] = deal[g]
      BY <3>2, <3>4
    <3> QED BY <3>4, <3>5
  <2> QED BY <2>1, <2>2
<1>4. Begins(w, todo, d, order, F)
  BY <1>1, <1>3
<1>5. todo = Then("saveDeal", "seen", Twice)
  BY SpelledRequests
<1>6. Put(deal, F, d) = d
  BY <1>2, <1>3, PutOthers
<1> HIDE DEF todo
<1>7. ASSUME NEW j, Opened(j, todo, d, order, F, order)
      PROVE  Planned(j, deal, order, shipment, reserved)
  BY <1>5, <1>6, <1>7, SavePlanned DEF Opened
<1> QED BY <1>4, <1>7, LoneBegins

LEMMA TouchBegins ==
  ASSUME TypeOK, NEW w \in Workers, Touch(w)
  PROVE  LoneInv'
<1> DEFINE todo == <<<<"recompute", "seen">>>>
           t == Then("recompute", "seen", <<>>)
<1>1. Begins(w, todo, deal, order, {}) /\ todo = t
  BY SpelledRequests DEF Touch
<1>2. Computes(t) /\ Needs(t, "seen") /\ \A y \in Slots : Needs(t, y) => y = "seen"
  BY SeenFacts
<1> HIDE DEF todo, t
<1>3. ASSUME NEW j, Opened(j, todo, deal, order, {}, order)
      PROVE  Planned(j, deal, order, shipment, reserved)
  <2>1. j.todo = t /\ Same(j.views["seen"], deal, order)
    BY <1>1, <1>3 DEF Opened, Same
  <2>2. Fits(j.views["seen"], deal, order, shipment, reserved) /\ Kin(j.views["seen"], deal, order)
    BY <2>1, SameFits
  <2>3. Computing(j.todo, j.views, deal, order, shipment, reserved)
    BY <1>2, <2>1, <2>2, Words DEF Computing
  <2> QED BY <2>3 DEF Planned
<1> QED BY <1>1, <1>3, LoneBegins

LEMMA PrepareShipmentBegins ==
  ASSUME TypeOK, NEW w \in Workers, PrepareShipment(w)
  PROVE  LoneInv'
<1>1. CASE Live(shipment)
  <2> DEFINE todo == <<<<"reload", "late">>, <<"refresh", "late">>, <<"recompute", "late">>>>
  <2>1. Begins(w, todo, deal, order, {}) /\ todo = Then("reload", "late", Late)
    BY <1>1, SpelledRequests DEF PrepareShipment
  <2> HIDE DEF todo
  <2>2. ASSUME NEW j, Opened(j, todo, deal, order, {}, order)
        PROVE  Planned(j, deal, order, shipment, reserved)
    BY <2>1, <2>2 DEF Opened, Telling, Planned
  <2> QED BY <2>1, <2>2, LoneBegins
<1>2. CASE ~Live(shipment)
  <2> DEFINE todo == <<<<"reserve", "seen">>, <<"recompute", "seen">>, <<"refresh", "seen">>,
                       <<"recompute", "seen">>, <<"recompute", "seen">>>>
  <2>1. /\ Begins(w, todo, deal, order, {})
        /\ todo = Then("reserve", "seen", Then("recompute", "seen", Last))
    BY <1>2, SpelledReserve DEF PrepareShipment
  <2> HIDE DEF todo
  <2>2. ASSUME NEW j, Opened(j, todo, deal, order, {}, order)
        PROVE  Planned(j, deal, order, shipment, reserved)
    <3>1. Preparing(j.todo, j.views, deal, order)
      BY <2>1, <2>2 DEF Opened, Preparing, Same
    <3> QED BY <3>1 DEF Planned
  <2> QED BY <2>1, <2>2, LoneBegins
<1> QED BY <1>1, <1>2

LEMMA ReturnGoodsBegins ==
  ASSUME TypeOK, NEW w \in Workers, ReturnGoods(w)
  PROVE  LoneInv'
<1> DEFINE todo == <<<<"saveDeal", "seen">>, <<"recompute", "seen">>>>
           d == [deal EXCEPT !.returned = TRUE]
<1>1. /\ Begins(w, todo, d, order, {"returned"})
      /\ todo = Then("saveDeal", "seen", Then("recompute", "seen", <<>>))
  BY SpelledRequests DEF ReturnGoods
<1>2. deal \in Deal
  BY DEF TypeOK
<1>3. d \in Deal /\ \A g \in DealFields \ {"returned"} : d[g] = deal[g]
  BY <1>2, FlagType, OtherFields
<1> HIDE DEF todo, d
<1>4. Put(deal, {"returned"}, d) = d
  BY <1>2, <1>3, PutOthers
<1>5. ASSUME NEW j, Opened(j, todo, d, order, {"returned"}, order)
      PROVE  Planned(j, deal, order, shipment, reserved)
  BY <1>1, <1>4, <1>5, SavePlanned DEF Opened
<1> QED BY <1>1, <1>5, LoneBegins

LEMMA ShipmentEventBegins ==
  ASSUME TypeOK, NEW w \in Workers, ShipmentEvent(w)
  PROVE  LoneInv'
<1>1. PICK do \in {"dispatch", "deliver", "cancel"} :
        /\ CASE do = "deliver"  -> Live(shipment) /\ (shipment.consumed \/ shipment.status # "pending")
             [] do = "dispatch" -> shipment.status = "pending" /\ ~shipment.consumed /\ shipment.sourced
             [] OTHER           -> shipment.status = "pending" /\ ~shipment.consumed
        /\ Begins(w, <<<<do, "seen">>, <<"reload", "late">>, <<"recompute", "late">>>>, deal, order, {})
  BY DEF ShipmentEvent
<1> DEFINE todo == <<<<do, "seen">>, <<"reload", "late">>, <<"recompute", "late">>>>
<1>2. do \in Steps
  BY Words
<1>3. Begins(w, todo, deal, order, {}) /\ todo = Then(do, "seen", Told(<<>>))
  BY <1>1, <1>2, SpelledRequests
<1>4. /\ do = "dispatch" => ~shipment.consumed
      /\ do \in {"deliver", "cancel"} => shipment.status # "cancelled"
  BY <1>1 DEF Live
<1> HIDE DEF todo
<1>5. Handing(todo, shipment)
  BY <1>3, <1>4 DEF Handing
<1>6. ASSUME NEW j, Opened(j, todo, deal, order, {}, order)
      PROVE  Planned(j, deal, order, shipment, reserved)
  BY <1>5, <1>6 DEF Opened, Planned
<1> QED BY <1>3, <1>6, LoneBegins

LEMMA LoneFails ==
  ASSUME NEW w \in Workers, Fails(w)
  PROVE  LoneInv'
BY DEF Fails, LoneInv

-----------------------------------------------------------------------------
LEMMA LoneInit == Init => LoneInv
<1> SUFFICES ASSUME Init PROVE LoneInv
  OBVIOUS
<1>1. PICK start \in Starts, k \in BOOLEAN :
        LET card(d) == Computed(d, start.order, start.shipment, start.reserved, k)
        IN  /\ order = start.order /\ shipment = start.shipment /\ reserved = start.reserved
            /\ deal = card(card(NewDeal(start.avito, start.placed)))
  BY DEF Init
<1> DEFINE card(d) == Computed(d, order, shipment, reserved, k)
           e == card(NewDeal(start.avito, start.placed))
<1>2. order \in Order /\ shipment \in Shipment /\ reserved \in Reserved
      /\ start.avito \in BOOLEAN /\ start.placed \in BOOLEAN
  BY <1>1, DealAssumption
<1>3. \A a, p \in BOOLEAN : NewDeal(a, p) \in Deal
  BY SMTT(20) DEF NewDeal, Deal, CaseStatuses, DealStatuses, StepCodes
<1>4. e \in Deal
  BY <1>2, <1>3, ComputedCard
<1>5. deal = Computed(e, order, shipment, reserved, k)
  BY <1>1
<1> HIDE DEF e
<1>6. deal.avito = e.avito /\ \A f \in CardFields : Right(f, deal[f], e.avito, order, shipment, reserved)
  BY <1>2, <1>4, <1>5, ComputedCard, ComputedRight
<1>7. Agrees(deal, order, shipment, reserved)
  BY <1>6 DEF Agrees
<1>8. \A w \in Workers : Quiet(w)
  BY BlankType DEF Init, Quiet
<1> QED
  BY <1>7, <1>8 DEF LoneInv

LEMMA LoneNext == TypeOK /\ LoneInv /\ [Next]_vars => LoneInv'
<1> SUFFICES ASSUME TypeOK, LoneInv, [Next]_vars PROVE LoneInv'
  OBVIOUS
<1>1. CASE UNCHANGED vars
  BY <1>1 DEF vars, LoneInv, Quiet
<1>2. ASSUME NEW w \in Workers, Begin(w) PROVE LoneInv'
  BY <1>2, MoveBegins, StateFormBegins, AdminChangeBegins, OverrideBegins, TouchBegins,
     PrepareShipmentBegins, ReturnGoodsBegins, ShipmentEventBegins DEF Begin
<1>3. ASSUME NEW w \in Workers, Step(w) PROVE LoneInv'
  BY <1>3, LoneStep
<1>4. ASSUME NEW w \in Workers, Fails(w) PROVE LoneInv'
  BY <1>4, LoneFails
<1> QED
  BY <1>1, <1>2, <1>3, <1>4 DEF Next

(* A request that runs alone to its end repairs the card: whatever earlier    *)
(* races and failures left, its last recompute_deal_workflow works on an      *)
(* instance that has the row's values wherever the row is wrong, or on one    *)
(* read again, and writes every field that the documents decide.             *)
THEOREM CardRepaired == Spec => []CardFollowsDocuments
<1>1. LoneInv => CardFollowsDocuments
  <2> SUFFICES ASSUME LoneInv, alone, \A w \in Workers : Quiet(w)
               PROVE  /\ \A p \in {"paid", "refunded"} : deal.payment = p <=> order.pay = p
                      /\ deal.status = LegacyStatus(order, reserved, deal.avito)
                      /\ deal.fulfil = Fulfilment(order, shipment, reserved)
                      /\ shipment.status = "delivered" =>
                           /\ deal.case = "completed" /\ deal.delivery = "delivered"
                           /\ deal.shipping = "delivered"
                      /\ shipment.status = "shipped" =>
                           deal.delivery \in {"shipped", "delivered"} /\ deal.shipping = "sent"
    BY DEF CardFollowsDocuments
  <2>1. \A f \in CardFields : Right(f, deal[f], deal.avito, order, shipment, reserved)
    BY DEF LoneInv, Agrees
  <2>2. /\ Right("payment", deal.payment, deal.avito, order, shipment, reserved)
        /\ Right("status", deal.status, deal.avito, order, shipment, reserved)
        /\ Right("fulfil", deal.fulfil, deal.avito, order, shipment, reserved)
        /\ Right("case", deal.case, deal.avito, order, shipment, reserved)
        /\ Right("delivery", deal.delivery, deal.avito, order, shipment, reserved)
        /\ Right("shipping", deal.shipping, deal.avito, order, shipment, reserved)
    BY <2>1 DEF CardFields
  <2> QED BY <2>2 DEF Right
<1>2. TypeOK /\ LoneInv /\ [Next]_vars => (TypeOK /\ LoneInv)'
  BY NextType, LoneNext
<1> QED
  BY <1>1, <1>2, InitType, LoneInit, PTL DEF Spec
=============================================================================
