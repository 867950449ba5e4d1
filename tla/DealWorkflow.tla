--------------------------- MODULE DealWorkflow ---------------------------
(* The card of a deal: what recompute_deal_workflow derives from the order,  *)
(* the shipment and the reservation, and the requests that change them.      *)
(*                                                                           *)
(* A request works on instances: copies of the rows of the deal and of its   *)
(* order, read at some moment.  It saves only some fields of an instance,    *)
(* each save in a transaction of its own, so that another request may write  *)
(* between two of them, and an exception may end the request there.  What is *)
(* computed is such an instance too: others may write until it is saved.     *)
EXTENDS Naturals, Sequences

CONSTANTS Workers,
          Starts,        \* kinds of deals that no request is working on, and their documents
          Cases,         \* stages that managers move the deal to
          Forms,         \* inputs of the state form
          OrderTargets,  \* statuses that the admin's actions give the order
          PayTargets,    \* payment statuses that they give it
          NextSteps,     \* next steps that managers set by hand
          MaxRequests    \* bound: requests served

CaseStatuses  == {"new", "confirmed", "in_progress", "waiting_client",
                  "ready_to_ship", "completed", "cancelled"}
OrderStatuses == {"new", "confirmed", "shipping", "ready_for_pickup", "done", "cancelled"}
PayStatuses   == {"unpaid", "pending_confirmation", "paid", "refunded"}
DealStatuses  == {"new", "reserved", "awaiting_payment", "paid", "assembling",
                  "shipped", "completed", "cancelled", "received_by_customer", "returned"}
StepCodes     == {"return_to_stock", "completed", "shipped", "needs_confirmation",
                  "needs_availability_confirmation", "needs_payment",
                  "needs_reservation", "ready_to_ship"}

Order == [status : OrderStatuses, pay : PayStatuses]
Deal  == [avito    : BOOLEAN,       \* customer_source
          case     : CaseStatuses,
          status   : DealStatuses,  \* deal_status
          payment  : {"unpaid", "partial", "paid", "refunded"},
          fulfil   : {"not_reserved", "reserved_stock", "fulfilled"},
          delivery : {"not_required", "ready", "preparing", "shipped", "delivered"},
          shipping : {"draft", "pending", "sent", "delivered"},  \* shipment_status
          step     : StepCodes,     \* next_step_code
          manual   : BOOLEAN,       \* next_step_source
          prepaid  : BOOLEAN,       \* prepayment_amount > 0
          tracked  : BOOLEAN,       \* tracking_number
          returned : BOOLEAN,       \* returned_to_stock_at
          placed   : BOOLEAN]       \* stock_warehouse
DealFields == {"avito", "case", "status", "payment", "fulfil", "delivery", "shipping",
               "step", "manual", "prepaid", "tracked", "returned", "placed"}
Shipment == [status   : {"none", "pending", "shipped", "delivered", "cancelled"},
             consumed : BOOLEAN,    \* inventory_consumed_at
             sourced  : BOOLEAN,    \* source_warehouse
             whole    : BOOLEAN,    \* its items name all units that were ordered
             sold     : BOOLEAN]    \* all units are booked as shipped: shipped_quantity

Live(s) == s.status \notin {"none", "cancelled"}

(* How many of the units that were ordered the active reservations hold;     *)
(* a warehouse that lacks some leaves a reservation of the others.           *)
Reserved == {"none", "part", "all"}
Below(r) == IF r = "none" THEN {"none"} ELSE IF r = "part" THEN {"none", "part"} ELSE Reserved
Above(r) == {q \in Reserved : r \in Below(q)}

(* The instances of one request: those it began with, those of the workflow  *)
(* sync, and those read again after a change of the shipment.                *)
Slots == {"seen", "copy", "late"}
View  == [deal : Deal, order : Order]
Steps == {"saveOrder", "saveDeal", "attach", "effects", "load", "ensure", "refresh",
          "autodispatch", "dispatch", "deliver", "cancel", "reserve", "reload", "recompute"}

ASSUME DealAssumption ==
  /\ Starts \subseteq [avito : BOOLEAN, placed : BOOLEAN,
                       order : Order, shipment : Shipment, reserved : Reserved]
  /\ Cases \subseteq CaseStatuses
  /\ Forms \subseteq [status : DealStatuses, pay : PayStatuses, prepaid : BOOLEAN, tracked : BOOLEAN]
  /\ OrderTargets \subseteq OrderStatuses /\ PayTargets \subseteq PayStatuses
  /\ NextSteps \subseteq StepCodes
  /\ MaxRequests \in Nat

VARIABLES order, deal, shipment,
          reserved,  \* what the active reservations of the order hold
          job,       \* job[w]: the request of worker w
          alone,     \* history: the last request began when no other was served,
                     \* and none has begun or failed since
          served     \* requests begun

vars == <<order, deal, shipment, reserved, job, alone, served>>

(* todo: the steps that are left, each with the instances it works on;       *)
(* dirty, changed: the fields of the deal and of the order that the request  *)
(* has set on its instances and not yet saved or acted upon.                 *)
Job == [todo : Seq(Steps \X Slots), views : [Slots -> View],
        dirty : SUBSET DealFields, changed : SUBSET {"status", "pay"}]

TypeOK ==
  /\ order \in Order /\ deal \in Deal /\ shipment \in Shipment
  /\ reserved \in Reserved
  /\ job \in [Workers -> Job]
  /\ alone \in BOOLEAN
  /\ served \in 0..MaxRequests

Final(case) == case \in {"completed", "cancelled"}

-----------------------------------------------------------------------------
(* recompute_deal_workflow: the fields of an instance d with its order o, a  *)
(* shipment s and reservations r, as they are in the database.               *)
SuggestedCase(o) ==      \* _case_status_for_order
  CASE o.status = "cancelled" -> "cancelled"
    [] o.status = "done"      -> "completed"
    [] o.status = "confirmed" -> "confirmed"
    [] o.status = "new"       -> "new"
    [] OTHER                  -> "ready_to_ship"

CaseAsOrderStatus(case) == case   \* mutant: stages are taken for statuses
OrderStatusOf(case) ==   \* _order_status_for_case_status
  CASE case = "cancelled" -> "cancelled"
    [] case = "completed" -> "done"
    [] case = "new"       -> "new"
    [] OTHER              -> "confirmed"

PaymentState(d, o) ==
  IF o.pay \in {"paid", "refunded"} THEN o.pay
  ELSE IF d.prepaid THEN "partial" ELSE "unpaid"

(* reservation_coverage_snapshot: units that left count only all together.   *)
Covered(s, r) == r = "all" \/ (Live(s) /\ s.consumed /\ s.whole)

Fulfilment(o, s, r) ==   \* _deal_fulfillment_status
  IF s.sold \/ o.status \in {"shipping", "done"} THEN "fulfilled"
  ELSE IF Covered(s, r) THEN "reserved_stock" ELSE "not_reserved"

(* What was delivered or shipped once stays so, whatever the order says.     *)
Delivery(d, o, s) ==
  IF o.status = "done" \/ s.status = "delivered" \/ d.delivery = "delivered"
  THEN "delivered"
  ELSE IF o.status = "shipping" \/ s.status = "shipped" \/ d.delivery = "shipped"
  THEN "shipped"
  ELSE IF Live(s) THEN "preparing"
  ELSE IF d.shipping = "sent" \/ d.tracked THEN "shipped"
  ELSE IF d.shipping = "pending" THEN "preparing"
  ELSE IF d.avito THEN "not_required" ELSE "ready"

ShipmentStatus(d, s) ==
  IF Live(s)
  THEN IF s.status = "delivered" THEN "delivered"
       ELSE IF s.status = "shipped" \/ s.consumed THEN "sent" ELSE "pending"
  ELSE IF d.delivery = "delivered" THEN "delivered"
  ELSE IF d.delivery = "shipped" \/ d.shipping = "sent" \/ d.tracked THEN "sent"
  ELSE IF d.shipping = "pending" THEN "pending" ELSE "draft"

CaseStatus(d, o, s) ==
  IF Delivery(d, o, s) = "delivered" /\ ShipmentStatus(d, s) = "delivered" THEN "completed"
  ELSE IF d.case = "new" THEN SuggestedCase(o)
  ELSE IF Final(d.case) /\ o.status \in {"cancelled", "done"} THEN SuggestedCase(o)
  ELSE d.case

LegacyStatus(o, r, avito) ==     \* _website_deal_status_for_order
  CASE o.status = "cancelled" -> IF avito THEN "returned" ELSE "cancelled"
    [] o.status = "done"      -> IF avito THEN "received_by_customer" ELSE "completed"
    [] o.status = "shipping"  -> "shipped"
    [] OTHER -> IF avito THEN "new" ELSE IF o.pay = "paid" THEN "paid"
                ELSE IF r # "none" THEN "reserved" ELSE "awaiting_payment"

(* k: the type of the deal and the stock allow to confirm availability.      *)
(* Returns look at the status that the instance had before.                  *)
NextStep(d, o, s, r, k) ==
  IF d.status = "returned" THEN IF d.returned THEN "completed" ELSE "return_to_stock"
  ELSE IF Final(CaseStatus(d, o, s)) \/ o.status = "done" THEN "completed"
  ELSE IF Delivery(d, o, s) \in {"shipped", "delivered"} \/ o.status = "shipping"
  THEN "shipped"
  ELSE IF CaseStatus(d, o, s) = "new" \/ o.status = "new" THEN "needs_confirmation"
  ELSE IF ~d.placed /\ r = "none" /\ k THEN "needs_availability_confirmation"
  ELSE IF PaymentState(d, o) \in {"unpaid", "partial"} THEN "needs_payment"
  ELSE IF Covered(s, r) THEN "ready_to_ship" ELSE "needs_reservation"

Computed(d, o, s, r, k) ==
  [d EXCEPT !.case     = CaseStatus(d, o, s),
            !.status   = LegacyStatus(o, r, d.avito),
            !.payment  = PaymentState(d, o),
            !.fulfil   = Fulfilment(o, s, r),
            !.delivery = Delivery(d, o, s),
            !.shipping = ShipmentStatus(d, s),
            !.step     = IF d.manual THEN d.step ELSE NextStep(d, o, s, r, k)]

-----------------------------------------------------------------------------
(* Saves *)
Put(row, fields, new) == [f \in DOMAIN row |-> IF f \in fields THEN new[f] ELSE row[f]]
Changed(old, new)     == {f \in DOMAIN old : new[f] # old[f]}

NewOrder == [status |-> "new", pay |-> "unpaid"]
NewDeal(a, p) ==         \* ensure_manager_deal_for_order, recomputed
  [avito |-> a, case |-> "new", status |-> IF a THEN "new" ELSE "awaiting_payment",
   payment |-> "unpaid", fulfil |-> "not_reserved",
   delivery |-> IF a THEN "not_required" ELSE "ready", shipping |-> "draft",
   step |-> "needs_confirmation", manual |-> FALSE, prepaid |-> FALSE,
   tracked |-> FALSE, returned |-> FALSE, placed |-> p]
Blank == [deal |-> NewDeal(FALSE, FALSE), order |-> NewOrder]
Idle  == [todo |-> <<>>, views |-> [s \in Slots |-> Blank], dirty |-> {}, changed |-> {}]

(* A deal at rest: its card is what requests have computed from its documents. *)
Init ==
  /\ \E start \in Starts, k \in BOOLEAN :
       LET card(d) == Computed(d, start.order, start.shipment, start.reserved, k)
       IN  /\ order = start.order /\ shipment = start.shipment /\ reserved = start.reserved
           /\ deal = card(card(NewDeal(start.avito, start.placed)))
  /\ job = [w \in Workers |-> Idle]
  /\ alone = TRUE /\ served = 0

Now == [deal |-> deal, order |-> order]
Quiet(w) == job[w].todo = <<>>

-----------------------------------------------------------------------------
(* Requests: what each reads first, and the steps it then takes              *)
SyncSteps(o) ==          \* sync_order_workflow_state
  <<<<"load", "copy">>, <<"ensure", "copy">>, <<"recompute", "copy">>>>
  \o (IF o.status \notin {"shipping", "done"} THEN <<>>
      ELSE <<<<"refresh", "seen">>, <<"recompute", "seen">>>>
           \o (IF o.status = order.status THEN <<>>
               ELSE <<<<"autodispatch", "late">>, <<"reload", "late">>,
                      <<"recompute", "late">>>>))
  \o <<<<"recompute", "copy">>>>

OrderStatusOfForm(status) ==     \* order_status_for_deal_status
  CASE status \in {"cancelled", "returned"}              -> "cancelled"
    [] status = "shipped"                                -> "shipping"
    [] status \in {"completed", "received_by_customer"}  -> "done"
    [] OTHER                                             -> "new"

(* d and o: the instances as the request sets them before it saves.          *)
Begins(w, todo, d, o, dirty) ==
  /\ Quiet(w) /\ served < MaxRequests
  /\ served' = served + 1
  /\ alone' = \A v \in Workers \ {w} : Quiet(v)
  /\ job' = [job EXCEPT ![w] =
       [todo    |-> todo,
        views   |-> [s \in Slots |-> IF s = "seen" THEN [deal |-> d, order |-> o] ELSE Blank],
        dirty   |-> dirty,
        changed |-> Changed(order, o)]]
  /\ UNCHANGED <<order, deal, shipment, reserved>>

Move(w) ==               \* apply_deal_case_status_change
  \E c \in Cases :
    LET d == [deal EXCEPT !.case = c]
    IN  Begins(w, <<<<"saveOrder", "seen">>, <<"saveDeal", "seen">>, <<"recompute", "seen">>>>,
               d, [order EXCEPT !.status = OrderStatusOf(c)], Changed(deal, d))

FormChoices(avito) ==    \* allowed_status_choices
  IF avito THEN {"new", "shipped", "received_by_customer", "returned"}
  ELSE {"new", "reserved", "awaiting_payment", "paid", "assembling",
        "shipped", "completed", "cancelled"}

StateForm(w) ==          \* order_state_update_view and update_order_state
  \E f \in Forms :
    LET o == [status |-> OrderStatusOfForm(f.status), pay |-> f.pay]
        d == [deal EXCEPT !.status = f.status, !.prepaid = f.prepaid, !.tracked = f.tracked]
    IN  /\ f.status \in FormChoices(deal.avito)
        /\ f.status = "shipped" /\ ~deal.avito => f.tracked \/ deal.tracked
        /\ Begins(w, <<<<"saveDeal", "seen">>>>
                     \o (IF o = order THEN <<>>
                         ELSE <<<<"saveOrder", "seen">>, <<"effects", "seen">>>> \o SyncSteps(o))
                     \o <<<<"recompute", "seen">>>>,
                  d, o, {"status", "prepaid", "tracked"})

AdminChange(w) ==        \* _bulk_transition
  \E o \in {[order EXCEPT !.status = s] : s \in OrderTargets}
           \cup {[order EXCEPT !.pay = p] : p \in PayTargets} :
    /\ o # order
    /\ Begins(w, <<<<"saveOrder", "seen">>, <<"attach", "seen">>, <<"effects", "seen">>>>
                 \o SyncSteps(o), deal, o, {})

Override(w) ==           \* apply_deal_next_step_override, clear_deal_next_step_override
  \E d \in {[deal EXCEPT !.step = c, !.manual = TRUE] : c \in NextSteps}
           \cup {[deal EXCEPT !.manual = FALSE]} :
    Begins(w, <<<<"saveDeal", "seen">>, <<"recompute", "seen">>, <<"recompute", "seen">>>>,
           d, order, IF d.manual THEN {"step", "manual"} ELSE {"manual"})

Touch(w) == Begins(w, <<<<"recompute", "seen">>>>, deal, order, {})   \* a comment, a document

PrepareShipment(w) ==    \* ensure_shipment_for_manager_deal
  Begins(w, IF Live(shipment)
            THEN <<<<"reload", "late">>, <<"refresh", "late">>, <<"recompute", "late">>>>
            ELSE <<<<"reserve", "seen">>, <<"recompute", "seen">>, <<"refresh", "seen">>,
                   <<"recompute", "seen">>, <<"recompute", "seen">>>>, deal, order, {})

ReturnGoods(w) ==        \* restore_avito_return_to_stock, reverse_shipment_for_manager_deal
  /\ shipment.status \in {"shipped", "delivered"} /\ ~deal.returned
  /\ deal.avito => deal.status = "returned"
  /\ Begins(w, <<<<"saveDeal", "seen">>, <<"recompute", "seen">>>>,
            [deal EXCEPT !.returned = TRUE], order, {"returned"})

EarlyShipmentEvent(w) ==     \* mutant: the card is computed before the shipment changes
  \E do \in {"dispatch", "cancel"} :
    /\ shipment.status = "pending" /\ ~shipment.consumed /\ (do = "dispatch" => shipment.sourced)
    /\ Begins(w, <<<<"reload", "late">>, <<"recompute", "late">>, <<do, "seen">>>>, deal, order, {})
ShipmentEvent(w) ==      \* ship_shipment, mark_shipment_delivered, cancel_shipment
  \E do \in {"dispatch", "deliver", "cancel"} :
    /\ CASE do = "deliver"  -> Live(shipment) /\ (shipment.consumed \/ shipment.status # "pending")
         [] do = "dispatch" -> shipment.status = "pending" /\ ~shipment.consumed /\ shipment.sourced
         [] OTHER           -> shipment.status = "pending" /\ ~shipment.consumed
    /\ Begins(w, <<<<do, "seen">>, <<"reload", "late">>, <<"recompute", "late">>>>, deal, order, {})

-----------------------------------------------------------------------------
(* Steps: one transaction each                                               *)
At(w, do)  == job[w].todo # <<>> /\ Head(job[w].todo)[1] = do
Mine(w)    == job[w].views[Head(job[w].todo)[2]]
Rest(w)    == Tail(job[w].todo)

(* The request goes on with the steps todo, and with v as the instances of    *)
(* this step; instances that no step needs are dropped.  The sync of a deal   *)
(* that it loads works on the order of the request.                          *)
Needs(todo, s) ==
  \E i \in DOMAIN todo : todo[i][2] = s \/ (s = "seen" /\ todo[i][1] = "load")
GoesOn(w, todo, v) ==
  LET this == Head(job[w].todo)[2]
  IN  [todo    |-> todo,
       views   |-> [s \in Slots |-> IF ~Needs(todo, s) THEN Blank
                                    ELSE IF s = this THEN v ELSE job[w].views[s]],
       dirty   |-> IF At(w, "saveDeal") THEN {} ELSE job[w].dirty,
       changed |-> IF At(w, "effects") \/ todo = <<>> THEN {} ELSE job[w].changed]
Goes(w, todo, v) == job' = [job EXCEPT ![w] = GoesOn(w, todo, v)]
Skips(w, n) == Goes(w, SubSeq(job[w].todo, n + 1, Len(job[w].todo)), Mine(w))

(* The request makes new of its instance of the deal and o of that of the    *)
(* order, and will save the columns in which the deal now differs.           *)
Saves(w, fields) ==
  IF fields = {} THEN Rest(w) ELSE <<<<"saveDeal", Head(job[w].todo)[2]>>>> \o Rest(w)
Sets(w, new, o) ==
  LET set == Changed(Mine(w).deal, new)
      now == GoesOn(w, Saves(w, set), [deal |-> new, order |-> o])
  IN  job' = [job EXCEPT ![w] = [now EXCEPT !.dirty = set]]

SaveOrder(w) ==
  /\ At(w, "saveOrder")
  /\ order' = Put(order, job[w].changed, Mine(w).order)
  /\ Goes(w, Rest(w), Mine(w))
  /\ UNCHANGED <<deal, shipment, reserved>>

SaveDeal(w) ==
  /\ At(w, "saveDeal")
  /\ deal' = Put(deal, job[w].dirty, Mine(w).deal)
  /\ Goes(w, Rest(w), Mine(w))
  /\ UNCHANGED <<order, shipment, reserved>>

Attach(w) ==             \* order.manager_deal
  /\ At(w, "attach")
  /\ Goes(w, Rest(w), [Mine(w) EXCEPT !.deal = deal])
  /\ UNCHANGED <<order, deal, shipment, reserved>>

Effects(w) ==            \* ensure_order_reservations or release_order_reservations
  /\ At(w, "effects")
  /\ LET o == Mine(w).order
         new == "status" \in job[w].changed
         released == new /\ o.status = "cancelled" /\ reserved # "none"
     IN  /\ reserved' \in CASE released                       -> {"none"}
                            [] new /\ o.status = "confirmed"  -> Above(reserved)
                            [] OTHER                          -> {reserved}
         /\ Goes(w, IF released THEN <<<<"recompute", "seen">>>> \o Rest(w) ELSE Rest(w), Mine(w))
  /\ UNCHANGED <<order, deal, shipment>>

Load(w) ==               \* ManagerDeal.objects.get_or_create
  /\ At(w, "load")
  /\ Goes(w, Rest(w), [deal |-> deal, order |-> job[w].views["seen"].order])
  /\ UNCHANGED <<order, deal, shipment, reserved>>

Ensure(w) ==             \* the columns that ensure_manager_deal_for_order copies from its order
  /\ At(w, "ensure")
  /\ LET o == Mine(w).order
     IN  Sets(w, [Mine(w).deal EXCEPT !.status = LegacyStatus(o, reserved, FALSE),
                                      !.prepaid = (o.pay = "paid")], order)
  /\ UNCHANGED <<order, deal, shipment, reserved>>

Recompute(w) ==
  /\ At(w, "recompute")
  /\ LET v == Mine(w)
     IN  \E k \in BOOLEAN : Sets(w, Computed(v.deal, v.order, shipment, reserved, k), v.order)
  /\ UNCHANGED <<order, deal, shipment, reserved>>

Refresh(w) ==            \* create_or_update_shipment_for_order
  /\ At(w, "refresh")
  /\ \E linked \in BOOLEAN :     \* its items are those of one reservation
       /\ linked => reserved # "none"
       /\ LET source == shipment.sourced \/ linked \/ Mine(w).deal.placed
              whole  == linked => reserved = "all"
          IN  shipment' =
                CASE shipment.status = "none" ->
                       [status |-> "pending", consumed |-> FALSE, sourced |-> source,
                        whole |-> whole, sold |-> FALSE]
                  [] shipment.consumed /\ shipment.status = "shipped"
                     /\ Mine(w).order.status = "done" -> [shipment EXCEPT !.status = "delivered"]
                  [] ~shipment.consumed /\ shipment.status \in {"pending", "cancelled"} ->
                       [shipment EXCEPT !.sourced = source, !.whole = whole]
                  [] OTHER -> shipment
  /\ Goes(w, Rest(w), Mine(w))
  /\ UNCHANGED <<order, deal, reserved>>

Dispatched == [shipment EXCEPT !.status   = IF order.status = "done" THEN "delivered" ELSE "shipped",
                               !.consumed = TRUE,
                               !.sold     = @ \/ shipment.whole]
DispatchShipment(w) ==   \* dispatch_shipment; a lack of stock is a failure
  /\ At(w, "dispatch") \/ At(w, "autodispatch")
  /\ \/ /\ \/ shipment.consumed
           \/ /\ At(w, "autodispatch")
              /\ shipment.status # "pending" \/ ~shipment.sourced
                 \/ ~shipment.whole       \* the reservation may hold nothing any more
        /\ Skips(w, 3)
        /\ UNCHANGED <<shipment, reserved>>
     \/ /\ ~shipment.consumed
        /\ At(w, "autodispatch") => shipment.status = "pending" /\ shipment.sourced
        /\ shipment' = Dispatched
        /\ reserved' \in Below(reserved)
        /\ Goes(w, Rest(w), Mine(w))
  /\ UNCHANGED <<order, deal>>

MarkDelivered(w) ==      \* mark_shipment_delivered
  /\ At(w, "deliver")
  /\ IF shipment.status = "cancelled"
     THEN Skips(w, 3) /\ UNCHANGED <<deal, shipment>>
     ELSE /\ shipment' = [shipment EXCEPT !.status = "delivered", !.consumed = TRUE]
          /\ deal' = IF Mine(w).deal.case = "completed" THEN deal
                     ELSE [deal EXCEPT !.case = "completed"]
          /\ Goes(w, Rest(w), Mine(w))
  /\ UNCHANGED <<order, reserved>>

CancelShipment(w) ==     \* cancel_shipment; its items may have no reservation to release
  /\ At(w, "cancel")
  /\ IF shipment.status = "cancelled"
     THEN Skips(w, 3) /\ UNCHANGED <<shipment, reserved>>
     ELSE /\ shipment' = [shipment EXCEPT !.status = "cancelled"]
          /\ reserved' \in Below(reserved)
          /\ Goes(w, Rest(w), Mine(w))
  /\ UNCHANGED <<order, deal>>

Reserve(w) ==            \* ensure_reservations_for_manager_deal; it may find no stock
  /\ At(w, "reserve")
  /\ \/ Skips(w, 2) /\ UNCHANGED reserved
     \/ /\ reserved # "all" /\ reserved' = "all"
        /\ LET v == Mine(w)
           IN  \E p \in {v.deal.placed, TRUE} :
                 Sets(w, [v.deal EXCEPT !.placed = p], v.order)
  /\ UNCHANGED <<order, deal, shipment>>

Reload(w) ==             \* locked_shipment.manager_deal, read after the commit
  /\ At(w, "reload")
  /\ Goes(w, Rest(w), Now)
  /\ UNCHANGED <<order, deal, shipment, reserved>>

Step(w) ==
  /\ \/ SaveOrder(w) \/ SaveDeal(w) \/ Attach(w) \/ Effects(w) \/ Load(w) \/ Ensure(w)
     \/ Recompute(w) \/ Refresh(w) \/ DispatchShipment(w) \/ MarkDelivered(w)
     \/ CancelShipment(w) \/ Reserve(w) \/ Reload(w)
  /\ UNCHANGED <<alone, served>>

Fails(w) ==              \* an exception, a lost connection: what is saved stays
  /\ ~Quiet(w)
  /\ job' = [job EXCEPT ![w] = Idle]
  /\ alone' = FALSE
  /\ UNCHANGED <<order, deal, shipment, reserved, served>>

Begin(w) == \/ Move(w) \/ StateForm(w) \/ AdminChange(w) \/ Override(w) \/ Touch(w)
            \/ PrepareShipment(w) \/ ReturnGoods(w) \/ ShipmentEvent(w)

Next == \E w \in Workers : Begin(w) \/ Step(w) \/ Fails(w)
Spec == Init /\ [][Next]_vars

-----------------------------------------------------------------------------
(* A request that ran alone to its end leaves a card that agrees with the    *)
(* order, the shipment and the reservations, whatever races and failures     *)
(* were before it: the requests repair what they find.  What was sent in     *)
(* part is not called fulfilled before the order is.                         *)
CardFollowsDocuments ==
  alone /\ (\A w \in Workers : Quiet(w)) =>
    /\ \A p \in {"paid", "refunded"} : deal.payment = p <=> order.pay = p
    /\ deal.status = LegacyStatus(order, reserved, deal.avito)
    /\ deal.fulfil = Fulfilment(order, shipment, reserved)
    /\ shipment.status = "delivered" =>
         deal.case = "completed" /\ deal.delivery = "delivered" /\ deal.shipping = "delivered"
    /\ shipment.status = "shipped" =>
         deal.delivery \in {"shipped", "delivered"} /\ deal.shipping = "sent"
=============================================================================
