------------------------------ MODULE Payments ------------------------------
(* The payment of orders: callbacks of the payment provider, staff who set   *)
(* the payment status, the whole-row form of the admin site, and the side    *)
(* effects of a paid order (partner bonus, "payment received" letter).       *)
(*                                                                           *)
(* Each web worker runs one request at a time.  A database transaction that  *)
(* locks its rows first is one step; what a request reads or writes outside  *)
(* one is a step of its own, and a worker may die between two steps.         *)
EXTENDS Integers

CONSTANTS Orders, Payments, Workers,
          OrderOf,       \* OrderOf[p]: the order of a payment
          WithBonus,     \* orders whose promo code earns its partner a bonus
          Callbacks,     \* statuses the provider sends
          StaffTargets,  \* payment statuses staff choose
          EditedOrders,  \* orders that are saved through the admin form
          MaxEdits,      \* bound: saves through the admin form
          MaxUnsure      \* bound: letters of an order that went out and raised

Statuses   == {"pending", "waiting", "confirming", "sent", "finished",
               "failed", "refunded", "expired"}
NpStatuses == (Statuses \ {"pending"}) \cup {"partially_paid"}
PayStates  == {"unpaid", "pending_confirmation", "paid", "refunded"}

ASSUME PaymentsAssumption ==
  /\ Orders # {}
  /\ OrderOf \in [Payments -> Orders]
  /\ WithBonus \subseteq Orders
  /\ Callbacks \subseteq NpStatuses
  /\ StaffTargets \subseteq PayStates
  /\ EditedOrders \subseteq Orders
  /\ MaxEdits \in Nat
  /\ MaxUnsure \in Nat

VARIABLES status,   \* Payment.status
          pay,      \* Order.payment_status
          applied,  \* Order.partner_bonus_applied
          credits,  \* BalanceTransaction rows of the order; each adds the
                    \* bonus to Profile.balance in its transaction
          logged,   \* the OrderNotificationLog row "payment_received" exists
          mails,    \* letters "payment received" that went out
          unsure,   \* history: those of them whose sending raised an exception
          work,     \* work[w]: the request of worker w
          lost,     \* history: a worker died before the bonus of the order
          edits     \* saves through the admin form

vars == <<status, pay, applied, credits, logged, mails, unsure, work, lost, edits>>
rows == <<status, pay, applied, credits, logged, mails, unsure>>

Work == [pc     : {"idle", "save", "previous", "overwrite", "bonus", "notify", "mail"},
         order  : Orders,
         target : PayStates,
         pay    : PayStates,   \* payment status read
         flag   : BOOLEAN]     \* partner_bonus_applied read

TypeOK ==
  /\ status \in [Payments -> Statuses]
  /\ pay \in [Orders -> PayStates]
  /\ applied \in [Orders -> BOOLEAN]
  /\ credits \in [Orders -> Nat]
  /\ logged \in [Orders -> BOOLEAN]
  /\ mails \in [Orders -> Nat]
  /\ unsure \in [Orders -> Nat]
  /\ work \in [Workers -> Work]
  /\ lost \in [Orders -> BOOLEAN]
  /\ edits \in 0..MaxEdits

Job(pc, o, t, p, f) == [pc |-> pc, order |-> o, target |-> t, pay |-> p, flag |-> f]
Idle       == Job("idle", CHOOSE o \in Orders : TRUE, "unpaid", "unpaid", FALSE)
Unprevious(o) == Job("bonus", o, "paid", "", FALSE)  \* mutant: no status before
Effects(o) == Job("bonus", o, "paid", "unpaid", FALSE)

Init ==
  /\ status = [p \in Payments |-> "pending"]
  /\ pay = [o \in Orders |-> "unpaid"]
  /\ applied = [o \in Orders |-> FALSE]
  /\ credits = [o \in Orders |-> 0]
  /\ logged = [o \in Orders |-> FALSE]
  /\ mails = [o \in Orders |-> 0]
  /\ unsure = [o \in Orders |-> 0]
  /\ work = [w \in Workers |-> Idle]
  /\ lost = [o \in Orders |-> FALSE]
  /\ edits = 0

At(w, pc)    == work[w].pc = pc
Set(w, job)  == work' = [work EXCEPT ![w] = job]
Goto(w, pc)  == work' = [work EXCEPT ![w].pc = pc]

-----------------------------------------------------------------------------
(* Callbacks of the provider: signed, in any order, any number of times.     *)
Normalized(np) == IF np = "partially_paid" THEN "waiting" ELSE np

Allowed(s) ==      \* is_valid_payment_status_transition
  CASE s = "pending"    -> Statuses \ {"refunded"}
    [] s = "waiting"    -> Statuses \ {"pending", "refunded"}
    [] s = "confirming" -> {"confirming", "sent", "finished", "failed", "expired"}
    [] s = "sent"       -> {"sent", "finished", "failed", "expired"}
    [] s = "finished"   -> {"finished", "refunded"}
    [] s = "failed"     -> Statuses \ {"pending", "refunded"}
    [] OTHER            -> {s}

TrustingAccepts(p, np) ==     \* mutant: an order that was refunded is paid again
  Normalized(np) \in Allowed(status[p])
Accepts(p, np) ==
  /\ Normalized(np) \in Allowed(status[p])
  /\ np = "finished" => pay[OrderOf[p]] # "refunded"

(* Only the callback that makes the order paid goes on to its side effects.  *)
RefusedFirst(w, o) ==         \* mutant: the effects of the order are skipped
  UNCHANGED work
FirstPaid(w, o) == Set(w, IF pay[o] # "paid" THEN Effects(o) ELSE Idle)

Callback(w, p, np) ==
  LET o == OrderOf[p] IN
  /\ At(w, "idle")
  /\ Accepts(p, np)
  /\ status' = [status EXCEPT ![p] = Normalized(np)]
  /\ IF np = "finished"
     THEN pay' = [pay EXCEPT ![o] = "paid"] /\ FirstPaid(w, o)
     ELSE UNCHANGED <<pay, work>>
  /\ UNCHANGED <<applied, credits, logged, mails, unsure, lost, edits>>

-----------------------------------------------------------------------------
(* Staff set a payment status (update_order_state, mark_paid): the row is    *)
(* read, compared with the target, and written without a lock.               *)
StaffRead(w, o, target) ==
  /\ At(w, "idle")
  /\ Set(w, Job("save", o, target, pay[o], FALSE))
  /\ UNCHANGED <<rows, lost, edits>>

StaffSave(w) ==
  LET job == work[w] IN
  /\ At(w, "save")
  /\ IF job.pay # job.target
     THEN /\ pay' = [pay EXCEPT ![job.order] = job.target]
          /\ Set(w, IF job.target = "paid" THEN Effects(job.order) ELSE Idle)
     ELSE UNCHANGED pay /\ Set(w, Idle)
  /\ UNCHANGED <<status, applied, credits, logged, mails, unsure, lost, edits>>

-----------------------------------------------------------------------------
(* The side effects, each in a transaction of its own.                       *)
CarelessDue(o) == pay[o] = "paid" /\ o \in WithBonus   \* mutant: ignores the flag
Due(o) == pay[o] = "paid" /\ ~applied[o] /\ o \in WithBonus

PayBonus(o) ==
  /\ credits' = [credits EXCEPT ![o] = @ + 1]
  /\ applied' = [applied EXCEPT ![o] = TRUE]

(* apply_partner_bonus_for_order reads everything again under the locks of   *)
(* the order and of the partner's profile.                                   *)
Bonus(w) ==
  LET o == work[w].order IN
  /\ At(w, "bonus")
  /\ IF Due(o) THEN PayBonus(o) ELSE UNCHANGED <<credits, applied>>
  /\ Goto(w, "notify")
  /\ UNCHANGED <<status, pay, logged, mails, unsure, lost, edits>>

(* get_or_create on a row that is unique for order, event and channel.       *)
HastyNotify(w) ==             \* mutant: sends whether or not the row is new
  /\ At(w, "notify")
  /\ logged' = [logged EXCEPT ![work[w].order] = TRUE]
  /\ Goto(w, "mail")
  /\ UNCHANGED <<status, pay, applied, credits, mails, unsure, lost, edits>>
Notify(w) ==
  LET o == work[w].order IN
  /\ At(w, "notify")
  /\ logged' = [logged EXCEPT ![o] = TRUE]
  /\ IF logged[o] THEN Set(w, Idle) ELSE Goto(w, "mail")
  /\ UNCHANGED <<status, pay, applied, credits, mails, unsure, lost, edits>>

(* An exception of message.send takes the row back, also one that is raised  *)
(* when the mail server has the letter already (a timeout of its answer).     *)
Mail(w) ==
  LET o == work[w].order IN
  /\ At(w, "mail")
  /\ \/ /\ mails' = [mails EXCEPT ![o] = @ + 1]
        /\ UNCHANGED <<logged, unsure>>
     \/ /\ logged' = [logged EXCEPT ![o] = FALSE]
        /\ UNCHANGED <<mails, unsure>>
     \/ /\ unsure[o] < MaxUnsure
        /\ mails' = [mails EXCEPT ![o] = @ + 1]
        /\ unsure' = [unsure EXCEPT ![o] = @ + 1]
        /\ logged' = [logged EXCEPT ![o] = FALSE]
  /\ Set(w, Idle)
  /\ UNCHANGED <<status, pay, applied, credits, lost, edits>>

(* A worker dies, or an effect fails: the webhook logs it and answers "ok",  *)
(* and what was left to do is nobody's.                                      *)
Crash(w) ==
  /\ ~At(w, "idle")
  /\ Set(w, Idle)
  /\ lost' = [lost EXCEPT ![work[w].order] = @ \/ At(w, "bonus")]
  /\ UNCHANGED <<rows, edits>>

-----------------------------------------------------------------------------
(* The admin form: the row is read, read again for its previous state, and   *)
(* written with all its columns, partner_bonus_applied as it was first read. *)
(* The side effects run inside the transaction of the form.                  *)
AdminRead(w, o, target) ==
  /\ At(w, "idle")
  /\ edits < MaxEdits
  /\ edits' = edits + 1
  /\ Set(w, Job("previous", o, target, pay[o], applied[o]))
  /\ UNCHANGED <<rows, lost>>

AdminPrevious(w) ==
  LET job == work[w] IN
  /\ At(w, "previous")
  /\ Set(w, Job("overwrite", job.order, job.target, pay[job.order], job.flag))
  /\ UNCHANGED <<rows, lost, edits>>

AdminSave(w) ==
  LET job == work[w]
      o   == job.order
      paidNow == job.pay # "paid" /\ job.target = "paid"
      due     == paidNow /\ ~job.flag /\ o \in WithBonus
  IN
  /\ At(w, "overwrite")
  /\ \E sent   \in IF paidNow /\ ~logged[o] THEN BOOLEAN ELSE {FALSE},
        raised \in IF unsure[o] < MaxUnsure THEN BOOLEAN ELSE {FALSE} :
       /\ mails' = [mails EXCEPT ![o] = IF sent THEN @ + 1 ELSE @]
       /\ unsure' = [unsure EXCEPT ![o] = IF sent /\ raised THEN @ + 1 ELSE @]
       /\ \/ /\ pay' = [pay EXCEPT ![o] = job.target]
             /\ applied' = [applied EXCEPT ![o] = job.flag \/ due]
             /\ credits' = [credits EXCEPT ![o] = IF due THEN @ + 1 ELSE @]
             /\ logged' = [logged EXCEPT ![o] = @ \/ (sent /\ ~raised)]
          \/ UNCHANGED <<pay, applied, credits, logged>>  \* rolled back
  /\ Set(w, Idle)
  /\ UNCHANGED <<status, lost, edits>>

-----------------------------------------------------------------------------
Effect(w) == Bonus(w) \/ Notify(w) \/ Mail(w)

Next ==
  \E w \in Workers :
    \/ \E p \in Payments, np \in Callbacks : Callback(w, p, np)
    \/ \E o \in Orders, t \in StaffTargets : StaffRead(w, o, t)
    \/ \E o \in EditedOrders, t \in StaffTargets : AdminRead(w, o, t)
    \/ StaffSave(w) \/ AdminPrevious(w) \/ AdminSave(w)
    \/ Effect(w) \/ Crash(w)

(* A worker that lives goes on with the side effects it has begun.           *)
Fairness == \A w \in Workers : WF_vars(Effect(w))
Spec == Init /\ [][Next]_vars /\ Fairness

-----------------------------------------------------------------------------
Unedited == Orders \ EditedOrders

(* Callbacks, staff and crashes in any order keep the promise to the partner *)
(* (PartnerLedger) for every order that nobody saves through the admin form. *)
Ledger == INSTANCE PartnerLedger WITH
            Orders  <- Unedited,
            paid    <- [o \in Unedited |-> pay[o] = "paid"],
            credits <- [o \in Unedited |-> credits[o]]
LedgerKept == Ledger!Spec

(* A paid order whose bonus is not booked is still in the hands of a worker,  *)
(* unless one died with it.                                                   *)
BonusNotForgotten ==
  \A o \in Unedited :
    pay[o] = "paid" /\ o \in WithBonus /\ credits[o] = 0 /\ ~lost[o]
      => \E w \in Workers : At(w, "bonus") /\ work[w].order = o

(* However often an order becomes paid, and however many workers take up its *)
(* side effects, its customer gets a second letter only after the sending of  *)
(* an earlier one raised an exception although it had gone out.               *)
NotifiedOnce == \A o \in Unedited : mails[o] =< 1 + unsure[o]

(* The provider cannot turn a refunded order into a paid one: only staff do. *)
RefundStays ==
  [][\A o \in Orders :
       pay[o] = "refunded" /\ pay'[o] # "refunded"
         => \E w \in Workers : work[w].pc \in {"save", "overwrite"}
                               /\ work[w].order = o /\ work'[w] # work[w]]_vars

(* A paid order gets its bonus, unless it stops being paid or a worker died.  *)
BonusArrives ==
  \A o \in Unedited :
    pay[o] = "paid" /\ o \in WithBonus
      ~> credits[o] > 0 \/ pay[o] # "paid" \/ lost[o]

(* "Идемпотентно: повторный вызов не дублирует начисление": a bonus is booked *)
(* once for every order, the edited ones too.                                 *)
BonusOnce == \A o \in Orders : credits[o] =< 1
=============================================================================
