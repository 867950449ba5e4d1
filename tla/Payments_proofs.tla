--------------------------- MODULE Payments_proofs ---------------------------
(* The promise to the partner, for any number of orders, payments, workers,   *)
(* callbacks and crashes: the flag read again under the lock of the order     *)
(* makes the bonus idempotent, as long as nobody writes the flag back.        *)
EXTENDS Payments, TLAPS

(* The flag of an order tells whether its bonus is booked.                   *)
FlagInv == \A o \in Unedited : credits[o] = IF applied[o] THEN 1 ELSE 0

(* A letter belongs to the worker that created its row, and there is one     *)
(* besides those whose sending raised an exception after they went out.      *)
LetterInv ==
  \A o \in Unedited :
    /\ mails[o] =< 1 + unsure[o]
    /\ ~logged[o] => mails[o] =< unsure[o]
    /\ \A w \in Workers :
         At(w, "mail") /\ work[w].order = o
           => /\ logged[o] /\ mails[o] =< unsure[o]
              /\ \A v \in Workers : At(v, "mail") /\ work[v].order = o => v = w

(* Whole rows are written for edited orders only.                            *)
FormInv ==
  \A w \in Workers : work[w].pc \in {"previous", "overwrite"}
                       => work[w].order \in EditedOrders

Inv == TypeOK /\ FlagInv /\ LetterInv /\ FormInv /\ BonusNotForgotten

-----------------------------------------------------------------------------
LEMMA IdleType == Idle \in Work /\ Idle.pc = "idle"
BY PaymentsAssumption DEF Idle, Job, Work, PayStates

LEMMA EffectsType ==
  ASSUME NEW o \in Orders
  PROVE  Effects(o) \in Work /\ Effects(o).pc = "bonus" /\ Effects(o).order = o
BY DEF Effects, Job, Work, PayStates

(* What the requests of other workers are is no worker's business.           *)
LEMMA SetOther ==
  ASSUME work \in [Workers -> Work], NEW w \in Workers, NEW job \in Work,
         Set(w, job)
  PROVE  /\ work' \in [Workers -> Work]
         /\ work'[w] = job
         /\ \A v \in Workers : v # w => work'[v] = work[v]
BY DEF Set

LEMMA GotoOther ==
  ASSUME work \in [Workers -> Work], NEW w \in Workers,
         NEW pc \in {"idle", "save", "previous", "overwrite", "bonus", "notify", "mail"},
         Goto(w, pc)
  PROVE  /\ work' \in [Workers -> Work]
         /\ work'[w].pc = pc
         /\ work'[w].order = work[w].order
         /\ \A v \in Workers : v # w => work'[v] = work[v]
BY DEF Goto, Work

LEMMA AllowedType ==
  ASSUME NEW s \in Statuses
  PROVE  Allowed(s) \subseteq Statuses
BY DEF Allowed, Statuses

-----------------------------------------------------------------------------
THEOREM InitInv == Init => Inv
<1> SUFFICES ASSUME Init PROVE Inv
  OBVIOUS
<1>1. TypeOK
  BY IdleType, PaymentsAssumption DEF Init, TypeOK, Statuses, PayStates
<1>2. FlagInv /\ LetterInv /\ FormInv /\ BonusNotForgotten
  BY IdleType
     DEF Init, FlagInv, LetterInv, FormInv, BonusNotForgotten, Unedited, At
<1> QED
  BY <1>1, <1>2 DEF Inv

(* The frame of a step that leaves flag, credits and letters alone, and      *)
(* whose worker neither is nor becomes a worker that sends a letter.         *)
LEMMA LetterFrame ==
  ASSUME Inv, NEW w \in Workers,
         UNCHANGED <<applied, credits, logged, mails, unsure>>,
         \A v \in Workers : v # w => work'[v] = work[v],
         work'[w].pc # "mail"
  PROVE  FlagInv' /\ LetterInv'
<1>1. FlagInv'
  BY DEF Inv, FlagInv
<1>2. \A v \in Workers : At(v, "mail")' => At(v, "mail") /\ work'[v] = work[v]
  BY DEF At
<1>3. LetterInv'
  BY <1>2 DEF Inv, LetterInv, At
<1> QED
  BY <1>1, <1>3

LEMMA CallbackStep ==
  ASSUME Inv, NEW w \in Workers, NEW p \in Payments, NEW np \in Callbacks,
         Callback(w, p, np)
  PROVE  Inv'
<1> DEFINE o == OrderOf[p]
<1>0. o \in Orders /\ Effects(o) \in Work /\ Idle \in Work
  BY PaymentsAssumption, IdleType, EffectsType
<1>1. status' \in [Payments -> Statuses]
  <2>1. Normalized(np) \in Statuses
    BY AllowedType DEF Inv, TypeOK, Callback, Accepts
  <2> QED
    BY <2>1 DEF Callback, Inv, TypeOK
<1>2. CASE np = "finished"
  <2>1. /\ pay' = [pay EXCEPT ![o] = "paid"]
        /\ Set(w, IF pay[o] # "paid" THEN Effects(o) ELSE Idle)
    BY <1>2 DEF Callback, FirstPaid
  <2>2. /\ work' \in [Workers -> Work]
        /\ work'[w] = IF pay[o] # "paid" THEN Effects(o) ELSE Idle
        /\ \A v \in Workers : v # w => work'[v] = work[v]
    BY <1>0, <2>1, SetOther DEF Inv, TypeOK
  <2>3. work'[w].pc \in {"idle", "bonus"}
    BY <1>0, <2>2, IdleType, EffectsType
  <2>4. TypeOK'
    BY <1>1, <2>1, <2>2 DEF Inv, TypeOK, Callback, PayStates
  <2>5. FlagInv' /\ LetterInv'
    BY <2>2, <2>3, LetterFrame DEF Callback
  <2>6. FormInv'
    BY <2>2, <2>3 DEF Inv, FormInv
  <2>7. BonusNotForgotten'
    <3> SUFFICES ASSUME NEW q \in Unedited, pay'[q] = "paid", q \in WithBonus,
                        credits'[q] = 0, ~lost'[q]
                 PROVE  \E v \in Workers : At(v, "bonus")' /\ work'[v].order = q
      BY DEF BonusNotForgotten
    <3>1. CASE q = o /\ pay[o] # "paid"
      BY <1>0, <2>2, <3>1, EffectsType DEF At
    <3>2. CASE ~(q = o /\ pay[o] # "paid")
      <4>1. pay[q] = "paid"
        BY <2>1, <3>2, <1>0 DEF Inv, TypeOK, Unedited
      <4>2. PICK v \in Workers : At(v, "bonus") /\ work[v].order = q
        BY <4>1 DEF Inv, BonusNotForgotten, Callback
      <4>3. v # w
        BY <4>2 DEF Callback, At
      <4> QED
        BY <4>2, <4>3, <2>2 DEF At
    <3> QED
      BY <3>1, <3>2
  <2> QED
    BY <2>4, <2>5, <2>6, <2>7 DEF Inv
<1>3. CASE np # "finished"
  <2>1. UNCHANGED <<pay, work>>
    BY <1>3 DEF Callback
  <2> QED
    BY <1>1, <2>1
       DEF Callback, Inv, TypeOK, FlagInv, LetterInv, FormInv, BonusNotForgotten, At
<1> QED
  BY <1>2, <1>3

(* A worker that starts, or that ends without side effects, forgets nothing. *)
LEMMA QuietStep ==
  ASSUME Inv, NEW w \in Workers, NEW job \in Work, Set(w, job),
         ~At(w, "bonus"), job.pc # "mail",
         job.pc \in {"previous", "overwrite"} => job.order \in EditedOrders,
         UNCHANGED <<rows, lost>>, edits' \in 0..MaxEdits
  PROVE  Inv'
<1>1. /\ work' \in [Workers -> Work]
      /\ work'[w] = job
      /\ \A v \in Workers : v # w => work'[v] = work[v]
  BY SetOther DEF Inv, TypeOK
<1>2. TypeOK'
  BY <1>1 DEF Inv, TypeOK, rows
<1>3. FlagInv' /\ LetterInv'
  BY <1>1, LetterFrame DEF rows
<1>4. FormInv'
  BY <1>1 DEF Inv, FormInv
<1>5. BonusNotForgotten'
  BY <1>1 DEF Inv, BonusNotForgotten, At, rows
<1> QED
  BY <1>2, <1>3, <1>4, <1>5 DEF Inv

LEMMA StaffReadStep ==
  ASSUME Inv, NEW w \in Workers, NEW o \in Orders, NEW t \in StaffTargets,
         StaffRead(w, o, t)
  PROVE  Inv'
<1>1. Job("save", o, t, pay[o], FALSE) \in Work
  BY PaymentsAssumption DEF Job, Work, Inv, TypeOK
<1>2. ~At(w, "bonus") /\ edits' \in 0..MaxEdits
  BY DEF StaffRead, At, Inv, TypeOK
<1> QED
  BY <1>1, <1>2, QuietStep DEF StaffRead, Job

LEMMA AdminReadStep ==
  ASSUME Inv, NEW w \in Workers, NEW o \in EditedOrders, NEW t \in StaffTargets,
         AdminRead(w, o, t)
  PROVE  Inv'
<1>1. Job("previous", o, t, pay[o], applied[o]) \in Work
  BY PaymentsAssumption DEF Job, Work, Inv, TypeOK
<1>2. ~At(w, "bonus")
  BY DEF AdminRead, At
<1>3. edits' \in 0..MaxEdits
  BY PaymentsAssumption DEF AdminRead, Inv, TypeOK
<1> QED
  BY <1>1, <1>2, <1>3, QuietStep DEF AdminRead, Job

LEMMA AdminPreviousStep ==
  ASSUME Inv, NEW w \in Workers, AdminPrevious(w)
  PROVE  Inv'
<1> DEFINE job == Job("overwrite", work[w].order, work[w].target,
                      pay[work[w].order], work[w].flag)
<1>1. work[w] \in Work /\ pay[work[w].order] \in PayStates
  BY DEF Inv, TypeOK, Work
<1>2. job \in Work /\ job.pc = "overwrite" /\ job.order = work[w].order
  BY <1>1 DEF Work, Job
<1>3. work[w].order \in EditedOrders
  BY DEF AdminPrevious, At, Inv, FormInv
<1>4. ~At(w, "bonus") /\ edits' \in 0..MaxEdits
  BY DEF AdminPrevious, At, Inv, TypeOK
<1> QED
  BY <1>2, <1>3, <1>4, QuietStep DEF AdminPrevious

LEMMA StaffSaveStep ==
  ASSUME Inv, NEW w \in Workers, StaffSave(w)
  PROVE  Inv'
<1> DEFINE o == work[w].order
           t == work[w].target
<1>0. o \in Orders /\ t \in PayStates /\ Effects(o) \in Work /\ Idle \in Work
  BY IdleType, EffectsType DEF Inv, TypeOK, Work
<1>1. CASE work[w].pay = t
  <2>1. Set(w, Idle) /\ ~At(w, "bonus") /\ UNCHANGED <<rows, lost>> /\ edits' \in 0..MaxEdits
    BY <1>1 DEF StaffSave, At, rows, Inv, TypeOK
  <2> QED
    BY <2>1, IdleType, QuietStep
<1>2. CASE work[w].pay # t
  <2>1. /\ pay' = [pay EXCEPT ![o] = t]
        /\ Set(w, IF t = "paid" THEN Effects(o) ELSE Idle)
    BY <1>2 DEF StaffSave
  <2>2. /\ work' \in [Workers -> Work]
        /\ work'[w] = IF t = "paid" THEN Effects(o) ELSE Idle
        /\ \A v \in Workers : v # w => work'[v] = work[v]
    BY <1>0, <2>1, SetOther DEF Inv, TypeOK
  <2>3. work'[w].pc \in {"idle", "bonus"}
    BY <1>0, <2>2, IdleType, EffectsType
  <2>4. TypeOK'
    BY <1>0, <2>1, <2>2 DEF Inv, TypeOK, StaffSave
  <2>5. FlagInv' /\ LetterInv'
    BY <2>2, <2>3, LetterFrame DEF StaffSave
  <2>6. FormInv'
    BY <2>2, <2>3 DEF Inv, FormInv
  <2>7. BonusNotForgotten'
    <3> SUFFICES ASSUME NEW q \in Unedited, pay'[q] = "paid", q \in WithBonus,
                        credits'[q] = 0, ~lost'[q]
                 PROVE  \E v \in Workers : At(v, "bonus")' /\ work'[v].order = q
      BY DEF BonusNotForgotten
    <3>1. CASE q = o
      <4>1. t = "paid"
        BY <1>0, <2>1, <3>1 DEF Inv, TypeOK
      <4> QED
        BY <1>0, <2>2, <3>1, <4>1, EffectsType DEF At
    <3>2. CASE q # o
      <4>1. pay[q] = "paid"
        BY <2>1, <3>2, <1>0 DEF Inv, TypeOK, Unedited
      <4>2. PICK v \in Workers : At(v, "bonus") /\ work[v].order = q
        BY <4>1 DEF Inv, BonusNotForgotten, StaffSave
      <4> QED
        BY <4>2, <3>2, <2>2 DEF At
    <3> QED
      BY <3>1, <3>2
  <2> QED
    BY <2>4, <2>5, <2>6, <2>7 DEF Inv
<1> QED
  BY <1>1, <1>2

LEMMA BonusStep ==
  ASSUME Inv, NEW w \in Workers, Bonus(w)
  PROVE  Inv'
<1> DEFINE o == work[w].order
<1>1. o \in Orders
  BY DEF Inv, TypeOK, Work
<1>2. /\ work' \in [Workers -> Work]
      /\ work'[w].pc = "notify"
      /\ \A v \in Workers : v # w => work'[v] = work[v]
  BY GotoOther DEF Bonus, Inv, TypeOK
<1>3. /\ credits' = IF Due(o) THEN [credits EXCEPT ![o] = @ + 1] ELSE credits
      /\ applied' = IF Due(o) THEN [applied EXCEPT ![o] = TRUE] ELSE applied
  BY DEF Bonus, PayBonus
<1>4. TypeOK'
  BY <1>1, <1>2, <1>3 DEF Bonus, Inv, TypeOK
<1>5. FlagInv'
  BY <1>1, <1>3 DEF Inv, TypeOK, FlagInv, Due, Unedited
<1>6. LetterInv'
  <2>1. \A v \in Workers : At(v, "mail")' => At(v, "mail") /\ work'[v] = work[v]
    BY <1>2 DEF At
  <2> QED
    BY <2>1 DEF Bonus, Inv, LetterInv, At
<1>7. FormInv'
  BY <1>2 DEF Inv, FormInv
<1>8. BonusNotForgotten'
  <2> SUFFICES ASSUME NEW q \in Unedited, pay'[q] = "paid", q \in WithBonus,
                      credits'[q] = 0, ~lost'[q]
               PROVE  \E v \in Workers : At(v, "bonus")' /\ work'[v].order = q
    BY DEF BonusNotForgotten
  <2>1. pay[q] = "paid" /\ ~lost[q] /\ q \in Orders
    BY DEF Bonus, Unedited
  <2>2. credits[q] = 0 /\ ~(q = o /\ Due(o))
    BY <1>1, <1>3, <2>1 DEF Inv, TypeOK
  <2>3. ~applied[q]
    BY <2>2 DEF Inv, FlagInv
  <2>4. q # o
    BY <2>1, <2>2, <2>3 DEF Due
  <2>5. PICK v \in Workers : At(v, "bonus") /\ work[v].order = q
    BY <2>1, <2>2 DEF Inv, BonusNotForgotten
  <2> QED
    BY <1>2, <2>4, <2>5 DEF At
<1> QED
  BY <1>4, <1>5, <1>6, <1>7, <1>8 DEF Inv

(* A worker past the bonus is none of those the bonus waits for.             *)
LEMMA LaterStep ==
  ASSUME Inv, NEW w \in Workers, ~At(w, "bonus"),
         work' \in [Workers -> Work], work'[w].pc \in {"idle", "mail"},
         \A v \in Workers : v # w => work'[v] = work[v],
         UNCHANGED <<pay, applied, credits, lost>>
  PROVE  FlagInv' /\ FormInv' /\ BonusNotForgotten'
<1>1. FlagInv' /\ FormInv'
  BY DEF Inv, FlagInv, FormInv
<1>2. BonusNotForgotten'
  BY DEF Inv, BonusNotForgotten, At
<1> QED
  BY <1>1, <1>2

LEMMA NotifyStep ==
  ASSUME Inv, NEW w \in Workers, Notify(w)
  PROVE  Inv'
<1> DEFINE o == work[w].order
<1>1. o \in Orders /\ ~At(w, "bonus") /\ ~At(w, "mail")
  BY DEF Inv, TypeOK, Work, Notify, At
<1>2. /\ work' \in [Workers -> Work]
      /\ work'[w].pc \in {"idle", "mail"}
      /\ work'[w].pc = "mail" => ~logged[o] /\ work'[w].order = o
      /\ \A v \in Workers : v # w => work'[v] = work[v]
  <2>1. CASE logged[o]
    <3>1. Set(w, Idle)
      BY <2>1 DEF Notify
    <3> QED
      BY <3>1, SetOther, IdleType DEF Inv, TypeOK
  <2>2. CASE ~logged[o]
    <3>1. Goto(w, "mail")
      BY <2>2 DEF Notify
    <3> QED
      BY <2>2, <3>1, GotoOther DEF Inv, TypeOK
  <2> QED
    BY <2>1, <2>2
<1>3. logged' = [logged EXCEPT ![o] = TRUE] /\ UNCHANGED <<mails, unsure>>
  BY DEF Notify
<1>4. TypeOK'
  BY <1>1, <1>2, <1>3 DEF Notify, Inv, TypeOK
<1>5. LetterInv'
  <2> SUFFICES ASSUME NEW q \in Unedited
               PROVE  /\ mails'[q] =< 1 + unsure'[q]
                      /\ ~logged'[q] => mails'[q] =< unsure'[q]
                      /\ \A v \in Workers :
                           At(v, "mail")' /\ work'[v].order = q
                             => /\ logged'[q] /\ mails'[q] =< unsure'[q]
                                /\ \A u \in Workers :
                                     At(u, "mail")' /\ work'[u].order = q => u = v
    BY DEF LetterInv
  <2>1. mails'[q] =< 1 + unsure'[q] /\ (~logged'[q] => mails'[q] =< unsure'[q]) /\ (logged[q] => logged'[q])
    BY <1>1, <1>3 DEF Inv, TypeOK, LetterInv, Unedited
  <2>2. ~logged[q] => mails[q] =< unsure[q]
                      /\ \A v \in Workers : ~(At(v, "mail") /\ work[v].order = q)
    BY DEF Inv, LetterInv
  <2>3. CASE work'[w].pc = "mail" /\ o = q
    BY <1>1, <1>2, <1>3, <2>2, <2>3 DEF At, Inv, TypeOK
  <2>4. CASE ~(work'[w].pc = "mail" /\ o = q)
    <3>1. \A v \in Workers : At(v, "mail")' /\ work'[v].order = q
                              => At(v, "mail") /\ work[v].order = q
      BY <1>2, <2>4 DEF At
    <3> QED
      BY <1>3, <2>1, <3>1 DEF Inv, LetterInv
  <2> QED
    BY <2>1, <2>3, <2>4
<1>6. FlagInv' /\ FormInv' /\ BonusNotForgotten'
  BY <1>1, <1>2, LaterStep DEF Notify
<1> QED
  BY <1>4, <1>5, <1>6 DEF Inv

LEMMA MailStep ==
  ASSUME Inv, NEW w \in Workers, Mail(w)
  PROVE  Inv'
<1> DEFINE o == work[w].order
<1>1. o \in Orders /\ ~At(w, "bonus") /\ At(w, "mail")
  BY DEF Inv, TypeOK, Work, Mail, At
<1>2. /\ work' \in [Workers -> Work]
      /\ work'[w].pc = "idle"
      /\ \A v \in Workers : v # w => work'[v] = work[v]
  BY SetOther, IdleType DEF Mail, Inv, TypeOK
<1>3. \/ mails' = [mails EXCEPT ![o] = @ + 1] /\ UNCHANGED <<logged, unsure>>
      \/ logged' = [logged EXCEPT ![o] = FALSE] /\ UNCHANGED <<mails, unsure>>
      \/ /\ mails' = [mails EXCEPT ![o] = @ + 1]
         /\ unsure' = [unsure EXCEPT ![o] = @ + 1]
         /\ logged' = [logged EXCEPT ![o] = FALSE]
  BY DEF Mail
<1>4. TypeOK'
  <2>1. mails' \in [Orders -> Nat] /\ unsure' \in [Orders -> Nat]
    BY <1>1, <1>3 DEF Inv, TypeOK
  <2>2. logged' \in [Orders -> BOOLEAN]
    BY <1>1, <1>3 DEF Inv, TypeOK
  <2>3. UNCHANGED <<status, pay, applied, credits, lost, edits>>
    BY DEF Mail
  <2> QED
    BY <1>2, <2>1, <2>2, <2>3 DEF Inv, TypeOK
<1>5. \A v \in Workers : At(v, "mail")' => v # w /\ At(v, "mail") /\ work'[v] = work[v]
  BY <1>2 DEF At
<1>6. \A q \in Unedited : q = o =>
        /\ logged[q] /\ mails[q] =< unsure[q]
        /\ \A v \in Workers : ~(At(v, "mail")' /\ work'[v].order = q)
  BY <1>1, <1>5 DEF Inv, LetterInv
<1>7. LetterInv'
  <2> SUFFICES ASSUME NEW q \in Unedited
               PROVE  /\ mails'[q] =< 1 + unsure'[q]
                      /\ ~logged'[q] => mails'[q] =< unsure'[q]
                      /\ \A v \in Workers :
                           At(v, "mail")' /\ work'[v].order = q
                             => /\ logged'[q] /\ mails'[q] =< unsure'[q]
                                /\ \A u \in Workers :
                                     At(u, "mail")' /\ work'[u].order = q => u = v
    BY DEF LetterInv
  <2>0. q \in Orders
    BY DEF Unedited
  <2>1. CASE q = o
    BY <1>1, <1>3, <1>6, <2>1 DEF Inv, TypeOK
  <2>2. CASE q # o
    <3>1. mails'[q] = mails[q] /\ logged'[q] = logged[q] /\ unsure'[q] = unsure[q]
      BY <1>1, <1>3, <2>0, <2>2 DEF Inv, TypeOK
    <3> QED
      BY <1>5, <3>1 DEF Inv, LetterInv
  <2> QED
    BY <2>1, <2>2
<1>8. FlagInv' /\ FormInv' /\ BonusNotForgotten'
  BY <1>1, <1>2, LaterStep DEF Mail
<1> QED
  BY <1>4, <1>7, <1>8 DEF Inv

LEMMA CrashStep ==
  ASSUME Inv, NEW w \in Workers, Crash(w)
  PROVE  Inv'
<1> DEFINE o == work[w].order
<1>1. o \in Orders
  BY DEF Inv, TypeOK, Work
<1>2. /\ work' \in [Workers -> Work]
      /\ work'[w].pc = "idle"
      /\ \A v \in Workers : v # w => work'[v] = work[v]
  BY SetOther, IdleType DEF Crash, Inv, TypeOK
<1>3. lost' = [lost EXCEPT ![o] = lost[o] \/ At(w, "bonus")]
  BY DEF Crash
<1>4. TypeOK'
  <2>1. lost' \in [Orders -> BOOLEAN]
    BY <1>1, <1>3, ZenonT(30) DEF Inv, TypeOK, At
  <2>2. UNCHANGED <<rows, edits>>
    BY DEF Crash
  <2> QED
    BY <1>2, <2>1, <2>2 DEF Inv, TypeOK, rows
<1>5. FlagInv' /\ LetterInv'
  BY <1>2, LetterFrame DEF Crash, rows
<1>6. FormInv'
  BY <1>2 DEF Inv, FormInv
<1>7. BonusNotForgotten'
  <2> SUFFICES ASSUME NEW q \in Unedited, pay'[q] = "paid", q \in WithBonus,
                      credits'[q] = 0, ~lost'[q]
               PROVE  \E v \in Workers : At(v, "bonus")' /\ work'[v].order = q
    BY DEF BonusNotForgotten
  <2>1. ~lost[q] /\ ~(q = o /\ At(w, "bonus"))
    BY <1>1, <1>3 DEF Inv, TypeOK, Unedited
  <2>2. PICK v \in Workers : At(v, "bonus") /\ work[v].order = q
    BY <2>1 DEF Inv, BonusNotForgotten, Crash, rows
  <2> QED
    BY <1>2, <2>1, <2>2 DEF At
<1> QED
  BY <1>4, <1>5, <1>6, <1>7 DEF Inv

(* The form writes the row of an edited order only.                          *)
LEMMA AdminSaveFrame ==
  ASSUME Inv, NEW w \in Workers, AdminSave(w)
  PROVE  /\ TypeOK'
         /\ work'[w].pc = "idle"
         /\ \A v \in Workers : v # w => work'[v] = work[v]
         /\ \A q \in Unedited : /\ pay'[q] = pay[q] /\ applied'[q] = applied[q]
                                /\ credits'[q] = credits[q]
                                /\ logged'[q] = logged[q] /\ mails'[q] = mails[q]
                                /\ unsure'[q] = unsure[q]
<1> DEFINE job == work[w]
           o   == work[w].order
           paidNow == job.pay # "paid" /\ job.target = "paid"
           due     == paidNow /\ ~job.flag /\ o \in WithBonus
<1>1. o \in Orders /\ o \notin Unedited /\ job.target \in PayStates /\ job.flag \in BOOLEAN
  BY DEF Inv, TypeOK, Work, AdminSave, At, FormInv, Unedited
<1>2. /\ work' \in [Workers -> Work]
      /\ work'[w].pc = "idle"
      /\ \A v \in Workers : v # w => work'[v] = work[v]
  BY SetOther, IdleType DEF AdminSave, Inv, TypeOK
<1>3. UNCHANGED <<status, lost, edits>>
  BY DEF AdminSave
<1>4. PICK sent \in BOOLEAN, raised \in BOOLEAN :
        /\ mails' = [mails EXCEPT ![o] = IF sent THEN @ + 1 ELSE @]
        /\ unsure' = [unsure EXCEPT ![o] = IF sent /\ raised THEN @ + 1 ELSE @]
        /\ \/ /\ pay' = [pay EXCEPT ![o] = job.target]
              /\ applied' = [applied EXCEPT ![o] = job.flag \/ due]
              /\ credits' = [credits EXCEPT ![o] = IF due THEN @ + 1 ELSE @]
              /\ logged' = [logged EXCEPT ![o] = @ \/ (sent /\ ~raised)]
           \/ UNCHANGED <<pay, applied, credits, logged>>
  BY DEF AdminSave
<1>5. /\ mails' \in [Orders -> Nat] /\ unsure' \in [Orders -> Nat]
      /\ \A q \in Orders : q # o => mails'[q] = mails[q] /\ unsure'[q] = unsure[q]
  BY <1>1, <1>4 DEF Inv, TypeOK
<1>6. CASE UNCHANGED <<pay, applied, credits, logged>>
  BY <1>1, <1>2, <1>3, <1>5, <1>6 DEF Inv, TypeOK, Unedited
<1>7. CASE /\ pay' = [pay EXCEPT ![o] = job.target]
           /\ applied' = [applied EXCEPT ![o] = job.flag \/ due]
           /\ credits' = [credits EXCEPT ![o] = IF due THEN @ + 1 ELSE @]
           /\ logged' = [logged EXCEPT ![o] = @ \/ (sent /\ ~raised)]
  <2>1. pay' \in [Orders -> PayStates] /\ \A q \in Orders : q # o => pay'[q] = pay[q]
    BY <1>1, <1>7 DEF Inv, TypeOK
  <2>2. applied' \in [Orders -> BOOLEAN] /\ \A q \in Orders : q # o => applied'[q] = applied[q]
    <3> DEFINE f == job.flag \/ due
    <3>1. f \in BOOLEAN /\ applied' = [applied EXCEPT ![o] = f]
      BY <1>7
    <3> HIDE DEF f
    <3> QED
      BY <1>1, <3>1 DEF Inv, TypeOK
  <2>3. credits' \in [Orders -> Nat] /\ \A q \in Orders : q # o => credits'[q] = credits[q]
    <3> HIDE DEF due
    <3> QED
      BY <1>1, <1>7 DEF Inv, TypeOK
  <2>4. logged' \in [Orders -> BOOLEAN] /\ \A q \in Orders : q # o => logged'[q] = logged[q]
    <3> DEFINE f == logged[o] \/ (sent /\ ~raised)
    <3>1. f \in BOOLEAN /\ logged' = [logged EXCEPT ![o] = f]
      BY <1>7
    <3> HIDE DEF f
    <3> QED
      BY <1>1, <3>1 DEF Inv, TypeOK
  <2> QED
    BY <1>1, <1>2, <1>3, <1>5, <2>1, <2>2, <2>3, <2>4 DEF Inv, TypeOK, Unedited
<1> QED
  BY <1>4, <1>6, <1>7

LEMMA AdminSaveStep ==
  ASSUME Inv, NEW w \in Workers, AdminSave(w)
  PROVE  Inv'
<1>1. \A v \in Workers : v # w => work'[v] = work[v]
  BY AdminSaveFrame
<1>2. work'[w].pc = "idle" /\ ~At(w, "bonus") /\ UNCHANGED lost
  BY AdminSaveFrame DEF AdminSave, At
<1>3. FlagInv'
  BY AdminSaveFrame DEF Inv, FlagInv
<1>4. \A v \in Workers : At(v, "mail")' => At(v, "mail") /\ work'[v] = work[v]
  BY <1>1, <1>2 DEF At
<1>5. LetterInv'
  BY <1>4, AdminSaveFrame DEF Inv, LetterInv
<1>6. FormInv'
  BY <1>1, <1>2 DEF Inv, FormInv
<1>7. BonusNotForgotten'
  BY <1>1, <1>2, AdminSaveFrame DEF Inv, BonusNotForgotten, At
<1> QED
  BY <1>3, <1>5, <1>6, <1>7, AdminSaveFrame DEF Inv

-----------------------------------------------------------------------------
THEOREM NextInv == Inv /\ [Next]_vars => Inv'
<1> SUFFICES ASSUME Inv, [Next]_vars PROVE Inv'
  OBVIOUS
<1>1. CASE UNCHANGED vars
  BY <1>1 DEF vars, Inv, TypeOK, FlagInv, LetterInv, FormInv, BonusNotForgotten, At
<1>2. ASSUME NEW w \in Workers, NEW p \in Payments, NEW np \in Callbacks,
             Callback(w, p, np)
      PROVE  Inv'
  BY <1>2, CallbackStep
<1>3. ASSUME NEW w \in Workers, NEW o \in Orders, NEW t \in StaffTargets,
             StaffRead(w, o, t)
      PROVE  Inv'
  BY <1>3, StaffReadStep
<1>4. ASSUME NEW w \in Workers, NEW o \in EditedOrders, NEW t \in StaffTargets,
             AdminRead(w, o, t)
      PROVE  Inv'
  BY <1>4, AdminReadStep
<1>5. ASSUME NEW w \in Workers, StaffSave(w) \/ AdminPrevious(w) \/ AdminSave(w)
      PROVE  Inv'
  BY <1>5, StaffSaveStep, AdminPreviousStep, AdminSaveStep
<1>6. ASSUME NEW w \in Workers, Effect(w) \/ Crash(w)
      PROVE  Inv'
  BY <1>6, BonusStep, NotifyStep, MailStep, CrashStep DEF Effect
<1> QED
  BY <1>1, <1>2, <1>3, <1>4, <1>5, <1>6 DEF Next

THEOREM InvHolds == Spec => []Inv
BY InitInv, NextInv, PTL DEF Spec

(* The state of payments, orders and requests has its types.                 *)
THEOREM TypeCorrect == Spec => []TypeOK
<1>1. Inv => TypeOK
  BY DEF Inv
<1> QED
  BY <1>1, InvHolds, PTL

(* The bonus of a paid order is booked, with a worker, or lost by a crash.   *)
THEOREM BonusKept == Spec => []BonusNotForgotten
<1>1. Inv => BonusNotForgotten
  BY DEF Inv
<1> QED
  BY <1>1, InvHolds, PTL

(* The customer of an unedited order gets one letter for his payment, and    *)
(* another one only after the sending of a letter that went out raised        *)
(* (send_order_event_notifications).                                          *)
THEOREM OneLetter == Spec => []NotifiedOnce
<1>1. Inv => NotifiedOnce
  BY DEF Inv, LetterInv, NotifiedOnce
<1> QED
  BY <1>1, InvHolds, PTL

-----------------------------------------------------------------------------
(* The payment status of one order is at most one Settle of the ledger.      *)
LEMMA SettleStep ==
  ASSUME Inv, NEW o \in Orders, NEW t \in PayStates,
         pay' = [pay EXCEPT ![o] = t], UNCHANGED credits
  PROVE  [Ledger!Next]_<<[q \in Unedited |-> pay[q] = "paid"],
                         [q \in Unedited |-> credits[q]]>>
<1> DEFINE p == [q \in Unedited |-> pay[q] = "paid"]
           c == [q \in Unedited |-> credits[q]]
<1>1. \A q \in Unedited : pay'[q] = IF q = o THEN t ELSE pay[q]
  BY DEF Inv, TypeOK, Unedited
<1>2. c' = c
  OBVIOUS
<1>3. CASE o \in Unedited /\ (pay[o] = "paid") # (t = "paid")
  <2>1. p' = [p EXCEPT ![o] = ~p[o]]
    <3>1. \A q \in Unedited : (pay'[q] = "paid") = IF q = o THEN ~(pay[o] = "paid")
                                                  ELSE pay[q] = "paid"
      BY <1>1, <1>3
    <3> QED
      BY <1>3, <3>1
  <2>2. Ledger!Settle(o)
    BY <1>2, <2>1 DEF Ledger!Settle
  <2> QED
    BY <1>3, <2>2 DEF Ledger!Next
<1>4. CASE ~(o \in Unedited /\ (pay[o] = "paid") # (t = "paid"))
  <2>1. \A q \in Unedited : (pay'[q] = "paid") = (pay[q] = "paid")
    BY <1>1, <1>4
  <2>2. p' = p
    BY <2>1
  <2> QED
    BY <1>2, <2>2
<1> QED
  BY <1>3, <1>4

(* A booked bonus is a Credit of an order that is paid and not yet credited. *)
LEMMA CreditStep ==
  ASSUME Inv, NEW w \in Workers, NEW o \in Orders, work[w].order = o, Bonus(w)
  PROVE  [Ledger!Next]_<<[q \in Unedited |-> pay[q] = "paid"],
                         [q \in Unedited |-> credits[q]]>>
<1> DEFINE p == [q \in Unedited |-> pay[q] = "paid"]
           c == [q \in Unedited |-> credits[q]]
<1>1. credits' = IF Due(o) THEN [credits EXCEPT ![o] = @ + 1] ELSE credits
  BY DEF Bonus, PayBonus
<1>2. p' = p
  BY DEF Bonus
<1>3. CASE Due(o) /\ o \in Unedited
  <2>1. pay[o] = "paid" /\ credits[o] = 0
    BY <1>3 DEF Due, Inv, FlagInv
  <2>2. \A q \in Unedited : credits'[q] = IF q = o THEN 1 ELSE credits[q]
    BY <1>1, <1>3, <2>1 DEF Inv, TypeOK, Unedited
  <2>3. c' = [c EXCEPT ![o] = 1]
    BY <2>2
  <2>4. Ledger!Credit(o)
    BY <1>2, <1>3, <2>1, <2>3 DEF Ledger!Credit
  <2> QED
    BY <1>3, <2>4 DEF Ledger!Next
<1>4. CASE ~(Due(o) /\ o \in Unedited)
  <2>1. \A q \in Unedited : credits'[q] = credits[q]
    BY <1>1, <1>4 DEF Inv, TypeOK, Unedited
  <2>2. c' = c
    BY <2>1
  <2> QED
    BY <1>2, <2>2
<1> QED
  BY <1>3, <1>4

LEMMA LedgerStep ==
  ASSUME Inv, [Next]_vars
  PROVE  [Ledger!Next]_<<[q \in Unedited |-> pay[q] = "paid"],
                         [q \in Unedited |-> credits[q]]>>
<1> DEFINE Same == <<[q \in Unedited |-> pay[q] = "paid"],
                     [q \in Unedited |-> credits[q]]>>
<1>1. ASSUME UNCHANGED <<pay, credits>> PROVE UNCHANGED Same
  BY <1>1
<1>2. CASE UNCHANGED vars
  BY <1>1, <1>2 DEF vars
<1>3. ASSUME NEW w \in Workers, NEW p \in Payments, NEW np \in Callbacks,
             Callback(w, p, np)
      PROVE  [Ledger!Next]_Same
  <2>1. OrderOf[p] \in Orders /\ "paid" \in PayStates
    BY PaymentsAssumption DEF PayStates
  <2>2. UNCHANGED credits /\ (pay' = [pay EXCEPT ![OrderOf[p]] = "paid"] \/ UNCHANGED pay)
    BY <1>3 DEF Callback
  <2> QED
    BY <1>1, <2>1, <2>2, SettleStep
<1>4. ASSUME NEW w \in Workers, StaffSave(w)
      PROVE  [Ledger!Next]_Same
  <2>1. work[w].order \in Orders /\ work[w].target \in PayStates
    BY DEF Inv, TypeOK, Work
  <2>2. UNCHANGED credits
        /\ (pay' = [pay EXCEPT ![work[w].order] = work[w].target] \/ UNCHANGED pay)
    BY <1>4 DEF StaffSave
  <2> QED
    BY <1>1, <2>1, <2>2, SettleStep
<1>5. ASSUME NEW w \in Workers, AdminSave(w)
      PROVE  UNCHANGED Same
  BY <1>5, AdminSaveFrame
<1>6. ASSUME NEW w \in Workers, Bonus(w)
      PROVE  [Ledger!Next]_Same
  <2>1. \E o \in Orders : work[w].order = o
    BY DEF Inv, TypeOK, Work
  <2> QED
    BY <1>6, <2>1, CreditStep
<1>7. ASSUME NEW w \in Workers,
             \/ AdminPrevious(w) \/ Notify(w) \/ Mail(w) \/ Crash(w)
             \/ \E o \in Orders, t \in StaffTargets : StaffRead(w, o, t)
             \/ \E o \in EditedOrders, t \in StaffTargets : AdminRead(w, o, t)
      PROVE  UNCHANGED Same
  BY <1>1, <1>7 DEF AdminPrevious, Notify, Mail, Crash, StaffRead, AdminRead, rows
<1> QED
  BY <1>2, <1>3, <1>4, <1>5, <1>6, <1>7 DEF Next, Effect

(* Requests, callbacks and crashes implement the partner ledger: an order     *)
(* that nobody edits in the admin earns its bonus at most once, while paid.   *)
THEOREM LedgerImplemented == Spec => LedgerKept
<1>1. Init => Ledger!Init
  BY DEF Init, Ledger!Init, Unedited
<1>2. Inv /\ [Next]_vars
        => [Ledger!Next]_<<[o \in Unedited |-> pay[o] = "paid"],
                           [o \in Unedited |-> credits[o]]>>
  BY LedgerStep
<1> QED
  BY <1>1, <1>2, InvHolds, PTL DEF Spec, LedgerKept, Ledger!Spec

(* A callback never makes a refunded order paid: a request of the staff does. *)
THEOREM RefundKept == Spec => RefundStays
<1>1. Inv /\ [Next]_vars =>
        [\A o \in Orders :
           pay[o] = "refunded" /\ pay'[o] # "refunded"
             => \E w \in Workers : work[w].pc \in {"save", "overwrite"}
                                   /\ work[w].order = o /\ work'[w] # work[w]]_vars
  <2> SUFFICES ASSUME Inv, Next, NEW o \in Orders,
                      pay[o] = "refunded", pay'[o] # "refunded"
               PROVE  \E w \in Workers : work[w].pc \in {"save", "overwrite"}
                                         /\ work[w].order = o /\ work'[w] # work[w]
    OBVIOUS
  <2>1. ASSUME NEW w \in Workers, NEW p \in Payments, NEW np \in Callbacks,
               Callback(w, p, np)
        PROVE  FALSE
    BY <2>1 DEF Callback, Accepts, Inv, TypeOK
  <2>2. ASSUME NEW w \in Workers, StaffSave(w)
        PROVE  \E v \in Workers : work[v].pc \in {"save", "overwrite"}
                                  /\ work[v].order = o /\ work'[v] # work[v]
    <3>1. work[w].pc = "save" /\ work'[w].pc # "save"
      <4>1. work[w].order \in Orders
        BY DEF Inv, TypeOK, Work
      <4>2. \E job \in Work : job.pc # "save" /\ Set(w, job)
        BY <2>2, <4>1, IdleType, EffectsType DEF StaffSave
      <4> QED
        BY <2>2, <4>2, SetOther DEF StaffSave, At, Inv, TypeOK
    <3>2. work[w].order = o
      BY <2>2 DEF StaffSave, Inv, TypeOK
    <3> QED
      BY <3>1, <3>2
  <2>3. ASSUME NEW w \in Workers, AdminSave(w)
        PROVE  \E v \in Workers : work[v].pc \in {"save", "overwrite"}
                                  /\ work[v].order = o /\ work'[v] # work[v]
    <3>1. work[w].pc = "overwrite" /\ work'[w].pc = "idle"
      BY <2>3, AdminSaveFrame DEF AdminSave, At
    <3>2. \/ pay' = [pay EXCEPT ![work[w].order] = work[w].target]
          \/ UNCHANGED pay
      BY <2>3 DEF AdminSave
    <3>3. work[w].order = o
      BY <3>2 DEF Inv, TypeOK
    <3> QED
      BY <3>1, <3>3
  <2>4. ASSUME NEW w \in Workers,
               \/ AdminPrevious(w) \/ Effect(w) \/ Crash(w)
               \/ \E q \in Orders, t \in StaffTargets : StaffRead(w, q, t)
               \/ \E q \in EditedOrders, t \in StaffTargets : AdminRead(w, q, t)
        PROVE  FALSE
    BY <2>4 DEF AdminPrevious, Effect, Bonus, Notify, Mail, Crash, StaffRead, AdminRead, rows
  <2> QED
    BY <2>1, <2>2, <2>3, <2>4 DEF Next
<1> QED
  BY <1>1, InvHolds, PTL DEF Spec, RefundStays
=============================================================================
