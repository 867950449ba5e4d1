--------------------------- MODULE Accounts_proofs ---------------------------
(* One registration per e-mail, final e-mails and rightly claimed orders, for *)
(* any number of accounts, workers and crashes.                               *)
EXTENDS Accounts, TLAPS

New == Users \ Sessions

(* What the request of a worker may rely on.                                 *)
Fits(w) ==
  LET job == work[w]  u == work[w].user IN
  /\ job.pc = "idle" => ~job.registering /\ u = NoUser
  /\ job.pc # "idle" => u \in Users /\ job.email \in Emails
  /\ job.registering => u \notin Sessions
  /\ job.registering => job.pc \in {"create", "check", "mail", "expire", "issue", "delete"}
  /\ job.pc \in {"create", "delete"} => job.registering
  /\ job.pc = "create" => account[u] = "none"
  /\ job.pc \notin {"idle", "create"} => account[u] # "none"
  /\ job.pc \notin {"idle", "create"} /\ u \in New /\ Exists(u) => job.email = email[u]
  /\ job.pc \in {"consume", "lock", "commit"} /\ u \in New => issued[u]
  /\ job.pc = "commit" => account[u] = "open"

RequestInv == \A w \in Workers : Fits(w)

(* A new account is one worker's, and so is the lock of an account.          *)
AloneInv ==
  \A w, v \in Workers :
    /\ At(w, "create") /\ work[v].user = work[w].user => v = w
    /\ At(w, "commit") /\ At(v, "commit") /\ work[v].user = work[w].user => v = w

AccountInv ==
  \A u \in Users :
    /\ account[u] = "none" => u \in New /\ ~issued[u]
    /\ account[u] = "verified" => email[u] \in Emails
    /\ u \in New /\ (codes[u] # {} \/ account[u] = "verified") => issued[u]

(* Of the new accounts with one e-mail, one at most has passed the check for *)
(* other accounts that precedes its letter.                                  *)
Passed(u) ==
  \/ issued[u]
  \/ \E w \in Workers : work[w].user = u /\ work[w].pc \in {"mail", "expire", "issue"}

PassedInv ==
  \A u, v \in New :
    Exists(u) /\ Exists(v) /\ email[u] = email[v] /\ Passed(u) /\ Passed(v) => u = v

Inv ==
  /\ TypeOK /\ RequestInv /\ AloneInv /\ AccountInv /\ PassedInv
  /\ ClaimedByOwner /\ NoOrphans

Pcs == {"idle", "create", "check", "mail", "expire", "issue", "delete",
        "consume", "lock", "commit", "claim"}

-----------------------------------------------------------------------------
(* The request of one worker changes.                                        *)
LEMMA GotoWork ==
  ASSUME TypeOK, NEW w \in Workers, NEW pc \in Pcs, Goto(w, pc)
  PROVE  /\ work' \in [Workers -> Work]
         /\ work'[w].pc = pc /\ work'[w].user = work[w].user
         /\ work'[w].email = work[w].email /\ work'[w].by = work[w].by
         /\ work'[w].registering = work[w].registering
         /\ \A v \in Workers : v # w => work'[v] = work[v]
BY DEF Goto, TypeOK, Work, Pcs

LEMMA AnswerWork ==
  ASSUME TypeOK, NEW w \in Workers, Answer(w)
  PROVE  /\ work' \in [Workers -> Work]
         /\ work'[w].pc = "idle" /\ work'[w].user = NoUser /\ ~work'[w].registering
         /\ \A v \in Workers : v # w => work'[v] = work[v]
<1>1. Idle(w) \in Work
  BY DEF Idle, Work
<1> QED
  BY <1>1 DEF Answer, TypeOK, Idle

LEMMA BeginWork ==
  ASSUME TypeOK, NEW w \in Workers, NEW pc \in Pcs, NEW u \in Users, NEW e \in Emails,
         NEW by \in Workers, NEW reg \in BOOLEAN, Begin(w, pc, u, e, by, reg)
  PROVE  /\ At(w, "idle")
         /\ work' \in [Workers -> Work]
         /\ work'[w].pc = pc /\ work'[w].user = u /\ work'[w].email = e
         /\ work'[w].registering = reg
         /\ \A v \in Workers : v # w => work'[v] = work[v]
<1> DEFINE job == [pc |-> pc, user |-> u, email |-> e, by |-> by, registering |-> reg]
<1>1. job \in Work /\ job.pc = pc /\ job.user = u /\ job.email = e /\ job.registering = reg
  BY DEF Work, Pcs
<1>2. work' = [work EXCEPT ![w] = job] /\ At(w, "idle")
  BY DEF Begin
<1> HIDE DEF job
<1> QED
  BY <1>1, <1>2 DEF TypeOK

THEOREM InitInv == Init => Inv
<1> SUFFICES ASSUME Init PROVE Inv
  OBVIOUS
<1>1. \A w \in Workers : Idle(w) \in Work /\ Idle(w).pc = "idle" /\ Idle(w).user = NoUser
                         /\ ~Idle(w).registering
  BY DEF Idle, Work
<1>2. TypeOK
  BY <1>1 DEF Init, TypeOK
<1>3. RequestInv
  BY <1>1 DEF Init, RequestInv, Fits
<1>4. AloneInv /\ AccountInv /\ PassedInv
  BY <1>1, AccountsAssumption
     DEF Init, AloneInv, AccountInv, PassedInv, Passed, New, At, Exists
<1>5. ClaimedByOwner /\ NoOrphans
  BY <1>1 DEF Init, ClaimedByOwner, NoOrphans
<1> QED
  BY <1>2, <1>3, <1>4, <1>5 DEF Inv

-----------------------------------------------------------------------------
(* Steps that change the request of one worker and nothing else.             *)
LEMMA RequestStep ==
  ASSUME Inv, NEW w \in Workers, work' \in [Workers -> Work],
         UNCHANGED <<account, email, codes, owner, issued, dead>>,
         \A v \in Workers : v # w => work'[v] = work[v],
         Fits(w)',
         work'[w].pc = "create" => \A v \in Workers : v # w => work[v].user # work'[w].user,
         work'[w].pc # "idle" => \A v \in Workers : At(v, "create") /\ v # w
                                                     => work[v].user # work'[w].user,
         work'[w].pc = "commit" => \A v \in Workers : At(v, "commit")
                                                     => work[v].user # work'[w].user,
         work[w].registering => work'[w].registering /\ work'[w].user = work[w].user,
         \A u, v \in New :
           /\ work'[w].pc \in {"mail", "expire", "issue"} /\ work'[w].user = u
           /\ Exists(u) /\ Exists(v) /\ email[u] = email[v] /\ u # v
           => Passed(u) \/ ~Passed(v)
  PROVE  Inv'
<1>1. TypeOK'
  BY DEF Inv, TypeOK
<1>2. RequestInv'
  BY DEF Inv, RequestInv, Fits, Exists
<1>3. AloneInv'
  <2>1. \A v \in Workers : v # w /\ At(v, "create") => work[v].user # work'[w].user
    BY AccountsAssumption DEF Inv, RequestInv, Fits, At
  <2>2. \A v \in Workers : v # w => (At(v, "create")' <=> At(v, "create"))
                                   /\ (At(v, "commit")' <=> At(v, "commit"))
    BY DEF At
  <2> QED
    BY <2>1, <2>2 DEF Inv, AloneInv, At
<1>4. AccountInv'
  BY DEF Inv, AccountInv
<1>5. PassedInv'
  BY DEF Inv, PassedInv, Passed, Exists
<1>6. ClaimedByOwner' /\ NoOrphans'
  BY DEF Inv, ClaimedByOwner, NoOrphans
<1> QED
  BY <1>1, <1>2, <1>3, <1>4, <1>5, <1>6 DEF Inv

LEMMA RegisterStep ==
  ASSUME Inv, NEW w \in Workers, NEW u \in Users, NEW e \in MayUse[u], Register(w, u, e)
  PROVE  Inv'
<1>1. e \in Emails
  BY AccountsAssumption
<1>2. /\ At(w, "idle")
      /\ work' \in [Workers -> Work]
      /\ work'[w].pc = "create" /\ work'[w].user = u /\ work'[w].email = e
      /\ work'[w].registering = TRUE
      /\ \A v \in Workers : v # w => work'[v] = work[v]
  BY <1>1, BeginWork DEF Register, Inv, Pcs
<1>3. Fits(w)'
  BY <1>1, <1>2 DEF Register, Fits, Inv, AccountInv, New
<1> QED
  BY <1>2, <1>3, RequestStep DEF Register, At, Inv, RequestInv, Fits

(* Requests on accounts that exist begin.                                    *)
LEMMA BeginStep ==
  ASSUME Inv, NEW w \in Workers, NEW u \in Users, NEW e \in Emails, NEW by \in Workers,
         NEW pc \in {"check", "consume", "claim"}, Begin(w, pc, u, e, by, FALSE),
         UNCHANGED <<account, email, codes, owner, issued, dead>>,
         account[u] # "none", u \in New => email[u] = e,
         pc = "consume" /\ u \in New => issued[u]
  PROVE  Inv'
<1>1. pc \in Pcs /\ FALSE \in BOOLEAN
  BY DEF Pcs
<1>2. /\ At(w, "idle")
      /\ work' \in [Workers -> Work]
      /\ work'[w].pc = pc /\ work'[w].user = u /\ work'[w].email = e
      /\ work'[w].registering = FALSE
      /\ \A v \in Workers : v # w => work'[v] = work[v]
  BY <1>1, BeginWork DEF Inv
<1>3. Fits(w)'
  BY <1>2 DEF Fits
<1>4. \A v \in Workers : At(v, "create") => work[v].user # u
  BY DEF Inv, RequestInv, Fits, At
<1> QED
  BY <1>2, <1>3, <1>4, RequestStep DEF At, Inv, RequestInv, Fits

LEMMA ResendStep ==
  ASSUME Inv, NEW w \in Workers, NEW u \in Users, NEW e \in MayUse[u], Resend(w, u, e)
  PROVE  Inv'
<1>1. e \in Emails
  BY AccountsAssumption
<1> QED
  BY <1>1, BeginStep DEF Resend, New

LEMMA ConfirmStep ==
  ASSUME Inv, NEW w \in Workers, NEW u \in Users, NEW e \in MayUse[u], Confirm(w, u, e)
  PROVE  Inv'
<1>1. e \in Emails
  BY AccountsAssumption
<1>2. PICK c \in codes[u] : Begin(w, "consume", u, e, c.by, FALSE)
  BY DEF Confirm
<1>3. c.by \in Workers
  BY DEF Inv, TypeOK, Codes
<1>4. u \in New => issued[u]
  BY DEF Inv, AccountInv, New
<1> QED
  BY <1>1, <1>2, <1>3, <1>4, BeginStep DEF Confirm, New

LEMMA LoginStep ==
  ASSUME Inv, NEW w \in Workers, NEW u \in Users, Login(w, u)
  PROVE  Inv'
<1>1. email[u] \in Emails
  BY DEF Login, Inv, AccountInv
<1> QED
  BY <1>1, BeginStep DEF Login, New

(* A request goes on without a write.                                        *)
LEMMA GotoStep ==
  ASSUME Inv, NEW w \in Workers,
         NEW pc \in {"mail", "expire", "delete", "commit"}, Goto(w, pc),
         UNCHANGED <<account, email, codes, owner, issued, dead>>,
         work[w].pc \in {"check", "mail", "lock"},
         pc = "delete" => work[w].registering,
         pc = "commit" => /\ account[work[w].user] = "open" /\ work[w].pc = "lock"
                          /\ \A v \in Workers : ~(At(v, "commit") /\ work[v].user = work[w].user),
         pc \in {"mail", "expire"} => work[w].pc \in {"check", "mail"},
         pc = "mail" => ~Taken(work[w].email, work[w].user),
         pc = "expire" => work[w].pc = "mail"
  PROVE  Inv'
<1>1. /\ work' \in [Workers -> Work]
      /\ work'[w].pc = pc /\ work'[w].user = work[w].user
      /\ work'[w].email = work[w].email
      /\ work'[w].registering = work[w].registering
      /\ \A v \in Workers : v # w => work'[v] = work[v]
  BY GotoWork DEF Inv, Pcs
<1>2. Fits(w)
  BY DEF Inv, RequestInv
<1>3. Fits(w)'
  BY <1>1, <1>2 DEF Fits, Exists
<1>4. \A v \in Workers : At(v, "create") /\ v # w => work[v].user # work'[w].user
  BY <1>1 DEF Inv, AloneInv, At
<1>5. ASSUME NEW u \in New, NEW v \in New,
             work'[w].pc \in {"mail", "expire", "issue"}, work'[w].user = u,
             Exists(u), Exists(v), email[u] = email[v], u # v
      PROVE  Passed(u) \/ ~Passed(v)
  <2>1. CASE pc = "expire"
    BY <1>1, <1>5, <2>1 DEF Passed
  <2>2. CASE pc = "mail"
    <3>1. work[w].email = email[u] /\ work[w].user = u
      BY <1>1, <1>2, <1>5 DEF Fits
    <3> QED
      BY <1>5, <2>2, <3>1 DEF Taken, New
  <2> QED
    BY <1>1, <1>5, <2>1, <2>2
<1> QED
  BY <1>1, <1>3, <1>4, <1>5, RequestStep DEF At

LEMMA AnswerStep ==
  ASSUME Inv, NEW w \in Workers, Answer(w), ~work[w].registering,
         UNCHANGED <<account, email, codes, owner, issued, dead>>
  PROVE  Inv'
<1>1. /\ work' \in [Workers -> Work]
      /\ work'[w].pc = "idle" /\ work'[w].user = NoUser /\ ~work'[w].registering
      /\ \A v \in Workers : v # w => work'[v] = work[v]
  BY AnswerWork DEF Inv
<1>2. Fits(w)'
  BY <1>1 DEF Fits
<1> QED
  BY <1>1, <1>2, RequestStep

LEMMA RefuseStep ==
  ASSUME Inv, NEW w \in Workers, Refuse(w), work[w].pc \in {"check", "mail"},
         UNCHANGED <<account, email, codes, owner, issued, dead>>
  PROVE  Inv'
BY AnswerStep, GotoStep DEF Refuse

LEMMA CheckStep ==
  ASSUME Inv, NEW w \in Workers, Check(w) PROVE Inv'
BY RefuseStep, GotoStep DEF Check, At, Sendable

LEMMA MailStep ==
  ASSUME Inv, NEW w \in Workers, Mail(w) PROVE Inv'
BY RefuseStep, GotoStep DEF Mail, At

LEMMA LockStep ==
  ASSUME Inv, NEW w \in Workers, Lock(w) PROVE Inv'
<1>1. ~work[w].registering
  BY DEF Lock, At, Inv, RequestInv, Fits
<1> QED
  BY <1>1, AnswerStep, GotoStep DEF Lock, At, Confirmed

-----------------------------------------------------------------------------
LEMMA CreateStep ==
  ASSUME Inv, NEW w \in Workers, Create(w)
  PROVE  Inv'
<1> DEFINE u == work[w].user
<1>1. /\ work' \in [Workers -> Work]
      /\ work'[w].pc = "check" /\ work'[w].user = work[w].user
      /\ work'[w].email = work[w].email
      /\ work'[w].registering = work[w].registering
      /\ \A v \in Workers : v # w => work'[v] = work[v]
  BY GotoWork DEF Create, Inv, Pcs
<1>2. /\ u \in New /\ work[w].email \in Emails /\ account[u] = "none"
      /\ work[w].registering /\ ~issued[u]
      /\ \A v \in Workers : v # w => work[v].user # u
  BY DEF Create, At, Inv, RequestInv, Fits, AloneInv, AccountInv, New
<1>3. /\ account' = [account EXCEPT ![u] = "open"]
      /\ email' = [email EXCEPT ![u] = work[w].email]
      /\ UNCHANGED <<codes, owner, issued, dead>>
  BY DEF Create
<1>4. TypeOK'
  BY <1>1, <1>2, <1>3 DEF Inv, TypeOK, New
<1>5. /\ account'[u] = "open" /\ email'[u] = work[w].email
      /\ \A x \in Users : x # u => account'[x] = account[x] /\ email'[x] = email[x]
  BY <1>2, <1>3 DEF Inv, TypeOK, New
<1>6. RequestInv'
  <2>1. Fits(w)'
    BY <1>1, <1>2, <1>5 DEF Inv, RequestInv, Fits, New
  <2>2. ASSUME NEW v \in Workers, v # w PROVE Fits(v)'
    <3>1. Fits(v) /\ work'[v] = work[v] /\ work[v].user # u
      BY <1>1, <1>2, <2>2 DEF Inv, RequestInv
    <3> QED
      BY <1>3, <1>5, <3>1 DEF Fits, Exists, New
  <2> QED
    BY <2>1, <2>2 DEF RequestInv
<1>7. AloneInv'
  BY <1>1, <1>2 DEF Inv, AloneInv, At
<1>8. AccountInv'
  BY <1>2, <1>3, <1>5 DEF Inv, AccountInv
<1>9. PassedInv'
  <2>1. \A x \in New : x = u => ~Passed(x)'
    BY <1>1, <1>2, <1>3 DEF Passed
  <2>2. \A x \in New : x # u => (Passed(x)' <=> Passed(x)) /\ (Exists(x)' <=> Exists(x))
    BY <1>1, <1>2, <1>3, <1>5 DEF Passed, Exists, New
  <2> SUFFICES ASSUME NEW x \in New, NEW v \in New, Exists(x)', Exists(v)',
                      email'[x] = email'[v], Passed(x)', Passed(v)'
               PROVE  x = v
    BY DEF PassedInv
  <2>3. x # u /\ v # u
    BY <2>1
  <2>4. Exists(x) /\ Exists(v) /\ Passed(x) /\ Passed(v) /\ email[x] = email[v]
    BY <1>5, <2>2, <2>3 DEF New
  <2> QED
    BY <2>4 DEF Inv, PassedInv
<1>10. ClaimedByOwner'
  BY <1>2, <1>3, <1>5 DEF Inv, TypeOK, ClaimedByOwner
<1>11. NoOrphans'
  <2> SUFFICES ASSUME NEW x \in New, account'[x] = "open", ~issued'[x], ~dead'[x]
               PROVE  \E v \in Workers : work'[v].registering /\ work'[v].user = x
    BY DEF NoOrphans, New
  <2>1. CASE x = u
    BY <1>1, <1>2, <2>1
  <2>2. CASE x # u
    <3>1. PICK v \in Workers : work[v].registering /\ work[v].user = x
      BY <1>3, <1>5, <2>2 DEF Inv, NoOrphans, New
    <3> QED
      BY <1>1, <2>2, <3>1
  <2> QED
    BY <2>1, <2>2
<1> QED
  BY <1>4, <1>6, <1>7, <1>8, <1>9, <1>10, <1>11 DEF Inv

(* Steps that write codes or a history, or end a request.                    *)
LEMMA CodesStep ==
  ASSUME Inv, NEW w \in Workers, work' \in [Workers -> Work],
         UNCHANGED <<account, email, owner>>,
         codes' \in [Users -> SUBSET Codes],
         issued' \in [Users -> BOOLEAN], dead' \in [Users -> BOOLEAN],
         \A v \in Workers : v # w => work'[v] = work[v],
         work'[w].pc \in {"idle", "issue", "lock"},
         work'[w].user = work[w].user \/ work'[w].pc = "idle",
         Fits(w)',
         \A u \in Users : issued[u] => issued'[u],
         \A u \in New : codes'[u] # {} => codes[u] # {} \/ issued'[u],
         \A u \in Users : issued'[u] /\ ~issued[u] => Exists(u) /\ Passed(u),
         \A u \in Users : dead[u] => dead'[u],
         work'[w].pc = "issue" => work[w].pc = "expire",
         work'[w].pc = "lock" => work[w].pc = "consume",
         work[w].registering =>
           \/ work'[w].registering
           \/ account[work[w].user] # "open" \/ issued'[work[w].user] \/ dead'[work[w].user]
  PROVE  Inv'
<1>1. TypeOK'
  BY DEF Inv, TypeOK
<1>2. RequestInv'
  <2>1. ASSUME NEW v \in Workers, v # w PROVE Fits(v)'
    <3>1. Fits(v) /\ work'[v] = work[v]
      BY <2>1 DEF Inv, RequestInv
    <3> QED
      BY <3>1 DEF Fits, Exists, New
  <2> QED
    BY <2>1 DEF RequestInv
<1>3. AloneInv'
  <2>1. \A v \in Workers : v # w /\ At(v, "create") => work[v].user # work'[w].user
    <3>1. CASE work'[w].pc = "idle"
      BY <3>1, AccountsAssumption DEF Inv, RequestInv, Fits, At
    <3>2. CASE work'[w].pc # "idle"
      BY <3>2 DEF Inv, AloneInv, At
    <3> QED
      BY <3>1, <3>2
  <2>2. \A v \in Workers : v # w => (At(v, "create")' <=> At(v, "create"))
                                   /\ (At(v, "commit")' <=> At(v, "commit"))
    BY DEF At
  <2> QED
    BY <2>1, <2>2 DEF Inv, AloneInv, At
<1>4. AccountInv'
  <2>1. ASSUME NEW u \in Users PROVE /\ account'[u] = "none" => u \in New /\ ~issued'[u]
                                     /\ account'[u] = "verified" => email'[u] \in Emails
    BY DEF Inv, AccountInv, Exists
  <2>2. ASSUME NEW u \in New, codes'[u] # {} \/ account'[u] = "verified"
        PROVE  issued'[u]
    BY <2>2 DEF Inv, AccountInv, New
  <2> QED
    BY <2>1, <2>2 DEF AccountInv, New
<1>5. PassedInv'
  <2>1. \A u \in New : Passed(u)' => Passed(u)
    <3> SUFFICES ASSUME NEW u \in New, Passed(u)' PROVE Passed(u)
      OBVIOUS
    <3>1. CASE issued'[u]
      BY <3>1 DEF Passed, New
    <3>2. CASE \E v \in Workers : work'[v].user = u /\ work'[v].pc \in {"mail", "expire", "issue"}
      BY <3>2 DEF Passed
    <3> QED
      BY <3>1, <3>2 DEF Passed
  <2> QED
    BY <2>1 DEF Inv, PassedInv, Exists
<1>6. ClaimedByOwner'
  BY DEF Inv, ClaimedByOwner
<1>7. NoOrphans'
  <2> SUFFICES ASSUME NEW u \in New, account'[u] = "open", ~issued'[u], ~dead'[u]
               PROVE  \E v \in Workers : work'[v].registering /\ work'[v].user = u
    BY DEF NoOrphans, New
  <2>1. PICK v \in Workers : work[v].registering /\ work[v].user = u
    BY DEF Inv, NoOrphans, New
  <2>2. CASE v = w
    <3>1. work'[w].registering
      BY <2>1, <2>2
    <3>2. work'[w].pc # "idle"
      BY <3>1 DEF Fits
    <3> QED
      BY <2>1, <2>2, <3>1, <3>2
  <2>3. CASE v # w
    BY <2>1, <2>3
  <2> QED
    BY <2>2, <2>3
<1> QED
  BY <1>1, <1>2, <1>3, <1>4, <1>5, <1>6, <1>7 DEF Inv

LEMMA ExpireStep ==
  ASSUME Inv, NEW w \in Workers, Expire(w) PROVE Inv'
<1>1. /\ work' \in [Workers -> Work]
      /\ work'[w].pc = "issue" /\ work'[w].user = work[w].user
      /\ work'[w].email = work[w].email
      /\ work'[w].registering = work[w].registering
      /\ \A v \in Workers : v # w => work'[v] = work[v]
  BY GotoWork DEF Expire, Inv, Pcs
<1>2. Fits(w) /\ work[w].pc = "expire" /\ UNCHANGED <<account, email, owner, issued, dead>>
  BY DEF Expire, At, Inv, RequestInv
<1>3. Fits(w)'
  BY <1>1, <1>2 DEF Fits, Exists
<1>4. codes' \in [Users -> SUBSET Codes] /\ \A u \in Users : codes'[u] # {} => codes[u] # {}
  BY DEF Expire, Inv, TypeOK
<1> QED
  BY <1>1, <1>2, <1>3, <1>4, CodesStep DEF Inv, TypeOK, New

LEMMA IssueStep ==
  ASSUME Inv, NEW w \in Workers, Issue(w) PROVE Inv'
<1> DEFINE u == work[w].user
<1>1. /\ work' \in [Workers -> Work]
      /\ work'[w].pc = "idle" /\ work'[w].user = NoUser /\ ~work'[w].registering
      /\ \A v \in Workers : v # w => work'[v] = work[v]
  BY AnswerWork DEF Issue, Inv
<1>2. /\ work[w].pc = "issue" /\ u \in Users /\ work[w].email \in Emails
      /\ UNCHANGED <<account, email, owner, dead>>
  BY DEF Issue, At, Inv, RequestInv, Fits
<1>3. Fits(w)'
  BY <1>1 DEF Fits
<1>4. Passed(u)
  BY <1>2 DEF Passed
<1>5. CASE Exists(u)
  <2> DEFINE c == [email |-> work[w].email, age |-> 0, by |-> w]
  <2>1. c \in Codes
    BY <1>2 DEF Codes
  <2>2. codes' = [codes EXCEPT ![u] = codes[u] \cup {c}] /\ issued' = [issued EXCEPT ![u] = TRUE]
    BY <1>5 DEF Issue
  <2> HIDE DEF c
  <2>3. codes' \in [Users -> SUBSET Codes] /\ issued' \in [Users -> BOOLEAN]
    BY <1>2, <2>1, <2>2 DEF Inv, TypeOK
  <2>4. \A x \in Users : /\ x = u => issued'[x]
                         /\ x # u => issued'[x] = issued[x] /\ codes'[x] = codes[x]
    BY <1>2, <2>2 DEF Inv, TypeOK
  <2> QED
    BY <1>1, <1>2, <1>3, <1>4, <1>5, <2>3, <2>4, CodesStep DEF Inv, TypeOK, New
<1>6. CASE ~Exists(u)
  <2>1. UNCHANGED <<codes, issued>>
    BY <1>6 DEF Issue
  <2> QED
    BY <1>1, <1>2, <1>3, <1>6, <2>1, CodesStep DEF Inv, TypeOK, New, Exists
<1> QED
  BY <1>5, <1>6

LEMMA ConsumeStep ==
  ASSUME Inv, NEW w \in Workers, Consume(w) PROVE Inv'
<1> DEFINE u == work[w].user
<1>1. /\ work' \in [Workers -> Work]
      /\ work'[w].pc = "lock" /\ work'[w].user = work[w].user
      /\ work'[w].email = work[w].email
      /\ work'[w].registering = work[w].registering
      /\ \A v \in Workers : v # w => work'[v] = work[v]
  BY GotoWork DEF Consume, Inv, Pcs
<1>2. Fits(w) /\ work[w].pc = "consume" /\ UNCHANGED <<account, email, owner, issued, dead>>
  BY DEF Consume, At, Inv, RequestInv
<1>3. Fits(w)'
  BY <1>1, <1>2 DEF Fits, Exists
<1>4. codes' \in [Users -> SUBSET Codes] /\ \A x \in Users : codes'[x] # {} => codes[x] # {}
  BY <1>2 DEF Consume, Inv, TypeOK, Fits
<1> QED
  BY <1>1, <1>2, <1>3, <1>4, CodesStep DEF Inv, TypeOK, New

LEMMA CrashStep ==
  ASSUME Inv, NEW w \in Workers, Crash(w) PROVE Inv'
<1>1. /\ work' \in [Workers -> Work]
      /\ work'[w].pc = "idle" /\ work'[w].user = NoUser /\ ~work'[w].registering
      /\ \A v \in Workers : v # w => work'[v] = work[v]
  BY AnswerWork DEF Crash, Inv
<1>2. UNCHANGED <<account, email, codes, owner, issued>> /\ work[w].user \in Users
  BY DEF Crash, At, Inv, RequestInv, Fits
<1>3. Fits(w)'
  BY <1>1 DEF Fits
<1>4. /\ dead' \in [Users -> BOOLEAN] /\ \A u \in Users : dead[u] => dead'[u]
      /\ work[w].registering => dead'[work[w].user]
  BY <1>2 DEF Crash, Inv, TypeOK
<1> QED
  BY <1>1, <1>2, <1>3, <1>4, CodesStep DEF Inv, TypeOK, New

-----------------------------------------------------------------------------
LEMMA AgeStep ==
  ASSUME Inv, NEW u \in Users, Age(u) PROVE Inv'
<1>1. UNCHANGED <<account, email, owner, work, issued, dead>> /\ codes[u] # {}
  BY DEF Age
<1>2. codes' \in [Users -> SUBSET Codes]
  <2> DEFINE aged == {[c EXCEPT !.age = 1] : c \in {d \in codes[u] : d.age = 0}}
  <2>1. aged \in SUBSET Codes
    BY DEF Inv, TypeOK, Codes
  <2>2. codes' = [codes EXCEPT ![u] = aged]
    BY DEF Age
  <2> HIDE DEF aged
  <2> QED
    BY <2>1, <2>2 DEF Inv, TypeOK
<1>3. \A x \in Users : codes'[x] # {} => codes[x] # {}
  BY <1>1 DEF Age, Inv, TypeOK
<1>4. TypeOK'
  BY <1>1, <1>2 DEF Inv, TypeOK
<1>5. RequestInv' /\ AloneInv' /\ PassedInv' /\ ClaimedByOwner' /\ NoOrphans'
  BY <1>1 DEF Inv, RequestInv, Fits, AloneInv, At, PassedInv, Passed, Exists,
              ClaimedByOwner, NoOrphans
<1>6. AccountInv'
  BY <1>1, <1>3 DEF Inv, AccountInv, New
<1> QED
  BY <1>4, <1>5, <1>6 DEF Inv

(* The request of a worker ends, or goes on to claim, as an account is        *)
(* deleted or confirmed.                                                      *)
LEMMA DeleteStep ==
  ASSUME Inv, NEW w \in Workers, Delete(w) PROVE Inv'
<1> DEFINE u == work[w].user
<1>1. /\ work' \in [Workers -> Work]
      /\ work'[w].pc = "idle" /\ work'[w].user = NoUser /\ ~work'[w].registering
      /\ \A v \in Workers : v # w => work'[v] = work[v]
  BY AnswerWork DEF Delete, Inv
<1>2. u \in Users /\ account[u] # "none" /\ UNCHANGED <<issued, dead>>
  BY DEF Delete, At, Inv, RequestInv, Fits
<1>3. /\ account' = [account EXCEPT ![u] = "deleted"]
      /\ email' = [email EXCEPT ![u] = NoEmail]
      /\ codes' = [codes EXCEPT ![u] = {}]
      /\ owner' = [g \in GuestOrders |-> IF owner[g] = u THEN NoUser ELSE owner[g]]
  BY DEF Delete
<1>4. TypeOK'
  BY <1>1, <1>2, <1>3 DEF Inv, TypeOK
<1>5. /\ account'[u] = "deleted" /\ codes'[u] = {}
      /\ \A x \in Users : x # u => /\ account'[x] = account[x] /\ email'[x] = email[x]
                                  /\ codes'[x] = codes[x]
  BY <1>2, <1>3 DEF Inv, TypeOK
<1>6. RequestInv'
  <2>1. Fits(w)'
    BY <1>1 DEF Fits
  <2>2. ASSUME NEW v \in Workers, v # w PROVE Fits(v)'
    <3>1. Fits(v) /\ work'[v] = work[v] /\ ~(At(v, "commit") /\ work[v].user = u)
      BY <1>1, <2>2 DEF Inv, RequestInv, Delete
    <3>2. CASE work[v].user = u
      BY <1>2, <1>5, <3>1, <3>2 DEF Fits, Exists, At
    <3>3. CASE work[v].user # u
      <4>1. CASE work[v].pc = "idle"
        BY <3>1, <4>1 DEF Fits
      <4>2. CASE work[v].pc # "idle"
        BY <1>2, <1>5, <3>1, <3>3, <4>2 DEF Fits, Exists
      <4> QED
        BY <4>1, <4>2
    <3> QED
      BY <3>2, <3>3
  <2> QED
    BY <2>1, <2>2 DEF RequestInv
<1>7. AloneInv'
  <2>1. \A v \in Workers : v # w /\ At(v, "create") => work[v].user # NoUser
    BY AccountsAssumption DEF Inv, RequestInv, Fits, At
  <2> QED
    BY <1>1, <2>1 DEF Inv, AloneInv, At
<1>8. AccountInv'
  BY <1>2, <1>5 DEF Inv, AccountInv, New
<1>9. PassedInv'
  <2> SUFFICES ASSUME NEW x \in New, NEW v \in New, Exists(x)', Exists(v)',
                      email'[x] = email'[v], Passed(x)', Passed(v)'
               PROVE  x = v
    BY DEF PassedInv
  <2>1. x # u /\ v # u
    BY <1>5 DEF Exists
  <2>2. Passed(x) /\ Passed(v)
    BY <1>1, <1>2 DEF Passed
  <2>3. Exists(x) /\ Exists(v) /\ email[x] = email[v]
    BY <1>5, <2>1 DEF Exists, New
  <2> QED
    BY <2>2, <2>3 DEF Inv, PassedInv
<1>10. ClaimedByOwner'
  <2> SUFFICES ASSUME NEW g \in GuestOrders, owner'[g] # NoUser
               PROVE  account'[owner'[g]] = "verified" /\ email'[owner'[g]] = OrderEmail[g]
    BY DEF ClaimedByOwner
  <2>1. owner'[g] = owner[g] /\ owner[g] # u /\ owner[g] \in Users
    BY <1>3 DEF Inv, TypeOK
  <2> QED
    BY <1>5, <2>1 DEF Inv, ClaimedByOwner
<1>11. NoOrphans'
  <2> SUFFICES ASSUME NEW x \in New, account'[x] = "open", ~issued'[x], ~dead'[x]
               PROVE  \E v \in Workers : work'[v].registering /\ work'[v].user = x
    BY DEF NoOrphans, New
  <2>1. x # u /\ account[x] = "open"
    BY <1>5 DEF New
  <2>2. PICK v \in Workers : work[v].registering /\ work[v].user = x
    BY <1>2, <2>1 DEF Inv, NoOrphans, New
  <2> QED
    BY <1>1, <2>1, <2>2
<1> QED
  BY <1>4, <1>6, <1>7, <1>8, <1>9, <1>10, <1>11 DEF Inv

LEMMA CommitStep ==
  ASSUME Inv, NEW w \in Workers, Commit(w) PROVE Inv'
<1> DEFINE u == work[w].user
<1>1. /\ work' \in [Workers -> Work]
      /\ work'[w].pc = "claim" /\ work'[w].user = work[w].user
      /\ work'[w].email = work[w].email
      /\ work'[w].registering = work[w].registering
      /\ \A v \in Workers : v # w => work'[v] = work[v]
  BY GotoWork DEF Commit, Inv, Pcs
<1>2. /\ u \in Users /\ work[w].email \in Emails /\ account[u] = "open"
      /\ ~work[w].registering
      /\ u \in New => work[w].email = email[u] /\ issued[u]
      /\ UNCHANGED <<owner, issued, dead>>
  BY DEF Commit, At, Inv, RequestInv, Fits, Exists
<1>3. /\ account' = [account EXCEPT ![u] = "verified"]
      /\ email' = [email EXCEPT ![u] = work[w].email]
      /\ codes' = [codes EXCEPT ![u] = {}]
  BY DEF Commit
<1>4. TypeOK'
  BY <1>1, <1>2, <1>3 DEF Inv, TypeOK
<1>5. /\ account'[u] = "verified" /\ email'[u] = work[w].email /\ codes'[u] = {}
      /\ \A x \in Users : x # u => /\ account'[x] = account[x] /\ email'[x] = email[x]
                                  /\ codes'[x] = codes[x]
  BY <1>2, <1>3 DEF Inv, TypeOK
<1>6. RequestInv'
  <2>1. Fits(w)'
    BY <1>1, <1>2, <1>5 DEF Fits
  <2>2. ASSUME NEW v \in Workers, v # w PROVE Fits(v)'
    <3>1. Fits(v) /\ work'[v] = work[v] /\ ~(At(v, "commit") /\ work[v].user = u)
      BY <1>1, <2>2 DEF Inv, RequestInv, Commit, AloneInv
    <3>2. CASE work[v].user = u
      BY <1>2, <1>5, <3>1, <3>2 DEF Fits, Exists, At
    <3>3. CASE work[v].user # u
      <4>1. CASE work[v].pc = "idle"
        BY <3>1, <4>1 DEF Fits
      <4>2. CASE work[v].pc # "idle"
        BY <1>2, <1>5, <3>1, <3>3, <4>2 DEF Fits, Exists
      <4> QED
        BY <4>1, <4>2
    <3> QED
      BY <3>2, <3>3
  <2> QED
    BY <2>1, <2>2 DEF RequestInv
<1>7. AloneInv'
  BY <1>1 DEF Inv, AloneInv, At
<1>8. AccountInv'
  BY <1>2, <1>5 DEF Inv, AccountInv, New
<1>9. PassedInv'
  <2> SUFFICES ASSUME NEW x \in New, NEW v \in New, Exists(x)', Exists(v)',
                      email'[x] = email'[v], Passed(x)', Passed(v)'
               PROVE  x = v
    BY DEF PassedInv
  <2>1. \A y \in New : email'[y] = email[y] /\ (Exists(y)' <=> Exists(y))
    BY <1>2, <1>5 DEF Exists, New
  <2>2. Passed(x) /\ Passed(v)
    BY <1>1, <1>2 DEF Passed
  <2> QED
    BY <2>1, <2>2 DEF Inv, PassedInv
<1>10. ClaimedByOwner'
  BY <1>2, <1>5 DEF Inv, TypeOK, ClaimedByOwner
<1>11. NoOrphans'
  <2> SUFFICES ASSUME NEW x \in New, account'[x] = "open", ~issued'[x], ~dead'[x]
               PROVE  \E v \in Workers : work'[v].registering /\ work'[v].user = x
    BY DEF NoOrphans, New
  <2>1. x # u /\ account[x] = "open"
    BY <1>5 DEF New
  <2>2. PICK v \in Workers : work[v].registering /\ work[v].user = x
    BY <1>2, <2>1 DEF Inv, NoOrphans, New
  <2> QED
    BY <1>1, <2>1, <2>2
<1> QED
  BY <1>4, <1>6, <1>7, <1>8, <1>9, <1>10, <1>11 DEF Inv

LEMMA ClaimStep ==
  ASSUME Inv, NEW w \in Workers, Claim(w) PROVE Inv'
<1> DEFINE u == work[w].user
<1>1. /\ work' \in [Workers -> Work]
      /\ work'[w].pc = "idle" /\ work'[w].user = NoUser /\ ~work'[w].registering
      /\ \A v \in Workers : v # w => work'[v] = work[v]
  BY AnswerWork DEF Claim, Inv
<1>2. u \in Users /\ ~work[w].registering /\ UNCHANGED <<account, email, codes, issued, dead>>
  BY DEF Claim, At, Inv, RequestInv, Fits
<1>3. owner' = [g \in GuestOrders |-> IF Claimable(g, u) THEN u ELSE owner[g]]
  BY DEF Claim, Claims
<1>4. TypeOK'
  BY <1>1, <1>2, <1>3 DEF Inv, TypeOK
<1>5. Fits(w)'
  BY <1>1 DEF Fits
<1>6. RequestInv'
  <2>1. ASSUME NEW v \in Workers, v # w PROVE Fits(v)'
    <3>1. Fits(v) /\ work'[v] = work[v]
      BY <1>1, <2>1 DEF Inv, RequestInv
    <3> QED
      BY <1>2, <3>1 DEF Fits, Exists
  <2> QED
    BY <1>5, <2>1 DEF RequestInv
<1>7. AloneInv'
  <2>1. \A v \in Workers : v # w /\ At(v, "create") => work[v].user # NoUser
    BY AccountsAssumption DEF Inv, RequestInv, Fits, At
  <2> QED
    BY <1>1, <2>1 DEF Inv, AloneInv, At
<1>8. AccountInv' /\ PassedInv'
  BY <1>1, <1>2 DEF Inv, AccountInv, PassedInv, Passed, Exists
<1>9. ClaimedByOwner'
  BY <1>2, <1>3 DEF Inv, ClaimedByOwner, Claimable
<1>10. NoOrphans'
  BY <1>1, <1>2 DEF Inv, NoOrphans
<1> QED
  BY <1>4, <1>6, <1>7, <1>8, <1>9, <1>10 DEF Inv

-----------------------------------------------------------------------------
THEOREM NextInv == Inv /\ [Next]_vars => Inv'
<1> SUFFICES ASSUME Inv, [Next]_vars PROVE Inv'
  OBVIOUS
<1>1. CASE UNCHANGED vars
  BY <1>1 DEF vars, Inv, TypeOK, RequestInv, Fits, AloneInv, At, AccountInv, PassedInv,
              Passed, Exists, ClaimedByOwner, NoOrphans
<1>2. ASSUME NEW w \in Workers, NEW u \in Users, NEW e \in MayUse[u],
             Register(w, u, e) \/ Resend(w, u, e) \/ Confirm(w, u, e)
      PROVE  Inv'
  BY <1>2, RegisterStep, ResendStep, ConfirmStep
<1>3. ASSUME NEW w \in Workers, NEW u \in Users, Login(w, u) PROVE Inv'
  BY <1>3, LoginStep
<1>4. ASSUME NEW w \in Workers,
             \/ Create(w) \/ Delete(w) \/ Check(w) \/ Mail(w) \/ Expire(w) \/ Issue(w)
             \/ Consume(w) \/ Lock(w) \/ Commit(w) \/ Claim(w) \/ Crash(w)
      PROVE  Inv'
  BY <1>4, CreateStep, DeleteStep, CheckStep, MailStep, ExpireStep, IssueStep,
     ConsumeStep, LockStep, CommitStep, ClaimStep, CrashStep
<1>5. ASSUME NEW u \in Users, Age(u) PROVE Inv'
  BY <1>5, AgeStep
<1> QED
  BY <1>1, <1>2, <1>3, <1>4, <1>5 DEF Next

THEOREM InvHolds == Spec => []Inv
BY InitInv, NextInv, PTL DEF Spec

(* Accounts, codes and requests keep their types.                            *)
THEOREM TypeCorrect == Spec => []TypeOK
<1>1. Inv => TypeOK
  BY DEF Inv
<1> QED
  BY <1>1, InvHolds, PTL

(* Of all registrations with one e-mail one at most is confirmed.            *)
THEOREM RegisteredOnce == Spec => []OneRegistration
<1>1. Inv => OneRegistration
  BY DEF Inv, AccountInv, PassedInv, Passed, Exists, OneRegistration, New
<1> QED
  BY <1>1, InvHolds, PTL

(* A claimed order belongs to the account whose confirmed e-mail it has.     *)
THEOREM RightOwner == Spec => []ClaimedByOwner
<1>1. Inv => ClaimedByOwner
  BY DEF Inv
<1> QED
  BY <1>1, InvHolds, PTL

(* No account is left without a letter unless its worker died.               *)
THEOREM Answered == Spec => []NoOrphans
<1>1. Inv => NoOrphans
  BY DEF Inv
<1> QED
  BY <1>1, InvHolds, PTL

(* A confirmed e-mail is final as long as the account exists.                *)
THEOREM FinalEmail == Spec => EmailIsFinal
<1>1. Inv /\ [Next]_vars =>
        [\A u \in Users :
           account[u] = "verified" /\ account'[u] # "deleted"
             => account'[u] = "verified" /\ email'[u] = email[u]]_vars
  <2> SUFFICES ASSUME Inv, Next, NEW u \in Users,
                      account[u] = "verified", account'[u] # "deleted"
               PROVE  account'[u] = "verified" /\ email'[u] = email[u]
    OBVIOUS
  <2>1. ASSUME NEW w \in Workers, Create(w) \/ Commit(w)
        PROVE  work[w].user # u
    BY <2>1 DEF Create, Commit, At, Inv, RequestInv, Fits
  <2>2. ASSUME NEW w \in Workers, Create(w) \/ Commit(w) \/ Delete(w)
        PROVE  account'[u] = "verified" /\ email'[u] = email[u]
    BY <2>1, <2>2 DEF Create, Commit, Delete, Inv, TypeOK
  <2>3. ASSUME UNCHANGED <<account, email>>
        PROVE  account'[u] = "verified" /\ email'[u] = email[u]
    BY <2>3
  <2> QED
    BY <2>2, <2>3 DEF Next, Register, Resend, Confirm, Login, Check, Mail, Expire, Issue,
                      Consume, Lock, Claim, Crash, Age
<1> QED
  BY <1>1, InvHolds, PTL DEF Spec, EmailIsFinal

(* A claimed order changes hands only by the deletion of its account.        *)
THEOREM ClaimsStay == Spec => ClaimedOnce
<1>1. Inv /\ [Next]_vars =>
        [\A g \in GuestOrders :
           owner[g] # NoUser => owner'[g] \in {owner[g], NoUser}]_vars
  <2> SUFFICES ASSUME Inv, Next, NEW g \in GuestOrders, owner[g] # NoUser
               PROVE  owner'[g] \in {owner[g], NoUser}
    OBVIOUS
  <2>1. ASSUME NEW w \in Workers, Delete(w)
        PROVE  owner'[g] \in {owner[g], NoUser}
    BY <2>1 DEF Delete
  <2>2. ASSUME NEW w \in Workers, Claim(w)
        PROVE  owner'[g] = owner[g]
    BY <2>2 DEF Claim, Claims, Claimable
  <2>3. ASSUME UNCHANGED owner
        PROVE  owner'[g] = owner[g]
    BY <2>3
  <2>4. ASSUME NEW w \in Workers,
               \/ Create(w) \/ Check(w) \/ Mail(w) \/ Expire(w) \/ Issue(w)
               \/ Consume(w) \/ Lock(w) \/ Commit(w) \/ Crash(w)
        PROVE  UNCHANGED owner
    BY <2>4 DEF Create, Check, Mail, Expire, Issue, Consume, Lock, Commit, Crash
  <2>5. ASSUME NEW w \in Workers, NEW u \in Users,
               \/ \E e \in MayUse[u] : Register(w, u, e) \/ Resend(w, u, e) \/ Confirm(w, u, e)
               \/ Login(w, u)
        PROVE  UNCHANGED owner
    BY <2>5 DEF Register, Resend, Confirm, Login
  <2>6. ASSUME NEW u \in Users, Age(u)
        PROVE  UNCHANGED owner
    BY <2>6 DEF Age
  <2> QED
    BY <2>1, <2>2, <2>3, <2>4, <2>5, <2>6 DEF Next
<1> QED
  BY <1>1, InvHolds, PTL DEF Spec, ClaimedOnce
=============================================================================
