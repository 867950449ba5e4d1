------------------------------ MODULE Accounts ------------------------------
(* Accounts, the codes that confirm their e-mail, and the guest orders that  *)
(* a confirmed e-mail brings into an account.                                *)
(*                                                                           *)
(* E-mails are not unique in the database: each request looks for other      *)
(* accounts with the same e-mail before it writes.  Only the transaction of  *)
(* confirm_email_verification locks rows, and only those of its own account. *)
(* The other statements of a request commit one by one.                      *)
EXTENDS Integers, FiniteSets

CONSTANTS Users,       \* accounts, those not yet created included
          Sessions,    \* accounts that are signed in and have no e-mail
          Emails, NoEmail,
          MayUse,      \* MayUse[u]: e-mails whose letters the person can read
          Workers,     \* web workers
          GuestOrders, NoUser,
          OrderEmail   \* OrderEmail[g]: the e-mail of an order

ASSUME AccountsAssumption ==
  /\ Sessions \subseteq Users
  /\ NoEmail \notin Emails
  /\ NoUser \notin Users
  /\ OrderEmail \in [GuestOrders -> Emails]
  /\ MayUse \in [Users -> SUBSET Emails]

VARIABLES account,  \* account[u]: "none", "open", "verified" or "deleted"
          email,    \* User.email
          codes,    \* codes[u]: codes that are neither used nor expired
          owner,    \* Order.user
          work,     \* work[w]: the request of worker w
          issued,   \* history: a code was sent for the account
          dead      \* history: a worker died while it registered the account

vars == <<account, email, codes, owner, work, issued, dead>>

(* Within the cooldown a code refuses another one (age 0); it is accepted    *)
(* until its lifetime ends.  by tells the codes of an account apart.         *)
Codes == [email : Emails, age : {0, 1}, by : Workers]
Work  == [pc : {"idle", "create", "check", "mail", "expire", "issue", "delete",
                "consume", "lock", "commit", "claim"},
          user : Users \cup {NoUser}, email : Emails \cup {NoEmail},
          by : Workers, registering : BOOLEAN]

TypeOK ==
  /\ account \in [Users -> {"none", "open", "verified", "deleted"}]
  /\ email \in [Users -> Emails \cup {NoEmail}]
  /\ codes \in [Users -> SUBSET Codes]
  /\ owner \in [GuestOrders -> Users \cup {NoUser}]
  /\ work \in [Workers -> Work]
  /\ issued \in [Users -> BOOLEAN]
  /\ dead \in [Users -> BOOLEAN]

Idle(w) == [pc |-> "idle", user |-> NoUser, email |-> NoEmail, by |-> w,
            registering |-> FALSE]

Init ==
  /\ account = [u \in Users |-> IF u \in Sessions THEN "open" ELSE "none"]
  /\ email = [u \in Users |-> NoEmail]
  /\ codes = [u \in Users |-> {}]
  /\ owner = [g \in GuestOrders |-> NoUser]
  /\ work = [w \in Workers |-> Idle(w)]
  /\ issued = [u \in Users |-> FALSE]
  /\ dead = [u \in Users |-> FALSE]

Exists(u) == account[u] \in {"open", "verified"}
ConfirmedTaken(e, u) ==       \* mutant: looks for confirmed accounts only
  \E v \in Users \ {u} : account[v] = "verified" /\ email[v] = e
Taken(e, u) == \E v \in Users \ {u} : Exists(v) /\ email[v] = e

At(w, pc)        == work[w].pc = pc
Goto(w, pc)      == work' = [work EXCEPT ![w].pc = pc]
Answer(w)        == work' = [work EXCEPT ![w] = Idle(w)]
Begin(w, pc, u, e, by, reg) ==
  /\ At(w, "idle")
  /\ work' = [work EXCEPT ![w] = [pc |-> pc, user |-> u, email |-> e, by |-> by,
                                  registering |-> reg]]

-----------------------------------------------------------------------------
(* Registration: the form looks for the e-mail, the account is created, a    *)
(* code is sent; when that is refused or fails, the account is deleted.      *)
Register(w, u, e) ==
  /\ account[u] = "none"
  /\ \A v \in Workers : work[v].user # u      \* u is a new account
  /\ ~Taken(e, u)
  /\ Begin(w, "create", u, e, w, TRUE)
  /\ UNCHANGED <<account, email, codes, owner, issued, dead>>

Create(w) ==
  LET u == work[w].user IN
  /\ At(w, "create")
  /\ account' = [account EXCEPT ![u] = "open"]
  /\ email' = [email EXCEPT ![u] = work[w].email]
  /\ Goto(w, "check")
  /\ UNCHANGED <<codes, owner, issued, dead>>

KeepRefused(w) == Answer(w)     \* mutant: the refused account stays
Refuse(w) == IF work[w].registering THEN Goto(w, "delete") ELSE Answer(w)

(* The guest orders of a deleted account have no user again.                 *)
Delete(w) ==
  LET u == work[w].user IN
  /\ At(w, "delete")
  /\ \A v \in Workers : ~(At(v, "commit") /\ work[v].user = u)
  /\ account' = [account EXCEPT ![u] = "deleted"]
  /\ email' = [email EXCEPT ![u] = NoEmail]
  /\ codes' = [codes EXCEPT ![u] = {}]
  /\ owner' = [g \in GuestOrders |-> IF owner[g] = u THEN NoUser ELSE owner[g]]
  /\ Answer(w)
  /\ UNCHANGED <<issued, dead>>

(* A new code: for the account of an unfinished registration, by its e-mail, *)
(* or for any e-mail of one's own account.                                   *)
Resend(w, u, e) ==
  /\ account[u] = "open"
  /\ IF u \in Sessions THEN ~Taken(e, u) ELSE email[u] = e
  /\ Begin(w, "check", u, e, w, FALSE)
  /\ UNCHANGED <<account, email, codes, owner, issued, dead>>

-----------------------------------------------------------------------------
(* create_and_send_email_code                                                *)
Sendable(u, e) ==
  /\ account[u] = "open"
  /\ ~Taken(e, u)
  /\ \A c \in codes[u] : ~(c.email = e /\ c.age = 0)

Check(w) ==
  LET u == work[w].user IN
  /\ At(w, "check")
  /\ IF Sendable(u, work[w].email) THEN Goto(w, "mail") ELSE Refuse(w)
  /\ UNCHANGED <<account, email, codes, owner, issued, dead>>

Mail(w) ==
  /\ At(w, "mail")
  /\ \/ Goto(w, "expire")
     \/ Refuse(w)                          \* the mail server refused
  /\ UNCHANGED <<account, email, codes, owner, issued, dead>>

Expire(w) ==
  /\ At(w, "expire")
  /\ codes' = [codes EXCEPT ![work[w].user] = {}]
  /\ Goto(w, "issue")
  /\ UNCHANGED <<account, email, owner, issued, dead>>

Issue(w) ==
  LET u == work[w].user IN
  /\ At(w, "issue")
  /\ IF Exists(u)
     THEN /\ codes' = [codes EXCEPT ![u] =
                         @ \cup {[email |-> work[w].email, age |-> 0, by |-> w]}]
          /\ issued' = [issued EXCEPT ![u] = TRUE]
     ELSE UNCHANGED <<codes, issued>>      \* no account to refer to
  /\ Answer(w)
  /\ UNCHANGED <<account, email, owner, dead>>

(* The cooldown of the codes of an account ends, then their lifetime.        *)
EndlessAge(u) ==              \* mutant: codes do not expire
  /\ codes[u] # {}
  /\ codes' = [codes EXCEPT ![u] = {[c EXCEPT !.age = c.age + 1] : c \in @}]
  /\ UNCHANGED <<account, email, owner, work, issued, dead>>
Age(u) ==
  /\ codes[u] # {}
  /\ codes' = [codes EXCEPT ![u] = {[c EXCEPT !.age = 1] : c \in {d \in @ : d.age = 0}}]
  /\ UNCHANGED <<account, email, owner, work, issued, dead>>

-----------------------------------------------------------------------------
(* confirm_email_verification: the latest code is accepted and used up, and  *)
(* the rows of the account are locked, checked again and written.            *)
Confirm(w, u, e) ==
  /\ account[u] = "open"
  /\ u \in Sessions \/ email[u] = e
  /\ ~Taken(e, u)
  /\ \E c \in codes[u] :
       /\ c.email = e
       /\ \A d \in codes[u] : d.email = e => c.age =< d.age
       /\ Begin(w, "consume", u, e, c.by, FALSE)
  /\ UNCHANGED <<account, email, codes, owner, issued, dead>>

Consume(w) ==
  LET u == work[w].user IN
  /\ At(w, "consume")
  /\ codes' = [codes EXCEPT ![u] =
                 {c \in @ : ~(c.by = work[w].by /\ c.email = work[w].email)}]
  /\ Goto(w, "lock")
  /\ UNCHANGED <<account, email, owner, issued, dead>>

TrustingConfirmed(u, e) == TRUE \/ Taken(e, u)     \* mutant: nothing is repeated
Confirmed(u, e) == account[u] = "open" /\ ~Taken(e, u)

Lock(w) ==
  LET u == work[w].user IN
  /\ At(w, "lock")
  /\ \A v \in Workers : ~(At(v, "commit") /\ work[v].user = u)
  /\ IF Exists(u) /\ Confirmed(u, work[w].email) THEN Goto(w, "commit") ELSE Answer(w)
  /\ UNCHANGED <<account, email, codes, owner, issued, dead>>

Commit(w) ==
  LET u == work[w].user IN
  /\ At(w, "commit")
  /\ account' = [account EXCEPT ![u] = "verified"]
  /\ email' = [email EXCEPT ![u] = work[w].email]
  /\ codes' = [codes EXCEPT ![u] = {}]
  /\ Goto(w, "claim")
  /\ UNCHANGED <<owner, issued, dead>>

-----------------------------------------------------------------------------
(* claim_guest_orders_for_user: orders of nobody with the confirmed e-mail.  *)
AnyoneClaimable(g, u) ==      \* mutant: takes the orders of other accounts
  account[u] = "verified" /\ OrderEmail[g] = email[u]
Claimable(g, u) ==
  account[u] = "verified" /\ OrderEmail[g] = email[u] /\ owner[g] = NoUser

Claims(u) ==
  owner' = [g \in GuestOrders |-> IF Claimable(g, u) THEN u ELSE owner[g]]

Claim(w) ==
  /\ At(w, "claim")
  /\ Claims(work[w].user)
  /\ Answer(w)
  /\ UNCHANGED <<account, email, codes, issued, dead>>

(* A password login, by an e-mail that one account has, claims as well, and   *)
(* so does the page of a guest order.                                         *)
Login(w, u) ==
  /\ account[u] = "verified"
  /\ ~Taken(email[u], u)
  /\ Begin(w, "claim", u, email[u], w, FALSE)
  /\ UNCHANGED <<account, email, codes, owner, issued, dead>>

Crash(w) ==
  /\ ~At(w, "idle")
  /\ IF work[w].registering
     THEN dead' = [dead EXCEPT ![work[w].user] = TRUE]
     ELSE UNCHANGED dead
  /\ Answer(w)
  /\ UNCHANGED <<account, email, codes, owner, issued>>

-----------------------------------------------------------------------------
Next ==
  \/ \E w \in Workers, u \in Users :
       \/ \E e \in MayUse[u] : Register(w, u, e) \/ Resend(w, u, e) \/ Confirm(w, u, e)
       \/ Login(w, u)
  \/ \E w \in Workers :
       \/ Create(w) \/ Delete(w) \/ Check(w) \/ Mail(w) \/ Expire(w) \/ Issue(w)
       \/ Consume(w) \/ Lock(w) \/ Commit(w) \/ Claim(w) \/ Crash(w)
  \/ \E u \in Users : Age(u)

Spec == Init /\ [][Next]_vars

-----------------------------------------------------------------------------
(* "после успешной верификации email больше не меняется": of two requests     *)
(* that confirm different e-mails of one account, the second is refused.      *)
EmailIsFinal ==
  [][\A u \in Users :
       account[u] = "verified" /\ account'[u] # "deleted"
         => account'[u] = "verified" /\ email'[u] = email[u]]_vars

(* Of the registrations with one e-mail, started at one time in any order,    *)
(* at most one ends in a confirmed account.                                   *)
OneRegistration ==
  \A u, v \in Users \ Sessions :
    account[u] = "verified" /\ account[v] = "verified" /\ email[u] = email[v] => u = v

(* A guest order comes into an account whose confirmed e-mail is that of the  *)
(* order, and is given back when the account is deleted.                      *)
ClaimedByOwner ==
  \A g \in GuestOrders :
    owner[g] # NoUser => account[owner[g]] = "verified" /\ email[owner[g]] = OrderEmail[g]

(* An order that has an account is not taken over by another one.             *)
ClaimedOnce ==
  [][\A g \in GuestOrders : owner[g] # NoUser => owner'[g] \in {owner[g], NoUser}]_vars

(* An account that nobody was sent a code for blocks its e-mail: it is being  *)
(* registered, or its worker died.                                            *)
NoOrphans ==
  \A u \in Users \ Sessions :
    account[u] = "open" /\ ~issued[u] /\ ~dead[u]
      => \E w \in Workers : work[w].registering /\ work[w].user = u
=============================================================================
