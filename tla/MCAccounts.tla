---------------------------- MODULE MCAccounts ----------------------------
(* A person who registers twice, with one e-mail, and one who is signed in and *)
(* uses it too.  Web workers are alike, and so are new accounts.              *)
EXTENDS Accounts, TLC

CONSTANTS e1, e2, g1

OneMailbox   == [u \in Users |-> IF u \in Sessions THEN {e1, e2} ELSE {e1}]
OrderOfFirst == g1 :> e1
Alike        == Permutations(Workers) \cup Permutations(Users \ Sessions)
=============================================================================
