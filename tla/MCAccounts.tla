----------------------------- MODULE MCAccounts -----------------------------
(* Two forms that clash in the e-mail; a form clashes with itself in both.   *)
EXTENDS Accounts, TLC

CONSTANTS ann, bob, a

MCForms == {[username |-> ann, email |-> a], [username |-> bob, email |-> a]}
Symmetry == Permutations(Requests)
=============================================================================
