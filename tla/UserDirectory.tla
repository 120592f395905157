--------------------------- MODULE UserDirectory ---------------------------
(***************************************************************************)
(* What people may count on when they register and log in: a registration  *)
(* is one atomic test-and-insert, an account once made stays as it is for  *)
(* ever, and a session token is only ever held by the owner of an account. *)
(***************************************************************************)
CONSTANTS Clients, Names, Emails, None

Account == [username : Names, email : Emails, owner : Clients]

VARIABLES accounts, session     \* session[c]: the account c is in, or None

DirectoryInit ==
    /\ accounts = {}
    /\ session = [c \in Clients |-> None]

Add(a) ==
    /\ \A b \in accounts : a.username # b.username /\ a.email # b.email
    /\ accounts' = accounts \cup {a}
    /\ UNCHANGED session

Enter(c, a) ==
    /\ a \in accounts
    /\ a.owner = c
    /\ session' = [session EXCEPT ![c] = a]
    /\ UNCHANGED accounts

Leave(c) ==
    /\ session' = [session EXCEPT ![c] = None]
    /\ UNCHANGED accounts

DirectoryNext ==
    \/ \E a \in Account : Add(a)
    \/ \E c \in Clients : Leave(c) \/ \E a \in Account : Enter(c, a)

DirectorySpec == DirectoryInit /\ [][DirectoryNext]_<<accounts, session>>
=============================================================================
