---------------------------- MODULE AtomicStore ----------------------------
(***************************************************************************)
(* What users of the Express API may count on: a model together with its   *)
(* info is one document.  It appears and disappears as a whole, changes    *)
(* one field at a time, and what is gone never comes back.                 *)
(***************************************************************************)
CONSTANTS Ids, Titles, Statuses, Infos, None, Gone

VARIABLE store      \* store[id]: None before, Gone after the document's life

Document == [title : Titles, status : Statuses, info : Infos]

StoreInit == store = [id \in Ids |-> None]

Appear(id) ==
    /\ store[id] = None
    /\ \E doc \in Document : store' = [store EXCEPT ![id] = doc]

\* Creations that will not be completed.
Abandon ==
    \E ids \in SUBSET {id \in Ids : store[id] = None} :
        store' = [id \in Ids |-> IF id \in ids THEN Gone ELSE store[id]]

Change(id) ==
    /\ store[id] \in Document
    /\ \/ \E title \in Titles    : store' = [store EXCEPT ![id].title = title]
       \/ \E status \in Statuses : store' = [store EXCEPT ![id].status = status]
       \/ \E info \in Infos      : store' = [store EXCEPT ![id].info = info]

Disappear(id) ==
    /\ store[id] \in Document
    /\ store' = [store EXCEPT ![id] = Gone]

StoreNext ==
    \/ \E id \in Ids : Appear(id) \/ Change(id) \/ Disappear(id)
    \/ Abandon

StoreSpec == StoreInit /\ [][StoreNext]_store
=============================================================================
