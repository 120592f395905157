-------------------------- MODULE ModelStoreProofs --------------------------
(***************************************************************************)
(* ModelStore, for any numbers of models and requests: its types, that a   *)
(* model has its info unless a request was interrupted, and that model and *)
(* info together implement AtomicStore.                                    *)
(***************************************************************************)
EXTENDS ModelStore, TLAPS

USE StoreAssumption

-----------------------------------------------------------------------------
(* The invariant *)

\* What a handler leaves in req is of the right type.
LEMMA ReqTypes ==
    ASSUME TypeOK, NEW r \in Requests, NEW at \in Awaits,
           NEW id \in Ids \cup {None}, NEW reply \in Replies
    PROVE  /\ Await(r, at, id) =>
                 req' \in [Requests -> [at : Awaits, id : Ids \cup {None}, reply : Replies]]
           /\ Reply(r, reply) =>
                 req' \in [Requests -> [at : Awaits, id : Ids \cup {None}, reply : Replies]]
  BY DEF TypeOK, Await, Reply, Idle, Awaits, Replies

\* The id of a request that names one is in Ids.
LEMMA NamedIds ==
    ASSUME TypeOK, RequestsInv, NEW r \in Requests,
           req[r].at \notin {"idle", "create"}
    PROVE  req[r].id \in Ids /\ req[r].id \in used
  BY DEF TypeOK, RequestsInv

\* Init establishes the invariant.
LEMMA InitInv == Init => IInv
<1> SUFFICES ASSUME Init PROVE IInv
  OBVIOUS
<1>1. TypeOK
  BY DEF Init, TypeOK, Idle, Awaits, Replies
<1>2. RequestsInv
  BY DEF Init, RequestsInv, Idle
<1>3. ModelHasInfo
  BY DEF Init, ModelHasInfo
<1> QED
  BY <1>1, <1>2, <1>3 DEF IInv

\* Types are kept by every step.
LEMMA NextTypes == TypeOK /\ RequestsInv /\ [Next]_vars => TypeOK'
<1> SUFFICES ASSUME TypeOK, RequestsInv, [Next]_vars PROVE TypeOK'
  OBVIOUS
<1> USE DEF TypeOK
<1>1. ASSUME NEW r \in Requests, Arrive(r) PROVE TypeOK'
  BY <1>1, ReqTypes DEF Arrive, Await, Awaits, Replies
<1>2. ASSUME NEW r \in Requests, NEW id \in Ids, NEW model \in Model,
             CreateModel(r, id, model)
      PROVE  TypeOK'
  BY <1>2 DEF CreateModel, Await, Awaits, Replies
<1>3. ASSUME NEW r \in Requests, CreateInfo(r) PROVE TypeOK'
  BY <1>3 DEF CreateInfo, Reply, Idle, Awaits, Replies
<1>4. ASSUME NEW r \in Requests, NEW title \in Titles, Update(r, title) PROVE TypeOK'
  <2>1. req[r].id \in Ids
    BY <1>4, NamedIds DEF Update
  <2>2. models' \in [Ids -> Model \cup {None}]
    BY <1>4, <2>1 DEF Update, Model
  <2>3. req' \in [Requests -> [at : Awaits, id : Ids \cup {None}, reply : Replies]]
    BY <1>4 DEF Update, Reply, Idle, Awaits, Replies
  <2> QED
    BY <1>4, <2>2, <2>3 DEF Update
<1>5. ASSUME NEW r \in Requests, FindToDelete(r) PROVE TypeOK'
  BY <1>5, NamedIds DEF FindToDelete, Await, Awaits, Replies
<1>6. ASSUME NEW r \in Requests, DeleteInfo(r) PROVE TypeOK'
  BY <1>6, NamedIds DEF DeleteInfo, Await, Awaits, Replies
<1>7. ASSUME NEW r \in Requests, DeleteModel(r) PROVE TypeOK'
  BY <1>7 DEF DeleteModel, Reply, Idle, Awaits, Replies
<1>8. ASSUME NEW r \in Requests, NEW status \in Statuses, UpdateStatus(r, status)
      PROVE  TypeOK'
  <2>1. req[r].id \in Ids
    BY <1>8, NamedIds DEF UpdateStatus
  <2>2. models' \in [Ids -> Model \cup {None}]
    BY <1>8, <2>1 DEF UpdateStatus, Model
  <2>3. req' \in [Requests -> [at : Awaits, id : Ids \cup {None}, reply : Replies]]
    BY <1>8 DEF UpdateStatus, Reply, Idle, Awaits, Replies
  <2> QED
    BY <1>8, <2>2, <2>3 DEF UpdateStatus
<1>9. ASSUME NEW r \in Requests, NEW info \in Infos, SaveInfo(r, info) PROVE TypeOK'
  BY <1>9 DEF SaveInfo, Reply, Idle, Awaits, Replies
<1>10. ASSUME NEW r \in Requests, Fail(r) PROVE TypeOK'
  <2>1. damaged' \in SUBSET Ids
    BY <1>10, NamedIds DEF Fail, HalfWay
  <2> QED
    BY <1>10, <2>1 DEF Fail, Reply, Idle, Awaits, Replies
<1>11. ASSUME Restart PROVE TypeOK'
  <2>1. \A r \in Requests : HalfWay(r) => req[r].id \in Ids
    BY NamedIds DEF HalfWay
  <2> QED
    BY <1>11, <2>1 DEF Restart, Idle, Awaits, Replies
<1>12. CASE UNCHANGED vars
  BY <1>12 DEF vars
<1> QED
  BY <1>1, <1>2, <1>3, <1>4, <1>5, <1>6, <1>7, <1>8, <1>9, <1>10, <1>11, <1>12 DEF Next

\* The facts about requests and documents are kept by every step.
LEMMA NextRequests == TypeOK /\ RequestsInv /\ [Next]_vars => RequestsInv'
<1> SUFFICES ASSUME TypeOK, RequestsInv, [Next]_vars PROVE RequestsInv'
  OBVIOUS
<1> USE DEF TypeOK, RequestsInv
<1>1. ASSUME NEW r \in Requests, Arrive(r) PROVE RequestsInv'
  BY <1>1 DEF Arrive, Await
<1>2. ASSUME NEW r \in Requests, NEW id \in Ids, NEW model \in Model,
             CreateModel(r, id, model)
      PROVE  RequestsInv'
  <2>1. /\ infos[id] = None
        /\ \A s \in Requests \ {r} : req[s].at = "createInfo" => req[s].id # id
    BY <1>2 DEF CreateModel
  <2> QED
    BY <1>2, <2>1 DEF CreateModel, Await
<1>3. ASSUME NEW r \in Requests, CreateInfo(r) PROVE RequestsInv'
  BY <1>3, NamedIds DEF CreateInfo, Reply, Idle
<1>4. ASSUME NEW r \in Requests, NEW title \in Titles, Update(r, title) PROVE RequestsInv'
  <2>1. \A id \in Ids : models'[id] # None => id \in used
    BY <1>4, NamedIds DEF Update
  <2> QED
    BY <1>4, <2>1 DEF Update, Reply, Idle
<1>5. ASSUME NEW r \in Requests, FindToDelete(r) PROVE RequestsInv'
  BY <1>5 DEF FindToDelete, Await
<1>6. ASSUME NEW r \in Requests, DeleteInfo(r) PROVE RequestsInv'
  BY <1>6, NamedIds DEF DeleteInfo, Await
<1>7. ASSUME NEW r \in Requests, DeleteModel(r) PROVE RequestsInv'
  BY <1>7 DEF DeleteModel, Reply, Idle
<1>8. ASSUME NEW r \in Requests, NEW status \in Statuses, UpdateStatus(r, status)
      PROVE  RequestsInv'
  <2>1. \A id \in Ids : models'[id] # None => id \in used
    BY <1>8, NamedIds DEF UpdateStatus
  <2> QED
    BY <1>8, <2>1 DEF UpdateStatus, Reply, Idle
<1>9. ASSUME NEW r \in Requests, NEW info \in Infos, SaveInfo(r, info)
      PROVE  RequestsInv'
  BY <1>9, NamedIds DEF SaveInfo, Reply, Idle
<1>10. ASSUME NEW r \in Requests, Fail(r) PROVE RequestsInv'
  BY <1>10 DEF Fail, Reply, Idle
<1>11. ASSUME Restart PROVE RequestsInv'
  BY <1>11 DEF Restart, Idle
<1>12. CASE UNCHANGED vars
  BY <1>12 DEF vars
<1> QED
  BY <1>1, <1>2, <1>3, <1>4, <1>5, <1>6, <1>7, <1>8, <1>9, <1>10, <1>11, <1>12 DEF Next

\* A model that has no info after a step had none before, and then the request
\* to blame has not moved; or the step made it so, half-way.
LEMMA NextHasInfo == IInv /\ [Next]_vars => ModelHasInfo'
<1> SUFFICES ASSUME IInv, [Next]_vars,
                    NEW id \in Ids, models'[id] # None, infos'[id] = None
             PROVE  \/ id \in damaged'
                    \/ \E r \in Requests : HalfWay(r)' /\ req'[r].id = id
  BY DEF ModelHasInfo
<1> DEFINE Blamed == \/ id \in damaged
                     \/ \E s \in Requests : HalfWay(s) /\ req[s].id = id
<1> SUFFICES Blamed'
  OBVIOUS
<1> USE DEF IInv, TypeOK, HalfWay
<1>a. models[id] # None /\ infos[id] = None => Blamed
  BY DEF ModelHasInfo
<1>1. ASSUME NEW r \in Requests, Arrive(r) PROVE Blamed'
  BY <1>1, <1>a DEF Arrive, Await
<1>2. ASSUME NEW r \in Requests, NEW i \in Ids, NEW model \in Model,
             CreateModel(r, i, model)
      PROVE  Blamed'
  <2>1. CASE i = id
    BY <1>2, <2>1 DEF CreateModel, Await
  <2>2. CASE i # id
    BY <1>2, <1>a, <2>2 DEF CreateModel, Await
  <2> QED
    BY <2>1, <2>2
<1>3. ASSUME NEW r \in Requests, CreateInfo(r) PROVE Blamed'
  <2>1. req[r].id # id
    BY <1>3 DEF CreateInfo
  <2> QED
    BY <1>3, <1>a, <2>1 DEF CreateInfo, Reply, Idle
<1>4. ASSUME NEW r \in Requests, NEW title \in Titles, Update(r, title) PROVE Blamed'
  <2>1. models[id] # None
    BY <1>4, NamedIds DEF Update
  <2> QED
    BY <1>4, <1>a, <2>1 DEF Update, Reply, Idle
<1>5. ASSUME NEW r \in Requests, FindToDelete(r) PROVE Blamed'
  BY <1>5, <1>a DEF FindToDelete, Await
<1>6. ASSUME NEW r \in Requests, DeleteInfo(r) PROVE Blamed'
  <2>1. CASE req[r].id = id
    BY <1>6, <2>1 DEF DeleteInfo, Await
  <2>2. CASE req[r].id # id
    BY <1>6, <1>a, <2>2 DEF DeleteInfo, Await
  <2> QED
    BY <2>1, <2>2
<1>7. ASSUME NEW r \in Requests, DeleteModel(r) PROVE Blamed'
  <2>1. req[r].id # id
    BY <1>7 DEF DeleteModel
  <2> QED
    BY <1>7, <1>a, <2>1 DEF DeleteModel, Reply, Idle
<1>8. ASSUME NEW r \in Requests, NEW status \in Statuses, UpdateStatus(r, status)
      PROVE  Blamed'
  <2>1. models[id] # None
    BY <1>8, NamedIds DEF UpdateStatus
  <2> QED
    BY <1>8, <1>a, <2>1 DEF UpdateStatus, Reply, Idle
<1>9. ASSUME NEW r \in Requests, NEW info \in Infos, SaveInfo(r, info) PROVE Blamed'
  <2>1. infos[id] = None
    BY <1>9 DEF SaveInfo
  <2> QED
    BY <1>9, <1>a, <2>1 DEF SaveInfo, Reply, Idle
<1>10. ASSUME NEW r \in Requests, Fail(r) PROVE Blamed'
  BY <1>10, <1>a DEF Fail, Reply, Idle
<1>11. ASSUME Restart PROVE Blamed'
  BY <1>11, <1>a DEF Restart, Idle
<1>12. CASE UNCHANGED vars
  BY <1>12, <1>a DEF vars
<1> QED
  BY <1>1, <1>2, <1>3, <1>4, <1>5, <1>6, <1>7, <1>8, <1>9, <1>10, <1>11, <1>12 DEF Next

\* The invariant of the specification.
THEOREM Inductive == Spec => []IInv
<1>1. IInv /\ [Next]_vars => IInv'
  BY NextTypes, NextRequests, NextHasInfo DEF IInv
<1> QED
  BY <1>1, InitInv, PTL DEF Spec

\* Every variable has its type, whatever requests overlap, fail or are cut off
\* by a restart.
THEOREM TypeCorrect == Spec => []TypeOK
<1>1. IInv => TypeOK
  BY DEF IInv
<1> QED
  BY <1>1, Inductive, PTL

\* Only an interrupted creation or deletion leaves a model without its info
\* (modelsRoutes.js:19-20, modelModel.js:14-19).
THEOREM ModelsHaveInfo == Spec => []ModelHasInfo
<1>1. IInv => ModelHasInfo
  BY DEF IInv
<1> QED
  BY <1>1, Inductive, PTL

-----------------------------------------------------------------------------
(* The refinement of AtomicStore *)

Whole(id) == models[id] # None /\ infos[id] # None

\* What users see of an id that a step does not touch stays.
LEMMA SeenSame ==
    ASSUME NEW id \in Ids,
           models'[id] = models[id], infos'[id] = infos[id],
           (id \in used') = (id \in used), Creating(id)' <=> Creating(id)
    PROVE  Seen(id)' = Seen(id)
  BY DEF Seen

\* The cases of Seen.
LEMMA SeenCases ==
    ASSUME NEW id \in Ids
    PROVE  /\ Whole(id) => Seen(id) = [ title |-> models[id].title,
                                        status |-> models[id].status,
                                        info |-> infos[id] ]
           /\ ~Whole(id) /\ (id \notin used \/ Creating(id)) => Seen(id) = None
           /\ ~Whole(id) /\ id \in used /\ ~Creating(id) => Seen(id) = Gone
  BY DEF Seen, Whole

\* A whole model is a document, and nobody is creating its info.
LEMMA WholeIsDocument ==
    ASSUME IInv, NEW id \in Ids, Whole(id)
    PROVE  /\ Seen(id) \in Atomic!Document
           /\ id \in used
           /\ ~Creating(id)
<1>1. models[id] \in Model /\ infos[id] \in Infos
  BY DEF Whole, IInv, TypeOK
<1>2. Seen(id) \in Atomic!Document
  BY <1>1, SeenCases DEF Atomic!Document, Model
<1> QED
  BY <1>2 DEF Whole, IInv, RequestsInv, Creating

\* A step that changes what users see of one id changes Store there only.
LEMMA StoreAt ==
    ASSUME NEW id \in Ids, \A i \in Ids \ {id} : Seen(i)' = Seen(i)
    PROVE  Store' = [Store EXCEPT ![id] = Seen(id)']
  BY DEF Store

\* A request that is answered.
LEMMA Replied ==
    ASSUME TypeOK, NEW r \in Requests, NEW reply, Reply(r, reply)
    PROVE  /\ req'[r].at = "idle"
           /\ \A s \in Requests \ {r} : req'[s] = req[s]
  BY DEF TypeOK, Reply, Idle

\* Which creations are pending after a step of request r.
LEMMA CreatingAfter ==
    ASSUME TypeOK, NEW r \in Requests, NEW id \in Ids,
           \A s \in Requests \ {r} : req'[s] = req[s]
    PROVE  /\ req[r].at # "createInfo" /\ req'[r].at # "createInfo"
                 => Creating(id)' <=> Creating(id)
           /\ req[r].at = "createInfo" /\ req'[r].at # "createInfo" /\ RequestsInv
                 => Creating(id)' <=> (Creating(id) /\ id # req[r].id)
           /\ req[r].at # "createInfo" /\ req'[r].at = "createInfo"
                 => Creating(id)' <=> (Creating(id) \/ id = req'[r].id)
  BY DEF Creating, RequestsInv

\* Handlers that change no document and are not about a creation.
LEMMA Unseen ==
    ASSUME TypeOK, NEW r \in Requests, req[r].at # "createInfo",
           req'[r].at # "createInfo", \A s \in Requests \ {r} : req'[s] = req[s],
           UNCHANGED <<models, infos, used>>
    PROVE  UNCHANGED Store
  BY CreatingAfter, SeenSame DEF Store

\* A field of a document is written: if the document is seen, it changes there.
LEMMA WriteRefines ==
    ASSUME IInv, IInv', NEW r \in Requests,
           \/ \E title \in Titles : Update(r, title)
           \/ \E status \in Statuses : UpdateStatus(r, status)
           \/ \E info \in Infos : SaveInfo(r, info)
    PROVE  Atomic!StoreNext \/ UNCHANGED Store
<1> USE DEF IInv, TypeOK
<1>1. PICK id \in Ids : id = req[r].id
  BY NamedIds DEF Update, UpdateStatus, SaveInfo
<1>2. \A i \in Ids : Creating(i)' <=> Creating(i)
  <2>1. /\ req[r].at # "createInfo"
        /\ req'[r].at # "createInfo"
        /\ \A s \in Requests \ {r} : req'[s] = req[s]
    BY Replied DEF Update, UpdateStatus, SaveInfo
  <2> QED
    BY <2>1, CreatingAfter
<1>3. \A i \in Ids \ {id} : Seen(i)' = Seen(i)
  <2> SUFFICES ASSUME NEW i \in Ids \ {id} PROVE Seen(i)' = Seen(i)
    OBVIOUS
  <2>1. models'[i] = models[i] /\ infos'[i] = infos[i] /\ (i \in used') = (i \in used)
    BY <1>1 DEF Update, UpdateStatus, SaveInfo
  <2> QED
    BY <2>1, <1>2, SeenSame
<1>4. Whole(id)' = Whole(id)
  <2>1. (models'[id] # None) = (models[id] # None)
    <3>1. \A m \in Model : /\ \A title \in Titles : [m EXCEPT !.title = title] # None
                           /\ \A status \in Statuses : [m EXCEPT !.status = status] # None
      BY StoreAssumption DEF Model
    <3>2. models[id] # None => models[id] \in Model
      OBVIOUS
    <3>3. ASSUME NEW title \in Titles, Update(r, title)
          PROVE  models'[id] = IF models[id] # None
                               THEN [models[id] EXCEPT !.title = title] ELSE None
      BY <1>1, <3>3 DEF Update
    <3>4. ASSUME NEW status \in Statuses, UpdateStatus(r, status)
          PROVE  models'[id] = IF models[id] # None
                               THEN [models[id] EXCEPT !.status = status] ELSE None
      BY <1>1, <3>4 DEF UpdateStatus
    <3>5. ASSUME NEW info \in Infos, SaveInfo(r, info) PROVE models'[id] = models[id]
      BY <3>5 DEF SaveInfo
    <3> QED
      BY <3>1, <3>2, <3>3, <3>4, <3>5
  <2>2. (infos'[id] # None) = (infos[id] # None)
    BY <1>1, StoreAssumption DEF Update, UpdateStatus, SaveInfo
  <2> QED
    BY <2>1, <2>2 DEF Whole
<1>5. CASE ~Whole(id)
  <2>1. Seen(id)' = Seen(id)
    <3>1. (id \in used') = (id \in used)
      BY DEF Update, UpdateStatus, SaveInfo
    <3> QED
      BY <3>1, <1>1, <1>2, <1>4, <1>5 DEF Seen, Whole
  <2> QED
    BY <1>3, <2>1 DEF Store
<1>6. CASE Whole(id)
  <2>1. Store[id] = Seen(id) /\ Seen(id) \in Atomic!Document
    BY <1>1, <1>6, WholeIsDocument DEF Store
  <2>2. Seen(id) = [title |-> models[id].title, status |-> models[id].status, info |-> infos[id]]
    BY <1>1, <1>6, SeenCases
  <2>3. Seen(id)' = [title |-> models'[id].title, status |-> models'[id].status,
                     info |-> infos'[id]]
    BY <1>1, <1>4, <1>6 DEF Seen, Whole
  <2>4. Store' = [Store EXCEPT ![id] = Seen(id)']
    BY <1>1, <1>3, StoreAt
  <2>5. models[id] \in Model /\ infos[id] \in Infos
    BY <1>1, <1>6 DEF Whole
  <2>6. ASSUME NEW title \in Titles, Update(r, title) PROVE Atomic!Change(id)
    <3>1. models'[id] = [models[id] EXCEPT !.title = title] /\ infos'[id] = infos[id]
      BY <1>1, <1>6, <2>6 DEF Update, Whole
    <3>2. Seen(id)' = [Seen(id) EXCEPT !.title = title]
      BY <2>2, <2>3, <2>5, <3>1 DEF Model
    <3>3. Store' = [Store EXCEPT ![id].title = title]
      BY <1>1, <2>1, <2>4, <3>2
    <3> QED
      BY <2>1, <3>3 DEF Atomic!Change
  <2>7. ASSUME NEW status \in Statuses, UpdateStatus(r, status) PROVE Atomic!Change(id)
    <3>1. models'[id] = [models[id] EXCEPT !.status = status] /\ infos'[id] = infos[id]
      BY <1>1, <1>6, <2>7 DEF UpdateStatus, Whole
    <3>2. Seen(id)' = [Seen(id) EXCEPT !.status = status]
      BY <2>2, <2>3, <2>5, <3>1 DEF Model
    <3>3. Store' = [Store EXCEPT ![id].status = status]
      BY <1>1, <2>1, <2>4, <3>2
    <3> QED
      BY <2>1, <3>3 DEF Atomic!Change
  <2>8. ASSUME NEW info \in Infos, SaveInfo(r, info) PROVE Atomic!Change(id)
    <3>1. models'[id] = models[id] /\ infos'[id] = info
      BY <1>1, <1>6, <2>8 DEF SaveInfo, Whole
    <3>2. Seen(id)' = [Seen(id) EXCEPT !.info = info]
      BY <2>2, <2>3, <2>5, <3>1 DEF Model
    <3>3. Store' = [Store EXCEPT ![id].info = info]
      BY <1>1, <2>1, <2>4, <3>2
    <3> QED
      BY <2>1, <3>3 DEF Atomic!Change
  <2> QED
    BY <1>1, <2>6, <2>7, <2>8 DEF Atomic!StoreNext
<1> QED
  BY <1>5, <1>6
\* POST /models: nothing is seen of the model yet.
LEMMA CreateModelRefines ==
    ASSUME IInv, IInv', NEW r \in Requests, NEW id \in Ids, NEW model \in Model,
           CreateModel(r, id, model)
    PROVE  UNCHANGED Store
<1> USE DEF IInv, TypeOK
<1>1. /\ req[r].at = "create"
      /\ req'[r].at = "createInfo" /\ req'[r].id = id
      /\ \A s \in Requests \ {r} : req'[s] = req[s]
  BY DEF CreateModel, Await
<1>2. Seen(id) = None
  BY SeenCases DEF CreateModel, Whole, RequestsInv
<1>3. Seen(id)' = None
  <2>1. Creating(id)'
    BY <1>1, CreatingAfter
  <2>2. infos'[id] = None
    BY DEF CreateModel, RequestsInv
  <2> QED
    BY <2>1, <2>2 DEF Seen
<1>4. \A i \in Ids \ {id} : Seen(i)' = Seen(i)
  <2> SUFFICES ASSUME NEW i \in Ids \ {id} PROVE Seen(i)' = Seen(i)
    OBVIOUS
  <2>1. Creating(i)' <=> Creating(i)
    BY <1>1, CreatingAfter
  <2>2. models'[i] = models[i] /\ infos'[i] = infos[i] /\ (i \in used') = (i \in used)
    BY DEF CreateModel
  <2> QED
    BY <2>1, <2>2, SeenSame
<1> QED
  BY <1>2, <1>3, <1>4 DEF Store

\* The info appears, and the document with it, unless the model was deleted.
LEMMA CreateInfoRefines ==
    ASSUME IInv, IInv', NEW r \in Requests, CreateInfo(r)
    PROVE  Atomic!StoreNext
<1> USE DEF IInv, TypeOK
<1>1. PICK id \in Ids : id = req[r].id
  BY NamedIds DEF CreateInfo
<1>2. /\ req[r].at = "createInfo" /\ req'[r].at = "idle"
      /\ \A s \in Requests \ {r} : req'[s] = req[s]
  BY Replied DEF CreateInfo
<1>3. \A i \in Ids : Creating(i)' <=> (Creating(i) /\ i # id)
  BY <1>1, <1>2, CreatingAfter
<1>4. Seen(id) = None
  <2>1. Creating(id) /\ infos[id] = None
    BY <1>1, <1>2 DEF Creating, RequestsInv
  <2> QED
    BY <2>1, SeenCases DEF Whole
<1>5. \A i \in Ids \ {id} : Seen(i)' = Seen(i)
  <2> SUFFICES ASSUME NEW i \in Ids \ {id} PROVE Seen(i)' = Seen(i)
    OBVIOUS
  <2>1. models'[i] = models[i] /\ infos'[i] = infos[i] /\ (i \in used') = (i \in used)
    BY <1>1 DEF CreateInfo
  <2> QED
    BY <1>3, <2>1, SeenSame
<1>6. Store' = [Store EXCEPT ![id] = Seen(id)'] /\ Store[id] = None
  BY <1>4, <1>5, StoreAt DEF Store
<1>7. models'[id] = models[id] /\ infos'[id] = DefaultInfo /\ id \in used'
  BY <1>1, <1>2 DEF CreateInfo, RequestsInv
<1>8. CASE models[id] # None
  <2>1. Whole(id)'
    BY <1>7, <1>8, StoreAssumption DEF Whole
  <2>2. Seen(id)' \in Atomic!Document
    <3>1. Seen(id)' = [title |-> models[id].title, status |-> models[id].status,
                       info |-> DefaultInfo]
      BY <1>7, <2>1 DEF Seen, Whole
    <3> QED
      BY <1>8, <3>1, StoreAssumption DEF Atomic!Document, Model
  <2>3. Atomic!Appear(id)
    BY <1>6, <2>2 DEF Atomic!Appear
  <2> QED
    BY <2>3 DEF Atomic!StoreNext
<1>9. CASE models[id] = None
  <2>1. Seen(id)' = Gone
    BY <1>3, <1>7, <1>9 DEF Seen
  <2>2. Store' = [i \in Ids |-> IF i \in {id} THEN Gone ELSE Store[i]]
    BY <1>6, <2>1 DEF Store
  <2>3. {id} \in SUBSET {i \in Ids : Store[i] = None}
    BY <1>6
  <2>4. Atomic!Abandon
    BY <2>2, <2>3 DEF Atomic!Abandon
  <2> QED
    BY <2>4 DEF Atomic!StoreNext
<1> QED
  BY <1>8, <1>9

\* The first of the two deletions of a whole model takes it away; the other one
\* is not seen.
LEMMA DeleteRefines ==
    ASSUME IInv, IInv', NEW r \in Requests, DeleteInfo(r) \/ DeleteModel(r)
    PROVE  Atomic!StoreNext \/ UNCHANGED Store
<1> USE DEF IInv, TypeOK
<1>1. PICK id \in Ids : id = req[r].id
  BY NamedIds DEF DeleteInfo, DeleteModel
<1>2. /\ req[r].at # "createInfo" /\ req'[r].at # "createInfo"
      /\ \A s \in Requests \ {r} : req'[s] = req[s]
  <2>1. CASE DeleteInfo(r)
    BY <2>1 DEF DeleteInfo, Await
  <2>2. CASE DeleteModel(r)
    <3>1. req'[r].at = "idle" /\ \A s \in Requests \ {r} : req'[s] = req[s]
      BY <2>2, Replied DEF DeleteModel
    <3> QED
      BY <2>2, <3>1 DEF DeleteModel
  <2> QED
    BY <2>1, <2>2
<1>3. \A i \in Ids : Creating(i)' <=> Creating(i)
  BY <1>2, CreatingAfter
<1>4. \A i \in Ids \ {id} : Seen(i)' = Seen(i)
  <2> SUFFICES ASSUME NEW i \in Ids \ {id} PROVE Seen(i)' = Seen(i)
    OBVIOUS
  <2>1. models'[i] = models[i] /\ infos'[i] = infos[i] /\ (i \in used') = (i \in used)
    BY <1>1 DEF DeleteInfo, DeleteModel
  <2> QED
    BY <1>3, <2>1, SeenSame
<1>5. Store' = [Store EXCEPT ![id] = Seen(id)'] /\ Store[id] = Seen(id)
  BY <1>4, StoreAt DEF Store
<1>6. used' = used /\ ~Whole(id)'
  BY <1>1 DEF DeleteInfo, DeleteModel, Whole
<1>7. CASE Whole(id)
  <2>1. Seen(id) \in Atomic!Document /\ id \in used /\ ~Creating(id)
    BY <1>7, WholeIsDocument
  <2>2. Seen(id)' = Gone
    BY <1>3, <1>6, <2>1 DEF Seen, Whole
  <2>3. Atomic!Disappear(id)
    BY <1>5, <2>1, <2>2 DEF Atomic!Disappear
  <2> QED
    BY <2>3 DEF Atomic!StoreNext
<1>8. CASE ~Whole(id)
  <2>1. Seen(id)' = Seen(id)
    BY <1>3, <1>6, <1>8 DEF Seen, Whole
  <2> QED
    BY <1>4, <2>1 DEF Store
<1> QED
  BY <1>7, <1>8

\* Creations that are cut off are abandoned.
LEMMA CutOff ==
    ASSUME IInv, UNCHANGED <<models, infos, used>>,
           \A i \in Ids : Creating(i)' => Creating(i)
    PROVE  Atomic!StoreNext
<1> USE DEF IInv, TypeOK
<1> DEFINE ids == {i \in Ids : Creating(i) /\ ~Creating(i)'}
<1>1. \A i \in ids : i \in used /\ infos[i] = None
  BY DEF Creating, RequestsInv
<1>2. \A i \in ids : Seen(i) = None /\ Seen(i)' = Gone
  <2> SUFFICES ASSUME NEW i \in ids PROVE Seen(i) = None /\ Seen(i)' = Gone
    OBVIOUS
  <2> QED
    BY <1>1 DEF Seen
<1>3. \A i \in Ids \ ids : Seen(i)' = Seen(i)
  BY SeenSame
<1>4. ids \in SUBSET {i \in Ids : Store[i] = None}
  BY <1>2 DEF Store
<1>5. Store' = [i \in Ids |-> IF i \in ids THEN Gone ELSE Store[i]]
  BY <1>2, <1>3 DEF Store
<1>6. Atomic!Abandon
  BY <1>4, <1>5 DEF Atomic!Abandon
<1> QED
  BY <1>6 DEF Atomic!StoreNext

\* A failed call.
LEMMA FailRefines ==
    ASSUME IInv, NEW r \in Requests, Fail(r)
    PROVE  Atomic!StoreNext
<1> USE DEF IInv, TypeOK
<1>1. req'[r].at = "idle" /\ \A s \in Requests \ {r} : req'[s] = req[s]
  BY Replied DEF Fail
<1>2. \A i \in Ids : Creating(i)' => Creating(i)
  BY <1>1 DEF Creating
<1> QED
  BY <1>2, CutOff DEF Fail

\* Every step is a step of AtomicStore or is not seen.
LEMMA StepRefines == IInv /\ IInv' /\ [Next]_vars => [Atomic!StoreNext]_Store
<1> SUFFICES ASSUME IInv, IInv', [Next]_vars
             PROVE  Atomic!StoreNext \/ UNCHANGED Store
  OBVIOUS
<1> USE DEF IInv, TypeOK
<1>1. ASSUME NEW r \in Requests, Arrive(r) PROVE UNCHANGED Store
  BY <1>1, Unseen DEF Arrive, Await
<1>2. ASSUME NEW r \in Requests, NEW id \in Ids, NEW model \in Model,
             CreateModel(r, id, model)
      PROVE  UNCHANGED Store
  BY <1>2, CreateModelRefines
<1>3. ASSUME NEW r \in Requests, CreateInfo(r) PROVE Atomic!StoreNext
  BY <1>3, CreateInfoRefines
<1>4. ASSUME NEW r \in Requests,
             \/ \E title \in Titles : Update(r, title)
             \/ \E status \in Statuses : UpdateStatus(r, status)
             \/ \E info \in Infos : SaveInfo(r, info)
      PROVE  Atomic!StoreNext \/ UNCHANGED Store
  BY <1>4, WriteRefines
<1>5. ASSUME NEW r \in Requests, FindToDelete(r) PROVE UNCHANGED Store
  <2>1. /\ req[r].at # "createInfo" /\ req'[r].at # "createInfo"
        /\ \A s \in Requests \ {r} : req'[s] = req[s]
    BY <1>5 DEF FindToDelete, Await
  <2> QED
    BY <1>5, <2>1, Unseen DEF FindToDelete
<1>6. ASSUME NEW r \in Requests, DeleteInfo(r) \/ DeleteModel(r)
      PROVE  Atomic!StoreNext \/ UNCHANGED Store
  BY <1>6, DeleteRefines
<1>7. ASSUME NEW r \in Requests, Fail(r) PROVE Atomic!StoreNext
  BY <1>7, FailRefines
<1>8. ASSUME Restart PROVE Atomic!StoreNext
  <2>1. \A i \in Ids : ~Creating(i)'
    BY <1>8 DEF Restart, Creating, Idle
  <2> QED
    BY <1>8, <2>1, CutOff DEF Restart
<1>9. CASE UNCHANGED vars
  BY <1>9 DEF vars, Store, Seen, Creating
<1> QED
  BY <1>1, <1>2, <1>3, <1>4, <1>5, <1>6, <1>7, <1>8, <1>9 DEF Next

\* A model and its info are one document to their users: it never comes back,
\* whatever requests overlap, fail or are cut off (modelsRoutes.js,
\* processRoutes.js, modelModel.js).
THEOREM StoreRefinement == Spec => ImplementsAtomicStore
<1>1. Init => Atomic!StoreInit
  BY DEF Init, Store, Seen, Atomic!StoreInit
<1>2. IInv /\ IInv' /\ [Next]_vars => [Atomic!StoreNext]_Store
  BY StepRefines
<1> QED
  BY <1>1, <1>2, Inductive, PTL DEF Spec, ImplementsAtomicStore, Atomic!StoreSpec
=============================================================================
