----------------------------- MODULE ModelStore -----------------------------
(***************************************************************************)
(* The Express API for models: two MongoDB collections, `models` (title,   *)
(* status) and `modelinfos` (the network), the routes that change them     *)
(* (modelsRoutes.js, processRoutes.js) and the hook that deletes a model's *)
(* info with it (modelModel.js).  An operation of MongoDB on one document  *)
(* is atomic; a handler is interrupted at every `await`, so a step below   *)
(* is what happens from one await to the next.                             *)
(***************************************************************************)
EXTENDS FiniteSets, Naturals

CONSTANTS
    Ids,            \* ObjectIds of models
    Requests,       \* HTTP requests in progress at once
    Titles, Infos,  \* contents of documents
    DefaultInfo,    \* what createDefaultModelInfo stores
    None,           \* no document
    Gone,           \* no document any more (for AtomicStore)
    MaxFailures     \* bound on failed operations and restarts

Statuses == {"draft", "compiled", "trained"}
Model == [title : Titles, status : Statuses]

ASSUME StoreAssumption ==
    /\ DefaultInfo \in Infos
    /\ None \notin Ids \cup Infos \cup Model
    /\ Gone # None
    /\ MaxFailures \in Nat

VARIABLES
    models,     \* models[id]: the document with this _id
    infos,      \* infos[id]: the document with this modelId
    used,       \* ids that MongoDB has given out
    req,        \* req[r]: the await request r is at, and the id it is about
    failures,   \* number of failed operations and restarts
    damaged     \* ids of requests that failed or died half-way (history)

vars == <<models, infos, used, req, failures, damaged>>

\* The call that is awaited.
Awaits == {"idle", "create", "createInfo", "update", "find", "deleteInfo",
           "deleteModel", "status", "save"}
Replies == {"none", "ok", "missing", "error"}
Idle == [at |-> "idle", id |-> None, reply |-> "none"]

TypeOK ==
    /\ models \in [Ids -> Model \cup {None}]
    /\ infos \in [Ids -> Infos \cup {None}]
    /\ used \in SUBSET Ids
    /\ req \in [Requests -> [at : Awaits, id : Ids \cup {None}, reply : Replies]]
    /\ failures \in 0 .. MaxFailures
    /\ damaged \in SUBSET Ids

Init ==
    /\ models = [id \in Ids |-> None]
    /\ infos = [id \in Ids |-> None]
    /\ used = {}
    /\ req = [r \in Requests |-> Idle]
    /\ failures = 0
    /\ damaged = {}

-----------------------------------------------------------------------------
(* Steps of a request *)

\* The handler goes on to another await, or answers.
Await(r, at, id) == req' = [req EXCEPT ![r] = [at |-> at, id |-> id, reply |-> "none"]]
Reply(r, reply)  == req' = [req EXCEPT ![r] = [Idle EXCEPT !.reply = reply]]

\* A request arrives.  The id it names, if any, is one that a page has read
\* from the list of models or from an answer, perhaps long ago.  (Bound: no
\* more creations than ids are left.)
Arrive(r) ==
    /\ req[r].at = "idle"
    /\ \/ /\ Cardinality({s \in Requests : req[s].at = "create"}) < Cardinality(Ids \ used)
          /\ Await(r, "create", None)
       \/ \E at \in {"update", "find", "status", "save"}, id \in used :
             Await(r, at, id)
    /\ UNCHANGED <<models, infos, used, failures, damaged>>

\* Faulty: the creation of the info is not awaited, and gets lost.
CreateModelOnly(r, id, model) ==
    /\ req[r].at = "create"
    /\ id \notin used
    /\ models' = [models EXCEPT ![id] = model]
    /\ used' = used \cup {id}
    /\ Reply(r, "ok")
    /\ UNCHANGED <<infos, failures, damaged>>

\* POST /models: Models.create ...
CreateModel(r, id, model) ==
    /\ req[r].at = "create"
    /\ id \notin used
    /\ models' = [models EXCEPT ![id] = model]
    /\ used' = used \cup {id}
    /\ Await(r, "createInfo", id)
    /\ UNCHANGED <<infos, failures, damaged>>

\* ... then ModelInfo.create, with the default network.
CreateInfo(r) ==
    /\ req[r].at = "createInfo"
    /\ infos' = [infos EXCEPT ![req[r].id] = DefaultInfo]
    /\ Reply(r, "ok")
    /\ UNCHANGED <<models, used, failures, damaged>>

\* PUT /models/:id
Update(r, title) ==
    LET id == req[r].id
    IN  /\ req[r].at = "update"
        /\ \/ /\ models[id] # None
              /\ models' = [models EXCEPT ![id].title = title]
              /\ Reply(r, "ok")
           \/ /\ models[id] = None
              /\ Reply(r, "missing")
              /\ UNCHANGED models
        /\ UNCHANGED <<infos, used, failures, damaged>>

\* DELETE /models/:id: the hook of findOneAndDelete looks the model up ...
FindToDelete(r) ==
    /\ req[r].at = "find"
    /\ Await(r, IF models[req[r].id] # None THEN "deleteInfo" ELSE "deleteModel",
             req[r].id)
    /\ UNCHANGED <<models, infos, used, failures, damaged>>

\* ... deletes its info ...
DeleteInfo(r) ==
    /\ req[r].at = "deleteInfo"
    /\ infos' = [infos EXCEPT ![req[r].id] = None]
    /\ Await(r, "deleteModel", req[r].id)
    /\ UNCHANGED <<models, used, failures, damaged>>

\* ... and then the model is deleted.
DeleteModel(r) ==
    /\ req[r].at = "deleteModel"
    /\ models' = [models EXCEPT ![req[r].id] = None]
    /\ Reply(r, IF models[req[r].id] # None THEN "ok" ELSE "missing")
    /\ UNCHANGED <<infos, used, failures, damaged>>

\* Faulty: no $set, so that the document is replaced.
UpdateStatusReplaces(r, status) ==
    LET id == req[r].id
    IN  /\ req[r].at = "status"
        /\ models' = IF models[id] # None
                     THEN [models EXCEPT ![id] = [status |-> status]]
                     ELSE models
        /\ Reply(r, "ok")
        /\ UNCHANGED <<infos, used, failures, damaged>>

\* POST /models/update-status/:id answers 200 also when nothing matched.
UpdateStatus(r, status) ==
    LET id == req[r].id
    IN  /\ req[r].at = "status"
        /\ models' = IF models[id] # None
                     THEN [models EXCEPT ![id].status = status]
                     ELSE models
        /\ Reply(r, "ok")
        /\ UNCHANGED <<infos, used, failures, damaged>>

\* Faulty: upsert: true.
SaveInfoUpserts(r, info) ==
    /\ req[r].at = "save"
    /\ infos' = [infos EXCEPT ![req[r].id] = info]
    /\ Reply(r, "ok")
    /\ UNCHANGED <<models, used, failures, damaged>>

\* POST /process does so too.
SaveInfo(r, info) ==
    LET id == req[r].id
    IN  /\ req[r].at = "save"
        /\ infos' = IF infos[id] # None THEN [infos EXCEPT ![id] = info] ELSE infos
        /\ Reply(r, "ok")
        /\ UNCHANGED <<models, used, failures, damaged>>

-----------------------------------------------------------------------------
(* Failures *)

HalfWay(r) == req[r].at \in {"createInfo", "deleteModel"}

\* The awaited call is rejected: by a validator, or because the database does
\* not answer.  The handler catches it and answers 500; nothing is undone.
Fail(r) ==
    /\ req[r].at # "idle"
    /\ failures < MaxFailures
    /\ failures' = failures + 1
    /\ damaged' = damaged \cup (IF HalfWay(r) THEN {req[r].id} ELSE {})
    /\ Reply(r, "error")
    /\ UNCHANGED <<models, infos, used>>

\* The server dies and docker starts it again; the database stays.
Restart ==
    /\ failures < MaxFailures
    /\ failures' = failures + 1
    /\ damaged' = damaged \cup {req[r].id : r \in {s \in Requests : HalfWay(s)}}
    /\ req' = [r \in Requests |-> Idle]
    /\ UNCHANGED <<models, infos, used>>

Next ==
    \/ \E r \in Requests :
          \/ Arrive(r)
          \/ \E id \in Ids, model \in Model : CreateModel(r, id, model)
          \/ CreateInfo(r)
          \/ \E title \in Titles : Update(r, title)
          \/ FindToDelete(r)
          \/ DeleteInfo(r)
          \/ DeleteModel(r)
          \/ \E status \in Statuses : UpdateStatus(r, status)
          \/ \E info \in Infos : SaveInfo(r, info)
          \/ Fail(r)
    \/ Restart

Spec == Init /\ [][Next]_vars

-----------------------------------------------------------------------------
(* Properties *)

\* A model is without info only while its own creation or a deletion of it is
\* half-way, or if one was interrupted there (modelsRoutes.js:19-20,
\* modelModel.js:14-19): no other order of requests gets there.
ModelHasInfo ==
    \A id \in Ids :
        models[id] # None /\ infos[id] = None =>
            \/ id \in damaged
            \/ \E r \in Requests : HalfWay(r) /\ req[r].id = id

\* To its users a model and its info are one document (AtomicStore): it appears
\* when its info does, disappears when the first of the two does, and never
\* comes back, whatever requests overlap, fail or are cut off.
Creating(id) == \E r \in Requests : req[r].at = "createInfo" /\ req[r].id = id
Seen(id) ==
    IF models[id] # None /\ infos[id] # None
    THEN [title |-> models[id].title, status |-> models[id].status, info |-> infos[id]]
    ELSE IF id \notin used \/ Creating(id) THEN None ELSE Gone
Store == [id \in Ids |-> Seen(id)]
Atomic == INSTANCE AtomicStore WITH store <- Store
ImplementsAtomicStore == Atomic!StoreSpec

-----------------------------------------------------------------------------
(* The inductive invariant behind them *)

\* Documents and requests are about ids that were given out; an info that is
\* being created does not exist yet, and one request creates it.
RequestsInv ==
    /\ \A id \in Ids : models[id] # None \/ infos[id] # None => id \in used
    /\ \A r \in Requests : req[r].at \notin {"idle", "create"} => req[r].id \in used
    /\ \A r \in Requests : req[r].at = "createInfo" => infos[req[r].id] = None
    /\ \A r, s \in Requests :
          req[r].at = "createInfo" /\ req[s].at = "createInfo" /\ req[r].id = req[s].id
              => r = s

IInv == TypeOK /\ RequestsInv /\ ModelHasInfo
=============================================================================
