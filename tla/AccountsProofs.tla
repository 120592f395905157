--------------------------- MODULE AccountsProofs ---------------------------
(***************************************************************************)
(* The invariants of Accounts, and that it implements UserDirectory, for   *)
(* any number of people, requests, names, e-mails and failures.            *)
(*                                                                         *)
(* A step of a handler changes one request and leaves the view alone; a    *)
(* step of the view changes one client, and what it does to requests other *)
(* than the one it starts only cuts them off (Cut).                        *)
(***************************************************************************)
EXTENDS Accounts, TLAPS

\* What a page that is left, a tab that is loaded again, a timeout or a restart
\* leave of a request q.
Cut(p, q) ==
    \/ p = Idle
    \/ /\ p.by = q.by /\ p.call = q.call /\ p.row = q.row /\ p.status = q.status
       /\ p.username = q.username /\ p.email = q.email
       /\ p.at = q.at \/ (p.at = "lost" /\ q.at # "idle")
       /\ p.heard # "none" => q.heard # "none"
       /\ p.at \in {"answered", "lost"} => p.heard # "none"

-----------------------------------------------------------------------------
(* Types *)

LEMMA IdleType == Idle \in Request
  BY DEF Request, Idle, Awaits, Hearings, Statuses

LEMMA AnsweredType ==
    ASSUME NEW q \in Request, NEW status \in Statuses, NEW row \in Row \cup {None}
    PROVE  Answered(q, status, row) \in Request
  <1>1. CASE q.heard = "none"  BY <1>1, IdleType DEF Answered
  <1>2. CASE q.heard # "none"
    <2>1. Answered(q, status, row) =
            [at |-> "answered", by |-> q.by, username |-> None, email |-> None,
             row |-> row, status |-> status, heard |-> q.heard, call |-> q.call]
      BY <1>2 DEF Answered, Idle
    <2>. QED  BY <2>1 DEF Request, Awaits
  <1>. QED  BY <1>1, <1>2

LEMMA HeardType ==
    ASSUME NEW q \in Request, NEW h \in Hearings, HandlerOK(q, users),
           q.heard # "none", h = "none" => q.at \notin {"answered", "lost"}
    PROVE  [q EXCEPT !.heard = h] \in Request /\ Cut([q EXCEPT !.heard = h], q)
  BY DEF Request, Cut, HandlerOK

\* What the actions of the view leave of the requests.
LEMMA LeftCuts ==
    ASSUME TypeOK, HandlersInv, NEW c, NEW p
    PROVE  /\ Left(req, c, p) \in [Requests -> Request]
           /\ \A s \in Requests : Cut(Left(req, c, p)[s], req[s])
  <1>1. ASSUME NEW s \in Requests
        PROVE  /\ Left(req, c, p)[s] \in Request
               /\ Cut(Left(req, c, p)[s], req[s])
    <2>1. req[s] \in Request /\ HandlerOK(req[s], users)  BY DEF TypeOK, HandlersInv
    <2>2. CASE p # page[c] /\ req[s].by = c /\ req[s].heard = "form"
      <3>1. Left(req, c, p)[s] = [req[s] EXCEPT !.heard = "left"]  BY <2>2 DEF Left
      <3>. QED  BY <2>1, <2>2, <3>1, HeardType DEF Hearings
    <2>3. CASE ~ (p # page[c] /\ req[s].by = c /\ req[s].heard = "form")
      <3>1. Left(req, c, p)[s] = req[s]  BY <2>3 DEF Left
      <3>. QED  BY <2>1, <3>1 DEF Cut, HandlerOK
    <2>. QED  BY <2>2, <2>3
  <1>. QED  BY <1>1 DEF Left

LEMMA OverCuts ==
    ASSUME TypeOK, HandlersInv, NEW r \in Requests, req[r].heard # "none", NEW c, NEW p
    PROVE  /\ Over(r) \in [Requests -> Request]
           /\ Left(Over(r), c, p) \in [Requests -> Request]
           /\ Over(r)[r].heard = "none" /\ Left(Over(r), c, p)[r].heard = "none"
           /\ \A s \in Requests : /\ Cut(Over(r)[s], req[s])
                                  /\ Cut(Left(Over(r), c, p)[s], req[s])
  <1>1. /\ Over(r)[r] \in Request /\ Cut(Over(r)[r], req[r])
        /\ Over(r)[r].heard = "none"
    <2>1. req[r] \in Request /\ HandlerOK(req[r], users)  BY DEF TypeOK, HandlersInv
    <2>2. CASE req[r].at \in {"answered", "lost"}
      <3>1. Over(r)[r] = Idle  BY <2>2 DEF Over, TypeOK
      <3>. QED  BY <2>1, <3>1, IdleType DEF Cut, Idle
    <2>3. CASE req[r].at \notin {"answered", "lost"}
      <3>1. Over(r)[r] = [req[r] EXCEPT !.heard = "none"]  BY <2>3 DEF Over, TypeOK
      <3>2. /\ [req[r] EXCEPT !.heard = "none"] \in Request
            /\ Cut([req[r] EXCEPT !.heard = "none"], req[r])
        BY <2>1, <2>3, HeardType DEF Hearings
      <3>. QED  BY <2>1, <3>1, <3>2 DEF Request
    <2>. QED  BY <2>2, <2>3
  <1>2. \A s \in Requests \ {r} : Over(r)[s] = req[s]  BY DEF Over, TypeOK
  <1>3. ASSUME NEW s \in Requests
        PROVE  Over(r)[s] \in Request /\ Cut(Over(r)[s], req[s])
    BY <1>1, <1>2 DEF TypeOK, Cut, HandlersInv, HandlerOK
  <1>4. Over(r) \in [Requests -> Request]  BY <1>3 DEF Over, TypeOK
  <1>5. ASSUME NEW s \in Requests
        PROVE  /\ Left(Over(r), c, p)[s] \in Request
               /\ Cut(Left(Over(r), c, p)[s], req[s])
               /\ s = r => Left(Over(r), c, p)[s].heard = "none"
    <2>1. CASE s = r \/ ~ (p # page[c] /\ Over(r)[s].by = c /\ Over(r)[s].heard = "form")
      <3>1. Left(Over(r), c, p)[s] = Over(r)[s]  BY <2>1, <1>1 DEF Left
      <3>. QED  BY <1>1, <1>3, <3>1
    <2>2. CASE s # r /\ p # page[c] /\ Over(r)[s].by = c /\ Over(r)[s].heard = "form"
      <3>1. Left(Over(r), c, p)[s] = [req[s] EXCEPT !.heard = "left"]
        BY <2>2, <1>2 DEF Left
      <3>2. req[s] \in Request /\ HandlerOK(req[s], users) /\ req[s].heard = "form"
        BY <1>2, <2>2 DEF TypeOK, HandlersInv
      <3>. QED  BY <2>2, <3>1, <3>2, HeardType DEF Hearings
    <2>. QED  BY <2>1, <2>2
  <1>. QED  BY <1>1, <1>3, <1>4, <1>5 DEF Left

-----------------------------------------------------------------------------
(* Steps of the server *)

\* An answer that is right for the request it answers.
LEMMA AnsweredOK ==
    ASSUME NEW q \in Request, NEW us, NEW status \in Statuses, NEW row \in Row \cup {None},
           q.by # None,
           row # None => row \in us /\ row.owner = q.by,
           q.call \in {"register", "login"} /\ status \in {200, 201} => row # None
    PROVE  LET x == Answered(q, status, row)
           IN  /\ x \in Request
               /\ HandlerOK(x, us) /\ AnswerIsOwn(x, us)
               /\ x.heard # "none" => /\ q.heard # "none" /\ x.by = q.by
                                      /\ x.call = q.call /\ x.status = status
                                      /\ x.at = "answered"
  <1>1. Answered(q, status, row) \in Request  BY AnsweredType
  <1>2. CASE q.heard = "none"
    <2>1. Answered(q, status, row) = Idle  BY <1>2 DEF Answered
    <2>. QED  BY <1>1, <2>1 DEF Idle, HandlerOK, AnswerIsOwn, Registering
  <1>3. CASE q.heard # "none"
    <2>1. Answered(q, status, row) =
            [at |-> "answered", by |-> q.by, username |-> None, email |-> None,
             row |-> row, status |-> status, heard |-> q.heard, call |-> q.call]
      BY <1>3 DEF Answered, Idle
    <2>. QED  BY <1>1, <1>3, <2>1 DEF HandlerOK, AnswerIsOwn, Registering
  <1>. QED  BY <1>2, <1>3

\* What a step of a handler leaves in its request.
Handled(r, x) ==
    /\ x \in Request
    /\ req' = [req EXCEPT ![r] = x]
    /\ HandlerOK(x, users') /\ AnswerIsOwn(x, users')
    /\ x.heard # "none" =>
          /\ req[r].heard # "none" /\ x.by = req[r].by /\ x.call = req[r].call
          /\ x.call = "protected" => /\ req[r].at = "protected" /\ x.at = "answered"
                                     /\ x.status = 200 <=> req[r].row # None

LEMMA AnswerHandled ==
    ASSUME NEW r \in Requests, NEW status \in Statuses, NEW row \in Row \cup {None},
           req \in [Requests -> Request], req[r].by # None, Answer(r, status, row),
           row # None => row \in users' /\ row.owner = req[r].by,
           req[r].call \in {"register", "login"} /\ status \in {200, 201} => row # None,
           req[r].call = "protected" =>
              req[r].at = "protected" /\ (status = 200 <=> req[r].row # None)
    PROVE  \E x : Handled(r, x)
  <1>. DEFINE x == Answered(req[r], status, row)
  <1>1. /\ x \in Request /\ HandlerOK(x, users') /\ AnswerIsOwn(x, users')
        /\ x.heard # "none" => /\ req[r].heard # "none" /\ x.by = req[r].by
                               /\ x.call = req[r].call /\ x.status = status
                               /\ x.at = "answered"
    BY AnsweredOK
  <1>2. req' = [req EXCEPT ![r] = x]  BY DEF Answer
  <1>. HIDE DEF x
  <1>3. Handled(r, x)  BY <1>1, <1>2 DEF Handled
  <1>. QED  BY <1>3

LEMMA NewRowType ==
    ASSUME IInv, NEW r \in Requests, req[r].at \in Registering
    PROVE  NewRow(req[r]) \in Row
  <1>1. req[r] \in Request /\ HandlerOK(req[r], users)
    BY DEF IInv, TypeOK, HandlersInv
  <1>2. req[r].by # None  BY <1>1 DEF HandlerOK, Registering
  <1>. QED  BY <1>1, <1>2 DEF HandlerOK, Request, NewRow, Row

\* A user is added only if the indexes allow it.
LEMMA Added ==
    ASSUME IInv, NEW u \in Row, ~ \E v \in users : Clash(v, u), users' = users \cup {u}
    PROVE  users' \in SUBSET Row /\ UniqueUsers'
  BY DEF IInv, TypeOK, UniqueUsers, Clash

LEMMA HandlerStep ==
    ASSUME IInv, NEW r \in Requests, Handler(r) \/ Fail(r)
    PROVE  /\ \E x : Handled(r, x)
           /\ users \subseteq users' /\ users' \in SUBSET Row /\ UniqueUsers'
           /\ UNCHANGED viewVars
           /\ failures' \in 0 .. MaxFailures
  <1>. USE AccountsAssumption
  <1>0. /\ req[r] \in Request /\ HandlerOK(req[r], users)
        /\ users \in SUBSET Row /\ UniqueUsers /\ failures \in 0 .. MaxFailures
        /\ req \in [Requests -> Request]
    BY DEF IInv, TypeOK, HandlersInv
  <1>1. users' = users =>
           users \subseteq users' /\ users' \in SUBSET Row /\ UniqueUsers'
    BY <1>0 DEF UniqueUsers
  <1>2. ASSUME NEW status \in {401, 409, 500}, Answer(r, status, None), req[r].by # None,
               req[r].call # "protected"
        PROVE  \E x : Handled(r, x)
    BY <1>0, <1>2, AnswerHandled DEF Statuses
  <1>3. ASSUME NEW at \in {"byEmail", "hash", "create"}, Await(r, at),
               req[r].at \in Registering
        PROVE  \E x : Handled(r, x)
    <2>. DEFINE x == [req[r] EXCEPT !.at = at]
    <2>1. x \in Request  BY <1>0 DEF Request, Awaits
    <2>2. /\ HandlerOK(x, users') /\ AnswerIsOwn(x, users') /\ x.call # "protected"
          /\ x.heard = req[r].heard /\ x.by = req[r].by /\ x.call = req[r].call
      BY <1>0, <1>3 DEF HandlerOK, AnswerIsOwn, Registering, Request
    <2>3. req' = [req EXCEPT ![r] = x]  BY <1>0, <1>3 DEF Await
    <2>. QED  BY <2>1, <2>2, <2>3 DEF Handled
  <1>4. CASE ByName(r)
    <2>1. req[r].by # None /\ req[r].call # "protected" /\ req[r].at \in Registering
      BY <1>0, <1>4 DEF ByName, HandlerOK, Registering
    <2>. QED  BY <1>0, <1>1, <1>2, <1>3, <1>4, <2>1 DEF ByName
  <1>5. CASE ByEmail(r)
    <2>1. req[r].by # None /\ req[r].call # "protected" /\ req[r].at \in Registering
      BY <1>0, <1>5 DEF ByEmail, HandlerOK, Registering
    <2>. QED  BY <1>0, <1>1, <1>2, <1>3, <1>5, <2>1 DEF ByEmail
  <1>6. CASE Hash(r)
    <2>1. req[r].at \in Registering  BY <1>6 DEF Hash, Registering
    <2>. QED  BY <1>0, <1>1, <1>3, <1>6, <2>1 DEF Hash
  <1>7. CASE Create(r)
    <2>1. req[r].by # None /\ req[r].call # "protected" /\ req[r].at \in Registering
      BY <1>0, <1>7 DEF Create, HandlerOK, Registering
    <2>2. CASE \E u \in users : Clash(u, NewRow(req[r]))
      BY <1>0, <1>1, <1>2, <1>7, <2>1, <2>2 DEF Create
    <2>3. CASE ~ \E u \in users : Clash(u, NewRow(req[r]))
      <3>1. /\ users' = users \cup {NewRow(req[r])}
            /\ Answer(r, 201, NewRow(req[r])) /\ UNCHANGED <<viewVars, failures>>
        BY <1>7, <2>3 DEF Create
      <3>2. NewRow(req[r]) \in Row /\ NewRow(req[r]).owner = req[r].by
        BY <2>1, NewRowType DEF NewRow
      <3>3. users' \in SUBSET Row /\ UniqueUsers'  BY <2>3, <3>1, <3>2, Added
      <3>4. \E x : Handled(r, x)
        BY <1>0, <2>1, <3>1, <3>2, AnswerHandled DEF Statuses
      <3>. QED  BY <1>0, <3>1, <3>3, <3>4
    <2>. QED  BY <2>2, <2>3
  <1>8. CASE Find(r)
    <2>1. req[r].by # None /\ req[r].call = "login"
      BY <1>0, <1>8 DEF Find, HandlerOK
    <2>2. CASE Answer(r, 401, None)
      BY <1>0, <1>1, <1>2, <1>8, <2>1, <2>2 DEF Find
    <2>3. CASE ~ Answer(r, 401, None)
      <3>1. PICK u \in users : /\ u.username = req[r].username
                               /\ req' = [req EXCEPT ![r].at = "compare", ![r].row = u]
        BY <1>8, <2>3 DEF Find
      <3>2. UNCHANGED <<users, viewVars, failures>>  BY <1>8 DEF Find
      <3>. DEFINE x == [req[r] EXCEPT !.at = "compare", !.row = u]
      <3>3. req' = [req EXCEPT ![r] = x]  BY <1>0, <3>1
      <3>4. x \in Request  BY <1>0 DEF Request, Awaits
      <3>5. HandlerOK(x, users') /\ AnswerIsOwn(x, users') /\ x.call = "login"
            /\ x.heard = req[r].heard /\ x.by = req[r].by /\ x.call = req[r].call
        BY <1>0, <2>1, <3>1, <3>2, <1>8 DEF HandlerOK, AnswerIsOwn, Registering, Request, Find
      <3>6. Handled(r, x)  BY <3>3, <3>4, <3>5 DEF Handled
      <3>. QED  BY <1>0, <1>1, <3>2, <3>6
    <2>. QED  BY <2>2, <2>3
  <1>9. CASE Compare(r)
    <2>1. req[r].by # None /\ req[r].call = "login" /\ req[r].row \in users
      BY <1>0, <1>9 DEF Compare, HandlerOK
    <2>2. CASE req[r].row.owner = req[r].by
      <3>1. Answer(r, 200, req[r].row) /\ UNCHANGED <<users, viewVars, failures>>
        BY <1>9, <2>2 DEF Compare
      <3>2. \E x : Handled(r, x)
        BY <1>0, <2>1, <2>2, <3>1, AnswerHandled DEF Statuses, Request
      <3>. QED  BY <1>0, <1>1, <3>1, <3>2
    <2>3. CASE req[r].row.owner # req[r].by
      BY <1>0, <1>1, <1>2, <1>9, <2>1, <2>3 DEF Compare
    <2>. QED  BY <2>2, <2>3
  <1>10. CASE LogoutRoute(r)
    <2>1. req[r].by # None /\ req[r].call = "logout"
      BY <1>0, <1>10 DEF LogoutRoute, HandlerOK
    <2>2. \E x : Handled(r, x)
      BY <1>0, <1>10, <2>1, AnswerHandled DEF LogoutRoute, Statuses
    <2>. QED  BY <1>0, <1>1, <1>10, <2>2 DEF LogoutRoute
  <1>11. CASE Protected(r)
    <2>. DEFINE status == IF req[r].row # None THEN 200 ELSE 401
    <2>1. req[r].by # None /\ req[r].call = "protected" /\ req[r].at = "protected"
      BY <1>0, <1>11 DEF Protected, HandlerOK
    <2>2. Answer(r, status, None)  BY <1>11 DEF Protected
    <2>3. status \in Statuses /\ (status = 200 <=> req[r].row # None)  BY DEF Statuses
    <2>. HIDE DEF status
    <2>4. \E x : Handled(r, x)
      BY <1>0, <2>1, <2>2, <2>3, AnswerHandled
    <2>. QED  BY <1>0, <1>1, <1>11, <2>4 DEF Protected
  <1>12. CASE Fail(r)
    <2>1. req[r].by # None /\ req[r].call # "protected"
      BY <1>0, <1>12 DEF Fail, HandlerOK, Registering
    <2>2. \E x : Handled(r, x)  BY <1>2, <1>12, <2>1 DEF Fail
    <2>3. failures' \in 0 .. MaxFailures /\ UNCHANGED viewVars  BY <1>0, <1>12 DEF Fail
    <2>4. CASE UNCHANGED users  BY <1>0, <1>1, <2>2, <2>3, <2>4
    <2>5. CASE ~ UNCHANGED users
      <3>1. /\ req[r].at = "create" /\ users' = users \cup {NewRow(req[r])}
            /\ ~ \E u \in users : Clash(u, NewRow(req[r]))
        BY <1>12, <2>5 DEF Fail
      <3>2. NewRow(req[r]) \in Row  BY <3>1, NewRowType DEF Registering
      <3>. QED  BY <2>2, <2>3, <3>1, <3>2, Added
    <2>. QED  BY <2>4, <2>5
  <1>. QED  BY <1>4, <1>5, <1>6, <1>7, <1>8, <1>9, <1>10, <1>11, <1>12 DEF Handler

\* A larger collection of users takes nothing away from a handler.
LEMMA HandlerGrows ==
    ASSUME NEW q, NEW us, NEW vs, us \subseteq vs
    PROVE  /\ HandlerOK(q, us) => HandlerOK(q, vs)
           /\ AnswerIsOwn(q, us) => AnswerIsOwn(q, vs)
  BY DEF HandlerOK, AnswerIsOwn

LEMMA HandledInductive ==
    ASSUME IInv, NEW r \in Requests, NEW x, Handled(r, x),
           users \subseteq users', users' \in SUBSET Row, UniqueUsers',
           UNCHANGED viewVars, failures' \in 0 .. MaxFailures
    PROVE  IInv'
  <1>0. /\ TypeOK /\ TokenIsOwn /\ HandlersInv /\ CheckInv /\ SessionAgrees
        /\ req \in [Requests -> Request]
    BY DEF IInv, TypeOK
  <1>1. /\ req'[r] = x /\ x \in Request /\ HandlerOK(x, users') /\ AnswerIsOwn(x, users')
        /\ \A s \in Requests \ {r} : req'[s] = req[s]
        /\ req' \in [Requests -> Request]
    BY <1>0 DEF Handled
  <1>2. TypeOK'  BY <1>0, <1>1 DEF TypeOK, viewVars
  <1>3. HandlersInv'  BY <1>0, <1>1, HandlerGrows DEF HandlersInv
  <1>4. TokenIsOwn'
    <2>1. \A s \in Requests : AnswerIsOwn(req'[s], users')
      BY <1>0, <1>1, HandlerGrows DEF TokenIsOwn
    <2>. QED  BY <1>0, <2>1 DEF TokenIsOwn, viewVars
  <1>5. SessionAgrees'  BY <1>0 DEF SessionAgrees, viewVars
  <1>6. CheckInv'
    <2>1. x.heard # "none" =>
            /\ req[r].heard # "none" /\ x.by = req[r].by /\ x.call = req[r].call
            /\ x.call = "protected" => /\ req[r].at = "protected" /\ x.at = "answered"
                                       /\ x.status = 200 <=> req[r].row # None
      BY DEF Handled
    <2>2. /\ \A s \in Requests : req'[s].heard # "none" =>
                /\ req[s].heard # "none" /\ req'[s].by = req[s].by
                /\ req'[s].call = req[s].call
      BY <1>1, <2>1
    <2>3. starting' = starting /\ doubt' = doubt /\ token' = token  BY DEF viewVars
    <2>4. ASSUME NEW s \in Requests, req'[s].heard # "none", req'[s].call = "protected",
                 ~ doubt[req'[s].by]
          PROVE  LET cookie == token[req'[s].by] # None
                 IN  /\ req'[s].at = "protected" => (req'[s].row # None <=> cookie)
                     /\ req'[s].at = "answered" => (req'[s].status = 200 <=> cookie)
      <3>1. CASE s = r
        BY <1>0, <1>1, <2>1, <2>2, <2>4, <3>1 DEF CheckInv, Heard
      <3>2. CASE s # r
        BY <1>0, <1>1, <2>2, <2>4, <3>2 DEF CheckInv, Heard
      <3>. QED  BY <3>1, <3>2
    <2>. QED  BY <1>0, <2>2, <2>3, <2>4 DEF CheckInv, Heard
  <1>. QED  BY <1>2, <1>3, <1>4, <1>5, <1>6 DEF IInv

LEMMA HandlersInductive ==
    ASSUME IInv, NEW r \in Requests, Handler(r) \/ Fail(r)
    PROVE  IInv'
  <1>1. PICK x : Handled(r, x)  BY HandlerStep
  <1>. QED  BY <1>1, HandlerStep, HandledInductive

-----------------------------------------------------------------------------
(* Steps that cut requests off, and may start one *)

LEMMA CutOK ==
    ASSUME NEW p, NEW q, NEW us, Cut(p, q)
    PROVE  /\ HandlerOK(q, us) => HandlerOK(p, us)
           /\ AnswerIsOwn(q, us) => AnswerIsOwn(p, us)
           /\ p.heard # "none" => /\ q.heard # "none" /\ p.by = q.by /\ p.call = q.call
                                  /\ p.row = q.row /\ p.status = q.status
                                  /\ p.at = q.at \/ p.at = "lost"
  BY DEF Cut, HandlerOK, AnswerIsOwn, Idle, Registering

\* The invariants of the handlers only need that requests are cut off or well.
LEMMA CutHandlers ==
    ASSUME HandlersInv, TokenIsOwn, UNCHANGED users,
           \A s \in Requests :
              \/ Cut(req'[s], req[s])
              \/ HandlerOK(req'[s], users) /\ AnswerIsOwn(req'[s], users)
    PROVE  HandlersInv' /\ \A s \in Requests : AnswerIsOwn(req'[s], users')
  BY CutOK DEF HandlersInv, TokenIsOwn

\* A request that was cut off, or not, while nothing changed that matters to
\* its caller; a request that has just been started, and is no check.
Kept(s) ==
    /\ Cut(req'[s], req[s])
    /\ req'[s].heard # "none" =>
          LET c == req[s].by
          IN  /\ starting'[c] = starting[c]
              /\ starting[c] /\ ~ doubt'[c] => ~ doubt[c] /\ token'[c] = token[c]
Fresh(s) == req'[s].call # "protected" /\ ~ starting'[req'[s].by]

LEMMA CheckKept ==
    ASSUME CheckInv, \A s \in Requests : Kept(s) \/ Fresh(s)
    PROVE  CheckInv'
  <1>1. \A s \in Requests : req'[s].heard # "none" /\ ~ Fresh(s) =>
           /\ req[s].heard # "none" /\ req'[s].by = req[s].by
           /\ req'[s].call = req[s].call /\ req'[s].row = req[s].row
           /\ req'[s].status = req[s].status
           /\ req'[s].at = req[s].at \/ req'[s].at = "lost"
           /\ starting'[req[s].by] = starting[req[s].by]
    BY CutOK DEF Kept
  <1>2. ASSUME NEW s \in Requests, req'[s].heard # "none"
        PROVE  req'[s].call = "protected" <=> starting'[req'[s].by]
    <2>1. CASE Fresh(s)  BY <2>1 DEF Fresh
    <2>2. CASE ~ Fresh(s)  BY <1>1, <1>2, <2>2 DEF CheckInv, Heard
    <2>. QED  BY <2>1, <2>2
  <1>3. ASSUME NEW s \in Requests, req'[s].heard # "none", req'[s].call = "protected"
        PROVE  /\ ~ Fresh(s) /\ starting'[req'[s].by]
               /\ req[s].heard # "none" /\ req[s].call = "protected"
    BY <1>1, <1>2, <1>3 DEF Fresh
  <1>4. ASSUME NEW s \in Requests, NEW t \in Requests,
               req'[s].heard # "none", req'[t].heard # "none",
               req'[s].by = req'[t].by, req'[s].call = "protected"
        PROVE  s = t
    <2>1. req'[t].call = "protected"  BY <1>2, <1>3, <1>4
    <2>. QED  BY <1>1, <1>3, <1>4, <2>1 DEF CheckInv, Heard
  <1>5. ASSUME NEW s \in Requests, req'[s].heard # "none", req'[s].call = "protected",
               ~ doubt'[req'[s].by]
        PROVE  LET cookie == token'[req'[s].by] # None
               IN  /\ req'[s].at = "protected" => (req'[s].row # None <=> cookie)
                   /\ req'[s].at = "answered" => (req'[s].status = 200 <=> cookie)
    <2>1. ~ doubt[req[s].by] /\ token'[req'[s].by] = token[req[s].by]
      BY <1>1, <1>3, <1>5 DEF Kept
    <2>. QED  BY <1>1, <1>3, <1>5, <2>1 DEF CheckInv, Heard
  <1>. QED  BY <1>2, <1>4, <1>5 DEF CheckInv, Heard

-----------------------------------------------------------------------------
(* Steps of the view and of docker *)

FormType == [Clients -> [isLoading : BOOLEAN, banner : {"none", "exists", "invalid"}]]

LEMMA ShowType ==
    ASSUME TypeOK, NEW c \in Clients, NEW p \in Pages, Show(c, p)
    PROVE  page' \in [Clients -> Pages] /\ form' \in FormType
  BY DEF TypeOK, Show, FormType, Blank

\* The session of nobody changes: the requests are cut off, and one may start.
LEMMA SameSessions ==
    ASSUME IInv, UNCHANGED <<users, loggedIn, starting, token, doubt>>,
           page' \in [Clients -> Pages], form' \in FormType,
           failures' \in 0 .. MaxFailures, req' \in [Requests -> Request],
           \A s \in Requests :
              \/ Cut(req'[s], req[s])
              \/ Fresh(s) /\ HandlerOK(req'[s], users) /\ AnswerIsOwn(req'[s], users)
    PROVE  IInv'
  <1>. USE DEF IInv
  <1>1. TypeOK'  BY DEF TypeOK, FormType
  <1>2. HandlersInv' /\ \A s \in Requests : AnswerIsOwn(req'[s], users')
    BY CutHandlers
  <1>3. CheckInv'
    <2>1. \A s \in Requests : Cut(req'[s], req[s]) => Kept(s)  BY DEF Kept
    <2>. QED  BY <2>1, CheckKept
  <1>4. UniqueUsers' /\ SessionAgrees'  BY DEF UniqueUsers, SessionAgrees
  <1>5. TokenIsOwn'  BY <1>2 DEF TokenIsOwn
  <1>. QED  BY <1>1, <1>2, <1>3, <1>4, <1>5

\* The session of c changes, and no request starts.
LEMMA OneSession ==
    ASSUME IInv, NEW c \in Clients, UNCHANGED <<users, failures>>,
           page' \in [Clients -> Pages], form' \in FormType,
           req' \in [Requests -> Request], \A s \in Requests : Kept(s),
           NEW in \in BOOLEAN, NEW st \in BOOLEAN, NEW tk \in Row \cup {None},
           NEW db \in BOOLEAN,
           loggedIn' = [loggedIn EXCEPT ![c] = in],
           starting' = [starting EXCEPT ![c] = st],
           token' = [token EXCEPT ![c] = tk],
           doubt' = [doubt EXCEPT ![c] = db],
           tk # None => tk \in users /\ tk.owner = c,
           ~ st /\ ~ db => (in <=> tk # None)
    PROVE  IInv'
  <1>0. TypeOK /\ TokenIsOwn /\ HandlersInv /\ CheckInv /\ SessionAgrees /\ UniqueUsers
    BY DEF IInv
  <1>1. TypeOK'  BY <1>0 DEF TypeOK, FormType
  <1>2. HandlersInv' /\ \A s \in Requests : AnswerIsOwn(req'[s], users')
    BY <1>0, CutHandlers DEF Kept
  <1>3. CheckInv'  BY <1>0, CheckKept
  <1>4. SessionAgrees'
    <2>1. ASSUME NEW d \in Clients, ~ starting'[d], ~ doubt'[d]
          PROVE  loggedIn'[d] <=> token'[d] # None
      <3>1. CASE d = c  BY <1>0, <2>1, <3>1 DEF TypeOK
      <3>2. CASE d # c  BY <1>0, <2>1, <3>2 DEF TypeOK, SessionAgrees
      <3>. QED  BY <3>1, <3>2
    <2>. QED  BY <2>1 DEF SessionAgrees
  <1>5. TokenIsOwn'
    <2>1. \A d \in Clients : token'[d] # None => token'[d] \in users /\ token'[d].owner = d
      BY <1>0 DEF TypeOK, TokenIsOwn
    <2>. QED  BY <1>2, <2>1 DEF TokenIsOwn
  <1>6. UniqueUsers'  BY <1>0 DEF UniqueUsers
  <1>. QED  BY <1>1, <1>2, <1>3, <1>4, <1>5, <1>6 DEF IInv

LEMMA Facts ==
    ASSUME IInv
    PROVE  /\ TypeOK /\ HandlersInv /\ CheckInv /\ TokenIsOwn
           /\ req \in [Requests -> Request] /\ failures \in 0 .. MaxFailures
           /\ page \in [Clients -> Pages] /\ form \in FormType
           /\ \A r \in Requests :
                 req[r] \in Request /\ HandlerOK(req[r], users) /\ Cut(req[r], req[r])
  BY DEF IInv, TypeOK, HandlersInv, HandlerOK, FormType, Cut

LEMMA RoutedType ==
    ASSUME NEW p \in Pages, NEW in
    PROVE  Routed(p, in) \in Pages
  BY DEF Routed, Pages

LEMMA NavigateStep ==
    ASSUME IInv, NEW c \in Clients, NEW target \in Pages, Navigate(c, target)
    PROVE  IInv'
  <1>0. PICK p \in Pages :
          /\ Show(c, p) /\ req' = Left(req, c, p)
          /\ UNCHANGED <<users, loggedIn, starting, token, doubt, failures>>
    BY RoutedType DEF Navigate
  <1>1. /\ req' \in [Requests -> Request] /\ failures' \in 0 .. MaxFailures
        /\ \A s \in Requests : Cut(req'[s], req[s])
    BY <1>0, Facts, LeftCuts
  <1>2. page' \in [Clients -> Pages] /\ form' \in FormType  BY <1>0, Facts, ShowType
  <1>. QED  BY <1>0, <1>1, <1>2, SameSessions

\* A request of a form or of the Navbar that has just been started.
LEMMA StartedOK ==
    ASSUME NEW q \in Request, q.by # None, q.heard # "none",
           \/ q.at = "byName" /\ q.call = "register" /\ q.username # None /\ q.email # None
           \/ q.at = "find" /\ q.call = "login"
           \/ q.at = "logout" /\ q.call = "logout"
    PROVE  HandlerOK(q, users) /\ AnswerIsOwn(q, users)
  BY DEF HandlerOK, AnswerIsOwn, Registering

\* The requests of the view, written out.
LEMMA IdleWith ==
    ASSUME NEW c, NEW u, NEW e, NEW q
    PROVE  /\ q = [Idle EXCEPT !.at = "byName", !.by = c, !.heard = "form",
                               !.call = "register", !.username = u, !.email = e]
              => q = [at |-> "byName", by |-> c, username |-> u, email |-> e, row |-> None,
                      status |-> 0, heard |-> "form", call |-> "register"]
           /\ q = [Idle EXCEPT !.at = "find", !.by = c, !.heard = "form",
                               !.call = "login", !.username = u]
              => q = [at |-> "find", by |-> c, username |-> u, email |-> None, row |-> None,
                      status |-> 0, heard |-> "form", call |-> "login"]
           /\ q = [Idle EXCEPT !.at = "logout", !.by = c, !.heard = "left", !.call = "logout"]
              => q = [at |-> "logout", by |-> c, username |-> None, email |-> None,
                      row |-> None, status |-> 0, heard |-> "left", call |-> "logout"]
  BY DEF Idle

LEMMA CheckWith ==
    ASSUME NEW c, NEW w, NEW q,
           q = [Idle EXCEPT !.at = "protected", !.by = c, !.row = w, !.heard = "left",
                            !.call = "protected"]
    PROVE  q = [at |-> "protected", by |-> c, username |-> None, email |-> None,
                row |-> w, status |-> 0, heard |-> "left", call |-> "protected"]
  BY DEF Idle

LEMMA SubmitStep ==
    ASSUME IInv, NEW c \in Clients, NEW r \in Requests, NEW f \in Forms, Submit(c, r, f)
    PROVE  IInv'
  <1>. USE AccountsAssumption
  <1>0. /\ ~ starting[c] /\ form' = [form EXCEPT ![c].isLoading = TRUE]
        /\ UNCHANGED <<users, page, loggedIn, starting, token, doubt, failures>>
    BY DEF Submit
  <1>1. /\ f.username \in Names /\ f.email \in Emails
        /\ f.username # None /\ f.email # None /\ c # None
    OBVIOUS
  <1>2. PICK q : /\ req' = [req EXCEPT ![r] = q]
                 /\ \/ q = [at |-> "byName", by |-> c, username |-> f.username,
                            email |-> f.email, row |-> None, status |-> 0,
                            heard |-> "form", call |-> "register"]
                    \/ q = [at |-> "find", by |-> c, username |-> f.username,
                            email |-> None, row |-> None, status |-> 0,
                            heard |-> "form", call |-> "login"]
    <2>1. PICK q :
             /\ req' = [req EXCEPT ![r] = q]
             /\ \/ q = [Idle EXCEPT !.at = "byName", !.by = c, !.heard = "form",
                              !.call = "register", !.username = f.username,
                              !.email = f.email]
                \/ q = [Idle EXCEPT !.at = "find", !.by = c, !.heard = "form",
                              !.call = "login", !.username = f.username]
      BY Zenon DEF Submit
    <2>2. \/ q = [at |-> "byName", by |-> c, username |-> f.username,
                  email |-> f.email, row |-> None, status |-> 0,
                  heard |-> "form", call |-> "register"]
          \/ q = [at |-> "find", by |-> c, username |-> f.username,
                  email |-> None, row |-> None, status |-> 0,
                  heard |-> "form", call |-> "login"]
      BY <2>1, IdleWith
    <2>. QED  BY <2>1, <2>2, Zenon
  <1>3. q \in Request /\ q.by = c /\ q.call # "protected"
    BY <1>1, <1>2 DEF Request, Awaits, Hearings, Statuses
  <1>4. HandlerOK(q, users) /\ AnswerIsOwn(q, users)  BY <1>1, <1>2, <1>3, StartedOK
  <1>5. /\ req' \in [Requests -> Request] /\ req'[r] = q
        /\ \A s \in Requests \ {r} : req'[s] = req[s]
    BY <1>2, <1>3, Facts
  <1>6. form' \in FormType /\ page' \in [Clients -> Pages] /\ failures' \in 0 .. MaxFailures
    BY <1>0, Facts DEF FormType
  <1>7. Fresh(r)  BY <1>0, <1>3, <1>5 DEF Fresh
  <1>8. \A s \in Requests \ {r} : Cut(req'[s], req[s])  BY <1>5, Facts
  <1>. QED  BY <1>0, <1>4, <1>5, <1>6, <1>7, <1>8, SameSessions

LEMMA LogOutStep ==
    ASSUME IInv, NEW c \in Clients, NEW r \in Requests, LogOut(c, r)
    PROVE  IInv'
  <1>. USE AccountsAssumption
  <1>. DEFINE Asks(p, q) ==
          /\ ~ starting[c] /\ Show(c, p)
          /\ q = [at |-> "logout", by |-> c, username |-> None, email |-> None,
                  row |-> None, status |-> 0, heard |-> "left", call |-> "logout"]
          /\ req' = [Left(req, c, p) EXCEPT ![r] = q]
          /\ UNCHANGED <<users, loggedIn, starting, token, doubt, failures>>
  <1>p. PICK p \in Pages : \E q : Asks(p, q)
    <2>1. Routed("login", loggedIn[c]) \in Pages  BY RoutedType DEF Pages
    <2>. QED  BY <2>1, IdleWith, Zenon DEF LogOut
  <1>0. PICK q : Asks(p, q)  BY <1>p
  <1>1. /\ Left(req, c, p) \in [Requests -> Request]
        /\ \A s \in Requests : Cut(Left(req, c, p)[s], req[s])
    BY Facts, LeftCuts
  <1>2. q \in Request /\ q.by = c /\ q.call # "protected"
    BY <1>0 DEF Request, Awaits, Hearings, Statuses
  <1>3. HandlerOK(q, users) /\ AnswerIsOwn(q, users)  BY <1>0, <1>2, StartedOK
  <1>4. /\ req' \in [Requests -> Request] /\ req'[r] = q
        /\ \A s \in Requests \ {r} : Cut(req'[s], req[s])
    BY <1>0, <1>1, <1>2
  <1>5. page' \in [Clients -> Pages] /\ form' \in FormType /\ failures' \in 0 .. MaxFailures
    BY <1>0, Facts, ShowType
  <1>6. Fresh(r)  BY <1>0, <1>2, <1>4 DEF Fresh
  <1>. QED  BY <1>0, <1>3, <1>4, <1>5, <1>6, SameSessions

LEMMA RestartStep ==
    ASSUME IInv, Restart
    PROVE  IInv'
  <1>1. ASSUME NEW s \in Requests
        PROVE  req'[s] \in Request /\ Cut(req'[s], req[s])
    <2>0. req[s] \in Request /\ HandlerOK(req[s], users) /\ Cut(req[s], req[s])  BY Facts
    <2>1. CASE req[s].heard = "none"
      <3>1. req'[s] = Idle  BY <2>0, <2>1 DEF Restart, HandlerOK
      <3>. QED  BY <3>1, IdleType DEF Cut
    <2>2. CASE req[s].heard # "none" /\ req[s].at = "answered"
      <3>1. req'[s] = req[s]  BY <2>2 DEF Restart
      <3>. QED  BY <2>0, <3>1
    <2>3. CASE req[s].heard # "none" /\ req[s].at # "answered"
      <3>1. req'[s] = [req[s] EXCEPT !.at = "lost"]  BY <2>3 DEF Restart
      <3>. QED  BY <2>0, <2>3, <3>1 DEF Cut, HandlerOK, Request, Awaits
    <2>. QED  BY <2>1, <2>2, <2>3
  <1>2. req' \in [Requests -> Request]  BY <1>1 DEF Restart
  <1>3. failures' \in 0 .. MaxFailures  BY Facts, AccountsAssumption DEF Restart
  <1>. QED  BY <1>1, <1>2, <1>3, Facts, SameSessions DEF Restart, viewVars

LEMMA ExpireStep ==
    ASSUME IInv, NEW c \in Clients, Expire(c)
    PROVE  IInv'
  <1>1. \A s \in Requests : Kept(s)  BY Facts DEF Kept, Expire, TypeOK
  <1>2. /\ loggedIn' = [loggedIn EXCEPT ![c] = loggedIn[c]] /\ loggedIn[c] \in BOOLEAN
        /\ starting' = [starting EXCEPT ![c] = starting[c]] /\ starting[c] \in BOOLEAN
        /\ token' = [token EXCEPT ![c] = None]
        /\ doubt' = [doubt EXCEPT ![c] = TRUE]
    BY Facts DEF Expire, TypeOK
  <1>. QED  BY <1>1, <1>2, Facts, OneSession DEF Expire

\* A request that is heard is on its way for a client.
LEMMA HeardFacts ==
    ASSUME IInv, NEW r \in Requests, req[r].heard # "none"
    PROVE  /\ req[r].by \in Clients
           /\ req[r].call = "protected" <=> starting[req[r].by]
  BY Facts DEF HandlerOK, CheckInv, Heard, Request

LEMMA GoToCuts ==
    ASSUME IInv, NEW r \in Requests, req[r].heard # "none", NEW c \in Clients,
           NEW p \in Pages, GoTo(c, r, p)
    PROVE  /\ page' \in [Clients -> Pages] /\ form' \in FormType
           /\ req' \in [Requests -> Request]
           /\ \A s \in Requests : Cut(req'[s], req[s])
           /\ req'[r].heard = "none"
  <1>1. Show(c, p) /\ req' = Left(Over(r), c, p)  BY DEF GoTo
  <1>2. page' \in [Clients -> Pages] /\ form' \in FormType  BY <1>1, Facts, ShowType
  <1>. QED  BY <1>1, <1>2, Facts, OverCuts

LEMMA ServerErrorStep ==
    ASSUME IInv, NEW r \in Requests, req[r].heard # "none",
           ServerError(req[r].by, r), UNCHANGED <<users, failures>>
    PROVE  IInv'
  <1>1. /\ GoTo(req[r].by, r, "server-error") /\ "server-error" \in Pages
        /\ UNCHANGED <<loggedIn, starting, token, doubt>>
    BY DEF ServerError, Pages
  <1>2. req[r].by \in Clients  BY HeardFacts
  <1>3. /\ page' \in [Clients -> Pages] /\ form' \in FormType
        /\ req' \in [Requests -> Request]
        /\ \A s \in Requests : Cut(req'[s], req[s])
    BY <1>1, <1>2, GoToCuts
  <1>4. failures' \in 0 .. MaxFailures  BY Facts
  <1>. QED  BY <1>1, <1>3, <1>4, SameSessions

LEMMA BannerStep ==
    ASSUME IInv, NEW r \in Requests, req[r].heard # "none",
           NEW banner \in {"exists", "invalid"}, Banner(req[r].by, r, banner),
           UNCHANGED <<users, failures>>
    PROVE  IInv'
  <1>1. /\ req' \in [Requests -> Request]
        /\ \A s \in Requests : Cut(req'[s], req[s])
    BY Facts, OverCuts DEF Banner
  <1>2. form' \in FormType  BY Facts DEF Banner, FormType
  <1>3. page' \in [Clients -> Pages] /\ failures' \in 0 .. MaxFailures
    BY Facts DEF Banner
  <1>. QED  BY <1>1, <1>2, <1>3, SameSessions DEF Banner

\* Somebody logs in, or out: no check of the cookie is on its way.
LEMMA SessionStep ==
    ASSUME IInv, NEW r \in Requests, req[r].heard # "none", NEW p \in Pages,
           GoTo(req[r].by, r, p), req[r].call # "protected",
           NEW in \in BOOLEAN, NEW tk \in Row \cup {None},
           tk # None => tk \in users /\ tk.owner = req[r].by, in <=> tk # None,
           loggedIn' = [loggedIn EXCEPT ![req[r].by] = in],
           token' = [token EXCEPT ![req[r].by] = tk],
           doubt' = [doubt EXCEPT ![req[r].by] = FALSE],
           UNCHANGED <<users, starting, failures>>
    PROVE  IInv'
  <1>1. PICK c \in Clients : c = req[r].by /\ ~ starting[c]  BY HeardFacts
  <1>2. /\ page' \in [Clients -> Pages] /\ form' \in FormType
        /\ req' \in [Requests -> Request]
        /\ \A s \in Requests : Cut(req'[s], req[s])
    BY <1>1, GoToCuts
  <1>3. \A s \in Requests : Kept(s)
    BY <1>1, <1>2, Facts DEF Kept, TypeOK
  <1>4. starting' = [starting EXCEPT ![c] = starting[c]] /\ starting[c] \in BOOLEAN
    BY Facts DEF TypeOK
  <1>. QED  BY <1>1, <1>2, <1>3, <1>4, OneSession

LEMMA EnteredStep ==
    ASSUME IInv, NEW r \in Requests, req[r].at = "answered",
           req[r].call \in {"register", "login"}, req[r].status \in {200, 201},
           Entered(req[r].by, r), UNCHANGED <<users, failures>>
    PROVE  IInv'
  <1>1. /\ req[r].heard # "none" /\ req[r].row # None /\ req[r].row \in users
        /\ req[r].row.owner = req[r].by /\ req[r].row \in Row \cup {None}
    BY Facts DEF HandlerOK, TokenIsOwn, AnswerIsOwn, Request
  <1>2. /\ GoTo(req[r].by, r, "models") /\ "models" \in Pages
        /\ loggedIn' = [loggedIn EXCEPT ![req[r].by] = TRUE]
        /\ token' = [token EXCEPT ![req[r].by] = req[r].row]
        /\ doubt' = [doubt EXCEPT ![req[r].by] = FALSE]
        /\ UNCHANGED starting
    BY DEF Entered, Pages
  <1>. QED  BY <1>1, <1>2, SessionStep

LEMMA LoggedOutStep ==
    ASSUME IInv, NEW r \in Requests, req[r].heard # "none", req[r].call = "logout",
           LoggedOut(req[r].by, r), UNCHANGED <<users, failures>>
    PROVE  IInv'
  <1>1. PICK p \in Pages : GoTo(req[r].by, r, p)
    <2>1. page[req[r].by] \in Pages  BY Facts, HeardFacts
    <2>. QED  BY <2>1, RoutedType DEF LoggedOut
  <1>2. /\ loggedIn' = [loggedIn EXCEPT ![req[r].by] = FALSE]
        /\ token' = [token EXCEPT ![req[r].by] = None]
        /\ doubt' = [doubt EXCEPT ![req[r].by] = FALSE]
        /\ UNCHANGED starting
    BY DEF LoggedOut
  <1>. QED  BY <1>1, <1>2, SessionStep

\* The check is over, and nothing else of this client was heard.
LEMMA StartedStep ==
    ASSUME IInv, NEW r \in Requests, req[r].heard # "none", req[r].call = "protected",
           NEW in \in BOOLEAN, Started(req[r].by, r, in), UNCHANGED <<users, failures>>,
           NEW db \in BOOLEAN, doubt' = [doubt EXCEPT ![req[r].by] = db],
           ~ db => (in <=> token[req[r].by] # None)
    PROVE  IInv'
  <1>1. PICK c \in Clients : c = req[r].by /\ starting[c]  BY HeardFacts
  <1>2. PICK p \in Pages : GoTo(c, r, p)
    <2>1. page[c] \in Pages  BY Facts
    <2>. QED  BY <1>1, <2>1, RoutedType DEF Started
  <1>3. /\ page' \in [Clients -> Pages] /\ form' \in FormType
        /\ req' \in [Requests -> Request]
        /\ \A s \in Requests : Cut(req'[s], req[s])
        /\ req'[r].heard = "none"
    BY <1>1, <1>2, GoToCuts
  <1>4. /\ starting' = [starting EXCEPT ![c] = FALSE]
        /\ loggedIn' = [loggedIn EXCEPT ![c] = in]
        /\ token' = token
    BY <1>1 DEF Started
  <1>5. /\ token' = [token EXCEPT ![c] = token[c]]
        /\ token[c] \in Row \cup {None}
        /\ token[c] # None => token[c] \in users /\ token[c].owner = c
    BY <1>4, Facts DEF TypeOK, TokenIsOwn
  <1>6. ASSUME NEW s \in Requests
        PROVE  Kept(s)
    <2>1. req'[s].heard # "none" => req[s].by # c
      <3>1. SUFFICES ASSUME req'[s].heard # "none", req[s].by = c
                     PROVE  FALSE
        OBVIOUS
      <3>2. req[s].heard # "none"  BY <1>3, <3>1, CutOK
      <3>3. req[s].call = "protected"  BY <1>1, <3>1, <3>2, HeardFacts
      <3>4. s = r  BY <1>1, <3>1, <3>2, <3>3, Facts DEF CheckInv, Heard
      <3>. QED  BY <1>3, <3>1, <3>4
    <2>2. \A d \in Clients \ {c} : doubt'[d] = doubt[d] /\ starting'[d] = starting[d]
      <3>1. doubt \in [Clients -> BOOLEAN] /\ starting \in [Clients -> BOOLEAN]
        BY Facts DEF TypeOK
      <3>2. doubt' = [doubt EXCEPT ![c] = db]  BY <1>1
      <3>. QED  BY <1>4, <3>1, <3>2
    <2>3. req'[s].heard # "none" => req[s].by \in Clients
      BY <1>3, CutOK, HeardFacts
    <2>. QED  BY <1>3, <1>4, <2>1, <2>2, <2>3 DEF Kept
  <1>7. doubt' = [doubt EXCEPT ![c] = db] /\ (~ db => (in <=> token[c] # None))  BY <1>1
  <1>. QED  BY <1>3, <1>4, <1>5, <1>6, <1>7, OneSession

LEMMA ReceiveStep ==
    ASSUME IInv, NEW r \in Requests, Receive(r)
    PROVE  IInv'
  <1>0. /\ req[r].at = "answered" /\ req[r].heard # "none" /\ UNCHANGED <<users, failures>>
    BY Facts DEF Receive, HandlerOK
  <1>1. CASE /\ req[r].call \in {"register", "login"} /\ req[r].status \in {200, 201}
             /\ Entered(req[r].by, r)
    BY <1>0, <1>1, EnteredStep
  <1>2. CASE \E banner \in {"exists", "invalid"} : Banner(req[r].by, r, banner)
    BY <1>0, <1>2, BannerStep
  <1>3. CASE ServerError(req[r].by, r)
    BY <1>0, <1>3, ServerErrorStep
  <1>4. CASE req[r].call = "logout" /\ LoggedOut(req[r].by, r)
    BY <1>0, <1>4, LoggedOutStep
  <1>5. CASE /\ req[r].call = "protected" /\ UNCHANGED doubt
             /\ Started(req[r].by, r, req[r].status = 200)
    <2>1. PICK in \in BOOLEAN :
             in = (req[r].status = 200) /\ Started(req[r].by, r, in)
      BY <1>5
    <2>2. PICK db \in BOOLEAN :
             db = doubt[req[r].by] /\ doubt' = [doubt EXCEPT ![req[r].by] = db]
      <3>1. doubt \in [Clients -> BOOLEAN] /\ req[r].by \in Clients
        BY <1>0, HeardFacts, Facts DEF TypeOK
      <3>2. doubt[req[r].by] \in BOOLEAN
               /\ doubt' = [doubt EXCEPT ![req[r].by] = doubt[req[r].by]]
        BY <1>5, <3>1
      <3>. QED  BY <3>2
    <2>3. ~ db => (in <=> token[req[r].by] # None)
      BY <1>0, <1>5, <2>1, <2>2, Facts DEF CheckInv, Heard
    <2>. QED  BY <1>0, <1>5, <2>1, <2>2, <2>3, StartedStep
  <1>. QED  BY <1>1, <1>2, <1>3, <1>4, <1>5 DEF Receive

LEMMA GiveUpStep ==
    ASSUME IInv, NEW r \in Requests, GiveUp(r)
    PROVE  IInv'
  <1>0. req[r].heard # "none" /\ UNCHANGED <<users, failures>>  BY DEF GiveUp
  <1>1. CASE ServerError(req[r].by, r)  BY <1>0, <1>1, ServerErrorStep
  <1>2. CASE req' = Over(r) /\ UNCHANGED viewVars
    <2>1. /\ req' \in [Requests -> Request]
          /\ \A s \in Requests : Cut(req'[s], req[s])
      BY <1>0, <1>2, Facts, OverCuts
    <2>2. page' \in [Clients -> Pages] /\ form' \in FormType /\ failures' \in 0 .. MaxFailures
      BY <1>0, <1>2, Facts DEF viewVars
    <2>. QED  BY <1>0, <1>2, <2>1, <2>2, SameSessions DEF viewVars
  <1>3. CASE /\ req[r].call = "protected" /\ Started(req[r].by, r, FALSE)
             /\ doubt' = [doubt EXCEPT ![req[r].by] = TRUE]
    BY <1>0, <1>3, StartedStep
  <1>. QED  BY <1>1, <1>2, <1>3 DEF GiveUp

\* The promises of the old page are cut off, and one check starts.
LEMMA ReloadStep ==
    ASSUME IInv, NEW c \in Clients, NEW r \in Requests, Reload(c, r)
    PROVE  IInv'
  <1>. DEFINE q == [at |-> "protected", by |-> c, username |-> None, email |-> None,
                    row |-> token[c], status |-> 0, heard |-> "left",
                    call |-> "protected"]
  <1>0. /\ TypeOK /\ TokenIsOwn /\ HandlersInv /\ CheckInv /\ SessionAgrees /\ UniqueUsers
        /\ c # None /\ UNCHANGED <<users, page, token, failures>>
    BY AccountsAssumption DEF IInv, Reload
  <1>1. /\ req'[r] = q /\ q \in Request
        /\ HandlerOK(q, users) /\ AnswerIsOwn(q, users)
    <2>2. req'[r] = q
      <3>1. req'[r] = [Idle EXCEPT !.at = "protected", !.by = c, !.row = token[c],
                                   !.heard = "left", !.call = "protected"]
        BY DEF Reload
      <3>. QED  BY <3>1, CheckWith, Zenon
    <2>3. q \in Request  BY <1>0 DEF Request, Awaits, Hearings, Statuses, TypeOK
    <2>4. HandlerOK(q, users) /\ AnswerIsOwn(q, users)
      BY <1>0 DEF HandlerOK, AnswerIsOwn, Registering
    <2>. QED  BY <2>2, <2>3, <2>4
  <1>2. ASSUME NEW s \in Requests \ {r}
        PROVE  /\ req'[s] \in Request /\ Cut(req'[s], req[s])
               /\ req'[s].heard # "none" => req[s].by # c
    <2>0. req[s] \in Request /\ HandlerOK(req[s], users) /\ Cut(req[s], req[s])  BY Facts
    <2>1. CASE req[s].by # c
      <3>1. req'[s] = req[s]  BY <2>1 DEF Reload
      <3>. QED  BY <2>0, <2>1, <3>1
    <2>2. CASE req[s].by = c /\ req[s].at \in {"answered", "lost"}
      <3>1. req'[s] = Idle  BY <2>2 DEF Reload
      <3>. QED  BY <3>1, IdleType DEF Cut, Idle
    <2>3. CASE req[s].by = c /\ req[s].at \notin {"answered", "lost"}
      <3>1. req'[s] = [req[s] EXCEPT !.heard = "none"]  BY <2>3 DEF Reload
      <3>. QED  BY <2>0, <2>3, <3>1 DEF Cut, Request, Hearings
    <2>. QED  BY <2>1, <2>2, <2>3
  <1>3. req' \in [Requests -> Request]  BY <1>1, <1>2 DEF Reload
  <1>4. /\ starting' = [starting EXCEPT ![c] = TRUE]
        /\ loggedIn' = [loggedIn EXCEPT ![c] = FALSE]
        /\ form' = [form EXCEPT ![c] = Blank]
        /\ doubt' = [doubt EXCEPT ![c] = FALSE]
    BY DEF Reload
  <1>5. TypeOK'  BY <1>0, <1>3, <1>4 DEF TypeOK, Blank
  <1>6. HandlersInv' /\ \A s \in Requests : AnswerIsOwn(req'[s], users')
    BY <1>0, <1>1, <1>2, CutHandlers
  <1>7. TokenIsOwn' /\ UniqueUsers'  BY <1>0, <1>6 DEF TokenIsOwn, UniqueUsers
  <1>8. SessionAgrees'
    BY <1>0, <1>4 DEF SessionAgrees, TypeOK
  <1>9. CheckInv'
    <2>1. /\ req'[r].by = c /\ req'[r].call = "protected" /\ req'[r].at = "protected"
          /\ req'[r].row = token[c] /\ starting'[c]
      BY <1>0, <1>1, <1>4 DEF TypeOK
    <2>2. ASSUME NEW s \in Requests \ {r}, req'[s].heard # "none"
          PROVE  /\ req[s].heard # "none" /\ req'[s].by = req[s].by /\ req[s].by # c
                 /\ req'[s].call = req[s].call /\ req'[s].row = req[s].row
                 /\ req'[s].status = req[s].status
                 /\ req'[s].at = req[s].at \/ req'[s].at = "lost"
                 /\ starting'[req[s].by] = starting[req[s].by]
                 /\ doubt'[req[s].by] = doubt[req[s].by]
      <3>1. /\ req[s].heard # "none" /\ req'[s].by = req[s].by /\ req[s].by # c
            /\ req'[s].call = req[s].call /\ req'[s].row = req[s].row
            /\ req'[s].status = req[s].status
            /\ req'[s].at = req[s].at \/ req'[s].at = "lost"
        BY <1>2, <2>2, CutOK
      <3>2. req[s].by \in Clients  BY <3>1, HeardFacts
      <3>. QED  BY <1>0, <1>4, <3>1, <3>2 DEF TypeOK
    <2>3. \A s \in Requests : req'[s].heard # "none" =>
             (req'[s].call = "protected" <=> starting'[req'[s].by])
      BY <1>0, <2>1, <2>2 DEF CheckInv, Heard
    <2>4. \A s, t \in Requests :
             req'[s].heard # "none" /\ req'[t].heard # "none"
             /\ req'[s].by = req'[t].by /\ req'[s].call = "protected" => s = t
      BY <1>0, <2>1, <2>2 DEF CheckInv, Heard
    <2>5. \A s \in Requests :
             req'[s].heard # "none" /\ req'[s].call = "protected" /\ ~ doubt'[req'[s].by] =>
                LET cookie == token'[req'[s].by] # None
                IN  /\ req'[s].at = "protected" => (req'[s].row # None <=> cookie)
                    /\ req'[s].at = "answered" => (req'[s].status = 200 <=> cookie)
      BY <1>0, <2>1, <2>2 DEF CheckInv, Heard
    <2>. QED  BY <2>3, <2>4, <2>5 DEF CheckInv, Heard
  <1>. QED  BY <1>5, <1>6, <1>7, <1>8, <1>9 DEF IInv

-----------------------------------------------------------------------------
(* The theorems *)

LEMMA Initially ==
    ASSUME Init
    PROVE  IInv
  <1>1. TypeOK
    BY IdleType, AccountsAssumption DEF Init, TypeOK, Pages, Blank
  <1>2. UniqueUsers /\ TokenIsOwn /\ SessionAgrees
    BY DEF Init, UniqueUsers, TokenIsOwn, AnswerIsOwn, SessionAgrees, Idle
  <1>3. HandlersInv /\ CheckInv
    BY DEF Init, HandlersInv, HandlerOK, CheckInv, Heard, Registering, Idle
  <1>. QED  BY <1>1, <1>2, <1>3 DEF IInv

LEMMA PersonStep ==
    ASSUME IInv, NEW c \in Clients, Person(c)
    PROVE  IInv'
  BY NavigateStep, SubmitStep, LogOutStep, ReloadStep, ExpireStep DEF Person

\* The invariant behind everything this module says of the handlers and of the
\* view is inductive.
THEOREM Inductive == Spec => []IInv
  <1>1. Init => IInv  BY Initially
  <1>2. IInv /\ [Next]_vars => IInv'
    <2>. SUFFICES ASSUME IInv, [Next]_vars  PROVE IInv'
      OBVIOUS
    <2>1. ASSUME NEW r \in Requests, Handler(r) \/ Fail(r) \/ Receive(r) \/ GiveUp(r)
          PROVE  IInv'
      BY <2>1, HandlersInductive, ReceiveStep, GiveUpStep
    <2>2. ASSUME NEW c \in Clients, Person(c)
          PROVE  IInv'
      BY <2>2, PersonStep
    <2>3. CASE Restart  BY <2>3, RestartStep
    <2>4. CASE UNCHANGED vars
      <3>1. \A s \in Requests : Cut(req'[s], req[s])  BY <2>4, Facts DEF vars
      <3>2. /\ page' \in [Clients -> Pages] /\ form' \in FormType
            /\ failures' \in 0 .. MaxFailures /\ req' \in [Requests -> Request]
            /\ UNCHANGED <<users, loggedIn, starting, token, doubt>>
        BY <2>4, Facts DEF vars, viewVars
      <3>. QED  BY <3>1, <3>2, SameSessions
    <2>. QED  BY <2>1, <2>2, <2>3, <2>4 DEF Next
  <1>. QED  BY <1>1, <1>2, PTL DEF Spec

\* No two users ever share a name or an e-mail (authRoutes.js:15-30): the look-ups
\* need not be atomic with the creation, the unique indexes are enough.
THEOREM Unique == Spec => []UniqueUsers
  <1>1. IInv => UniqueUsers  BY DEF IInv
  <1>. QED  BY <1>1, Inductive, PTL

\* A token names a user that exists and is the person who holds it
\* (authRoutes.js:33-38, 60-64), however registrations, logins and failures overlap.
THEOREM OwnToken == Spec => []TokenIsOwn
  <1>1. IInv => TokenIsOwn  BY DEF IInv
  <1>. QED  BY <1>1, Inductive, PTL

\* Late answers, several logouts and forms that were left never get what the view
\* shows and the cookie apart (Navbar.js:28-34, AuthContext.js:12-22).
THEOREM Agrees == Spec => []SessionAgrees
  <1>1. IInv => SessionAgrees  BY DEF IInv
  <1>. QED  BY <1>1, Inductive, PTL

\* Every variable of Accounts stays in its type.
THEOREM TypeCorrect == Spec => []TypeOK
  <1>1. IInv => TypeOK  BY DEF IInv
  <1>. QED  BY <1>1, Inductive, PTL

-----------------------------------------------------------------------------
(* Accounts implements UserDirectory *)

\* A handler adds at most one user, and only one the indexes allow.
LEMMA HandlerAdds ==
    ASSUME IInv, NEW r \in Requests, Handler(r) \/ Fail(r)
    PROVE  /\ UNCHANGED token
           /\ \/ UNCHANGED users
              \/ \E u \in Row : /\ ~ \E v \in users : Clash(v, u)
                                /\ users' = users \cup {u}
  <1>1. UNCHANGED token  BY HandlerStep DEF viewVars
  <1>2. CASE UNCHANGED users  BY <1>1, <1>2
  <1>3. CASE ~ UNCHANGED users
    <2>1. /\ req[r].at = "create" /\ users' = users \cup {NewRow(req[r])}
          /\ ~ \E v \in users : Clash(v, NewRow(req[r]))
      BY <1>3 DEF Handler, ByName, ByEmail, Hash, Create, Find, Compare, LogoutRoute,
                  Protected, Fail
    <2>2. NewRow(req[r]) \in Row  BY <2>1, NewRowType DEF Registering
    <2>. QED  BY <1>1, <2>1, <2>2
  <1>. QED  BY <1>2, <1>3

\* An answer opens the session of one client, closes it, or leaves it.
LEMMA ReceiveEnters ==
    ASSUME IInv, NEW r \in Requests, Receive(r) \/ GiveUp(r)
    PROVE  /\ UNCHANGED users
           /\ \/ UNCHANGED token
              \/ \E c \in Clients : token' = [token EXCEPT ![c] = None]
              \/ \E c \in Clients, u \in users :
                    u.owner = c /\ token' = [token EXCEPT ![c] = u]
  <1>1. UNCHANGED users /\ req[r].heard # "none" /\ req[r].by \in Clients
    <2>1. UNCHANGED users /\ req[r].heard # "none"
      BY Facts DEF Receive, GiveUp, HandlerOK
    <2>. QED  BY <2>1, HeardFacts
  <1>2. CASE Entered(req[r].by, r) /\ Receive(r) /\ req[r].call \in {"register", "login"}
             /\ req[r].status \in {200, 201}
    <2>1. req[r].row # None /\ req[r].row \in users /\ req[r].row.owner = req[r].by
      BY <1>2, Facts DEF HandlerOK, TokenIsOwn, AnswerIsOwn, Receive
    <2>2. token' = [token EXCEPT ![req[r].by] = req[r].row]  BY <1>2 DEF Entered
    <2>. QED  BY <1>1, <2>1, <2>2
  <1>3. CASE LoggedOut(req[r].by, r)  BY <1>1, <1>3 DEF LoggedOut
  <1>4. CASE UNCHANGED token  BY <1>1, <1>4
  <1>. QED
    BY <1>2, <1>3, <1>4 DEF Receive, GiveUp, Banner, ServerError, Started, viewVars

\* Registrations, logins and logouts take effect one at a time, although the
\* handlers and the view interleave at every await (authRoutes.js, auth.js).
THEOREM Implements == Spec => ImplementsUserDirectory
  <1>1. Init => Directory!DirectoryInit
    BY DEF Init, Directory!DirectoryInit
  <1>2. IInv /\ [Next]_vars => [Directory!DirectoryNext]_<<users, token>>
    <2>. SUFFICES ASSUME IInv, [Next]_vars
                  PROVE  Directory!DirectoryNext \/ UNCHANGED <<users, token>>
      OBVIOUS
    <2>1. ASSUME NEW r \in Requests, Handler(r) \/ Fail(r)
          PROVE  Directory!DirectoryNext \/ UNCHANGED <<users, token>>
      BY <2>1, HandlerAdds
         DEF Directory!DirectoryNext, Directory!Add, Directory!Account, Row, Clash
    <2>2. ASSUME NEW r \in Requests, Receive(r) \/ GiveUp(r)
          PROVE  Directory!DirectoryNext \/ UNCHANGED <<users, token>>
      <3>1. users \subseteq Directory!Account
        BY Facts DEF TypeOK, Row, Directory!Account
      <3>. QED  BY <2>2, <3>1, ReceiveEnters
                DEF Directory!DirectoryNext, Directory!Enter, Directory!Leave
    <2>3. ASSUME NEW c \in Clients, Person(c)
          PROVE  Directory!DirectoryNext \/ UNCHANGED <<users, token>>
      <3>1. UNCHANGED users /\ (UNCHANGED token \/ token' = [token EXCEPT ![c] = None])
        BY <2>3 DEF Person, Navigate, Submit, LogOut, Reload, Expire
      <3>. QED  BY <3>1 DEF Directory!DirectoryNext, Directory!Leave
    <2>4. CASE Restart \/ UNCHANGED vars
      BY <2>4 DEF Restart, vars, viewVars
    <2>. QED  BY <2>1, <2>2, <2>3, <2>4 DEF Next
  <1>. QED
    BY <1>1, <1>2, Inductive, PTL
       DEF Spec, ImplementsUserDirectory, Directory!DirectorySpec

-----------------------------------------------------------------------------
(* Whoever is refused is refused with reason *)

\* Only a handler answers.
LEMMA NobodyElseAnswers ==
    ASSUME IInv, NEW s \in Requests, req'[s].at = "answered", req[s].at # "answered",
           \/ \E r \in Requests : Receive(r) \/ GiveUp(r) \/ Handler(r) \/ Fail(r)
           \/ \E c \in Clients : Person(c)
           \/ Restart \/ UNCHANGED vars
    PROVE  Handler(s) \/ Fail(s)
  <1>0. req \in [Requests -> Request]  BY Facts
  <1>1. ASSUME NEW reqs \in [Requests -> Request], NEW c, NEW p
        PROVE  Left(reqs, c, p)[s].at = reqs[s].at
    BY DEF Left, Request
  <1>2. ASSUME NEW r \in Requests, req[r].heard # "none"
        PROVE  /\ Over(r) \in [Requests -> Request]
               /\ Over(r)[s].at = req[s].at \/ Over(r)[s].at = "idle"
    <2>1. Over(r) \in [Requests -> Request]  BY <1>2, Facts, OverCuts
    <2>2. Over(r)[s].at = req[s].at \/ Over(r)[s].at = "idle"
      BY <1>0 DEF Over, Idle, Request
    <2>. QED  BY <2>1, <2>2
  <1>3. ASSUME NEW r \in Requests, Receive(r) \/ GiveUp(r)
        PROVE  FALSE
    <2>1. req[r].heard # "none"  BY <1>3, Facts DEF Receive, GiveUp, HandlerOK
    <2>2. req' = Over(r) \/ \E c, p : req' = Left(Over(r), c, p)
      <3>1. (\E c, p : GoTo(c, r, p)) \/ req' = Over(r)
        BY <1>3, Zenon
           DEF Receive, GiveUp, Entered, Banner, ServerError, LoggedOut, Started
      <3>. QED  BY <3>1 DEF GoTo
    <2>. QED  BY <1>1, <1>2, <2>1, <2>2
  <1>4. ASSUME NEW c \in Clients, Person(c)
        PROVE  FALSE
    <2>1. CASE \E target \in Pages : Navigate(c, target)
      BY <1>0, <1>1, <2>1 DEF Navigate
    <2>2. CASE \E r \in Requests, f \in Forms : Submit(c, r, f)
      <3>1. PICK r \in Requests, f \in Forms : Submit(c, r, f)  BY <2>2
      <3>. DEFINE a == [Idle EXCEPT !.at = "byName", !.by = c, !.heard = "form",
                                    !.call = "register", !.username = f.username,
                                    !.email = f.email]
                  b == [Idle EXCEPT !.at = "find", !.by = c, !.heard = "form",
                                    !.call = "login", !.username = f.username]
      <3>2. req' = [req EXCEPT ![r] = a] \/ req' = [req EXCEPT ![r] = b]
        BY <3>1 DEF Submit
      <3>3. a.at = "byName" /\ b.at = "find"  BY DEF Idle
      <3>. HIDE DEF a, b
      <3>. QED  BY <1>0, <3>2, <3>3
    <2>3. CASE \E r \in Requests : LogOut(c, r)
      <3>. DEFINE q == [Idle EXCEPT !.at = "logout", !.by = c, !.heard = "left",
                                    !.call = "logout"]
      <3>0. q.at = "logout"  BY DEF Idle
      <3>a. PICK r \in Requests : \E p : req' = [Left(req, c, p) EXCEPT ![r] = q]
        BY <2>3, Zenon DEF LogOut
      <3>1. PICK p : req' = [Left(req, c, p) EXCEPT ![r] = q]
        BY <3>a
      <3>2. Left(req, c, p)[s].at = req[s].at /\ DOMAIN Left(req, c, p) = Requests
        BY <1>0, <1>1 DEF Left
      <3>. HIDE DEF q
      <3>. QED  BY <3>0, <3>1, <3>2
    <2>4. CASE \E r \in Requests : Reload(c, r)
      BY <1>0, <2>4 DEF Reload, Idle, Request
    <2>5. CASE Expire(c)  BY <2>5 DEF Expire
    <2>. QED  BY <1>4, <2>1, <2>2, <2>3, <2>4, <2>5 DEF Person
  <1>5. CASE Restart
    BY <1>0, <1>5, Facts DEF Restart, Idle, Request, HandlerOK
  <1>6. CASE UNCHANGED vars  BY <1>6 DEF vars
  <1>7. ASSUME NEW r \in Requests, Handler(r) \/ Fail(r), r # s
        PROVE  FALSE
    <2>1. PICK x : Handled(r, x)  BY <1>7, HandlerStep
    <2>. QED  BY <1>0, <1>7, <2>1 DEF Handled
  <1>. QED  BY <1>3, <1>4, <1>5, <1>6, <1>7

\* A 401 or a 409 is right at the moment it is given, although the user was looked
\* up before one or more awaits (authRoutes.js:15-19, 52-58).
THEOREM Rightly == Spec => RefusedRightly
  <1>. DEFINE Right(r) ==
          req[r].at \notin {"answered", "protected"} /\ req'[r].at = "answered" =>
             /\ req'[r].status = 401 =>
                   ~ \E u \in users : u.username = req[r].username /\ u.owner = req[r].by
             /\ req'[r].status = 409 =>
                   \E u \in users : \/ u.username = req[r].username
                                    \/ u.email = req[r].email
  <1>1. ASSUME IInv, [Next]_vars, NEW r \in Requests
        PROVE  Right(r)
    <2>0. SUFFICES ASSUME req[r].at \notin {"answered", "protected"},
                          req'[r].at = "answered"
                   PROVE  Right(r)
      OBVIOUS
    <2>1. Handler(r) \/ Fail(r)  BY <1>1, <2>0, NobodyElseAnswers DEF Next
    <2>2. req \in [Requests -> Request] /\ UniqueUsers /\ HandlerOK(req[r], users)
      BY <1>1, Facts DEF IInv
    <2>3. ASSUME NEW status, NEW row, Answer(r, status, row)
          PROVE  req'[r].status = status
      BY <2>0, <2>2, <2>3 DEF Answer, Answered, Idle
    <2>4. CASE ByName(r)  BY <2>0, <2>2, <2>3, <2>4 DEF ByName, Await, Request
    <2>5. CASE ByEmail(r)  BY <2>0, <2>2, <2>3, <2>5 DEF ByEmail, Await, Request
    <2>6. CASE Hash(r)  BY <2>0, <2>2, <2>6 DEF Hash, Await, Request
    <2>7. CASE Create(r)  BY <2>0, <2>3, <2>7 DEF Create
    <2>8. CASE Find(r)
      <3>1. CASE ~ \E u \in users : u.username = req[r].username
        <4>1. Answer(r, 401, None)  BY <2>8, <3>1 DEF Find
        <4>. QED  BY <2>3, <3>1, <4>1
      <3>2. CASE \E u \in users : req' = [req EXCEPT ![r].at = "compare", ![r].row = u]
        BY <2>0, <2>2, <3>2 DEF Request
      <3>. QED  BY <2>8, <3>1, <3>2 DEF Find
    <2>9. CASE Compare(r)
      <3>1. req[r].row \in users /\ req[r].row.username = req[r].username
        BY <2>2, <2>9 DEF Compare, HandlerOK
      <3>2. CASE req[r].row.owner = req[r].by  BY <2>3, <2>9, <3>2 DEF Compare
      <3>3. CASE req[r].row.owner # req[r].by
        <4>1. req'[r].status = 401  BY <2>3, <2>9, <3>3 DEF Compare
        <4>2. \A u \in users : u.username = req[r].username => u = req[r].row
          BY <2>2, <3>1 DEF UniqueUsers, Clash
        <4>. QED  BY <3>3, <4>1, <4>2
      <3>. QED  BY <3>2, <3>3
    <2>10. CASE LogoutRoute(r)  BY <2>3, <2>10 DEF LogoutRoute
    <2>11. CASE Protected(r)  BY <2>0, <2>11 DEF Protected
    <2>12. CASE Fail(r)  BY <2>3, <2>12 DEF Fail
    <2>. QED
      BY <2>1, <2>4, <2>5, <2>6, <2>7, <2>8, <2>9, <2>10, <2>11, <2>12 DEF Handler
  <1>2. IInv /\ [Next]_vars => [\A r \in Requests : Right(r)]_vars  BY <1>1
  <1>. QED  BY <1>2, Inductive, PTL DEF Spec, RefusedRightly
=============================================================================
