------------------------------ MODULE Accounts ------------------------------
(***************************************************************************)
(* Users and sessions: the Express routes under /auth (authRoutes.js,      *)
(* userModel.js) together with the pages that call them (RegisterPage.js,  *)
(* LoginPage.js, Navbar.js, AuthContext.js, auth.js, the two guards of     *)
(* routes).  A handler of the server is interrupted at every `await`; the  *)
(* view goes on when an answer arrives, or when axios gives up on it after *)
(* 5 s, which does not stop the handler.                                   *)
(*                                                                         *)
(* Every person types a password of their own, so that `owner` stands for  *)
(* a password and for its hash.  A token carries the _id of a user; users  *)
(* never change, so that the row itself stands for the _id.                *)
(***************************************************************************)
EXTENDS Naturals

CONSTANTS
    Clients,        \* browsers, each with one person and one tab
    Requests,       \* HTTP requests in progress at once
    Names, Emails,  \* what the fields of a form may hold
    Forms,          \* the names and e-mails that are tried together
    Leavers,        \* clients that also log out, reload and stay for an hour
    None,           \* no user, no token, no client, no text
    MaxFailures     \* bound on failed operations and restarts

Row == [username : Names, email : Emails, owner : Clients]

ASSUME AccountsAssumption ==
    /\ Forms \subseteq [username : Names, email : Emails]
    /\ Leavers \subseteq Clients
    /\ None \notin Clients \cup Names \cup Emails \cup Row
    /\ MaxFailures \in Nat

VARIABLES
    users,      \* the collection `users`
    req,        \* req[r]: a request, its handler and its caller
    page,       \* page[c]: the page the router shows
    form,       \* form[c]: the form on it: isLoading and the banner above it
    loggedIn,   \* loggedIn[c]: isLoggedIn of AuthContext
    starting,   \* starting[c]: waitAuthorization, only a spinner is shown
    token,      \* token[c]: the user named by the cookie
    doubt,      \* doubt[c]: the cookie expired or was not checked (history)
    failures    \* number of failed operations and restarts

viewVars == <<page, form, loggedIn, starting, token, doubt>>
vars == <<users, req, viewVars, failures>>

Pages == {"register", "login", "models", "public", "server-error"}
Awaits == {"idle", "byName", "byEmail", "hash", "create", "find", "compare",
           "logout", "protected", "answered", "lost"}
Statuses == {0, 200, 201, 401, 409, 500}

\* What becomes of the answer: "form" if the form that sent it is still shown,
\* "left" if it is not (its handler is still awaiting), "none" if nobody waits.
Hearings == {"form", "left", "none"}

Request == [at : Awaits, by : Clients \cup {None}, username : Names \cup {None},
            email : Emails \cup {None}, row : Row \cup {None},
            status : Statuses, heard : Hearings,
            call : {"none", "register", "login", "logout", "protected"}]

Idle == [at |-> "idle", by |-> None, username |-> None, email |-> None,
         row |-> None, status |-> 0, heard |-> "none", call |-> "none"]

Blank == [isLoading |-> FALSE, banner |-> "none"]

TypeOK ==
    /\ users \in SUBSET Row
    /\ req \in [Requests -> Request]
    /\ page \in [Clients -> Pages]
    /\ form \in [Clients -> [isLoading : BOOLEAN, banner : {"none", "exists", "invalid"}]]
    /\ loggedIn \in [Clients -> BOOLEAN]
    /\ starting \in [Clients -> BOOLEAN]
    /\ token \in [Clients -> Row \cup {None}]
    /\ doubt \in [Clients -> BOOLEAN]
    /\ failures \in 0 .. MaxFailures

Init ==
    /\ users = {}
    /\ req = [r \in Requests |-> Idle]
    /\ page = [c \in Clients |-> "public"]
    /\ form = [c \in Clients |-> Blank]
    /\ loggedIn = [c \in Clients |-> FALSE]
    /\ starting = [c \in Clients |-> FALSE]
    /\ token = [c \in Clients |-> None]
    /\ doubt = [c \in Clients |-> FALSE]
    /\ failures = 0

-----------------------------------------------------------------------------
(* The server's handlers *)

Await(r, at) == req' = [req EXCEPT ![r].at = at]

\* The handler answers; if nobody waits for it the answer is lost.
Answered(q, status, row) ==
    IF q.heard = "none" THEN Idle
    ELSE [Idle EXCEPT !.at = "answered", !.by = q.by, !.call = q.call,
                      !.heard = q.heard, !.status = status, !.row = row]

Answer(r, status, row) == req' = [req EXCEPT ![r] = Answered(req[r], status, row)]

\* POST /register: getUserByUsername, ...
ByName(r) ==
    /\ req[r].at = "byName"
    /\ IF \E u \in users : u.username = req[r].username
       THEN Answer(r, 409, None)
       ELSE Await(r, "byEmail")
    /\ UNCHANGED <<users, viewVars, failures>>

\* ... getUserByEmail, ...
ByEmail(r) ==
    /\ req[r].at = "byEmail"
    /\ IF \E u \in users : u.email = req[r].email
       THEN Answer(r, 409, None)
       ELSE Await(r, "hash")
    /\ UNCHANGED <<users, viewVars, failures>>

\* ... bcrypt.hash, ...
Hash(r) ==
    /\ req[r].at = "hash"
    /\ Await(r, "create")
    /\ UNCHANGED <<users, viewVars, failures>>

NewRow(q) == [username |-> q.username, email |-> q.email, owner |-> q.by]
Clash(u, v) == u.username = v.username \/ u.email = v.email

\* Faulty: no `unique: true` in the schema; the two look-ups seem to do.
CreateUnindexed(r) ==
    /\ req[r].at = "create"
    /\ users' = users \cup {NewRow(req[r])}
    /\ Answer(r, 201, NewRow(req[r]))
    /\ UNCHANGED <<viewVars, failures>>

\* Faulty: an upsert in place of create.
CreateUpserts(r) ==
    /\ req[r].at = "create"
    /\ users' = {u \in users : ~ Clash(u, NewRow(req[r]))} \cup {NewRow(req[r])}
    /\ Answer(r, 201, NewRow(req[r]))
    /\ UNCHANGED <<viewVars, failures>>

\* ... and User.create, which a unique index may refuse: the handler catches
\* that and answers 500.
Create(r) ==
    /\ req[r].at = "create"
    /\ IF \E u \in users : Clash(u, NewRow(req[r]))
       THEN Answer(r, 500, None) /\ UNCHANGED users
       ELSE /\ users' = users \cup {NewRow(req[r])}
            /\ Answer(r, 201, NewRow(req[r]))
    /\ UNCHANGED <<viewVars, failures>>

\* POST /login: getUserByUsername, ...
Find(r) ==
    LET found == {u \in users : u.username = req[r].username}
    IN  /\ req[r].at = "find"
        /\ \/ found = {} /\ Answer(r, 401, None)
           \/ \E u \in found : req' = [req EXCEPT ![r].at = "compare", ![r].row = u]
        /\ UNCHANGED <<users, viewVars, failures>>

\* Faulty: bcrypt.compare is not awaited, and a promise is true.
CompareForgotten(r) ==
    /\ req[r].at = "compare"
    /\ Answer(r, 200, req[r].row)
    /\ UNCHANGED <<users, viewVars, failures>>

\* ... and bcrypt.compare.
Compare(r) ==
    /\ req[r].at = "compare"
    /\ IF req[r].row.owner = req[r].by
       THEN Answer(r, 200, req[r].row)
       ELSE Answer(r, 401, None)
    /\ UNCHANGED <<users, viewVars, failures>>

\* GET /logout; the cookie is cleared when the answer arrives.
LogoutRoute(r) ==
    /\ req[r].at = "logout"
    /\ Answer(r, 200, None)
    /\ UNCHANGED <<users, viewVars, failures>>

\* GET /protected looks at the cookie that came with the request.
Protected(r) ==
    /\ req[r].at = "protected"
    /\ Answer(r, IF req[r].row # None THEN 200 ELSE 401, None)
    /\ UNCHANGED <<users, viewVars, failures>>

\* The awaited call is rejected and the handler answers 500.  A creation that
\* is rejected because the database did not answer may have been carried out.
Fail(r) ==
    /\ req[r].at \in {"byName", "byEmail", "hash", "create", "find", "compare"}
    /\ failures < MaxFailures
    /\ failures' = failures + 1
    /\ Answer(r, 500, None)
    /\ \/ UNCHANGED users
       \/ /\ req[r].at = "create"
          /\ ~ \E u \in users : Clash(u, NewRow(req[r]))
          /\ users' = users \cup {NewRow(req[r])}
    /\ UNCHANGED viewVars

\* The server dies and docker starts it again: its handlers are gone.
Restart ==
    /\ failures < MaxFailures
    /\ failures' = failures + 1
    /\ req' = [r \in Requests |->
                 CASE req[r].heard = "none"   -> Idle
                   [] req[r].at = "answered"  -> req[r]
                   [] OTHER                   -> [req[r] EXCEPT !.at = "lost"]]
    /\ UNCHANGED <<users, viewVars>>

-----------------------------------------------------------------------------
(* The view *)

\* PrivateRoute and NonePrivateRoute: where a path leads.
Routed(p, in) ==
    CASE p = "models" /\ ~ in             -> "login"
      [] p \in {"login", "register"} /\ in -> "models"
      [] OTHER                            -> p

\* The page of c becomes p: the form on the page before is unmounted.
Show(c, p) ==
    /\ page' = [page EXCEPT ![c] = p]
    /\ form' = IF p = page[c] THEN form ELSE [form EXCEPT ![c] = Blank]

Left(reqs, c, p) ==
    [r \in Requests |->
        IF p # page[c] /\ reqs[r].by = c /\ reqs[r].heard = "form"
        THEN [reqs[r] EXCEPT !.heard = "left"] ELSE reqs[r]]

\* Links of the pages and of the Navbar, the address bar.
Navigate(c, target) ==
    LET p == Routed(target, loggedIn[c])
    IN  /\ ~ starting[c]
        /\ p # page[c]
        /\ Show(c, p)
        /\ req' = Left(req, c, p)
        /\ UNCHANGED <<users, loggedIn, starting, token, doubt, failures>>

\* handleSubmit of RegisterPage and LoginPage, with fields that are not blank;
\* the button is disabled while isLoading.
Submit(c, r, f) ==
    /\ ~ starting[c]
    /\ ~ form[c].isLoading
    /\ req[r].at = "idle"
    /\ \/ /\ page[c] = "register"
          /\ req' = [req EXCEPT ![r] =
                [Idle EXCEPT !.at = "byName", !.by = c, !.heard = "form",
                             !.call = "register", !.username = f.username,
                             !.email = f.email]]
       \/ /\ page[c] = "login"
          /\ req' = [req EXCEPT ![r] =
                [Idle EXCEPT !.at = "find", !.by = c, !.heard = "form",
                             !.call = "login", !.username = f.username]]
    /\ form' = [form EXCEPT ![c].isLoading = TRUE]
    /\ UNCHANGED <<users, page, loggedIn, starting, token, doubt, failures>>

\* Faulty: setIsLoggedIn(false) does not await logout().
LogOutAtOnce(c, r) ==
    /\ ~ starting[c]
    /\ loggedIn[c]
    /\ req[r].at = "idle"
    /\ Show(c, "login")
    /\ req' = [Left(req, c, "login") EXCEPT ![r] =
                [Idle EXCEPT !.at = "logout", !.by = c, !.heard = "left",
                             !.call = "logout"]]
    /\ loggedIn' = [loggedIn EXCEPT ![c] = FALSE]
    /\ UNCHANGED <<users, starting, token, doubt, failures>>

\* handleLogout: navigate('/login'), where NonePrivateRoute sends a person who
\* is still logged in back to the models, and then the request.
LogOut(c, r) ==
    LET p == Routed("login", loggedIn[c])
    IN  /\ ~ starting[c]
        /\ loggedIn[c]
        /\ req[r].at = "idle"
        /\ Show(c, p)
        /\ req' = [Left(req, c, p) EXCEPT ![r] =
                    [Idle EXCEPT !.at = "logout", !.by = c, !.heard = "left",
                                 !.call = "logout"]]
        /\ UNCHANGED <<users, loggedIn, starting, token, doubt, failures>>

\* The tab is loaded again: every promise of the old page is gone, and
\* AuthContext asks whether the cookie is still good.
Reload(c, r) ==
    /\ ~ starting[c]
    /\ req[r].at = "idle"
    /\ starting' = [starting EXCEPT ![c] = TRUE]
    /\ loggedIn' = [loggedIn EXCEPT ![c] = FALSE]
    /\ form' = [form EXCEPT ![c] = Blank]
    /\ doubt' = [doubt EXCEPT ![c] = FALSE]
    /\ req' = [s \in Requests |->
                CASE s = r -> [Idle EXCEPT !.at = "protected", !.by = c,
                                           !.row = token[c], !.heard = "left",
                                           !.call = "protected"]
                  [] s # r /\ req[s].by = c ->
                        IF req[s].at \in {"answered", "lost"} THEN Idle
                        ELSE [req[s] EXCEPT !.heard = "none"]
                  [] OTHER -> req[s]]
    /\ UNCHANGED <<users, page, token, failures>>

\* An hour has passed: the cookie and the token in it expire.
Expire(c) ==
    /\ token[c] # None
    /\ token' = [token EXCEPT ![c] = None]
    /\ doubt' = [doubt EXCEPT ![c] = TRUE]
    /\ UNCHANGED <<users, req, page, form, loggedIn, starting, failures>>

-----------------------------------------------------------------------------
(* What the view does with the outcome of a call *)

\* The call is over for the view; a handler that still runs goes on.
Over(r) == [req EXCEPT ![r] = IF req[r].at \in {"answered", "lost"} THEN Idle
                              ELSE [req[r] EXCEPT !.heard = "none"]]

GoTo(c, r, p) == Show(c, p) /\ req' = Left(Over(r), c, p)

\* register() and login() returned success.
Entered(c, r) ==
    /\ GoTo(c, r, "models")
    /\ token' = [token EXCEPT ![c] = req[r].row]
    /\ loggedIn' = [loggedIn EXCEPT ![c] = TRUE]
    /\ doubt' = [doubt EXCEPT ![c] = FALSE]
    /\ UNCHANGED starting

\* They returned a reason to show above the form, if it is still there.
Banner(c, r, banner) ==
    /\ req' = Over(r)
    /\ form' = IF req[r].heard = "form"
               THEN [form EXCEPT ![c] = [isLoading |-> FALSE, banner |-> banner]]
               ELSE form
    /\ UNCHANGED <<page, loggedIn, starting, token, doubt>>

\* They returned server_error.
ServerError(c, r) ==
    /\ GoTo(c, r, "server-error")
    /\ UNCHANGED <<loggedIn, starting, token, doubt>>

LoggedOut(c, r) ==
    /\ GoTo(c, r, Routed(page[c], FALSE))
    /\ loggedIn' = [loggedIn EXCEPT ![c] = FALSE]
    /\ token' = [token EXCEPT ![c] = None]
    /\ doubt' = [doubt EXCEPT ![c] = FALSE]
    /\ UNCHANGED starting

\* checkLoggedIn() returned `in`.
Started(c, r, in) ==
    /\ GoTo(c, r, Routed(page[c], in))
    /\ starting' = [starting EXCEPT ![c] = FALSE]
    /\ loggedIn' = [loggedIn EXCEPT ![c] = in]
    /\ UNCHANGED token

\* The answer arrives: register and login of auth.js, and who calls them.
Receive(r) ==
    LET q == req[r]
        c == q.by
    IN  /\ q.at = "answered"
        /\ \/ /\ q.call \in {"register", "login"}
              /\ \/ q.status \in {200, 201} /\ Entered(c, r)
                 \/ q.call = "register" /\ q.status = 400 /\ Banner(c, r, "exists")
                 \/ q.call = "login" /\ q.status = 401 /\ Banner(c, r, "invalid")
                 \/ q.call = "register" /\ q.status \in {409, 500} /\ ServerError(c, r)
                 \/ q.call = "login" /\ q.status = 500 /\ ServerError(c, r)
           \/ q.call = "logout" /\ LoggedOut(c, r)
           \/ /\ q.call = "protected"
              /\ Started(c, r, q.status = 200)
              /\ UNCHANGED doubt
        /\ UNCHANGED <<users, failures>>

\* No answer: the connection broke, or axios gave up.  A failed logout() rejects
\* the promise of handleLogout, and nothing more happens.
GiveUp(r) ==
    LET c == req[r].by
    IN  /\ req[r].heard # "none"
        /\ \/ req[r].call \in {"register", "login"} /\ ServerError(c, r)
           \/ /\ req[r].call = "logout"
              /\ req' = Over(r)
              /\ UNCHANGED viewVars
           \/ /\ req[r].call = "protected"
              /\ Started(c, r, FALSE)
              /\ doubt' = [doubt EXCEPT ![c] = TRUE]
        /\ UNCHANGED <<users, failures>>

Handler(r) ==
    \/ ByName(r) \/ ByEmail(r) \/ Hash(r) \/ Create(r)
    \/ Find(r) \/ Compare(r)
    \/ LogoutRoute(r) \/ Protected(r)

Person(c) ==
    \/ \E target \in Pages \ {"server-error"} : Navigate(c, target)
    \/ \E r \in Requests, f \in Forms : Submit(c, r, f)
    \/ /\ c \in Leavers
       /\ \/ \E r \in Requests : LogOut(c, r) \/ Reload(c, r)
          \/ Expire(c)

Next ==
    \/ \E r \in Requests : Handler(r) \/ Fail(r) \/ Receive(r) \/ GiveUp(r)
    \/ \E c \in Clients : Person(c)
    \/ Restart

Spec == Init /\ [][Next]_vars

-----------------------------------------------------------------------------
(* Properties *)

\* No two users share a name or an e-mail, however registrations overlap: the
\* look-ups of authRoutes.js:15-19 are stale after the awaits that follow, and
\* only the indexes of userModel.js:5-6 are in time.
UniqueUsers == \A u, v \in users : u = v \/ ~ Clash(u, v)

\* A token, in a cookie or on its way to one, names a user that exists with the
\* password of the person who holds it: whoever was told that the registration
\* was successful (authRoutes.js:38) can log in for ever.
AnswerIsOwn(q, us) ==
    q.at = "answered" /\ q.row # None => q.row \in us /\ q.row.owner = q.by
TokenIsOwn ==
    /\ \A c \in Clients : token[c] # None => token[c] \in users /\ token[c].owner = c
    /\ \A r \in Requests : AnswerIsOwn(req[r], users)

\* Nobody is refused without reason, although the user was looked up an await
\* or more ago (authRoutes.js:16, :19, :52, :56).
RefusedRightly ==
    [][\A r \in Requests :
          req[r].at \notin {"answered", "protected"} /\ req'[r].at = "answered" =>
             /\ req'[r].status = 401 =>
                   ~ \E u \in users : u.username = req[r].username /\ u.owner = req[r].by
             /\ req'[r].status = 409 =>
                   \E u \in users : \/ u.username = req[r].username
                                    \/ u.email = req[r].email]_vars

\* What the view shows as logged in or out is what the cookie says, unless the
\* cookie expired since or could not be checked (Navbar.js:28-34,
\* AuthContext.js:12-22): no order of late answers, of two logouts, or of forms
\* that were left while they waited, gets them apart.
SessionAgrees ==
    \A c \in Clients :
        ~ starting[c] /\ ~ doubt[c] => (loggedIn[c] <=> token[c] # None)

\* Registrations, logins and logouts take effect one at a time (UserDirectory).
Directory == INSTANCE UserDirectory WITH accounts <- users, session <- token
ImplementsUserDirectory == Directory!DirectorySpec

-----------------------------------------------------------------------------
(* The inductive invariant behind them *)

Registering == {"byName", "byEmail", "hash", "create"}
Heard(r) == req[r].heard # "none"

\* What a handler has in its hands: its route, a form, the user it found.
HandlerOK(q, us) ==
    /\ q.at # "idle" => q.by # None
    /\ q.at \in Registering =>
          q.call = "register" /\ q.username # None /\ q.email # None
    /\ q.at \in {"find", "compare"} => q.call = "login"
    /\ q.at = "compare" => q.row \in us /\ q.row.username = q.username
    /\ q.at \in {"logout", "protected"} => q.call = q.at
    /\ q.at = "answered" /\ q.call \in {"register", "login"} /\ q.status \in {200, 201}
          => q.row # None
    /\ q.at = "idle" => q.heard = "none"
    /\ q.at \in {"answered", "lost"} => q.heard # "none"
HandlersInv == \A r \in Requests : HandlerOK(req[r], users)

\* The spinner waits for one answer, and it alone is heard meanwhile: the one
\* that says whether the cookie is there.
CheckInv ==
    /\ \A r \in Requests :
          Heard(r) => (req[r].call = "protected" <=> starting[req[r].by])
    /\ \A r, s \in Requests :
          Heard(r) /\ Heard(s) /\ req[r].by = req[s].by /\ req[r].call = "protected"
              => r = s
    /\ \A r \in Requests :
          Heard(r) /\ req[r].call = "protected" /\ ~ doubt[req[r].by] =>
             LET cookie == token[req[r].by] # None
             IN  /\ req[r].at = "protected" => (req[r].row # None <=> cookie)
                 /\ req[r].at = "answered" => (req[r].status = 200 <=> cookie)

IInv == TypeOK /\ UniqueUsers /\ TokenIsOwn /\ SessionAgrees /\ HandlersInv /\ CheckInv
=============================================================================
