----------------------------- MODULE ProcessView -----------------------------
(***************************************************************************)
(* The page on which a network is edited, compiled, trained, tested and    *)
(* saved (ProcessPage.js), the functions it calls the servers with         *)
(* (crowHttp.js, crowSocket.js, processApi.js, modelApi.js) and the flag   *)
(* `saved` of App.js, which outlives the page.                             *)
(*                                                                         *)
(* JavaScript runs one task at a time and React renders between tasks, so  *)
(* that a step is a task: a click, a timer, an answer, an event of a       *)
(* socket.  An asynchronous handler is a step up to its first await and    *)
(* one more per answer.  Setters of a page that was left do nothing.       *)
(***************************************************************************)
EXTENDS Naturals

CONSTANTS
    Calls,          \* asynchronous calls in progress at once
    Sockets,        \* WebSockets ever opened
    Shapes,         \* networks: layers and input size
    NewShape,       \* the network of a page before its model is fetched
    Patient,        \* whether everybody waits (bound: no step sets `rash`)
    Questions,      \* "test" and "predict", or one of them
    None,           \* no page, socket, call, parameters
    Undefined,      \* what a failed compilation returns
    MaxLogs,        \* bound on the log messages of a training
    MaxFailures     \* bound on calls that fail

ASSUME ViewAssumption ==
    /\ NewShape \in Shapes
    /\ Patient \in BOOLEAN
    /\ Questions \subseteq {"test", "predict"}
    /\ MaxLogs \in Nat /\ MaxFailures \in Nat

\* Parameters of a network, from its compilation or from a training.
Params == [shape : Shapes, trained : BOOLEAN] \cup {None, Undefined}

\* The document in the database, and the status beside it.
Document == [shape : Shapes, parameters : Params \ {Undefined}, isCompiled : BOOLEAN]
Status == {"draft", "compiled", "trained"}

VARIABLES
    page,       \* the state of the mounted page, or None
    saved,      \* the flag of App.js
    calls,      \* calls[k]: what awaits an answer
    sockets,    \* sockets[s]: a WebSocket and the closure of its handlers
    stored,     \* the model in the database
    status,     \* its status there
    failures,   \* number of calls that failed
    rash        \* something failed, or a person did not wait (history)

vars == <<page, saved, calls, sockets, stored, status, failures, rash>>

Chart == [of : Sockets \cup {None}, length : 0 .. MaxLogs]
NoChart == [of |-> None, length |-> 0]

Page == [loading : BOOLEAN, isCompiled : BOOLEAN, isTrained : BOOLEAN,
         modelInProcess : BOOLEAN, isTraining : BOOLEAN,
         socket : Sockets \cup {None}, epochLogs : Chart,
         shape : Shapes, parameters : Params,
         features : BOOLEAN, labels : BOOLEAN]  \* uploaded, or null

\* A socket is not a call, and None is neither a value nor a record.
ASSUME NoneAssumption ==
    /\ Calls \cap Sockets = {}
    /\ None \notin Sockets
    /\ {None, Undefined} \cap [shape : Shapes, trained : BOOLEAN] = {}
    /\ None \notin Document \cup Page
    /\ None # Undefined

NewPage == [loading |-> TRUE, isCompiled |-> FALSE, isTrained |-> FALSE,
            modelInProcess |-> FALSE, isTraining |-> FALSE,
            socket |-> None, epochLogs |-> NoChart,
            shape |-> NewShape, parameters |-> None,
            features |-> FALSE, labels |-> FALSE]

\* `live`: made by the page that is mounted now.  What else a call holds are
\* the values its handler closed over.
Call == [kind : {"none"}]
        \cup [kind : {"test", "predict"}, live : {TRUE}]
        \cup [kind : {"fetch"}, live : {TRUE}, doc : Document \cup {None}]
        \cup [kind : {"compile"}, live : BOOLEAN, shape : Shapes]
        \cup [kind : {"save"}, live : BOOLEAN, shape : Shapes, parameters : Params,
              isCompiled : BOOLEAN, isTrained : BOOLEAN]
        \cup [kind : {"status"}, live : BOOLEAN, status : Status]
        \cup [kind : {"features", "labels"}, live : {TRUE}, other : BOOLEAN]
NoCall == [kind |-> "none"]

Socket == [state : {"unused", "connecting", "open", "closed"},
           shape : Shapes, logs : 0 .. MaxLogs, flushing : BOOLEAN]
Unused == [state |-> "unused", shape |-> NewShape, logs |-> 0, flushing |-> FALSE]

TypeOK ==
    /\ page \in Page \cup {None}
    /\ saved \in BOOLEAN
    /\ calls \in [Calls -> Call]
    /\ sockets \in [Sockets -> Socket]
    /\ stored \in Document
    /\ status \in Status
    /\ failures \in 0 .. MaxFailures
    /\ rash \in BOOLEAN

Init ==
    /\ page = None
    /\ saved = TRUE
    /\ calls = [k \in Calls |-> NoCall]
    /\ sockets = [s \in Sockets |-> Unused]
    /\ stored \in [shape : Shapes, parameters : {None}, isCompiled : {FALSE}]
    /\ status = "draft"
    /\ failures = 0
    /\ rash = FALSE

-----------------------------------------------------------------------------
(* Helpers *)

Shown == page # None /\ ~ page.loading      \* the panels are rendered
Live(k) == calls[k].kind # "none" /\ calls[k].live
Pending(kinds) == {k \in Calls : calls[k].kind \in kinds}
Running(s) == sockets[s].state \in {"connecting", "open"}
Busy == \/ \E k \in Calls : Live(k)
        \/ \E s \in Sockets : Running(s)

Start(k, call) == calls[k].kind = "none" /\ calls' = [calls EXCEPT ![k] = call]
Done(k) == calls' = [calls EXCEPT ![k] = NoCall]

\* Faulty: no effect that resets isTrained with isCompiled.
WithCompiledKeepsTrained(p, b) == [p EXCEPT !.isCompiled = b]

\* setIsCompiled and the effect that follows a change to false.
WithCompiled(p, b) ==
    [p EXCEPT !.isCompiled = b, !.isTrained = @ /\ (b \/ ~ p.isCompiled)]

\* A step of a call that may belong to a page that was left.
Update(live, p) == page' = IF live THEN p ELSE page

-----------------------------------------------------------------------------
(* Mounting and leaving *)

\* The person opens the model; the page fetches it.
Mount(k) ==
    /\ page = None
    /\ page' = NewPage
    /\ Start(k, [kind |-> "fetch", live |-> TRUE, doc |-> None])
    /\ UNCHANGED <<saved, sockets, stored, status, failures, rash>>

\* The person leaves by the Navbar, which forgets what is not saved, or by the
\* browser's back button.  Calls, sockets and timers go on, but what they set
\* belonged to the page, except for three kinds of calls.
Outlives(k) == calls[k].kind \in {"compile", "save", "status"}
Leave ==
    /\ page # None
    /\ page' = None
    /\ saved' \in {saved, TRUE}
    /\ calls' = [k \in Calls |->
                   IF Outlives(k) THEN [calls[k] EXCEPT !.live = FALSE] ELSE NoCall]
    /\ sockets' = [s \in Sockets |-> Unused]
    /\ UNCHANGED <<stored, status, failures, rash>>

\* The API reads the model; the answer may take its time.
Read(k) ==
    /\ calls[k].kind = "fetch" /\ calls[k].doc = None
    /\ calls' = [calls EXCEPT ![k].doc = stored]
    /\ UNCHANGED <<page, saved, sockets, stored, status, failures, rash>>

Fetched(k) ==
    /\ calls[k].kind = "fetch" /\ calls[k].doc # None
    /\ page' = [WithCompiled(page, calls[k].doc.isCompiled)
                   EXCEPT !.loading = FALSE, !.shape = calls[k].doc.shape,
                          !.parameters = calls[k].doc.parameters]
    /\ Done(k)
    /\ UNCHANGED <<saved, sockets, stored, status, failures, rash>>

FetchFails(k) ==
    /\ calls[k].kind = "fetch"
    /\ failures < MaxFailures
    /\ page' = [page EXCEPT !.loading = FALSE]
    /\ Done(k)
    /\ failures' = failures + 1
    /\ rash' = TRUE
    /\ UNCHANGED <<saved, sockets, stored, status>>

-----------------------------------------------------------------------------
(* Editing *)

\* Faulty: the form of a layer does not call setIsCompiled(false).
EditLayerKeepsCompiled(shape) ==
    /\ Shown
    /\ page' = [page EXCEPT !.shape = shape]
    /\ saved' = FALSE
    /\ rash' = (rash \/ Busy)
    /\ UNCHANGED <<calls, sockets, stored, status, failures>>

\* Save or Delete in the form of a layer; only Save touches `saved`.
EditLayer(shape) ==
    /\ Shown
    /\ page' = [WithCompiled(page, FALSE) EXCEPT !.shape = shape]
    /\ saved' \in {FALSE, saved}
    /\ rash' = (rash \/ Busy)
    /\ UNCHANGED <<calls, sockets, stored, status, failures>>

\* Add Layer, which is there while the model is being fetched, and leaves the
\* network compiled.
AddLayer(shape) ==
    /\ page # None /\ shape # page.shape
    /\ page' = [page EXCEPT !.shape = shape]
    /\ saved' = FALSE
    /\ rash' = (rash \/ Busy \/ page.isCompiled)
    /\ UNCHANGED <<calls, sockets, stored, status, failures>>

\* The file of features is parsed in the background.
UploadFeatures(k) ==
    /\ Shown
    /\ Start(k, [kind |-> "features", live |-> TRUE, other |-> page.labels])
    /\ page' = WithCompiled(page, FALSE)
    /\ saved' = FALSE
    /\ rash' = (rash \/ Busy)
    /\ UNCHANGED <<sockets, stored, status, failures>>

UploadLabels(k) ==
    /\ Shown
    /\ Start(k, [kind |-> "labels", live |-> TRUE, other |-> page.features])
    /\ rash' = (rash \/ Busy)
    /\ UNCHANGED <<page, saved, sockets, stored, status, failures>>

\* Faulty: the other half of the data set is forgotten.
ParsedAlone(k, shape) ==
    /\ \/ /\ calls[k].kind = "features"
          /\ page' = [page EXCEPT !.features = TRUE, !.labels = FALSE, !.shape = shape]
       \/ /\ calls[k].kind = "labels"
          /\ page' = [page EXCEPT !.labels = TRUE]
    /\ Done(k)
    /\ UNCHANGED <<saved, sockets, stored, status, failures, rash>>

\* Papa.parse completes: the other half of the data set is the one that was
\* there when the file was chosen; features bring an input size.
Parsed(k, shape) ==
    /\ \/ /\ calls[k].kind = "features"
          /\ page' = [page EXCEPT !.features = TRUE, !.labels = calls[k].other,
                                  !.shape = shape]
       \/ /\ calls[k].kind = "labels"
          /\ page' = [page EXCEPT !.labels = TRUE, !.features = calls[k].other]
    /\ Done(k)
    /\ UNCHANGED <<saved, sockets, stored, status, failures, rash>>

-----------------------------------------------------------------------------
(* Compiling, testing, predicting *)

Compile(k) ==
    /\ Shown /\ page.features /\ ~ page.modelInProcess
    /\ Start(k, [kind |-> "compile", live |-> TRUE, shape |-> page.shape])
    /\ page' = [page EXCEPT !.modelInProcess = TRUE]
    /\ rash' = (rash \/ Pending({"features"}) # {})
    /\ UNCHANGED <<saved, sockets, stored, status, failures>>

CompileAnswered(k) ==
    /\ calls[k].kind = "compile"
    /\ Update(calls[k].live,
              [WithCompiled(page, TRUE)
                 EXCEPT !.modelInProcess = FALSE,
                        !.parameters = [shape |-> calls[k].shape, trained |-> FALSE]])
    /\ Done(k)
    /\ saved' = FALSE
    /\ UNCHANGED <<sockets, stored, status, failures, rash>>

\* sendHyperparametersCrow catches the error and returns nothing; handleCompile
\* does not see a difference.
CompileFails(k) ==
    /\ calls[k].kind = "compile"
    /\ failures < MaxFailures
    /\ Update(calls[k].live,
              [WithCompiled(page, TRUE) EXCEPT !.parameters = Undefined])
    /\ Done(k)
    /\ saved' = FALSE
    /\ failures' = failures + 1
    /\ rash' = TRUE
    /\ UNCHANGED <<sockets, stored, status>>

\* Faulty: Test and Predict are enabled while the model is in process.
AskAnytime(k, kind) ==
    /\ Shown /\ page.isCompiled
    /\ Start(k, [kind |-> kind, live |-> TRUE])
    /\ page' = [page EXCEPT !.modelInProcess = TRUE]
    /\ UNCHANGED <<saved, sockets, stored, status, failures, rash>>

\* handleTest and handlePredict, with data to send.
Ask(k, kind) ==
    /\ Shown /\ page.isCompiled /\ ~ page.modelInProcess
    /\ Start(k, [kind |-> kind, live |-> TRUE])
    /\ page' = [page EXCEPT !.modelInProcess = TRUE]
    /\ UNCHANGED <<saved, sockets, stored, status, failures, rash>>

Asked(k) ==
    /\ calls[k].kind \in {"test", "predict"}
    /\ page' = [page EXCEPT !.modelInProcess = FALSE]
    /\ Done(k)
    /\ UNCHANGED <<saved, sockets, stored, status, failures, rash>>

\* A failed prediction runs into `finally`; a failed test leaves the flags as
\* they are.
AskFails(k) ==
    /\ calls[k].kind \in {"test", "predict"}
    /\ failures < MaxFailures
    /\ page' = [page EXCEPT !.modelInProcess = @ /\ calls[k].kind = "test"]
    /\ Done(k)
    /\ failures' = failures + 1
    /\ rash' = TRUE
    /\ UNCHANGED <<saved, sockets, stored, status>>

-----------------------------------------------------------------------------
(* Training *)

\* Faulty: handleTrain without `if (socket)`; Train is disabled while the model
\* is in process, after all.
TrainUnguarded(s) ==
    /\ Shown /\ page.isCompiled /\ ~ page.modelInProcess /\ ~ page.isTraining
    /\ page.features /\ page.labels
    /\ sockets[s].state = "unused"
    /\ sockets' = [sockets EXCEPT ![s] =
                     [@ EXCEPT !.state = "connecting", !.shape = page.shape]]
    /\ page' = [page EXCEPT !.isTraining = TRUE, !.modelInProcess = TRUE,
                            !.epochLogs = NoChart, !.socket = s]
    /\ UNCHANGED <<saved, calls, stored, status, failures, rash>>

\* handleTrain: generateSocket does not wait for the connection.
Train(s) ==
    /\ Shown /\ page.isCompiled /\ ~ page.modelInProcess /\ ~ page.isTraining
    /\ page.features /\ page.labels
    /\ page.socket = None
    /\ sockets[s].state = "unused"
    /\ sockets' = [sockets EXCEPT ![s] =
                     [@ EXCEPT !.state = "connecting", !.shape = page.shape]]
    /\ page' = [page EXCEPT !.isTraining = TRUE, !.modelInProcess = TRUE,
                            !.epochLogs = NoChart, !.socket = s]
    /\ UNCHANGED <<saved, calls, stored, status, failures, rash>>

\* Stop: the flags are reset, the socket is not closed.
StopTraining ==
    /\ Shown /\ page.isTraining
    /\ page' = [page EXCEPT !.isTraining = FALSE, !.modelInProcess = FALSE]
    /\ rash' = TRUE
    /\ UNCHANGED <<saved, calls, sockets, stored, status, failures>>

\* onopen: the data set is sent and the interval of 500 ms starts.
Opened(s) ==
    /\ sockets[s].state = "connecting"
    /\ sockets' = [sockets EXCEPT ![s].state = "open", ![s].flushing = TRUE]
    /\ UNCHANGED <<page, saved, calls, stored, status, failures, rash>>

\* flushLogs of s, when its logStore holds n messages.
Flushed(p, s, n) ==
    [p EXCEPT !.epochLogs = IF n = 0 THEN NoChart ELSE [of |-> s, length |-> n]]

Flush(s) ==
    /\ sockets[s].flushing
    /\ page' = Flushed(page, s, sockets[s].logs)
    /\ UNCHANGED <<saved, calls, sockets, stored, status, failures, rash>>

\* onmessage: "initialLog" and "log" wait for the interval, "finalLog" does not.
Logged(s) ==
    LET n == sockets[s].logs + 1
    IN  /\ sockets[s].state = "open"
        /\ n <= MaxLogs
        /\ sockets' = [sockets EXCEPT ![s].logs = n]
        /\ page' \in {page, Flushed(page, s, n)}
        /\ UNCHANGED <<saved, calls, stored, status, failures, rash>>

\* onmessage: "finalParams".
Trained(s) ==
    /\ sockets[s].state = "open"
    /\ page' = [page EXCEPT !.parameters = [shape |-> sockets[s].shape, trained |-> TRUE]]
    /\ UNCHANGED <<saved, calls, sockets, stored, status, failures, rash>>

\* Faulty: the interval is not cleared.
CloseKeepsFlushing(s) ==
    /\ sockets[s].state \in {"connecting", "open"}
    /\ sockets' = [sockets EXCEPT ![s].state = "closed"]
    /\ page' = [Flushed(page, s, sockets[s].logs)
                   EXCEPT !.socket = None, !.modelInProcess = FALSE,
                          !.isTraining = FALSE, !.isTrained = TRUE]
    /\ UNCHANGED <<saved, calls, stored, status, failures, rash>>

\* onclose, after onerror in the same task if the connection failed; what
\* onerror does, onclose does again.
Closed(s) ==
    /\ sockets[s].state \in {"connecting", "open"}
    /\ sockets' = [sockets EXCEPT ![s].state = "closed", ![s].flushing = FALSE]
    /\ page' = [Flushed(page, s, sockets[s].logs)
                   EXCEPT !.socket = None, !.modelInProcess = FALSE,
                          !.isTraining = FALSE, !.isTrained = TRUE]
    /\ UNCHANGED <<saved, calls, stored, status, failures, rash>>

-----------------------------------------------------------------------------
(* Saving *)

\* handleSaveModel: saveModelInfo ...
Save(k) ==
    /\ page # None /\ ~ saved
    /\ Start(k, [kind |-> "save", live |-> TRUE, shape |-> page.shape,
                 parameters |-> page.parameters, isCompiled |-> page.isCompiled,
                 isTrained |-> page.isTrained])
    /\ rash' = (rash \/ page.loading \/ Pending({"save", "status"}) # {})
    /\ UNCHANGED <<page, saved, sockets, stored, status, failures>>

\* JSON leaves out what is undefined, and $set what is left out.
Written(q) ==
    [shape |-> q.shape, isCompiled |-> q.isCompiled,
     parameters |-> IF q.parameters = Undefined THEN stored.parameters ELSE q.parameters]

StatusOf(q) ==
    IF q.isTrained THEN "trained" ELSE IF q.isCompiled THEN "compiled" ELSE "draft"

\* ... then updateStatue ...
UpdateStatus(k) ==
    calls' = [calls EXCEPT ![k] = [kind |-> "status", live |-> calls[k].live,
                                   status |-> StatusOf(calls[k])]]

InfoSaved(k) ==
    /\ calls[k].kind = "save"
    /\ stored' = Written(calls[k])
    /\ UpdateStatus(k)
    /\ UNCHANGED <<page, saved, sockets, status, failures, rash>>

\* (saveModelInfo swallows an error; the document may have been written)
InfoFails(k) ==
    /\ calls[k].kind = "save"
    /\ failures < MaxFailures
    /\ stored' \in {stored, Written(calls[k])}
    /\ UpdateStatus(k)
    /\ failures' = failures + 1
    /\ rash' = TRUE
    /\ UNCHANGED <<page, saved, sockets, status>>

\* ... then setSaved(true), whatever happened meanwhile.
StatusSaved(k) ==
    /\ calls[k].kind = "status"
    /\ status' = calls[k].status
    /\ saved' = TRUE
    /\ Done(k)
    /\ UNCHANGED <<page, sockets, stored, failures, rash>>

StatusFails(k) ==
    /\ calls[k].kind = "status"
    /\ failures < MaxFailures
    /\ status' \in {status, calls[k].status}
    /\ Done(k)
    /\ failures' = failures + 1
    /\ rash' = TRUE
    /\ UNCHANGED <<page, saved, sockets, stored>>

-----------------------------------------------------------------------------
\* What a person does to the model, and what one does with it.
Edit ==
    \/ \E shape \in Shapes : EditLayer(shape) \/ AddLayer(shape)
    \/ \E k \in Calls : UploadFeatures(k) \/ UploadLabels(k) \/ Save(k)

Use ==
    \/ Leave \/ StopTraining
    \/ \E k \in Calls :
          \/ Mount(k) \/ Compile(k)
          \/ \E kind \in Questions : Ask(k, kind)
    \/ \E s \in Sockets : Train(s)

\* An answer arrives, or axios gives up after 15 s or 5 s.
Answer(k) ==
    \/ Read(k) \/ Fetched(k) \/ FetchFails(k)
    \/ \E shape \in Shapes : Parsed(k, shape)
    \/ CompileAnswered(k) \/ CompileFails(k)
    \/ Asked(k) \/ AskFails(k)
    \/ InfoSaved(k) \/ InfoFails(k) \/ StatusSaved(k) \/ StatusFails(k)

SocketEvent(s) == Opened(s) \/ Flush(s) \/ Logged(s) \/ Trained(s) \/ Closed(s)

Next ==
    \/ Edit /\ (Patient => ~ rash')
    \/ Use
    \/ \E k \in Calls : Answer(k)
    \/ \E s \in Sockets : SocketEvent(s)

Spec == Init /\ [][Next]_vars

-----------------------------------------------------------------------------
(* Properties *)

\* At most one socket of the page is at work, and it is the one in its state:
\* also when Stop has enabled Train and Compile while the training goes on, and
\* when Train is pressed again (ProcessPage.js:1215, :1230).
SocketTracked ==
    page # None => /\ \A s \in Sockets : Running(s) <=> page.socket = s
                   /\ page.isTraining => page.socket # None

\* The chart shows a prefix of the log of one training, the latest: no interval
\* of an earlier one draws over it, and none of it is missing once the socket
\* has closed (crowSocket.js:23-27, :76-81).
ChartIsLatest ==
    page # None /\ page.epochLogs # NoChart =>
        LET s == page.epochLogs.of
        IN  /\ sockets[s].state \in {"open", "closed"}
            /\ page.socket \in {None, s}
            /\ page.epochLogs.length <= sockets[s].logs
            /\ page.socket = None => page.epochLogs.length = sockets[s].logs

\* The page asks the server for one thing at a time: as long as nobody pressed Stop
\* and nothing failed, modelInProcess is set exactly while one compilation,
\* test, prediction or training is going on (ProcessPage.js:1585, :1595, :1815,
\* :1967).
Operations ==
    {k \in Calls : Live(k) /\ calls[k].kind \in {"compile", "test", "predict"}}
    \cup {s \in Sockets : Running(s)}
OneOperation ==
    page # None /\ ~ rash =>
        /\ \A x, y \in Operations : x = y
        /\ page.modelInProcess <=> Operations # {}

\* For a person who waits for what was started before editing on, and as long
\* as nothing fails: a compiled network has parameters that fit it, on the page
\* and in the database, and the status agrees (ProcessPage.js:1185-1202,
\* :674-689, :1063, :1075, crowSocket.js:63).
Fits(m) == m.isCompiled => /\ m.parameters \notin {None, Undefined}
                           /\ m.parameters.shape = m.shape
FitWhenPatient ==
    ~ rash => /\ page # None => Fits(page) /\ (page.isTrained => page.isCompiled)
              /\ Fits(stored)
              /\ Pending({"save", "status"}) = {} =>
                    (status = "draft" <=> ~ stored.isCompiled)

\* ... and a half of the data set that was uploaded stays (ProcessPage.js:1111,
\* :1132).
UploadsKept ==
    [][page # None /\ page' # None /\ ~ rash' =>
          /\ page.features => page'.features
          /\ page.labels => page'.labels]_vars

-----------------------------------------------------------------------------
(* The inductive invariant behind them *)

\* Nothing is left of a page that was left, except for the calls that outlive it.
MountedInv ==
    /\ page = None => /\ \A k \in Calls : ~ Live(k)
                      /\ \A s \in Sockets : sockets[s] = Unused
    /\ \A s \in Sockets : sockets[s].flushing <=> sockets[s].state = "open"

\* Before the model is there nothing is under way but the call that fetches it.
LoadingInv ==
    /\ page.loading => /\ \A k \in Calls : Live(k) => calls[k].kind = "fetch"
                       /\ \A s \in Sockets : ~ Running(s)
    /\ \A k \in Pending({"fetch"}) : page.loading
    /\ \A j, k \in Pending({"fetch"}) : j = k

\* What a call or a training of this page will do to the page fits it.
PageFits ==
    /\ Fits(page) /\ page.parameters # Undefined
    /\ page.isTrained => page.isCompiled
    /\ \A k \in Pending({"compile"}) : Live(k) => calls[k].shape = page.shape
    /\ \A s \in Sockets :
          Running(s) => page.isCompiled /\ sockets[s].shape = page.shape

\* A half of the data set that is being parsed knows the other half.
UploadsInv ==
    /\ \A k \in Pending({"features"}) :
          /\ ~ page.isCompiled
          /\ calls[k].other = page.labels
          /\ \A j \in Pending({"compile"}) : ~ Live(j)
    /\ \A k \in Pending({"labels"}) : calls[k].other = page.features
    /\ \A j, k \in Pending({"features", "labels"}) : j = k

\* What was read from the database and what will be written to it fits.
StoreFits ==
    /\ Fits(stored)
    /\ \A k \in Pending({"fetch"}) : calls[k].doc # None => Fits(calls[k].doc)
    /\ \A k \in Pending({"save"}) :
          /\ Fits(calls[k]) /\ calls[k].parameters # Undefined
          /\ calls[k].isTrained => calls[k].isCompiled

\* One save at a time; the status follows the document.
SavesInv ==
    /\ \A j, k \in Pending({"save", "status"}) : j = k
    /\ \A k \in Pending({"status"}) :
          calls[k].status = "draft" <=> ~ stored.isCompiled
    /\ Pending({"save", "status"}) = {} => (status = "draft" <=> ~ stored.isCompiled)

IInv ==
    /\ TypeOK
    /\ MountedInv /\ SocketTracked /\ ChartIsLatest /\ OneOperation
    /\ page # None /\ ~ rash => LoadingInv /\ PageFits /\ UploadsInv
    /\ ~ rash => StoreFits /\ SavesInv

-----------------------------------------------------------------------------
(* What a comment of the repository says, and the code does not *)

\* Navbar.js:14, "Intercept navigation and check for unsaved changes": the result
\* of a training is in the database, or leaving is not silent.
ResultIsSafe ==
    Shown /\ saved /\ page.parameters \notin {None, Undefined} =>
        (page.parameters.trained => stored.parameters = page.parameters)
=============================================================================
