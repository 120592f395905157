--------------------------- MODULE TrainingServer ---------------------------
(***************************************************************************)
(* The C++ training server: the global network `nn` and the global         *)
(* connection pointer `g_ws_conn` (Src/test.cpp), the handlers of the      *)
(* routes /ws and /compile (Src/Api/RouteHandlers.cpp), the detached       *)
(* training threads they start (NeuralNetwork::train), and the restart of  *)
(* a crashed process (docker-compose.yml).  Nothing in the program locks   *)
(* anything: every thread interleaves with every other.                    *)
(*                                                                         *)
(* A data race or a use of freed memory is undefined behaviour; here it is *)
(* a choice between the crash of the process and going on.                 *)
(***************************************************************************)
EXTENDS CrowConnection, FiniteSets

CONSTANTS
    Null,        \* the null pointer
    Threads,     \* training threads one life of the process may start
    Compilers,   \* HTTP workers that can be inside the /compile handler
    Leavers,     \* bound: clients that may close or vanish unasked
    Jobs,        \* training requests: data set shape and hyperparameters
    Models,      \* bodies of /compile
    MaxEpochs,   \* bound on the epochs of a request
    MaxFrames    \* bound on frames of one session, for rejected requests

\* epochs = epochNum; batches = number of mini-batches; width = number of
\* features; classes = 1 + the largest label.
JobsAssumption ==
    Jobs \subseteq [ epochs : 0 .. MaxEpochs, batches : Nat \ {0},
                     width : Nat, classes : Nat ]

\* inputSize and hiddenLayerSizes; bad = index of the first layer whose
\* activation name ActivationFactory does not know, 0 if all are known; loss:
\* whether LossFactory builds, rejects or, for "adam" and "mse", returns no
\* value at all for the loss name.
ModelsAssumption ==
    Models \subseteq [ input : Nat, sizes : Seq(Nat), bad : Nat,
                       loss : {"built", "unknown", "noReturn"} ]

Messages == [ kind : {"welcome", "error", "epoch", "final"},
              of : Threads \cup {Null}, n : 0 .. MaxEpochs ]

ASSUME ServerAssumption ==
    /\ MaxEpochs \in Nat
    /\ MaxFrames \in Nat
    /\ Leavers \subseteq Conns
    /\ JobsAssumption
    /\ ModelsAssumption
    /\ Null \notin Conns \cup Threads \cup Compilers \cup Models
    /\ Compilers \cap Threads = {}
    /\ Messages \subseteq Texts

VARIABLES
    proc,        \* "up", or what the process died of
    gConn,       \* g_ws_conn
    clearing,    \* onclose handlers that found g_ws_conn equal to &conn
    layers,      \* nn->layers: their input and output sizes
    lossOk,      \* nn->lossFunction points to a loss object
    compile,     \* compile[h]: the /compile request worker h is executing
    thread       \* thread[t]: the detached training thread t

serverVars == <<proc, gConn, clearing, layers, lossOk, compile, thread>>
vars == <<connVars, serverVars>>

Layer == [in : Nat, out : Nat]

ThreadStates ==
    {"idle", "start", "call", "forward", "backward", "report",
     "check", "loadSend", "send", "loadClose", "close", "done"}

NoJob == [epochs |-> 0, batches |-> 1, width |-> 0, classes |-> 0]

\* ws: the parameter ws_conn of train; reg: g_ws_conn as last loaded.
ThreadRecord ==
    [ pc : ThreadStates, job : Jobs \cup {NoJob}, epoch : Nat, batch : Nat,
      from : Conns \cup {Null}, ws : Conns \cup {Null}, reg : Conns \cup {Null} ]
Idle == [ pc |-> "idle", job |-> NoJob, epoch |-> 0, batch |-> 0,
          from |-> Null, ws |-> Null, reg |-> Null ]

\* next: index of the layer setModelHyperParameters builds next, 0 when the
\* worker is not in /compile; in: its input size.
NoCompile == [next |-> 0, in |-> 0, model |-> Null]

CompileRecord == [next : Nat, in : Nat, model : Models \cup {Null}]

\* What the process may die of.
Causes ==
    {"threw", "nullPointer", "freedMemory", "outOfRange", "badLoss", "race"}

TypeOK ==
    /\ ConnTypeOK
    /\ proc \in {"up"} \cup Causes
    /\ gConn \in Conns \cup {Null}
    /\ clearing \in SUBSET Conns
    /\ layers \in Seq(Layer)
    /\ lossOk \in BOOLEAN
    /\ compile \in [Compilers -> CompileRecord]
    /\ thread \in [Threads -> ThreadRecord]

\* main(): an empty network with the default loss and no connection.
Init ==
    /\ ConnInit
    /\ proc = "up"
    /\ gConn = Null
    /\ clearing = {}
    /\ layers = <<>>
    /\ lossOk = TRUE
    /\ compile = [h \in Compilers |-> NoCompile]
    /\ thread = [t \in Threads |-> Idle]

-----------------------------------------------------------------------------
(* The end of the process and its restart *)

\* Everything the process held is gone, and the next process will begin as
\* Init does; the clients' sessions are over.
Crash(cause) ==
    /\ proc' = cause
    /\ gConn' = Null
    /\ clearing' = {}
    /\ layers' = <<>>
    /\ lossOk' = TRUE
    /\ compile' = [h \in Compilers |-> NoCompile]
    /\ thread' = [t \in Threads |-> Idle]
    /\ conn' = [c \in Conns |-> NoObject]
    /\ posted' = [c \in Conns |-> <<>>]
    /\ got' = [c \in Conns |-> <<>>]

Restart ==
    /\ proc # "up"
    /\ proc' = "up"
    /\ UNCHANGED <<connVars, gConn, clearing, layers, lossOk, compile, thread>>

-----------------------------------------------------------------------------
(* The route /ws *)

\* Faulty: two arguments swapped.
MessageSwapped(kind, t, n) == [kind |-> kind, of |-> n, n |-> t]
Message(kind, t, n) == [kind |-> kind, of |-> t, n |-> n]

\* onopen, first statement: the new connection replaces the registered one.
OnOpen(c) ==
    /\ proc = "up"
    /\ Handshake(c)
    /\ gConn' = c
    /\ UNCHANGED <<proc, clearing, layers, lossOk, compile, thread>>

\* onopen, second statement, and back to Crow.
OnOpenGreet(c) ==
    /\ StartReading(c)
    /\ Post(c, Message("welcome", Null, 0))
    /\ UNCHANGED serverVars

\* onmessage with a well-formed request: a detached thread is started.
OnMessage(c, t, job) ==
    /\ Receiving(c)
    /\ thread[t].pc = "idle"
    /\ thread' = [thread EXCEPT ![t] = [Idle EXCEPT !.pc = "start",
                                                    !.job = job, !.from = c]]
    /\ UNCHANGED <<connVars, proc, gConn, clearing, layers, lossOk, compile>>

\* onmessage whose rows do not form a matrix, or lack a field.
OnMalformedMessage(c) ==
    /\ Receiving(c)
    /\ Len(got[c]) + Len(posted[c]) + Len(conn[c].writeBuffers)
           + Len(conn[c].sendingBuffers) < MaxFrames
    /\ Post(c, Message("error", Null, 0))
    /\ UNCHANGED <<conn, got, serverVars>>

\* onclose, `if (g_ws_conn == &conn)` holds ...
OnCloseMatches(c) ==
    /\ conn[c].io \in {"onclose", "oncloseReply"}
    /\ gConn = c
    /\ c \notin clearing
    /\ clearing' = clearing \cup {c}
    /\ UNCHANGED <<connVars, proc, gConn, layers, lossOk, compile, thread>>

\* Faulty onclose: the pointer is kept.
OnCloseKeeps(c) ==
    /\ c \in clearing
    /\ clearing' = clearing \ {c}
    /\ CloseHandlerReturns(c)
    /\ UNCHANGED <<proc, gConn, layers, lossOk, compile, thread>>

\* ... and then the store, whatever g_ws_conn is by now.
OnCloseClears(c) ==
    /\ c \in clearing
    /\ gConn' = Null
    /\ clearing' = clearing \ {c}
    /\ CloseHandlerReturns(c)
    /\ UNCHANGED <<proc, layers, lossOk, compile, thread>>

\* onclose of a connection that is not the registered one.
OnCloseOther(c) ==
    /\ gConn # c
    /\ c \notin clearing
    /\ CloseHandlerReturns(c)
    /\ UNCHANGED serverVars

\* Crow's own handlers, and what the peer does.
Io(c) ==
    /\ IoStep(c)
    /\ UNCHANGED serverVars

Peer(c) ==
    /\ \/ c \in Leavers /\ (RecvClose(c) \/ PeerGone(c))
       \/ RecvCloseReply(c)
    /\ UNCHANGED serverVars

-----------------------------------------------------------------------------
(* The route /compile: setModelHyperParameters, then getModelParameters *)

Compiling(h) == compile[h].next # 0

\* Thread t is between the forward pass and the end of the backward pass of a
\* mini-batch: it uses the layers and what their forward() stored in them.
InBatch(t) == thread[t].pc = "backward"

\* Somebody other than x uses nn->layers right now.
LayersInUse(x) ==
    \/ \E h \in Compilers \ {x} : Compiling(h)
    \/ \E t \in Threads \ {x} : InBatch(t)

\* Faulty: no layers.clear().
CompileStartKeeps(h, model) ==
    /\ proc = "up"
    /\ ~Compiling(h)
    /\ compile' = [compile EXCEPT ![h] =
                      [next |-> 1, in |-> model.input, model |-> model]]
    /\ UNCHANGED <<connVars, proc, gConn, clearing, layers, lossOk, thread>>

\* The old layers are deleted and the vector cleared.
CompileStart(h, model) ==
    /\ proc = "up"
    /\ ~Compiling(h)
    /\ layers' = <<>>
    /\ compile' = [compile EXCEPT ![h] =
                      [next |-> 1, in |-> model.input, model |-> model]]
    /\ UNCHANGED <<connVars, proc, gConn, clearing, lossOk, thread>>

LayersLeft(h) == compile[h].next <= Len(compile[h].model.sizes)

\* Faulty: no `inputSize = numOfNeurons`.
CompilePushSameInput(h) ==
    /\ Compiling(h)
    /\ LayersLeft(h)
    /\ compile[h].next # compile[h].model.bad
    /\ layers' = Append(layers, [ in |-> compile[h].in,
                                  out |-> compile[h].model.sizes[compile[h].next] ])
    /\ compile' = [compile EXCEPT ![h].next = @ + 1]
    /\ UNCHANGED <<connVars, proc, gConn, clearing, lossOk, thread>>

\* One round of the loop: the next layer takes the outputs of the one before.
CompilePush(h) ==
    LET size == compile[h].model.sizes[compile[h].next]
    IN  /\ Compiling(h)
        /\ LayersLeft(h)
        /\ compile[h].next # compile[h].model.bad
        /\ layers' = Append(layers, [in |-> compile[h].in, out |-> size])
        /\ compile' = [compile EXCEPT ![h].next = @ + 1, ![h].in = size]
        /\ UNCHANGED <<connVars, proc, gConn, clearing, lossOk, thread>>

CompileEnds(h) ==
    /\ compile' = [compile EXCEPT ![h] = NoCompile]
    /\ UNCHANGED <<connVars, proc, gConn, clearing, layers, thread>>

\* An unknown activation: the exception becomes a 500, the layers built so
\* far stay.
CompileBadActivation(h) ==
    /\ Compiling(h)
    /\ LayersLeft(h)
    /\ compile[h].next = compile[h].model.bad
    /\ UNCHANGED lossOk
    /\ CompileEnds(h)

\* The loss function: built (and the parameters answered), rejected with a
\* 500, or left to whatever the missing return statement returns.
CompileLoss(h) ==
    /\ Compiling(h)
    /\ ~LayersLeft(h)
    /\ lossOk' = CASE compile[h].model.loss = "built"    -> TRUE
                    [] compile[h].model.loss = "unknown"  -> lossOk
                    [] compile[h].model.loss = "noReturn" -> FALSE
    /\ CompileEnds(h)

\* Running off the end of getLossClass may also end the process at once.
CompileNoReturn(h) ==
    /\ Compiling(h)
    /\ ~LayersLeft(h)
    /\ compile[h].model.loss = "noReturn"
    /\ Crash("badLoss")

\* A step of /compile while another thread uses the layers.
CompileRace(h) ==
    /\ Compiling(h)
    /\ LayersInUse(h)
    /\ Crash("race")

CompileStep(h) ==
    \/ CompilePush(h)
    \/ CompileBadActivation(h)
    \/ CompileLoss(h)
    \/ CompileNoReturn(h)
    \/ CompileRace(h)

-----------------------------------------------------------------------------
(* The training thread *)

\* Of a thread that ended only its request is kept.
Finished(t) == [Idle EXCEPT !.pc = "done", !.job = thread[t].job]

ThreadStep(t, new) ==
    /\ thread' = [thread EXCEPT ![t] = new]
    /\ UNCHANGED <<conn, got, proc, gConn, clearing, layers, lossOk, compile>>

\* A call of send_text() or close() through pointer p, then on to new.
CallConn(p, task, t, new) ==
    \/ p \in Conns /\ Alive(p) /\ Post(p, task) /\ ThreadStep(t, new)
    \/ p \in Conns /\ ~Alive(p) /\ UNCHANGED posted /\ ThreadStep(t, new)
    \/ p \in Conns /\ ~Alive(p) /\ Crash("freedMemory")
    \/ p = Null /\ Crash("nullPointer")

\* `if (!g_ws_conn || !nn) return;`
ThreadStart(t) ==
    /\ thread[t].pc = "start"
    /\ ThreadStep(t, IF gConn = Null THEN Finished(t)
                                     ELSE [thread[t] EXCEPT !.pc = "call"])
    /\ UNCHANGED posted

\* Faulty: the object is passed instead of its address.
ThreadCallByValue(t) ==
    /\ thread[t].pc = "call"
    /\ ThreadStep(t, [thread[t] EXCEPT
                         !.ws = IF gConn = Null THEN Null ELSE conn[gConn],
                         !.pc = IF thread[t].job.epochs = 0 THEN "check" ELSE "forward"])
    /\ UNCHANGED posted

\* g_ws_conn is read again and passed to train by value; train normalises the
\* data and cuts the mini-batches.
ThreadCall(t) ==
    /\ thread[t].pc = "call"
    /\ ThreadStep(t, [thread[t] EXCEPT
                         !.ws = gConn,
                         !.pc = IF thread[t].job.epochs = 0 THEN "check" ELSE "forward"])
    /\ UNCHANGED posted

\* Every product of the forward pass has matching sizes; an empty network
\* returns its input.
Fits(job) ==
    layers # <<>> =>
        /\ layers[1].in = job.width
        /\ \A i \in 1 .. Len(layers) - 1 : layers[i].out = layers[i + 1].in

Outputs(job) ==
    IF layers = <<>> THEN job.width ELSE layers[Len(layers)].out

\* forwardPropagation, accuracy, loss and its derivative on one mini-batch.
ThreadForward(t) ==
    /\ thread[t].pc = "forward"
    /\ Fits(thread[t].job)
    /\ ThreadStep(t, [thread[t] EXCEPT !.pc = "backward"])
    /\ UNCHANGED posted

\* dotProduct throws std::invalid_argument; nothing catches it in a detached
\* thread, so std::terminate ends the process.
ThreadThrows(t) ==
    /\ thread[t].pc = "forward"
    /\ ~Fits(thread[t].job)
    /\ Crash("threw")

\* What else a mini-batch may run into; and two trainings that both append to
\* nn's means and stdevs in normalize.
ThreadUndefined(t) ==
    \/ /\ thread[t].pc \in {"forward", "backward"}
       /\ \/ LayersInUse(t) /\ Crash("race")
          \/ ~lossOk /\ Crash("badLoss")
          \/ thread[t].job.classes > Outputs(thread[t].job) /\ Crash("outOfRange")
    \/ /\ thread[t].pc = "call"
       /\ \E u \in Threads \ {t} : thread[u].pc = "call"
       /\ Crash("race")

\* Faulty: no batchNum++.
ThreadBackwardStays(t) ==
    /\ thread[t].pc = "backward"
    /\ ThreadStep(t, [thread[t] EXCEPT !.pc =
           IF thread[t].batch < thread[t].job.batches THEN "forward" ELSE "report"])
    /\ UNCHANGED posted

\* backwardPropagation, and the next mini-batch or the end of the epoch.
ThreadBackward(t) ==
    LET batch == thread[t].batch + 1
    IN  /\ thread[t].pc = "backward"
        /\ ThreadStep(t, IF batch < thread[t].job.batches
                         THEN [thread[t] EXCEPT !.pc = "forward", !.batch = batch]
                         ELSE [thread[t] EXCEPT !.pc = "report", !.batch = 0,
                                                !.epoch = @ + 1])
        /\ UNCHANGED posted

\* Faulty: epochs are counted from 0 in the message; one epoch too many is
\* trained.
ThreadReportFromZero(t) ==
    LET r   == thread[t]
        new == [r EXCEPT !.pc = IF r.epoch < r.job.epochs THEN "forward"
                                                          ELSE "check"]
    IN  /\ r.pc = "report"
        /\ \/ r.ws = Null /\ UNCHANGED posted /\ ThreadStep(t, new)
           \/ r.ws # Null /\ CallConn(r.ws, Message("epoch", t, r.epoch - 1), t, new)
ThreadReportOneMore(t) ==
    LET r   == thread[t]
        new == [r EXCEPT !.pc = IF r.epoch <= r.job.epochs THEN "forward"
                                                           ELSE "check"]
    IN  /\ r.pc = "report"
        /\ \/ r.ws = Null /\ UNCHANGED posted /\ ThreadStep(t, new)
           \/ r.ws # Null /\ CallConn(r.ws, Message("epoch", t, r.epoch), t, new)

\* The progress message of an epoch goes to the connection passed to train.
ThreadReport(t) ==
    LET r   == thread[t]
        new == [r EXCEPT !.pc = IF r.epoch < r.job.epochs THEN "forward"
                                                          ELSE "check"]
    IN  /\ r.pc = "report"
        /\ \/ r.ws = Null /\ UNCHANGED posted /\ ThreadStep(t, new)
           \/ r.ws # Null /\ CallConn(r.ws, Message("epoch", t, r.epoch), t, new)

\* Faulty: the test is inverted.
ThreadCheckInverted(t) ==
    /\ thread[t].pc = "check"
    /\ ThreadStep(t, IF gConn # Null THEN Finished(t)
                                     ELSE [thread[t] EXCEPT !.pc = "loadSend"])
    /\ UNCHANGED posted

\* `if (g_ws_conn)` after train returned.
ThreadCheck(t) ==
    /\ thread[t].pc = "check"
    /\ ThreadStep(t, IF gConn = Null THEN Finished(t)
                                     ELSE [thread[t] EXCEPT !.pc = "loadSend"])
    /\ UNCHANGED posted

\* g_ws_conn is loaded for each of the two calls; its object may be deleted
\* before the call.
ThreadLoad(t) ==
    /\ thread[t].pc \in {"loadSend", "loadClose"}
    /\ ThreadStep(t, [thread[t] EXCEPT
           !.reg = gConn,
           !.pc = IF @ = "loadSend" THEN "send" ELSE "close"])
    /\ UNCHANGED posted

\* Faulty: close() before the result is sent.
ThreadSendAfterClose(t) ==
    /\ thread[t].pc = "send"
    /\ CallConn(thread[t].reg, CloseFrame, t, [thread[t] EXCEPT !.pc = "loadClose"])

\* g_ws_conn->send_text("Training finished! ...")
ThreadSend(t) ==
    /\ thread[t].pc = "send"
    /\ CallConn(thread[t].reg, Message("final", t, 0), t,
                [thread[t] EXCEPT !.pc = "loadClose"])

\* g_ws_conn->close()
ThreadClose(t) ==
    /\ thread[t].pc = "close"
    /\ CallConn(thread[t].reg, CloseFrame, t, Finished(t))

Training(t) ==
    \/ ThreadStart(t)
    \/ ThreadCall(t)
    \/ ThreadForward(t)
    \/ ThreadThrows(t)
    \/ ThreadUndefined(t)
    \/ ThreadBackward(t)
    \/ ThreadReport(t)
    \/ ThreadCheck(t)
    \/ ThreadLoad(t)
    \/ ThreadSend(t)
    \/ ThreadClose(t)

-----------------------------------------------------------------------------
OnClose(c) == OnCloseMatches(c) \/ OnCloseClears(c) \/ OnCloseOther(c)

Next ==
    \/ \E c \in Conns :
          \/ OnOpen(c)
          \/ OnOpenGreet(c)
          \/ \E t \in Threads, job \in Jobs : OnMessage(c, t, job)
          \/ OnMalformedMessage(c)
          \/ OnClose(c)
          \/ Io(c)
          \/ Peer(c)
    \/ \E h \in Compilers :
          \/ \E model \in Models : CompileStart(h, model)
          \/ CompileStep(h)
    \/ \E t \in Threads : Training(t)
    \/ Restart

Spec == Init /\ [][Next]_vars

\* Worker threads run ready handlers for ever, the scheduler runs the detached
\* threads, docker restarts a dead process.  Clients owe nothing.
Fairness ==
    /\ \A c \in Conns : /\ WF_vars(OnOpenGreet(c))
                        /\ WF_vars(OnClose(c))
                        /\ WF_vars(Io(c))
    /\ \A h \in Compilers : WF_vars(CompileStep(h))
    /\ \A t \in Threads : WF_vars(Training(t))
    /\ WF_vars(Restart)

FairSpec == Spec /\ Fairness

-----------------------------------------------------------------------------
(* Properties *)

\* g_ws_conn never dangles: every way a connection object is deleted passes
\* through an onclose that takes it out (RouteHandlers.cpp:67-72 and
\* check_destroy, websocket.h:755).  The threads' copies may dangle.
RegisteredIsAlive == gConn # Null => Alive(gConn)

\* What one training tells one client: consecutive epochs, and the final
\* result once, after the last epoch, whoever the threads interleave with and
\* whichever connection is registered meanwhile (NeuralNetwork.cpp:36-69).
From(f, t) == f.kind \in {"epoch", "final"} /\ f.of = t
Follows(f, g, epochs) ==
    /\ f.kind = "epoch"
    /\ g.kind = "epoch" => g.n = f.n + 1
    /\ g.kind = "final" => f.n = epochs
InOrder(s, t, epochs) ==
    \A i, j \in 1 .. Len(s) :
        /\ i < j
        /\ From(s[i], t) /\ From(s[j], t)
        /\ \A k \in i + 1 .. j - 1 : ~From(s[k], t)
        => Follows(s[i], s[j], epochs)
Transcripts ==
    \A c \in Conns, t \in Threads : InOrder(got[c], t, thread[t].job.epochs)

\* Adjacent layers fit, also while /compile is rebuilding them and after it
\* failed half-way (NeuralNetwork.cpp:283-292).
LayersFit ==
    \A i \in 1 .. Len(layers) - 1 : layers[i].out = layers[i + 1].in

\* At every step of /compile the layers are the first ones of the request, each
\* taking the outputs of the one before (NeuralNetwork.cpp:276-292: "Clear
\* existing layers", "Rebuild layers").
FirstLayers(model, n) ==
    [i \in 1 .. n |-> [ in |-> IF i = 1 THEN model.input ELSE model.sizes[i - 1],
                       out |-> model.sizes[i] ]]
LayersAsRequested ==
    \A h \in Compilers :
        Compiling(h) =>
            layers = FirstLayers(compile[h].model, compile[h].next - 1)

\* Every training that is started ends: it finishes, returns because nobody is
\* connected, or the process dies.
TrainingEnds ==
    \A t \in Threads : thread[t].pc # "idle" ~> thread[t].pc \in {"done", "idle"}

\* The connection object of a client that is gone, or has closed, is deleted,
\* through an onclose that may be interrupted by other connections.
Reclaimed ==
    \A c \in Conns :
        Alive(c) /\ (conn[c].sock # "up" \/ conn[c].recvClose) ~> ~Alive(c)

-----------------------------------------------------------------------------
(* The inductive invariant behind TypeOK and RegisteredIsAlive *)

\* Where a training thread is in its epochs; a worker in /compile has a model.
EpochOK(r) ==
    /\ r.epoch <= r.job.epochs
    /\ r.pc \in {"forward", "backward"} => r.epoch < r.job.epochs
    /\ r.pc \in {"start", "call"} => r.epoch = 0
    /\ r.pc = "report" => r.epoch # 0
    /\ r.pc \in {"check", "loadSend", "send", "loadClose", "close"} =>
          r.epoch = r.job.epochs
WorkInv ==
    /\ \A t \in Threads : EpochOK(thread[t])
    /\ \A h \in Compilers : Compiling(h) => compile[h].model \in Models

\* The registered connection has its onclose before it; a handler between the
\* comparison and the store of onclose is still running.
RegisteredInv ==
    /\ gConn # Null =>
          /\ Alive(gConn)
          /\ conn[gConn].io \in {"onopen", "run"} => ~conn[gConn].closeHandlerCalled
    /\ \A c \in clearing : conn[c].io \in {"onclose", "oncloseReply"}

IInv == TypeOK /\ WorkInv /\ RegisteredInv

-----------------------------------------------------------------------------
(* The inductive invariant behind Transcripts *)

\* Nothing more will arrive at the peer of c: it is gone, or the object will be
\* deleted when its close handler returns.
Lost(c) ==
    \/ conn[c].sock = "down"
    \/ conn[c].io = "onclose" /\ conn[c].sendingBuffers = <<>> /\ ~conn[c].isReading

\* A training that has told something is in its epochs or past them.
Begun(s, t, r) ==
    \A i \in 1 .. Len(s) : From(s[i], t) => r.pc \notin {"idle", "start", "call"}

\* The last that a stream of c holds of training t, whose thread is at r: the
\* result, or the last epoch reported, if the thread will report another.
UpToDate(s, c, t, r) ==
    \A i \in 1 .. Len(s) : From(s[i], t) =>
        /\ s[i].kind = "final" => r.pc \in {"loadClose", "close", "done"}
        /\ s[i].kind = "epoch" /\ (\A j \in i + 1 .. Len(s) : ~From(s[j], t)) =>
              \/ r.pc = "done"
              \/ /\ r.ws = c
                 /\ s[i].n = IF r.pc = "report" THEN r.epoch - 1 ELSE r.epoch

\* Free addresses hold nothing; what is shut, or about to be, is not read.
Quiet(r) ==
    /\ r.sock = "shut" => r.io # "onopen" /\ ~r.isReading
    /\ r.io = "oncloseReply" => ~r.isReading
EndsInv ==
    \A c \in Conns :
        /\ ~Alive(c) => conn[c].sock = "down" /\ got[c] = <<>> /\ posted[c] = <<>>
        /\ Quiet(conn[c])

\* What was told, and is on its way if it can still arrive, is in order.
TellingInv ==
    \A c \in Conns, t \in Threads :
        LET r == thread[t]
            s == IF Lost(c) THEN got[c] ELSE Stream(c)
        IN  /\ InOrder(s, t, r.job.epochs)
            /\ Begun(s, t, r)
            /\ ~Lost(c) => UpToDate(s, c, t, r)

ServerInv == IInv /\ EndsInv /\ TellingInv

-----------------------------------------------------------------------------
(* What documents and comments of the repository say, and the code does not *)

\* README.md:17, "submitting training runs, monitoring progress, and
\* retrieving metrics": the final result of a training is posted to the
\* connection that submitted it.
ResultToSubmitter ==
    [][\A t \in Threads :
          thread[t].pc = "send" /\ thread'[t].pc = "loadClose" =>
              thread[t].reg = thread[t].from]_vars

\* GettingStartedPage.js:60, "Training can be stopped anytime": a client that
\* leaves while its training runs does not make the process use the deleted
\* connection.
LeavingIsSafe == proc # "freedMemory"
=============================================================================
