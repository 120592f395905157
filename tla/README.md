# Neural-builder in TLA+

TLA+ models, TLC runs and TLAPS proofs of `PloKoon68/neural-builder`: a C++
training engine behind a Crow HTTP/WebSocket server, a Node/Express API over
MongoDB, and a React view. Paths below are relative to the repository.

Every definition of a component module is translated from the code; the file
`PROJECT.json` maps each to its lines. The properties are aimed at what tests of
this code would hardly reach: interleavings of its threads, the life cycle of
connection objects, crashes and restarts, and boundaries.

## 1. Inventory

| component | state | operations | interacts with |
|---|---|---|---|
| **Training server** `c++-framework/Src/Api/RouteHandlers.cpp`, `Src/test.cpp` | the globals `nn` and `g_ws_conn`; one detached `std::thread` per training | `/ws`: `onopen`, `onmessage`, `onclose`; `/compile`; `/health` | Crow calls the handlers; the threads call `nn->train` and, through `g_ws_conn` or the copy passed to `train`, Crow's `send_text` and `close` |
| **Crow WebSocket connection** `c++-framework/lib/crow/websocket.h` (vendored, but its life cycle is what the globals depend on) | buffers, flags of the close handshake, tasks posted to its `io_context`, the `anchor_` that guards them | handshake, `send_text`, `close`, read, write, `check_destroy`, `delete this` | the application's handlers; the peer |
| **Neural network engine** `Src/NeuralNetwork.cpp`, `Src/ModelEvaluator.cpp` | `layers`, `lossFunction`, `means`, `stdevs` | `train`, `setModelHyperParameters`, `getModelParameters`, `miniBatchGenerator`, `normalize` | called by training threads and by HTTP workers |
| **Layers, activations, losses, math** `Src/Layer Types`, `Src/Essential Functions` | what a layer's `forward` keeps for its `backward` | forward, backward, factories, products | called by the engine |
| **Crow HTTP server** `lib/crow/http_server.h`, `routing.h` | worker threads | run handlers; turn an exception of an HTTP handler into a 500 | calls the routes |
| **Express API: models** `server/src/routes/modelsRoutes.js`, `processRoutes.js`, `models/` | collections `models`, `modelinfos` | create, rename, delete, update the status, load, save | the view; MongoDB |
| **Express API: users** `authRoutes.js`, `userModel.js` | collection `users`, cookies | register, log in, log out, `/protected` | the view; MongoDB |
| **React view: processing page** `Processing Page/ProcessPage.js`, `crowSocket.js`, `crowHttp.js`, `processApi.js` | the network being edited, data sets, `socket`, the flags of training and compilation; `saved` of `App.js` | edit, upload, compile, test, predict, train, stop, save, leave | all servers |
| **React view: login, registration, navigation** `RegisterPage.js`, `LoginPage.js`, `Navbar.js`, `AuthContext.js`, `auth.js`, `Routes/` | `isLoggedIn`, `waitAuthorization`, the two forms | submit, log out, navigate, check at start-up | the Express API, by axios with a timeout of 5 s |
| **React view: list of models** `MyModels.js` | the cards, the one being edited | add, edit, delete, search | the Express API |
| **Deployment** `docker-compose.yml` | | `restart: always` | the training server |
| **Console utilities** `DatasetLoader`, `HyperParameterSearch`, `MatrixOperations` | | not reached by the server | |

### What is hard in it

* **No lock anywhere.** `test.cpp` runs Crow `.multithreaded()`. Handlers of
  different connections, HTTP workers inside `/compile` and any number of
  detached training threads share `g_ws_conn` and `nn`.
* **One global for "the" connection.** A second `onopen` replaces the first
  connection; `onclose` compares and then stores; the training thread loads the
  pointer up to five times, and `train` keeps the copy it was given.
* **Object lifetimes.** Crow deletes a connection with `delete this` once
  neither a read nor a write is pending. Nothing ties that to the copies of its address; a
  later connection may be built at the same address.
* **Two-sided close handshake** with posted tasks, a write in flight, read and
  write errors, and a close handler that may run from three places.
* **Exceptions in a detached thread** end the process. Docker restarts it with an
  empty network; no client is told.
* **Rebuilding `nn->layers`** one layer at a time, with failures in the middle
  and possibly other users meanwhile.
* **Awaits** between the check and the act in the Express routes. axios gives up
  after 5 s (15 s for the training server) without stopping the handler, so that a
  call that failed for the view may still succeed.
* **Closures** over old state in the view: an answer is applied to a page that was
  edited, that began something else, or that was left.

`PROJECT.json` lists each hazard at its line, with the properties that cover it.
The properties that make each component correct:

* connection: ordered delivery without gap or repetition; the close handler
  runs before the object is deleted; no leak;
* server: the registered pointer never dangles; a training's messages reach a client
  in order; trainings end; layers always fit; under the clients' discipline
  the whole session goes as promised and nothing crashes;
* mini-batches: a partition of the samples, within bounds; a size that is not positive
  is refused;
* Express: a model and its info are one document to their users; registrations are
  atomic, and nobody is refused without reason;
* view: what it shows as logged in is what the cookie says; one training and one chart
  at a time; parameters fit the network, on the page and in the database; an upload is
  not lost.

## 2. Plan

Order: what the rest depends on first.

| | module | what | status |
|---|---|---|---|
| 1 | `CrowConnection` | one connection object, as actions its users compose | done |
| 2 | `OrderedChannel`, `WebSocketSessions` | abstract channel; connections under an arbitrary application implement it | done |
| 3 | `TrainingServer` | routes, globals, threads, `/compile`, crash and restart, over `CrowConnection` | done |
| 4 | `TrainingSession` | the server with the clients it is written for | done |
| 5 | `MiniBatches` | `miniBatchGenerator` | done |
| 6 | `AtomicStore`, `ModelStore` | Express and Mongo: models and their info, each await a step, failing calls, restarts | done |
| 7 | `UserDirectory`, `Accounts` | users and sessions: the routes under `/auth` composed with the pages that call them; they implement an atomic directory | done |
| 8 | `ProcessView` | the state machine of the processing page: calls, uploads, sockets, Stop, save, leaving | done |
| 9 | `CrowConnectionProofs`, `WebSocketSessionsProofs`, `TrainingServerProofs`, `MiniBatchesProofs`, `ModelStoreProofs`, `AccountsProofs`, `ProcessViewProofs`, `TrainingSessionProofs` | theorems | done for the properties in section 5 |
| 10 | `MyModels` | the cards of `MyModels.js` and the indexes and lists its handlers close over | next |
| 11 | `ProcessView` composed with `TrainingServer` | in place of `TrainingSession`'s client; needs a server and a view of the same protocol (section 6) | when they agree |
| 12 | `HyperParameterSearch`, the statistics of `normalize` | pure algorithms against a reference definition | later |

Abstract specifications: `OrderedChannel` for a connection, `AtomicStore` for the
models of the Express API, `UserDirectory` for its users (all done).

Theorems: every invariant that a run checks is proved for all values of the constants (section 5);
liveness stays with TLC.

## 3. The modules and the code

### CrowConnection

A member of `Conns` is the *address* of a connection object. `conn[c]` holds the
members of `crow::websocket::Connection` that decide anything: `is_reading`,
`has_sent_close_`, `has_recv_close_`, `is_close_handler_called_`,
`close_connection_`, `write_buffers_`, `sending_buffers_` (and `flushed`:
whether they reached the peer), the socket, and `io`: where the connection's
one thread stands. `posted[c]` are the tasks that `send_text` and `close` post; a task
whose `anchor_` has expired does nothing (`RunPosted`). `got[c]` is what the
peer received, for properties only.

One action is one handler, up to a call into the application. `io` is
`"onopen"`, `"onclose"` or `"oncloseReply"` while the application's handler runs,
so that handlers of other connections and other threads interleave with it; a
handler returns with `StartReading` or `CloseHandlerReturns`. `onclose` is
called from `handle_fragment` (the peer closed first, or answered a close) and from
`check_destroy` (read error, write error, end of the close handshake), and the
code after it differs; hence the two names.

Definitions named in a comment as *faulty* (here and in the other modules) are
plausible errors: `PROJECT.json` puts each in the place of a mapped definition and names the
property that must then fail. The specifications do not use them.

### WebSocketSessions and OrderedChannel

`WebSocketSessions` puts connections under an arbitrary application: any thread
calls `send_text` and `close` whenever the object is alive. `OrderedChannel` is
what that application may count on. `ImplementsChannel` states that the detailed
specification implements it, with `received` the texts among the frames the peer got
(`TextsOf`, a recursive function on the frames). `sent`, `calls` and `handled` are history:
they end with the object, and no action's guard reads them, except that `MaxCalls` bounds `calls`.

### TrainingServer

* `gConn` is `g_ws_conn`; `layers` and `lossOk` are what the control of the
  engine depends on in `nn`: input and output sizes of the layers, and whether
  `lossFunction` points to an object.
* `OnOpen`/`OnOpenGreet`, `OnMessage`/`OnMalformedMessage`,
  `OnCloseMatches`/`OnCloseClears`/`OnCloseOther` are the handlers of `/ws`, cut
  where another thread can see the difference. A binary frame, or one that is
  not JSON, returns at once and changes nothing; it has no action.
* `CompileStart`, `CompilePush`, `CompileBadActivation`, `CompileLoss`,
  `CompileNoReturn` are `/compile`, one layer at a time. `CompileNoReturn` is
  `LossFactory.cpp` running off its end for `"adam"` and `"mse"`: the process
  dies, or `lossFunction` is garbage.
* `thread[t]` is a detached thread: the lambda of `onmessage` and, inside it,
  `train`. Its `ws` is `train`'s parameter, its `reg` the value of `g_ws_conn` it
  loaded for the next call.
* A mini-batch is two steps, `ThreadForward` and `ThreadBackward`; of the
  numbers only the sizes are kept, as they decide whether `dotProduct` throws
  (`ThreadThrows`) and whether a label indexes past the outputs
  (`ThreadUndefined`).
* **Undefined behaviour** is a choice between the end of the process and going
  on: use of a freed connection (`CallConn`), two threads in the layers or in
  `normalize`, a garbage loss, an index out of range.
* `Crash(cause)` empties the process at once; `Restart` is docker's.

### TrainingSession

Composes the server with a client that does what `crowSocket.js` and
`ProcessPage.js` do when all goes well, and makes explicit the discipline the
server needs. A client
connects when the previous session has ended on the server too (`onclose`'s
comparison and store are separate: a connection opened between them would lose
its registration), sends one request that suits the compiled network, answers the
server's close, and `/compile` is not called during a training, twice at once,
or with a loss name the factory does not return for. Under it, everything is
delivered. Which parts of the discipline nothing enforces is what section 6 shows.

### MiniBatches

The loop of `miniBatchGenerator` over column indexes, one action per round, for any
number of samples and any batch size: nobody checks what was typed into the form. With
a negative size the first slice ends before it starts and `std::vector` throws; with 0
the loop pushes empty mini-batches until memory is exhausted (`MaxBatches`, a bound that is
larger than any number of samples, so that only such a loop meets it).

### ModelStore and AtomicStore

`models` and `infos` are the two MongoDB collections; a request `r` stands at the
call it awaits (`req[r].at`). A handler is one action per await: `CreateModel`,
`CreateInfo`; the hook `FindToDelete`, `DeleteInfo`, then `DeleteModel`; `Update`,
`UpdateStatus`, `SaveInfo`. One operation of MongoDB on one document is atomic.
`Fail` is a rejected call, answered with 500; `Restart` kills all requests and
keeps the database. `used` are the ids given out: a request may name any of them,
as a page keeps an id for as long as it is open. `failures` is a bound and `damaged` history.
Contents that a step writes are chosen when it writes.

`AtomicStore` is what a user of the API sees: a model *with* its info is one document;
it appears and disappears as a whole, and what is gone does not come back. `Store` is
the refinement mapping: a document where both halves exist; `None` while the id is not
used or its creation is pending; `Gone` otherwise. It holds although neither creation
nor deletion is atomic, and although a half may stay behind (section 6).

### Accounts and UserDirectory

`req[r]` is an HTTP request: the await at which its handler stands (`at`), what the handler
holds, and who still hears the answer. `"form"`: the form that sent it is shown;
`"left"`: it is not, but its `handleSubmit` still awaits and will navigate and set
`isLoggedIn`; `"none"`: axios gave up or the tab was reloaded, and the handler runs on.
`Receive` and `GiveUp` are the continuation of the caller, `Navigate`, `Submit`, `LogOut`,
`Reload` what a person does, `Expire` the hour after which cookie and token are void.
`Routed` is `PrivateRoute` and `NonePrivateRoute`. A login that
fails, and a name that is taken, are told apart from a server error as `auth.js` does. `doubt[c]` is
history: the cookie expired since, or the check at start-up got no answer.

The two unique indexes are those of the schema, which mongoose builds at start-up; that they
are there before the first request is assumed. A call that the database did not
answer may have been carried out (`Fail`). Passwords: each person has one, so that its owner
stands for it and for its hash.

`UserDirectory` is what people may count on: a registration is one test-and-insert, an account
stays, a session is in an account of one's own. `users` and `token` are its variables; a
registration takes effect at `Create`, a session at `Receive`.

### ProcessView

JavaScript runs one task at a time, so a step is a task: a click, a timer, an answer, an event
of a socket. An asynchronous handler is a step up to its first await (`Compile`, `Ask`,
`Save`, `UploadFeatures`) and one per continuation (`CompileAnswered`, `InfoSaved`, ...). `calls[k]`
is a pending promise with the values its handler closed over, e.g. the shape of the network that was
sent to be compiled; `live` says whether the page it belongs to is still mounted. `sockets[s]` is
a WebSocket with the closure of its handlers: `logStore` (`logs`) and `flushInterval`
(`flushing`). A network is a member of `Shapes` (layers and input size); parameters are the shape
they were made for and whether a training made them.

The servers are what the view sees of them: an answer or a failure after any time, and any
messages on the socket. The view is modelled against the protocol it is written for
(section 6); the inside of the Express API is `ModelStore`'s, so that here a save of the document is atomic.

`rash` is history: a call failed, or a person went on editing during an operation, pressed Stop, saved
twice at once, or pressed Add Layer on a compiled network. Properties with the premise `~ rash` say what a patient person may count
on; what happens otherwise is in section 6.

## 4. Runs

| run | asks | instance |
|---|---|---|
| `websocket_sessions` | Is a Crow connection an ordered channel, is `onclose` always called before `delete`, is every object reclaimed? | 1 address, re-used without bound; up to `MaxCalls` calls per session |
| `server_two_clients` | Can `g_ws_conn` dangle? Does the invariant of the proofs hold? | 2 addresses, one of whose clients may close or vanish at any time, 1 training |
| `server_two_trainings` | Are the messages of two simultaneous trainings in order for the client? Do the layers fit, and are they what was asked for, with every way `/compile` can fail? | 1 address, 2 threads (symmetric), 2 epochs, 1 worker in `/compile`, four networks |
| `server_liveness` | Does each training end, and is each connection reclaimed, with `/compile` and malformed requests meanwhile? | 1 address whose client may leave, 1 thread, 1 worker in `/compile`, two networks |
| `training_session` | Does a disciplined client get everything, and does the session end? | 2 addresses, 2 trainings, five networks, three requests |
| `model_store` | What can users see while three requests overlap, and one fails or the server restarts? | 2 models, 3 requests, 2 titles, 2 infos, one failure; symmetric in requests and models |
| `mini_batches` | Is the data set partitioned, and what becomes of a size that is not positive? | 0 to 12 samples, batches of -2 to 14 |
| `process_view` | Is there one training, one chart, one operation at a time, whatever a person does? Do parameters fit and uploads stay for one who waits? | 2 pending calls, 2 sockets, 2 networks, one log message per training, one failure |
| `accounts` | Are users unique, sessions one's own, refusals justified, and does the view agree with the cookie? | 2 persons, 2 requests at once, 2 forms that clash in the e-mail, 1 failure or restart; one person also logs out, reloads and stays for an hour |

The runs expected to find a violation are in section 6.

**Bounds.** `MaxCalls`, `MaxFrames` (texts of one session that rejected requests
may cause) and `MaxEpochs` bound queues and counters. With two or three texts a session has
one frame in each of: the posted tasks, `write_buffers_`, `sending_buffers_`;
the code treats a longer queue like one of two. `Leavers` are the clients that
may close or vanish unasked; one is enough to delete an object under the other's
feet. A life of the process starts at most `Cardinality(Threads)` trainings;
`Restart` renews them. Two epochs are the fewest with an order, and with a repetition of
the loop; two layers the fewest that can fail to fit each other. One address suffices in
`server_two_trainings` because sessions follow each other at it: the threads'
stale pointers then reach the *next* client, the hard case. That run leaves
`Leavers` empty (with it, far more states): sessions there end by the first training's
`close`, while the second training goes on.

In `model_store` two requests suffice for each overlap of a creation, a deletion and
a save of one model, the third adds a second deletion or a save; with one failure, all
later requests meet what it left. `MaxFailures` bounds it, and no more creations are
in progress than ids are left.

In `process_view` two calls are the fewest that overlap, two sockets the fewest of which one is
stale; a page that is left and opened again starts with fresh ones. `Patient = TRUE` means that no *edit* makes the history `rash`: an edit that
does is explored only up to the properties that do not depend on it, which is checked once with
`Patient = FALSE`, one call and two sockets (4.7 million states; the theorems of section 5 need no
bound). In `accounts` two requests suffice for two
registrations, a login during a registration, a logout during a late login; the second person
never logs out, which halves the states and only removes what the first does too.

**Deadlock** is checked except in `mini_batches`, which ends.

**Fairness** is weak and only of the server: each `io_context` is run by a
worker thread in an endless loop (`http_server.h:91-144`), the operating system
schedules the detached threads, and docker restarts the container
(`docker-compose.yml:34`). A worker's fairness is of its connection's handlers together
(`Io`, `OnClose`), not of each branch. Clients, HTTP requests and the kernel's delivery to a peer that stays
owe nothing; the exception is `TrainingSession`, whose client answers a close frame, as
browsers do.

**What the liveness results say.** `TrainingEnds` holds although threads crash,
because a crash ends them. `Reclaimed` has a premise (the peer is gone or has
closed): a peer that stays silent after the server's close keeps the object alive for ever,
as Crow has no timeout there.

## 5. Proofs

For every value of the constants that satisfies the modules' assumptions, with no other
assumption unless stated.

* **`TypeCorrect`**: `Spec => []TypeOK` for `TrainingServer`. Types alone are not
  inductive: a message carries its epoch, in `0 .. MaxEpochs`, so the proof needs
  how far a thread may be (`EpochOK`: at most the requested epochs, fewer while a
  mini-batch is in work) and that a compiling worker has a model. `WorkInv` states both.
* **`RegisteredNeverDangles`**: `Spec => []RegisteredIsAlive`. That `gConn` is alive is not inductive: whether
  an object can be deleted without a further `onclose` depends on where its
  close handshake stands. `RegisteredInv` adds that the registered connection's
  close handler has not been called while its thread is in `onopen` or between
  handlers, so that every path to `delete` first passes through `onclose`; and
  that a handler between `onclose`'s comparison and its store is still in
  `onclose`. `IInv` is the conjunction with the types (`Inductive`). `CrowConnectionProofs` holds the lemmas on
  single connection handlers (buffers, types, `check_destroy`, the stream of frames) the proofs share.
* **`Implements`, `HandlerFirst`, `Recorded`**: `WebSocketSessions`, for any numbers of connections,
  calls and texts: `Spec => ImplementsChannel`, `Spec => HandledBeforeDelete` and
  `Spec => []RecvImpliesHandled`. That the peer has a beginning of what was sent is not
  inductive: the next delivery must fit on to it. `StreamInv` says that the texts received, in flight, in
  `write_buffers_` and posted, one after the other, are those sent (`TextStream`), as long as the
  connection is `Connected`; after that nothing is delivered any more and the beginning is
  what remains. The hard steps are those that throw buffers away: `ShutInv` shows that our side is
  only shut down when nothing is read any more, so that a write that ends without having been
  delivered is the last thing the object waits for. `CalledInv` says that a recorded call
  of the close handler has returned or is running, which is what `HandlerFirst` needs when
  `check_destroy` deletes without calling it. What `TextsOf` computes is proved
  without an induction theorem: a least counterexample (`Least`, from the library's
  well-foundedness of `<`) is first-order. One lemma per handler gives the new object, and
  `OneStep` derives all three results from it. `TextsAssumption` says that no text is
  the upgrade response or a close frame.
* **`TranscriptsInOrder`**: `Spec => []Transcripts`, for any numbers of clients, trainings and epochs, with
  clients that vanish, take over or come back at the same address. What a client got says nothing of
  what it gets next, so the invariant (`ServerInv`, proved by `ServerInductive`) is about the whole
  *stream* of a connection: what was received, is in `sending_buffers_` or `write_buffers_`, and is
  posted, one after the other. `TellingInv` says that it is in order, that a training with a message in it
  has begun, and that the last message of a training is up to date (`UpToDate`): the result, or the last
  epoch that its thread reported, on this very connection, if it will report another. That is so
  only as long as something can still arrive: on a connection that is gone, or waits for its close
  handler only to be deleted (`Lost`), a thread may go on reporting, and only what was received
  counts. `EndsInv` says that free addresses hold nothing, so that a new session at an old address begins
  without a past, and that `shut` sockets are not read. In the proof, `CrowConnectionProofs` says
  what each handler does to the stream (moves it on, adds one frame, or ends it), and a lemma per kind of
  step (`IoTelling`, `SaysTelling`, `SilentTelling`, `DestroyTelling`, ...) what that does to the invariant.
* **`OneCompilerFits`, `OneCompilerBuilds`**: if at most one `/compile` runs (`\A h, g \in Compilers :
  h = g`), then `[]LayersFit` and `[]LayersAsRequested`. Their invariants add that the next layer's input
  size is the last layer's output size, and that the layers are the first `next - 1` of the model. The
  premise is needed: with two workers both properties are false (section 6).
* **`SessionIsServer`, `SessionInductive`, `NeverSessionCrashes`, `ExactlyAsExpected`**: `TrainingSession`, for
  any numbers of addresses, threads and workers, any requests and networks. Each step of a session is a
  step of the server (`SessionSpec => Spec`), so that everything above holds of it. `[]NeverCrashes` and
  `[]ToldAsExpected` need the discipline as an invariant (`SessionInv`): one connection, one training or
  one compile at a time (`OneAtATime`); the thread's request is the session's and suits the layers, and each
  pointer that the thread loaded is the registered connection (`TrainingInv`); until the thread has
  posted the close frame nobody closes (`ServingInv`); and the stream is *exactly* the beginning of
  `Expected(t)` that belongs to where the thread is (`StreamInv`, with `Said`). A step that posts adds the
  next frame of `Expected(t)`; all others leave the stream alone. `SessionAssumption` says that a
  request has rows, hence labels: `NoJob`, the mark for no request, is none.
* **`SampleOnce`, `BatchesWellSized`, `SlicesInBounds`, `ThrowsRightly`**: `MiniBatches` for all
  sizes, from `IInv`: where the loop stands (`LoopInv`), the chain of slices
  (`ChainInv`), the last one (`LastInv`), and the two halves of "exactly once",
  `CoverInv` and `OrderInv`. The last two follow by induction on the slices from `ChainInv`;
  as parts of the invariant the induction is over steps instead. `SizesAssumption` says that sizes are integers and that
  memory holds more mini-batches than there are samples: without it a legal size could
  exhaust memory, and `ThrowsRightly` would be false.

* **`ModelsHaveInfo`**, **`StoreRefinement`**: `ModelStore`, including failures and
  restarts: `Spec => []ModelHasInfo` and `Spec => ImplementsAtomicStore`. The
  invariant adds to `ModelHasInfo` that documents and requests are about ids given
  out, that an info being created does not exist, and that one request creates it
  (`RequestsInv`). The refinement has one lemma per kind of step: writes change
  one field of a document that is seen; the first of a deletion's two steps takes it away; a
  creation appears with its info; requests that are cut off are `Abandon`.
  `StoreAssumption` only says that the marks `None` and `Gone` are not contents.

* **`Unique`, `OwnToken`, `Agrees`, `Rightly`, `Implements`**: `Accounts`, for any numbers of clients,
  requests and failures. `SessionAgrees` is the hard one. What keeps it true is
  what may still be heard: `HandlersInv` ties the answers on their way to users
  that exist and to their owners; `CheckInv` says that while the spinner is shown one
  request alone is heard, the check, and that unless `doubt` is set its answer is what the
  cookie says now, as nothing else that is heard can change it. Without that, an answer of
  before the reload would break the agreement. `Rightly` is an action
  property: a handler that refuses after an await does it on a look-up that is stale,
  and the invariant shows that it is still true, as users never change or disappear.
  `Implements` has one step per action; `AccountsAssumption` says that `None` is not a value.

* **`Tracked`, `Charted`, `Locked`, `Fitting`, `Uploads`**: `ProcessView`, for any
  numbers of calls, sockets, networks, messages and failures, whether or not people
  wait (`Patient`). `IInv` has three layers. `MountedInv`, `SocketTracked` and `ChartIsLatest` hold
  always. `OneOperation`, `LoadingInv`, `PageFits` and `UploadsInv` hold of a mounted page as long as
  nothing was `rash`: nothing is under way before the model is there; a compilation or a training
  that is still under way will produce parameters of the network that is shown; a
  half of the data set that is being parsed remembers the other half. `StoreFits` and `SavesInv` are their
  counterpart for the document and for the saves under way, and, unlike the page, they outlive it. The proof has one
  lemma per layer and action.

* `TrainingServerProofs.Inductive`, `WebSocketSessionsProofs.Inductive`, `ModelStoreProofs.Inductive`, `MiniBatchesProofs.Inductive`, `AccountsProofs.Inductive` and
  `ProcessViewProofs.Inductive` state the invariants themselves.

TLC checks each `IInv` in a run, as a part of `ServerInv` and `SessionInv` where there is one. *Only
model-checked*: liveness (`Reclaimed`, `TrainingEnds`, `FinalResultArrives`, `SessionEnds`, `Terminates`),
which needs fairness and `ENABLED`, out of this prover's reach.

## 6. Disagreements found

| run | statement | what the code does |
|---|---|---|
| `result_elsewhere` | `README.md:17`: "submitting training runs, monitoring progress, and retrieving metrics" | a second client that connects during a training gets its final result, and is disconnected |
| `leaving_crashes` | `GettingStartedPage.js:60`: "Training can be stopped anytime" | there is no stop; a client that leaves has its object deleted, and `train` reports the next epoch through the dangling pointer |
| `unsaved_result` | `Navbar.js:14`: "Intercept navigation and check for unsaved changes" | the result of a training is put into the page and `saved` stays true: it can be left without a question |

Seen and not made runs:

*Training server.* `NeuralNetwork.cpp:276`, `:282` say "Clear existing layers", "Rebuild layers":
two `/compile` requests at once both clear and then both push (`LayersFit` and `LayersAsRequested` are checked and
proved for one worker; with two, both fail).
`GettingStartedPage.js:60` says "Compile first - this validates your
architecture", and `/compile` accepts a network whose input does not suit the data, so that
`dotProduct` throws in the detached thread and the process dies (`ThreadThrows`). The view posts
to `/compile/${modelId}`, `/test/`, `/predict/`, `/createCompiledModel/` and `/removeModel/`, and parses messages as JSON with a `type`,
while this commit's C++ server serves only `/compile` and sends plain text.

*Models.* A model that is listed before its creation is complete can be deleted; its info is
inserted after that, refers to nothing (`modelInfoModel.js:30`, "reference to models collection") and
stays for ever. A save of a model without an info is answered "Model saved successfully"
(`processRoutes.js:22`), and nothing is stored.

*Users.* `auth.js:9`, "assuming backend sends 400 for existing user": it sends 409, so that a
person whose name is taken is led to the server-error page and the banner of
`RegisterPage.js:101` is never shown. A registration that takes more than 5 s may have
created the account; a second try leads to the same page. Answers to a form that was
left still log in and navigate.

*Processing page.* A compilation that fails sets `isCompiled` all the same and leaves `modelInProcess` set until
the page is left. A connection that fails sets `isTrained`. Compiling again keeps
`isTrained`; loading does not restore it. Add Layer leaves the network compiled, Delete in a layer's
form leaves `saved`. `saveModelInfo` swallows errors, and `saved` is set after it.
`GettingStartedPage.js:110` says models are "automatically saved". An edit during a
compilation, and two uploads parsed at once, are where the properties need
a person who waits.

## 7. Not modelled

* Crow: ping and pong, binary frames, fragments, payload limits, `get_remote_ip`
  throwing in `onopen`, the destructor's wait for posted tasks. The application
  uses none of them, or only in logging.
* The engine's floating-point numbers: passes, losses, `means` and `stdevs`,
  dropout and L2. Their shapes and failures are modelled. Layers of size zero and
  learning rates have no effect on control. `trainVal` and `predict` are not
  reached from a route.
* `minibatchSize` near 2^31: `endCol` overflows `int` only when a data set has more than 2^30 samples.
* Memory that `setModelHyperParameters` leaks (the old loss function).
* A `/compile` or training request whose lists are shorter than it says (indexing
  past their end), or that has no samples at all.
* Express: which user a model belongs to; routes that only read.
* The processing page: uploads of test data (independent of the rest), the form of training
  hyperparameters, the dialog of the back button (`removeModel` has no counterpart in the
  server), drawing. That the training server keeps a model in memory is not visible to the page.
* `MyModels.js` (planned): its hazards are listed in `PROJECT.json` without a property.
* `HyperParameterSearch.cpp`, `DatasetLoader.cpp`, the unused SQL layer of `server/src/db`: not
  reached by any server.
* Vendored libraries, and layout. About 205,000 of the repository's 214,600 lines are vendored
  (Asio, Eigen, Crow); of the 8,800 lines of its own a large part is markup. The map therefore covers little
  of the whole, and nearly all of the code that keeps state.
