--------------------------- MODULE TrainingSession ---------------------------
(***************************************************************************)
(* The training server with the clients it is written for: one connection  *)
(* and one training at a time, a request that suits the compiled network,  *)
(* no /compile while a training runs, and a client that stays until the    *)
(* server closes and only then answers.  Under these assumptions the       *)
(* server keeps its promises; TrainingServer's runs show what each of      *)
(* them is for.                                                            *)
(***************************************************************************)
EXTENDS TrainingServer

VARIABLE asked      \* the request of the last session, NoJob before it is sent

sessionVars == <<vars, asked>>

\* A request has rows, hence a label: no request is NoJob.
ASSUME SessionAssumption == NoJob \notin Jobs

SessionInit == Init /\ asked = NoJob

Active(t) == thread[t].pc \notin {"idle", "done"}
NoTraining == \A t \in Threads : ~Active(t)
NoCompiling == \A h \in Compilers : ~Compiling(h)

Told(c, kind) == \E i \in 1 .. Len(got[c]) : got[c][i].kind = kind

\* The data set suits the network that is compiled.
Suits(job) ==
    /\ layers # <<>>
    /\ Fits(job)
    /\ job.classes <= Outputs(job)
    /\ lossOk

-----------------------------------------------------------------------------
(* What the client does *)

\* A client connects when the previous session is over on the server too.
ClientOpens(c) ==
    /\ \A d \in Conns : ~Alive(d)
    /\ NoTraining
    /\ \E t \in Threads : thread[t].pc = "idle"
    /\ OnOpen(c)
    /\ asked' = NoJob

\* Greeted, it sends its one request.
ClientAsks(c, t, job) ==
    /\ Told(c, "welcome")
    /\ asked = NoJob
    /\ NoCompiling
    /\ Suits(job)
    /\ OnMessage(c, t, job)
    /\ asked' = job

\* It compiles only while no training runs and no other compile does, and
\* names a loss function the factory builds or rejects.
ClientCompiles(h, model) ==
    /\ NoTraining
    /\ NoCompiling
    /\ model.loss # "noReturn"
    /\ CompileStart(h, model)
    /\ UNCHANGED asked

\* It answers the close frame the server sent.
ClientAnswersClose(c) ==
    /\ Told(c, "close")
    /\ RecvCloseReply(c)
    /\ UNCHANGED <<serverVars, asked>>

\* What the server does by itself: the thread of a connection, an HTTP worker
\* in /compile, a training thread.  Restart is left out: it follows a crash, and
\* NeverCrashes says there is none.
ConnectionSteps(c) == (OnOpenGreet(c) \/ OnClose(c) \/ Io(c)) /\ UNCHANGED asked
CompilerSteps(h)   == CompileStep(h) /\ UNCHANGED asked
TrainingSteps(t)   == Training(t) /\ UNCHANGED asked

SessionNext ==
    \/ \E c \in Conns :
          \/ ClientOpens(c)
          \/ \E t \in Threads, job \in Jobs : ClientAsks(c, t, job)
          \/ ClientAnswersClose(c)
    \/ \E h \in Compilers, model \in Models : ClientCompiles(h, model)
    \/ \E c \in Conns : ConnectionSteps(c)
    \/ \E h \in Compilers : CompilerSteps(h)
    \/ \E t \in Threads : TrainingSteps(t)

SessionSpec == SessionInit /\ [][SessionNext]_sessionVars

\* Each thread of the server is scheduled; the client answers a close.
SessionFairness ==
    /\ \A c \in Conns : /\ WF_sessionVars(ConnectionSteps(c))
                        /\ WF_sessionVars(ClientAnswersClose(c))
    /\ \A h \in Compilers : WF_sessionVars(CompilerSteps(h))
    /\ \A t \in Threads : WF_sessionVars(TrainingSteps(t))

FairSessionSpec == SessionSpec /\ SessionFairness

-----------------------------------------------------------------------------
(* Properties *)

\* None of the process's ways to die is reachable: no mismatch, no stale
\* pointer, no race (RouteHandlers.cpp:52-59, NeuralNetwork.cpp:21-71).
NeverCrashes == proc = "up"

\* What the client has received is a beginning of: the upgrade, the welcome,
\* one message per epoch in order, the final result, the close frame
\* (RouteHandlers.cpp:21, 54-57; NeuralNetwork.cpp:64-67).
Expected(t) ==
    <<Hello, Message("welcome", Null, 0)>>
        \o [n \in 1 .. asked.epochs |-> Message("epoch", t, n)]
        \o <<Message("final", t, 0), CloseFrame>>
ToldAsExpected ==
    \A c \in Conns : got[c] # <<>> =>
        \E t \in Threads :
            /\ Len(got[c]) <= Len(Expected(t))
            /\ got[c] = SubSeq(Expected(t), 1, Len(got[c]))

\* A request is answered to the end: the client gets its final result ...
FinalResultArrives ==
    \A c \in Conns : Alive(c) /\ asked # NoJob ~> Told(c, "final")

\* ... and then the session ends on both sides, the object deleted and the
\* server ready for the next client (websocket.h:660-697, 755-765).
SessionEnds ==
    asked # NoJob ~> (\A c \in Conns : ~Alive(c)) /\ gConn = Null

-----------------------------------------------------------------------------
(* The inductive invariant behind NeverCrashes and ToldAsExpected *)

\* One connection, one training or one compile at a time, and nothing left at
\* the addresses that are free.
OneAtATime ==
    /\ \A c, d \in Conns : Alive(c) /\ Alive(d) => c = d
    /\ \A c \in Conns : ~Alive(c) => got[c] = <<>> /\ posted[c] = <<>>
    /\ \A t, u \in Threads : Active(t) /\ Active(u) => t = u
    /\ \A h, k \in Compilers : Compiling(h) /\ Compiling(k) => h = k
    /\ NoTraining \/ NoCompiling
    /\ \A h \in Compilers : Compiling(h) => compile[h].model.loss # "noReturn"

\* A training thread works on the request of the session, which suits the
\* layers, and every pointer it loaded is the registered connection.
Trains(t) ==
    /\ asked # NoJob
    /\ thread[t].job = asked
    /\ Suits(asked)
    /\ gConn # Null
    /\ thread[t].pc \notin {"start", "call"} => thread[t].ws = gConn
    /\ thread[t].pc \in {"send", "close"} => thread[t].reg = gConn
TrainingInv == \A t \in Threads : Active(t) => Trains(t)

\* Until the close frame of a session is posted its connection is registered
\* and nobody closes it; the peer answers it when everything has arrived.
Serving == asked = NoJob \/ ~NoTraining
Served(c) ==
    /\ conn[c].io # "oncloseReply"
    /\ conn[c].io = "onopen" => asked = NoJob
    /\ conn[c].sock # "down"
    /\ conn[c].sock = "shut" => ~Serving /\ got[c] = Stream(c)
    /\ Serving => /\ gConn = c
                  /\ conn[c].io \in {"onopen", "run"}
                  /\ ~conn[c].sentClose /\ ~conn[c].closeConnection
ServingInv == \A c \in Conns : Alive(c) => Served(c)

\* How much of Expected(t) has been posted so far.
Reported(r) ==
    CASE r.pc = "done"                  -> r.job.epochs + 4
      [] r.pc = "report"                -> r.epoch + 1
      [] r.pc \in {"loadClose", "close"} -> r.epoch + 3
      [] OTHER                          -> r.epoch + 2
Said(c, t) ==
    IF conn[c].io = "onopen" THEN 1
    ELSE IF asked = NoJob THEN 2 ELSE Reported(thread[t])

\* t is the training of the session, if it has begun.
OfSession(t) ==
    asked # NoJob => /\ thread[t].job = asked
                     /\ Active(t) \/ (NoTraining /\ thread[t].pc = "done")
StreamInv ==
    \A c \in Conns : Alive(c) =>
        \E t \in Threads : /\ OfSession(t)
                            /\ Stream(c) = SubSeq(Expected(t), 1, Said(c, t))

SessionInv ==
    /\ IInv
    /\ asked \in Jobs \cup {NoJob}
    /\ NeverCrashes
    /\ OneAtATime
    /\ TrainingInv
    /\ ServingInv
    /\ StreamInv
=============================================================================
