------------------------ MODULE TrainingSessionProofs ------------------------
(***************************************************************************)
(* The training server never dies under clients that take turns and ask    *)
(* for what suits the compiled network, and what it tells them is exactly  *)
(* what they expect (NeverSessionCrashes, ExactlyAsExpected), for any      *)
(* number of addresses, threads and workers, any jobs and any models.      *)
(***************************************************************************)
EXTENDS TrainingSession, TrainingServerProofs

\* SessionInv beyond what holds of every server.
SessionCore ==
    /\ asked \in Jobs \cup {NoJob}
    /\ NeverCrashes
    /\ OneAtATime
    /\ TrainingInv
    /\ ServingInv
    /\ StreamInv

-----------------------------------------------------------------------------
(* A session is a behaviour of the server *)

\* Each step of a session is a step of the handlers of RouteHandlers.cpp.
LEMMA SessionStep == SessionNext => Next
<1> SUFFICES ASSUME SessionNext PROVE Next
  OBVIOUS
<1>1. ASSUME NEW c \in Conns, ClientOpens(c) PROVE Next
  BY <1>1 DEF ClientOpens, Next
<1>2. ASSUME NEW c \in Conns, NEW t \in Threads, NEW job \in Jobs, ClientAsks(c, t, job)
      PROVE  Next
  BY <1>2 DEF ClientAsks, Next
<1>3. ASSUME NEW c \in Conns, ClientAnswersClose(c) PROVE Next
  BY <1>3 DEF ClientAnswersClose, Peer, serverVars, Next
<1>4. ASSUME NEW h \in Compilers, NEW model \in Models, ClientCompiles(h, model) PROVE Next
  BY <1>4 DEF ClientCompiles, Next
<1>5. ASSUME NEW c \in Conns, ConnectionSteps(c) PROVE Next
  BY <1>5 DEF ConnectionSteps, Next
<1>6. ASSUME NEW h \in Compilers, CompilerSteps(h) PROVE Next
  BY <1>6 DEF CompilerSteps, Next
<1>7. ASSUME NEW t \in Threads, TrainingSteps(t) PROVE Next
  BY <1>7 DEF TrainingSteps, Next
<1> QED BY <1>1, <1>2, <1>3, <1>4, <1>5, <1>6, <1>7 DEF SessionNext

\* What these clients do is something the clients of the server may do: the
\* sessions implement the specification of the server.
THEOREM SessionIsServer == SessionSpec => Spec
<1>1. SessionInit => Init
  BY DEF SessionInit
<1>2. [SessionNext]_sessionVars => [Next]_vars
  BY SessionStep DEF sessionVars
<1> QED BY <1>1, <1>2, PTL DEF SessionSpec, Spec

-----------------------------------------------------------------------------
(* The messages of a session *)

\* The parts of Expected, one by one (RouteHandlers.cpp:21, 54-57;
\* NeuralNetwork.cpp:64-67).
ExpectedFor(job, t) ==
    <<Hello, Message("welcome", Null, 0)>>
        \o [n \in 1 .. job.epochs |-> Message("epoch", t, n)]
        \o <<Message("final", t, 0), CloseFrame>>
\* The frames a client expects, by their place.
LEMMA ExpectedForParts ==
    ASSUME NEW job \in Jobs \cup {NoJob}, NEW t \in Threads
    PROVE  /\ ExpectedFor(job, t) \in Seq(Frames)
           /\ Len(ExpectedFor(job, t)) = job.epochs + 4
           /\ ExpectedFor(job, t)[1] = Hello
           /\ ExpectedFor(job, t)[2] = Message("welcome", Null, 0)
           /\ \A n \in 1 .. job.epochs : ExpectedFor(job, t)[n + 2] = Message("epoch", t, n)
           /\ ExpectedFor(job, t)[job.epochs + 3] = Message("final", t, 0)
           /\ ExpectedFor(job, t)[job.epochs + 4] = CloseFrame
<1> DEFINE E == job.epochs
           first == <<Hello, Message("welcome", Null, 0)>>
           epochs == [n \in 1 .. E |-> Message("epoch", t, n)]
           last == <<Message("final", t, 0), CloseFrame>>
<1>0. E \in 0 .. MaxEpochs /\ MaxEpochs \in Nat
  BY JobTypes, ServerAssumption
<1>1. first \in Seq(Frames) /\ Len(first) = 2
  <2>1. Message("welcome", Null, 0) \in Frames /\ Hello \in Frames
    BY <1>0, MessageTypes, TaskIsFrame DEF Frames
  <2> QED BY <2>1
<1>2. epochs \in Seq(Frames) /\ Len(epochs) = E
  <2>1. \A n \in 1 .. E : Message("epoch", t, n) \in Frames
    BY <1>0, MessageTypes, TaskIsFrame
  <2> QED BY <1>0, <2>1
<1>3. last \in Seq(Frames) /\ Len(last) = 2
  <2>1. Message("final", t, 0) \in Frames /\ CloseFrame \in Frames
    BY <1>0, MessageTypes, TaskIsFrame DEF Frames
  <2> QED BY <2>1
<1>4. /\ first[1] = Hello /\ first[2] = Message("welcome", Null, 0)
      /\ last[1] = Message("final", t, 0) /\ last[2] = CloseFrame
      /\ \A n \in 1 .. E : epochs[n] = Message("epoch", t, n)
  OBVIOUS
<1>5. ExpectedFor(job, t) = (first \o epochs) \o last
  BY DEF ExpectedFor
<1> HIDE DEF first, epochs, last, E
<1>6. /\ first \o epochs \in Seq(Frames)
      /\ Len(first \o epochs) = 2 + E
      /\ \A i \in 1 .. 2 + E :
            (first \o epochs)[i] = IF i <= 2 THEN first[i] ELSE epochs[i - 2]
  <2>1. first \o epochs \in Seq(Frames)
    BY <1>1, <1>2, FramesConcat
  <2>2. /\ Len(first \o epochs) = Len(first) + Len(epochs)
        /\ \A i \in 1 .. Len(first) + Len(epochs) :
              (first \o epochs)[i] =
                  IF i <= Len(first) THEN first[i] ELSE epochs[i - Len(first)]
    BY <1>1, <1>2, FramesParts
  <2> QED BY <1>1, <1>2, <2>1, <2>2
<1>7. /\ ExpectedFor(job, t) \in Seq(Frames)
      /\ Len(ExpectedFor(job, t)) = (2 + E) + 2
      /\ \A i \in 1 .. (2 + E) + 2 :
            ExpectedFor(job, t)[i] = IF i <= 2 + E THEN (first \o epochs)[i] ELSE last[i - (2 + E)]
  <2> DEFINE front == first \o epochs
  <2>0. front \in Seq(Frames) /\ Len(front) = 2 + E
    BY <1>6
  <2> HIDE DEF front
  <2>1. front \o last \in Seq(Frames)
    BY <1>3, <2>0, FramesConcat
  <2>2. /\ Len(front \o last) = Len(front) + Len(last)
        /\ \A i \in 1 .. Len(front) + Len(last) :
              (front \o last)[i] =
                  IF i <= Len(front) THEN front[i] ELSE last[i - Len(front)]
    BY <1>3, <2>0, FramesParts
  <2>3. ExpectedFor(job, t) = front \o last
    BY <1>5 DEF front
  <2>4. /\ ExpectedFor(job, t) \in Seq(Frames)
        /\ Len(ExpectedFor(job, t)) = (2 + E) + 2
        /\ \A i \in 1 .. (2 + E) + 2 :
              ExpectedFor(job, t)[i] = IF i <= 2 + E THEN front[i] ELSE last[i - (2 + E)]
    BY <1>3, <2>0, <2>1, <2>2, <2>3
  <2> QED BY <2>4 DEF front
<1>8. \A i \in 1 .. 2 + E :
         ExpectedFor(job, t)[i] = IF i <= 2 THEN first[i] ELSE epochs[i - 2]
  <2> SUFFICES ASSUME NEW i \in 1 .. 2 + E
               PROVE  ExpectedFor(job, t)[i] = IF i <= 2 THEN first[i] ELSE epochs[i - 2]
    OBVIOUS
  <2>1. i \in 1 .. (2 + E) + 2 /\ i <= 2 + E
    BY <1>0
  <2>2. ExpectedFor(job, t)[i] = (first \o epochs)[i]
    BY <1>7, <2>1
  <2> QED BY <1>6, <2>2
<1>9. ExpectedFor(job, t)[1] = Hello /\ ExpectedFor(job, t)[2] = Message("welcome", Null, 0)
  <2>1. 1 \in 1 .. 2 + E /\ 2 \in 1 .. 2 + E
    BY <1>0
  <2>2. ExpectedFor(job, t)[1] = first[1] /\ ExpectedFor(job, t)[2] = first[2]
    BY <1>8, <2>1
  <2> QED BY <1>4, <2>2
<1>10. \A n \in 1 .. E : ExpectedFor(job, t)[n + 2] = Message("epoch", t, n)
  <2> SUFFICES ASSUME NEW n \in 1 .. E PROVE ExpectedFor(job, t)[n + 2] = Message("epoch", t, n)
    OBVIOUS
  <2>1. n + 2 \in 1 .. 2 + E /\ ~(n + 2 <= 2) /\ (n + 2) - 2 = n
    BY <1>0
  <2>2. ExpectedFor(job, t)[n + 2] = epochs[(n + 2) - 2]
    BY <1>8, <2>1
  <2> QED BY <1>4, <2>1, <2>2
<1>11. ExpectedFor(job, t)[E + 3] = last[1] /\ ExpectedFor(job, t)[E + 4] = last[2]
  <2>1. /\ E + 3 \in 1 .. (2 + E) + 2 /\ ~(E + 3 <= 2 + E) /\ (E + 3) - (2 + E) = 1
        /\ E + 4 \in 1 .. (2 + E) + 2 /\ ~(E + 4 <= 2 + E) /\ (E + 4) - (2 + E) = 2
        /\ (2 + E) + 2 = E + 4
    BY <1>0
  <2> QED BY <1>7, <2>1
<1> QED BY <1>0, <1>4, <1>7, <1>9, <1>10, <1>11 DEF E

\* The same for the request of the session.
LEMMA ExpectedParts ==
    ASSUME asked \in Jobs \cup {NoJob}, NEW t \in Threads
    PROVE  /\ Expected(t) \in Seq(Frames)
           /\ Len(Expected(t)) = asked.epochs + 4
           /\ Expected(t)[1] = Hello
           /\ Expected(t)[2] = Message("welcome", Null, 0)
           /\ \A n \in 1 .. asked.epochs : Expected(t)[n + 2] = Message("epoch", t, n)
           /\ Expected(t)[asked.epochs + 3] = Message("final", t, 0)
           /\ Expected(t)[asked.epochs + 4] = CloseFrame
<1>1. Expected(t) = ExpectedFor(asked, t)
  BY DEF Expected, ExpectedFor
<1> QED BY <1>1, ExpectedForParts

\* All but the first of them are posted.
LEMMA ExpectedTask ==
    ASSUME asked \in Jobs \cup {NoJob}, NEW t \in Threads,
           NEW n \in 1 .. asked.epochs + 3
    PROVE  Expected(t)[n + 1] \in Texts \cup {CloseFrame}
<1>0. asked.epochs \in 0 .. MaxEpochs /\ MaxEpochs \in Nat
  BY JobTypes, ServerAssumption
<1>1. CASE n = 1
  <2>1. Message("welcome", Null, 0) \in Texts \cup {CloseFrame}
    BY <1>0, MessageTypes
  <2> QED BY <1>1, <2>1, ExpectedParts
<1>2. CASE n - 1 \in 1 .. asked.epochs
  <2>1. n + 1 = (n - 1) + 2 /\ n - 1 \in 0 .. MaxEpochs
    BY <1>0, <1>2
  <2>2. Message("epoch", t, n - 1) \in Texts \cup {CloseFrame}
    BY <2>1, MessageTypes
  <2> QED BY <1>2, <2>1, <2>2, ExpectedParts
<1>3. CASE n = asked.epochs + 2
  <2>1. Message("final", t, 0) \in Texts \cup {CloseFrame} /\ n + 1 = asked.epochs + 3
    BY <1>0, <1>3, MessageTypes
  <2> QED BY <2>1, ExpectedParts
<1>4. CASE n = asked.epochs + 3
  <2>1. n + 1 = asked.epochs + 4
    BY <1>0, <1>4
  <2> QED BY <2>1, ExpectedParts
<1> QED BY <1>0, <1>1, <1>2, <1>3, <1>4

\* The first one and the first two of them.
LEMMA FirstFrames ==
    ASSUME NEW e \in Seq(Frames), Len(e) \in Nat, Len(e) >= 2
    PROVE  /\ SubSeq(e, 1, 1) = <<e[1]>>
           /\ SubSeq(e, 1, 2) = <<e[1], e[2]>>
<1>1. 1 \in 1 .. Len(e) /\ 2 \in 1 .. Len(e)
  OBVIOUS
<1>2. e[1] \in Frames /\ e[2] \in Frames
  BY <1>1
<1>3. /\ SubSeq(e, 1, 1) \in Seq(Frames) /\ Len(SubSeq(e, 1, 1)) = 1
      /\ SubSeq(e, 1, 1)[1] = e[1]
  BY <1>1
<1>4. /\ SubSeq(e, 1, 2) \in Seq(Frames) /\ Len(SubSeq(e, 1, 2)) = 2
      /\ SubSeq(e, 1, 2)[1] = e[1] /\ SubSeq(e, 1, 2)[2] = e[2]
  BY <1>1
<1>5. ASSUME NEW s \in Seq(Frames), Len(s) = 1 PROVE s = <<s[1]>>
  BY <1>5
<1>6. ASSUME NEW s \in Seq(Frames), Len(s) = 2 PROVE s = <<s[1], s[2]>>
  BY <1>6
<1> QED BY <1>3, <1>4, <1>5, <1>6

\* A beginning of Expected, and the next message.
LEMMA NextExpected ==
    ASSUME asked \in Jobs \cup {NoJob}, NEW t \in Threads,
           NEW n \in 1 .. asked.epochs + 3
    PROVE  SubSeq(Expected(t), 1, n + 1) = Append(SubSeq(Expected(t), 1, n), Expected(t)[n + 1])
<1>0. asked.epochs \in Nat
  BY JobTypes, ServerAssumption
<1>1. Expected(t) \in Seq(Frames) /\ Len(Expected(t)) = asked.epochs + 4
  BY ExpectedParts
<1> DEFINE e == Expected(t)
<1> HIDE DEF e
<1>2. e \in Seq(Frames) /\ n + 1 \in 1 .. Len(e) /\ n \in Nat
  BY <1>0, <1>1 DEF e
<1> QED BY <1>2 DEF e

-----------------------------------------------------------------------------
(* The steps of a connection *)

\* A connection that is served and whose stream is a beginning of what the
\* client expects.
Fine(c) ==
    /\ Served(c)
    /\ \E t \in Threads : /\ OfSession(t)
                          /\ Stream(c) = SubSeq(Expected(t), 1, Said(c, t))

\* While only a connection changes, the trainings go on as they were.
LEMMA TrainingKept ==
    ASSUME TrainingInv, UNCHANGED <<layers, lossOk, thread, asked>>, Serving => UNCHANGED gConn
    PROVE  TrainingInv'
  BY DEF TrainingInv, Trains, Suits, Fits, Outputs, Serving, NoTraining, Active

\* A step of connection c alone, after which c is gone or as it should be.
LEMMA ConnStep ==
    ASSUME ConnTypeOK, SessionCore, NEW c \in Conns, Alive(c),
           UNCHANGED <<proc, layers, lossOk, compile, thread, asked>>,
           Serving => UNCHANGED gConn,
           \A d \in Conns \ {c} : /\ conn'[d] = conn[d] /\ got'[d] = got[d]
                                  /\ posted'[d] = posted[d],
           \/ ~Alive(c)' /\ got'[c] = <<>> /\ posted'[c] = <<>>
           \/ Alive(c)' /\ Fine(c)'
    PROVE  SessionCore'
<1>1. OneAtATime'
  BY DEF SessionCore, OneAtATime, Alive, Active, NoTraining, NoCompiling, Compiling
<1>2. TrainingInv'
  BY TrainingKept DEF SessionCore
<1>3. \A d \in Conns : Alive(d)' => Fine(d)'
  <2> SUFFICES ASSUME NEW d \in Conns, Alive(d)' PROVE Fine(d)'
    OBVIOUS
  <2>1. d = c
    BY DEF SessionCore, OneAtATime, Alive
  <2> QED BY <2>1
<1>4. ServingInv' /\ StreamInv'
  BY <1>3 DEF ServingInv, StreamInv, Fine
<1> QED BY <1>1, <1>2, <1>4 DEF SessionCore, NeverCrashes

\* The stream of a connection stays, and so does where its session is.
LEMMA SameStream ==
    ASSUME SessionCore, NEW c \in Conns, Alive(c), UNCHANGED <<thread, asked>>,
           Stream(c)' = Stream(c), (conn'[c].io = "onopen") = (conn[c].io = "onopen"),
           Served(c)'
    PROVE  Fine(c)'
<1>2. PICK t \in Threads : /\ OfSession(t)
                           /\ Stream(c) = SubSeq(Expected(t), 1, Said(c, t))
  BY DEF SessionCore, StreamInv
<1>3. OfSession(t)'
  BY <1>2 DEF OfSession, Active, NoTraining
<1>4. Expected(t)' = Expected(t) /\ Said(c, t)' = Said(c, t)
  BY DEF Expected, Said, Reported
<1>5. Stream(c)' = SubSeq(Expected(t)', 1, Said(c, t)')
  BY <1>2, <1>4
<1> QED BY <1>3, <1>5 DEF Fine

\* How far the session is: to the end exactly when it is not served any more.
LEMMA SaidBounds ==
    ASSUME IInv, SessionCore, NEW c \in Conns, NEW t \in Threads, Alive(c), OfSession(t)
    PROVE  /\ Said(c, t) \in 1 .. asked.epochs + 4
           /\ Serving => Said(c, t) <= asked.epochs + 3
           /\ ~Serving => Said(c, t) = asked.epochs + 4
<1>0. asked.epochs \in Nat
  BY JobTypes, ServerAssumption DEF SessionCore
<1>1. /\ thread[t].epoch \in Nat /\ EpochOK(thread[t])
  BY DEF IInv, TypeOK, WorkInv, ThreadRecord
<1>2. CASE asked = NoJob
  BY <1>0, <1>2 DEF Said, Serving
<1>3. CASE asked # NoJob
  <2>1. conn[c].io # "onopen" /\ thread[t].job = asked
    BY <1>3 DEF SessionCore, ServingInv, Served, OfSession
  <2>2. Said(c, t) = Reported(thread[t])
    BY <1>3, <2>1 DEF Said
  <2>3. Active(t) \/ (NoTraining /\ thread[t].pc = "done")
    BY <1>3 DEF OfSession
  <2>4. CASE Active(t)
    <3>1. Serving /\ thread[t].pc # "done"
      BY <2>4 DEF Active, Serving, NoTraining
    <3> QED BY <1>0, <1>1, <2>1, <2>2, <3>1 DEF Reported, EpochOK
  <2>5. CASE NoTraining /\ thread[t].pc = "done"
    BY <1>0, <1>3, <2>1, <2>2, <2>5 DEF Reported, Serving
  <2> QED BY <2>3, <2>4, <2>5
<1> QED BY <1>2, <1>3

\* What the stream of a session holds, message by message.
LEMMA StreamParts ==
    ASSUME IInv, SessionCore, NEW c \in Conns, Alive(c)
    PROVE  \E t \in Threads :
              /\ OfSession(t)
              /\ Stream(c) = SubSeq(Expected(t), 1, Said(c, t))
              /\ Len(Stream(c)) = Said(c, t)
              /\ \A i \in 1 .. Said(c, t) : Stream(c)[i] = Expected(t)[i]
<1>1. PICK t \in Threads : /\ OfSession(t)
                           /\ Stream(c) = SubSeq(Expected(t), 1, Said(c, t))
  BY DEF SessionCore, StreamInv
<1>2. asked \in Jobs \cup {NoJob} /\ asked.epochs \in Nat
  BY JobTypes, ServerAssumption DEF SessionCore
<1>3. Expected(t) \in Seq(Frames) /\ Len(Expected(t)) = asked.epochs + 4
  BY <1>2, ExpectedParts
<1>4. Said(c, t) \in 1 .. asked.epochs + 4
  BY <1>1, SaidBounds
<1> DEFINE e == Expected(t)
           n == Said(c, t)
<1> HIDE DEF e, n
<1>5. /\ Len(SubSeq(e, 1, n)) = n
      /\ \A i \in 1 .. n : SubSeq(e, 1, n)[i] = e[i]
  <2>1. e \in Seq(Frames) /\ n \in 1 .. Len(e)
    BY <1>3, <1>4 DEF e, n
  <2> QED BY <2>1
<1> QED BY <1>1, <1>5 DEF e, n

\* Of all messages only the last is a close frame.
LEMMA CloseIsLast ==
    ASSUME asked \in Jobs \cup {NoJob}, NEW t \in Threads,
           NEW i \in 1 .. asked.epochs + 4
    PROVE  Expected(t)[i].kind = "close" <=> i = asked.epochs + 4
<1>0. asked.epochs \in 0 .. MaxEpochs /\ MaxEpochs \in Nat
  BY JobTypes, ServerAssumption
<1>1. /\ Hello.kind # "close" /\ CloseFrame.kind = "close"
      /\ Message("welcome", Null, 0).kind # "close"
      /\ Message("final", t, 0).kind # "close"
      /\ \A n \in 1 .. asked.epochs : Message("epoch", t, n).kind # "close"
  BY DEF Hello, CloseFrame, Message
<1>2. CASE i \in {1, 2}
  BY <1>0, <1>1, <1>2, ExpectedParts
<1>3. CASE i - 2 \in 1 .. asked.epochs
  <2>1. i = (i - 2) + 2
    BY <1>0
  <2> QED BY <1>0, <1>1, <1>3, <2>1, ExpectedParts
<1>4. CASE i \in {asked.epochs + 3, asked.epochs + 4}
  BY <1>0, <1>1, <1>4, ExpectedParts
<1> QED BY <1>0, <1>2, <1>3, <1>4

\* While the session is served no close frame is on its way.
LEMMA NoCloseYet ==
    ASSUME IInv, SessionCore, NEW c \in Conns, Alive(c), Serving
    PROVE  \A i \in 1 .. Len(Stream(c)) : Stream(c)[i].kind # "close"
<1>1. PICK t \in Threads :
         /\ OfSession(t)
         /\ Len(Stream(c)) = Said(c, t)
         /\ \A i \in 1 .. Said(c, t) : Stream(c)[i] = Expected(t)[i]
  BY StreamParts
<1>2. asked \in Jobs \cup {NoJob} /\ asked.epochs \in Nat
  BY JobTypes, ServerAssumption DEF SessionCore
<1>3. Said(c, t) \in 1 .. asked.epochs + 3
  BY <1>1, <1>2, SaidBounds
<1>4. \A i \in 1 .. Said(c, t) : i \in 1 .. asked.epochs + 4 /\ i # asked.epochs + 4
  BY <1>2, <1>3
<1> QED BY <1>1, <1>2, <1>4, CloseIsLast

\* check_destroy() and `delete this` of a connection whose session is over
\* (websocket.h:755-765).
LEMMA DestroyFine ==
    ASSUME TypeOK, SessionCore, NEW c \in Conns, Alive(c), conn[c].io # "onopen", ~Serving,
           NEW r \in Connection, DeleteIfIdle(c, r) \/ CheckDestroy(c, r),
           Unsent(r) = Unsent(conn[c]), r.sock = conn[c].sock,
           UNCHANGED <<proc, layers, lossOk, compile, thread, asked>>
    PROVE  SessionCore'
<1>1. /\ ConnTypeOK
      /\ \A d \in Conns \ {c} : /\ conn'[d] = conn[d] /\ got'[d] = got[d]
                                /\ posted'[d] = posted[d]
      /\ \/ conn'[c] = NoObject /\ got'[c] = <<>> /\ posted'[c] = <<>>
         \/ /\ UNCHANGED <<posted, got>>
            /\ \E s \in {"run", "onclose"} : conn'[c] = [r EXCEPT !.io = s]
  BY Destroyed DEF TypeOK
<1>2. CASE conn'[c] = NoObject /\ got'[c] = <<>> /\ posted'[c] = <<>>
  <2>1. ~Alive(c)'
    BY <1>2 DEF Alive, NoObject
  <2> QED BY <1>1, <1>2, <2>1, ConnStep
<1>3. ASSUME UNCHANGED <<posted, got>>, NEW s \in {"run", "onclose"},
             conn'[c] = [r EXCEPT !.io = s]
      PROVE  SessionCore'
  <2> DEFINE q == [r EXCEPT !.io = s]
  <2>1. /\ q.io = s /\ q.sock = conn[c].sock
        /\ q.flushed = r.flushed /\ q.sendingBuffers = r.sendingBuffers
        /\ q.writeBuffers = r.writeBuffers
    BY DEF Connection
  <2>2. conn'[c] = q
    BY <1>3
  <2> HIDE DEF q
  <2>3. Unsent(conn'[c]) = Unsent(conn[c])
    BY <2>1, <2>2 DEF Unsent
  <2>4. Stream(c)' = Stream(c)
    BY <1>3, <2>3, StreamNext DEF Stream
  <2>5. ~Serving' /\ Served(c)
    BY DEF Serving, NoTraining, Active, SessionCore, ServingInv
  <2>6. Served(c)'
    BY <1>3, <2>1, <2>2, <2>4, <2>5 DEF Served
  <2>7. Alive(c)' /\ Fine(c)'
    BY <2>1, <2>2, <2>4, <2>6, SameStream DEF Alive
  <2> QED BY <1>1, <2>7, ConnStep
<1> QED BY <1>1, <1>2, <1>3

\* Crow's own handlers (websocket.h:718-796).
LEMMA IoCore ==
    ASSUME IInv, SessionCore, NEW c \in Conns, Io(c), UNCHANGED asked
    PROVE  SessionCore'
<1>0. /\ TypeOK /\ ConnTypeOK /\ conn[c] \in Connection
      /\ UNCHANGED <<proc, gConn, layers, lossOk, compile, thread, asked>>
      /\ Serving' = Serving
      /\ Alive(c) /\ Served(c)
  <2>1. TypeOK /\ ConnTypeOK /\ conn[c] \in Connection
    BY DEF IInv, TypeOK, ConnTypeOK
  <2>2. UNCHANGED <<proc, gConn, layers, lossOk, compile, thread, asked>>
    BY DEF Io, serverVars
  <2>3. Alive(c)
    BY DEF Io, IoStep, RunPosted, Deliver, WriteDone, WriteDoneClosing, ReadError, Alive
  <2> QED BY <2>1, <2>2, <2>3 DEF Serving, NoTraining, Active, SessionCore, ServingInv
<1>1. CASE RunPosted(c)
  <2> DEFINE r == conn[c]
             x == IF Head(posted[c]) = CloseFrame THEN [r EXCEPT !.sentClose = TRUE] ELSE r
             q == Enqueue(x, Head(posted[c]))
  <2>1. Head(posted[c]) = CloseFrame => ~Serving
    <3> DEFINE p == posted[c]
               g == got[c] \o Unsent(r)
    <3>1. /\ g \in Seq(Frames) /\ p \in Seq(Frames) /\ Stream(c) = g \o p /\ p # <<>>
      BY <1>0, <1>1, StreamType, FramesConcat DEF Stream, RunPosted
    <3> HIDE DEF g, p
    <3>2. /\ Len(g) \in Nat /\ Len(p) \in Nat \ {0} /\ Head(p) = p[1]
      BY <3>1
    <3>3. /\ Len(g) + 1 \in 1 .. Len(g) + Len(p)
          /\ (Len(g) + 1) - Len(g) = 1 /\ ~(Len(g) + 1 <= Len(g))
      BY <3>2
    <3>4. Len(g) + 1 \in 1 .. Len(Stream(c)) /\ Stream(c)[Len(g) + 1] = Head(p)
      BY <3>1, <3>2, <3>3, FramesParts
    <3>5. Serving => Head(p).kind # "close"
      BY <1>0, <3>4, NoCloseYet
    <3> QED BY <3>5 DEF p, CloseFrame
  <2>2. /\ x \in Connection /\ x.io = r.io /\ x.sock = r.sock
        /\ x.closeConnection = r.closeConnection
        /\ Serving => x.sentClose = r.sentClose
    BY <1>0, <2>1 DEF Connection
  <2>3. Stream(c)' = Stream(c)
    BY <1>0, <1>1, RunPostedStream
  <2>4. /\ conn' = [conn EXCEPT ![c] = q]
        /\ posted' = [posted EXCEPT ![c] = Tail(@)]
        /\ UNCHANGED got
    BY <1>1 DEF RunPosted, WriteClose
  <2> HIDE DEF x
  <2>5. /\ q.io = x.io /\ q.sock = x.sock /\ q.closeConnection = x.closeConnection
        /\ q.sentClose = x.sentClose
    <3>1. Head(posted[c]) \in Frames
      <4>1. posted[c] \in Seq(Texts \cup {CloseFrame}) /\ posted[c] # <<>>
        BY <1>0, <1>1 DEF ConnTypeOK, RunPosted
      <4>2. Head(posted[c]) \in Texts \cup {CloseFrame}
        BY <4>1
      <4> QED BY <4>2, TaskIsFrame
    <3> QED BY <2>2, <3>1, EnqueueSame
  <2> HIDE DEF q, r
  <2>6. conn'[c] = q /\ \A d \in Conns \ {c} : /\ conn'[d] = conn[d] /\ got'[d] = got[d]
                                               /\ posted'[d] = posted[d]
    BY <1>0, <2>4 DEF ConnTypeOK
  <2>7. Served(c)'
    BY <1>0, <2>2, <2>3, <2>4, <2>5, <2>6 DEF Served, r
  <2>8. conn'[c].io = conn[c].io
    BY <2>2, <2>5, <2>6 DEF r
  <2>9. Fine(c)' /\ Alive(c)'
    BY <1>0, <2>3, <2>7, <2>8, SameStream DEF Alive
  <2> QED BY <1>0, <2>6, <2>9, ConnStep
<1>2. CASE Deliver(c)
  <2> DEFINE q == [conn[c] EXCEPT !.flushed = TRUE]
  <2>1. /\ q.io = conn[c].io /\ q.sock = conn[c].sock /\ q.sentClose = conn[c].sentClose
        /\ q.closeConnection = conn[c].closeConnection
    BY <1>0 DEF Connection
  <2>2. Stream(c)' = Stream(c)
    BY <1>0, <1>2, DeliverStream
  <2>3. /\ conn'[c] = q /\ UNCHANGED posted
        /\ \A d \in Conns \ {c} : conn'[d] = conn[d] /\ got'[d] = got[d]
    BY <1>0, <1>2 DEF Deliver, ConnTypeOK
  <2> HIDE DEF q
  <2>4. conn[c].sock # "shut"
    BY <1>0, <1>2, AllReceived DEF Served, Deliver
  <2>5. Served(c)'
    BY <1>0, <2>1, <2>3, <2>4 DEF Served
  <2>6. Fine(c)' /\ Alive(c)'
    BY <1>0, <2>1, <2>2, <2>3, <2>5, SameStream DEF Alive
  <2> QED BY <1>0, <2>3, <2>6, ConnStep
<1>3. CASE WriteDone(c)
  <2> DEFINE e == [conn[c] EXCEPT !.sendingBuffers = <<>>]
             q == IF e.writeBuffers # <<>> THEN DoWrite(e) ELSE e
             s == [q EXCEPT !.closeConnection = e.sentClose]
  <2>1. /\ e \in Connection /\ e.io = conn[c].io /\ e.sock = conn[c].sock
        /\ e.sentClose = conn[c].sentClose
    BY <1>0, FramesConcat DEF Connection
  <2>2. /\ conn'[c] = s /\ UNCHANGED <<posted, got>>
        /\ \A d \in Conns \ {c} : conn'[d] = conn[d]
    BY <1>0, <1>3 DEF WriteDone, ConnTypeOK
  <2>3. Stream(c)' = Stream(c)
    BY <1>0, <1>3, WriteDoneStream DEF Served
  <2> HIDE DEF e
  <2>4. /\ q \in Connection /\ q.io = e.io /\ q.sock = e.sock /\ q.sentClose = e.sentClose
    BY <2>1, DoWriteSame, HelperTypes, TextsAssumption DEF Frames
  <2> HIDE DEF q
  <2>5. s.io = q.io /\ s.sock = q.sock /\ s.sentClose = q.sentClose
        /\ s.closeConnection = e.sentClose
    BY <2>1, <2>4 DEF Connection
  <2> HIDE DEF s
  <2>6. Served(c)'
    BY <1>0, <2>1, <2>2, <2>3, <2>4, <2>5 DEF Served
  <2>7. Fine(c)' /\ Alive(c)'
    BY <1>0, <2>1, <2>2, <2>3, <2>4, <2>5, <2>6, SameStream DEF Alive
  <2> QED BY <1>0, <2>2, <2>7, ConnStep
<1>4. CASE WriteDoneClosing(c)
  <2> DEFINE r == [conn[c] EXCEPT !.sendingBuffers = <<>>, !.closeConnection = TRUE]
  <2>1. /\ r \in Connection /\ r.sock = conn[c].sock
        /\ r.flushed = conn[c].flushed /\ r.writeBuffers = conn[c].writeBuffers
        /\ r.sendingBuffers = <<>>
    BY <1>0, FramesConcat DEF Connection
  <2>2. CheckDestroy(c, r)
    BY <1>4 DEF WriteDoneClosing
  <2> HIDE DEF r
  <2>3. /\ conn[c].closeConnection /\ conn[c].io # "onopen"
        /\ conn[c].flushed \/ conn[c].sock = "shut"
    BY <1>0, <1>4 DEF WriteDoneClosing, Served, Connection
  <2>4. ~Serving
    BY <1>0, <2>3 DEF Served
  <2>5. conn[c].flushed \/ conn[c].sendingBuffers = <<>>
    BY <1>0, <2>3, AllReceived DEF Served
  <2>6. Unsent(r) = Unsent(conn[c])
    BY <2>1, <2>5 DEF Unsent
  <2> QED BY <1>0, <2>1, <2>2, <2>3, <2>4, <2>6, DestroyFine
<1>5. CASE ReadError(c)
  BY <1>0, <1>5 DEF ReadError, Served
<1> QED BY <1>1, <1>2, <1>3, <1>4, <1>5 DEF Io, IoStep

\* onclose, which only the end of a session calls (RouteHandlers.cpp:67-72).
LEMMA OnCloseCore ==
    ASSUME IInv, SessionCore, NEW c \in Conns, OnClose(c), UNCHANGED asked
    PROVE  SessionCore'
<1>0. TypeOK /\ ConnTypeOK /\ conn[c] \in Connection
  BY DEF IInv, TypeOK, ConnTypeOK
<1>1. conn[c].io \in {"onclose", "oncloseReply"}
  BY DEF OnClose, OnCloseMatches, OnCloseClears, OnCloseOther, CloseHandlerReturns
<1>2. Alive(c) /\ conn[c].io = "onclose" /\ ~Serving
  BY <1>1 DEF Alive, SessionCore, ServingInv, Served
<1>3. CASE OnCloseMatches(c)
  <2>1. UNCHANGED <<conn, posted, got, proc, gConn, layers, lossOk, compile, thread>>
    BY <1>3 DEF OnCloseMatches, connVars
  <2>2. Served(c)' /\ Stream(c)' = Stream(c)
    BY <1>2, <2>1
       DEF SessionCore, ServingInv, Served, Serving, NoTraining, Active, Stream, Unsent
  <2>3. Fine(c)' /\ Alive(c)'
    BY <1>2, <2>1, <2>2, SameStream DEF Alive
  <2> QED BY <1>0, <1>2, <2>1, <2>3, ConnStep
<1>4. CASE OnCloseClears(c) \/ OnCloseOther(c)
  <2>1. /\ CloseHandlerReturns(c)
        /\ UNCHANGED <<proc, layers, lossOk, compile, thread>>
    BY <1>4 DEF OnCloseClears, OnCloseOther, serverVars
  <2>2. DeleteIfIdle(c, conn[c])
    BY <1>2, <2>1 DEF CloseHandlerReturns
  <2> QED BY <1>0, <1>2, <2>1, <2>2, DestroyFine
<1> QED BY <1>3, <1>4 DEF OnClose

\* onopen greets, and the first read begins (RouteHandlers.cpp:18-22).
LEMMA GreetCore ==
    ASSUME IInv, SessionCore, NEW c \in Conns, OnOpenGreet(c), UNCHANGED asked
    PROVE  SessionCore'
<1> DEFINE q == [conn[c] EXCEPT !.io = "run", !.isReading = TRUE]
           task == Message("welcome", Null, 0)
<1>0. /\ TypeOK /\ ConnTypeOK /\ conn[c] \in Connection /\ conn[c].io = "onopen"
      /\ UNCHANGED <<got, proc, gConn, layers, lossOk, compile, thread>>
  BY DEF IInv, TypeOK, ConnTypeOK, OnOpenGreet, StartReading, serverVars
<1>1. Alive(c) /\ Served(c) /\ asked = NoJob /\ Serving
  BY <1>0 DEF Alive, SessionCore, ServingInv, Served, Serving
<1>2. /\ q.io = "run" /\ q.sock = conn[c].sock /\ q.sentClose = conn[c].sentClose
      /\ q.closeConnection = conn[c].closeConnection /\ q.flushed = conn[c].flushed
      /\ q.sendingBuffers = conn[c].sendingBuffers /\ q.writeBuffers = conn[c].writeBuffers
  BY <1>0 DEF Connection
<1>3. /\ conn'[c] = q
      /\ \A d \in Conns \ {c} : conn'[d] = conn[d] /\ posted'[d] = posted[d]
  BY <1>0 DEF OnOpenGreet, StartReading, Post, ConnTypeOK
<1> HIDE DEF q
<1>4. task \in Texts \cup {CloseFrame} /\ Post(c, task)
  BY MessageTypes, ServerAssumption DEF OnOpenGreet
<1>5. Unsent(conn'[c]) = Unsent(conn[c])
  BY <1>2, <1>3 DEF Unsent
<1>6. Stream(c)' = Append(Stream(c), task)
  BY <1>0, <1>4, <1>5, PostStream
<1>7. PICK t \in Threads : Stream(c) = SubSeq(Expected(t), 1, Said(c, t))
  BY <1>1 DEF SessionCore, StreamInv
<1>8. Said(c, t) = 1 /\ Said(c, t)' = 2 /\ Expected(t)' = Expected(t)
  BY <1>0, <1>1, <1>2, <1>3 DEF Said, Expected
<1>9. asked \in Jobs \cup {NoJob} /\ asked.epochs \in Nat
  BY JobTypes, ServerAssumption DEF SessionCore
<1>10. SubSeq(Expected(t), 1, 1 + 1) = Append(SubSeq(Expected(t), 1, 1), Expected(t)[1 + 1])
  <2>1. 1 \in 1 .. asked.epochs + 3
    BY <1>9
  <2> QED BY <1>9, <2>1, NextExpected
<1>11. Expected(t)[2] = task
  BY <1>9, ExpectedParts
<1>12. Stream(c)' = SubSeq(Expected(t)', 1, Said(c, t)')
  BY <1>6, <1>7, <1>8, <1>10, <1>11
<1>13. Served(c)'
  BY <1>0, <1>1, <1>2, <1>3 DEF Served, Serving
<1>14. Fine(c)' /\ Alive(c)'
  BY <1>1, <1>2, <1>3, <1>12, <1>13 DEF Fine, OfSession, Alive
<1> QED BY <1>0, <1>1, <1>3, <1>14, ConnStep

\* The client answers the close frame, which comes after all it expects
\* (websocket.h:660-697).
LEMMA AnswerCore ==
    ASSUME IInv, SessionCore, NEW c \in Conns, ClientAnswersClose(c)
    PROVE  SessionCore'
<1>0. /\ TypeOK /\ ConnTypeOK /\ conn[c] \in Connection
      /\ UNCHANGED <<proc, gConn, layers, lossOk, compile, thread, asked>>
      /\ RecvCloseReply(c) /\ Told(c, "close") /\ conn[c].io = "run"
  BY DEF IInv, TypeOK, ConnTypeOK, ClientAnswersClose, serverVars, RecvCloseReply, Receiving
<1>1. Alive(c) /\ Served(c)
  BY <1>0 DEF Alive, SessionCore, ServingInv
<1>2. got[c] = Stream(c) /\ ~Serving
  <2>1. PICK t \in Threads :
           /\ OfSession(t)
           /\ Len(Stream(c)) = Said(c, t)
           /\ \A i \in 1 .. Said(c, t) : Stream(c)[i] = Expected(t)[i]
    BY <1>1, StreamParts
  <2>2. asked \in Jobs \cup {NoJob} /\ asked.epochs \in Nat
    BY JobTypes, ServerAssumption DEF SessionCore
  <2>3. Said(c, t) \in 1 .. asked.epochs + 4
    BY <1>1, <2>1, SaidBounds
  <2>4. PICK i \in 1 .. Len(got[c]) : got[c][i].kind = "close"
    BY <1>0 DEF Told
  <2> DEFINE g == got[c]
             u == Unsent(conn[c])
             p == posted[c]
  <2>5. /\ g \in Seq(Frames) /\ u \in Seq(Frames) /\ p \in Seq(Frames)
        /\ Stream(c) = (g \o u) \o p
    BY <1>0, StreamType DEF Stream
  <2> HIDE DEF g, u, p
  <2>6. /\ g \o u \in Seq(Frames) /\ Len(g \o u) = Len(g) + Len(u)
        /\ \A k \in 1 .. Len(g) + Len(u) :
              (g \o u)[k] = IF k <= Len(g) THEN g[k] ELSE u[k - Len(g)]
    BY <2>5, FramesConcat, FramesParts
  <2>7. /\ Len(Stream(c)) = Len(g \o u) + Len(p)
        /\ \A k \in 1 .. Len(g \o u) + Len(p) :
              Stream(c)[k] = IF k <= Len(g \o u) THEN (g \o u)[k] ELSE p[k - Len(g \o u)]
    BY <2>5, <2>6, FramesParts
  <2>8. /\ Len(g) \in Nat /\ Len(u) \in Nat /\ Len(p) \in Nat
        /\ Len(u) = 0 => u = <<>>
        /\ Len(p) = 0 => p = <<>>
    BY <2>5
  <2>9. i \in 1 .. Len(g) /\ g[i].kind = "close"
    BY <2>4 DEF g
  <2>10. Stream(c)[i] = g[i] /\ i \in 1 .. Said(c, t)
    BY <2>1, <2>6, <2>7, <2>8, <2>9
  <2>11. i = asked.epochs + 4
    <3>1. Expected(t)[i].kind = "close"
      BY <2>1, <2>9, <2>10
    <3>2. i \in 1 .. asked.epochs + 4
      BY <2>2, <2>3, <2>10
    <3> QED BY <2>2, <3>1, <3>2, CloseIsLast
  <2>12. Len(u) = 0 /\ Len(p) = 0
    BY <2>1, <2>2, <2>3, <2>6, <2>7, <2>8, <2>9, <2>11
  <2>13. g = (g \o u) \o p
    BY <2>5, <2>8, <2>12, FramesConcat
  <2>14. ~Serving
    BY <1>1, <2>1, <2>2, <2>3, <2>10, <2>11, SaidBounds
  <2> QED BY <2>5, <2>13, <2>14 DEF g
<1> DEFINE r == [conn[c] EXCEPT !.recvClose = TRUE, !.isReading = FALSE,
                                !.closeConnection = TRUE, !.sock = "shut"]
<1>3. /\ r \in Connection /\ r.sock = "shut" /\ r.io = "run" /\ r.flushed = conn[c].flushed
      /\ r.sendingBuffers = conn[c].sendingBuffers /\ r.writeBuffers = conn[c].writeBuffers
  BY <1>0 DEF Connection
<1>4. \/ DeleteIfIdle(c, r)
      \/ /\ conn' = [conn EXCEPT ![c] = [r EXCEPT !.closeHandlerCalled = TRUE, !.io = "onclose"]]
         /\ UNCHANGED <<posted, got>>
  BY <1>0 DEF RecvCloseReply
<1> HIDE DEF r
<1>5. Unsent(r) = Unsent(conn[c])
  BY <1>3 DEF Unsent
<1>6. /\ \A d \in Conns \ {c} : /\ conn'[d] = conn[d] /\ got'[d] = got[d]
                                /\ posted'[d] = posted[d]
      /\ \/ conn'[c] = NoObject /\ got'[c] = <<>> /\ posted'[c] = <<>>
         \/ /\ UNCHANGED <<posted, got>>
            /\ conn'[c].io \in {"run", "onclose"} /\ conn'[c].sock = "shut"
            /\ Unsent(conn'[c]) = Unsent(r)
  <2>1. CASE DeleteIfIdle(c, r)
    <3>1. \A s \in {"run", "onclose"} :
             LET q == [r EXCEPT !.io = s]
             IN  /\ q.io = s /\ q.sock = "shut" /\ q.flushed = r.flushed
                 /\ q.sendingBuffers = r.sendingBuffers /\ q.writeBuffers = r.writeBuffers
      BY <1>3 DEF Connection
    <3>2. \A s \in {"run", "onclose"} :
             LET q == [r EXCEPT !.io = s]
             IN  q.io = s /\ q.sock = "shut" /\ Unsent(q) = Unsent(r)
      BY <3>1 DEF Unsent
    <3>3. /\ \A d \in Conns \ {c} : /\ conn'[d] = conn[d] /\ got'[d] = got[d]
                                     /\ posted'[d] = posted[d]
          /\ \/ conn'[c] = NoObject /\ got'[c] = <<>> /\ posted'[c] = <<>>
             \/ /\ UNCHANGED <<posted, got>>
                /\ \E s \in {"run", "onclose"} : conn'[c] = [r EXCEPT !.io = s]
      BY <1>0, <1>3, <2>1, Destroyed
    <3>4. ASSUME UNCHANGED <<posted, got>>, NEW s \in {"run", "onclose"},
                 conn'[c] = [r EXCEPT !.io = s]
          PROVE  /\ conn'[c].io \in {"run", "onclose"} /\ conn'[c].sock = "shut"
                 /\ Unsent(conn'[c]) = Unsent(r)
      BY <3>2, <3>4
    <3> QED BY <3>3, <3>4
  <2>2. CASE /\ conn' = [conn EXCEPT ![c] =
                            [r EXCEPT !.closeHandlerCalled = TRUE, !.io = "onclose"]]
             /\ UNCHANGED <<posted, got>>
    <3> DEFINE q == [r EXCEPT !.closeHandlerCalled = TRUE, !.io = "onclose"]
    <3>1. /\ q.io = "onclose" /\ q.sock = "shut" /\ q.flushed = r.flushed
          /\ q.sendingBuffers = r.sendingBuffers /\ q.writeBuffers = r.writeBuffers
      BY <1>3 DEF Connection
    <3>2. conn'[c] = q /\ \A d \in Conns \ {c} : conn'[d] = conn[d]
      BY <1>0, <2>2 DEF ConnTypeOK
    <3> HIDE DEF q
    <3>3. Unsent(q) = Unsent(r)
      BY <3>1 DEF Unsent
    <3> QED BY <2>2, <3>1, <3>2, <3>3
  <2> QED BY <1>4, <2>1, <2>2
<1>7. CASE conn'[c] = NoObject /\ got'[c] = <<>> /\ posted'[c] = <<>>
  <2>1. ~Alive(c)'
    BY <1>7 DEF Alive, NoObject
  <2> QED BY <1>0, <1>1, <1>2, <1>6, <1>7, <2>1, ConnStep
<1>8. CASE /\ UNCHANGED <<posted, got>>
           /\ conn'[c].io \in {"run", "onclose"} /\ conn'[c].sock = "shut"
           /\ Unsent(conn'[c]) = Unsent(r)
  <2>1. Stream(c)' = Stream(c)
    BY <1>5, <1>8, StreamNext DEF Stream
  <2>2. ~Serving'
    BY <1>0, <1>2 DEF Serving, NoTraining, Active
  <2>3. Served(c)'
    BY <1>2, <1>8, <2>1, <2>2 DEF Served
  <2>4. Fine(c)' /\ Alive(c)'
    BY <1>0, <1>1, <1>8, <2>1, <2>3, SameStream DEF Alive
  <2> QED BY <1>0, <1>1, <1>6, <2>4, ConnStep
<1> QED BY <1>6, <1>7, <1>8

\* A client connects after the last session ended (RouteHandlers.cpp:18-22).
LEMMA OpensCore ==
    ASSUME IInv, SessionCore, NEW c \in Conns, ClientOpens(c)
    PROVE  SessionCore'
<1> DEFINE o == [NoObject EXCEPT !.io = "onopen", !.sock = "up"]
           q == Enqueue(o, Hello)
<1>0. /\ TypeOK /\ ConnTypeOK
      /\ UNCHANGED <<posted, got, proc, layers, lossOk, compile, thread>>
      /\ gConn' = c /\ asked' = NoJob /\ NoTraining
      /\ \A d \in Conns : ~Alive(d)
      /\ conn' = [conn EXCEPT ![c] = q]
  BY DEF IInv, TypeOK, ClientOpens, OnOpen, Handshake
<1>1. Hello \in Frames /\ Hello \notin Texts
  BY TextsAssumption DEF Frames
<1>2. /\ o \in Connection /\ o.io = "onopen" /\ o.sock = "up" /\ ~o.sentClose
      /\ ~o.closeConnection /\ ~o.flushed /\ o.sendingBuffers = <<>>
      /\ o.writeBuffers = <<>>
  BY ObjectTypes, FramesConcat DEF NoObject, Connection, IoStates
<1> HIDE DEF o
<1>3. /\ q.io = "onopen" /\ q.sock = "up" /\ ~q.sentClose /\ ~q.closeConnection
  BY <1>1, <1>2, EnqueueSame
<1>4. Unsent(q) = <<Hello>>
  <2>1. Unsent(o) = <<>>
    BY <1>2, FramesConcat DEF Unsent
  <2>2. Unsent(q) = Unsent(o) \o <<Hello>>
    BY <1>1, <1>2, UnsentEnqueue
  <2>3. <<Hello>> \in Seq(Frames)
    BY <1>1, FramesConcat
  <2> QED BY <2>1, <2>2, <2>3, FramesConcat
<1> HIDE DEF q
<1>5. /\ conn'[c] = q
      /\ \A d \in Conns \ {c} : conn'[d] = conn[d]
      /\ got'[c] = <<>> /\ posted'[c] = <<>>
  BY <1>0 DEF ConnTypeOK, SessionCore, OneAtATime
<1>6. Stream(c)' = <<Hello>>
  <2>1. Stream(c)' = (<<>> \o <<Hello>>) \o <<>>
    BY <1>4, <1>5, StreamNext
  <2>2. <<Hello>> \in Seq(Frames)
    BY <1>1, FramesConcat
  <2> QED BY <2>1, <2>2, FramesConcat
<1>7. PICK t \in Threads : thread[t].pc = "idle"
  BY DEF ClientOpens
<1>8. SubSeq(Expected(t)', 1, Said(c, t)') = <<Hello>>
  <2> DEFINE e == ExpectedFor(NoJob, t)
  <2>1. Expected(t)' = e /\ Said(c, t)' = 1
    BY <1>0, <1>3, <1>5 DEF Expected, ExpectedFor, Said
  <2>2. e \in Seq(Frames) /\ Len(e) = NoJob.epochs + 4 /\ e[1] = Hello
    BY ExpectedForParts
  <2>3. NoJob.epochs \in Nat
    BY JobTypes, ServerAssumption
  <2> HIDE DEF e
  <2>4. SubSeq(e, 1, 1) = <<e[1]>>
    BY <2>2, <2>3, FirstFrames
  <2> QED BY <2>1, <2>2, <2>4
<1>9. Served(c)'
  BY <1>0, <1>3, <1>5 DEF Served, Serving
<1>10. \A d \in Conns : Alive(d)' => d = c
  BY <1>0, <1>5 DEF Alive
<1>11. ServingInv' /\ StreamInv'
  BY <1>0, <1>6, <1>8, <1>9, <1>10 DEF ServingInv, StreamInv, OfSession
<1>12. OneAtATime'
  BY <1>0, <1>3, <1>5, <1>10
     DEF SessionCore, OneAtATime, Alive, Active, NoTraining, NoCompiling, Compiling
<1>13. TrainingInv'
  BY <1>0 DEF TrainingInv, NoTraining, Active
<1> QED BY <1>0, <1>11, <1>12, <1>13 DEF SessionCore, NeverCrashes

\* The greeted client asks for a training (RouteHandlers.cpp:24-51).
LEMMA AsksCore ==
    ASSUME IInv, SessionCore, NEW c \in Conns, NEW t \in Threads, NEW job \in Jobs,
           ClientAsks(c, t, job)
    PROVE  SessionCore'
<1> DEFINE new == [Idle EXCEPT !.pc = "start", !.job = job, !.from = c]
<1>0. /\ TypeOK /\ ConnTypeOK
      /\ UNCHANGED <<conn, posted, got, proc, gConn, layers, lossOk, compile>>
      /\ asked = NoJob /\ asked' = job /\ NoCompiling /\ Suits(job)
      /\ conn[c].io = "run" /\ thread[t].pc = "idle"
      /\ thread' = [thread EXCEPT ![t] = new]
  BY DEF IInv, TypeOK, ClientAsks, OnMessage, Receiving, connVars
<1>1. job # NoJob
  BY SessionAssumption
<1>2. Alive(c) /\ Served(c) /\ Serving /\ gConn = c
  BY <1>0 DEF Alive, SessionCore, ServingInv, Served, Serving
<1>3. NoTraining
  BY <1>0 DEF NoTraining, SessionCore, TrainingInv, Trains
<1>4. new.pc = "start" /\ new.job = job /\ new.epoch = 0
  BY IdleTypes DEF ThreadRecord, Idle
<1> HIDE DEF new
<1>5. thread'[t] = new /\ \A u \in Threads \ {t} : thread'[u] = thread[u]
  BY <1>0 DEF TypeOK
<1>6. Active(t)' /\ \A u \in Threads : Active(u)' => u = t
  BY <1>3, <1>4, <1>5 DEF Active, NoTraining
<1>7. ~NoTraining' /\ Serving'
  BY <1>6 DEF NoTraining, Active, Serving
<1>8. TrainingInv'
  <2>1. c # Null
    BY ServerAssumption
  <2>2. Suits(asked)'
    BY <1>0 DEF Suits, Fits, Outputs
  <2>3. Trains(t)'
    BY <1>0, <1>1, <1>2, <1>4, <1>5, <2>1, <2>2 DEF Trains
  <2> QED BY <1>6, <2>3 DEF TrainingInv
<1>9. OneAtATime'
  <2>1. NoCompiling' /\ \A h \in Compilers : ~Compiling(h)'
    BY <1>0 DEF NoCompiling, Compiling
  <2>2. \A u, v \in Threads : Active(u)' /\ Active(v)' => u = v
    BY <1>6
  <2>3. \A d, e \in Conns : Alive(d)' /\ Alive(e)' => d = e
    BY <1>0 DEF SessionCore, OneAtATime, Alive
  <2>4. \A d \in Conns : ~Alive(d)' => got'[d] = <<>> /\ posted'[d] = <<>>
    BY <1>0 DEF SessionCore, OneAtATime, Alive
  <2> QED BY <2>1, <2>2, <2>3, <2>4 DEF OneAtATime
<1>10. ASSUME NEW d \in Conns, Alive(d)' PROVE d = c /\ Served(d)'
  <2>1. d = c
    BY <1>0, <1>2, <1>10 DEF Alive, SessionCore, OneAtATime
  <2>2. Served(c)'
    BY <1>0, <1>2, <1>7 DEF Served
  <2> QED BY <2>1, <2>2
<1>11. PICK u \in Threads : Stream(c) = SubSeq(Expected(u), 1, Said(c, u))
  BY <1>2 DEF SessionCore, StreamInv
<1>12. OfSession(t)'
  BY <1>0, <1>4, <1>5, <1>6 DEF OfSession
<1>13. Said(c, u) = 2 /\ Said(c, t)' = 2
  BY <1>0, <1>1, <1>4, <1>5 DEF Said, Reported
<1>14. SubSeq(Expected(u), 1, 2) = SubSeq(Expected(t)', 1, 2)
  <2> DEFINE e == Expected(u)
             f == Expected(t)'
  <2>1. /\ e \in Seq(Frames) /\ Len(e) = asked.epochs + 4 /\ asked.epochs \in Nat
        /\ e[1] = Hello /\ e[2] = Message("welcome", Null, 0)
    BY ExpectedParts, JobTypes, ServerAssumption DEF SessionCore
  <2>2. /\ f \in Seq(Frames) /\ Len(f) = job.epochs + 4 /\ job.epochs \in Nat
        /\ f[1] = Hello /\ f[2] = Message("welcome", Null, 0)
    <3>1. f = ExpectedFor(job, t)
      BY <1>0 DEF ExpectedFor, Expected
    <3> QED BY <3>1, ExpectedForParts, JobTypes, ServerAssumption
  <2> HIDE DEF e, f
  <2>3. SubSeq(e, 1, 2) = <<e[1], e[2]>> /\ SubSeq(f, 1, 2) = <<f[1], f[2]>>
    BY <2>1, <2>2, FirstFrames
  <2> QED BY <2>1, <2>2, <2>3 DEF e, f
<1>15. Stream(c)' = Stream(c)
  BY <1>0 DEF Stream, Unsent
<1>16. Stream(c)' = SubSeq(Expected(t)', 1, Said(c, t)')
  BY <1>11, <1>13, <1>14, <1>15
<1>17. ServingInv' /\ StreamInv'
  BY <1>10, <1>12, <1>16 DEF ServingInv, StreamInv
<1> QED BY <1>0, <1>8, <1>9, <1>17 DEF SessionCore, NeverCrashes

-----------------------------------------------------------------------------
(* The steps of /compile and of a training *)

\* The connections are as served as before, and so are their streams, while
\* only the layers change.
LEMMA CompileKeeps ==
    ASSUME SessionCore, UNCHANGED <<conn, posted, got, proc, gConn, thread, asked>>
    PROVE  /\ ServingInv' /\ StreamInv' /\ NeverCrashes' /\ asked' \in Jobs \cup {NoJob}
           /\ \A c, d \in Conns : Alive(c)' /\ Alive(d)' => c = d
           /\ \A c \in Conns : ~Alive(c)' => got'[c] = <<>> /\ posted'[c] = <<>>
           /\ \A t, u \in Threads : Active(t)' /\ Active(u)' => t = u
           /\ NoTraining' = NoTraining
<1>1. \A c \in Conns : Stream(c)' = Stream(c)
  BY DEF Stream, Unsent
<1>2. \A t \in Threads : Active(t)' = Active(t)
  BY DEF Active
<1>3. NoTraining' = NoTraining /\ Serving' = Serving
  BY <1>2 DEF NoTraining, Serving
<1>4. ServingInv'
  <2> SUFFICES ASSUME NEW c \in Conns, Alive(c)' PROVE Served(c)'
    BY DEF ServingInv
  <2> QED BY <1>1, <1>3 DEF SessionCore, ServingInv, Served, Alive
<1>5. StreamInv'
  <2> SUFFICES ASSUME NEW c \in Conns, Alive(c)'
               PROVE  \E t \in Threads :
                         /\ OfSession(t)'
                         /\ Stream(c)' = SubSeq(Expected(t)', 1, Said(c, t)')
    BY DEF StreamInv
  <2>1. PICK t \in Threads : OfSession(t) /\ Stream(c) = SubSeq(Expected(t), 1, Said(c, t))
    BY DEF SessionCore, StreamInv, Alive
  <2>2. OfSession(t)' /\ Expected(t)' = Expected(t) /\ Said(c, t)' = Said(c, t)
    BY <1>2, <1>3, <2>1 DEF OfSession, Expected, Said, Reported
  <2> QED BY <1>1, <2>1, <2>2
<1> QED BY <1>3, <1>4, <1>5 DEF SessionCore, NeverCrashes, OneAtATime, Active, Alive

\* The model of a worker in /compile stays its own.
LEMMA SameModel ==
    ASSUME NEW r \in CompileRecord, NEW size \in Nat
    PROVE  [r EXCEPT !.next = @ + 1, !.in = size].model = r.model
  BY DEF CompileRecord

\* /compile while no training runs (RouteHandlers.cpp:75-113,
\* NeuralNetwork.cpp:267-296): alone, it cannot race.
LEMMA CompileCore ==
    ASSUME IInv, SessionCore, NEW h \in Compilers, UNCHANGED asked,
           \/ \E model \in Models : ClientCompiles(h, model)
           \/ CompileStep(h)
    PROVE  SessionCore'
<1>0. compile \in [Compilers -> CompileRecord]
  BY DEF IInv, TypeOK
<1>1. ~CompileNoReturn(h) /\ ~CompileRace(h)
  <2>1. ~CompileNoReturn(h)
    BY DEF CompileNoReturn, SessionCore, OneAtATime
  <2>2. ASSUME Compiling(h) PROVE ~LayersInUse(h)
    <3>1. NoTraining
      BY <2>2 DEF SessionCore, OneAtATime, NoCompiling
    <3>2. \A t \in Threads : ~InBatch(t)
      BY <3>1 DEF NoTraining, Active, InBatch
    <3>3. \A k \in Compilers \ {h} : ~Compiling(k)
      BY <2>2 DEF SessionCore, OneAtATime
    <3> QED BY <3>2, <3>3 DEF LayersInUse
  <2> QED BY <2>1, <2>2 DEF CompileRace
<1>2. /\ UNCHANGED <<conn, posted, got, proc, gConn, thread, asked>>
      /\ \A k \in Compilers \ {h} : compile'[k] = compile[k]
  <2>1. ASSUME NEW model \in Models, ClientCompiles(h, model)
        PROVE  /\ UNCHANGED <<conn, posted, got, proc, gConn, thread>>
               /\ \A k \in Compilers \ {h} : compile'[k] = compile[k]
    BY <1>0, <2>1 DEF ClientCompiles, CompileStart, connVars
  <2>2. CASE CompileStep(h)
    BY <1>0, <1>1, <2>2
       DEF CompileStep, CompilePush, CompileBadActivation, CompileLoss, CompileEnds, connVars
  <2> QED BY <2>1, <2>2
<1>3. /\ NoTraining /\ \A k \in Compilers \ {h} : ~Compiling(k)
      /\ compile'[h].next # 0 => compile'[h].model.loss # "noReturn"
  <2>1. ASSUME NEW model \in Models, ClientCompiles(h, model)
        PROVE  /\ NoTraining /\ NoCompiling
               /\ compile'[h].model.loss # "noReturn"
    BY <1>0, <2>1 DEF ClientCompiles, CompileStart
  <2>2. ASSUME CompileStep(h)
        PROVE  /\ Compiling(h)
               /\ compile'[h].next # 0 => compile'[h].model = compile[h].model
    <3>1. CASE CompilePush(h)
      <4> DEFINE r == compile[h]
                 size == r.model.sizes[r.next]
                 new == [r EXCEPT !.next = @ + 1, !.in = size]
      <4>1. compile' = [compile EXCEPT ![h] = new] /\ Compiling(h)
        BY <3>1 DEF CompilePush
      <4>2. new.model = r.model
        <5>1. r \in CompileRecord /\ size \in Nat /\ r.next + 1 \in Nat
          BY <1>0, <3>1, PushedSize DEF IInv, TInv, CompileRecord
        <5> HIDE DEF r, size
        <5>2. [r EXCEPT !.next = @ + 1, !.in = size].model = r.model
          BY <5>1, SameModel
        <5> QED BY <5>2
      <4> HIDE DEF new
      <4>3. compile'[h] = new
        BY <1>0, <4>1
      <4> QED BY <4>1, <4>2, <4>3
    <3>2. CASE CompileBadActivation(h) \/ CompileLoss(h)
      <4>1. Compiling(h) /\ CompileEnds(h)
        BY <3>2 DEF CompileBadActivation, CompileLoss
      <4>2. compile'[h] = NoCompile
        BY <1>0, <4>1 DEF CompileEnds
      <4> QED BY <4>1, <4>2 DEF NoCompile
    <3> QED BY <1>1, <2>2, <3>1, <3>2 DEF CompileStep
  <2>3. ASSUME Compiling(h)
        PROVE  /\ NoTraining /\ \A k \in Compilers \ {h} : ~Compiling(k)
               /\ compile[h].model.loss # "noReturn"
    BY <2>3 DEF SessionCore, OneAtATime, NoCompiling
  <2>4. NoCompiling => \A k \in Compilers \ {h} : ~Compiling(k)
    BY DEF NoCompiling
  <2> QED BY <2>1, <2>2, <2>3, <2>4
<1>4. /\ ServingInv' /\ StreamInv' /\ NeverCrashes' /\ asked' \in Jobs \cup {NoJob}
      /\ \A c, d \in Conns : Alive(c)' /\ Alive(d)' => c = d
      /\ \A c \in Conns : ~Alive(c)' => got'[c] = <<>> /\ posted'[c] = <<>>
      /\ \A t, u \in Threads : Active(t)' /\ Active(u)' => t = u
      /\ NoTraining'
  BY <1>2, <1>3, CompileKeeps
<1>5. \A k \in Compilers : Compiling(k)' => k = h
  BY <1>2, <1>3 DEF Compiling
<1>6. OneAtATime'
  BY <1>3, <1>4, <1>5 DEF OneAtATime, Compiling
<1>7. TrainingInv'
  BY <1>4 DEF TrainingInv, NoTraining
<1> QED BY <1>4, <1>6, <1>7 DEF SessionCore

\* A step of the training that leaves it running or ends it, and posts the
\* next of the expected messages or none.
LEMMA ThreadCore ==
    ASSUME IInv, SessionCore, NEW t \in Threads, Active(t), NEW new, ThreadStep(t, new),
           UNCHANGED asked, new.job = asked,
           \/ UNCHANGED posted /\ Reported(new) = Reported(thread[t])
           \/ /\ Post(gConn, Expected(t)[Reported(thread[t]) + 1])
              /\ Reported(thread[t]) \in 1 .. asked.epochs + 3
              /\ Reported(new) = Reported(thread[t]) + 1,
           \/ /\ new.pc \notin {"idle", "done"}
              /\ new.pc \notin {"start", "call"} => new.ws = gConn
              /\ new.pc \in {"send", "close"} => new.reg = gConn
           \/ new.pc = "done"
    PROVE  SessionCore'
<1>0. /\ TypeOK /\ ConnTypeOK /\ UNCHANGED <<conn, got, proc, gConn, layers, lossOk, compile>>
      /\ asked \in Jobs \cup {NoJob} /\ asked.epochs \in Nat
      /\ thread \in [Threads -> ThreadRecord]
  BY JobTypes, ServerAssumption DEF IInv, TypeOK, ThreadStep, SessionCore
<1>1. thread'[t] = new /\ \A u \in Threads \ {t} : thread'[u] = thread[u] /\ ~Active(u)
  BY <1>0 DEF ThreadStep, SessionCore, OneAtATime
<1>2. Trains(t) /\ asked # NoJob /\ gConn # Null /\ Serving
  BY DEF SessionCore, TrainingInv, Trains, Serving, NoTraining
<1>3. Alive(gConn) /\ gConn \in Conns
  BY <1>0, <1>2 DEF IInv, RegisteredInv, TypeOK
<1>4. \A u \in Threads \ {t} : ~Active(u)'
  BY <1>1 DEF Active
<1>5. \A c \in Conns : Alive(c)' = Alive(c) /\ (Alive(c) => c = gConn)
  BY <1>0, <1>3 DEF Alive, SessionCore, OneAtATime
<1>6. OneAtATime'
  <2>1. NoCompiling' /\ \A h \in Compilers : ~Compiling(h)'
    BY <1>0 DEF SessionCore, OneAtATime, NoTraining, NoCompiling, Compiling
  <2>2. \A u, v \in Threads : Active(u)' /\ Active(v)' => u = v
    BY <1>4
  <2>3. \A d, e \in Conns : Alive(d)' /\ Alive(e)' => d = e
    BY <1>5
  <2>4. ASSUME NEW d \in Conns, ~Alive(d)' PROVE got'[d] = <<>> /\ posted'[d] = <<>>
    <3>1. ~Alive(d) /\ d # gConn
      BY <1>3, <1>5, <2>4
    <3>2. posted'[d] = posted[d] /\ got'[d] = got[d]
      BY <1>0, <3>1 DEF Post, ConnTypeOK
    <3> QED BY <3>1, <3>2 DEF SessionCore, OneAtATime
  <2> QED BY <2>1, <2>2, <2>3, <2>4 DEF OneAtATime
<1>7. TrainingInv'
  <2>1. ASSUME Active(t)' PROVE Trains(t)'
    BY <1>0, <1>1, <1>2, <2>1 DEF Active, Trains, Suits, Fits, Outputs
  <2> QED BY <1>4, <2>1 DEF TrainingInv
<1>c. PICK c \in Conns : c = gConn
  BY <1>3
<1>8. OfSession(t)'
  <2>1. new.pc = "done" => NoTraining'
    BY <1>1, <1>4 DEF NoTraining, Active
  <2> QED BY <1>1, <2>1 DEF OfSession, Active
<1>9. PICK u \in Threads : OfSession(u) /\ Stream(c) = SubSeq(Expected(u), 1, Said(c, u))
  BY <1>3, <1>c DEF SessionCore, StreamInv
<1>10. u = t
  BY <1>1, <1>2, <1>9 DEF OfSession, Serving
<1>11. Served(c)
  BY <1>3, <1>c DEF SessionCore, ServingInv
<1>12. /\ Said(c, t) = Reported(thread[t]) /\ Said(c, t)' = Reported(new)
       /\ Expected(t)' = Expected(t)
  BY <1>0, <1>1, <1>2, <1>11 DEF Said, Served, Expected, Reported
<1>13. Stream(c)' = SubSeq(Expected(t), 1, Reported(new))
  <2>1. CASE UNCHANGED posted /\ Reported(new) = Reported(thread[t])
    <3>1. Stream(c)' = Stream(c)
      BY <1>0, <2>1 DEF Stream, Unsent
    <3> QED BY <1>9, <1>10, <1>12, <2>1, <3>1
  <2>2. CASE /\ Post(gConn, Expected(t)[Reported(thread[t]) + 1])
             /\ Reported(thread[t]) \in 1 .. asked.epochs + 3
             /\ Reported(new) = Reported(thread[t]) + 1
    <3> DEFINE n == Reported(thread[t])
               task == Expected(t)[n + 1]
    <3>1. task \in Texts \cup {CloseFrame}
      BY <1>0, <2>2, ExpectedTask
    <3>2. Stream(c)' = Append(Stream(c), task)
      BY <1>0, <1>c, <2>2, <3>1, PostStream
    <3>3. SubSeq(Expected(t), 1, n + 1) = Append(SubSeq(Expected(t), 1, n), task)
      BY <1>0, <2>2, NextExpected
    <3> QED BY <1>9, <1>10, <1>12, <2>2, <3>2, <3>3
  <2> QED BY <2>1, <2>2
<1>14. Served(c)'
  <2>1. Serving' => Serving
    BY <1>2
  <2> QED BY <1>0, <1>2, <1>11, <2>1 DEF Served
<1>15. ServingInv' /\ StreamInv'
  <2>1. \A d \in Conns : Alive(d)' => d = c
    BY <1>5, <1>c
  <2>2. Stream(c)' = SubSeq(Expected(t)', 1, Said(c, t)')
    BY <1>12, <1>13
  <2> QED BY <1>8, <1>14, <2>1, <2>2 DEF ServingInv, StreamInv
<1> QED BY <1>0, <1>6, <1>7, <1>15 DEF SessionCore, NeverCrashes

\* What a training of a session knows, and what cannot happen to it.
LEMMA TrainingFacts ==
    ASSUME IInv, SessionCore, NEW t \in Threads, Active(t)
    PROVE  /\ thread[t] \in ThreadRecord /\ EpochOK(thread[t]) /\ Trains(t)
           /\ asked.epochs \in 0 .. MaxEpochs /\ MaxEpochs \in Nat
           /\ thread[t].epoch \in Nat /\ thread[t].batch \in Nat
           /\ gConn \in Conns /\ Alive(gConn)
           /\ ~ThreadThrows(t) /\ ~ThreadUndefined(t)
<1>1. thread[t] \in ThreadRecord /\ EpochOK(thread[t]) /\ Trains(t)
  BY DEF IInv, TypeOK, WorkInv, SessionCore, TrainingInv
<1>2. thread[t].epoch \in Nat /\ thread[t].batch \in Nat
  BY <1>1 DEF ThreadRecord
<1>3. gConn \in Conns /\ Alive(gConn)
  BY <1>1 DEF Trains, IInv, TypeOK, RegisteredInv
<1>4. asked.epochs \in 0 .. MaxEpochs /\ MaxEpochs \in Nat
  BY JobTypes, ServerAssumption DEF SessionCore
<1>5. Suits(thread[t].job)
  BY <1>1 DEF Trains
<1>6. ~ThreadThrows(t)
  BY <1>5 DEF ThreadThrows, Suits
<1>7. ~LayersInUse(t)
  <2>1. NoCompiling
    BY DEF SessionCore, OneAtATime, NoTraining
  <2>2. \A u \in Threads \ {t} : ~InBatch(u)
    BY DEF SessionCore, OneAtATime, Active, InBatch
  <2> QED BY <2>1, <2>2 DEF LayersInUse, NoCompiling
<1>8. \A u \in Threads \ {t} : thread[u].pc # "call"
  BY DEF SessionCore, OneAtATime, Active
<1>9. ~(thread[t].job.classes > Outputs(thread[t].job))
  <2> DEFINE n == thread[t].job.classes
             k == Outputs(thread[t].job)
  <2>1. n <= k
    BY <1>5 DEF Suits
  <2>2. n \in Nat
    BY <1>1, ServerAssumption DEF ThreadRecord, JobsAssumption, NoJob
  <2>3. k \in Nat
    <3>1. layers # <<>> /\ layers \in Seq(Layer)
      BY <1>5 DEF Suits, IInv, TypeOK
    <3>2. Len(layers) \in 1 .. Len(layers)
      BY <3>1
    <3>3. layers[Len(layers)] \in Layer
      BY <3>1, <3>2, ElementOfSeq
    <3>4. layers[Len(layers)].out \in Nat
      BY <3>3 DEF Layer
    <3> QED BY <3>1, <3>4 DEF Outputs
  <2> HIDE DEF n, k
  <2>4. ~(n > k)
    BY <2>1, <2>2, <2>3
  <2> QED BY <2>4 DEF n, k
<1>10. ~ThreadUndefined(t)
  BY <1>5, <1>7, <1>8, <1>9 DEF ThreadUndefined, Suits
<1> QED BY <1>1, <1>2, <1>3, <1>4, <1>6, <1>10

\* A call through the registered connection posts its task.
LEMMA CallPosts ==
    ASSUME gConn \in Conns, Alive(gConn), NEW task, NEW t, NEW new,
           CallConn(gConn, task, t, new)
    PROVE  Post(gConn, task) /\ ThreadStep(t, new)
<1>1. gConn # Null
  BY ServerAssumption
<1> QED BY <1>1 DEF CallConn

\* Each step of a training thread (RouteHandlers.cpp:52-59,
\* NeuralNetwork.cpp:21-71).
LEMMA TrainingCore ==
    ASSUME IInv, SessionCore, NEW t \in Threads, Training(t), UNCHANGED asked
    PROVE  SessionCore'
<1> DEFINE r == thread[t]
<1>1. Active(t)
  BY DEF Training, ThreadStart, ThreadCall, ThreadForward, ThreadThrows, ThreadUndefined,
         ThreadBackward, ThreadReport, ThreadCheck, ThreadLoad, ThreadSend, ThreadClose,
         Active
<1>2. /\ r \in ThreadRecord /\ EpochOK(r) /\ Trains(t)
      /\ asked.epochs \in 0 .. MaxEpochs /\ MaxEpochs \in Nat
      /\ r.epoch \in Nat /\ r.batch \in Nat
      /\ gConn \in Conns /\ Alive(gConn)
      /\ ~ThreadThrows(t) /\ ~ThreadUndefined(t)
  BY <1>1, TrainingFacts
<1>3. r.job = asked /\ asked \in Jobs \cup {NoJob} /\ gConn # Null
  BY <1>2 DEF Trains, SessionCore
<1>4. Finished(t).pc = "done" /\ Finished(t).job = asked
  <2>1. /\ [Idle EXCEPT !.pc = "done", !.job = r.job].pc = "done"
        /\ [Idle EXCEPT !.pc = "done", !.job = r.job].job = r.job
    BY <1>2, IdleTypes DEF ThreadRecord, ThreadStates, Idle
  <2> QED BY <1>3, <2>1 DEF Finished
<1>5. CASE ThreadStart(t)
  <2> DEFINE new == [r EXCEPT !.pc = "call"]
  <2>1. new.pc = "call" /\ new.job = asked /\ new.epoch = r.epoch
    BY <1>2, <1>3 DEF ThreadRecord
  <2>2. ThreadStep(t, new) /\ UNCHANGED posted /\ r.pc = "start"
    BY <1>3, <1>5 DEF ThreadStart
  <2> HIDE DEF new
  <2>3. Reported(new) = Reported(r)
    BY <2>1, <2>2 DEF Reported
  <2> QED BY <1>1, <2>1, <2>2, <2>3, ThreadCore
<1>6. CASE ThreadCall(t)
  <2> DEFINE new == [r EXCEPT !.ws = gConn,
                              !.pc = IF r.job.epochs = 0 THEN "check" ELSE "forward"]
  <2>1. /\ new.pc \in {"check", "forward"} /\ new.job = asked /\ new.epoch = r.epoch
        /\ new.ws = gConn
    BY <1>2, <1>3 DEF ThreadRecord
  <2>2. ThreadStep(t, new) /\ UNCHANGED posted /\ r.pc = "call"
    BY <1>6 DEF ThreadCall
  <2> HIDE DEF new
  <2>3. Reported(new) = Reported(r)
    BY <2>1, <2>2 DEF Reported
  <2> QED BY <1>1, <2>1, <2>2, <2>3, ThreadCore
<1>7. CASE ThreadForward(t)
  <2> DEFINE new == [r EXCEPT !.pc = "backward"]
  <2>1. new.pc = "backward" /\ new.job = asked /\ new.epoch = r.epoch /\ new.ws = r.ws
    BY <1>2, <1>3 DEF ThreadRecord
  <2>2. ThreadStep(t, new) /\ UNCHANGED posted /\ r.pc = "forward"
    BY <1>7 DEF ThreadForward
  <2> HIDE DEF new
  <2>3. Reported(new) = Reported(r) /\ new.ws = gConn
    BY <1>2, <2>1, <2>2 DEF Reported, Trains
  <2> QED BY <1>1, <2>1, <2>2, <2>3, ThreadCore
<1>8. CASE ThreadBackward(t)
  <2> DEFINE more == [r EXCEPT !.pc = "forward", !.batch = r.batch + 1]
             over == [r EXCEPT !.pc = "report", !.batch = 0, !.epoch = r.epoch + 1]
  <2>1. /\ more.pc = "forward" /\ more.job = asked /\ more.epoch = r.epoch
        /\ more.ws = r.ws
        /\ over.pc = "report" /\ over.job = asked /\ over.epoch = r.epoch + 1
        /\ over.ws = r.ws
    BY <1>2, <1>3 DEF ThreadRecord
  <2>2. /\ ThreadStep(t, more) \/ ThreadStep(t, over)
        /\ UNCHANGED posted /\ r.pc = "backward"
    BY <1>8 DEF ThreadBackward
  <2> HIDE DEF more, over
  <2>3. /\ Reported(more) = Reported(r) /\ more.ws = gConn
        /\ Reported(over) = Reported(r) /\ over.ws = gConn
    BY <1>2, <2>1, <2>2 DEF Reported, Trains
  <2> QED BY <1>1, <2>1, <2>2, <2>3, ThreadCore
<1>9. CASE ThreadReport(t)
  <2> DEFINE new == [r EXCEPT !.pc = IF r.epoch < r.job.epochs THEN "forward" ELSE "check"]
  <2>1. /\ new.pc \in {"forward", "check"} /\ new.job = asked /\ new.epoch = r.epoch
        /\ new.ws = r.ws
    BY <1>2, <1>3 DEF ThreadRecord
  <2>2. r.pc = "report" /\ r.ws = gConn
    BY <1>2, <1>9 DEF ThreadReport, Trains
  <2>3. CallConn(gConn, Message("epoch", t, r.epoch), t, new)
    BY <1>3, <1>9, <2>2 DEF ThreadReport
  <2> HIDE DEF new
  <2>4. Post(gConn, Message("epoch", t, r.epoch)) /\ ThreadStep(t, new)
    BY <1>2, <2>3, CallPosts
  <2>5. Reported(r) = r.epoch + 1 /\ Reported(new) = r.epoch + 2
    BY <2>1, <2>2 DEF Reported
  <2>6. r.epoch \in 1 .. asked.epochs
    BY <1>2, <1>3, <2>2 DEF EpochOK
  <2>7. Expected(t)[r.epoch + 2] = Message("epoch", t, r.epoch)
    BY <1>3, <2>6, ExpectedParts
  <2>8. /\ Reported(r) \in 1 .. asked.epochs + 3 /\ Reported(new) = Reported(r) + 1
        /\ Reported(r) + 1 = r.epoch + 2
    BY <1>2, <2>5, <2>6
  <2> QED BY <1>1, <2>1, <2>2, <2>4, <2>7, <2>8, ThreadCore
<1>10. CASE ThreadCheck(t)
  <2> DEFINE new == [r EXCEPT !.pc = "loadSend"]
  <2>1. new.pc = "loadSend" /\ new.job = asked /\ new.epoch = r.epoch /\ new.ws = r.ws
    BY <1>2, <1>3 DEF ThreadRecord
  <2>2. ThreadStep(t, new) /\ UNCHANGED posted /\ r.pc = "check"
    BY <1>3, <1>10 DEF ThreadCheck
  <2> HIDE DEF new
  <2>3. Reported(new) = Reported(r) /\ new.ws = gConn
    BY <1>2, <2>1, <2>2 DEF Reported, Trains
  <2> QED BY <1>1, <2>1, <2>2, <2>3, ThreadCore
<1>11. CASE ThreadLoad(t)
  <2> DEFINE new == [r EXCEPT !.reg = gConn,
                              !.pc = IF r.pc = "loadSend" THEN "send" ELSE "close"]
  <2>1. /\ new.pc = IF r.pc = "loadSend" THEN "send" ELSE "close"
        /\ new.job = asked /\ new.epoch = r.epoch /\ new.ws = r.ws /\ new.reg = gConn
    BY <1>2, <1>3 DEF ThreadRecord
  <2>2. ThreadStep(t, new) /\ UNCHANGED posted /\ r.pc \in {"loadSend", "loadClose"}
    BY <1>11 DEF ThreadLoad
  <2> HIDE DEF new
  <2>3. Reported(new) = Reported(r) /\ new.ws = gConn
    BY <1>2, <2>1, <2>2 DEF Reported, Trains
  <2> QED BY <1>1, <2>1, <2>2, <2>3, ThreadCore
<1>12. CASE ThreadSend(t)
  <2> DEFINE new == [r EXCEPT !.pc = "loadClose"]
  <2>1. new.pc = "loadClose" /\ new.job = asked /\ new.epoch = r.epoch /\ new.ws = r.ws
    BY <1>2, <1>3 DEF ThreadRecord
  <2>2. r.pc = "send" /\ r.ws = gConn /\ r.reg = gConn
    BY <1>2, <1>12 DEF ThreadSend, Trains
  <2>3. CallConn(gConn, Message("final", t, 0), t, new)
    BY <1>12, <2>2 DEF ThreadSend
  <2> HIDE DEF new
  <2>4. Post(gConn, Message("final", t, 0)) /\ ThreadStep(t, new)
    BY <1>2, <2>3, CallPosts
  <2>5. r.epoch = asked.epochs
    BY <1>2, <1>3, <2>2 DEF EpochOK
  <2>6. Reported(r) = asked.epochs + 2 /\ Reported(new) = asked.epochs + 3
    BY <2>1, <2>2, <2>5 DEF Reported
  <2>7. Expected(t)[asked.epochs + 3] = Message("final", t, 0)
    BY <1>3, ExpectedParts
  <2>8. /\ Reported(r) \in 1 .. asked.epochs + 3 /\ Reported(new) = Reported(r) + 1
        /\ Reported(r) + 1 = asked.epochs + 3
    BY <1>2, <2>6
  <2> QED BY <1>1, <2>1, <2>2, <2>4, <2>7, <2>8, ThreadCore
<1>13. CASE ThreadClose(t)
  <2> DEFINE new == Finished(t)
  <2>1. r.pc = "close" /\ r.reg = gConn
    BY <1>2, <1>13 DEF ThreadClose, Trains
  <2>2. CallConn(gConn, CloseFrame, t, new)
    BY <1>13, <2>1 DEF ThreadClose
  <2>3. Post(gConn, CloseFrame) /\ ThreadStep(t, new)
    BY <1>2, <2>2, CallPosts
  <2>4. r.epoch = asked.epochs
    BY <1>2, <1>3, <2>1 DEF EpochOK
  <2>5. Reported(r) = asked.epochs + 3 /\ Reported(new) = asked.epochs + 4
    BY <1>4, <2>1, <2>4 DEF Reported
  <2>6. Expected(t)[asked.epochs + 4] = CloseFrame
    BY <1>3, ExpectedParts
  <2>7. /\ Reported(r) \in 1 .. asked.epochs + 3 /\ Reported(new) = Reported(r) + 1
        /\ Reported(r) + 1 = asked.epochs + 4
    BY <1>2, <2>5
  <2> HIDE DEF new
  <2> QED BY <1>1, <1>4, <2>3, <2>6, <2>7, ThreadCore DEF new
<1> QED BY <1>2, <1>5, <1>6, <1>7, <1>8, <1>9, <1>10, <1>11, <1>12, <1>13 DEF Training

-----------------------------------------------------------------------------
(* The invariant, and what follows *)

\* Before the first client there is nothing to keep in order.
LEMMA InitSession == SessionInit => SessionCore
<1> SUFFICES ASSUME SessionInit PROVE SessionCore
  OBVIOUS
<1>1. \A c \in Conns : ~Alive(c) /\ got[c] = <<>> /\ posted[c] = <<>>
  BY DEF SessionInit, Init, ConnInit, Alive, NoObject
<1>2. \A t \in Threads : ~Active(t)
  BY DEF SessionInit, Init, Active, Idle
<1>3. \A h \in Compilers : ~Compiling(h)
  BY DEF SessionInit, Init, Compiling, NoCompile
<1>4. OneAtATime
  BY <1>1, <1>2, <1>3 DEF OneAtATime, NoTraining
<1>5. TrainingInv /\ ServingInv /\ StreamInv
  BY <1>1, <1>2 DEF TrainingInv, ServingInv, StreamInv
<1> QED BY <1>4, <1>5 DEF SessionCore, SessionInit, Init, NeverCrashes

\* A step of something else changes nothing of it.
LEMMA StutterSession ==
    ASSUME SessionCore, UNCHANGED sessionVars
    PROVE  SessionCore'
<1>1. UNCHANGED <<conn, posted, got, proc, gConn, layers, lossOk, compile, thread, asked>>
  BY DEF sessionVars, vars, connVars, serverVars
<1>2. /\ ServingInv' /\ StreamInv' /\ NeverCrashes' /\ asked' \in Jobs \cup {NoJob}
      /\ \A c, d \in Conns : Alive(c)' /\ Alive(d)' => c = d
      /\ \A c \in Conns : ~Alive(c)' => got'[c] = <<>> /\ posted'[c] = <<>>
      /\ \A t, u \in Threads : Active(t)' /\ Active(u)' => t = u
      /\ NoTraining' = NoTraining
  BY <1>1, CompileKeeps
<1>3. OneAtATime'
  BY <1>1, <1>2 DEF SessionCore, OneAtATime, NoCompiling, Compiling
<1>4. TrainingInv'
  BY <1>1, TrainingKept DEF SessionCore
<1> QED BY <1>2, <1>3, <1>4 DEF SessionCore

\* Every step of a session keeps its discipline.
LEMMA NextSession ==
    ASSUME IInv, SessionCore, [SessionNext]_sessionVars
    PROVE  SessionCore'
<1>1. CASE UNCHANGED sessionVars
  BY <1>1, StutterSession
<1>2. ASSUME NEW c \in Conns, ClientOpens(c) PROVE SessionCore'
  BY <1>2, OpensCore
<1>3. ASSUME NEW c \in Conns, NEW t \in Threads, NEW job \in Jobs, ClientAsks(c, t, job)
      PROVE  SessionCore'
  BY <1>3, AsksCore
<1>4. ASSUME NEW c \in Conns, ClientAnswersClose(c) PROVE SessionCore'
  BY <1>4, AnswerCore
<1>5. ASSUME NEW h \in Compilers, NEW model \in Models, ClientCompiles(h, model)
      PROVE  SessionCore'
  <2>1. UNCHANGED asked
    BY <1>5 DEF ClientCompiles
  <2> QED BY <1>5, <2>1, CompileCore
<1>6. ASSUME NEW c \in Conns, ConnectionSteps(c) PROVE SessionCore'
  BY <1>6, GreetCore, OnCloseCore, IoCore DEF ConnectionSteps
<1>7. ASSUME NEW h \in Compilers, CompilerSteps(h) PROVE SessionCore'
  BY <1>7, CompileCore DEF CompilerSteps
<1>8. ASSUME NEW t \in Threads, TrainingSteps(t) PROVE SessionCore'
  BY <1>8, TrainingCore DEF TrainingSteps
<1> QED BY <1>1, <1>2, <1>3, <1>4, <1>5, <1>6, <1>7, <1>8 DEF SessionNext

\* SessionInv is an inductive invariant of the sessions: one connection, one
\* training or one compile at a time; the thread's pointers are the registered
\* connection; the stream to the client is a beginning of what it expects
\* (RouteHandlers.cpp:18-72, NeuralNetwork.cpp:21-71, websocket.h:660-797).
THEOREM SessionInductive == SessionSpec => []SessionInv
<1>1. SessionInit => SessionCore
  BY InitSession
<1>2. IInv /\ SessionCore /\ [SessionNext]_sessionVars => SessionCore'
  BY NextSession
<1>3. SessionCore /\ IInv => SessionInv
  BY DEF SessionCore, SessionInv
<1>4. SessionSpec => []IInv
  BY SessionIsServer, Inductive, PTL
<1> QED BY <1>1, <1>2, <1>3, <1>4, PTL DEF SessionSpec

\* Under clients that take turns, ask for what suits the network and stay to
\* the end, the process has no way to die: no size mismatch, no null or freed
\* connection, no race (RouteHandlers.cpp:52-59, NeuralNetwork.cpp:21-71).
THEOREM NeverSessionCrashes == SessionSpec => []NeverCrashes
<1>1. SessionInv => NeverCrashes
  BY DEF SessionInv
<1> QED BY <1>1, SessionInductive, PTL

\* Two sequences with the same elements, one of them the beginning of a third.
LEMMA BeginningOf ==
    ASSUME NEW s \in Seq(Frames), NEW e \in Seq(Frames), Len(s) <= Len(e),
           \A i \in 1 .. Len(s) : s[i] = e[i]
    PROVE  s = SubSeq(e, 1, Len(s))
<1> DEFINE b == SubSeq(e, 1, Len(s))
<1>1. b \in Seq(Frames) /\ Len(b) = Len(s) /\ \A i \in 1 .. Len(s) : b[i] = e[i]
  OBVIOUS
<1> HIDE DEF b
<1>2. s = b
  BY <1>1, SeqEqual
<1> QED BY <1>2 DEF b

\* A client is told exactly what it expects, in order and without a gap: the
\* upgrade, the welcome, one message per epoch, the final result, the close
\* frame (RouteHandlers.cpp:21, 54-57; NeuralNetwork.cpp:64-67).
THEOREM ExactlyAsExpected == SessionSpec => []ToldAsExpected
<1>1. ASSUME SessionInv PROVE ToldAsExpected
  <2> SUFFICES ASSUME NEW c \in Conns, got[c] # <<>>
               PROVE  \E t \in Threads :
                         /\ Len(got[c]) <= Len(Expected(t))
                         /\ got[c] = SubSeq(Expected(t), 1, Len(got[c]))
    BY DEF ToldAsExpected
  <2>1. IInv /\ SessionCore /\ ConnTypeOK /\ asked \in Jobs \cup {NoJob}
    BY <1>1 DEF SessionInv, SessionCore, IInv, TypeOK
  <2>2. Alive(c)
    BY <2>1 DEF SessionCore, OneAtATime
  <2>3. PICK t \in Threads :
           /\ OfSession(t)
           /\ Len(Stream(c)) = Said(c, t)
           /\ \A i \in 1 .. Said(c, t) : Stream(c)[i] = Expected(t)[i]
    BY <2>1, <2>2, StreamParts
  <2>4. Said(c, t) \in 1 .. asked.epochs + 4 /\ asked.epochs \in Nat
    BY <2>1, <2>2, <2>3, SaidBounds, JobTypes, ServerAssumption
  <2>5. Expected(t) \in Seq(Frames) /\ Len(Expected(t)) = asked.epochs + 4
    BY <2>1, ExpectedParts
  <2>6. /\ Len(got[c]) \in Nat /\ Len(got[c]) <= Said(c, t)
        /\ \A i \in 1 .. Len(got[c]) : got[c][i] = Stream(c)[i]
    BY <2>1, <2>3, GotBegins
  <2>7. Len(got[c]) <= Len(Expected(t)) /\ \A i \in 1 .. Len(got[c]) : i \in 1 .. Said(c, t)
    BY <2>4, <2>5, <2>6
  <2>8. \A i \in 1 .. Len(got[c]) : got[c][i] = Expected(t)[i]
    BY <2>3, <2>6, <2>7
  <2>9. got[c] \in Seq(Frames)
    BY <2>1, StreamType
  <2>10. got[c] = SubSeq(Expected(t), 1, Len(got[c]))
    BY <2>5, <2>7, <2>8, <2>9, BeginningOf
  <2> QED BY <2>7, <2>10
<1>2. SessionInv => ToldAsExpected
  BY <1>1
<1> QED BY <1>2, SessionInductive, PTL
=============================================================================
