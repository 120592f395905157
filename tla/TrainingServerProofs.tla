------------------------ MODULE TrainingServerProofs ------------------------
(***************************************************************************)
(* What holds of the training server for any number of connections,        *)
(* training threads and HTTP workers, any jobs and any models: its types   *)
(* (TypeCorrect), the registered connection never dangles                  *)
(* (RegisteredNeverDangles), what can still arrive at a client is in order *)
(* and up to date (ServerInductive), so that what did arrive is in order   *)
(* (TranscriptsInOrder); and, with one HTTP worker in /compile at a time,  *)
(* the layers fit (OneCompilerFits) and are the beginning of the requested *)
(* ones (OneCompilerBuilds).                                               *)
(***************************************************************************)
EXTENDS TrainingServer, CrowConnectionProofs

\* The part of IInv that is about types and the state of each thread.
TInv == TypeOK /\ WorkInv

-----------------------------------------------------------------------------
(* Types *)

\* Every text the server sends is one of Messages (RouteHandlers.cpp:21, 56,
\* 64; NeuralNetwork.cpp:66).
LEMMA MessageTypes ==
    ASSUME NEW kind \in {"welcome", "error", "epoch", "final"},
           NEW t \in Threads \cup {Null}, NEW n \in 0 .. MaxEpochs
    PROVE  Message(kind, t, n) \in Texts \cup {CloseFrame}
  BY ServerAssumption DEF Message, Messages

\* A request that is being trained has at most MaxEpochs epochs.
LEMMA JobTypes ==
    ASSUME NEW job \in Jobs \cup {NoJob}
    PROVE  job.epochs \in 0 .. MaxEpochs
  BY ServerAssumption DEF JobsAssumption, NoJob

\* An idle thread and the thread that Finished leaves are well formed.
LEMMA IdleTypes ==
    /\ Idle \in ThreadRecord
    /\ EpochOK(Idle)
    /\ NoCompile \in CompileRecord
  BY DEF Idle, ThreadRecord, ThreadStates, EpochOK, NoJob, NoCompile, CompileRecord

\* The process starts, and starts again, well typed (test.cpp:42-58).
LEMMA InitTInv == Init => TInv
<1> SUFFICES ASSUME Init PROVE TInv
  OBVIOUS
<1>1. ConnTypeOK
  BY ObjectTypes, Buffers DEF Init, ConnInit, ConnTypeOK
<1>2. TypeOK
  BY <1>1, IdleTypes, Buffers DEF Init, TypeOK
<1>3. WorkInv
  BY IdleTypes DEF Init, WorkInv, Compiling, NoCompile
<1> QED BY <1>2, <1>3 DEF TInv

\* A process that died is well typed.
LEMMA CrashTInv ==
    ASSUME NEW cause \in Causes, Crash(cause)
    PROVE  TInv'
<1>1. ConnTypeOK'
  BY ObjectTypes, Buffers DEF Crash, ConnTypeOK
<1>2. TypeOK'
  BY <1>1, IdleTypes, Buffers DEF Crash, TypeOK
<1>3. WorkInv'
  BY IdleTypes DEF Crash, WorkInv, Compiling, NoCompile
<1> QED BY <1>2, <1>3 DEF TInv

\* A step of the connections alone.
LEMMA ConnStepTInv ==
    ASSUME TInv, ConnTypeOK', UNCHANGED serverVars
    PROVE  TInv'
  BY DEF TInv, TypeOK, WorkInv, Compiling, serverVars

\* A step of one training thread that ends well formed.
LEMMA ThreadStepTInv ==
    ASSUME TInv, ConnTypeOK', NEW t \in Threads, NEW new \in ThreadRecord,
           EpochOK(new), ThreadStep(t, new)
    PROVE  TInv'
<1>1. TypeOK'
  BY DEF TInv, TypeOK, ThreadStep
<1>2. WorkInv'
  BY DEF TInv, TypeOK, WorkInv, Compiling, ThreadStep
<1> QED BY <1>1, <1>2 DEF TInv

\* A call of send_text() or close() through a pointer, whatever it points to.
LEMMA CallConnTInv ==
    ASSUME TInv, NEW p, NEW task \in Texts \cup {CloseFrame}, NEW t \in Threads,
           NEW new \in ThreadRecord, EpochOK(new), CallConn(p, task, t, new)
    PROVE  TInv'
<1>1. CASE p \in Conns /\ Post(p, task) /\ ThreadStep(t, new)
  <2>1. ConnTypeOK'
    BY <1>1, PostTypes DEF TInv, TypeOK, ThreadStep
  <2> QED BY <1>1, <2>1, ThreadStepTInv
<1>2. CASE UNCHANGED posted /\ ThreadStep(t, new)
  <2>1. ConnTypeOK'
    BY <1>2 DEF TInv, TypeOK, ThreadStep, ConnTypeOK
  <2> QED BY <1>2, <2>1, ThreadStepTInv
<1>3. CASE Crash("freedMemory") \/ Crash("nullPointer")
  BY <1>3, CrashTInv DEF Causes
<1> QED BY <1>1, <1>2, <1>3 DEF CallConn

\* Each step of a training thread (RouteHandlers.cpp:52-59,
\* NeuralNetwork.cpp:21-71) keeps the types.
LEMMA TrainingTInv ==
    ASSUME TInv, NEW t \in Threads, Training(t)
    PROVE  TInv'
<1> DEFINE r == thread[t]
<1>0. /\ r \in ThreadRecord
      /\ EpochOK(r)
      /\ r.epoch \in Nat /\ r.batch \in Nat
      /\ r.job \in Jobs \cup {NoJob}
      /\ r.job.epochs \in 0 .. MaxEpochs
      /\ gConn \in Conns \cup {Null}
      /\ MaxEpochs \in Nat
  BY JobTypes, ServerAssumption DEF TInv, TypeOK, WorkInv, ThreadRecord
<1>1. ASSUME UNCHANGED <<conn, got, posted>> PROVE ConnTypeOK'
  BY <1>1 DEF TInv, TypeOK, ConnTypeOK
<1>2. Finished(t) \in ThreadRecord /\ EpochOK(Finished(t))
  <2> DEFINE done == [Idle EXCEPT !.pc = "done", !.job = r.job]
  <2>1. /\ done.pc = "done" /\ done.job = r.job /\ done.epoch = 0
        /\ done \in ThreadRecord
    BY <1>0, IdleTypes DEF Idle, ThreadRecord, ThreadStates
  <2> HIDE DEF done
  <2>2. EpochOK(done)
    BY <1>0, <2>1 DEF EpochOK
  <2> QED BY <2>1, <2>2 DEF Finished, done
<1>3. CASE ThreadStart(t)
  <2>1. [r EXCEPT !.pc = "call"] \in ThreadRecord
    BY <1>0 DEF ThreadRecord, ThreadStates
  <2>2. EpochOK([r EXCEPT !.pc = "call"])
    BY <1>0, <1>3 DEF ThreadRecord, EpochOK, ThreadStart
  <2> QED BY <1>1, <1>2, <1>3, <2>1, <2>2, ThreadStepTInv DEF ThreadStart, ThreadStep
<1>4. CASE ThreadCall(t)
  <2> DEFINE new == [r EXCEPT !.ws = gConn,
                              !.pc = IF r.job.epochs = 0 THEN "check" ELSE "forward"]
  <2>1. new \in ThreadRecord
    BY <1>0 DEF ThreadRecord, ThreadStates
  <2>2. EpochOK(new)
    BY <1>0, <1>4 DEF ThreadRecord, EpochOK, ThreadCall
  <2> QED BY <1>1, <1>4, <2>1, <2>2, ThreadStepTInv DEF ThreadCall, ThreadStep
<1>5. CASE ThreadForward(t)
  <2>1. [r EXCEPT !.pc = "backward"] \in ThreadRecord
    BY <1>0 DEF ThreadRecord, ThreadStates
  <2>2. EpochOK([r EXCEPT !.pc = "backward"])
    BY <1>0, <1>5 DEF ThreadRecord, EpochOK, ThreadForward
  <2> QED BY <1>1, <1>5, <2>1, <2>2, ThreadStepTInv DEF ThreadForward, ThreadStep
<1>6. CASE ThreadThrows(t) \/ ThreadUndefined(t)
  BY <1>6, CrashTInv DEF ThreadThrows, ThreadUndefined, Causes
<1>7. CASE ThreadBackward(t)
  <2> DEFINE more == [r EXCEPT !.pc = "forward", !.batch = r.batch + 1]
             over == [r EXCEPT !.pc = "report", !.batch = 0, !.epoch = r.epoch + 1]
  <2>0. r.batch + 1 \in Nat /\ r.epoch + 1 \in Nat
    BY <1>0
  <2>1. more \in ThreadRecord /\ over \in ThreadRecord
    <3>1. more \in ThreadRecord
      BY <1>0, <2>0 DEF ThreadRecord, ThreadStates
    <3>2. over \in ThreadRecord
      BY <1>0, <2>0 DEF ThreadRecord, ThreadStates
    <3> QED BY <3>1, <3>2
  <2>2. EpochOK(more) /\ EpochOK(over)
    BY <1>0, <1>7 DEF ThreadRecord, EpochOK, ThreadBackward
  <2>3. ThreadStep(t, more) \/ ThreadStep(t, over)
    BY <1>7 DEF ThreadBackward
  <2>4. ConnTypeOK'
    BY <1>1, <1>7, <2>3 DEF ThreadBackward, ThreadStep
  <2> HIDE DEF more, over
  <2> QED BY <2>1, <2>2, <2>3, <2>4, ThreadStepTInv
<1>8. CASE ThreadReport(t)
  <2> DEFINE new == [r EXCEPT !.pc = IF r.epoch < r.job.epochs THEN "forward" ELSE "check"]
  <2>1. new \in ThreadRecord
    BY <1>0 DEF ThreadRecord, ThreadStates
  <2>2. EpochOK(new)
    BY <1>0, <1>8 DEF ThreadRecord, EpochOK, ThreadReport
  <2>3. Message("epoch", t, r.epoch) \in Texts \cup {CloseFrame}
    BY <1>0, MessageTypes DEF EpochOK
  <2>4. \/ UNCHANGED posted /\ ThreadStep(t, new)
        \/ CallConn(r.ws, Message("epoch", t, r.epoch), t, new)
    BY <1>8 DEF ThreadReport
  <2> HIDE DEF new
  <2>5. ASSUME UNCHANGED posted, ThreadStep(t, new) PROVE TInv'
    BY <1>1, <2>1, <2>2, <2>5, ThreadStepTInv DEF ThreadStep
  <2> QED BY <2>1, <2>2, <2>3, <2>4, <2>5, CallConnTInv
<1>9. CASE ThreadCheck(t)
  <2>1. [r EXCEPT !.pc = "loadSend"] \in ThreadRecord
    BY <1>0 DEF ThreadRecord, ThreadStates
  <2>2. EpochOK([r EXCEPT !.pc = "loadSend"])
    BY <1>0, <1>9 DEF ThreadRecord, EpochOK, ThreadCheck
  <2> QED BY <1>1, <1>2, <1>9, <2>1, <2>2, ThreadStepTInv DEF ThreadCheck, ThreadStep
<1>10. CASE ThreadLoad(t)
  <2> DEFINE new == [r EXCEPT !.reg = gConn,
                              !.pc = IF r.pc = "loadSend" THEN "send" ELSE "close"]
  <2>1. new \in ThreadRecord
    BY <1>0 DEF ThreadRecord, ThreadStates
  <2>2. EpochOK(new)
    BY <1>0, <1>10 DEF ThreadRecord, EpochOK, ThreadLoad
  <2>3. ThreadStep(t, new) /\ ConnTypeOK'
    BY <1>1, <1>10 DEF ThreadLoad, ThreadStep
  <2> HIDE DEF new
  <2> QED BY <2>1, <2>2, <2>3, ThreadStepTInv
<1>11. CASE ThreadSend(t)
  <2> DEFINE new == [r EXCEPT !.pc = "loadClose"]
  <2>1. new \in ThreadRecord
    BY <1>0 DEF ThreadRecord, ThreadStates
  <2>2. EpochOK(new)
    BY <1>0, <1>11 DEF ThreadRecord, EpochOK, ThreadSend
  <2>3. Message("final", t, 0) \in Texts \cup {CloseFrame}
    BY <1>0, MessageTypes
  <2>4. CallConn(r.reg, Message("final", t, 0), t, new)
    BY <1>11 DEF ThreadSend
  <2> HIDE DEF new
  <2> QED BY <2>1, <2>2, <2>3, <2>4, CallConnTInv
<1>12. CASE ThreadClose(t)
  BY <1>2, <1>12, CallConnTInv DEF ThreadClose
<1> QED BY <1>3, <1>4, <1>5, <1>6, <1>7, <1>8, <1>9, <1>10, <1>11, <1>12 DEF Training

\* An element of hiddenLayerSizes is a size.
LEMMA Element ==
    ASSUME NEW sizes \in Seq(Nat)
    PROVE  \A i \in 1 .. Len(sizes) : sizes[i] \in Nat
  OBVIOUS

\* The next layer has a size (NeuralNetwork.cpp:279-292).
LEMMA PushedSize ==
    ASSUME TInv, NEW h \in Compilers, CompilePush(h)
    PROVE  /\ compile[h].model \in Models
           /\ compile[h].model.sizes[compile[h].next] \in Nat
<1>1. compile[h].model \in Models /\ compile[h].next # 0
  BY DEF TInv, WorkInv, CompilePush, Compiling
<1>2. compile[h].model.sizes \in Seq(Nat)
  BY <1>1, ServerAssumption DEF ModelsAssumption
<1>3. compile[h].next <= Len(compile[h].model.sizes)
  BY DEF CompilePush, LayersLeft
<1>4. compile[h].next \in Nat /\ Len(compile[h].model.sizes) \in Nat
  BY <1>2 DEF TInv, TypeOK, CompileRecord
<1>5. compile[h].next \in 1 .. Len(compile[h].model.sizes)
  BY <1>1, <1>3, <1>4
<1> QED BY <1>1, <1>2, <1>5, Element

\* Each step of /compile (RouteHandlers.cpp:75-113, NeuralNetwork.cpp:267-296).
LEMMA CompileTInv ==
    ASSUME TInv, NEW h \in Compilers,
           \/ \E model \in Models : CompileStart(h, model)
           \/ CompileStep(h)
    PROVE  TInv'
<1>0. ASSUME UNCHANGED connVars PROVE ConnTypeOK'
  BY <1>0 DEF TInv, TypeOK, ConnTypeOK, connVars
<1>1. \A model \in Models :
         /\ model.input \in Nat /\ model.sizes \in Seq(Nat)
         /\ Len(model.sizes) \in Nat
         /\ model.loss \in {"built", "unknown", "noReturn"}
  BY ServerAssumption DEF ModelsAssumption
<1>2. /\ compile[h] \in CompileRecord
      /\ Compiling(h) => compile[h].model \in Models
  BY DEF TInv, TypeOK, WorkInv
<1>3. ASSUME NEW model \in Models, CompileStart(h, model) PROVE TInv'
  <2>1. [next |-> 1, in |-> model.input, model |-> model] \in CompileRecord
    BY <1>1 DEF CompileRecord
  <2>2. TypeOK'
    BY <1>0, <1>3, <2>1, Buffers DEF CompileStart, TInv, TypeOK
  <2>3. WorkInv'
    BY <1>3 DEF CompileStart, TInv, TypeOK, WorkInv, Compiling
  <2> QED BY <2>2, <2>3 DEF TInv
<1>4. CASE CompilePush(h)
  <2> DEFINE size == compile[h].model.sizes[compile[h].next]
  <2>2. size \in Nat /\ compile[h].model \in Models
    BY <1>4, PushedSize
  <2>3. /\ layers' = Append(layers, [in |-> compile[h].in, out |-> size])
        /\ compile' = [compile EXCEPT ![h] = [compile[h] EXCEPT !.next = @ + 1, !.in = size]]
        /\ UNCHANGED <<connVars, proc, gConn, clearing, lossOk, thread>>
    BY <1>4 DEF CompilePush
  <2> HIDE DEF size
  <2>4. [compile[h] EXCEPT !.next = @ + 1, !.in = size] \in CompileRecord
    <3>1. compile[h].next + 1 \in Nat
      BY <1>2 DEF CompileRecord
    <3> QED BY <1>2, <2>2, <3>1 DEF CompileRecord
  <2>5. [in |-> compile[h].in, out |-> size] \in Layer
    BY <1>2, <2>2 DEF CompileRecord, Layer
  <2>6. TypeOK'
    BY <1>0, <2>3, <2>4, <2>5, Buffers DEF TInv, TypeOK
  <2>7. WorkInv'
    BY <2>2, <2>3 DEF TInv, TypeOK, WorkInv, Compiling, CompileRecord
  <2> QED BY <2>6, <2>7 DEF TInv
<1>5. ASSUME CompileEnds(h), lossOk' \in BOOLEAN PROVE TInv'
  <2>1. TypeOK'
    BY <1>0, <1>5, IdleTypes DEF CompileEnds, TInv, TypeOK
  <2>2. WorkInv'
    BY <1>5 DEF CompileEnds, TInv, TypeOK, WorkInv, Compiling, NoCompile
  <2> QED BY <2>1, <2>2 DEF TInv
<1>6. CASE CompileBadActivation(h)
  BY <1>5, <1>6 DEF CompileBadActivation, TInv, TypeOK
<1>7. CASE CompileLoss(h)
  <2>1. compile[h].model.loss \in {"built", "unknown", "noReturn"}
    BY <1>1, <1>2, <1>7 DEF CompileLoss
  <2>2. lossOk' \in BOOLEAN
    BY <1>7, <2>1 DEF CompileLoss, TInv, TypeOK
  <2> QED BY <1>5, <1>7, <2>2 DEF CompileLoss
<1>8. CASE CompileNoReturn(h) \/ CompileRace(h)
  BY <1>8, CrashTInv DEF CompileNoReturn, CompileRace, Causes
<1> QED BY <1>3, <1>4, <1>6, <1>7, <1>8 DEF CompileStep

\* Each step of the route /ws (RouteHandlers.cpp:14-72) and of Crow.
LEMMA ConnectionTInv ==
    ASSUME TInv, NEW c \in Conns,
           \/ OnOpen(c)
           \/ OnOpenGreet(c)
           \/ \E t \in Threads, job \in Jobs : OnMessage(c, t, job)
           \/ OnMalformedMessage(c)
           \/ OnClose(c)
           \/ Io(c)
           \/ Peer(c)
    PROVE  TInv'
<1>0. ConnTypeOK
  BY DEF TInv, TypeOK
<1>1. ASSUME ConnTypeOK', gConn' \in Conns \cup {Null}, clearing' \in SUBSET Conns,
             UNCHANGED <<proc, layers, lossOk, compile, thread>>
      PROVE  TInv'
  BY <1>1 DEF TInv, TypeOK, WorkInv, Compiling
<1>2. CASE OnOpen(c)
  BY <1>0, <1>1, <1>2, HandshakeTypes DEF OnOpen, TInv, TypeOK
<1>3. CASE OnOpenGreet(c)
  <2>1. Message("welcome", Null, 0) \in Texts \cup {CloseFrame}
    BY MessageTypes, ServerAssumption
  <2> QED BY <1>0, <1>3, <2>1, GreetTypes, ConnStepTInv DEF OnOpenGreet
<1>4. ASSUME NEW t \in Threads, NEW job \in Jobs, OnMessage(c, t, job) PROVE TInv'
  <2> DEFINE new == [Idle EXCEPT !.pc = "start", !.job = job, !.from = c]
  <2>1. /\ new \in ThreadRecord
        /\ new.epoch = 0 /\ new.pc = "start" /\ new.job = job
    BY IdleTypes DEF ThreadRecord, ThreadStates, Idle
  <2>2. job.epochs \in Nat
    BY JobTypes, ServerAssumption
  <2> HIDE DEF new
  <2>3. EpochOK(new)
    BY <2>1, <2>2 DEF EpochOK
  <2>4. /\ thread' = [thread EXCEPT ![t] = new]
        /\ UNCHANGED <<connVars, proc, gConn, clearing, layers, lossOk, compile>>
    BY <1>4 DEF OnMessage, new
  <2>5. ConnTypeOK'
    BY <1>0, <2>4 DEF connVars, ConnTypeOK
  <2>6. TypeOK'
    BY <2>1, <2>4, <2>5 DEF TInv, TypeOK
  <2>7. WorkInv'
    BY <2>3, <2>4 DEF TInv, TypeOK, WorkInv, Compiling
  <2> QED BY <2>6, <2>7 DEF TInv
<1>5. CASE OnMalformedMessage(c)
  <2>1. Message("error", Null, 0) \in Texts \cup {CloseFrame}
    BY MessageTypes, ServerAssumption
  <2> QED BY <1>0, <1>5, <2>1, PostTypes, ConnStepTInv DEF OnMalformedMessage
<1>6. CASE OnClose(c)
  <2>1. CASE OnCloseMatches(c)
    BY <1>0, <1>1, <2>1 DEF OnCloseMatches, TInv, TypeOK, connVars, ConnTypeOK
  <2>2. CASE OnCloseClears(c)
    BY <1>0, <1>1, <2>2, CloseTypes DEF OnCloseClears, TInv, TypeOK
  <2>3. CASE OnCloseOther(c)
    BY <1>0, <2>3, CloseTypes, ConnStepTInv DEF OnCloseOther
  <2> QED BY <1>6, <2>1, <2>2, <2>3 DEF OnClose
<1>7. CASE Io(c)
  BY <1>0, <1>7, IoStepTypes, ConnStepTInv DEF Io
<1>8. CASE Peer(c)
  BY <1>0, <1>8, CloseTypes, ConnStepTInv DEF Peer
<1> QED BY <1>2, <1>3, <1>4, <1>5, <1>6, <1>7, <1>8

\* The types hold in every reachable state, for all values of the constants.
LEMMA TInvariant == Spec => []TInv
<1>1. TInv /\ [Next]_vars => TInv'
  <2> SUFFICES ASSUME TInv, [Next]_vars PROVE TInv'
    OBVIOUS
  <2>1. ASSUME Restart PROVE TInv'
    <3>1. TypeOK'
      BY <2>1 DEF Restart, TInv, TypeOK, connVars, ConnTypeOK
    <3>2. WorkInv'
      BY <2>1 DEF Restart, TInv, WorkInv, Compiling
    <3> QED BY <3>1, <3>2 DEF TInv
  <2>2. CASE UNCHANGED vars
    BY <2>2, ConnStepTInv DEF TInv, TypeOK, vars, connVars, ConnTypeOK
  <2> QED BY <2>1, <2>2, ConnectionTInv, CompileTInv, TrainingTInv DEF Next
<1> QED BY <1>1, InitTInv, PTL DEF Spec

\* The server is well typed, whatever its clients do.
THEOREM TypeCorrect == Spec => []TypeOK
<1>1. TInv => TypeOK
  BY DEF TInv
<1> QED BY <1>1, TInvariant, PTL

-----------------------------------------------------------------------------
(* The registered connection *)

\* A connection that goes on living in the state s is as RegisteredInv wants
\* it, or is not registered.
LEMMA OneConnReg ==
    ASSUME TypeOK, RegisteredInv, NEW c \in Conns, NEW s \in Connection,
           conn' = [conn EXCEPT ![c] = s], UNCHANGED gConn,
           gConn = c => /\ s.io # "none"
                        /\ s.io \in {"onopen", "run"} => ~s.closeHandlerCalled,
           clearing' \in SUBSET clearing,
           c \in clearing' => s.io \in {"onclose", "oncloseReply"}
    PROVE  RegisteredInv'
<1>1. /\ conn'[c] = s
      /\ \A d \in Conns \ {c} : conn'[d] = conn[d]
  BY DEF TypeOK, ConnTypeOK
<1>2. clearing \in SUBSET Conns /\ gConn \in Conns \cup {Null}
  BY DEF TypeOK
<1> QED BY <1>1, <1>2 DEF RegisteredInv, Alive

\* Nothing changes that RegisteredInv reads, or the process dies.
LEMMA UnchangedReg ==
    ASSUME RegisteredInv, UNCHANGED <<conn, gConn, clearing>>
    PROVE  RegisteredInv'
  BY DEF RegisteredInv, Alive

LEMMA CrashReg ==
    ASSUME NEW cause, Crash(cause)
    PROVE  RegisteredInv'
  BY DEF Crash, RegisteredInv

\* Training threads (RouteHandlers.cpp:52-59) read g_ws_conn and never write
\* it.
LEMMA TrainingReg ==
    ASSUME RegisteredInv, NEW t \in Threads, Training(t)
    PROVE  RegisteredInv'
<1>0. ASSUME NEW p, NEW task, NEW new, CallConn(p, task, t, new)
      PROVE  RegisteredInv'
  BY <1>0, UnchangedReg, CrashReg DEF CallConn, ThreadStep
<1>1. CASE ThreadStart(t) \/ ThreadCall(t) \/ ThreadForward(t)
  BY <1>1, UnchangedReg DEF ThreadStart, ThreadCall, ThreadForward, ThreadStep
<1>2. CASE ThreadBackward(t) \/ ThreadCheck(t) \/ ThreadLoad(t)
  BY <1>2, UnchangedReg DEF ThreadBackward, ThreadCheck, ThreadLoad, ThreadStep
<1>3. CASE ThreadThrows(t) \/ ThreadUndefined(t)
  BY <1>3, CrashReg DEF ThreadThrows, ThreadUndefined
<1>4. CASE ThreadReport(t)
  BY <1>0, <1>4, UnchangedReg DEF ThreadReport, ThreadStep
<1>5. CASE ThreadSend(t) \/ ThreadClose(t)
  BY <1>0, <1>5 DEF ThreadSend, ThreadClose
<1> QED BY <1>1, <1>2, <1>3, <1>4, <1>5 DEF Training

\* /compile (RouteHandlers.cpp:75-113) does not touch connections.
LEMMA CompileReg ==
    ASSUME RegisteredInv, NEW h \in Compilers,
           (\E model \in Models : CompileStart(h, model)) \/ CompileStep(h)
    PROVE  RegisteredInv'
<1>1. ASSUME NEW model \in Models, CompileStart(h, model) PROVE RegisteredInv'
  BY <1>1, UnchangedReg DEF CompileStart, connVars
<1>2. CASE CompileStep(h)
  BY <1>2, UnchangedReg, CrashReg
     DEF CompileStep, CompilePush, CompileBadActivation, CompileLoss,
         CompileNoReturn, CompileRace, CompileEnds, connVars
<1> QED BY <1>1, <1>2

\* `delete this`, and check_destroy(), spare the registered connection unless
\* its onclose was not called yet, and then call it (websocket.h:755-765).
LEMMA DestroyReg ==
    ASSUME TypeOK, RegisteredInv, NEW c \in Conns, NEW r \in Connection,
           conn[c].io = "run", r.closeHandlerCalled = conn[c].closeHandlerCalled,
           CheckDestroy(c, r), UNCHANGED serverVars
    PROVE  RegisteredInv'
<1>0. Null \notin Conns /\ c \notin clearing
  BY ServerAssumption DEF RegisteredInv
<1>1. CASE r.closeHandlerCalled
  <2>1. gConn # c
    BY <1>0, <1>1 DEF RegisteredInv
  <2>2. DeleteIfIdle(c, r)
    BY <1>1 DEF CheckDestroy
  <2>3. PICK s \in Connection : conn' = [conn EXCEPT ![c] = s]
    BY <2>2, ObjectTypes DEF DeleteIfIdle, Connection, IoStates
  <2> QED BY <1>0, <2>1, <2>3, OneConnReg DEF serverVars
<1>2. CASE ~r.closeHandlerCalled
  <2> DEFINE s == [r EXCEPT !.io = "onclose"]
  <2>1. s \in Connection /\ s.io = "onclose"
    BY DEF Connection, IoStates
  <2>2. conn' = [conn EXCEPT ![c] = s]
    BY <1>2 DEF CheckDestroy
  <2> HIDE DEF s
  <2> QED BY <1>0, <2>1, <2>2, OneConnReg DEF serverVars
<1> QED BY <1>1, <1>2

\* The handlers that keep the object alive leave io and closeHandlerCalled.
LEMMA IoReg ==
    ASSUME TypeOK, RegisteredInv, NEW c \in Conns, Io(c)
    PROVE  RegisteredInv'
<1>0. /\ conn[c] \in Connection
      /\ Null \notin Conns
      /\ gConn \in Conns \cup {Null}
      /\ UNCHANGED serverVars
  BY ServerAssumption DEF TypeOK, ConnTypeOK, Io
<1>1. ASSUME NEW s \in Connection, conn' = [conn EXCEPT ![c] = s],
             s.io = conn[c].io, s.closeHandlerCalled = conn[c].closeHandlerCalled
      PROVE  RegisteredInv'
  <2>1. gConn = c => /\ s.io # "none"
                     /\ s.io \in {"onopen", "run"} => ~s.closeHandlerCalled
    BY <1>0, <1>1 DEF RegisteredInv, Alive
  <2>2. c \in clearing => s.io \in {"onclose", "oncloseReply"}
    BY <1>1 DEF RegisteredInv
  <2> QED BY <1>0, <1>1, <2>1, <2>2, OneConnReg DEF serverVars
<1>2. ASSUME NEW r \in Connection, NEW f \in Frames
      PROVE  /\ DoWrite(r).io = r.io /\ Enqueue(r, f).io = r.io
             /\ DoWrite(r).closeHandlerCalled = r.closeHandlerCalled
             /\ Enqueue(r, f).closeHandlerCalled = r.closeHandlerCalled
  BY DEF DoWrite, Enqueue, Connection
<1>3. CASE RunPosted(c)
  <2>1. Head(posted[c]) \in Frames /\ CloseFrame \in Frames
    BY <1>3 DEF RunPosted, TypeOK, ConnTypeOK, Frames
  <2> DEFINE q == [conn[c] EXCEPT !.sentClose = TRUE]
             s == IF Head(posted[c]) = CloseFrame
                  THEN WriteClose(q) ELSE Enqueue(conn[c], Head(posted[c]))
  <2>2. /\ q \in Connection /\ q.io = conn[c].io
        /\ q.closeHandlerCalled = conn[c].closeHandlerCalled
    BY <1>0 DEF Connection
  <2>3. conn' = [conn EXCEPT ![c] = s]
    BY <1>3 DEF RunPosted
  <2> HIDE DEF q
  <2>4. /\ s \in Connection /\ s.io = conn[c].io
        /\ s.closeHandlerCalled = conn[c].closeHandlerCalled
    BY <1>0, <1>2, <2>1, <2>2, HelperTypes DEF WriteClose
  <2> HIDE DEF s
  <2> QED BY <1>1, <2>3, <2>4
<1>4. CASE Deliver(c)
  <2> DEFINE s == [conn[c] EXCEPT !.flushed = TRUE]
  <2>1. /\ s \in Connection /\ s.io = conn[c].io
        /\ s.closeHandlerCalled = conn[c].closeHandlerCalled
    BY <1>0 DEF Connection
  <2> QED BY <1>1, <1>4, <2>1 DEF Deliver
<1>5. CASE WriteDone(c)
  <2> DEFINE r == [conn[c] EXCEPT !.sendingBuffers = <<>>]
             q == IF r.writeBuffers # <<>> THEN DoWrite(r) ELSE r
             s == [q EXCEPT !.closeConnection = r.sentClose]
  <2>1. /\ r \in Connection /\ r.io = conn[c].io
        /\ r.closeHandlerCalled = conn[c].closeHandlerCalled
    BY <1>0, Buffers DEF Connection
  <2>2. conn' = [conn EXCEPT ![c] = s]
    BY <1>5 DEF WriteDone
  <2>3. r.sentClose \in BOOLEAN
    BY <2>1 DEF Connection
  <2> HIDE DEF r
  <2>4. /\ q \in Connection /\ q.io = conn[c].io
        /\ q.closeHandlerCalled = conn[c].closeHandlerCalled
    BY <1>2, <2>1, HelperTypes DEF Frames
  <2> HIDE DEF q
  <2>5. /\ s \in Connection /\ s.io = conn[c].io
        /\ s.closeHandlerCalled = conn[c].closeHandlerCalled
    BY <2>3, <2>4 DEF Connection
  <2> HIDE DEF s
  <2> QED BY <1>1, <2>2, <2>5
<1>6. CASE WriteDoneClosing(c)
  <2> DEFINE r == [conn[c] EXCEPT !.sendingBuffers = <<>>, !.closeConnection = TRUE]
  <2>1. r \in Connection /\ r.closeHandlerCalled = conn[c].closeHandlerCalled
    BY <1>0, Buffers DEF Connection
  <2>2. conn[c].io = "run" /\ CheckDestroy(c, r)
    BY <1>6 DEF WriteDoneClosing
  <2> HIDE DEF r
  <2> QED BY <1>0, <2>1, <2>2, DestroyReg
<1>7. CASE ReadError(c)
  <2> DEFINE r == [conn[c] EXCEPT !.isReading = FALSE, !.closeConnection = TRUE]
  <2>1. r \in Connection /\ r.closeHandlerCalled = conn[c].closeHandlerCalled
    BY <1>0 DEF Connection
  <2>2. conn[c].io = "run" /\ CheckDestroy(c, r)
    BY <1>7 DEF ReadError
  <2> HIDE DEF r
  <2> QED BY <1>0, <2>1, <2>2, DestroyReg
<1> QED BY <1>3, <1>4, <1>5, <1>6, <1>7 DEF Io, IoStep

\* After the close handler returned the object runs on or is deleted; it is
\* not registered any more.
LEMMA ReturnReg ==
    ASSUME TypeOK, RegisteredInv, NEW c \in Conns, CloseHandlerReturns(c),
           gConn' # c, gConn' \in {gConn, Null}, clearing' = clearing \ {c}
    PROVE  RegisteredInv'
<1>0. conn[c] \in Connection /\ Null \notin Conns
  BY ServerAssumption DEF TypeOK, ConnTypeOK
<1>1. ASSUME NEW r \in Connection, DeleteIfIdle(c, r) PROVE RegisteredInv'
  <2>1. PICK s \in Connection : conn' = [conn EXCEPT ![c] = s]
    BY <1>1, ObjectTypes DEF DeleteIfIdle, Connection, IoStates
  <2>2. \A d \in Conns \ {c} : conn'[d] = conn[d]
    BY <2>1 DEF TypeOK, ConnTypeOK
  <2> QED BY <2>2 DEF RegisteredInv, Alive, TypeOK
<1>2. CASE DeleteIfIdle(c, conn[c])
  BY <1>0, <1>1, <1>2
<1>3. CASE ~DeleteIfIdle(c, conn[c])
  <2> DEFINE q == WriteClose(conn[c])
             r == [q EXCEPT !.closeConnection = TRUE,
                            !.sock = IF @ = "down" THEN "down" ELSE "shut"]
  <2>1. q \in Connection
    BY <1>0, HelperTypes, ObjectTypes DEF Frames
  <2>2. r \in Connection
    BY <2>1 DEF Connection
  <2>3. DeleteIfIdle(c, r)
    BY <1>3 DEF CloseHandlerReturns
  <2> HIDE DEF r
  <2> QED BY <1>1, <2>2, <2>3
<1> QED BY <1>2, <1>3

\* The steps a peer causes: a close frame, its answer, silence.
LEMMA PeerReg ==
    ASSUME TypeOK, RegisteredInv, NEW c \in Conns, Peer(c)
    PROVE  RegisteredInv'
<1>0. /\ conn[c] \in Connection
      /\ Null \notin Conns
      /\ UNCHANGED serverVars
  BY ServerAssumption DEF TypeOK, ConnTypeOK, Peer
<1>1. CASE RecvClose(c)
  <2> DEFINE s == [conn[c] EXCEPT !.recvClose = TRUE, !.sentClose = TRUE,
                                  !.isReading = FALSE, !.closeHandlerCalled = TRUE,
                                  !.io = "oncloseReply"]
  <2>1. s \in Connection /\ s.io = "oncloseReply"
    BY <1>0 DEF Connection, IoStates
  <2>2. conn' = [conn EXCEPT ![c] = s]
    BY <1>1 DEF RecvClose
  <2> HIDE DEF s
  <2> QED BY <1>0, <2>1, <2>2, OneConnReg DEF serverVars
<1>2. CASE RecvCloseReply(c)
  <2> DEFINE r == [conn[c] EXCEPT !.recvClose = TRUE, !.isReading = FALSE,
                                  !.closeConnection = TRUE, !.sock = "shut"]
  <2>1. r \in Connection /\ r.closeHandlerCalled = conn[c].closeHandlerCalled
    BY <1>0 DEF Connection
  <2>2. CASE r.closeHandlerCalled
    <3>1. conn[c].io = "run" /\ CheckDestroy(c, r)
      BY <1>2, <2>2 DEF RecvCloseReply, Receiving, CheckDestroy
    <3> HIDE DEF r
    <3> QED BY <1>0, <2>1, <3>1, DestroyReg
  <2>3. CASE ~r.closeHandlerCalled
    <3> DEFINE s == [r EXCEPT !.closeHandlerCalled = TRUE, !.io = "onclose"]
    <3>1. s \in Connection /\ s.io = "onclose"
      BY <2>1 DEF Connection, IoStates
    <3>2. conn' = [conn EXCEPT ![c] = s]
      BY <1>2, <2>3 DEF RecvCloseReply
    <3> HIDE DEF s
    <3> QED BY <1>0, <3>1, <3>2, OneConnReg DEF serverVars
  <2> QED BY <2>2, <2>3
<1>3. CASE PeerGone(c)
  <2> DEFINE s == [conn[c] EXCEPT !.sock = "down"]
  <2>1. /\ s \in Connection /\ s.io = conn[c].io
        /\ s.closeHandlerCalled = conn[c].closeHandlerCalled
    BY <1>0 DEF Connection
  <2>2. conn' = [conn EXCEPT ![c] = s]
    BY <1>3 DEF PeerGone
  <2> HIDE DEF s
  <2>3. gConn = c => /\ s.io # "none"
                     /\ s.io \in {"onopen", "run"} => ~s.closeHandlerCalled
    BY <1>0, <2>1 DEF RegisteredInv, Alive
  <2>4. c \in clearing => s.io \in {"onclose", "oncloseReply"}
    BY <2>1 DEF RegisteredInv
  <2> QED BY <1>0, <2>1, <2>2, <2>3, <2>4, OneConnReg DEF serverVars
<1> QED BY <1>1, <1>2, <1>3 DEF Peer

\* The open and close handlers (RouteHandlers.cpp:18-22, 67-72).
LEMMA HandlersReg ==
    ASSUME TypeOK, RegisteredInv, NEW c \in Conns,
           OnOpen(c) \/ OnOpenGreet(c) \/ OnClose(c)
    PROVE  RegisteredInv'
<1>0. /\ conn[c] \in Connection
      /\ Null \notin Conns
      /\ clearing \in SUBSET Conns
  BY ServerAssumption DEF TypeOK, ConnTypeOK
<1>1. CASE OnOpen(c)
  <2> DEFINE q == [NoObject EXCEPT !.io = "onopen", !.sock = "up"]
             s == Enqueue(q, Hello)
  <2>1. /\ q.io = "onopen" /\ q.closeHandlerCalled = FALSE
        /\ q.sendingBuffers = <<>> /\ q.writeBuffers = <<>>
    BY DEF NoObject
  <2>2. s.io = "onopen" /\ s.closeHandlerCalled = FALSE
    BY DEF Enqueue, DoWrite, NoObject
  <2>3. conn' = [conn EXCEPT ![c] = s] /\ gConn' = c /\ UNCHANGED clearing
    BY <1>1 DEF OnOpen, Handshake
  <2> HIDE DEF s
  <2>4. conn'[c] = s /\ \A d \in Conns \ {c} : conn'[d] = conn[d]
    BY <2>3 DEF TypeOK, ConnTypeOK
  <2>5. c \notin clearing
    BY <1>1 DEF OnOpen, Handshake, Alive, RegisteredInv
  <2> QED BY <1>0, <2>2, <2>3, <2>4, <2>5 DEF RegisteredInv, Alive
<1>2. CASE OnOpenGreet(c)
  <2> DEFINE s == [conn[c] EXCEPT !.io = "run", !.isReading = TRUE]
  <2>1. /\ s \in Connection /\ s.io = "run"
        /\ s.closeHandlerCalled = conn[c].closeHandlerCalled
    BY <1>0 DEF Connection, IoStates
  <2>2. conn[c].io = "onopen" /\ conn' = [conn EXCEPT ![c] = s] /\ UNCHANGED serverVars
    BY <1>2 DEF OnOpenGreet, StartReading
  <2> HIDE DEF s
  <2>3. gConn = c => ~s.closeHandlerCalled
    BY <1>0, <2>1, <2>2 DEF RegisteredInv
  <2>4. c \notin clearing
    BY <2>2 DEF RegisteredInv
  <2> QED BY <1>0, <2>1, <2>2, <2>3, <2>4, OneConnReg DEF serverVars
<1>3. CASE OnCloseMatches(c)
  BY <1>3 DEF OnCloseMatches, RegisteredInv, Alive, connVars
<1>4. CASE OnCloseClears(c)
  BY <1>0, <1>4, ReturnReg DEF OnCloseClears
<1>5. CASE OnCloseOther(c)
  <2>1. clearing \ {c} = clearing
    BY <1>5 DEF OnCloseOther
  <2> QED BY <1>5, <2>1, ReturnReg DEF OnCloseOther, serverVars
<1> QED BY <1>1, <1>2, <1>3, <1>4, <1>5 DEF OnClose

\* No step of the server or of its clients breaks it.
LEMMA NextReg ==
    ASSUME TypeOK, RegisteredInv, [Next]_vars
    PROVE  RegisteredInv'
<1>1. ASSUME NEW c \in Conns, NEW t \in Threads, NEW job \in Jobs, OnMessage(c, t, job)
      PROVE  RegisteredInv'
  BY <1>1, UnchangedReg DEF OnMessage, connVars
<1>2. ASSUME NEW c \in Conns, OnMalformedMessage(c) PROVE RegisteredInv'
  BY <1>2, UnchangedReg DEF OnMalformedMessage, serverVars
<1>3. CASE Restart
  BY <1>3, UnchangedReg DEF Restart, connVars
<1>4. CASE UNCHANGED vars
  BY <1>4, UnchangedReg DEF vars, connVars, serverVars
<1>5. ASSUME NEW c \in Conns,
             OnOpen(c) \/ OnOpenGreet(c) \/ OnClose(c) \/ Io(c) \/ Peer(c)
      PROVE  RegisteredInv'
  BY <1>5, HandlersReg, IoReg, PeerReg
<1>6. ASSUME NEW t \in Threads, Training(t) PROVE RegisteredInv'
  BY <1>6, TrainingReg
<1>7. ASSUME NEW h \in Compilers,
             (\E model \in Models : CompileStart(h, model)) \/ CompileStep(h)
      PROVE  RegisteredInv'
  BY <1>7, CompileReg
<1>8. ASSUME NEW c \in Conns,
             \/ OnOpen(c)
             \/ OnOpenGreet(c)
             \/ \E t \in Threads, job \in Jobs : OnMessage(c, t, job)
             \/ OnMalformedMessage(c)
             \/ OnClose(c)
             \/ Io(c)
             \/ Peer(c)
      PROVE  RegisteredInv'
  BY <1>1, <1>2, <1>5, <1>8
<1> QED BY <1>3, <1>4, <1>6, <1>7, <1>8 DEF Next

\* The invariant that TLC checks is inductive: the types, the place of every
\* thread in its epochs, and the connection g_ws_conn points to, at every step
\* of the handlers of RouteHandlers.cpp:14-113.
THEOREM Inductive == Spec => []IInv
<1>1. Init => RegisteredInv
  BY DEF Init, RegisteredInv
<1>2. TInv /\ RegisteredInv /\ [Next]_vars => RegisteredInv'
  BY NextReg DEF TInv
<1>3. TInv /\ RegisteredInv => IInv
  BY DEF TInv, IInv
<1> QED BY <1>1, <1>2, <1>3, TInvariant, PTL DEF Spec

\* g_ws_conn never dangles, for any number of connections that come, close
\* and vanish in any order, and any number of training threads: every path
\* that deletes the registered object first runs the onclose that takes it
\* out (RouteHandlers.cpp:67-72).
THEOREM RegisteredNeverDangles == Spec => []RegisteredIsAlive
<1>1. IInv => RegisteredIsAlive
  BY DEF IInv, RegisteredInv, RegisteredIsAlive
<1> QED BY <1>1, Inductive, PTL

-----------------------------------------------------------------------------
(* The layers *)

\* What the steps of the server do to the layers and to the state of /compile.
LEMMA WhoBuilds ==
    ASSUME [Next]_vars
    PROVE  \/ UNCHANGED <<layers, compile>>
           \/ \E cause \in Causes : Crash(cause)
           \/ \E h \in Compilers, model \in Models : CompileStart(h, model)
           \/ \E h \in Compilers : CompilePush(h) \/ CompileEnds(h)
<1> DEFINE Goal == \/ UNCHANGED <<layers, compile>>
                   \/ \E cause \in Causes : Crash(cause)
                   \/ \E h \in Compilers, model \in Models : CompileStart(h, model)
                   \/ \E h \in Compilers : CompilePush(h) \/ CompileEnds(h)
<1>1. ASSUME UNCHANGED <<layers, compile>> PROVE Goal
  BY <1>1
<1>2. ASSUME NEW cause \in Causes, Crash(cause) PROVE Goal
  BY <1>2
<1>3. ASSUME NEW h \in Compilers, CompileStep(h) PROVE Goal
  BY <1>2, <1>3
     DEF CompileStep, CompileBadActivation, CompileLoss, CompileNoReturn, CompileRace,
         Causes
<1>4. ASSUME NEW h \in Compilers, NEW model \in Models, CompileStart(h, model) PROVE Goal
  BY <1>4
<1> HIDE DEF Goal
<1>5. ASSUME NEW p, NEW task, NEW t, NEW new, CallConn(p, task, t, new) PROVE Goal
  BY <1>1, <1>2, <1>5 DEF CallConn, ThreadStep, Causes
<1>6. ASSUME NEW t \in Threads, Training(t) PROVE Goal
  <2>1. CASE ThreadStart(t) \/ ThreadCall(t) \/ ThreadForward(t)
    BY <1>1, <2>1 DEF ThreadStart, ThreadCall, ThreadForward, ThreadStep
  <2>2. CASE ThreadBackward(t) \/ ThreadCheck(t) \/ ThreadLoad(t)
    BY <1>1, <2>2 DEF ThreadBackward, ThreadCheck, ThreadLoad, ThreadStep
  <2>3. CASE ThreadThrows(t) \/ ThreadUndefined(t)
    BY <1>2, <2>3 DEF ThreadThrows, ThreadUndefined, Causes
  <2>4. CASE ThreadReport(t)
    BY <1>1, <1>5, <2>4 DEF ThreadReport, ThreadStep
  <2>5. CASE ThreadSend(t) \/ ThreadClose(t)
    BY <1>5, <2>5 DEF ThreadSend, ThreadClose
  <2> QED BY <1>6, <2>1, <2>2, <2>3, <2>4, <2>5 DEF Training
<1>7. ASSUME NEW c \in Conns,
             \/ OnOpen(c)
             \/ OnOpenGreet(c)
             \/ \E t \in Threads, job \in Jobs : OnMessage(c, t, job)
             \/ OnMalformedMessage(c)
             \/ OnClose(c)
             \/ Io(c)
             \/ Peer(c)
      PROVE  Goal
  BY <1>1, <1>7 DEF OnOpen, OnOpenGreet, OnMessage, OnMalformedMessage, OnClose,
                    OnCloseMatches, OnCloseClears, OnCloseOther, Io, Peer, serverVars
<1>8. ASSUME Restart \/ UNCHANGED vars PROVE Goal
  BY <1>1, <1>8 DEF Restart, vars, serverVars
<1>9. ASSUME NEW h \in Compilers,
             (\E model \in Models : CompileStart(h, model)) \/ CompileStep(h)
      PROVE  Goal
  BY <1>3, <1>4, <1>9
<1>10. Next \/ UNCHANGED vars
  OBVIOUS
<1>11. Goal
  <2>1. CASE UNCHANGED vars
    BY <1>8, <2>1
  <2>2. CASE Next
    BY <1>6, <1>7, <1>8, <1>9, <2>2, Zenon DEF Next
  <2> QED BY <1>10, <2>1, <2>2
<1> QED BY <1>11 DEF Goal

\* With one worker in /compile at a time: adjacent layers fit, and the next
\* layer of the worker takes the outputs of the last one.
LayersInv ==
    /\ LayersFit
    /\ \A h \in Compilers :
          Compiling(h) /\ layers # <<>> => layers[Len(layers)].out = compile[h].in

\* If /compile requests never overlap, the layers fit at every step of every
\* one of them, also after one failed half-way (NeuralNetwork.cpp:276-292).
THEOREM OneCompilerFits ==
    ASSUME \A h, k \in Compilers : h = k
    PROVE  Spec => []LayersFit
<1>1. Init => LayersInv
  BY DEF Init, LayersInv, LayersFit
<1>2. TInv /\ LayersInv /\ [Next]_vars => LayersInv'
  <2> SUFFICES ASSUME TInv, LayersInv, [Next]_vars PROVE LayersInv'
    OBVIOUS
  <2>0. layers \in Seq(Layer) /\ compile \in [Compilers -> CompileRecord]
    BY DEF TInv, TypeOK
  <2>1. ASSUME UNCHANGED <<layers, compile>> PROVE LayersInv'
    BY <2>1 DEF LayersInv, LayersFit, Compiling
  <2>2. ASSUME layers' = <<>> PROVE LayersInv'
    BY <2>2 DEF LayersInv, LayersFit
  <2>3. ASSUME NEW h \in Compilers, CompileEnds(h) PROVE LayersInv'
    BY <2>0, <2>3 DEF CompileEnds, LayersInv, LayersFit, Compiling, NoCompile
  <2>4. ASSUME NEW h \in Compilers, CompilePush(h) PROVE LayersInv'
    <3> DEFINE size == compile[h].model.sizes[compile[h].next]
               e == [in |-> compile[h].in, out |-> size]
               n == Len(layers)
    <3>1. layers' = Append(layers, e) /\ Compiling(h)
      BY <2>4 DEF CompilePush
    <3>2. /\ n \in Nat /\ Len(layers') = n + 1 /\ layers'[n + 1] = e
          /\ \A i \in 1 .. n : layers'[i] = layers[i]
          /\ layers # <<>> <=> n # 0
      BY <2>0, <3>1
    <3>3. compile'[h].in = size
      BY <2>0, <2>4 DEF CompilePush, CompileRecord
    <3>4. e.in = compile[h].in /\ e.out = size
      OBVIOUS
    <3> HIDE DEF e, size
    <3>5. \A i \in 1 .. n - 1 : layers'[i].out = layers'[i + 1].in
      BY <3>2 DEF LayersInv, LayersFit, n
    <3>6. n # 0 => layers'[n].out = layers'[n + 1].in
      BY <3>1, <3>2, <3>4 DEF LayersInv, n
    <3>7. LayersFit'
      <4> HIDE DEF n
      <4> QED BY <3>2, <3>5, <3>6 DEF LayersFit
    <3>8. \A k \in Compilers : layers'[Len(layers')].out = compile'[k].in
      BY <3>2, <3>3, <3>4
    <3> QED BY <3>7, <3>8 DEF LayersInv
  <2> QED BY <2>1, <2>2, <2>3, <2>4, WhoBuilds DEF Crash, CompileStart
<1>3. LayersInv => LayersFit
  BY DEF LayersInv
<1> QED BY <1>1, <1>2, <1>3, TInvariant, PTL DEF Spec

\* The layers so far, and the input size of the next one.
RequestedInv ==
    \A h \in Compilers : Compiling(h) =>
        LET r == compile[h]
        IN  /\ layers = FirstLayers(r.model, r.next - 1)
            /\ r.in = IF r.next = 1 THEN r.model.input ELSE r.model.sizes[r.next - 1]

\* A layer more.
LEMMA FirstLayersMore ==
    ASSUME NEW model \in Models, NEW n \in Nat, layers \in Seq(Layer),
           layers = FirstLayers(model, n), NEW e \in Layer,
           e = [ in |-> IF n = 0 THEN model.input ELSE model.sizes[n],
                 out |-> model.sizes[n + 1] ]
    PROVE  Append(layers, e) = FirstLayers(model, n + 1)
<1> DEFINE L(i) == [ in |-> IF i = 1 THEN model.input ELSE model.sizes[i - 1],
                    out |-> model.sizes[i] ]
<1>1. layers = [i \in 1 .. n |-> L(i)]
  BY DEF FirstLayers
<1>2. e = L(n + 1)
  <2>1. (n + 1) - 1 = n /\ (n + 1 = 1 <=> n = 0)
    OBVIOUS
  <2> QED BY <2>1
<1> HIDE DEF L
<1>3. Len(layers) = n
  <2>1. DOMAIN layers = 1 .. n /\ DOMAIN layers = 1 .. Len(layers) /\ Len(layers) \in Nat
    BY <1>1
  <2> QED BY <2>1
<1>4. /\ Append(layers, e) = [i \in 1 .. n + 1 |-> IF i = n + 1 THEN e ELSE layers[i]]
  BY <1>3
<1>5. [i \in 1 .. n + 1 |-> IF i = n + 1 THEN e ELSE layers[i]] = [i \in 1 .. n + 1 |-> L(i)]
  <2>1. ASSUME NEW i \in 1 .. n + 1
        PROVE  (IF i = n + 1 THEN e ELSE layers[i]) = L(i)
    BY <1>1, <1>2
  <2> QED BY <2>1
<1> QED BY <1>4, <1>5 DEF FirstLayers, L

\* If /compile requests never overlap, the network is at every step of one the
\* beginning of the network it asks for (NeuralNetwork.cpp:276-292, "Clear
\* existing layers", "Rebuild layers").
THEOREM OneCompilerBuilds ==
    ASSUME \A h, k \in Compilers : h = k
    PROVE  Spec => []LayersAsRequested
<1>1. Init => RequestedInv
  BY DEF Init, RequestedInv, Compiling, NoCompile
<1>2. TInv /\ RequestedInv /\ [Next]_vars => RequestedInv'
  <2> SUFFICES ASSUME TInv, RequestedInv, [Next]_vars PROVE RequestedInv'
    OBVIOUS
  <2>0. /\ layers \in Seq(Layer) /\ compile \in [Compilers -> CompileRecord]
        /\ \A h \in Compilers : Compiling(h) => compile[h].model \in Models
    BY DEF TInv, TypeOK, WorkInv
  <2>1. ASSUME UNCHANGED <<layers, compile>> PROVE RequestedInv'
    BY <2>1 DEF RequestedInv, Compiling
  <2>2. ASSUME \A h \in Compilers : compile'[h] = NoCompile PROVE RequestedInv'
    BY <2>2 DEF RequestedInv, Compiling, NoCompile
  <2>3. ASSUME NEW h \in Compilers, NEW model \in Models, CompileStart(h, model)
        PROVE  RequestedInv'
    <3>1. compile'[h] = [next |-> 1, in |-> model.input, model |-> model] /\ layers' = <<>>
      BY <2>0, <2>3 DEF CompileStart
    <3>2. FirstLayers(model, 0) = <<>>
      BY DEF FirstLayers
    <3> QED BY <3>1, <3>2 DEF RequestedInv
  <2>4. ASSUME NEW h \in Compilers, CompilePush(h) PROVE RequestedInv'
    <3> DEFINE r == compile[h]
               size == r.model.sizes[r.next]
               e == [in |-> r.in, out |-> size]
               n == r.next - 1
    <3>1. /\ layers' = Append(layers, e) /\ r.next # 0 /\ r.model \in Models
          /\ r.next <= Len(r.model.sizes)
          /\ compile' = [compile EXCEPT ![h] = [r EXCEPT !.next = @ + 1, !.in = size]]
      BY <2>0, <2>4 DEF CompilePush, Compiling, LayersLeft
    <3>2. r \in CompileRecord /\ r.next \in Nat /\ r.in \in Nat /\ n \in Nat /\ n + 1 = r.next
      BY <2>0, <3>1 DEF CompileRecord
    <3>3. /\ compile'[h].next = r.next + 1 /\ compile'[h].in = size
          /\ compile'[h].model = r.model
      BY <2>0, <3>1, <3>2 DEF CompileRecord
    <3>4. layers = FirstLayers(r.model, n)
          /\ r.in = IF n = 0 THEN r.model.input ELSE r.model.sizes[n]
      BY <3>1, <3>2 DEF RequestedInv, Compiling
    <3>5. e \in Layer
      <4>1. r.model.sizes \in Seq(Nat)
        BY <3>1, ServerAssumption DEF ModelsAssumption
      <4>2. r.next \in 1 .. Len(r.model.sizes)
        BY <3>1, <3>2, <4>1
      <4>3. size \in Nat
        BY <4>1, <4>2, Element
      <4> QED BY <3>2, <4>3 DEF Layer
    <3>6. e = [ in |-> IF n = 0 THEN r.model.input ELSE r.model.sizes[n],
               out |-> r.model.sizes[n + 1] ]
      BY <3>2, <3>4
    <3> HIDE DEF e, n, size
    <3>7. layers' = FirstLayers(r.model, n + 1)
      BY <2>0, <3>1, <3>2, <3>4, <3>5, <3>6, FirstLayersMore
    <3>8. (r.next + 1) - 1 = n + 1 /\ r.next + 1 # 1
      BY <3>1, <3>2
    <3>9. size = r.model.sizes[(r.next + 1) - 1]
      BY <3>2, <3>8 DEF size
    <3> QED BY <3>3, <3>7, <3>8, <3>9 DEF RequestedInv
  <2>5. ASSUME NEW cause, Crash(cause) PROVE RequestedInv'
    BY <2>2, <2>5 DEF Crash
  <2>6. ASSUME NEW h \in Compilers, CompileEnds(h) PROVE RequestedInv'
    BY <2>0, <2>2, <2>6 DEF CompileEnds
  <2> QED BY <2>1, <2>3, <2>4, <2>5, <2>6, WhoBuilds
<1>3. RequestedInv => LayersAsRequested
  BY DEF RequestedInv, LayersAsRequested
<1> QED BY <1>1, <1>2, <1>3, TInvariant, PTL DEF Spec

-----------------------------------------------------------------------------
(* What a client is told: sequences *)

\* A beginning of what is in order is in order.
LEMMA BeginningInOrder ==
    ASSUME NEW s \in Seq(Frames), NEW g \in Seq(Frames), Len(g) <= Len(s),
           \A i \in 1 .. Len(g) : g[i] = s[i],
           NEW t, NEW epochs, InOrder(s, t, epochs)
    PROVE  InOrder(g, t, epochs)
<1>0. Len(g) \in Nat /\ Len(s) \in Nat
  OBVIOUS
<1> SUFFICES ASSUME NEW i \in 1 .. Len(g), NEW j \in 1 .. Len(g), i < j,
                    From(g[i], t), From(g[j], t),
                    \A k \in i + 1 .. j - 1 : ~From(g[k], t)
             PROVE  Follows(g[i], g[j], epochs)
  BY DEF InOrder
<1>1. i \in 1 .. Len(s) /\ j \in 1 .. Len(s) /\ g[i] = s[i] /\ g[j] = s[j]
  BY <1>0
<1>2. ASSUME NEW k \in i + 1 .. j - 1 PROVE ~From(s[k], t)
  <2>1. k \in 1 .. Len(g)
    BY <1>0
  <2> QED BY <2>1
<1> QED BY <1>1, <1>2 DEF InOrder

\* z is s with f put in after the first n.
Inserted(s, n, f, z) ==
    /\ Len(z) = Len(s) + 1 /\ n \in Nat /\ Len(s) \in Nat /\ n <= Len(s)
    /\ \A i \in 1 .. Len(s) + 1 :
          z[i] = IF i <= n THEN s[i] ELSE IF i = n + 1 THEN f ELSE s[i - 1]

\* A message of somebody else anywhere in the stream changes nothing.
LEMMA InsertParts ==
    ASSUME NEW a \in Seq(Frames), NEW b \in Seq(Frames), NEW f \in Frames
    PROVE  Inserted(a \o b, Len(a), f, (a \o <<f>>) \o b)
<1> DEFINE d == <<f>>
           e == a \o d
<1>1. d \in Seq(Frames) /\ Len(d) = 1 /\ d[1] = f
  OBVIOUS
<1> HIDE DEF d
<1>2. /\ e \in Seq(Frames) /\ Len(e) = Len(a) + Len(d)
      /\ \A i \in 1 .. Len(a) + Len(d) :
            e[i] = IF i <= Len(a) THEN a[i] ELSE d[i - Len(a)]
  BY <1>1, FramesConcat, FramesParts
<1> HIDE DEF e
<1>3. /\ Len(e \o b) = Len(e) + Len(b)
      /\ \A i \in 1 .. Len(e) + Len(b) :
            (e \o b)[i] = IF i <= Len(e) THEN e[i] ELSE b[i - Len(e)]
  BY <1>2, FramesParts
<1>4. /\ Len(a \o b) = Len(a) + Len(b)
      /\ \A i \in 1 .. Len(a) + Len(b) :
            (a \o b)[i] = IF i <= Len(a) THEN a[i] ELSE b[i - Len(a)]
  BY FramesParts
<1>5. Len(a) \in Nat /\ Len(b) \in Nat
  OBVIOUS
<1>6. ASSUME NEW i \in 1 .. Len(a \o b) + 1
      PROVE  (e \o b)[i] = IF i <= Len(a) THEN (a \o b)[i]
                           ELSE IF i = Len(a) + 1 THEN f ELSE (a \o b)[i - 1]
  <2>0. i \in 1 .. Len(e) + Len(b)
    BY <1>1, <1>2, <1>4, <1>5
  <2>1. CASE i <= Len(a)
    <3>1. i \in 1 .. Len(a) + Len(b) /\ i \in 1 .. Len(a) + Len(d) /\ i <= Len(e)
      BY <1>1, <1>2, <1>5, <2>1
    <3> QED BY <1>2, <1>3, <1>4, <2>0, <2>1, <3>1
  <2>2. CASE i = Len(a) + 1
    <3>1. i \in 1 .. Len(a) + Len(d) /\ i <= Len(e) /\ ~(i <= Len(a)) /\ i - Len(a) = 1
      BY <1>1, <1>2, <1>5, <2>2
    <3> QED BY <1>1, <1>2, <1>3, <2>0, <2>2, <3>1
  <2>3. CASE i > Len(a) + 1
    <3>1. /\ i - 1 \in 1 .. Len(a) + Len(b) /\ ~(i <= Len(e)) /\ ~(i - 1 <= Len(a))
          /\ i - Len(e) = (i - 1) - Len(a) /\ ~(i <= Len(a)) /\ i # Len(a) + 1
      BY <1>1, <1>2, <1>4, <1>5, <2>3
    <3> QED BY <1>3, <1>4, <2>0, <3>1
  <2>4. i <= Len(a) \/ i = Len(a) + 1 \/ i > Len(a) + 1
    BY <1>4, <1>5
  <2> QED BY <2>1, <2>2, <2>3, <2>4
<1>7. Len(e \o b) = Len(a \o b) + 1 /\ Len(a \o b) \in Nat /\ Len(a) <= Len(a \o b)
  BY <1>1, <1>2, <1>3, <1>4, <1>5
<1>8. Inserted(a \o b, Len(a), f, e \o b)
  BY <1>5, <1>6, <1>7 DEF Inserted
<1> QED BY <1>8 DEF e, d

\* It leaves the order of what t said ...
LEMMA InsertInOrder ==
    ASSUME NEW a \in Seq(Frames), NEW b \in Seq(Frames), NEW f \in Frames,
           NEW t, ~From(f, t), NEW epochs, InOrder(a \o b, t, epochs)
    PROVE  InOrder((a \o <<f>>) \o b, t, epochs)
<1> DEFINE s == a \o b
           n == Len(a)
           z == (a \o <<f>>) \o b
<1>0. Inserted(s, n, f, z)
  BY InsertParts
<1>1. InOrder(s, t, epochs)
  OBVIOUS
<1> HIDE DEF s, n, z
<1>2. /\ Len(z) = Len(s) + 1 /\ n \in Nat /\ Len(s) \in Nat /\ n <= Len(s)
      /\ \A i \in 1 .. Len(s) + 1 :
            z[i] = IF i <= n THEN s[i] ELSE IF i = n + 1 THEN f ELSE s[i - 1]
  BY <1>0 DEF Inserted
<1> SUFFICES ASSUME NEW i \in 1 .. Len(z), NEW j \in 1 .. Len(z), i < j,
                    From(z[i], t), From(z[j], t),
                    \A k \in i + 1 .. j - 1 : ~From(z[k], t)
             PROVE  Follows(z[i], z[j], epochs)
  BY DEF InOrder, z
<1> DEFINE before(k) == IF k <= n THEN k ELSE k - 1
           after(k) == IF k <= n THEN k ELSE k + 1
<1>3. i # n + 1 /\ j # n + 1
  BY <1>2
<1>4. /\ before(i) \in 1 .. Len(s) /\ before(j) \in 1 .. Len(s) /\ before(i) < before(j)
      /\ z[i] = s[before(i)] /\ z[j] = s[before(j)]
  BY <1>2, <1>3
<1>5. ASSUME NEW k \in before(i) + 1 .. before(j) - 1 PROVE ~From(s[k], t)
  <2>1. k \in 1 .. Len(s) /\ k \in Int
    BY <1>2, <1>4
  <2>2. after(k) \in i + 1 .. j - 1
    BY <1>2, <1>3, <1>5, <2>1
  <2>3. after(k) \in 1 .. Len(s) + 1 /\ z[after(k)] = s[k]
    BY <1>2, <2>1
  <2> QED BY <2>2, <2>3
<1> HIDE DEF before, after
<1> QED BY <1>1, <1>4, <1>5 DEF InOrder

\* ... and its last message where they were.
LEMMA InsertUpToDate ==
    ASSUME NEW a \in Seq(Frames), NEW b \in Seq(Frames), NEW f \in Frames,
           NEW t, ~From(f, t), NEW c, NEW r,
           Begun(a \o b, t, r), UpToDate(a \o b, c, t, r)
    PROVE  Begun((a \o <<f>>) \o b, t, r) /\ UpToDate((a \o <<f>>) \o b, c, t, r)
<1> DEFINE s == a \o b
           n == Len(a)
           z == (a \o <<f>>) \o b
<1>0. Inserted(s, n, f, z)
  BY InsertParts
<1>1. Begun(s, t, r) /\ UpToDate(s, c, t, r)
  OBVIOUS
<1> HIDE DEF s, n, z
<1>2. /\ Len(z) = Len(s) + 1 /\ n \in Nat /\ Len(s) \in Nat /\ n <= Len(s)
      /\ \A i \in 1 .. Len(s) + 1 :
            z[i] = IF i <= n THEN s[i] ELSE IF i = n + 1 THEN f ELSE s[i - 1]
  BY <1>0 DEF Inserted
<1> DEFINE before(k) == IF k <= n THEN k ELSE k - 1
           after(k) == IF k <= n THEN k ELSE k + 1
<1>3. ASSUME NEW i \in 1 .. Len(z), From(z[i], t)
      PROVE  i # n + 1 /\ before(i) \in 1 .. Len(s) /\ z[i] = s[before(i)]
  BY <1>2, <1>3
<1>4. ASSUME NEW i \in 1 .. Len(z), From(z[i], t),
             \A j \in i + 1 .. Len(z) : ~From(z[j], t)
      PROVE  \A k \in before(i) + 1 .. Len(s) : ~From(s[k], t)
  <2> SUFFICES ASSUME NEW k \in before(i) + 1 .. Len(s) PROVE ~From(s[k], t)
    OBVIOUS
  <2>1. k \in 1 .. Len(s) /\ k \in Int /\ i # n + 1
    BY <1>2, <1>3, <1>4
  <2>2. after(k) \in i + 1 .. Len(z)
    BY <1>2, <1>4, <2>1
  <2>3. after(k) \in 1 .. Len(s) + 1 /\ z[after(k)] = s[k]
    BY <1>2, <2>1
  <2> QED BY <1>4, <2>2, <2>3
<1> HIDE DEF before, after
<1>5. Begun(z, t, r)
  BY <1>1, <1>3 DEF Begun
<1>6. UpToDate(z, c, t, r)
  BY <1>1, <1>3, <1>4 DEF UpToDate
<1> QED BY <1>5, <1>6 DEF z

\* One more message of another training, or of none, at the end.
LEMMA AppendOther ==
    ASSUME NEW s \in Seq(Frames), NEW f \in Frames, NEW t, ~From(f, t), NEW c, NEW r,
           InOrder(s, t, r.job.epochs), Begun(s, t, r), UpToDate(s, c, t, r)
    PROVE  /\ InOrder(Append(s, f), t, r.job.epochs)
           /\ Begun(Append(s, f), t, r)
           /\ UpToDate(Append(s, f), c, t, r)
<1> DEFINE none == <<>>
           z == (s \o <<f>>) \o none
<1>1. none \in Seq(Frames) /\ s \o none = s
  BY FramesConcat
<1>2. z = Append(s, f)
  OBVIOUS
<1> HIDE DEF none
<1>3. InOrder(z, t, r.job.epochs)
  BY <1>1, InsertInOrder
<1>4. Begun(z, t, r) /\ UpToDate(z, c, t, r)
  BY <1>1, InsertUpToDate
<1> QED BY <1>2, <1>3, <1>4

\* The end of a stream, after one more message.
LEMMA AppendParts ==
    ASSUME NEW s \in Seq(Frames), NEW f \in Frames
    PROVE  /\ Append(s, f) \in Seq(Frames)
           /\ Len(Append(s, f)) = Len(s) + 1 /\ Len(s) \in Nat
           /\ \A i \in 1 .. Len(s) : Append(s, f)[i] = s[i]
           /\ Append(s, f)[Len(s) + 1] = f
  OBVIOUS

\* One more message of the training itself stays in order if it follows on the
\* last one.
LEMMA AppendInOrder ==
    ASSUME NEW s \in Seq(Frames), NEW f \in Frames, NEW t, NEW epochs,
           InOrder(s, t, epochs),
           \A i \in 1 .. Len(s) :
              From(s[i], t) /\ (\A k \in i + 1 .. Len(s) : ~From(s[k], t))
                 => Follows(s[i], f, epochs)
    PROVE  InOrder(Append(s, f), t, epochs)
<1> DEFINE z == Append(s, f)
<1>1. /\ Len(z) = Len(s) + 1 /\ Len(s) \in Nat
      /\ \A i \in 1 .. Len(s) : z[i] = s[i]
      /\ z[Len(s) + 1] = f
  BY AppendParts
<1> HIDE DEF z
<1> SUFFICES ASSUME NEW i \in 1 .. Len(z), NEW j \in 1 .. Len(z), i < j,
                    From(z[i], t), From(z[j], t),
                    \A k \in i + 1 .. j - 1 : ~From(z[k], t)
             PROVE  Follows(z[i], z[j], epochs)
  BY DEF InOrder, z
<1>2. i \in 1 .. Len(s) /\ z[i] = s[i]
  BY <1>1
<1>3. ASSUME NEW k \in i + 1 .. j - 1 PROVE k \in 1 .. Len(s) /\ ~From(s[k], t)
  <2>1. k \in 1 .. Len(s)
    BY <1>1
  <2> QED BY <1>1, <1>3, <2>1
<1>4. CASE j = Len(s) + 1
  <2>1. \A k \in i + 1 .. Len(s) : k \in i + 1 .. j - 1
    BY <1>1, <1>4
  <2>2. \A k \in i + 1 .. Len(s) : ~From(s[k], t)
    BY <1>3, <2>1
  <2> QED BY <1>1, <1>2, <1>4, <2>2
<1>5. CASE j \in 1 .. Len(s)
  <2>1. z[j] = s[j]
    BY <1>1, <1>5
  <2>2. \A k \in i + 1 .. j - 1 : ~From(s[k], t)
    BY <1>3
  <2> QED BY <1>2, <1>5, <2>1, <2>2 DEF InOrder
<1>6. j = Len(s) + 1 \/ j \in 1 .. Len(s)
  BY <1>1
<1> QED BY <1>4, <1>5, <1>6

\* The message of the epoch that ended (NeuralNetwork.cpp:64-67).
LEMMA AppendEpoch ==
    ASSUME NEW s \in Seq(Frames), NEW t, NEW c, NEW r, NEW new,
           Message("epoch", t, r.epoch) \in Frames,
           InOrder(s, t, r.job.epochs), UpToDate(s, c, t, r),
           r.pc = "report", r.epoch \in Nat, r.ws = c,
           new.pc \in {"forward", "check"}, new.epoch = r.epoch,
           new.job = r.job, new.ws = c
    PROVE  LET z == Append(s, Message("epoch", t, r.epoch))
           IN  InOrder(z, t, new.job.epochs) /\ Begun(z, t, new) /\ UpToDate(z, c, t, new)
<1> DEFINE f == Message("epoch", t, r.epoch)
           z == Append(s, f)
<1>1. f.kind = "epoch" /\ f.of = t /\ f.n = r.epoch /\ f \in Frames
  BY DEF Message
<1>2. From(f, t)
  BY <1>1 DEF From
<1> HIDE DEF f
<1>3. /\ Len(z) = Len(s) + 1 /\ Len(s) \in Nat
      /\ \A i \in 1 .. Len(s) : z[i] = s[i]
      /\ z[Len(s) + 1] = f
  BY <1>1, AppendParts
<1>4. ASSUME NEW i \in 1 .. Len(s), From(s[i], t), \A k \in i + 1 .. Len(s) : ~From(s[k], t)
      PROVE  Follows(s[i], f, r.job.epochs)
  <2>1. s[i].kind \in {"epoch", "final"} /\ s[i].kind # "final"
    BY <1>4 DEF From, UpToDate
  <2>2. s[i].n = r.epoch - 1
    BY <1>4, <2>1 DEF UpToDate
  <2> QED BY <1>1, <2>1, <2>2 DEF Follows
<1>5. InOrder(z, t, r.job.epochs)
  BY <1>1, <1>4, AppendInOrder
<1> HIDE DEF z
<1>6. ASSUME NEW i \in 1 .. Len(z), From(z[i], t)
      PROVE  /\ z[i].kind # "final"
             /\ i = Len(z) \/ Len(z) \in i + 1 .. Len(z)
  <2>1. CASE i \in 1 .. Len(s)
    BY <1>3, <1>6, <2>1 DEF UpToDate
  <2>2. CASE i = Len(s) + 1
    BY <1>1, <1>3, <2>2
  <2> QED BY <1>3, <2>1, <2>2
<1>7. Begun(z, t, new)
  BY DEF Begun
<1>8. UpToDate(z, c, t, new)
  <2> SUFFICES ASSUME NEW i \in 1 .. Len(z), From(z[i], t),
                      \A j \in i + 1 .. Len(z) : ~From(z[j], t)
               PROVE  new.ws = c /\ z[i].n = new.epoch
    BY <1>6 DEF UpToDate
  <2>1. i = Len(z)
    BY <1>2, <1>3, <1>6
  <2> QED BY <1>1, <1>3, <2>1
<1> QED BY <1>5, <1>7, <1>8 DEF f, z

\* The result (RouteHandlers.cpp:56).
LEMMA AppendFinal ==
    ASSUME NEW s \in Seq(Frames), NEW t, NEW c, NEW r, NEW new,
           Message("final", t, 0) \in Frames,
           InOrder(s, t, r.job.epochs), UpToDate(s, c, t, r),
           r.pc = "send", r.epoch = r.job.epochs, new.pc = "loadClose", new.job = r.job
    PROVE  LET z == Append(s, Message("final", t, 0))
           IN  InOrder(z, t, new.job.epochs) /\ Begun(z, t, new) /\ UpToDate(z, c, t, new)
<1> DEFINE f == Message("final", t, 0)
           z == Append(s, f)
<1>1. f.kind = "final" /\ f.of = t /\ f \in Frames
  BY DEF Message
<1>2. From(f, t)
  BY <1>1 DEF From
<1> HIDE DEF f
<1>3. /\ Len(z) = Len(s) + 1 /\ Len(s) \in Nat
      /\ \A i \in 1 .. Len(s) : z[i] = s[i]
      /\ z[Len(s) + 1] = f
  BY <1>1, AppendParts
<1>4. ASSUME NEW i \in 1 .. Len(s), From(s[i], t), \A k \in i + 1 .. Len(s) : ~From(s[k], t)
      PROVE  Follows(s[i], f, r.job.epochs)
  <2>1. s[i].kind \in {"epoch", "final"} /\ s[i].kind # "final"
    BY <1>4 DEF From, UpToDate
  <2>2. s[i].n = r.job.epochs
    BY <1>4, <2>1 DEF UpToDate
  <2> QED BY <1>1, <2>1, <2>2 DEF Follows
<1>5. InOrder(z, t, r.job.epochs)
  BY <1>1, <1>4, AppendInOrder
<1> HIDE DEF z
<1>6. Begun(z, t, new)
  BY DEF Begun
<1>7. UpToDate(z, c, t, new)
  <2> SUFFICES ASSUME NEW i \in 1 .. Len(z), From(z[i], t), z[i].kind = "epoch",
                      \A j \in i + 1 .. Len(z) : ~From(z[j], t)
               PROVE  FALSE
    BY DEF UpToDate
  <2>1. Len(z) \notin i + 1 .. Len(z)
    BY <1>2, <1>3
  <2>2. i = Len(z)
    BY <1>3, <2>1
  <2> QED BY <1>1, <1>3, <2>2
<1> QED BY <1>5, <1>6, <1>7 DEF f, z

\* A thread that goes on without a message for c, or ends.
GoesOn(r, new, c) ==
    \/ new.pc = "done"
    \/ r.pc \in {"idle", "start", "call"}
    \/ /\ r.pc # "done" /\ new.pc \notin {"idle", "start", "call"}
       /\ r.pc \in {"loadClose", "close"} => new.pc \in {"loadClose", "close"}
       /\ \/ r.ws # c
          \/ /\ new.ws = r.ws
             /\ (IF new.pc = "report" THEN new.epoch - 1 ELSE new.epoch)
                   = IF r.pc = "report" THEN r.epoch - 1 ELSE r.epoch
\* Such a step keeps what its stream says of it up to date.
LEMMA GoesOnTelling ==
    ASSUME NEW s, NEW t, NEW c, NEW r, NEW new, GoesOn(r, new, c), Begun(s, t, r)
    PROVE  Begun(s, t, new) /\ (UpToDate(s, c, t, r) => UpToDate(s, c, t, new))
  BY DEF GoesOn, Begun, UpToDate

\* A thread that has said nothing may take any request.
LEMMA NoneYet ==
    ASSUME NEW s, NEW t, NEW r, r.pc \in {"idle", "start", "call"}, Begun(s, t, r)
    PROVE  \A new, c, epochs : /\ InOrder(s, t, epochs) /\ Begun(s, t, new)
                               /\ UpToDate(s, c, t, new)
  BY DEF Begun, InOrder, UpToDate

-----------------------------------------------------------------------------
(* What a client is told: the steps of a connection *)

\* What has been received is in order, whether more will come or not.
LEMMA GotTelling ==
    ASSUME TypeOK, TellingInv, NEW c \in Conns, NEW t \in Threads
    PROVE  InOrder(got[c], t, thread[t].job.epochs) /\ Begun(got[c], t, thread[t])
<1>1. CASE Lost(c)
  BY <1>1 DEF TellingInv
<1>2. CASE ~Lost(c)
  <2> DEFINE g == got[c]
             s == Stream(c)
             r == thread[t]
  <2>1. InOrder(s, t, r.job.epochs) /\ Begun(s, t, r)
    BY <1>2 DEF TellingInv
  <2>2. /\ g \in Seq(Frames) /\ s \in Seq(Frames)
        /\ Len(g) \in Nat /\ Len(g) <= Len(s)
        /\ \A i \in 1 .. Len(g) : g[i] = s[i]
    BY StreamType, GotBegins DEF TypeOK
  <2> HIDE DEF g, s, r
  <2>3. InOrder(g, t, r.job.epochs)
    BY <2>1, <2>2, BeginningInOrder
  <2>4. \A i \in 1 .. Len(g) : i \in 1 .. Len(s)
    BY <2>2
  <2>5. Begun(g, t, r)
    BY <2>1, <2>2, <2>4 DEF Begun
  <2> QED BY <2>3, <2>5 DEF g, r
<1> QED BY <1>1, <1>2

\* Nothing is said yet.
LEMMA NothingTold ==
    ASSUME NEW t, NEW c, NEW r, NEW s \in {<<>>, <<Hello>>}
    PROVE  InOrder(s, t, r.job.epochs) /\ Begun(s, t, r) /\ UpToDate(s, c, t, r)
<1>1. \A i \in 1 .. Len(s) : ~From(s[i], t)
  BY DEF From, Hello
<1> QED BY <1>1 DEF InOrder, Begun, UpToDate

\* Another connection's messages, and those of every other training.
LEMMA OthersTelling ==
    ASSUME TellingInv, NEW d \in Conns, NEW t \in Threads,
           conn'[d] = conn[d], got'[d] = got[d], posted'[d] = posted[d],
           thread'[t] = thread[t]
    PROVE  LET r == thread'[t]
               s == IF Lost(d)' THEN got'[d] ELSE Stream(d)'
           IN  /\ InOrder(s, t, r.job.epochs)
               /\ Begun(s, t, r)
               /\ ~Lost(d)' => UpToDate(s, d, t, r)
<1>1. Lost(d)' = Lost(d) /\ Stream(d)' = Stream(d)
  BY DEF Lost, Stream, Unsent
<1>2. CASE Lost(d)
  BY <1>1, <1>2 DEF TellingInv
<1>3. CASE ~Lost(d)
  BY <1>1, <1>3 DEF TellingInv
<1> QED BY <1>2, <1>3

\* One step of connection c: it is lost and has received nothing new, its
\* stream is the same or has one message more that is of no training, or it
\* begins.
LEMMA ConnTelling ==
    ASSUME TypeOK, EndsInv, TellingInv, NEW c \in Conns, UNCHANGED thread,
           \A d \in Conns \ {c} : /\ conn'[d] = conn[d] /\ got'[d] = got[d]
                                  /\ posted'[d] = posted[d],
           ~Alive(c)' => conn'[c].sock = "down" /\ got'[c] = <<>> /\ posted'[c] = <<>>,
           Quiet(conn'[c]),
           Lost(c)' => got'[c] \in {got[c], <<>>},
           ~Lost(c)' =>
              \/ Stream(c)' = <<Hello>>
              \/ /\ ~Lost(c)
                 /\ \/ Stream(c)' = Stream(c)
                    \/ \E a, b \in Seq(Frames), f \in Frames :
                          /\ f.kind \notin {"epoch", "final"}
                          /\ Stream(c) = a \o b
                          /\ Stream(c)' = (a \o <<f>>) \o b
    PROVE  EndsInv' /\ TellingInv'
<1>1. EndsInv'
  <2> SUFFICES ASSUME NEW d \in Conns
               PROVE  /\ ~Alive(d)' => /\ conn'[d].sock = "down" /\ got'[d] = <<>>
                                       /\ posted'[d] = <<>>
                      /\ Quiet(conn'[d])
    BY DEF EndsInv
  <2>1. CASE d = c
    BY <2>1
  <2>2. CASE d # c
    BY <2>2 DEF EndsInv, Alive
  <2> QED BY <2>1, <2>2
<1>2. ASSUME NEW t \in Threads
      PROVE  LET r == thread'[t]
                 s == IF Lost(c)' THEN got'[c] ELSE Stream(c)'
             IN  /\ InOrder(s, t, r.job.epochs)
                 /\ Begun(s, t, r)
                 /\ ~Lost(c)' => UpToDate(s, c, t, r)
  <2> DEFINE r == thread[t]
  <2>0. thread'[t] = r
    OBVIOUS
  <2> HIDE DEF r
  <2>1. CASE Lost(c)'
    <3>1. InOrder(got[c], t, r.job.epochs) /\ Begun(got[c], t, r)
      BY GotTelling DEF r
    <3>2. InOrder(<<>>, t, r.job.epochs) /\ Begun(<<>>, t, r)
      BY NothingTold
    <3>3. got'[c] = got[c] \/ got'[c] = <<>>
      BY <2>1
    <3> QED BY <2>0, <2>1, <3>1, <3>2, <3>3
  <2>2. CASE ~Lost(c)' /\ Stream(c)' = <<Hello>>
    <3>1. InOrder(<<Hello>>, t, r.job.epochs) /\ Begun(<<Hello>>, t, r) /\ UpToDate(<<Hello>>, c, t, r)
      BY NothingTold
    <3> QED BY <2>0, <2>2, <3>1
  <2>3. ASSUME ~Lost(c)
        PROVE  InOrder(Stream(c), t, r.job.epochs) /\ Begun(Stream(c), t, r)
               /\ UpToDate(Stream(c), c, t, r)
    BY <2>3 DEF TellingInv, r
  <2>4. CASE ~Lost(c)' /\ ~Lost(c) /\ Stream(c)' = Stream(c)
    BY <2>0, <2>3, <2>4
  <2>5. ASSUME ~Lost(c)', ~Lost(c), NEW a \in Seq(Frames), NEW b \in Seq(Frames),
               NEW f \in Frames, f.kind \notin {"epoch", "final"},
               Stream(c) = a \o b, Stream(c)' = (a \o <<f>>) \o b
        PROVE  /\ InOrder(Stream(c)', t, r.job.epochs)
               /\ Begun(Stream(c)', t, r)
               /\ UpToDate(Stream(c)', c, t, r)
    <3>1. ~From(f, t)
      BY <2>5 DEF From
    <3>2. InOrder(a \o b, t, r.job.epochs) /\ Begun(a \o b, t, r) /\ UpToDate(a \o b, c, t, r)
      BY <2>3, <2>5
    <3>3. InOrder((a \o <<f>>) \o b, t, r.job.epochs)
      BY <3>1, <3>2, InsertInOrder
    <3>4. Begun((a \o <<f>>) \o b, t, r) /\ UpToDate((a \o <<f>>) \o b, c, t, r)
      BY <3>1, <3>2, InsertUpToDate
    <3> QED BY <2>5, <3>3, <3>4
  <2> QED BY <2>0, <2>1, <2>2, <2>4, <2>5
<1>3. ASSUME NEW d \in Conns, NEW t \in Threads
      PROVE  LET r == thread'[t]
                 s == IF Lost(d)' THEN got'[d] ELSE Stream(d)'
             IN  /\ InOrder(s, t, r.job.epochs)
                 /\ Begun(s, t, r)
                 /\ ~Lost(d)' => UpToDate(s, d, t, r)
  <2>1. CASE d = c
    BY <1>2, <2>1
  <2>2. CASE d # c
    <3>1. conn'[d] = conn[d] /\ got'[d] = got[d] /\ posted'[d] = posted[d] /\ thread'[t] = thread[t]
      BY <2>2
    <3> QED BY <3>1, OthersTelling
  <2> QED BY <2>1, <2>2
<1>4. TellingInv'
  BY <1>3 DEF TellingInv
<1> QED BY <1>1, <1>4

\* A message at the end of a stream is one message more.
LEMMA AtTheEnd ==
    ASSUME NEW s \in Seq(Frames), NEW f \in Frames
    PROVE  \E a, b \in Seq(Frames) : s = a \o b /\ Append(s, f) = (a \o <<f>>) \o b
<1>1. <<>> \in Seq(Frames) /\ s \o <<>> = s /\ Append(s, f) = (s \o <<f>>) \o <<>>
  OBVIOUS
<1> QED BY <1>1

\* The end of check_destroy() (websocket.h:755-765): an object that stays and
\* is not lost has something to send or to read.
LEMMA DestroyTelling ==
    ASSUME TypeOK, EndsInv, TellingInv, NEW c \in Conns, NEW r \in Connection,
           DeleteIfIdle(c, r) \/ CheckDestroy(c, r), UNCHANGED thread,
           r.sock = "shut" => ~r.isReading,
           r.sock # "down" /\ (r.sendingBuffers # <<>> \/ r.isReading) =>
              /\ ~Lost(c)
              /\ \/ Unsent(r) = Unsent(conn[c])
                 \/ Unsent(r) = Unsent(conn[c]) \o <<CloseFrame>>
    PROVE  EndsInv' /\ TellingInv'
<1>1. /\ ConnTypeOK
      /\ got[c] \in Seq(Frames) /\ Unsent(conn[c]) \in Seq(Frames)
      /\ posted[c] \in Seq(Frames)
  BY StreamType DEF TypeOK
<1>2. /\ \A d \in Conns \ {c} : /\ conn'[d] = conn[d] /\ got'[d] = got[d]
                                 /\ posted'[d] = posted[d]
      /\ \/ conn'[c] = NoObject /\ got'[c] = <<>> /\ posted'[c] = <<>>
         \/ /\ UNCHANGED <<posted, got>>
            /\ \E s \in {"run", "onclose"} : conn'[c] = [r EXCEPT !.io = s]
  BY <1>1, Destroyed
<1>3. CASE conn'[c] = NoObject /\ got'[c] = <<>> /\ posted'[c] = <<>>
  <2>1. ~Alive(c)' /\ Lost(c)' /\ conn'[c].sock = "down" /\ conn'[c].io = "none"
    BY <1>3 DEF Alive, Lost, NoObject
  <2> QED BY <1>2, <1>3, <2>1, ConnTelling DEF Quiet
<1>4. ASSUME UNCHANGED <<posted, got>>, NEW s \in {"run", "onclose"},
             conn'[c] = [r EXCEPT !.io = s],
             ~(conn'[c] = NoObject /\ got'[c] = <<>> /\ posted'[c] = <<>>)
      PROVE  EndsInv' /\ TellingInv'
  <2> DEFINE q == [r EXCEPT !.io = s]
  <2>1. /\ q.io = s /\ q.sock = r.sock /\ q.isReading = r.isReading
        /\ q.flushed = r.flushed /\ q.sendingBuffers = r.sendingBuffers
        /\ q.writeBuffers = r.writeBuffers
    BY DEF Connection
  <2>2. conn'[c] = q
    BY <1>4
  <2> HIDE DEF q
  <2>3. Alive(c)' /\ Quiet(conn'[c])
    BY <2>1, <2>2 DEF Quiet, Alive
  <2>4. CASE Lost(c)'
    BY <1>2, <1>4, <2>3, <2>4, ConnTelling
  <2>5. CASE ~Lost(c)'
    <3>1. r.sock # "down" /\ (r.sendingBuffers # <<>> \/ r.isReading)
      <4>1. r.sock # "down"
        BY <2>1, <2>2, <2>5 DEF Lost
      <4>2. CASE s = "onclose"
        BY <2>1, <2>2, <2>5, <4>1, <4>2 DEF Lost
      <4>3. CASE s = "run"
        <5>1. CASE r.sendingBuffers = <<>> /\ ~r.isReading
          <6>1. NoObject.io = "none" /\ conn'[c].io = "run"
            BY <2>1, <2>2, <4>3 DEF NoObject
          <6>2. ~DeleteIfIdle(c, r)
            BY <1>1, <5>1, <6>1 DEF DeleteIfIdle, ConnTypeOK
          <6>3. CheckDestroy(c, r) /\ ~r.closeHandlerCalled
            BY <6>2 DEF CheckDestroy
          <6>4. conn'[c].io = "onclose"
            BY <1>1, <6>3 DEF CheckDestroy, ConnTypeOK, Connection
          <6> QED BY <6>1, <6>4
        <5> QED BY <4>1, <5>1
      <4> QED BY <4>2, <4>3
    <3>2. Unsent(conn'[c]) = Unsent(r)
      BY <2>1, <2>2 DEF Unsent
    <3>3. Stream(c)' = (got[c] \o Unsent(r)) \o posted[c]
      BY <1>4, <3>2, StreamNext
    <3>4. CASE Unsent(r) = Unsent(conn[c])
      <4>1. Stream(c)' = Stream(c)
        BY <3>3, <3>4 DEF Stream
      <4> QED BY <1>2, <1>4, <2>3, <2>5, <3>1, <4>1, ConnTelling
    <3>5. CASE Unsent(r) = Unsent(conn[c]) \o <<CloseFrame>>
      <4> DEFINE g == got[c]
                 u == Unsent(conn[c])
                 p == posted[c]
                 d == <<CloseFrame>>
      <4>0. CloseFrame \in Frames /\ CloseFrame.kind \notin {"epoch", "final"}
        BY DEF Frames, CloseFrame
      <4>1. g \in Seq(Frames) /\ u \in Seq(Frames) /\ p \in Seq(Frames) /\ d \in Seq(Frames)
        BY <1>1, <4>0
      <4>2. Stream(c)' = (g \o (u \o d)) \o p /\ Stream(c) = (g \o u) \o p
        BY <3>3, <3>5 DEF Stream
      <4> HIDE DEF g, u, p, d
      <4>3. g \o u \in Seq(Frames)
        BY <4>1, FramesConcat
      <4>4. g \o (u \o d) = (g \o u) \o d
        BY <4>1, FramesAssoc
      <4>5. Stream(c)' = ((g \o u) \o d) \o p
        BY <4>2, <4>4
      <4>6. \E a, b \in Seq(Frames), f \in Frames :
               /\ f.kind \notin {"epoch", "final"}
               /\ Stream(c) = a \o b
               /\ Stream(c)' = (a \o <<f>>) \o b
        BY <4>0, <4>1, <4>2, <4>3, <4>5 DEF d
      <4> QED BY <1>2, <1>4, <2>3, <2>5, <3>1, <4>6, ConnTelling
    <3> QED BY <3>1, <3>4, <3>5
  <2> QED BY <2>4, <2>5
<1> QED BY <1>2, <1>3, <1>4

\* Nothing of it changes.
LEMMA SameTelling ==
    ASSUME EndsInv, TellingInv, UNCHANGED <<connVars, thread>>
    PROVE  EndsInv' /\ TellingInv'
<1>0. UNCHANGED <<conn, got, posted>>
  BY DEF connVars
<1>1. EndsInv'
  BY <1>0 DEF EndsInv, Alive
<1>2. TellingInv'
  BY <1>0, OthersTelling DEF TellingInv
<1> QED BY <1>1, <1>2

\* Everything is gone.
LEMMA CrashTelling ==
    ASSUME NEW cause, Crash(cause)
    PROVE  EndsInv' /\ TellingInv'
<1>1. \A c \in Conns : conn'[c] = NoObject /\ got'[c] = <<>> /\ posted'[c] = <<>>
  BY DEF Crash
<1>2. NoObject.io = "none" /\ NoObject.sock = "down" /\ NoObject.isReading = FALSE
  BY DEF NoObject
<1>3. EndsInv'
  BY <1>1, <1>2 DEF Quiet, EndsInv
<1>4. \A c \in Conns : Lost(c)'
  BY <1>1, <1>2 DEF Lost
<1>5. TellingInv'
  BY <1>1, <1>4, NothingTold DEF TellingInv
<1> QED BY <1>3, <1>5

\* Crow's own handlers (websocket.h:718-796).
LEMMA IoTelling ==
    ASSUME TypeOK, EndsInv, TellingInv, NEW c \in Conns, Io(c)
    PROVE  EndsInv' /\ TellingInv'
<1> DEFINE r == conn[c]
<1>0. /\ ConnTypeOK /\ r \in Connection /\ UNCHANGED thread
      /\ r.io # "none"
      /\ Quiet(r)
  BY DEF TypeOK, ConnTypeOK, Io, IoStep, RunPosted, Deliver, WriteDone, WriteDoneClosing,
         ReadError, EndsInv, Alive, serverVars
<1>1. CASE RunPosted(c)
  <2> DEFINE f == Head(posted[c])
             x == IF f = CloseFrame THEN [r EXCEPT !.sentClose = TRUE] ELSE r
             q == Enqueue(x, f)
  <2>1. /\ x \in Connection /\ x.io = r.io /\ x.sock = r.sock /\ x.isReading = r.isReading
    BY <1>0 DEF Connection
  <2>2. f \in Frames
    BY <1>0, <1>1 DEF RunPosted, ConnTypeOK, Frames
  <2>3. conn' = [conn EXCEPT ![c] = q]
    BY <1>1 DEF RunPosted, WriteClose
  <2> HIDE DEF x, f
  <2>4. q.io = r.io /\ q.sock = r.sock /\ q.isReading = r.isReading
    BY <2>1, <2>2, EnqueueSame
  <2> HIDE DEF q
  <2>5. /\ conn'[c] = q /\ r.io = "run" /\ got'[c] = got[c]
        /\ \A d \in Conns \ {c} : /\ conn'[d] = conn[d] /\ got'[d] = got[d]
                                  /\ posted'[d] = posted[d]
    BY <1>0, <1>1, <2>3 DEF RunPosted, ConnTypeOK
  <2>6. Stream(c)' = Stream(c)
    BY <1>0, <1>1, RunPostedStream
  <2>7. Lost(c)' = Lost(c) /\ Alive(c)'
    BY <2>4, <2>5 DEF Lost, Alive
  <2>8. Quiet(conn'[c])
    BY <1>0, <2>4, <2>5 DEF Quiet
  <2> QED BY <1>0, <2>5, <2>6, <2>7, <2>8, ConnTelling
<1>2. CASE Deliver(c)
  <2> DEFINE q == [r EXCEPT !.flushed = TRUE]
  <2>1. /\ q.io = r.io /\ q.sock = r.sock /\ q.isReading = r.isReading
        /\ q.sendingBuffers = r.sendingBuffers
    BY <1>0 DEF Connection
  <2>2. conn' = [conn EXCEPT ![c] = q] /\ r.sock # "down" /\ r.sendingBuffers # <<>>
    BY <1>2 DEF Deliver
  <2> HIDE DEF q
  <2>3. /\ conn'[c] = q
        /\ \A d \in Conns \ {c} : /\ conn'[d] = conn[d] /\ got'[d] = got[d]
                                  /\ posted'[d] = posted[d]
    BY <1>0, <1>2, <2>2 DEF Deliver, ConnTypeOK
  <2>4. Stream(c)' = Stream(c)
    BY <1>0, <1>2, DeliverStream
  <2>5. ~Lost(c)' /\ ~Lost(c) /\ Alive(c)'
    BY <1>0, <2>1, <2>2, <2>3 DEF Lost, Alive
  <2>6. Quiet(conn'[c])
    BY <1>0, <2>1, <2>3 DEF Quiet
  <2> QED BY <1>0, <2>3, <2>4, <2>5, <2>6, ConnTelling
<1>3. CASE WriteDone(c)
  <2> DEFINE e == [r EXCEPT !.sendingBuffers = <<>>]
             q == IF e.writeBuffers # <<>> THEN DoWrite(e) ELSE e
             s == [q EXCEPT !.closeConnection = e.sentClose]
  <2>1. /\ e \in Connection /\ e.io = r.io /\ e.sock = r.sock /\ e.isReading = r.isReading
    BY <1>0, Buffers DEF Connection
  <2>2. conn' = [conn EXCEPT ![c] = s]
    BY <1>3 DEF WriteDone
  <2>3. e.sentClose \in BOOLEAN
    BY <2>1 DEF Connection
  <2> HIDE DEF e
  <2>4. q \in Connection /\ q.io = r.io /\ q.sock = r.sock /\ q.isReading = r.isReading
    BY <2>1, DoWriteSame, HelperTypes DEF Frames
  <2> HIDE DEF q
  <2>5. s.io = r.io /\ s.sock = r.sock /\ s.isReading = r.isReading
    BY <2>3, <2>4 DEF Connection
  <2> HIDE DEF s
  <2>6. /\ conn'[c] = s /\ r.io = "run" /\ got'[c] = got[c]
        /\ \A d \in Conns \ {c} : /\ conn'[d] = conn[d] /\ got'[d] = got[d]
                                  /\ posted'[d] = posted[d]
    BY <1>0, <1>3, <2>2 DEF WriteDone, ConnTypeOK
  <2>7. r.sock # "down" => Stream(c)' = Stream(c)
    BY <1>0, <1>3, WriteDoneStream
  <2>8. Lost(c)' = Lost(c) /\ (~Lost(c) => r.sock # "down") /\ Alive(c)'
    BY <2>5, <2>6 DEF Lost, Alive
  <2>9. Quiet(conn'[c])
    BY <1>0, <2>5, <2>6 DEF Quiet
  <2> QED BY <1>0, <2>6, <2>7, <2>8, <2>9, ConnTelling
<1>4. CASE WriteDoneClosing(c)
  <2> DEFINE q == [r EXCEPT !.sendingBuffers = <<>>, !.closeConnection = TRUE]
  <2>1. /\ q \in Connection /\ q.sock = r.sock /\ q.isReading = r.isReading
        /\ q.sendingBuffers = <<>> /\ q.flushed = r.flushed
        /\ q.writeBuffers = r.writeBuffers
    BY <1>0, Buffers DEF Connection
  <2>2. /\ r.io = "run" /\ CheckDestroy(c, q)
        /\ r.sock = "up" => r.flushed
    BY <1>4 DEF WriteDoneClosing
  <2> HIDE DEF q
  <2>3. q.sock = "shut" => ~q.isReading
    BY <1>0, <2>1 DEF Quiet
  <2>4. ASSUME q.sock # "down", q.sendingBuffers # <<>> \/ q.isReading
        PROVE  ~Lost(c) /\ Unsent(q) = Unsent(conn[c])
    <3>1. r.sock = "up"
      BY <1>0, <2>1, <2>4 DEF Quiet, Connection
    <3>2. Unsent(q) = Unsent(r)
      BY <2>1, <2>2, <3>1 DEF Unsent
    <3> QED BY <2>2, <3>1, <3>2 DEF Lost
  <2> QED BY <1>0, <2>1, <2>2, <2>3, <2>4, DestroyTelling
<1>5. CASE ReadError(c)
  <2> DEFINE q == [r EXCEPT !.isReading = FALSE, !.closeConnection = TRUE]
  <2>1. q \in Connection /\ q.sock = r.sock /\ ~q.isReading
    BY <1>0 DEF Connection
  <2>2. r.sock = "down" /\ CheckDestroy(c, q)
    BY <1>5 DEF ReadError
  <2> HIDE DEF q
  <2> QED BY <1>0, <2>1, <2>2, DestroyTelling
<1> QED BY <1>1, <1>2, <1>3, <1>4, <1>5 DEF Io, IoStep

\* The close handler returned (websocket.h:192-223, 755-765): the close frame
\* that close() writes itself overtakes what is posted.
LEMMA ReturnTelling ==
    ASSUME TypeOK, EndsInv, TellingInv, NEW c \in Conns, CloseHandlerReturns(c),
           UNCHANGED thread
    PROVE  EndsInv' /\ TellingInv'
<1> DEFINE r == conn[c]
<1>0. /\ ConnTypeOK /\ r \in Connection
      /\ Quiet(r)
  BY DEF TypeOK, ConnTypeOK, EndsInv
<1>1. CASE r.io = "onclose" /\ DeleteIfIdle(c, r)
  <2>1. r.sock # "down" /\ (r.sendingBuffers # <<>> \/ r.isReading) => ~Lost(c)
    BY DEF Lost
  <2> QED BY <1>0, <1>1, <2>1, DestroyTelling DEF Quiet
<1>2. CASE /\ r.io = "oncloseReply"
           /\ DeleteIfIdle(c, [WriteClose(r) EXCEPT
                  !.closeConnection = TRUE,
                  !.sock = IF @ = "down" THEN "down" ELSE "shut"])
  <2> DEFINE w == WriteClose(r)
             q == [w EXCEPT !.closeConnection = TRUE,
                            !.sock = IF @ = "down" THEN "down" ELSE "shut"]
  <2>0. CloseFrame \in Frames
    BY DEF Frames
  <2>1. w \in Connection
    BY <1>0, <2>0, HelperTypes
  <2>2. w.sock = r.sock /\ w.isReading = r.isReading
    BY <1>0, <2>0, EnqueueSame DEF WriteClose
  <2>3. Unsent(w) = Unsent(r) \o <<CloseFrame>>
    BY <1>0, <2>0, UnsentEnqueue DEF WriteClose
  <2>4. DeleteIfIdle(c, q)
    BY <1>2
  <2> HIDE DEF w
  <2>5. /\ q \in Connection /\ q.sock = (IF r.sock = "down" THEN "down" ELSE "shut")
        /\ q.isReading = r.isReading /\ q.flushed = w.flushed
        /\ q.sendingBuffers = w.sendingBuffers /\ q.writeBuffers = w.writeBuffers
    BY <2>1, <2>2 DEF Connection
  <2> HIDE DEF q
  <2>6. Unsent(q) = Unsent(conn[c]) \o <<CloseFrame>>
    BY <2>3, <2>5 DEF Unsent
  <2>7. q.sock # "down" => ~Lost(c)
    BY <1>2, <2>5 DEF Lost
  <2> QED BY <1>0, <1>2, <2>4, <2>5, <2>6, <2>7, DestroyTelling DEF Quiet
<1> QED BY <1>1, <1>2 DEF CloseHandlerReturns

\* The steps a peer causes.
LEMMA PeerTelling ==
    ASSUME TypeOK, EndsInv, TellingInv, NEW c \in Conns, Peer(c)
    PROVE  EndsInv' /\ TellingInv'
<1> DEFINE r == conn[c]
<1>0. /\ ConnTypeOK /\ r \in Connection /\ UNCHANGED thread
      /\ Quiet(r)
      /\ r.io = "none" => r.sock = "down"
  BY DEF TypeOK, ConnTypeOK, EndsInv, Alive, Peer, serverVars
<1>1. ASSUME NEW q, conn' = [conn EXCEPT ![c] = q], UNCHANGED <<posted, got>>,
             q.io # "none", Quiet(q),
             q.sock = "down" \/ (~Lost(c) /\ Unsent(q) = Unsent(r))
      PROVE  EndsInv' /\ TellingInv'
  <2>1. conn'[c] = q /\ \A d \in Conns \ {c} : conn'[d] = conn[d]
    BY <1>0, <1>1 DEF ConnTypeOK
  <2>2. Lost(c)' \/ (~Lost(c) /\ Stream(c)' = Stream(c))
    <3>1. CASE q.sock = "down"
      BY <2>1, <3>1 DEF Lost
    <3>2. CASE ~Lost(c) /\ Unsent(q) = Unsent(r)
      BY <1>1, <2>1, <3>2, StreamNext DEF Stream
    <3> QED BY <1>1, <3>1, <3>2
  <2>3. Alive(c)'
    BY <1>1, <2>1 DEF Alive
  <2> QED BY <1>0, <1>1, <2>1, <2>2, <2>3, ConnTelling
<1>2. CASE RecvClose(c)
  <2> DEFINE q == [r EXCEPT !.recvClose = TRUE, !.sentClose = TRUE, !.isReading = FALSE,
                            !.closeHandlerCalled = TRUE, !.io = "oncloseReply"]
  <2>1. /\ q.io = "oncloseReply" /\ ~q.isReading /\ q.flushed = r.flushed
        /\ q.sendingBuffers = r.sendingBuffers /\ q.writeBuffers = r.writeBuffers
    BY <1>0 DEF Connection
  <2>2. conn' = [conn EXCEPT ![c] = q] /\ UNCHANGED <<posted, got>> /\ ~Lost(c)
    BY <1>2 DEF RecvClose, Receiving, Lost
  <2> HIDE DEF q
  <2>3. Unsent(q) = Unsent(r)
    BY <2>1 DEF Unsent
  <2> QED BY <1>1, <2>1, <2>2, <2>3 DEF Quiet
<1>3. CASE RecvCloseReply(c)
  <2> DEFINE q == [r EXCEPT !.recvClose = TRUE, !.isReading = FALSE,
                            !.closeConnection = TRUE, !.sock = "shut"]
  <2>1. /\ q \in Connection /\ ~q.isReading /\ q.flushed = r.flushed /\ q.sock = "shut"
        /\ q.sendingBuffers = r.sendingBuffers /\ q.writeBuffers = r.writeBuffers
    BY <1>0 DEF Connection
  <2>2. /\ ~Lost(c)
        /\ \/ DeleteIfIdle(c, q)
           \/ /\ conn' = [conn EXCEPT ![c] =
                             [q EXCEPT !.closeHandlerCalled = TRUE, !.io = "onclose"]]
              /\ UNCHANGED <<posted, got>>
    BY <1>3 DEF RecvCloseReply, Receiving, Lost
  <2> HIDE DEF q
  <2>3. Unsent(q) = Unsent(r)
    BY <2>1 DEF Unsent
  <2>4. CASE DeleteIfIdle(c, q)
    BY <1>0, <2>1, <2>2, <2>3, <2>4, DestroyTelling
  <2>5. CASE /\ conn' = [conn EXCEPT ![c] =
                            [q EXCEPT !.closeHandlerCalled = TRUE, !.io = "onclose"]]
             /\ UNCHANGED <<posted, got>>
    <3> DEFINE s == [q EXCEPT !.closeHandlerCalled = TRUE, !.io = "onclose"]
    <3>1. /\ s.io = "onclose" /\ ~s.isReading /\ s.flushed = q.flushed
          /\ s.sendingBuffers = q.sendingBuffers /\ s.writeBuffers = q.writeBuffers
      BY <2>1 DEF Connection
    <3>2. conn' = [conn EXCEPT ![c] = s] /\ UNCHANGED <<posted, got>>
      BY <2>5
    <3> HIDE DEF s
    <3>3. Unsent(s) = Unsent(r)
      BY <2>3, <3>1 DEF Unsent
    <3> QED BY <1>1, <2>2, <3>1, <3>2, <3>3 DEF Quiet
  <2> QED BY <2>2, <2>4, <2>5
<1>4. CASE PeerGone(c)
  <2> DEFINE q == [r EXCEPT !.sock = "down"]
  <2>1. q.sock = "down" /\ q.io = r.io /\ q.isReading = r.isReading
    BY <1>0 DEF Connection
  <2>2. conn' = [conn EXCEPT ![c] = q] /\ UNCHANGED <<posted, got>> /\ r.io # "none"
    BY <1>4 DEF PeerGone, Alive
  <2> HIDE DEF q
  <2> QED BY <1>0, <1>1, <2>1, <2>2 DEF Quiet
<1> QED BY <1>2, <1>3, <1>4 DEF Peer

\* onopen (RouteHandlers.cpp:18-22): the stream begins with the upgrade.
LEMMA OpenTelling ==
    ASSUME TypeOK, EndsInv, TellingInv, NEW c \in Conns, OnOpen(c)
    PROVE  EndsInv' /\ TellingInv'
<1> DEFINE o == [NoObject EXCEPT !.io = "onopen", !.sock = "up"]
           q == Enqueue(o, Hello)
<1>0. /\ ConnTypeOK /\ UNCHANGED <<posted, got, thread>>
      /\ conn' = [conn EXCEPT ![c] = q] /\ ~Alive(c)
  BY DEF TypeOK, OnOpen, Handshake
<1>1. Hello \in Frames
  BY DEF Frames
<1>2. /\ o \in Connection /\ o.io = "onopen" /\ o.sock = "up" /\ ~o.isReading
      /\ ~o.flushed /\ o.sendingBuffers = <<>> /\ o.writeBuffers = <<>>
  BY ObjectTypes, FramesConcat DEF NoObject, Connection, IoStates
<1> HIDE DEF o
<1>3. q.io = "onopen" /\ q.sock = "up" /\ ~q.isReading
  BY <1>1, <1>2, EnqueueSame
<1>4. Unsent(q) = <<Hello>>
  <2>1. Unsent(o) = <<>>
    BY <1>2, FramesConcat DEF Unsent
  <2>2. Unsent(q) = Unsent(o) \o <<Hello>>
    BY <1>1, <1>2, UnsentEnqueue
  <2>3. <<Hello>> \in Seq(Frames)
    BY <1>1, FramesConcat
  <2> QED BY <2>1, <2>2, <2>3, FramesConcat
<1> HIDE DEF q
<1>5. /\ conn'[c] = q
      /\ \A d \in Conns \ {c} : /\ conn'[d] = conn[d] /\ got'[d] = got[d]
                                /\ posted'[d] = posted[d]
      /\ got'[c] = <<>> /\ posted'[c] = <<>>
  BY <1>0 DEF ConnTypeOK, EndsInv
<1>6. Stream(c)' = <<Hello>>
  <2>1. Stream(c)' = (<<>> \o <<Hello>>) \o <<>>
    BY <1>4, <1>5, StreamNext
  <2>2. <<Hello>> \in Seq(Frames)
    BY <1>1, FramesConcat
  <2> QED BY <2>1, <2>2, FramesConcat
<1>7. /\ ~Lost(c)' /\ Alive(c)'
      /\ Quiet(conn'[c])
  BY <1>3, <1>5 DEF Quiet, Lost, Alive
<1> QED BY <1>0, <1>5, <1>6, <1>7, ConnTelling

\* The welcome and the errors (RouteHandlers.cpp:21, 34-49) are of no training.
LEMMA GreetTelling ==
    ASSUME TypeOK, EndsInv, TellingInv, NEW c \in Conns,
           OnOpenGreet(c) \/ OnMalformedMessage(c)
    PROVE  EndsInv' /\ TellingInv'
<1> DEFINE r == conn[c]
<1>0. ConnTypeOK /\ r \in Connection /\ UNCHANGED <<thread, got>>
  BY DEF TypeOK, ConnTypeOK, OnOpenGreet, OnMalformedMessage, StartReading, serverVars
<1>1. PICK f \in {Message("welcome", Null, 0), Message("error", Null, 0)} : Post(c, f)
  BY DEF OnOpenGreet, OnMalformedMessage
<1>2. f \in Texts \cup {CloseFrame} /\ f \in Frames /\ f.kind \notin {"epoch", "final"}
  <2>1. /\ Message("welcome", Null, 0) \in Texts \cup {CloseFrame}
        /\ Message("error", Null, 0) \in Texts \cup {CloseFrame}
    BY MessageTypes, ServerAssumption
  <2>2. f.kind \in {"welcome", "error"}
    BY <1>1 DEF Message
  <2>3. f \in Texts \cup {CloseFrame}
    BY <1>1, <2>1
  <2> QED BY <2>2, <2>3, TaskIsFrame
<1>3. /\ \A d \in Conns \ {c} : /\ conn'[d] = conn[d] /\ got'[d] = got[d]
                                 /\ posted'[d] = posted[d]
      /\ Unsent(conn'[c]) = Unsent(r) /\ conn'[c].io # "none"
      /\ Lost(c)' = Lost(c)
      /\ Quiet(conn'[c])
  <2>1. \A d \in Conns \ {c} : posted'[d] = posted[d]
    BY <1>0, <1>1 DEF Post, ConnTypeOK
  <2>2. CASE OnMalformedMessage(c)
    BY <1>0, <2>1, <2>2 DEF OnMalformedMessage, Receiving, EndsInv, Lost
  <2>3. CASE OnOpenGreet(c)
    <3> DEFINE q == [r EXCEPT !.io = "run", !.isReading = TRUE]
    <3>1. /\ q.io = "run" /\ q.sock = r.sock /\ q.flushed = r.flushed
          /\ q.sendingBuffers = r.sendingBuffers /\ q.writeBuffers = r.writeBuffers
      BY <1>0 DEF Connection
    <3>2. conn' = [conn EXCEPT ![c] = q] /\ r.io = "onopen"
      BY <2>3 DEF OnOpenGreet, StartReading
    <3> HIDE DEF q
    <3>3. conn'[c] = q /\ \A d \in Conns \ {c} : conn'[d] = conn[d]
      BY <1>0, <3>2 DEF ConnTypeOK
    <3>4. Unsent(q) = Unsent(r)
      BY <3>1 DEF Unsent
    <3>5. Lost(c)' = Lost(c)
      BY <3>1, <3>2, <3>3 DEF Lost
    <3>6. r.sock # "shut"
      BY <3>2 DEF Quiet, EndsInv
    <3> QED BY <1>0, <2>1, <3>1, <3>3, <3>4, <3>5, <3>6 DEF Quiet
  <2> QED BY <2>2, <2>3
<1>4. Stream(c)' = Append(Stream(c), f)
  BY <1>0, <1>1, <1>2, <1>3, PostStream
<1>5. \E a, b \in Seq(Frames), g \in Frames :
         /\ g.kind \notin {"epoch", "final"}
         /\ Stream(c) = a \o b
         /\ Stream(c)' = (a \o <<g>>) \o b
  <2> DEFINE s == Stream(c)
  <2>1. s \in Seq(Frames)
    BY <1>0, StreamType
  <2> HIDE DEF s
  <2>2. PICK a \in Seq(Frames), b \in Seq(Frames) :
           s = a \o b /\ Append(s, f) = (a \o <<f>>) \o b
    BY <1>2, <2>1, AtTheEnd
  <2> QED BY <1>2, <1>4, <2>2 DEF s
<1>6. Alive(c)'
  BY <1>3 DEF Alive
<1> QED BY <1>0, <1>3, <1>5, <1>6, ConnTelling

-----------------------------------------------------------------------------
(* What a client is told: the trainings *)

\* A thread goes on and says nothing.
LEMMA SilentTelling ==
    ASSUME TypeOK, EndsInv, TellingInv, NEW t \in Threads, NEW new,
           thread' = [thread EXCEPT ![t] = new], UNCHANGED connVars,
           \A s \in Seq(Frames), epochs \in {thread[t].job.epochs} :
              InOrder(s, t, epochs) /\ Begun(s, t, thread[t]) =>
                 InOrder(s, t, new.job.epochs) /\ Begun(s, t, new),
           \A s \in Seq(Frames), c \in Conns :
              ~Lost(c) /\ Begun(s, t, thread[t]) /\ UpToDate(s, c, t, thread[t]) =>
                 UpToDate(s, c, t, new)
    PROVE  EndsInv' /\ TellingInv'
<1>0. UNCHANGED <<conn, got, posted>> /\ ConnTypeOK
  BY DEF connVars, TypeOK
<1>1. thread'[t] = new /\ \A u \in Threads \ {t} : thread'[u] = thread[u]
  BY DEF TypeOK
<1>2. EndsInv'
  BY <1>0 DEF EndsInv, Alive
<1>3. ASSUME NEW c \in Conns
      PROVE  LET r == thread'[t]
                 s == IF Lost(c)' THEN got'[c] ELSE Stream(c)'
             IN  /\ InOrder(s, t, r.job.epochs)
                 /\ Begun(s, t, r)
                 /\ ~Lost(c)' => UpToDate(s, c, t, r)
  <2>1. Lost(c)' = Lost(c) /\ Stream(c)' = Stream(c) /\ got'[c] = got[c]
    BY <1>0 DEF Lost, Stream, Unsent
  <2>2. Stream(c) \in Seq(Frames) /\ got[c] \in Seq(Frames)
    BY <1>0, StreamType
  <2>3. CASE Lost(c)
    <3>1. InOrder(got[c], t, thread[t].job.epochs) /\ Begun(got[c], t, thread[t])
      BY GotTelling
    <3>2. InOrder(got[c], t, new.job.epochs) /\ Begun(got[c], t, new)
      BY <2>2, <3>1
    <3> QED BY <1>1, <2>1, <2>3, <3>2
  <2>4. CASE ~Lost(c)
    <3>1. /\ InOrder(Stream(c), t, thread[t].job.epochs) /\ Begun(Stream(c), t, thread[t])
          /\ UpToDate(Stream(c), c, t, thread[t])
      BY <2>4 DEF TellingInv
    <3>2. /\ InOrder(Stream(c), t, new.job.epochs) /\ Begun(Stream(c), t, new)
          /\ UpToDate(Stream(c), c, t, new)
      BY <2>2, <2>4, <3>1
    <3> QED BY <1>1, <2>1, <2>4, <3>2
  <2> QED BY <2>3, <2>4
<1>4. ASSUME NEW c \in Conns, NEW u \in Threads \ {t}
      PROVE  LET r == thread'[u]
                 s == IF Lost(c)' THEN got'[c] ELSE Stream(c)'
             IN  /\ InOrder(s, u, r.job.epochs)
                 /\ Begun(s, u, r)
                 /\ ~Lost(c)' => UpToDate(s, c, u, r)
  <2>1. /\ conn'[c] = conn[c] /\ got'[c] = got[c] /\ posted'[c] = posted[c]
        /\ thread'[u] = thread[u]
    BY <1>0, <1>1
  <2> QED BY <2>1, OthersTelling
<1>5. TellingInv'
  BY <1>3, <1>4 DEF TellingInv
<1> QED BY <1>2, <1>5

\* A thread says f to the connection p.
LEMMA SaysTelling ==
    ASSUME TypeOK, EndsInv, TellingInv, NEW t \in Threads, NEW new, ThreadStep(t, new),
           NEW p \in Conns, Alive(p), NEW f \in Texts \cup {CloseFrame}, Post(p, f),
           \A u \in Threads \ {t} : ~From(f, u),
           new.job = thread[t].job,
           \A s \in Seq(Frames) : Begun(s, t, thread[t]) => Begun(s, t, new),
           \A s \in Seq(Frames), c \in Conns :
              c # p /\ Begun(s, t, thread[t]) /\ UpToDate(s, c, t, thread[t]) =>
                 UpToDate(s, c, t, new),
           \A s \in Seq(Frames) :
              /\ InOrder(s, t, thread[t].job.epochs)
              /\ Begun(s, t, thread[t])
              /\ UpToDate(s, p, t, thread[t])
              => /\ InOrder(Append(s, f), t, new.job.epochs)
                 /\ Begun(Append(s, f), t, new)
                 /\ UpToDate(Append(s, f), p, t, new)
    PROVE  EndsInv' /\ TellingInv'
<1>0. UNCHANGED <<conn, got>> /\ ConnTypeOK /\ f \in Frames
  BY TaskIsFrame DEF ThreadStep, TypeOK
<1>1. thread'[t] = new /\ \A u \in Threads \ {t} : thread'[u] = thread[u]
  BY DEF ThreadStep, TypeOK
<1>2. \A c \in Conns \ {p} : posted'[c] = posted[c]
  BY <1>0 DEF Post, ConnTypeOK
<1>3. EndsInv'
  BY <1>0, <1>2 DEF EndsInv, Alive
<1>4. ASSUME NEW c \in Conns
      PROVE  /\ Lost(c)' = Lost(c) /\ got'[c] = got[c]
             /\ Stream(c)' = IF c = p THEN Append(Stream(c), f) ELSE Stream(c)
             /\ Stream(c) \in Seq(Frames) /\ got[c] \in Seq(Frames)
  <2>1. Lost(c)' = Lost(c) /\ got'[c] = got[c]
    BY <1>0 DEF Lost
  <2>2. Stream(c) \in Seq(Frames) /\ got[c] \in Seq(Frames)
    BY <1>0, StreamType
  <2>3. CASE c = p
    <3>1. Unsent(conn'[p]) = Unsent(conn[p])
      BY <1>0
    <3>2. Stream(p)' = Append(Stream(p), f)
      BY <1>0, <3>1, PostStream
    <3> QED BY <2>1, <2>2, <2>3, <3>2
  <2>4. CASE c # p
    <3>1. Stream(c)' = Stream(c)
      BY <1>0, <1>2, <2>4 DEF Stream, Unsent
    <3> QED BY <2>1, <2>2, <2>4, <3>1
  <2> QED BY <2>3, <2>4
<1>5. ASSUME NEW c \in Conns, NEW u \in Threads
      PROVE  LET r == thread'[u]
                 s == IF Lost(c)' THEN got'[c] ELSE Stream(c)'
             IN  /\ InOrder(s, u, r.job.epochs)
                 /\ Begun(s, u, r)
                 /\ ~Lost(c)' => UpToDate(s, c, u, r)
  <2> DEFINE q == thread[u]
             s == Stream(c)
  <2>1. InOrder(got[c], u, q.job.epochs) /\ Begun(got[c], u, q)
    BY GotTelling
  <2>2. ~Lost(c) => InOrder(s, u, q.job.epochs) /\ Begun(s, u, q) /\ UpToDate(s, c, u, q)
    BY DEF TellingInv
  <2>3. s \in Seq(Frames)
    BY <1>4
  <2>4. CASE Lost(c)
    <3>1. CASE u = t
      <4>1. InOrder(got[c], t, new.job.epochs) /\ Begun(got[c], t, new)
        BY <1>4, <2>1, <3>1
      <4> QED BY <1>1, <1>4, <2>4, <3>1, <4>1
    <3>2. CASE u # t
      <4>1. thread'[u] = q
        BY <1>1, <3>2
      <4> QED BY <1>4, <2>1, <2>4, <4>1
    <3> QED BY <3>1, <3>2
  <2>5. CASE ~Lost(c) /\ c = p
    <3>1. CASE u = t
      <4>1. /\ InOrder(Append(s, f), t, new.job.epochs)
            /\ Begun(Append(s, f), t, new)
            /\ UpToDate(Append(s, f), p, t, new)
        BY <2>2, <2>3, <2>5, <3>1
      <4> QED BY <1>1, <1>4, <2>5, <3>1, <4>1
    <3>2. CASE u # t
      <4>1. thread'[u] = q /\ ~From(f, u)
        BY <1>1, <3>2
      <4> HIDE DEF q, s
      <4>2. /\ InOrder(Append(s, f), u, q.job.epochs)
            /\ Begun(Append(s, f), u, q)
            /\ UpToDate(Append(s, f), c, u, q)
        BY <1>0, <2>2, <2>3, <2>5, <4>1, AppendOther
      <4> QED BY <1>4, <2>5, <4>1, <4>2 DEF s
    <3> QED BY <3>1, <3>2
  <2>6. CASE ~Lost(c) /\ c # p
    <3>1. CASE u = t
      <4>1. InOrder(s, t, new.job.epochs) /\ Begun(s, t, new) /\ UpToDate(s, c, t, new)
        BY <2>2, <2>3, <2>6, <3>1
      <4> QED BY <1>1, <1>4, <2>6, <3>1, <4>1
    <3>2. CASE u # t
      <4>1. thread'[u] = q
        BY <1>1, <3>2
      <4> QED BY <1>4, <2>2, <2>6, <4>1
    <3> QED BY <3>1, <3>2
  <2> QED BY <2>4, <2>5, <2>6
<1>6. TellingInv'
  BY <1>5 DEF TellingInv
<1> QED BY <1>3, <1>6

\* onmessage (RouteHandlers.cpp:24-51): a thread that said nothing yet.
LEMMA MessageTelling ==
    ASSUME TypeOK, EndsInv, TellingInv, NEW c \in Conns, NEW t \in Threads,
           NEW job \in Jobs, OnMessage(c, t, job)
    PROVE  EndsInv' /\ TellingInv'
<1> DEFINE new == [Idle EXCEPT !.pc = "start", !.job = job, !.from = c]
<1>1. /\ thread' = [thread EXCEPT ![t] = new] /\ UNCHANGED connVars
      /\ thread[t].pc = "idle"
  BY DEF OnMessage
<1> HIDE DEF new
<1>2. ASSUME NEW s, Begun(s, t, thread[t])
      PROVE  /\ InOrder(s, t, new.job.epochs) /\ Begun(s, t, new)
             /\ \A d : UpToDate(s, d, t, new)
  BY <1>1, <1>2, NoneYet
<1> QED BY <1>1, <1>2, SilentTelling

\* A thread takes a step and says nothing.
LEMMA StepTelling ==
    ASSUME TypeOK, EndsInv, TellingInv, NEW t \in Threads, NEW new,
           ThreadStep(t, new), UNCHANGED posted, new.job = thread[t].job,
           \A c \in Conns : ~Lost(c) => GoesOn(thread[t], new, c),
           \E x : GoesOn(thread[t], new, x)
    PROVE  EndsInv' /\ TellingInv'
<1>1. thread' = [thread EXCEPT ![t] = new] /\ UNCHANGED connVars
  BY DEF ThreadStep, connVars
<1>2. ASSUME NEW s \in Seq(Frames), Begun(s, t, thread[t]) PROVE Begun(s, t, new)
  BY <1>2, GoesOnTelling
<1>3. ASSUME NEW s \in Seq(Frames), NEW c \in Conns, ~Lost(c), Begun(s, t, thread[t]),
             UpToDate(s, c, t, thread[t])
      PROVE  UpToDate(s, c, t, new)
  BY <1>3, GoesOnTelling
<1> QED BY <1>1, <1>2, <1>3, SilentTelling

\* A call of send_text() or close() (RouteHandlers.cpp:55-57,
\* NeuralNetwork.cpp:66).
LEMMA CallTelling ==
    ASSUME TypeOK, EndsInv, TellingInv, NEW t \in Threads, NEW new, NEW p,
           NEW f \in Texts \cup {CloseFrame}, CallConn(p, f, t, new),
           new.job = thread[t].job,
           \A u \in Threads \ {t} : ~From(f, u),
           \A c \in Conns \ {p} : GoesOn(thread[t], new, c),
           \E x : GoesOn(thread[t], new, x),
           \A s \in Seq(Frames) :
              /\ InOrder(s, t, thread[t].job.epochs)
              /\ Begun(s, t, thread[t])
              /\ UpToDate(s, p, t, thread[t])
              => /\ InOrder(Append(s, f), t, new.job.epochs)
                 /\ Begun(Append(s, f), t, new)
                 /\ UpToDate(Append(s, f), p, t, new)
    PROVE  EndsInv' /\ TellingInv'
<1>1. ASSUME NEW cause, Crash(cause) PROVE EndsInv' /\ TellingInv'
  BY <1>1, CrashTelling
<1>2. ASSUME NEW s \in Seq(Frames), Begun(s, t, thread[t]) PROVE Begun(s, t, new)
  BY <1>2, GoesOnTelling
<1>3. ASSUME NEW s \in Seq(Frames), NEW c \in Conns, c # p, Begun(s, t, thread[t]),
             UpToDate(s, c, t, thread[t])
      PROVE  UpToDate(s, c, t, new)
  BY <1>3, GoesOnTelling
<1>4. CASE p \in Conns /\ Alive(p) /\ Post(p, f) /\ ThreadStep(t, new)
  BY <1>2, <1>3, <1>4, SaysTelling
<1>5. CASE p \in Conns /\ ~Alive(p) /\ UNCHANGED posted /\ ThreadStep(t, new)
  <2>1. Lost(p)
    BY <1>5 DEF EndsInv, Lost
  <2>2. \A c \in Conns : ~Lost(c) => GoesOn(thread[t], new, c)
    BY <2>1
  <2> QED BY <1>5, <2>2, StepTelling
<1> QED BY <1>1, <1>4, <1>5 DEF CallConn

\* Only the message of a training is its message.
LEMMA WhoseMessage ==
    ASSUME NEW kind \in {"epoch", "final"}, NEW t, NEW n
    PROVE  /\ \A u : u # t => ~From(Message(kind, t, n), u)
           /\ \A u : ~From(CloseFrame, u)
  BY DEF From, Message, CloseFrame

\* Each step of a training thread (RouteHandlers.cpp:52-59,
\* NeuralNetwork.cpp:21-71).
LEMMA TrainingTelling ==
    ASSUME IInv, EndsInv, TellingInv, NEW t \in Threads, Training(t)
    PROVE  EndsInv' /\ TellingInv'
<1> DEFINE r == thread[t]
<1>0. /\ TypeOK /\ r \in ThreadRecord /\ EpochOK(r)
      /\ r.epoch \in Nat /\ r.job \in Jobs \cup {NoJob}
      /\ r.job.epochs \in 0 .. MaxEpochs /\ MaxEpochs \in Nat
      /\ r.ws \in Conns \cup {Null} /\ Null \notin Conns
  <2>1. TypeOK /\ r \in ThreadRecord /\ EpochOK(r)
    BY DEF IInv, TypeOK, WorkInv
  <2>2. /\ r.epoch \in Nat /\ r.job \in Jobs \cup {NoJob} /\ r.ws \in Conns \cup {Null}
    BY <2>1 DEF ThreadRecord
  <2> QED BY <2>1, <2>2, JobTypes, ServerAssumption
<1>1. Finished(t).pc = "done" /\ Finished(t).job = r.job
  <2>1. /\ [Idle EXCEPT !.pc = "done", !.job = r.job].pc = "done"
        /\ [Idle EXCEPT !.pc = "done", !.job = r.job].job = r.job
    BY <1>0, IdleTypes DEF ThreadRecord, ThreadStates, Idle
  <2> QED BY <2>1 DEF Finished
<1>2. \A c : GoesOn(r, Finished(t), c)
  BY <1>1 DEF GoesOn
<1>3. CASE ThreadStart(t)
  <2> DEFINE new == IF gConn = Null THEN Finished(t) ELSE [r EXCEPT !.pc = "call"]
  <2>1. ThreadStep(t, new) /\ UNCHANGED posted /\ r.pc = "start"
    BY <1>3 DEF ThreadStart
  <2>2. new.job = r.job
    BY <1>0, <1>1 DEF ThreadRecord
  <2> HIDE DEF new
  <2>3. \A c : GoesOn(r, new, c)
    BY <2>1 DEF GoesOn
  <2> QED BY <1>0, <2>1, <2>2, <2>3, StepTelling
<1>4. CASE ThreadCall(t)
  <2> DEFINE new == [r EXCEPT !.ws = gConn,
                              !.pc = IF r.job.epochs = 0 THEN "check" ELSE "forward"]
  <2>1. ThreadStep(t, new) /\ UNCHANGED posted /\ r.pc = "call"
    BY <1>4 DEF ThreadCall
  <2>2. new.job = r.job
    BY <1>0 DEF ThreadRecord
  <2> HIDE DEF new
  <2>3. \A c : GoesOn(r, new, c)
    BY <2>1 DEF GoesOn
  <2> QED BY <1>0, <2>1, <2>2, <2>3, StepTelling
<1>5. CASE ThreadForward(t)
  <2> DEFINE new == [r EXCEPT !.pc = "backward"]
  <2>1. ThreadStep(t, new) /\ UNCHANGED posted /\ r.pc = "forward"
    BY <1>5 DEF ThreadForward
  <2>2. new.job = r.job /\ new.pc = "backward" /\ new.ws = r.ws /\ new.epoch = r.epoch
    BY <1>0 DEF ThreadRecord
  <2> HIDE DEF new
  <2>3. \A c : GoesOn(r, new, c)
    BY <2>1, <2>2 DEF GoesOn
  <2> QED BY <1>0, <2>1, <2>2, <2>3, StepTelling
<1>6. CASE ThreadThrows(t) \/ ThreadUndefined(t)
  BY <1>6, CrashTelling DEF ThreadThrows, ThreadUndefined
<1>7. CASE ThreadBackward(t)
  <2> DEFINE more == [r EXCEPT !.pc = "forward", !.batch = r.batch + 1]
             over == [r EXCEPT !.pc = "report", !.batch = 0, !.epoch = r.epoch + 1]
  <2>1. /\ ThreadStep(t, more) \/ ThreadStep(t, over)
        /\ UNCHANGED posted /\ r.pc = "backward"
    BY <1>7 DEF ThreadBackward
  <2>2. /\ more.job = r.job /\ more.pc = "forward" /\ more.ws = r.ws /\ more.epoch = r.epoch
        /\ over.job = r.job /\ over.pc = "report" /\ over.ws = r.ws
        /\ over.epoch = r.epoch + 1
    BY <1>0 DEF ThreadRecord
  <2> HIDE DEF more, over
  <2>3. over.epoch - 1 = r.epoch
    BY <1>0, <2>2
  <2>4. \A c : GoesOn(r, more, c) /\ GoesOn(r, over, c)
    BY <2>1, <2>2, <2>3 DEF GoesOn
  <2> QED BY <1>0, <2>1, <2>2, <2>4, StepTelling
<1>8. CASE ThreadReport(t)
  <2> DEFINE new == [r EXCEPT !.pc = IF r.epoch < r.job.epochs THEN "forward" ELSE "check"]
             f == Message("epoch", t, r.epoch)
  <2>1. /\ r.pc = "report"
        /\ \/ r.ws = Null /\ UNCHANGED posted /\ ThreadStep(t, new)
           \/ r.ws # Null /\ CallConn(r.ws, f, t, new)
    BY <1>8 DEF ThreadReport
  <2>2. /\ new.job = r.job /\ new.pc \in {"forward", "check"} /\ new.ws = r.ws
        /\ new.epoch = r.epoch
    BY <1>0 DEF ThreadRecord
  <2> HIDE DEF new
  <2>3. \A c : c # r.ws => GoesOn(r, new, c)
    BY <2>1, <2>2 DEF GoesOn
  <2>4. CASE r.ws = Null /\ UNCHANGED posted /\ ThreadStep(t, new)
    <3>1. \A c \in Conns : GoesOn(r, new, c)
      BY <1>0, <2>3, <2>4
    <3>2. \E x : GoesOn(r, new, x)
      <4>1. 0 # r.ws \/ 1 # r.ws
        OBVIOUS
      <4> QED BY <2>3, <4>1
    <3> QED BY <1>0, <2>2, <2>4, <3>1, <3>2, StepTelling
  <2>5. CASE r.ws # Null /\ CallConn(r.ws, f, t, new)
    <3>1. f \in Texts \cup {CloseFrame} /\ f \in Frames
      <4>1. r.epoch \in 0 .. MaxEpochs
        BY <1>0, <2>1 DEF EpochOK
      <4>2. Message("epoch", t, r.epoch) \in Texts \cup {CloseFrame}
        BY <4>1, MessageTypes
      <4> QED BY <4>2, TaskIsFrame
    <3>2. \A u \in Threads \ {t} : ~From(f, u)
      BY WhoseMessage
    <3>3. \E x : GoesOn(r, new, x)
      <4>1. 0 # r.ws \/ 1 # r.ws
        OBVIOUS
      <4> QED BY <2>3, <4>1
    <3>4. ASSUME NEW s \in Seq(Frames), InOrder(s, t, r.job.epochs), Begun(s, t, r),
                 UpToDate(s, r.ws, t, r)
          PROVE  /\ InOrder(Append(s, f), t, new.job.epochs)
                 /\ Begun(Append(s, f), t, new)
                 /\ UpToDate(Append(s, f), r.ws, t, new)
      BY <1>0, <2>1, <2>2, <3>1, <3>4, AppendEpoch
    <3> HIDE DEF f, r
    <3>5. \A s \in Seq(Frames) :
             InOrder(s, t, r.job.epochs) /\ Begun(s, t, r) /\ UpToDate(s, r.ws, t, r)
                => /\ InOrder(Append(s, f), t, new.job.epochs)
                   /\ Begun(Append(s, f), t, new)
                   /\ UpToDate(Append(s, f), r.ws, t, new)
      BY <3>4
    <3>6. \A c \in Conns \ {r.ws} : GoesOn(r, new, c)
      BY <2>3
    <3> QED BY <1>0, <2>2, <2>5, <3>1, <3>2, <3>3, <3>5, <3>6, CallTelling DEF r
  <2> QED BY <2>1, <2>4, <2>5
<1>9. CASE ThreadCheck(t)
  <2> DEFINE new == [r EXCEPT !.pc = "loadSend"]
  <2>1. /\ ThreadStep(t, new) \/ ThreadStep(t, Finished(t))
        /\ UNCHANGED posted /\ r.pc = "check"
    BY <1>9 DEF ThreadCheck
  <2>2. new.job = r.job /\ new.pc = "loadSend" /\ new.ws = r.ws /\ new.epoch = r.epoch
    BY <1>0 DEF ThreadRecord
  <2> HIDE DEF new
  <2>3. \A c : GoesOn(r, new, c)
    BY <2>1, <2>2 DEF GoesOn
  <2> QED BY <1>0, <1>1, <1>2, <2>1, <2>2, <2>3, StepTelling
<1>10. CASE ThreadLoad(t)
  <2> DEFINE new == [r EXCEPT !.reg = gConn,
                              !.pc = IF r.pc = "loadSend" THEN "send" ELSE "close"]
  <2>1. ThreadStep(t, new) /\ UNCHANGED posted /\ r.pc \in {"loadSend", "loadClose"}
    BY <1>10 DEF ThreadLoad
  <2>2. /\ new.job = r.job /\ new.ws = r.ws /\ new.epoch = r.epoch
        /\ new.pc = IF r.pc = "loadSend" THEN "send" ELSE "close"
    BY <1>0 DEF ThreadRecord
  <2> HIDE DEF new
  <2>3. \A c : GoesOn(r, new, c)
    BY <2>1, <2>2 DEF GoesOn
  <2> QED BY <1>0, <2>1, <2>2, <2>3, StepTelling
<1>11. CASE ThreadSend(t)
  <2> DEFINE new == [r EXCEPT !.pc = "loadClose"]
             f == Message("final", t, 0)
  <2>1. r.pc = "send" /\ CallConn(r.reg, f, t, new)
    BY <1>11 DEF ThreadSend
  <2>2. new.job = r.job /\ new.pc = "loadClose" /\ new.ws = r.ws /\ new.epoch = r.epoch
    BY <1>0 DEF ThreadRecord
  <2> HIDE DEF new
  <2>3. \A c : GoesOn(r, new, c)
    BY <2>1, <2>2 DEF GoesOn
  <2>4. f \in Texts \cup {CloseFrame} /\ f \in Frames
    <3>1. 0 \in 0 .. MaxEpochs
      BY <1>0
    <3>2. Message("final", t, 0) \in Texts \cup {CloseFrame}
      BY <3>1, MessageTypes
    <3> QED BY <3>2, TaskIsFrame
  <2>5. \A u \in Threads \ {t} : ~From(f, u)
    BY WhoseMessage
  <2>6. r.epoch = r.job.epochs
    BY <1>0, <2>1 DEF EpochOK
  <2>7. ASSUME NEW s \in Seq(Frames), InOrder(s, t, r.job.epochs), Begun(s, t, r),
               UpToDate(s, r.reg, t, r)
        PROVE  /\ InOrder(Append(s, f), t, new.job.epochs)
               /\ Begun(Append(s, f), t, new)
               /\ UpToDate(Append(s, f), r.reg, t, new)
    BY <2>1, <2>2, <2>4, <2>6, <2>7, AppendFinal
  <2> HIDE DEF f, r
  <2>8. \A s \in Seq(Frames) :
           InOrder(s, t, r.job.epochs) /\ Begun(s, t, r) /\ UpToDate(s, r.reg, t, r)
              => /\ InOrder(Append(s, f), t, new.job.epochs)
                 /\ Begun(Append(s, f), t, new)
                 /\ UpToDate(Append(s, f), r.reg, t, new)
    BY <2>7
  <2> QED BY <1>0, <2>1, <2>2, <2>3, <2>4, <2>5, <2>8, CallTelling DEF r
<1>12. CASE ThreadClose(t)
  <2> DEFINE new == Finished(t)
             f == CloseFrame
  <2>1. CallConn(r.reg, f, t, new)
    BY <1>12 DEF ThreadClose
  <2>2. f \in Texts \cup {CloseFrame} /\ f \in Frames
    BY DEF Frames
  <2>3. \A u : ~From(f, u)
    BY WhoseMessage
  <2>4. new.job = r.job /\ \A c : GoesOn(r, new, c)
    BY <1>1, <1>2
  <2> HIDE DEF f, r, new
  <2>5. ASSUME NEW s \in Seq(Frames), InOrder(s, t, r.job.epochs), Begun(s, t, r),
               UpToDate(s, r.reg, t, r)
        PROVE  /\ InOrder(Append(s, f), t, new.job.epochs)
               /\ Begun(Append(s, f), t, new)
               /\ UpToDate(Append(s, f), r.reg, t, new)
    <3>1. /\ InOrder(Append(s, f), t, r.job.epochs)
          /\ Begun(Append(s, f), t, r)
          /\ UpToDate(Append(s, f), r.reg, t, r)
      BY <2>2, <2>3, <2>5, AppendOther
    <3> QED BY <2>4, <3>1, GoesOnTelling
  <2>6. \A s \in Seq(Frames) :
           InOrder(s, t, r.job.epochs) /\ Begun(s, t, r) /\ UpToDate(s, r.reg, t, r)
              => /\ InOrder(Append(s, f), t, new.job.epochs)
                 /\ Begun(Append(s, f), t, new)
                 /\ UpToDate(Append(s, f), r.reg, t, new)
    BY <2>5
  <2> QED BY <1>0, <2>1, <2>2, <2>3, <2>4, <2>6, CallTelling DEF r
<1> QED BY <1>3, <1>4, <1>5, <1>6, <1>7, <1>8, <1>9, <1>10, <1>11, <1>12 DEF Training

\* Every step of the server keeps what can still arrive in order.
LEMMA NextTelling ==
    ASSUME IInv, EndsInv, TellingInv, [Next]_vars
    PROVE  EndsInv' /\ TellingInv'
<1>0. TypeOK
  BY DEF IInv
<1>1. CASE Restart \/ UNCHANGED vars
  BY <1>1, SameTelling DEF Restart, vars, serverVars
<1>2. ASSUME NEW c \in Conns, NEW t \in Threads, NEW job \in Jobs, OnMessage(c, t, job)
      PROVE  EndsInv' /\ TellingInv'
  BY <1>0, <1>2, MessageTelling
<1>3. ASSUME NEW c \in Conns, OnClose(c) PROVE EndsInv' /\ TellingInv'
  BY <1>0, <1>3, SameTelling, ReturnTelling
     DEF OnClose, OnCloseMatches, OnCloseClears, OnCloseOther, serverVars
<1>4. ASSUME NEW c \in Conns,
             OnOpen(c) \/ OnOpenGreet(c) \/ OnMalformedMessage(c) \/ Io(c) \/ Peer(c)
      PROVE  EndsInv' /\ TellingInv'
  BY <1>0, <1>4, OpenTelling, GreetTelling, IoTelling, PeerTelling
<1>5. ASSUME NEW h \in Compilers, NEW model \in Models, CompileStart(h, model)
      PROVE  EndsInv' /\ TellingInv'
  BY <1>5, SameTelling DEF CompileStart
<1>6. ASSUME NEW h \in Compilers, CompileStep(h) PROVE EndsInv' /\ TellingInv'
  BY <1>6, SameTelling, CrashTelling
     DEF CompileStep, CompilePush, CompileBadActivation, CompileLoss, CompileNoReturn,
         CompileRace, CompileEnds
<1>7. ASSUME NEW t \in Threads, Training(t) PROVE EndsInv' /\ TellingInv'
  BY <1>7, TrainingTelling
<1> QED BY <1>1, <1>2, <1>3, <1>4, <1>5, <1>6, <1>7 DEF Next

\* The invariant of the server that TLC checks: besides IInv, what of every
\* stream can still arrive is in order and up to date with its training.
THEOREM ServerInductive == Spec => []ServerInv
<1>1. Init => EndsInv /\ TellingInv
  <2> SUFFICES ASSUME Init PROVE EndsInv /\ TellingInv
    OBVIOUS
  <2>1. \A c \in Conns : conn[c] = NoObject /\ got[c] = <<>> /\ posted[c] = <<>>
    BY DEF Init, ConnInit
  <2>2. NoObject.io = "none" /\ NoObject.sock = "down" /\ NoObject.isReading = FALSE
    BY DEF NoObject
  <2>3. EndsInv
    BY <2>1, <2>2 DEF EndsInv, Quiet
  <2>4. \A c \in Conns : Lost(c)
    BY <2>1, <2>2 DEF Lost
  <2>5. TellingInv
    BY <2>1, <2>4, NothingTold DEF TellingInv
  <2> QED BY <2>3, <2>5
<1>2. IInv /\ EndsInv /\ TellingInv /\ [Next]_vars => EndsInv' /\ TellingInv'
  BY NextTelling
<1>3. IInv /\ EndsInv /\ TellingInv => ServerInv
  BY DEF ServerInv
<1> QED BY <1>1, <1>2, <1>3, Inductive, PTL DEF Spec

\* Whatever trainings run at once, connections come, go and take over, and
\* addresses are used again: no client hears an epoch of a training twice, out
\* of order or with a gap inside its session, nor anything of it after its
\* result (NeuralNetwork.cpp:36-69, RouteHandlers.cpp:52-59).
THEOREM TranscriptsInOrder == Spec => []Transcripts
<1>1. ASSUME ServerInv PROVE Transcripts
  BY <1>1, GotTelling DEF ServerInv, IInv, Transcripts
<1>2. ServerInv => Transcripts
  BY <1>1
<1> QED BY <1>2, ServerInductive, PTL
=============================================================================
