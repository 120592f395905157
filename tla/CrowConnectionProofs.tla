------------------------ MODULE CrowConnectionProofs ------------------------
(***************************************************************************)
(* Every handler of CrowConnection keeps the types of a connection object, *)
(* its posted tasks and the frames its peer received, whatever the         *)
(* application does in between. Running a task, delivering and finishing a *)
(* write move the frames of a session on and lose none: received, unsent   *)
(* and posted, one after the other (Stream), they stay the same.           *)
(***************************************************************************)
EXTENDS CrowConnection, SequenceTheorems, TLAPS

\* The empty sequence and Append, for frames and for tasks.
LEMMA Buffers ==
    ASSUME NEW S
    PROVE  /\ <<>> \in Seq(S)
           /\ \A seq \in Seq(S), f \in S : Append(seq, f) \in Seq(S)
  OBVIOUS

\* A write buffer is a sequence of frames before and after each of the
\* helpers on a connection object (websocket.h:718-796).
LEMMA HelperTypes ==
    ASSUME NEW r \in Connection, NEW frame \in Frames
    PROVE  /\ DoWrite(r) \in Connection
           /\ Enqueue(r, frame) \in Connection
           /\ WriteClose(r) \in Connection
<1>1. ASSUME NEW q \in Connection PROVE DoWrite(q) \in Connection
  BY DEF DoWrite, Connection
<1>2. ASSUME NEW f \in Frames PROVE Enqueue(r, f) \in Connection
  <2>0. Append(r.writeBuffers, f) \in Seq(Frames)
    BY Buffers DEF Connection
  <2>1. [r EXCEPT !.writeBuffers = Append(@, f)] \in Connection
    BY <2>0 DEF Connection
  <2> QED BY <1>1, <2>1 DEF Enqueue
<1>3. CloseFrame \in Frames
  BY DEF Frames
<1> QED BY <1>1, <1>2, <1>3 DEF WriteClose

\* The object of an address that has none, and the object start() begins
\* with, are well formed (websocket.h:113-176).
LEMMA ObjectTypes ==
    /\ NoObject \in Connection
    /\ Enqueue([NoObject EXCEPT !.io = "onopen", !.sock = "up"], Hello) \in Connection
<1>1. NoObject \in Connection
  BY DEF NoObject, Connection, IoStates
<1>2. [NoObject EXCEPT !.io = "onopen", !.sock = "up"] \in Connection
  BY <1>1 DEF Connection, IoStates
<1>3. Hello \in Frames
  BY DEF Frames
<1> QED BY <1>1, <1>2, <1>3, HelperTypes

\* `delete this` and check_destroy() with a well-formed object
\* (websocket.h:755-765).
LEMMA DestroyTypes ==
    ASSUME ConnTypeOK, NEW c \in Conns, NEW r \in Connection,
           DeleteIfIdle(c, r) \/ CheckDestroy(c, r)
    PROVE  ConnTypeOK'
<1>1. \A s \in IoStates : [r EXCEPT !.io = s] \in Connection
  BY DEF Connection
<1>2. {"run", "onclose"} \subseteq IoStates
  BY DEF IoStates
<1>3. CASE DeleteIfIdle(c, r)
  <2>1. CASE r.sendingBuffers = <<>> /\ ~r.isReading
    <3>1. /\ conn' = [conn EXCEPT ![c] = NoObject]
          /\ posted' = [posted EXCEPT ![c] = <<>>]
          /\ got' = [got EXCEPT ![c] = <<>>]
      BY <1>3, <2>1 DEF DeleteIfIdle
    <3> QED BY <3>1, ObjectTypes, Buffers DEF ConnTypeOK
  <2>2. CASE ~(r.sendingBuffers = <<>> /\ ~r.isReading)
    <3>1. /\ conn' = [conn EXCEPT ![c] = [r EXCEPT !.io = "run"]]
          /\ UNCHANGED <<posted, got>>
      BY <1>3, <2>2 DEF DeleteIfIdle
    <3> QED BY <3>1, <1>1, <1>2 DEF ConnTypeOK
  <2> QED BY <2>1, <2>2
<1>4. CASE CheckDestroy(c, r)
  <2>1. CASE r.closeHandlerCalled
    BY <2>1, <1>3, <1>4 DEF CheckDestroy
  <2>2. CASE ~r.closeHandlerCalled
    BY <2>2, <1>1, <1>2, <1>4 DEF CheckDestroy, ConnTypeOK
  <2> QED BY <2>1, <2>2
<1> QED BY <1>3, <1>4

\* The connection's own handlers.
LEMMA IoStepTypes ==
    ASSUME ConnTypeOK, NEW c \in Conns, IoStep(c)
    PROVE  ConnTypeOK'
<1>0. conn[c] \in Connection /\ posted[c] \in Seq(Texts \cup {CloseFrame})
  BY DEF ConnTypeOK
<1>1. CASE RunPosted(c)
  <2>1. /\ Head(posted[c]) \in Frames
        /\ Tail(posted[c]) \in Seq(Texts \cup {CloseFrame})
    BY <1>0, <1>1 DEF RunPosted, Frames
  <2>2. [conn[c] EXCEPT !.sentClose = TRUE] \in Connection
    BY <1>0 DEF Connection
  <2> QED BY <1>0, <1>1, <2>1, <2>2, HelperTypes DEF RunPosted, ConnTypeOK
<1>2. CASE Deliver(c)
  <2>1. [conn[c] EXCEPT !.flushed = TRUE] \in Connection
    BY <1>0 DEF Connection
  <2>2. got[c] \o conn[c].sendingBuffers \in Seq(Frames)
    BY <1>0 DEF ConnTypeOK, Connection
  <2> QED BY <1>0, <1>2, <2>1, <2>2 DEF Deliver, ConnTypeOK
<1>3. CASE WriteDone(c)
  <2> DEFINE r == [conn[c] EXCEPT !.sendingBuffers = <<>>]
             q == IF r.writeBuffers # <<>> THEN DoWrite(r) ELSE r
  <2>1. r \in Connection
    BY <1>0, Buffers DEF Connection
  <2>2. q \in Connection
    BY <2>1, HelperTypes, ObjectTypes DEF Frames
  <2>3. [q EXCEPT !.closeConnection = r.sentClose] \in Connection
    BY <2>1, <2>2 DEF Connection
  <2> QED BY <1>3, <2>3 DEF WriteDone, ConnTypeOK
<1>4. CASE WriteDoneClosing(c)
  <2>1. [conn[c] EXCEPT !.sendingBuffers = <<>>, !.closeConnection = TRUE] \in Connection
    BY <1>0, Buffers DEF Connection
  <2> QED BY <1>4, <2>1, DestroyTypes DEF WriteDoneClosing
<1>5. CASE ReadError(c)
  <2>1. [conn[c] EXCEPT !.isReading = FALSE, !.closeConnection = TRUE] \in Connection
    BY <1>0 DEF Connection
  <2> QED BY <1>5, <2>1, DestroyTypes DEF ReadError
<1> QED BY <1>1, <1>2, <1>3, <1>4, <1>5 DEF IoStep

\* The close handler's return, and the steps a peer causes.
LEMMA CloseTypes ==
    ASSUME ConnTypeOK, NEW c \in Conns,
           \/ CloseHandlerReturns(c) \/ RecvClose(c)
           \/ RecvCloseReply(c) \/ PeerGone(c)
    PROVE  ConnTypeOK'
<1>0. conn[c] \in Connection /\ Hello \in Frames
  BY DEF ConnTypeOK, Frames
<1>1. CASE CloseHandlerReturns(c)
  <2>1. CASE DeleteIfIdle(c, conn[c])
    BY <2>1, <1>0, DestroyTypes
  <2>2. CASE conn[c].io = "oncloseReply"
    <3> DEFINE q == WriteClose(conn[c])
               r == [q EXCEPT !.closeConnection = TRUE,
                              !.sock = IF @ = "down" THEN "down" ELSE "shut"]
    <3>1. q \in Connection
      BY <1>0, HelperTypes
    <3>2. r \in Connection
      BY <3>1 DEF Connection
    <3>3. DeleteIfIdle(c, r)
      BY <1>1, <2>2 DEF CloseHandlerReturns
    <3> HIDE DEF r
    <3> QED BY <3>2, <3>3, DestroyTypes
  <2> QED BY <1>1, <2>1, <2>2 DEF CloseHandlerReturns
<1>2. CASE RecvClose(c)
  <2>1. [conn[c] EXCEPT !.recvClose = TRUE, !.sentClose = TRUE,
                        !.isReading = FALSE, !.closeHandlerCalled = TRUE,
                        !.io = "oncloseReply"] \in Connection
    BY <1>0 DEF Connection, IoStates
  <2> QED BY <1>2, <2>1 DEF RecvClose, ConnTypeOK
<1>3. CASE RecvCloseReply(c)
  <2> DEFINE r == [conn[c] EXCEPT !.recvClose = TRUE, !.isReading = FALSE,
                                  !.closeConnection = TRUE, !.sock = "shut"]
  <2>1. r \in Connection
    BY <1>0 DEF Connection
  <2>2. CASE r.closeHandlerCalled
    <3>1. DeleteIfIdle(c, r)
      BY <1>3, <2>2 DEF RecvCloseReply
    <3> HIDE DEF r
    <3> QED BY <2>1, <3>1, DestroyTypes
  <2>3. CASE ~r.closeHandlerCalled
    <3>1. [r EXCEPT !.closeHandlerCalled = TRUE, !.io = "onclose"] \in Connection
      BY <2>1 DEF Connection, IoStates
    <3> QED BY <1>3, <2>3, <3>1 DEF RecvCloseReply, ConnTypeOK
  <2> QED BY <2>2, <2>3
<1>4. CASE PeerGone(c)
  <2>1. [conn[c] EXCEPT !.sock = "down"] \in Connection
    BY <1>0 DEF Connection
  <2> QED BY <1>4, <2>1 DEF PeerGone, ConnTypeOK
<1> QED BY <1>1, <1>2, <1>3, <1>4

\* A new connection is well formed (websocket.h:325-346).
LEMMA HandshakeTypes ==
    ASSUME ConnTypeOK, NEW c \in Conns, Handshake(c)
    PROVE  ConnTypeOK'
  BY ObjectTypes DEF Handshake, ConnTypeOK

\* Posting a text or a close keeps the tasks well formed (websocket.h:192-223).
LEMMA PostTypes ==
    ASSUME ConnTypeOK, NEW c \in Conns, NEW task \in Texts \cup {CloseFrame},
           Post(c, task), UNCHANGED <<conn, got>>
    PROVE  ConnTypeOK'
<1>1. Append(posted[c], task) \in Seq(Texts \cup {CloseFrame})
  BY DEF ConnTypeOK
<1> QED BY <1>1 DEF Post, ConnTypeOK

\* A connection that starts to read is well formed (websocket.h:341-345).
LEMMA ReadingTypes ==
    ASSUME NEW x \in Connection
    PROVE  [x EXCEPT !.io = "run", !.isReading = TRUE] \in Connection
  BY DEF Connection, IoStates

\* onopen's greeting and the first read (RouteHandlers.cpp:21).
LEMMA GreetTypes ==
    ASSUME ConnTypeOK, NEW c \in Conns, NEW task \in Texts \cup {CloseFrame},
           StartReading(c), Post(c, task)
    PROVE  ConnTypeOK'
<1>1. Append(posted[c], task) \in Seq(Texts \cup {CloseFrame})
  BY DEF ConnTypeOK
<1>2. conn[c] \in Connection
  BY DEF ConnTypeOK
<1>3. [conn[c] EXCEPT !.io = "run", !.isReading = TRUE] \in Connection
  BY <1>2, ReadingTypes
<1> QED BY <1>1, <1>3 DEF StartReading, Post, ConnTypeOK

-----------------------------------------------------------------------------
(* The stream of frames of a session *)

\* Three parts in a row.
LEMMA FramesAssoc ==
    \A s, t, u \in Seq(Frames) : (s \o t) \o u = s \o (t \o u)
<1>1. ASSUME NEW s \in Seq(Frames), NEW t \in Seq(Frames), NEW u \in Seq(Frames)
      PROVE  (s \o t) \o u = s \o (t \o u)
  BY ConcatAssociative
<1> QED BY <1>1

\* The laws of concatenation that the streams need, for frames.
LEMMA FramesConcat ==
    /\ <<>> \in Seq(Frames)
    /\ \A s \in Seq(Frames) : s \o <<>> = s /\ <<>> \o s = s
    /\ \A s, t \in Seq(Frames) : s \o t \in Seq(Frames)
    /\ \A f \in Frames : <<f>> \in Seq(Frames)
    /\ \A s \in Seq(Frames), f \in Frames : Append(s, f) = s \o <<f>>
<1>1. ASSUME NEW s \in Seq(Frames) PROVE s \o <<>> = s /\ <<>> \o s = s
  BY ConcatEmptySeq
<1>2. ASSUME NEW s \in Seq(Frames), NEW t \in Seq(Frames) PROVE s \o t \in Seq(Frames)
  BY ConcatProperties
<1>3. ASSUME NEW s \in Seq(Frames), NEW f \in Frames PROVE Append(s, f) = s \o <<f>>
  OBVIOUS
<1>4. <<>> \in Seq(Frames) /\ \A f \in Frames : <<f>> \in Seq(Frames)
  OBVIOUS
<1> QED BY <1>1, <1>2, <1>3, <1>4

\* Where the frames of a concatenation come from.
LEMMA FramesParts ==
    ASSUME NEW s \in Seq(Frames), NEW t \in Seq(Frames)
    PROVE  /\ Len(s \o t) = Len(s) + Len(t)
           /\ \A i \in 1 .. Len(s) + Len(t) :
                 (s \o t)[i] = IF i <= Len(s) THEN s[i] ELSE t[i - Len(s)]
  BY ConcatProperties

\* A task is the text or the close frame it writes.
LEMMA TaskIsFrame ==
    /\ Texts \cup {CloseFrame} \subseteq Frames
    /\ \A p \in Seq(Texts \cup {CloseFrame}) : p \in Seq(Frames)
<1>1. Texts \cup {CloseFrame} \subseteq Frames
  BY DEF Frames
<1>2. ASSUME NEW p \in Seq(Texts \cup {CloseFrame}) PROVE p \in Seq(Frames)
  BY <1>1, SeqMonotonic
<1> QED BY <1>1, <1>2

\* What an object has not sent yet is a sequence of frames.
LEMMA UnsentType ==
    ASSUME NEW r \in Connection
    PROVE  Unsent(r) \in Seq(Frames)
<1>1. r.writeBuffers \in Seq(Frames) /\ r.sendingBuffers \in Seq(Frames)
  BY DEF Connection
<1> QED BY <1>1, FramesConcat DEF Unsent

\* So is everything of a session, received, unsent and posted.
LEMMA StreamType ==
    ASSUME ConnTypeOK, NEW c \in Conns
    PROVE  /\ Stream(c) \in Seq(Frames)
           /\ got[c] \in Seq(Frames) /\ Unsent(conn[c]) \in Seq(Frames)
           /\ posted[c] \in Seq(Frames)
<1>1. /\ conn[c] \in Connection /\ got[c] \in Seq(Frames)
      /\ posted[c] \in Seq(Texts \cup {CloseFrame})
  BY DEF ConnTypeOK
<1>2. Unsent(conn[c]) \in Seq(Frames) /\ posted[c] \in Seq(Frames)
  BY <1>1, UnsentType, TaskIsFrame
<1>3. got[c] \o Unsent(conn[c]) \in Seq(Frames)
  BY <1>1, <1>2, FramesConcat
<1> QED BY <1>1, <1>2, <1>3, FramesConcat DEF Stream

\* Starting a write loses no frame (websocket.h:718-728).
LEMMA UnsentDoWrite ==
    ASSUME NEW r \in Connection
    PROVE  Unsent(DoWrite(r)) = Unsent(r)
<1>1. CASE r.sendingBuffers = <<>>
  <2> DEFINE q == [r EXCEPT !.sendingBuffers = r.writeBuffers,
                            !.writeBuffers = <<>>, !.flushed = FALSE]
  <2>1. DoWrite(r) = q
    BY <1>1 DEF DoWrite
  <2>2. q.sendingBuffers = r.writeBuffers /\ q.writeBuffers = <<>> /\ ~q.flushed
    BY DEF Connection
  <2>3. r.writeBuffers \in Seq(Frames)
    BY DEF Connection
  <2> HIDE DEF q
  <2>4. Unsent(q) = r.writeBuffers \o <<>>
    BY <2>2 DEF Unsent
  <2>5. Unsent(r) = <<>> \o r.writeBuffers
    BY <1>1 DEF Unsent
  <2> QED BY <2>1, <2>3, <2>4, <2>5, FramesConcat
<1>2. CASE r.sendingBuffers # <<>>
  BY <1>2 DEF DoWrite
<1> QED BY <1>1, <1>2

\* A frame put into write_buffers_ comes after all that is there.
LEMMA UnsentEnqueue ==
    ASSUME NEW r \in Connection, NEW f \in Frames
    PROVE  Unsent(Enqueue(r, f)) = Unsent(r) \o <<f>>
<1> DEFINE q == [r EXCEPT !.writeBuffers = Append(@, f)]
           before == IF r.flushed THEN <<>> ELSE r.sendingBuffers
<1>1. r.writeBuffers \in Seq(Frames) /\ before \in Seq(Frames)
  BY FramesConcat DEF Connection
<1>2. q \in Connection
  <2>1. Append(r.writeBuffers, f) \in Seq(Frames)
    BY <1>1, Buffers
  <2> QED BY <2>1 DEF Connection
<1>3. /\ q.writeBuffers = Append(r.writeBuffers, f)
      /\ q.flushed = r.flushed /\ q.sendingBuffers = r.sendingBuffers
  BY DEF Connection
<1> HIDE DEF q
<1>4. Unsent(q) = before \o (r.writeBuffers \o <<f>>)
  BY <1>1, <1>3, FramesConcat DEF Unsent
<1>5. Unsent(r) = before \o r.writeBuffers
  BY DEF Unsent
<1> HIDE DEF before
<1>6. Unsent(q) = Unsent(r) \o <<f>>
  <2>1. <<f>> \in Seq(Frames)
    BY FramesConcat
  <2>2. (before \o r.writeBuffers) \o <<f>> = before \o (r.writeBuffers \o <<f>>)
    BY <1>1, <2>1, FramesAssoc
  <2> QED BY <1>4, <1>5, <2>2
<1>7. Unsent(DoWrite(q)) = Unsent(q)
  BY <1>2, UnsentDoWrite
<1> QED BY <1>6, <1>7 DEF Enqueue, q

\* A task that runs moves its frame from the posted ones to the buffers.
LEMMA HeadMoves ==
    ASSUME NEW s \in Seq(Frames), NEW u \in Seq(Frames), NEW p \in Seq(Frames),
           p # <<>>
    PROVE  (s \o (u \o <<Head(p)>>)) \o Tail(p) = (s \o u) \o p
<1>1. /\ <<Head(p)>> \in Seq(Frames) /\ Tail(p) \in Seq(Frames)
      /\ p = <<Head(p)>> \o Tail(p)
  OBVIOUS
<1>2. s \o (u \o <<Head(p)>>) = (s \o u) \o <<Head(p)>>
  BY <1>1, FramesAssoc
<1>3. s \o u \in Seq(Frames)
  BY FramesConcat
<1>4. ((s \o u) \o <<Head(p)>>) \o Tail(p) = (s \o u) \o (<<Head(p)>> \o Tail(p))
  BY <1>1, <1>3, FramesAssoc
<1> QED BY <1>1, <1>2, <1>4

\* The stream of an address after a step.
LEMMA StreamNext ==
    ASSUME NEW c \in Conns
    PROVE  Stream(c)' = (got'[c] \o Unsent(conn'[c])) \o posted'[c]
  BY DEF Stream, Unsent

\* Running a posted task, delivering and finishing a write move frames along
\* the stream and lose none while the peer is there (websocket.h:767-796,
\* 718-752).
LEMMA RunPostedStream ==
    ASSUME ConnTypeOK, NEW c \in Conns, RunPosted(c)
    PROVE  Stream(c)' = Stream(c)
<1> DEFINE r == conn[c]
           p == posted[c]
           s == [r EXCEPT !.sentClose = TRUE]
           x == IF Head(p) = CloseFrame THEN s ELSE r
<1>1. r \in Connection /\ p # <<>> /\ p \in Seq(Texts \cup {CloseFrame})
  BY DEF RunPosted, ConnTypeOK
<1>2. Head(p) \in Texts \cup {CloseFrame}
  BY <1>1
<1>3. Head(p) \in Frames
  BY <1>2, TaskIsFrame
<1>4. /\ s \in Connection /\ s.flushed = r.flushed
      /\ s.sendingBuffers = r.sendingBuffers /\ s.writeBuffers = r.writeBuffers
  BY <1>1 DEF Connection
<1>5. /\ conn' = [conn EXCEPT ![c] = Enqueue(x, Head(p))]
      /\ posted' = [posted EXCEPT ![c] = Tail(p)]
      /\ got' = [got EXCEPT ![c] = got[c]]
  BY DEF RunPosted, WriteClose, ConnTypeOK
<1>6. Unsent(x) = Unsent(r) /\ x \in Connection
  BY <1>1, <1>4 DEF Unsent
<1> HIDE DEF x, s
<1>7. Unsent(Enqueue(x, Head(p))) = Unsent(r) \o <<Head(p)>>
  BY <1>3, <1>6, UnsentEnqueue
<1>8. Stream(c)' = (got[c] \o Unsent(Enqueue(x, Head(p)))) \o Tail(p)
  <2>1. /\ conn'[c] = Enqueue(x, Head(p)) /\ posted'[c] = Tail(p)
        /\ got'[c] = got[c]
    BY <1>5 DEF ConnTypeOK
  <2> QED BY <2>1, StreamNext
<1>9. got[c] \in Seq(Frames) /\ Unsent(r) \in Seq(Frames) /\ p \in Seq(Frames)
  BY StreamType
<1>10. (got[c] \o (Unsent(r) \o <<Head(p)>>)) \o Tail(p) = (got[c] \o Unsent(r)) \o p
  <2> DEFINE g == got[c]
             u == Unsent(r)
  <2>1. g \in Seq(Frames) /\ u \in Seq(Frames) /\ p \in Seq(Frames) /\ p # <<>>
    BY <1>1, <1>9
  <2> HIDE DEF r, p, g, u
  <2>2. (g \o (u \o <<Head(p)>>)) \o Tail(p) = (g \o u) \o p
    BY <2>1, HeadMoves
  <2> QED BY <2>2 DEF g, u
<1>11. Stream(c) = (got[c] \o Unsent(r)) \o p
  BY DEF Stream
<1> HIDE DEF r, p
<1> QED BY <1>7, <1>8, <1>10, <1>11

\* The peer gets what is in sending_buffers_.
LEMMA DeliverStream ==
    ASSUME ConnTypeOK, NEW c \in Conns, Deliver(c)
    PROVE  /\ Stream(c)' = Stream(c)
           /\ got'[c] = got[c] \o conn[c].sendingBuffers
<1> DEFINE r == conn[c]
           q == [r EXCEPT !.flushed = TRUE]
           g == got[c] \o r.sendingBuffers
<1>1. /\ r \in Connection /\ ~r.flushed
      /\ got[c] \in Seq(Frames) /\ r.sendingBuffers \in Seq(Frames)
      /\ r.writeBuffers \in Seq(Frames)
  BY DEF Deliver, ConnTypeOK, Connection
<1>2. q.flushed /\ q.writeBuffers = r.writeBuffers
  BY <1>1 DEF Connection
<1>3. /\ conn' = [conn EXCEPT ![c] = q]
      /\ posted' = [posted EXCEPT ![c] = posted[c]]
      /\ got' = [got EXCEPT ![c] = g]
  BY DEF Deliver, ConnTypeOK
<1> HIDE DEF q, g
<1>4. Stream(c)' = (g \o Unsent(q)) \o posted[c] /\ got'[c] = g
  <2>1. conn'[c] = q /\ posted'[c] = posted[c] /\ got'[c] = g
    BY <1>3 DEF ConnTypeOK
  <2> QED BY <2>1, StreamNext
<1>5. Unsent(q) = r.writeBuffers
  BY <1>1, <1>2, FramesConcat DEF Unsent
<1>6. Unsent(r) = r.sendingBuffers \o r.writeBuffers
  BY <1>1 DEF Unsent
<1>7. (got[c] \o r.sendingBuffers) \o r.writeBuffers = got[c] \o Unsent(r)
  <2> HIDE DEF r
  <2>1. (got[c] \o r.sendingBuffers) \o r.writeBuffers
           = got[c] \o (r.sendingBuffers \o r.writeBuffers)
    BY <1>1, FramesAssoc
  <2> QED BY <1>6, <2>1
<1> QED BY <1>4, <1>5, <1>7 DEF g, Stream

\* The next write begins where the last one ended (websocket.h:718-752).
LEMMA WriteDoneStream ==
    ASSUME ConnTypeOK, NEW c \in Conns, WriteDone(c), conn[c].sock # "down"
    PROVE  Stream(c)' = Stream(c)
<1> DEFINE r == conn[c]
           e == [r EXCEPT !.sendingBuffers = <<>>]
           q == IF e.writeBuffers # <<>> THEN DoWrite(e) ELSE e
           s == [q EXCEPT !.closeConnection = e.sentClose]
<1>1. r \in Connection /\ r.flushed /\ r.writeBuffers \in Seq(Frames)
  BY DEF WriteDone, ConnTypeOK, Connection
<1>2. /\ e \in Connection /\ e.flushed
      /\ e.writeBuffers = r.writeBuffers
  BY <1>1, FramesConcat DEF Connection
<1>3. /\ conn' = [conn EXCEPT ![c] = s]
      /\ posted' = [posted EXCEPT ![c] = posted[c]]
      /\ got' = [got EXCEPT ![c] = got[c]]
  BY DEF WriteDone, ConnTypeOK
<1>4. e.sentClose \in BOOLEAN
  BY <1>2 DEF Connection
<1>5. Unsent(e) = Unsent(r)
  BY <1>1, <1>2 DEF Unsent
<1> HIDE DEF e
<1>6. Unsent(q) = Unsent(e) /\ q \in Connection
  BY <1>2, UnsentDoWrite, HelperTypes, TextsAssumption DEF Frames
<1> HIDE DEF q
<1>7. /\ s.flushed = q.flushed /\ s.sendingBuffers = q.sendingBuffers
      /\ s.writeBuffers = q.writeBuffers
  BY <1>6 DEF Connection
<1> HIDE DEF s
<1>8. Unsent(s) = Unsent(r)
  BY <1>5, <1>6, <1>7 DEF Unsent
<1>9. Stream(c)' = (got[c] \o Unsent(s)) \o posted[c]
  <2>1. conn'[c] = s /\ posted'[c] = posted[c] /\ got'[c] = got[c]
    BY <1>3 DEF ConnTypeOK
  <2> QED BY <2>1, StreamNext
<1>10. Unsent(s) = Unsent(conn[c])
  BY <1>8 DEF r
<1> QED BY <1>9, <1>10 DEF Stream

\* send_text() and close() add to the end of the stream (websocket.h:192-223).
LEMMA PostStream ==
    ASSUME ConnTypeOK, NEW c \in Conns, NEW task \in Texts \cup {CloseFrame},
           Post(c, task), Unsent(conn'[c]) = Unsent(conn[c]), UNCHANGED got
    PROVE  Stream(c)' = Append(Stream(c), task)
<1>1. posted'[c] = Append(posted[c], task)
  BY DEF Post, ConnTypeOK
<1>2. /\ got[c] \in Seq(Frames) /\ Unsent(conn[c]) \in Seq(Frames)
      /\ posted[c] \in Seq(Frames) /\ Stream(c) \in Seq(Frames)
  BY StreamType
<1>3. task \in Frames
  BY TaskIsFrame
<1>4. Append(posted[c], task) = posted[c] \o <<task>>
  BY <1>2, <1>3, FramesConcat
<1>5. got[c] \o Unsent(conn[c]) \in Seq(Frames)
  BY <1>2, FramesConcat
<1>6. (got[c] \o Unsent(conn[c])) \o (posted[c] \o <<task>>)
         = ((got[c] \o Unsent(conn[c])) \o posted[c]) \o <<task>>
  <2> DEFINE front == got[c] \o Unsent(conn[c])
             p == posted[c]
             last == <<task>>
  <2>1. front \in Seq(Frames) /\ p \in Seq(Frames) /\ last \in Seq(Frames)
    BY <1>2, <1>3, <1>5, FramesConcat
  <2> HIDE DEF front, p, last
  <2>2. front \o (p \o last) = (front \o p) \o last
    BY <2>1, FramesAssoc
  <2> QED BY <2>2 DEF front, p, last
<1>7. Stream(c)' = (got'[c] \o Unsent(conn'[c])) \o posted'[c]
  BY StreamNext
<1> QED BY <1>1, <1>2, <1>3, <1>4, <1>6, <1>7, FramesConcat DEF Stream

\* What has arrived is a beginning of the stream.
LEMMA GotBegins ==
    ASSUME ConnTypeOK, NEW c \in Conns
    PROVE  /\ Len(got[c]) \in Nat /\ Len(got[c]) <= Len(Stream(c))
           /\ \A i \in 1 .. Len(got[c]) : got[c][i] = Stream(c)[i]
<1> DEFINE g == got[c]
           u == Unsent(conn[c])
           p == posted[c]
<1>1. /\ g \in Seq(Frames) /\ u \in Seq(Frames) /\ p \in Seq(Frames)
      /\ Stream(c) = (g \o u) \o p
  BY StreamType DEF Stream
<1> HIDE DEF g, u, p
<1>2. /\ g \o u \in Seq(Frames) /\ Len(g \o u) = Len(g) + Len(u)
      /\ \A k \in 1 .. Len(g) + Len(u) :
            (g \o u)[k] = IF k <= Len(g) THEN g[k] ELSE u[k - Len(g)]
  BY <1>1, FramesConcat, FramesParts
<1>3. /\ Len(Stream(c)) = Len(g \o u) + Len(p)
      /\ \A k \in 1 .. Len(g \o u) + Len(p) :
            Stream(c)[k] = IF k <= Len(g \o u) THEN (g \o u)[k] ELSE p[k - Len(g \o u)]
  BY <1>1, <1>2, FramesParts
<1>4. Len(g) \in Nat /\ Len(u) \in Nat /\ Len(p) \in Nat
  BY <1>1
<1>5. Len(g) <= Len(Stream(c)) /\ \A i \in 1 .. Len(g) : g[i] = Stream(c)[i]
  BY <1>2, <1>3, <1>4
<1> QED BY <1>4, <1>5 DEF g

\* After check_destroy() the address is free, or its object is as it was but
\* for the place of its thread (websocket.h:755-765).
LEMMA Destroyed ==
    ASSUME ConnTypeOK, NEW c \in Conns, NEW r \in Connection,
           DeleteIfIdle(c, r) \/ CheckDestroy(c, r)
    PROVE  /\ \A d \in Conns \ {c} : /\ conn'[d] = conn[d] /\ got'[d] = got[d]
                                     /\ posted'[d] = posted[d]
           /\ \/ conn'[c] = NoObject /\ got'[c] = <<>> /\ posted'[c] = <<>>
              \/ /\ UNCHANGED <<posted, got>>
                 /\ \E s \in {"run", "onclose"} : conn'[c] = [r EXCEPT !.io = s]
<1>1. CASE DeleteIfIdle(c, r)
  BY <1>1 DEF DeleteIfIdle, ConnTypeOK
<1>2. CASE CheckDestroy(c, r)
  BY <1>1, <1>2 DEF CheckDestroy, ConnTypeOK
<1> QED BY <1>1, <1>2

\* A peer that has received the whole stream is owed nothing.
LEMMA AllReceived ==
    ASSUME ConnTypeOK, NEW c \in Conns, got[c] = Stream(c)
    PROVE  /\ Unsent(conn[c]) = <<>> /\ posted[c] = <<>>
           /\ conn[c].flushed \/ conn[c].sendingBuffers = <<>>
<1> DEFINE g == got[c]
           u == Unsent(conn[c])
           p == posted[c]
           r == conn[c]
<1>1. /\ g \in Seq(Frames) /\ u \in Seq(Frames) /\ p \in Seq(Frames)
      /\ g = (g \o u) \o p
  BY StreamType DEF Stream
<1> HIDE DEF g, u, p
<1>2. Len(g \o u) = Len(g) + Len(u) /\ g \o u \in Seq(Frames)
  BY <1>1, FramesParts, FramesConcat
<1>3. Len((g \o u) \o p) = Len(g \o u) + Len(p)
  BY <1>1, <1>2, FramesParts
<1>4. /\ Len(g) \in Nat /\ Len(u) \in Nat /\ Len(p) \in Nat
      /\ Len(u) = 0 => u = <<>>
      /\ Len(p) = 0 => p = <<>>
  BY <1>1
<1>5. Len(u) = 0 /\ Len(p) = 0
  BY <1>1, <1>2, <1>3, <1>4
<1>6. u = <<>> /\ p = <<>>
  BY <1>4, <1>5
<1>7. r.sendingBuffers \in Seq(Frames) /\ r.writeBuffers \in Seq(Frames)
  BY DEF ConnTypeOK, Connection
<1>8. ASSUME ~r.flushed PROVE r.sendingBuffers = <<>>
  <2> DEFINE x == r.sendingBuffers
             w == r.writeBuffers
  <2>1. u = x \o w
    BY <1>8 DEF Unsent, u
  <2>2. x \in Seq(Frames) /\ w \in Seq(Frames)
    BY <1>7
  <2> HIDE DEF x, w
  <2>3. Len(x \o w) = Len(x) + Len(w)
    BY <2>2, FramesParts
  <2>4. Len(x) \in Nat /\ Len(w) \in Nat /\ (Len(x) = 0 => x = <<>>)
    BY <2>2
  <2>5. Len(x) = 0
    BY <1>5, <2>1, <2>3, <2>4
  <2> QED BY <2>4, <2>5 DEF x
<1> QED BY <1>6, <1>8 DEF u, p

\* What starting a write and writing a frame leave alone
\* (websocket.h:718-728).
LEMMA DoWriteSame ==
    ASSUME NEW r \in Connection
    PROVE  LET q == DoWrite(r)
           IN  /\ q.io = r.io /\ q.sock = r.sock /\ q.isReading = r.isReading
               /\ q.sentClose = r.sentClose /\ q.closeConnection = r.closeConnection
               /\ q.closeHandlerCalled = r.closeHandlerCalled
  BY DEF DoWrite, Connection

\* A frame more in write_buffers_ touches the buffers and nothing else.
LEMMA EnqueueSame ==
    ASSUME NEW r \in Connection, NEW f \in Frames
    PROVE  LET q == Enqueue(r, f)
           IN  /\ q.io = r.io /\ q.sock = r.sock /\ q.isReading = r.isReading
               /\ q.sentClose = r.sentClose /\ q.closeConnection = r.closeConnection
               /\ q.closeHandlerCalled = r.closeHandlerCalled
<1> DEFINE x == [r EXCEPT !.writeBuffers = Append(@, f)]
<1>1. Append(r.writeBuffers, f) \in Seq(Frames)
  BY Buffers DEF Connection
<1>2. /\ x \in Connection
      /\ x.io = r.io /\ x.sock = r.sock /\ x.isReading = r.isReading
      /\ x.sentClose = r.sentClose /\ x.closeConnection = r.closeConnection
      /\ x.closeHandlerCalled = r.closeHandlerCalled
  BY <1>1 DEF Connection
<1> HIDE DEF x
<1> QED BY <1>2, DoWriteSame DEF Enqueue, x
=============================================================================
