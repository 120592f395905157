--------------------------- MODULE CrowConnection ---------------------------
(***************************************************************************)
(* The life of a Crow WebSocket connection object, as the vendored         *)
(* lib/crow/websocket.h implements it and as the training server uses it:  *)
(* handshake, posted sends, the write in flight, the close handshake in    *)
(* both directions, read and write errors, the calls of the application's  *)
(* close handler and `delete this`.                                        *)
(*                                                                         *)
(* A member c of Conns is the ADDRESS of a connection object: when the     *)
(* object at c is freed, a later connection may be built at c again.  All  *)
(* handlers of one connection run on the one thread of its io_context, so  *)
(* an action below is one handler up to the point where it calls into the  *)
(* application (onopen, onclose); the application's part is in the         *)
(* modules that extend this one.                                           *)
(***************************************************************************)
EXTENDS Naturals, Sequences

CONSTANTS
    Conns,      \* addresses of connection objects
    Texts       \* text payloads the application sends (records with a kind)

VARIABLES
    conn,       \* conn[c]: the object at address c
    posted,     \* posted[c]: send and close tasks posted to c's io_context
    got         \* got[c]: frames received by the peer of the session at c

connVars == <<conn, posted, got>>

Hello      == [kind |-> "101"]      \* the HTTP upgrade response
CloseFrame == [kind |-> "close"]    \* a close frame; as a task: close()
Frames     == Texts \cup {Hello, CloseFrame}

ASSUME TextsAssumption == Hello \notin Texts /\ CloseFrame \notin Texts

(***************************************************************************)
(* Where the connection's thread is: no object; inside the open handler;   *)
(* between two handlers; inside the close handler called by close() (the   *)
(* peer closed first) or by check_destroy() and handle_fragment().         *)
(***************************************************************************)
IoStates == {"none", "onopen", "run", "oncloseReply", "onclose"}

Connection ==
    [ io                 : IoStates,
      sock               : {"up", "shut", "down"},  \* ours shut; peer gone
      isReading          : BOOLEAN,
      sentClose          : BOOLEAN,
      recvClose          : BOOLEAN,
      closeHandlerCalled : BOOLEAN,
      closeConnection    : BOOLEAN,
      writeBuffers       : Seq(Frames),
      sendingBuffers     : Seq(Frames),
      flushed            : BOOLEAN ]    \* sendingBuffers reached the peer

ConnTypeOK ==
    /\ conn \in [Conns -> Connection]
    /\ posted \in [Conns -> Seq(Texts \cup {CloseFrame})]
    /\ got \in [Conns -> Seq(Frames)]

\* No object at this address.
NoObject ==
    [ io |-> "none", sock |-> "down", isReading |-> FALSE,
      sentClose |-> FALSE, recvClose |-> FALSE,
      closeHandlerCalled |-> FALSE, closeConnection |-> FALSE,
      writeBuffers |-> <<>>, sendingBuffers |-> <<>>, flushed |-> FALSE ]

ConnInit ==
    /\ conn = [c \in Conns |-> NoObject]
    /\ posted = [c \in Conns |-> <<>>]
    /\ got = [c \in Conns |-> <<>>]

Alive(c) == conn[c].io # "none"

-----------------------------------------------------------------------------
(* Helpers on one connection object *)

\* Faulty do_write(): the buffers are not taken out of writeBuffers.
DoWriteKeeps(r) ==
    IF r.sendingBuffers = <<>>
    THEN [r EXCEPT !.sendingBuffers = r.writeBuffers, !.flushed = FALSE]
    ELSE r

\* do_write(): start a write unless one is in flight.
DoWrite(r) ==
    IF r.sendingBuffers = <<>>
    THEN [r EXCEPT !.sendingBuffers = r.writeBuffers,
                   !.writeBuffers = <<>>, !.flushed = FALSE]
    ELSE r

Enqueue(r, frame) == DoWrite([r EXCEPT !.writeBuffers = Append(@, frame)])

\* `delete this` if nothing refers to the object any more; the tasks still
\* posted hold a weak pointer and die with it.
DeleteIfIdle(c, r) ==
    IF r.sendingBuffers = <<>> /\ ~r.isReading
    THEN /\ conn' = [conn EXCEPT ![c] = NoObject]
         /\ posted' = [posted EXCEPT ![c] = <<>>]
         /\ got' = [got EXCEPT ![c] = <<>>]
    ELSE /\ conn' = [conn EXCEPT ![c] = [r EXCEPT !.io = "run"]]
         /\ UNCHANGED <<posted, got>>

\* Faulty check_destroy(): no call of the close handler; nothing but a return
\* when it was called before.
CheckDestroySilent(c, r) == DeleteIfIdle(c, r)
CheckDestroyOnce(c, r) ==
    /\ conn' = [conn EXCEPT ![c] =
           IF r.closeHandlerCalled THEN r ELSE [r EXCEPT !.io = "onclose"]]
    /\ UNCHANGED <<posted, got>>

\* check_destroy(): the close handler first, unless it was called already
\* (this call does not record itself, so there may be another one).
CheckDestroy(c, r) ==
    IF r.closeHandlerCalled
    THEN DeleteIfIdle(c, r)
    ELSE /\ conn' = [conn EXCEPT ![c] = [r EXCEPT !.io = "onclose"]]
         /\ UNCHANGED <<posted, got>>

\* Faulty close(): opcode 9 instead of 8.
WriteClosePing(r) == Enqueue(r, [kind |-> "ping"])

\* close() after its flags are set and its close handler, if any, returned.
WriteClose(r) == Enqueue(r, CloseFrame)

-----------------------------------------------------------------------------
(* Handlers of the connection's thread *)

\* The constructor and start(), up to the call of the open handler.
Handshake(c) ==
    /\ ~Alive(c)
    /\ conn' = [conn EXCEPT ![c] = Enqueue([NoObject EXCEPT !.io = "onopen",
                                                            !.sock = "up"],
                                           Hello)]
    /\ UNCHANGED <<posted, got>>

\* start(), after the open handler returned: the first do_read().
StartReading(c) ==
    /\ conn[c].io = "onopen"
    /\ conn' = [conn EXCEPT ![c].io = "run", ![c].isReading = TRUE]
    /\ UNCHANGED got

\* A posted task runs: send_data_impl(), or the body of close().  The branch
\* of close() that calls the close handler needs recvClose without
\* closeHandlerCalled: only RecvClose reaches it (RecvImpliesHandled).
RunPosted(c) ==
    LET frame == Head(posted[c])
        r     == conn[c]
    IN  /\ r.io = "run"
        /\ posted[c] # <<>>
        /\ posted' = [posted EXCEPT ![c] = Tail(@)]
        /\ conn' = [conn EXCEPT ![c] =
               IF frame = CloseFrame
               THEN WriteClose([r EXCEPT !.sentClose = TRUE])
               ELSE Enqueue(r, frame)]
        /\ UNCHANGED got

\* The peer can be read from: no handler is running, a read is pending.
Receiving(c) == conn[c].io = "run" /\ conn[c].isReading /\ conn[c].sock = "up"

\* Faulty close() after a close frame: the call of the handler is not recorded.
RecvCloseUnrecorded(c) ==
    /\ Receiving(c)
    /\ ~conn[c].sentClose
    /\ conn' = [conn EXCEPT ![c].recvClose = TRUE, ![c].sentClose = TRUE,
                            ![c].isReading = FALSE, ![c].io = "oncloseReply"]
    /\ UNCHANGED <<posted, got>>

\* A close frame arrives and none was sent: close() calls the close handler;
\* what follows it is in CloseHandlerReturns.
RecvClose(c) ==
    /\ Receiving(c)
    /\ ~conn[c].sentClose
    /\ conn' = [conn EXCEPT ![c].recvClose = TRUE, ![c].sentClose = TRUE,
                            ![c].isReading = FALSE,
                            ![c].closeHandlerCalled = TRUE,
                            ![c].io = "oncloseReply"]
    /\ UNCHANGED <<posted, got>>

\* The peer answers our close frame.
RecvCloseReply(c) ==
    /\ Receiving(c)
    /\ conn[c].sentClose
    /\ LET r == [conn[c] EXCEPT !.recvClose = TRUE, !.isReading = FALSE,
                                !.closeConnection = TRUE, !.sock = "shut"]
       IN IF r.closeHandlerCalled
          THEN DeleteIfIdle(c, r)
          ELSE /\ conn' = [conn EXCEPT ![c] =
                      [r EXCEPT !.closeHandlerCalled = TRUE, !.io = "onclose"]]
               /\ UNCHANGED <<posted, got>>

\* The pending read fails because the peer is gone.
ReadError(c) ==
    /\ conn[c].io = "run"
    /\ conn[c].isReading
    /\ conn[c].sock = "down"
    /\ CheckDestroy(c, [conn[c] EXCEPT !.isReading = FALSE,
                                       !.closeConnection = TRUE])

\* The kernel hands the bytes in flight to the peer.
Deliver(c) ==
    /\ Alive(c)
    /\ conn[c].sendingBuffers # <<>>
    /\ ~conn[c].flushed
    /\ conn[c].sock # "down"
    /\ conn' = [conn EXCEPT ![c].flushed = TRUE]
    /\ got' = [got EXCEPT ![c] = @ \o conn[c].sendingBuffers]
    /\ UNCHANGED posted

\* The write's completion handler, success branch.
WriteDone(c) ==
    LET r == [conn[c] EXCEPT !.sendingBuffers = <<>>]
    IN  /\ conn[c].io = "run"
        /\ conn[c].sendingBuffers # <<>>
        /\ conn[c].flushed \/ conn[c].sock = "down"
        /\ ~conn[c].closeConnection
        /\ conn' = [conn EXCEPT ![c] =
               [ (IF r.writeBuffers # <<>> THEN DoWrite(r) ELSE r)
                 EXCEPT !.closeConnection = r.sentClose ]]
        /\ UNCHANGED <<posted, got>>

\* The write's completion handler, failure or close_connection_ branch.
WriteDoneClosing(c) ==
    /\ conn[c].io = "run"
    /\ conn[c].sendingBuffers # <<>>
    /\ \/ conn[c].closeConnection /\ (conn[c].flushed \/ conn[c].sock # "up")
       \/ ~conn[c].flushed /\ conn[c].sock = "down"
    /\ CheckDestroy(c, [conn[c] EXCEPT !.sendingBuffers = <<>>,
                                       !.closeConnection = TRUE])

\* Faulty: no `delete this` after the close handler.
CloseHandlerLeaks(c) ==
    /\ conn[c].io \in {"onclose", "oncloseReply"}
    /\ conn' = [conn EXCEPT ![c].io = "run"]
    /\ UNCHANGED <<posted, got>>

\* The close handler returned: the rest of its caller.
CloseHandlerReturns(c) ==
    \/ /\ conn[c].io = "onclose"
       /\ DeleteIfIdle(c, conn[c])
    \/ /\ conn[c].io = "oncloseReply"
       /\ DeleteIfIdle(c, [WriteClose(conn[c]) EXCEPT
              !.closeConnection = TRUE,
              !.sock = IF @ = "down" THEN "down" ELSE "shut"])

\* The peer disappears without a close frame.
PeerGone(c) ==
    /\ Alive(c)
    /\ conn[c].sock = "up"
    /\ conn' = [conn EXCEPT ![c].sock = "down"]
    /\ UNCHANGED <<posted, got>>

\* What RunPosted relies on.
RecvImpliesHandled ==
    \A c \in Conns : conn[c].recvClose => conn[c].closeHandlerCalled

\* Every handler of c that needs neither the peer nor the application.
IoStep(c) ==
    \/ RunPosted(c)
    \/ Deliver(c)
    \/ WriteDone(c)
    \/ WriteDoneClosing(c)
    \/ ReadError(c)

\* The frames that one object still has to bring to its peer, and those of the
\* session at c altogether: received, on their way, and posted.
Unsent(r) ==
    (IF r.flushed THEN <<>> ELSE r.sendingBuffers) \o r.writeBuffers
Stream(c) == (got[c] \o Unsent(conn[c])) \o posted[c]

-----------------------------------------------------------------------------
(* What the application does to a connection from any thread *)

\* send_text(): the message is posted to the connection's io_context.
Post(c, task) == posted' = [posted EXCEPT ![c] = Append(@, task)]
=============================================================================
