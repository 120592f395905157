------------------------- MODULE WebSocketSessions -------------------------
(***************************************************************************)
(* Crow connections under an arbitrary application: any thread may call    *)
(* send_text() and close() on a live connection at any time, as the        *)
(* training threads of RouteHandlers.cpp do, and the open and close        *)
(* handlers just return.  Peers come, close, answer a close or vanish.     *)
(***************************************************************************)
EXTENDS CrowConnection

CONSTANT MaxCalls    \* bound: send_text() and close() calls in one session

ASSUME MaxCallsAssumption == MaxCalls \in Nat

VARIABLES
    sent,        \* sent[c]: texts of the send_text() calls of this session
    calls,       \* calls[c]: number of calls in this session
    handled      \* handled[c]: the close handler was called in this session

vars == <<connVars, sent, calls, handled>>

TypeOK ==
    /\ ConnTypeOK
    /\ sent \in [Conns -> Seq(Texts)]
    /\ calls \in [Conns -> 0 .. MaxCalls]
    /\ handled \in [Conns -> BOOLEAN]

Init ==
    /\ ConnInit
    /\ sent = [c \in Conns |-> <<>>]
    /\ calls = [c \in Conns |-> 0]
    /\ handled = [c \in Conns |-> FALSE]

-----------------------------------------------------------------------------
\* The history variables of a session end with its object.
EndSession(c) ==
    LET gone == ~(Alive(c))'
    IN  /\ sent' = [sent EXCEPT ![c] = IF gone THEN <<>> ELSE @]
        /\ calls' = [calls EXCEPT ![c] = IF gone THEN 0 ELSE @]

Open(c) ==
    /\ Handshake(c)
    /\ handled' = [handled EXCEPT ![c] = FALSE]
    /\ UNCHANGED <<sent, calls>>

OpenHandlerReturns(c) ==
    /\ StartReading(c)
    /\ UNCHANGED <<posted, sent, calls, handled>>

SendText(c, text) ==
    /\ Alive(c)
    /\ calls[c] < MaxCalls
    /\ Post(c, text)
    /\ sent' = [sent EXCEPT ![c] = Append(@, text)]
    /\ calls' = [calls EXCEPT ![c] = @ + 1]
    /\ UNCHANGED <<conn, got, handled>>

Close(c) ==
    /\ Alive(c)
    /\ calls[c] < MaxCalls
    /\ Post(c, CloseFrame)
    /\ calls' = [calls EXCEPT ![c] = @ + 1]
    /\ UNCHANGED <<conn, got, sent, handled>>

CloseHandler(c) ==
    /\ CloseHandlerReturns(c)
    /\ handled' = [handled EXCEPT ![c] = TRUE]
    /\ EndSession(c)

Handlers(c) ==
    /\ IoStep(c)
    /\ EndSession(c)
    /\ UNCHANGED handled

Peer(c) ==
    /\ RecvClose(c) \/ RecvCloseReply(c) \/ PeerGone(c)
    /\ EndSession(c)
    /\ UNCHANGED handled

Next ==
    \E c \in Conns :
        \/ Open(c)
        \/ OpenHandlerReturns(c)
        \/ \E text \in Texts : SendText(c, text)
        \/ Close(c)
        \/ CloseHandler(c)
        \/ Handlers(c)
        \/ Peer(c)

Spec == Init /\ [][Next]_vars

\* A worker thread runs the handlers that are ready (http_server.h: each
\* io_context is run by its own thread for ever); the kernel delivers bytes
\* or the peer is gone.  Nothing obliges a peer or the application to act.
Fairness ==
    \A c \in Conns :
        /\ WF_vars(OpenHandlerReturns(c))
        /\ WF_vars(CloseHandler(c))
        /\ WF_vars(Handlers(c))

FairSpec == Spec /\ Fairness

-----------------------------------------------------------------------------
(* Properties *)

\* send_text() (websocket.h:788) from any thread is an ordered channel whose
\* tail may be lost: the posted tasks, write_buffers_ and sending_buffers_
\* hand every text on once, in order, whatever closes meanwhile.
TextsUpTo(frames) ==
    LET texts[n \in 0 .. Len(frames)] ==
            IF n = 0 THEN <<>>
            ELSE IF frames[n] \in Texts THEN Append(texts[n - 1], frames[n])
                 ELSE texts[n - 1]
    IN  texts
TextsOf(frames) == TextsUpTo(frames)[Len(frames)]
Received(c) == TextsOf(got[c])
Channel == INSTANCE OrderedChannel
               WITH received <- [c \in Conns |-> Received(c)]
ImplementsChannel == Channel!ChannelSpec

\* The object is never deleted before the application's close handler was
\* called: the global pointer of RouteHandlers.cpp:69 depends on it.
HandledBeforeDelete ==
    [][\A c \in Conns : Alive(c) /\ ~(Alive(c))' => handled'[c]]_vars

\* No object leaks: when the peer is gone, or has closed, the object is
\* deleted, whatever write or task is pending (websocket.h:357-364, 755-765).
Reclaimed ==
    \A c \in Conns :
        Alive(c) /\ (conn[c].sock # "up" \/ conn[c].recvClose) ~> ~Alive(c)

-----------------------------------------------------------------------------
(* The inductive invariant behind them *)

\* A recorded call of the close handler has begun: it returned or is running.
CalledInv ==
    \A c \in Conns :
        Alive(c) /\ conn[c].closeHandlerCalled =>
            handled[c] \/ conn[c].io \in {"onclose", "oncloseReply"}

\* Our side is shut down only when nothing is read any more.
ShutInv ==
    \A c \in Conns :
        /\ conn[c].io = "onopen" => conn[c].sock # "shut"
        /\ conn[c].io = "oncloseReply" \/ conn[c].sock = "shut" => ~ conn[c].isReading

\* Nothing is left of a session whose object is deleted.
EmptyInv ==
    \A c \in Conns : ~ Alive(c) => sent[c] = <<>> /\ got[c] = <<>> /\ posted[c] = <<>>

\* Every text of the session is with the peer, in flight, in write_buffers_ or
\* posted, in this order, until the peer is gone or the object about to be
\* deleted; then what the peer received is still a beginning of it.
Pending(r) ==
    (IF r.flushed THEN <<>> ELSE TextsOf(r.sendingBuffers)) \o TextsOf(r.writeBuffers)
TextStream(c) == Received(c) \o (Pending(conn[c]) \o TextsOf(posted[c]))
Connected(r) ==
    /\ r.sock # "down"
    /\ ~ (r.io = "onclose" /\ r.sendingBuffers = <<>> /\ ~ r.isReading)
Begins(s, t) == Len(s) <= Len(t) /\ s = SubSeq(t, 1, Len(s))
StreamInv ==
    \A c \in Conns :
        /\ Begins(Received(c), sent[c])
        /\ Connected(conn[c]) /\ Alive(c) => sent[c] = TextStream(c)

IInv ==
    /\ TypeOK /\ RecvImpliesHandled
    /\ CalledInv /\ ShutInv /\ EmptyInv /\ StreamInv
=============================================================================
