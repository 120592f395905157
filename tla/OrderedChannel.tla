--------------------------- MODULE OrderedChannel ---------------------------
(***************************************************************************)
(* What a WebSocket connection promises the code that calls send_text():   *)
(* the peer receives the texts of the session in the order of the calls,   *)
(* without a gap or a repetition; a closing connection may lose the tail.  *)
(***************************************************************************)
EXTENDS Naturals, Sequences

CONSTANTS Conns, Texts

VARIABLES
    sent,       \* sent[c]: texts of the calls of send_text() in this session
    received    \* received[c]: texts the peer has received in this session

channelVars == <<sent, received>>

ChannelInit ==
    /\ sent = [c \in Conns |-> <<>>]
    /\ received = [c \in Conns |-> <<>>]

\* The session on c ends; the next one begins with nothing.
Disconnect(c) ==
    /\ sent' = [sent EXCEPT ![c] = <<>>]
    /\ received' = [received EXCEPT ![c] = <<>>]

Send(c, text) ==
    /\ sent' = [sent EXCEPT ![c] = Append(@, text)]
    /\ UNCHANGED received

\* The peer receives some more of what was sent.
Receive(c) ==
    /\ \E n \in Len(received[c]) .. Len(sent[c]) :
           received' = [received EXCEPT ![c] = SubSeq(sent[c], 1, n)]
    /\ UNCHANGED sent

ChannelNext ==
    \E c \in Conns :
        \/ Disconnect(c)
        \/ \E text \in Texts : Send(c, text)
        \/ Receive(c)

ChannelSpec == ChannelInit /\ [][ChannelNext]_channelVars
=============================================================================
