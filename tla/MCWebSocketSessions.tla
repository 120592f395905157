------------------------ MODULE MCWebSocketSessions ------------------------
(* Two texts tell order, loss and repetition apart. *)
EXTENDS WebSocketSessions

MCTexts == {[kind |-> "text", n |-> 1], [kind |-> "text", n |-> 2]}
=============================================================================
