-------------------------- MODULE MCWebSocketPeer --------------------------
(* Instances of WebSocketPeer: what the peer may send. *)
EXTENDS WebSocketPeer

Whole(op) == [op |-> op, fin |-> TRUE, body |-> "bytes"]

(* Messages, pings, and every kind of close *)
ControlShapes ==
  {[op |-> "close", fin |-> TRUE, body |-> b] : b \in CloseBodies}
  \union {Whole("ping"), Whole("data")}
=============================================================================
