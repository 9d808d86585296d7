------------------------------- MODULE MCFeed -------------------------------
(* Instances of Feed: what the exchange may send.  *)
EXTENDS Feed

Sends(op, fin, b) == [op |-> op, fin |-> fin, body |-> b]

(* An update in one frame or in several, a ping with and without a payload, *)
(* a close with a code, and a frame that is refused.                       *)
FeedShapes ==
  {Sends(op, fin, "bytes") : op \in {"data", "continue"}, fin \in BOOLEAN}
  \union {Sends("ping", TRUE, "bytes"), Sends("ping", TRUE, "empty"),
          Sends("close", TRUE, "bare"), Sends("bad", TRUE, "bytes")}
=============================================================================
