--------------------------- MODULE WebSocketPeer ---------------------------
(***************************************************************************)
(* An endpoint (WebSocket) with any peer at all: one that sends frames of  *)
(* every kind in any order, closes its side whenever it likes, or resets   *)
(* the connection.  The user of the endpoint calls read, write, flush and  *)
(* close in any order until a call returns a fatal error.                  *)
(***************************************************************************)
EXTENDS WebSocket

CONSTANTS
  PeerShapes,    \* what the peer may send: records of op, fin and body
  MaxArrivals,   \* bound: frames the peer sends in all
  MaxWrites,     \* bound: messages the user writes in all
  Modes          \* whether the stream is nonblocking: a set of BOOLEANs

ASSUME PeerAssumption ==
  /\ PeerShapes \subseteq [op : Ops, fin : BOOLEAN, body : Bodies]
  /\ MaxArrivals \in Nat
  /\ MaxWrites \in Nat
  /\ Modes \subseteq BOOLEAN

VARIABLES
  arrivals,      \* history: the frames the peer has got through
  writes         \* messages the user has written

vars == <<wsVars, arrivals, writes>>

Init ==
  /\ EndpointInit
  /\ inbox = << >>
  /\ outgoing = << >>
  /\ peer_open = TRUE
  /\ broken = FALSE
  /\ nonblocking \in Modes
  /\ arrivals = << >>
  /\ writes = 0

(* The peer's frames are numbered in the order they are sent. *)
PeerSends ==
  /\ peer_open /\ ~broken
  /\ Len(arrivals) < MaxArrivals
  /\ \E s \in PeerShapes :
       LET f == [op |-> s.op, fin |-> s.fin, body |-> s.body,
                 id |-> Len(arrivals) + 1, auto |-> FALSE]
       IN  /\ arrivals' = Append(arrivals, f)
           /\ inbox' = Append(inbox, f)
  /\ UNCHANGED <<endpoint, outgoing, peer_open, broken, nonblocking, writes>>

PeerShuts ==
  /\ peer_open
  /\ peer_open' = FALSE
  /\ UNCHANGED <<endpoint, inbox, outgoing, broken, nonblocking, arrivals, writes>>

(* The connection is reset.  Frames that had reached in_buffer stay, the   *)
(* others might never have been sent.                                      *)
Break ==
  /\ ~broken
  /\ broken' = TRUE
  /\ \E lost \in 0 .. Len(inbox) :
       /\ inbox' = SubSeq(inbox, 1, Len(inbox) - lost)
       /\ arrivals' = SubSeq(arrivals, 1, Len(arrivals) - lost)
  /\ UNCHANGED <<endpoint, outgoing, peer_open, nonblocking, writes>>

UserWrites ==
  /\ writes < MaxWrites
  /\ writes' = writes + 1
  /\ \E op \in {"data", "ping", "pong"} : Write(op, writes + 1)
  /\ UNCHANGED arrivals

UserCalls ==
  /\ Flush \/ Read \/ Drop \/ (\E b \in CloseBodies : CloseCall(b))
  /\ UNCHANGED <<arrivals, writes>>

Endpoint == ReadStep /\ UNCHANGED <<arrivals, writes>>

Next == PeerSends \/ PeerShuts \/ Break \/ UserWrites \/ UserCalls \/ Endpoint

Spec == Init /\ [][Next]_vars

-----------------------------------------------------------------------------
(* All the endpoint has written or will write, in order. *)
Out == outgoing \o out_buffer

(* How many frames read_frame has returned; they have the ids up to this. *)
Returned == Len(arrivals) - Len(inbox)
OpOf(n) == arrivals[n].op

(* Where a frame that was read is now: part of what the user was handed, or *)
(* of the message being put together.                                      *)
Handed(n) == \E i \in DOMAIN handed : \E k \in DOMAIN handed[i] : handed[i][k] = n
Kept(n) == \E k \in DOMAIN incomplete : incomplete[k] = n

IsClose(f) == f.op = "close"
CloseQueued == \E i \in DOMAIN Out : IsClose(Out[i])
CloseWritten == \E i \in DOMAIN outgoing : IsClose(outgoing[i])
CloseHanded == \E i \in DOMAIN handed : OpOf(handed[i][1]) = "close"

(* The endpoint sends one close frame at most and nothing after it,        *)
(* whatever it answers by itself, whoever closes first and however often   *)
(* the user calls write and close (write refuses after closing, do_close   *)
(* answers only while active).                                             *)
NothingAfterClose ==
  \A i \in DOMAIN Out : IsClose(Out[i]) => i = Len(Out)

(* WebSocketState says how far the close handshake is: a close frame has   *)
(* been queued unless Active, by the user's call if ClosedByUs, as a reply *)
(* if ClosedByPeer, and read has returned the peer's unless ClosedByUs.    *)
HandshakeState ==
  LET last == Out[Len(Out)]
  IN  /\ state = "Active" => ~CloseQueued /\ ~CloseHanded
      /\ state = "ClosedByUs" => CloseQueued /\ ~last.auto /\ ~CloseHanded
      /\ state = "ClosedByPeer" =>
           CloseQueued /\ last.auto /\ (CloseHanded \/ pc = "panicked")
      /\ state = "CloseAcknowledged" => CloseQueued /\ ~last.auto /\ CloseHanded

(* ConnectionClosed means that the close handshake is finished: the peer's *)
(* close was handed to the user, and our close frame is written, or at     *)
(* least queued if the stream is nonblocking (error.rs:18-20).             *)
ClosedMeansDone ==
  result = "Closed" =>
    CloseHanded /\ CloseQueued /\ (~nonblocking => CloseWritten)

IsReply(f) == f.auto /\ f.op = "pong"
Answered(n) == \E i \in DOMAIN Out : IsReply(Out[i]) /\ Out[i].id = n

(* The pongs queued are the answers to the pings read, in their order, one *)
(* each; none is missing as long as the connection is active, and those    *)
(* missing later are the last.                                             *)
PongsMatchPings ==
  /\ \A i \in DOMAIN Out : IsReply(Out[i]) =>
       Out[i].id \in 1 .. Returned /\ OpOf(Out[i].id) = "ping"
  /\ \A i, j \in DOMAIN Out : IsReply(Out[i]) /\ IsReply(Out[j]) /\ i < j =>
       Out[i].id < Out[j].id
  /\ \A n \in 1 .. Returned : OpOf(n) = "ping" =>
       \/ Answered(n)
       \/ /\ state # "Active"
          /\ \A i \in DOMAIN Out : IsReply(Out[i]) => Out[i].id < n

(* A blocking read does not wait for the peer with a reply unwritten:      *)
(* the reply might be what the peer waits for (mod.rs:396-410).            *)
NoReplyWaits ==
  pc = "reading" /\ ~nonblocking => \A i \in DOMAIN out_buffer : ~out_buffer[i].auto

IsData(n) == OpOf(n) \in {"data", "continue"}
IsMessage(i) == IsData(handed[i][1])
InOrder(m) == \A k, l \in DOMAIN m : k < l => m[k] < m[l]

(* A message handed to the user is what the peer sent as one: it starts    *)
(* with a data frame, goes on with continue frames and ends with the first *)
(* that is final.  None is longer than max_message_size.                   *)
WholeMessage(m) ==
  /\ \A k \in DOMAIN m : /\ OpOf(m[k]) = (IF k = 1 THEN "data" ELSE "continue")
                         /\ arrivals[m[k]].fin <=> k = Len(m)
  /\ InOrder(m)
  /\ Len(m) <= MaxMessage

(* Messages are handed over whole and in order, and the data frames handed *)
(* over or kept are all that were read, up to the first that was refused.  *)
MessagesWhole ==
  /\ \A i \in DOMAIN handed : IsMessage(i) => WholeMessage(handed[i])
  /\ \A i, j \in DOMAIN handed : IsMessage(i) /\ IsMessage(j) /\ i < j =>
       \A k \in DOMAIN handed[i], l \in DOMAIN handed[j] : handed[i][k] < handed[j][l]
  /\ InOrder(incomplete) /\ Len(incomplete) <= MaxMessage
  /\ \A i \in DOMAIN handed : IsMessage(i) =>
       \A k \in DOMAIN handed[i], l \in DOMAIN incomplete : handed[i][k] < incomplete[l]
  /\ \A n \in 1 .. Returned : IsData(n) =>
       \/ Handed(n) \/ Kept(n)
       \/ \A m \in 1 .. Returned : IsData(m) /\ (Handed(m) \/ Kept(m)) => m < n

(* No frame gets lost between read_frame and the user: each that was read  *)
(* has been handed over or is part of the message being put together,      *)
(* unless it was the reason of a fatal error or, if the stream does not    *)
(* block, a ping whose answer could not be written; and none is in two     *)
(* places.                                                                 *)
NothingSwallowed ==
  /\ ~nonblocking /\ result \notin Fatal /\ pc # "panicked" =>
       \A n \in 1 .. Returned : Handed(n) \/ Kept(n)
  /\ \A i, j \in DOMAIN handed : \A k \in DOMAIN handed[i], l \in DOMAIN handed[j] :
       handed[i][k] = handed[j][l] => i = j /\ k = l
  /\ \A l \in DOMAIN incomplete : ~Handed(incomplete[l])

=============================================================================
