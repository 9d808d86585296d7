-------------------------------- MODULE Feed --------------------------------
(***************************************************************************)
(* A market data thread, run_binance_stream of binance_data.rs: connect,   *)
(* read until something fails, sleep, connect again.  Every text goes down *)
(* the channel, every ping gets a pong from the thread too.                *)
(*                                                                         *)
(* The connection is the endpoint WebSocket; at its other end is the       *)
(* exchange, which sends what it likes, closes or resets (WebSocketPeer).  *)
(* Each connection starts both afresh; frames that are stepped over with   *)
(* the end of the handshake (StepOver in Handshake) count as never sent.   *)
(***************************************************************************)
EXTENDS WebSocketPeer

CONSTANT MaxConns      \* bound: connections in all

(* The default write_buffer_size, which the thread leaves as it is, holds   *)
(* any control frame.                                                      *)
ASSUME FeedAssumption ==
  /\ MaxConns \in Nat
  /\ WriteLen \in Nat \ {0}

VARIABLES
  feed,        \* where the thread is
  conns,       \* connections made
  channel,     \* what went down the channel: the connection and the message
  receiver     \* FALSE once the receiving end is gone

feedVars == <<feed, conns, channel, receiver>>
allVars == <<vars, feedVars>>

(* "call" is the top of looping_msg's loop, "await" the read in it; the    *)
(* answer to a ping is a write ("ponging") and a flush ("flushing").       *)
Places == {"connecting", "call", "await", "ponging", "flushing", "sleeping"}

Connected == feed \notin {"connecting", "sleeping"}

FeedInit ==
  /\ EndpointInit
  /\ inbox = << >>
  /\ outgoing = << >>
  /\ peer_open = TRUE
  /\ broken = FALSE
  /\ nonblocking = FALSE
  /\ arrivals = << >>
  /\ writes = 0
  /\ feed = "connecting"
  /\ conns = 0
  /\ channel = << >>
  /\ receiver = TRUE

-----------------------------------------------------------------------------
(* BinanceWebSocket::new: a new endpoint on a new stream. *)
Connect ==
  /\ feed = "connecting"
  /\ conns < MaxConns
  /\ conns' = conns + 1
  /\ feed' = "call"
  /\ state' = "Active" /\ pc' = "idle" /\ result' = "Ok"
  /\ out_buffer' = << >> /\ outgoing' = << >> /\ unflushed_additional' = FALSE
  /\ inbox' = << >> /\ incomplete' = << >> /\ handed' = << >> /\ arrivals' = << >>
  /\ peer_open' = TRUE /\ broken' = FALSE
  /\ UNCHANGED <<nonblocking, writes, channel, receiver>>

ConnectFails ==
  /\ feed = "connecting"
  /\ feed' = "sleeping"
  /\ UNCHANGED <<vars, conns, channel, receiver>>

CallRead ==
  /\ feed = "call"
  /\ Read
  /\ feed' = "await"
  /\ UNCHANGED <<arrivals, writes, conns, channel, receiver>>

InRead ==
  /\ feed = "await"
  /\ ReadStep
  /\ UNCHANGED <<arrivals, writes, feedVars>>

(* looping_msg returns, and with it the connection goes. *)
LetGo ==
  /\ feed' = "sleeping"
  /\ pc' = "dropped"
  /\ UNCHANGED <<state, out_buffer, unflushed_additional, incomplete, result, handed,
                 stream, arrivals, writes, conns, channel, receiver>>

(* The read has returned a message, and which. *)
Message == handed[Len(handed)]
Got(ops) ==
  /\ feed = "await" /\ pc = "idle" /\ result = "Ok"
  /\ OpOf(Message[1]) \in ops

(* Mutant: an update is skipped if a newer one has arrived. *)
MutTakeText ==
  /\ Got({"data"})
  /\ feed' = "call"
  /\ channel' = IF inbox = << >> THEN Append(channel, <<conns, Message>>) ELSE channel
  /\ UNCHANGED <<vars, conns, receiver>>

TakeText ==
  /\ Got({"data"})
  /\ IF receiver
     THEN /\ channel' = Append(channel, <<conns, Message>>)
          /\ feed' = "call"
          /\ UNCHANGED <<vars, conns, receiver>>
     ELSE LetGo

(* Mutant: pings are left to the library. *)
MutAnswerPing ==
  /\ Got({"ping"})
  /\ feed' = "call"
  /\ UNCHANGED <<vars, conns, channel, receiver>>

(* send(Message::Pong(data)): write, then flush. *)
AnswerPing ==
  /\ Got({"ping"})
  /\ Write("pong", Message[1])
  /\ feed' = "ponging"
  /\ UNCHANGED <<arrivals, writes, conns, channel, receiver>>

FlushPong ==
  /\ feed = "ponging" /\ result = "Ok"
  /\ Flush
  /\ feed' = "flushing"
  /\ UNCHANGED <<arrivals, writes, conns, channel, receiver>>

PongSent ==
  /\ feed = "flushing" /\ result = "Ok"
  /\ feed' = "call"
  /\ UNCHANGED <<vars, conns, channel, receiver>>

(* Mutant: a close ends the loop at once. *)
MutIgnore == Got({"pong", "close"}) /\ LetGo

(* "Unhandled message type": a close too, after which read goes on. *)
Ignore ==
  /\ Got({"pong", "close"})
  /\ feed' = "call"
  /\ UNCHANGED <<vars, conns, channel, receiver>>

(* Mutant: the end of the connection is one more message to ignore. *)
MutFails ==
  /\ \/ feed \in {"ponging", "flushing"} /\ result # "Ok" /\ LetGo
     \/ feed = "await" /\ pc = "idle" /\ result \notin {"Ok", "Closed"} /\ LetGo
     \/ /\ feed = "await" /\ pc = "idle" /\ result = "Closed"
        /\ feed' = "call"
        /\ UNCHANGED <<vars, conns, channel, receiver>>

(* The read, or either half of the answer to a ping, has failed. *)
Fails ==
  /\ feed \in {"await", "ponging", "flushing"} /\ pc = "idle" /\ result # "Ok"
  /\ LetGo

Wake ==
  /\ feed = "sleeping"
  /\ feed' = "connecting"
  /\ UNCHANGED <<vars, conns, channel, receiver>>

(* The exchange, and the owner of the receiving end. *)
Exchange ==
  /\ Connected
  /\ PeerSends \/ PeerShuts \/ Break
  /\ UNCHANGED feedVars

ReceiverGoes ==
  /\ receiver
  /\ receiver' = FALSE
  /\ UNCHANGED <<vars, feed, conns, channel>>

(* looping_msg, between two calls of new. *)
Looping ==
  \/ CallRead \/ InRead \/ TakeText \/ AnswerPing \/ FlushPong \/ PongSent \/ Ignore \/ Fails

FeedNext ==
  Connect \/ ConnectFails \/ Looping \/ Wake \/ Exchange \/ ReceiverGoes

(* The thread goes on whenever it can, and of the connections it tries     *)
(* again and again one is accepted in the end.  The exchange need do       *)
(* nothing.                                                                *)
FeedSpec ==
  /\ FeedInit /\ [][FeedNext]_allVars
  /\ WF_allVars(Looping) /\ WF_allVars(Wake) /\ WF_allVars(ConnectFails)
  /\ SF_allVars(Connect)

-----------------------------------------------------------------------------
(* What went down the channel for this connection. *)
Mine(j) == channel[j][1] = conns
Sent(n) ==
  \E j \in DOMAIN channel : Mine(j) /\ \E k \in DOMAIN channel[j][2] : channel[j][2][k] = n

(* The updates of a connection go down the channel whole, in the order the *)
(* exchange sent them, without a gap and once each, and all that were read *)
(* are there when the thread waits for the next (binance_data.rs:31-36).   *)
UpdatesInOrder ==
  /\ \A j \in DOMAIN channel : Mine(j) => WholeMessage(channel[j][2])
  /\ \A i, j \in DOMAIN channel : Mine(i) /\ Mine(j) /\ i < j =>
       \A k \in DOMAIN channel[i][2], l \in DOMAIN channel[j][2] :
         channel[i][2][k] < channel[j][2][l]
  /\ \A n \in 1 .. Returned : IsData(n) =>
       \/ Sent(n)
       \/ /\ \A m \in 1 .. Returned : Sent(m) => m < n
          /\ pc = "reading" => Kept(n)

IsPong(f) == f.op = "pong"
PongFor(n, auto) ==
  \E i \in DOMAIN outgoing : IsPong(outgoing[i]) /\ outgoing[i].id = n /\ outgoing[i].auto = auto

(* Every ping has been answered twice when the thread waits for the next   *)
(* frame: by the library (protocol/mod.rs:656) and, right behind it, by    *)
(* the thread (binance_data.rs:37-39); never more often, and a ping whose  *)
(* answers are missing is the last.                                        *)
PairedPongs ==
  /\ \A i \in DOMAIN outgoing : IsPong(outgoing[i]) =>
       outgoing[i].id \in 1 .. Returned /\ OpOf(outgoing[i].id) = "ping"
  /\ \A i, j \in DOMAIN outgoing : IsPong(outgoing[i]) /\ IsPong(outgoing[j]) /\ i < j =>
       \/ outgoing[i].id < outgoing[j].id
       \/ outgoing[i].id = outgoing[j].id /\ outgoing[i].auto /\ ~outgoing[j].auto
  /\ \A n \in 1 .. Returned : OpOf(n) = "ping" =>
       \/ PongFor(n, TRUE) /\ PongFor(n, FALSE)
       \/ /\ \A i \in DOMAIN outgoing : IsPong(outgoing[i]) =>
               outgoing[i].id < n \/ (outgoing[i].id = n /\ outgoing[i].auto)
          /\ pc # "reading"

(* A thread that has been told to close does not leave before its own      *)
(* close frame is written, unless the connection broke: looping_msg reads  *)
(* on after a close, and read writes the reply first.                      *)
LeavesAfterReply == feed = "sleeping" /\ CloseHanded /\ ~broken => CloseWritten

(* The reply to a close is never the write that fails and is unwrapped     *)
(* (protocol/mod.rs:747): the thread leaves nothing in out_buffer that     *)
(* would make buffer_frame write at once.                                  *)
NeverAborts == pc # "panicked"

(* A connection that the exchange has ended, or that was reset, is         *)
(* replaced by another, whatever was under way, also if nobody receives.   *)
Replaced ==
  \A k \in 1 .. MaxConns - 1 :
    (conns = k /\ (~peer_open \/ broken)) ~> (conns = k + 1)
=============================================================================
