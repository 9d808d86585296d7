---------------------------- MODULE FeedInvariant ----------------------------
(***************************************************************************)
(* The inductive invariant of Feed: that of the endpoint, and how the      *)
(* thread, its channel and its second answers to the pings go with it.     *)
(***************************************************************************)
EXTENDS Feed, WebSocketPeerInvariant

FeedTypes ==
  /\ feed \in Places
  /\ conns \in Nat
  /\ channel \in Seq(Nat \X Seq(Nat))
  /\ receiver \in BOOLEAN
  /\ nonblocking = FALSE

(* Where the endpoint's thread is, and how far the close handshake, in     *)
(* each place of looping_msg.  The thread itself never closes.             *)
PlacesAgree ==
  /\ feed = "call" => pc = "idle" /\ result = "Ok"
  /\ feed = "await" => pc \in {"idle", "loop", "reading"} /\ (pc # "idle" => result = "Ok")
  /\ feed \in {"ponging", "flushing"} => pc = "idle" /\ state = "Active"
  /\ ~Connected => pc \in {"idle", "dropped"}
  /\ state \in {"Active", "ClosedByPeer", "Terminated"}
  /\ Connected => conns > 0
  /\ Connected /\ result = "Ok" => state # "Terminated"

(* All that waits in out_buffer is known to the next read, so nothing      *)
(* waits when a frame is read.                                             *)
NothingWaits ==
  /\ feed \in {"call", "await", "flushing"} /\ result = "Ok" /\ ~unflushed_additional =>
       out_buffer = << >>
  /\ pc = "reading" \/ (feed = "flushing" /\ result = "Ok") => out_buffer = << >>

(* The read has returned a message that the thread has not looked at yet. *)
Pending == feed = "await" /\ pc = "idle" /\ result = "Ok"
PendingPing == Pending /\ OpOf(Message[1]) = "ping"

PendingInv ==
  Pending => handed # << >> /\ (OpOf(Message[1]) # "close" => state = "Active")

(* The messages in the channel are those that were handed over, but for    *)
(* the last one: it is still pending, or nobody receives any more.         *)
InChannel(i) == \E j \in DOMAIN channel : Mine(j) /\ channel[j][2] = handed[i]

ChannelInv ==
  /\ \A j \in DOMAIN channel : channel[j][1] \in 1 .. conns
  /\ \A j \in DOMAIN channel : Mine(j) =>
       \E i \in DOMAIN handed : /\ IsMessage(i) /\ channel[j][2] = handed[i]
                                /\ Pending => i # Len(handed)
  /\ \A i, j \in DOMAIN channel : Mine(i) /\ Mine(j) /\ i < j =>
       \A k \in DOMAIN channel[i][2], l \in DOMAIN channel[j][2] :
         channel[i][2][k] < channel[j][2][l]
  /\ \A i \in DOMAIN handed : IsMessage(i) =>
       InChannel(i) \/ (i = Len(handed) /\ (Pending \/ ~Connected))

(* The thread is about to leave looping_msg, or has left. *)
Leaving == ~Connected \/ (feed = "await" /\ pc = "idle" /\ result # "Ok")

(* The pongs queued, written or not, come in pairs, but for the last ping: *)
(* it is pending, or was read after a close and refused.                   *)
Queued(n, auto) == \E i \in DOMAIN Out : IsPong(Out[i]) /\ Out[i].id = n /\ Out[i].auto = auto
Both(n) == Queued(n, TRUE) /\ Queued(n, FALSE)
Unpaired(n) ==
  \A i \in DOMAIN Out : IsPong(Out[i]) => Out[i].id < n \/ (Out[i].id = n /\ Out[i].auto)

PairInv ==
  /\ \A i \in DOMAIN Out : IsPong(Out[i]) =>
       Out[i].id \in 1 .. Returned /\ OpOf(Out[i].id) = "ping"
  /\ \A i, j \in DOMAIN Out : IsPong(Out[i]) /\ IsPong(Out[j]) /\ i < j =>
       \/ Out[i].id < Out[j].id
       \/ Out[i].id = Out[j].id /\ Out[i].auto /\ ~Out[j].auto
  /\ \A n \in 1 .. Returned : OpOf(n) = "ping" =>
       Both(n) \/ (Unpaired(n) /\ ((PendingPing /\ n = Message[1]) \/ Leaving))
  /\ PendingPing => /\ Message[1] \in 1 .. Returned
                    /\ Queued(Message[1], TRUE) /\ Unpaired(Message[1])

(* Once the thread is to leave its close frame is written, if the          *)
(* connection holds.                                                       *)
LeaveInv == Leaving /\ CloseHanded /\ ~broken => CloseWritten

FeedInv ==
  /\ PeerInv /\ FeedTypes /\ PlacesAgree /\ NothingWaits
  /\ PendingInv /\ ChannelInv /\ PairInv /\ LeaveInv
=============================================================================
