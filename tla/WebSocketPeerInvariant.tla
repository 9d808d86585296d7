----------------------- MODULE WebSocketPeerInvariant -----------------------
(***************************************************************************)
(* The inductive invariant of WebSocketPeer, for a client and a server,    *)
(* blocking or not, and a peer that sends anything.                        *)
(***************************************************************************)
EXTENDS WebSocketPeer

TypeInv ==
  /\ TypeOK
  /\ arrivals \in Seq(Frame)
  /\ writes \in Nat

(* The frames in the inbox are those that arrived last; frames are         *)
(* numbered as they arrive.                                                *)
ArrivalsInv ==
  /\ Len(inbox) <= Len(arrivals)
  /\ \A i \in DOMAIN inbox : inbox[i] = arrivals[Returned + i]
  /\ \A n \in DOMAIN arrivals : arrivals[n].id = n

(* Nothing is called after a fatal error, or read after the end. *)
PlaceInv ==
  /\ pc \in {"loop", "reading"} => state # "Terminated"
  /\ pc \in {"loop", "reading", "panicked"} => result \notin Fatal

(* A call has not failed for good. *)
Going == result \notin Fatal /\ pc # "panicked"

(* Of the frames read, those that carry data are with the user or in       *)
(* incomplete, which holds the beginning of a message; any other frame the *)
(* user was handed by itself.                                              *)
FragmentsInv ==
  /\ \A k \in DOMAIN incomplete :
       /\ incomplete[k] \in 1 .. Returned
       /\ OpOf(incomplete[k]) = IF k = 1 THEN "data" ELSE "continue"
       /\ ~arrivals[incomplete[k]].fin
  /\ \A i \in DOMAIN handed :
       /\ handed[i] # << >>
       /\ \A k \in DOMAIN handed[i] : handed[i][k] \in 1 .. Returned
       /\ ~IsMessage(i) => Len(handed[i]) = 1
  /\ Going => \A n \in 1 .. Returned : IsData(n) => Handed(n) \/ Kept(n)

(* On a stream that blocks nothing waits in out_buffer unknown to the next *)
(* read, and a close frame of ours does not wait at all.                   *)
FlushedInv ==
  /\ ~nonblocking /\ ~unflushed_additional /\ Going =>
       \A i \in DOMAIN out_buffer : ~out_buffer[i].auto
  /\ ~nonblocking /\ state \in {"ClosedByUs", "CloseAcknowledged"} /\ result \notin Fatal =>
       CloseWritten

CloseInv == NothingAfterClose /\ HandshakeState /\ ClosedMeansDone /\ NoReplyWaits /\ FlushedInv
MessageInv == FragmentsInv /\ MessagesWhole /\ NothingSwallowed

PeerInv == TypeInv /\ ArrivalsInv /\ PlaceInv /\ CloseInv /\ PongsMatchPings /\ MessageInv
=============================================================================
