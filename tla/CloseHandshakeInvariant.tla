----------------------- MODULE CloseHandshakeInvariant -----------------------
(***************************************************************************)
(* The inductive invariant of CloseHandshake: what is on its way between   *)
(* the two endpoints, and how far each has come.                           *)
(***************************************************************************)
EXTENDS CloseHandshake

(* Frames on their way, written or not. *)
ToServer == to_server \o c_out
ToClient == to_client \o s_out

Heard == {"ClosedByPeer", "CloseAcknowledged", "Terminated"}

(* What an endpoint sends: messages, pings and pongs, each with an id, or  *)
(* a close frame. *)
Sendable(f) ==
  \/ f.op \in {"data", "ping", "pong"} /\ f.fin /\ f.id >= 1 /\ f.body = "bytes"
  \/ f.op = "close" /\ f.id = 0 /\ f.body \in {"empty", "bare", "allowed"}

NoCloseIn(q) == \A i \in DOMAIN q : ~IsClose(q[i])
CloseEnds(q) == q # << >> /\ \A i \in DOMAIN q : IsClose(q[i]) <=> i = Len(q)

(* Between an end in the state s and the other, which has heard its close  *)
(* or not, are the frames q: a close frame is the last, and nothing comes  *)
(* behind it. *)
Traffic(q, s, heard) ==
  /\ q \in Seq(C!Frame)
  /\ \A i \in DOMAIN q : Sendable(q[i])
  /\ s = "Active" => NoCloseIn(q) /\ ~heard
  /\ s # "Active" /\ ~heard => CloseEnds(q)
  /\ heard => q = << >>

CloseTypes ==
  /\ c_state \in C!States /\ s_state \in S!States
  /\ {to_server, to_client, c_out, s_out} \subseteq Seq(C!Frame)
  /\ {c_handed, s_handed} \subseteq Seq(Seq(Nat))
  /\ {c_unflushed, s_unflushed, s_owes, c_reset} \subseteq BOOLEAN
  /\ c_pc \in {"idle", "loop", "reading", "dropped"}
  /\ s_pc \in {"idle", "loop", "reading", "dropped"}
  /\ c_writes \in Nat /\ s_writes \in Nat

(* Reads and writes block, and no end is reset while it is used. *)
Connected ==
  /\ nonblocking = FALSE /\ s_reset = FALSE
  /\ c_reset => c_pc = "dropped" /\ s_pc = "dropped"

(* Only the server's end can end the connection: the client's comes after. *)
(* It is an error only if a close frame without a code was never read.     *)
ClientInv ==
  /\ c_result \in {"Ok", "Closed", "NoClose"}
  /\ c_incomplete = << >>
  /\ c_state = "Terminated" <=> c_result # "Ok"
  /\ c_result # "Ok" => c_pc \in {"idle", "dropped"} /\ s_pc = "dropped"
  /\ c_pc = "dropped" => c_result # "Ok"
  /\ HeardClose(c_handed) => c_state \in Heard
  /\ c_state \in Heard /\ c_result # "NoClose" => HeardClose(c_handed)
  /\ c_result = "NoClose" => "empty" \in Closes

ServerInv ==
  /\ s_result \in {"Ok", "Closed"}
  /\ s_incomplete = << >>
  /\ s_state = "Terminated" <=> s_result = "Closed"
  /\ s_result = "Closed" => s_pc \in {"idle", "dropped"} /\ s_out = << >>
  /\ s_pc = "dropped" => s_result = "Closed"
  /\ HeardClose(s_handed) <=> s_state \in Heard
  /\ s_state # "Active" => s_unflushed \/ s_out = << >>

With(b, q) == \E i \in DOMAIN q : q[i].body = b

(* A close frame without a code is one that a user asked for; the code of  *)
(* the server's reply may be another than the client's, and no client has  *)
(* one of its own to send back. *)
BodiesInv ==
  /\ ~With("allowed", ToServer)
  /\ With("allowed", ToClient) => HeardClose(s_handed)
  /\ With("empty", ToServer) \/ With("empty", ToClient) => "empty" \in Closes

CloseInv ==
  /\ CloseTypes /\ Connected /\ ClientInv /\ ServerInv /\ BodiesInv
  /\ Traffic(ToServer, c_state, HeardClose(s_handed))
  /\ Traffic(ToClient, s_state, HeardClose(c_handed))
=============================================================================
