-------------------------------- MODULE Wire --------------------------------
(***************************************************************************)
(* One frame after another over the wire, from an endpoint that formats it *)
(* (Frame::format, frame.rs) to one that parses it and takes it apart: a   *)
(* text in fragments, or a close and the reply to it.                      *)
(*                                                                         *)
(* What a client sends is masked, for a peer that unmasks it as RFC 6455   *)
(* says; the library itself does not unmask (mod.rs:612-620), and what is  *)
(* received here by its code was sent by a server.                         *)
(***************************************************************************)
EXTENDS FrameFormat, MessageText

CONSTANTS
  Payloads,       \* the payloads of text frames
  Codes,          \* the codes of close frames
  MaxText         \* bound: the bytes and runs of one message

U16 == {n \in Nat : n < 65536}

ASSUME WireAssumption ==
  /\ Payloads \subseteq Seq(Text)
  /\ Codes \subseteq U16
  /\ MaxText \in Nat

Mask == <<1, 2, 3, 4>>

VARIABLES
  role,           \* the role of the endpoint that sends
  flight,         \* the frame on the wire: its bytes, and what was formatted
  closing         \* the close that was sent, received and answered

wireVars == <<textVars, role, flight, closing>>

Nothing == [kind |-> "none"]
NotClosing == [sent |-> NoClose, err |-> "Ok", got |-> NoClose, stage |-> "open"]

Init ==
  /\ TextInit
  /\ role \in {"Client", "Server"}
  /\ flight = Nothing
  /\ closing = NotClosing

(* Frame::message and Frame::format, of a client with a mask *)
SendText ==
  /\ flight = Nothing /\ closing = NotClosing
  /\ \E op \in {"text", "continue"}, fin \in BOOLEAN, payload \in Payloads :
       /\ op = "continue" =>
            Len(incomplete.data) + Len(incomplete.part) + Len(payload) <= MaxText
       /\ LET h == Header(op, fin, IF role = "Client" THEN Mask ELSE <<>>) IN
            flight' = [kind |-> "text", header |-> h, payload |-> payload,
                       bytes |-> Format(h, Size(payload))]
  /\ UNCHANGED <<textVars, role, closing>>

(* The library reads what a server sends. *)
GetText ==
  /\ flight.kind = "text" /\ role = "Server"
  /\ LET h == ParseHeader(flight.bytes).header IN
       ReceiveText(h.opcode, h.is_final, flight.payload)
  /\ flight' = Nothing
  /\ UNCHANGED <<role, closing>>

(* The peer reads what a client sends. *)
PeerGetsText ==
  /\ flight.kind = "text" /\ role = "Client"
  /\ flight' = Nothing
  /\ UNCHANGED <<textVars, role, closing>>

(* close, and what else a peer may put into a close frame *)
SendClose ==
  /\ flight = Nothing /\ closing = NotClosing
  /\ \/ \E code \in Codes, reason \in {"text", "other"} :
          /\ closing' = [NotClosing EXCEPT !.sent = [code |-> code, reason |-> reason],
                                           !.stage = "sent"]
          /\ flight' = [kind |-> "close", payload |-> ClosePayload(closing'.sent)]
     \/ \E bytes \in {<<>>, <<3>>} :
          /\ closing' = [NotClosing EXCEPT !.stage = "sent"]
          /\ flight' = [kind |-> "close", payload |-> [bytes |-> bytes, reason |-> "text"]]
  /\ UNCHANGED <<textVars, role>>

(* do_close: the close that is the answer *)
Reply(close) ==
  IF close = NoClose \/ IsAllowed(close.code) THEN close ELSE [code |-> 1002, reason |-> "text"]

(* into_close and do_close of an endpoint that is active *)
GetClose ==
  /\ flight.kind = "close" /\ closing.stage = "sent"
  /\ LET c == IntoClose(flight.payload) IN
       IF c.err # "Ok"
       THEN /\ closing' = [closing EXCEPT !.err = c.err, !.stage = "refused"]
            /\ flight' = Nothing
       ELSE /\ closing' = [closing EXCEPT !.stage = "answered"]
            /\ flight' = [kind |-> "close", payload |-> ClosePayload(Reply(c.close))]
  /\ UNCHANGED <<textVars, role>>

(* into_close of the one that began to close *)
GetReply ==
  /\ flight.kind = "close" /\ closing.stage = "answered"
  /\ LET c == IntoClose(flight.payload) IN
       closing' = [closing EXCEPT !.err = c.err, !.got = c.close, !.stage = "closed"]
  /\ flight' = Nothing
  /\ UNCHANGED <<textVars, role>>

Next == SendText \/ GetText \/ PeerGetsText \/ SendClose \/ GetClose \/ GetReply

Spec == Init /\ [][Next]_wireVars

-----------------------------------------------------------------------------
(* The header that is read is the one that was written, of every length of *)
(* the length (frame.rs:98-133, 165-230), and unmasking as RFC 6455 says   *)
(* undoes the masking by words, wherever in memory the payload was         *)
(* (mask.rs:26-42).                                                        *)
FramesArrive ==
  flight.kind = "text" =>
    LET p == ParseHeader(flight.bytes)
        size == Size(flight.payload)
        looked == Min({size, 12})
    IN /\ p.header = flight.header
       /\ p.length = size
       /\ p.at = Len(flight.bytes)
       /\ \A a \in 0 .. 3 : \A prefix \in Heads(a, looked), i \in 0 .. looked - 1 :
            MaskIndex(i, prefix) = i % 4

(* The codes that RFC 6455 and its registry let an endpoint send           *)
Sendable == 1000 .. 1003 \union 1007 .. 1013 \union 3000 .. 4999

(* A close is answered by itself if its code may be used, by a protocol    *)
(* error if not; no code comes back that may not, and one that cannot be   *)
(* read is not answered (mod.rs:724-750, frame.rs:330-343).                *)
CloseAnswered ==
  /\ closing.stage = "closed" =>
       /\ closing.err = "Ok"
       /\ closing.got \in {closing.sent, [code |-> 1002, reason |-> "text"]}
       /\ closing.got # NoClose =>
            closing.got.code \in Sendable
  /\ closing.stage = "refused" => closing.sent = NoClose \/ closing.sent.reason = "other"
=============================================================================
