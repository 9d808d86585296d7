--------------------------- MODULE WireInvariant ---------------------------
(***************************************************************************)
(* The inductive invariants of Wire.                                       *)
(***************************************************************************)
EXTENDS Wire

Closes == [code : Codes, reason : {"text", "other"}]

(* The close frame that is on its way at each stage, and what is known of  *)
(* its answer.                                                             *)
ClosingInv ==
  /\ closing.stage \in {"open", "sent", "answered", "closed", "refused"}
  /\ flight.kind = "close" <=> closing.stage \in {"sent", "answered"}
  /\ closing.stage = "open" => closing = NotClosing
  /\ closing.stage # "open" => closing.sent \in Closes \union {NoClose}
  /\ closing.stage = "sent" =>
       /\ closing = [NotClosing EXCEPT !.sent = closing.sent, !.stage = "sent"]
       /\ \/ flight.payload = ClosePayload(closing.sent)
          \/ closing.sent = NoClose /\ flight.payload = [bytes |-> <<3>>, reason |-> "text"]
  /\ closing.stage = "answered" =>
       /\ closing = [NotClosing EXCEPT !.sent = closing.sent, !.stage = "answered"]
       /\ flight.payload = ClosePayload(Reply(closing.sent))
       /\ closing.sent = NoClose \/ closing.sent.reason = "text"
  /\ CloseAnswered

(* The lengths that a frame can state                                      *)
IsU64(length) == length < 65536 * 65536 * 65536 * 65536

(* A text frame is on the wire as it was formatted.                        *)
FlightInv ==
  /\ role \in {"Client", "Server"}
  /\ flight.kind \in {"none", "text", "close"}
  /\ flight.kind = "text" =>
       \E op \in {"text", "continue"}, fin \in BOOLEAN, payload \in Payloads,
          mask \in {Mask, <<>>} :
         flight = [kind |-> "text", header |-> Header(op, fin, mask), payload |-> payload,
                   bytes |-> Format(Header(op, fin, mask), Size(payload))]

(* The message in the making is characters and the beginning of one, and   *)
(* what was said of it, as long as nothing was refused.                    *)
TextInv ==
  /\ incomplete \in [open : BOOLEAN, data : Seq(Text), part : Seq(Text)]
  /\ read \in [err : {"Ok", "Protocol", "Capacity", "Utf8"}, text : Seq(Text), done : BOOLEAN]
  /\ said \in Seq(Text)
  /\ refused \in {"none", "first", "more"}
  /\ ~incomplete.open => incomplete = NoMessage
  /\ WellFormed(incomplete.data) /\ Begins(incomplete.part)
  /\ Size(incomplete.data) + Size(incomplete.part) <= MaxSize
  /\ incomplete.open /\ refused = "none" => said = incomplete.data \o incomplete.part
  /\ TextWhole
  /\ RefusedRightly
=============================================================================
