---------------------------- MODULE FrameFormat ----------------------------
(***************************************************************************)
(* Frames as bytes: the header that FrameHeader::format writes and         *)
(* parse_internal reads (frame.rs), the codes of coding.rs, the mask of    *)
(* mask.rs and the payload of a close frame.  A byte is a number.          *)
(*                                                                         *)
(* How a header is read that has not all arrived is in FrameReader.        *)
(***************************************************************************)
EXTENDS Integers, SequencesExt

Bytes == 0 .. 255

(* OpCode from and into u8; what has no name here is reserved. *)
OpBytes ==
  [continue |-> 0, text |-> 1, binary |-> 2, close |-> 8, ping |-> 9, pong |-> 10]

OpCode(byte) ==
  IF \E op \in DOMAIN OpBytes : OpBytes[op] = byte
  THEN CHOOSE op \in DOMAIN OpBytes : OpBytes[op] = byte
  ELSE "reserved"

(* FrameHeader: rsv is the number of the three bits, mask has four bytes   *)
(* or none.                                                                *)
Header(op, fin, mask) == [opcode |-> op, is_final |-> fin, rsv |-> 0, mask |-> mask]

-----------------------------------------------------------------------------
(* LengthFormat *)
LengthByte(length) ==
  IF length < 126 THEN length ELSE IF length < 65536 THEN 126 ELSE 127

ExtraBytes(length_byte) ==
  IF length_byte = 126 THEN 2 ELSE IF length_byte = 127 THEN 8 ELSE 0

LowByte(value) == value % 256
HighBytes(value) == value \div 256
Joined(high, low) == 256 * high + low

(* to_be_bytes, of n bytes, and back *)
BigEndian(value, n) ==
  LET above[k \in 0 .. n] == IF k = 0 THEN value ELSE HighBytes(above[k - 1])
  IN [i \in 1 .. n |-> LowByte(above[n - i])]

Number(bytes) ==
  LET value[k \in 0 .. Len(bytes)] == IF k = 0 THEN 0 ELSE Joined(value[k - 1], bytes[k])
  IN value[Len(bytes)]

(* FrameHeader::format *)
Format(h, length) ==
  <<OpBytes[h.opcode] + (IF h.is_final THEN 128 ELSE 0) + 16 * h.rsv,
    LengthByte(length) + (IF h.mask # <<>> THEN 128 ELSE 0)>>
  \o BigEndian(length, ExtraBytes(LengthByte(length)))
  \o h.mask

(* FrameHeader::parse_internal, on a header that is all there, and what is *)
(* behind it                                                               *)
ParseHeader(bytes) ==
  LET extra == ExtraBytes(bytes[2] % 128)
      masked == bytes[2] >= 128
      behind == 2 + extra
  IN [header |->
        [opcode |-> OpCode(bytes[1] % 16),
         is_final |-> bytes[1] >= 128,
         rsv |-> (bytes[1] \div 16) % 8,
         mask |-> IF masked THEN SubSeq(bytes, behind + 1, behind + 4) ELSE <<>>],
      length |-> IF extra = 0 THEN bytes[2] % 128 ELSE Number(SubSeq(bytes, 3, behind)),
      at |-> behind + (IF masked THEN 4 ELSE 0)]

-----------------------------------------------------------------------------
(* Mutant: the mask of the words is turned the other way. *)
MutMaskIndex(i, prefix) ==
  IF i < prefix THEN i % 4 ELSE (((i - prefix) % 4) - prefix) % 4

(* apply_mask_fast32: which byte of the mask the byte i of a payload is    *)
(* xored with, if align_to_mut leaves so many bytes before the first word. *)
(* The mask is turned by them, for the words and for what is behind them.  *)
MaskIndex(i, prefix) ==
  IF i < prefix THEN i % 4 ELSE (((i - prefix) % 4) + (prefix % 4)) % 4

(* How align_to_mut may cut a payload that starts at an address a          *)
Heads(a, length) == {p \in 0 .. length : p = length \/ (a + p) % 4 = 0}

-----------------------------------------------------------------------------
(* CloseCode from u16: the codes that are named, and those that may be     *)
(* used.                                                                   *)
Named == {1000, 1001, 1002, 1003, 1005, 1006, 1007, 1008, 1009, 1010, 1011, 1012, 1013, 1015}

(* Mutant: only the codes of the protocol are looked at. *)
MutIsAllowed(code) == code \notin {1005, 1006, 1015}

IsAllowed(code) ==
  \/ code \in Named \ {1005, 1006, 1015}
  \/ code \in 3000 .. 4999

(* A close frame: a code and a reason, which is text or is not; or none.   *)
NoClose == [code |-> -1, reason |-> "text"]

(* Frame::get_close_payload: the bytes of the code, the reason behind them *)
ClosePayload(close) ==
  IF close = NoClose THEN [bytes |-> <<>>, reason |-> "text"]
  ELSE [bytes |-> BigEndian(close.code, 2), reason |-> close.reason]

(* Frame::into_close *)
IntoClose(payload) ==
  CASE payload.bytes = <<>> -> [err |-> "Ok", close |-> NoClose]
    [] Len(payload.bytes) = 1 -> [err |-> "Protocol", close |-> NoClose]
    [] OTHER ->
         IF payload.reason = "text"
         THEN [err |-> "Ok", close |-> [code |-> Number(payload.bytes), reason |-> "text"]]
         ELSE [err |-> "Utf8", close |-> NoClose]
=============================================================================
