------------------------ MODULE FrameReaderInvariant ------------------------
(***************************************************************************)
(* The inductive invariant of FrameReader within its limits.  It says      *)
(* where in the buffer the unread bytes lie, in every state of the reader, *)
(* the one between the two reads of a wrap included.                       *)
(***************************************************************************)
EXTENDS FrameReader

(* The position of the last byte of the first k frames. *)
EndOf(k) == IF k = 0 THEN Junk ELSE LastByte(wire[k])

PlainFrame(f) ==
  /\ f.kind = "start" /\ f.mask = FALSE /\ f.ext \in {0, 2}
  /\ f.len > 0 /\ Fits(f.len)

(* Frames lie end to end in the stream. *)
WireInv ==
  /\ \A k \in DOMAIN wire : PlainFrame(wire[k]) /\ wire[k].at = EndOf(k - 1) + 1
  /\ \A j, k \in DOMAIN wire : j < k => wire[j].at < wire[k].at
  /\ received <= sent
  /\ sent <= EndOf(Len(wire))
  /\ ~eof => sent = EndOf(Len(wire))

Count == Len(delivered)

DeliveredInv ==
  /\ Count <= Len(wire)
  /\ \A k \in 1 .. Count : delivered[k] = PayloadOf(wire[k])

(* The parsed header is that of the next frame; no continue frame has ever *)
(* left bytes to step over.                                                *)
HeaderInv ==
  /\ adj = 0
  /\ header # NoFrame => Count < Len(wire) /\ header = wire[Count + 1]
  /\ pc = "header" => header = NoFrame
  /\ pc = "idle" => header = NoFrame
  /\ pc = "payload" => header # NoFrame

(* The position of the next unread byte. *)
Pos == IF header = NoFrame THEN EndOf(Count) + 1
                           ELSE header.at + HeaderLen(header)

Unread == received + 1 - Pos

(* What stands between curr_frame and the read cursor: the payload taken   *)
(* last, or, before the first one, the handshake.                          *)
Held == IF header # NoFrame THEN 0
        ELSE IF Count = 0 THEN Junk ELSE wire[Count].len

(* Unread bytes when the reader is about to ask for more. *)
Short == IF header = NoFrame THEN Unread < 4 ELSE Unread < header.len

SettledInv ==
  /\ 1 <= buf.write_cursor /\ buf.write_cursor < ChunkSize
  /\ buf.end = buf.write_cursor
  /\ buf.read_cursor <= buf.write_cursor
  /\ buf.write_cursor = buf.read_cursor + Unread
  /\ buf.read_cursor = buf.curr_frame + Held
  /\ \A i \in Cells : buf.read_cursor <= i /\ i < buf.write_cursor
                        => buf.chunk[i] = Pos + (i - buf.read_cursor)
  /\ pc = "fill" => Short

(* Between the two reads the bytes have moved down by curr_frame, the read *)
(* cursor not yet.                                                         *)
MovedInv ==
  /\ 1 <= buf.curr_frame
  /\ buf.write_cursor = ChunkSize - buf.curr_frame
  /\ buf.end = buf.curr_frame
  /\ buf.read_cursor = buf.curr_frame + Held
  /\ buf.read_cursor + Unread = ChunkSize
  /\ 0 < Unread
  /\ IF header = NoFrame THEN Unread < MaxRead + 4
                         ELSE Unread < MaxRead + header.len
  /\ \A i \in Cells : Held <= i /\ i < buf.write_cursor
                        => buf.chunk[i] = Pos + (i - Held)

BufferInv ==
  /\ pc \in {"idle", "header", "payload", "fill"} => SettledInv
  /\ pc = "again" => MovedInv
  /\ pc # "empty"
  /\ pc = "closed" => Short

IInv == TypeOK /\ NeverBreaks /\ WireInv /\ DeliveredInv /\ HeaderInv /\ BufferInv

(* While the reader is at work each cursor is that of a cell, no cursor    *)
(* passes the next, and the bytes from the read cursor to the write cursor *)
(* are those read and not yet consumed; between the two reads of a wrap    *)
(* the cursors are those of the bytes before they moved.                   *)
CursorsInRing ==
  pc \in {"idle", "header", "payload", "fill", "again"} =>
    /\ {buf.read_cursor, buf.write_cursor, buf.end, buf.curr_frame} \subseteq Cells
    /\ buf.curr_frame <= buf.read_cursor
    /\ IF pc = "again"
       THEN buf.end = buf.curr_frame /\ buf.read_cursor + Unread = ChunkSize
       ELSE buf.end = buf.write_cursor /\ buf.read_cursor + Unread = buf.write_cursor

-----------------------------------------------------------------------------
(***************************************************************************)
(* Whatever the frames and the sizes: the inductive invariant without      *)
(* continue frames and wraps left half done.  The limits may be exceeded,  *)
(* and then the reader loses its place: by the bytes of a header whose     *)
(* mask had not arrived, or by a read cursor that was overtaken and        *)
(* restarts in front of what is held.  It is then inside a frame, where no *)
(* header is recognised, and stays there.                                  *)
(***************************************************************************)
Steady == NoContinuation /\ ~torn

ApartInv ==
  /\ \A k \in DOMAIN wire : wire[k].at = EndOf(k - 1) + 1
  /\ \A j, k \in DOMAIN wire : j < k => LastByte(wire[j]) < wire[k].at
  /\ received <= sent
  /\ sent <= EndOf(Len(wire))
  /\ ~eof => sent = EndOf(Len(wire))

AtWork == pc \in {"idle", "header", "payload", "fill", "again"}

(* Between the two reads of a wrap the bytes have moved, the cursor not.   *)
Shift == IF pc = "again" THEN buf.curr_frame ELSE 0

(* The position that the byte in cell i has in the stream, counted from    *)
(* the last byte that was read.                                            *)
At(i) == received + 1 - (buf.write_cursor - i)

Ahead == At(buf.read_cursor - Shift)
Origin == At(buf.curr_frame - Shift)

(* From curr_frame on the buffer holds the stream without a gap. *)
RowInv ==
  /\ buf.curr_frame <= buf.read_cursor
  /\ IF pc = "again"
     THEN /\ buf.end = buf.curr_frame
          /\ buf.write_cursor = ChunkSize - buf.curr_frame
          /\ buf.read_cursor <= ChunkSize
     ELSE /\ buf.end = buf.write_cursor
          /\ buf.read_cursor <= buf.write_cursor
          /\ buf.write_cursor < ChunkSize
  /\ \A i \in Cells : buf.curr_frame - Shift <= i /\ i < buf.write_cursor
                        => buf.chunk[i] = At(i)

InFrame(p) == \E k \in DOMAIN wire : wire[k].at < p /\ p <= LastByte(wire[k])

(* The reader is in front of the next header, or behind the one it has     *)
(* parsed, or inside a frame; it holds the payload taken last.             *)
PlaceInv ==
  /\ pc = "header" => header = NoFrame
  /\ pc = "payload" => header # NoFrame
  /\ header # NoFrame =>
       /\ Count + 1 \in DOMAIN wire /\ header = wire[Count + 1]
       /\ buf.read_cursor = buf.curr_frame
       /\ Ahead = header.at + HeaderLen(header)
  /\ header = NoFrame =>
       /\ Ahead = EndOf(Count) + 1 \/ InFrame(Ahead)
       /\ Count # 0 => wire[Count].len > 0
                       /\ Origin = wire[Count].at + HeaderLen(wire[Count])
       /\ Count = 0 => buf.curr_frame = 0

ReadInv ==
  /\ AtWork => RowInv /\ PlaceInv
  /\ pc = "empty" => buf.write_cursor = ChunkSize

CalmInv == TypeOK /\ ApartInv /\ DeliveredInv /\ adj = 0 /\ ReadInv

WholeInv ==
  /\ wire \in Seq(Frame) /\ received \in Nat /\ sent \in Nat
  /\ Steady => CalmInv
=============================================================================
