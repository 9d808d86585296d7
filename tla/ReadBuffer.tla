---------------------------- MODULE ReadBuffer ----------------------------
(***************************************************************************)
(* The ring buffer of Kyrptonite/src/buffer.rs, as pure operators on a     *)
(* record with the fields of the Rust struct.                              *)
(*                                                                         *)
(* A cell of `chunk' does not hold a byte but the position, counted from   *)
(* 1, that the byte has in the stream of bytes the peer sent; a cell never *)
(* written holds 0.  Two bytes are confused only when their positions are, *)
(* so an operator that would hand out a stale, shifted or overwritten byte *)
(* hands out a wrong position.                                             *)
(*                                                                         *)
(* An operation that can panic comes with an operator ...Panics that says  *)
(* when; the result operator is meant for the other case.                  *)
(***************************************************************************)
EXTENDS Integers, Sequences

CONSTANT ChunkSize          \* CHUNK_SIZE, a power of two: 1 << 20 in lib.rs

ASSUME ChunkSizeAssumption == ChunkSize \in Nat \ {0}

Cells == 0 .. ChunkSize - 1

Chunk == [Cells -> Nat]

Buffer == [read_cursor  : Nat,
           write_cursor : Nat,
           end          : Nat,
           curr_frame   : Nat,
           chunk        : Chunk]

(* A buffer filled with the bytes `part'. *)
FromPartiallyRead(part) ==
  [read_cursor  |-> 0,
   write_cursor |-> Len(part),
   end          |-> Len(part),
   curr_frame   |-> 0,
   chunk        |-> [i \in Cells |-> IF i < Len(part) THEN part[i + 1] ELSE 0]]

(* The first n bytes of the stream. *)
FirstBytes(n) == [k \in 1 .. n |-> k]

(* The number of unread bytes.  Release builds do not check `end -         *)
(* read_cursor' for underflow: a negative result is a huge usize, for      *)
(* which any count larger than the buffer will do.                         *)
Remaining(b) ==
  IF b.write_cursor >= b.read_cursor
  THEN b.write_cursor - b.read_cursor
  ELSE LET r == b.end - b.read_cursor + b.write_cursor
       IN  IF r >= 0 THEN r ELSE 2 * ChunkSize

(* Mutant: the start of the frame is not recorded. *)
MutSetCurrFrame(b) == b

SetCurrFrame(b) == [b EXCEPT !.curr_frame = b.read_cursor]

-----------------------------------------------------------------------------
(* take_ref *)

TakeRefPanics(b, cnt) == b.read_cursor + cnt > b.end

TakeRef(b, cnt) ==
  IF b.read_cursor + cnt = b.end /\ b.write_cursor < b.end
  THEN [b EXCEPT !.read_cursor = 0, !.end = b.write_cursor]
  ELSE [b EXCEPT !.read_cursor = b.read_cursor + cnt]

(* The slice it returns. *)
Taken(b, cnt) == [k \in 1 .. cnt |-> b.chunk[b.read_cursor + k - 1]]

-----------------------------------------------------------------------------
(* chunk.copy_within(from .. to, dest) *)
CopyWithin(ch, from, to, dest) ==
  [i \in Cells |-> IF dest <= i /\ i < dest + (to - from)
                   THEN ch[from + (i - dest)]
                   ELSE ch[i]]

(* In a release build `read_cursor -= adj_size' wraps around when it is    *)
(* negative, and copy_within then panics on its destination.               *)
AdjustContinuePanics(b, adj_size, len) ==
  \/ b.read_cursor + len > ChunkSize
  \/ b.read_cursor < adj_size

AdjustContinuePayload(b, adj_size, len) ==
  LET rc == b.read_cursor - adj_size
  IN  [b EXCEPT !.read_cursor = rc,
                !.chunk = CopyWithin(b.chunk, b.read_cursor, b.read_cursor + len, rc)]

-----------------------------------------------------------------------------
(* read_from makes one call of stream.read, and a second one when the      *)
(* first filled the buffer to its last cell.  Each call may block or fail, *)
(* so the function is cut there: ReadFirst, then MigrateTail if it wrapped, *)
(* then ReadAgain.                                                         *)

(* What a call of stream.read may be given at most. *)
Room(b) == ChunkSize - b.write_cursor

(* The cells after a read of `size' bytes, the first of them at `from'.    *)
Stored(b, size, from) ==
  [i \in Cells |-> IF b.write_cursor <= i /\ i < b.write_cursor + size
                   THEN from + (i - b.write_cursor)
                   ELSE b.chunk[i]]

Advanced(b, size) == (b.write_cursor + size) % ChunkSize

ReadFirst(b, size, from) ==
  LET wc == Advanced(b, size)
  IN  [b EXCEPT !.write_cursor = wc,
                !.end = IF b.end < wc THEN wc ELSE b.end,
                !.chunk = Stored(b, size, from)]

Wrapped(b) == b.write_cursor = 0

(* Mutant: the tail is not copied to the start. *)
MutMigrateTail(b) ==
  [b EXCEPT !.end = b.curr_frame, !.write_cursor = ChunkSize - b.curr_frame]

MigrateTail(b) ==
  [b EXCEPT !.end = b.curr_frame,
            !.write_cursor = ChunkSize - b.curr_frame,
            !.chunk = CopyWithin(b.chunk, b.curr_frame, ChunkSize, 0)]

ReadAgainPanics(b, size) == Advanced(b, size) = 0

(* The cursors settle after the second read: a read cursor that the write  *)
(* cursor has overtaken restarts at 0, and one past `end' moves with the   *)
(* migrated bytes.                                                         *)
ReadAgain(b, size, from) ==
  LET wc    == Advanced(b, size)
      rc    == IF b.read_cursor < wc THEN 0 ELSE b.read_cursor
      moved == rc >= b.end
      e     == IF moved THEN wc ELSE b.end
  IN  [b EXCEPT !.write_cursor = wc,
                !.read_cursor = IF moved THEN rc - b.curr_frame ELSE rc,
                !.end = IF e < wc THEN wc ELSE e,
                !.curr_frame = 0,
                !.chunk = Stored(b, size, from)]

-----------------------------------------------------------------------------
(* into_vec: what it returns.  It asks whether the read cursor is behind   *)
(* the write cursor, so two equal cursors, an empty buffer, take the       *)
(* branch meant for a wrapped one: the bytes consumed last come again.     *)
IntoVec(b) ==
  IF b.read_cursor < b.write_cursor
  THEN Taken(b, b.write_cursor - b.read_cursor)
  ELSE Taken(b, b.end - b.read_cursor) \o [k \in 1 .. b.write_cursor |-> b.chunk[k - 1]]
=============================================================================
