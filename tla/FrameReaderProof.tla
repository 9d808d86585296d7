-------------------------- MODULE FrameReaderProof --------------------------
(***************************************************************************)
(* Proofs about FrameReader, for every size of buffer, of reads and of     *)
(* handshake, every set of shapes and every number of frames.              *)
(***************************************************************************)
EXTENDS FrameReaderInvariant, TLAPS

-----------------------------------------------------------------------------
(* The operations of the buffer, each as the fields of its result. *)

LEMMA BufferFields ==
  ASSUME NEW b \in Buffer
  PROVE  /\ b.read_cursor \in Nat
         /\ b.write_cursor \in Nat
         /\ b.end \in Nat
         /\ b.curr_frame \in Nat
         /\ b.chunk \in Chunk
  BY DEF Buffer

LEMMA ModBelow ==
  ASSUME NEW x \in Nat, x < ChunkSize
  PROVE  x % ChunkSize = x
  BY ChunkSizeAssumption

LEMMA ModWhole == ChunkSize % ChunkSize = 0
  BY ChunkSizeAssumption

LEMMA TakeRefFields ==
  ASSUME NEW b \in Buffer, NEW cnt \in Nat, b.end <= b.write_cursor
  PROVE  /\ TakeRef(b, cnt) \in Buffer
         /\ TakeRef(b, cnt).read_cursor = b.read_cursor + cnt
         /\ TakeRef(b, cnt).write_cursor = b.write_cursor
         /\ TakeRef(b, cnt).end = b.end
         /\ TakeRef(b, cnt).curr_frame = b.curr_frame
         /\ TakeRef(b, cnt).chunk = b.chunk
  BY DEF TakeRef, Buffer

LEMMA SetCurrFrameFields ==
  ASSUME NEW b \in Buffer
  PROVE  /\ SetCurrFrame(b) \in Buffer
         /\ SetCurrFrame(b).read_cursor = b.read_cursor
         /\ SetCurrFrame(b).write_cursor = b.write_cursor
         /\ SetCurrFrame(b).end = b.end
         /\ SetCurrFrame(b).curr_frame = b.read_cursor
         /\ SetCurrFrame(b).chunk = b.chunk
  BY DEF SetCurrFrame, Buffer

LEMMA StoredType ==
  ASSUME NEW b \in Buffer, NEW size \in Nat, NEW from \in Nat
  PROVE  Stored(b, size, from) \in Chunk
<1> DEFINE cell(i) == IF b.write_cursor <= i /\ i < b.write_cursor + size
                      THEN from + (i - b.write_cursor)
                      ELSE b.chunk[i]
<1>1. ASSUME NEW i \in Cells PROVE cell(i) \in Nat
  <2>1. i \in Int /\ b.chunk[i] \in Nat
    BY ChunkSizeAssumption, BufferFields DEF Cells, Chunk
  <2>2. CASE b.write_cursor <= i
    BY <2>1, <2>2, BufferFields
  <2>3. CASE ~(b.write_cursor <= i)
    BY <2>1, <2>3, BufferFields
  <2> QED BY <2>2, <2>3
<1> QED BY <1>1 DEF Stored, Chunk

LEMMA StoredCell ==
  ASSUME NEW b, NEW size, NEW from, NEW i \in Cells
  PROVE  Stored(b, size, from)[i] =
           IF b.write_cursor <= i /\ i < b.write_cursor + size
           THEN from + (i - b.write_cursor)
           ELSE b.chunk[i]
  BY DEF Stored

LEMMA CopyWithinCell ==
  ASSUME NEW ch, NEW from, NEW to, NEW dest, NEW i \in Cells
  PROVE  CopyWithin(ch, from, to, dest)[i] =
           IF dest <= i /\ i < dest + (to - from) THEN ch[from + (i - dest)] ELSE ch[i]
  BY DEF CopyWithin

(* The copy made when the buffer wraps. *)
LEMMA TailCopyType ==
  ASSUME NEW ch \in Chunk, NEW from \in Nat, from <= ChunkSize
  PROVE  CopyWithin(ch, from, ChunkSize, 0) \in Chunk
<1> DEFINE cell(i) == IF 0 <= i /\ i < 0 + (ChunkSize - from)
                      THEN ch[from + (i - 0)]
                      ELSE ch[i]
<1>1. ASSUME NEW i \in Cells PROVE cell(i) \in Nat
  <2>1. i \in Int /\ 0 <= i /\ i < ChunkSize /\ ch[i] \in Nat
    BY ChunkSizeAssumption DEF Cells, Chunk
  <2>2. CASE i < ChunkSize - from
    <3>1. from + (i - 0) \in Cells
      BY <2>1, <2>2, ChunkSizeAssumption DEF Cells
    <3> QED BY <3>1, <2>1, <2>2 DEF Chunk
  <2>3. CASE ~(i < ChunkSize - from)
    BY <2>1, <2>3, ChunkSizeAssumption
  <2> QED BY <2>2, <2>3
<1> QED BY <1>1 DEF CopyWithin, Chunk

(* A first read that leaves room. *)
LEMMA ReadFirstFields ==
  ASSUME NEW b \in Buffer, NEW size \in Nat, NEW from \in Nat,
         b.end = b.write_cursor, b.write_cursor + size < ChunkSize
  PROVE  LET c == ReadFirst(b, size, from)
         IN  /\ c \in Buffer
             /\ c.read_cursor = b.read_cursor
             /\ c.write_cursor = b.write_cursor + size
             /\ c.end = b.write_cursor + size
             /\ c.curr_frame = b.curr_frame
             /\ c.chunk = Stored(b, size, from)
<1> DEFINE wc == Advanced(b, size)
           e  == IF b.end < wc THEN wc ELSE b.end
           ch == Stored(b, size, from)
<1>1. wc = b.write_cursor + size
  BY ModBelow, BufferFields DEF Advanced
<1>2. wc \in Nat /\ e = wc
  BY <1>1, BufferFields
<1>3. ch \in Chunk
  BY StoredType
<1>4. ReadFirst(b, size, from) = [b EXCEPT !.write_cursor = wc, !.end = e, !.chunk = ch]
  BY DEF ReadFirst
<1> HIDE DEF wc, e, ch
<1>5. ReadFirst(b, size, from) \in Buffer
  BY <1>2, <1>3, <1>4 DEF Buffer
<1>6. ReadFirst(b, size, from).read_cursor = b.read_cursor
      /\ ReadFirst(b, size, from).curr_frame = b.curr_frame
  BY <1>4 DEF Buffer
<1>7. ReadFirst(b, size, from).write_cursor = wc
      /\ ReadFirst(b, size, from).end = e
      /\ ReadFirst(b, size, from).chunk = ch
  BY <1>4 DEF Buffer
<1> QED BY <1>1, <1>2, <1>5, <1>6, <1>7 DEF ch

(* A first read that fills the buffer, and the migration that follows. *)
LEMMA MigratedFields ==
  ASSUME NEW b \in Buffer, NEW size \in Nat, NEW from \in Nat,
         b.write_cursor + size = ChunkSize, b.curr_frame <= ChunkSize
  PROVE  LET c == ReadFirst(b, size, from)
             d == MigrateTail(c)
         IN  /\ Wrapped(c)
             /\ d \in Buffer
             /\ d.read_cursor = b.read_cursor
             /\ d.write_cursor = ChunkSize - b.curr_frame
             /\ d.end = b.curr_frame
             /\ d.curr_frame = b.curr_frame
             /\ d.chunk = CopyWithin(Stored(b, size, from), b.curr_frame, ChunkSize, 0)
<1> DEFINE wc == Advanced(b, size)
           e  == IF b.end < wc THEN wc ELSE b.end
           ch == Stored(b, size, from)
           c  == ReadFirst(b, size, from)
           cc == CopyWithin(ch, b.curr_frame, ChunkSize, 0)
           w  == ChunkSize - b.curr_frame
<1>1. wc = 0
  BY ModWhole, BufferFields DEF Advanced
<1>2. wc \in Nat /\ e \in Nat
  BY <1>1, BufferFields
<1>3. ch \in Chunk
  BY StoredType
<1>4. c = [b EXCEPT !.write_cursor = wc, !.end = e, !.chunk = ch]
  BY DEF ReadFirst
<1>5. cc \in Chunk
  BY <1>3, TailCopyType, BufferFields
<1>6. w \in Nat
  BY BufferFields, ChunkSizeAssumption
<1> HIDE DEF wc, e, ch
<1>7. c \in Buffer /\ c.write_cursor = wc /\ c.chunk = ch
  BY <1>2, <1>3, <1>4 DEF Buffer
<1>8. c.read_cursor = b.read_cursor /\ c.curr_frame = b.curr_frame
  BY <1>4 DEF Buffer
<1> HIDE DEF c
<1>9. MigrateTail(c) = [c EXCEPT !.end = b.curr_frame, !.write_cursor = w, !.chunk = cc]
  BY <1>7, <1>8 DEF MigrateTail
<1> HIDE DEF w, cc
<1>10. MigrateTail(c) \in Buffer
  BY <1>5, <1>6, <1>7, <1>9, BufferFields DEF Buffer
<1>11. /\ MigrateTail(c).read_cursor = b.read_cursor
       /\ MigrateTail(c).write_cursor = w
       /\ MigrateTail(c).end = b.curr_frame
       /\ MigrateTail(c).curr_frame = b.curr_frame
       /\ MigrateTail(c).chunk = cc
  BY <1>7, <1>8, <1>9 DEF Buffer
<1> QED BY <1>1, <1>7, <1>10, <1>11 DEF Wrapped, c, cc, ch, w

(* A second read after which the cursors point at the migrated bytes.      *)
(* Either the write cursor stays behind the read cursor, which then moves  *)
(* with the bytes, or the read cursor was at curr_frame and restarts at 0. *)
LEMMA ReadAgainFields ==
  ASSUME NEW b \in Buffer, NEW size \in Nat, NEW from \in Nat,
         b.write_cursor + size < ChunkSize,
         1 <= b.curr_frame, b.end = b.curr_frame,
         b.curr_frame <= b.read_cursor,
         b.write_cursor + size <= b.read_cursor \/ b.read_cursor = b.curr_frame
  PROVE  LET c == ReadAgain(b, size, from)
         IN  /\ c \in Buffer
             /\ c.read_cursor = b.read_cursor - b.curr_frame
             /\ c.write_cursor = b.write_cursor + size
             /\ c.end = b.write_cursor + size
             /\ c.curr_frame = 0
             /\ c.chunk = Stored(b, size, from)
<1> DEFINE wc    == Advanced(b, size)
           rc    == IF b.read_cursor < wc THEN 0 ELSE b.read_cursor
           moved == rc >= b.end
           r     == IF moved THEN rc - b.curr_frame ELSE rc
           e     == IF moved THEN wc ELSE b.end
           f     == IF e < wc THEN wc ELSE e
           ch    == Stored(b, size, from)
<1>1. wc = b.write_cursor + size /\ wc \in Nat
  BY ModBelow, BufferFields DEF Advanced
<1>2. r = b.read_cursor - b.curr_frame /\ f = wc
  <2>1. CASE b.read_cursor < wc
    BY <1>1, <2>1, BufferFields
  <2>2. CASE ~(b.read_cursor < wc)
    BY <1>1, <2>2, BufferFields
  <2> QED BY <2>1, <2>2
<1>3. r \in Nat /\ f \in Nat
  BY <1>1, <1>2, BufferFields
<1>4. ch \in Chunk
  BY StoredType
<1>5. ReadAgain(b, size, from) =
        [b EXCEPT !.write_cursor = wc, !.read_cursor = r, !.end = f,
                  !.curr_frame = 0, !.chunk = ch]
  BY DEF ReadAgain
<1> HIDE DEF wc, r, f, ch
<1>6. ReadAgain(b, size, from) \in Buffer
  <2>1. ReadAgain(b, size, from) =
          [read_cursor |-> r, write_cursor |-> wc, end |-> f,
           curr_frame |-> 0, chunk |-> ch]
    BY <1>5 DEF Buffer
  <2> QED BY <1>1, <1>3, <1>4, <2>1 DEF Buffer
<1>7. /\ ReadAgain(b, size, from).read_cursor = r
      /\ ReadAgain(b, size, from).write_cursor = wc
      /\ ReadAgain(b, size, from).end = f
      /\ ReadAgain(b, size, from).curr_frame = 0
      /\ ReadAgain(b, size, from).chunk = ch
  BY <1>5 DEF Buffer
<1> QED BY <1>1, <1>2, <1>6, <1>7 DEF ch

-----------------------------------------------------------------------------
(* Frames and positions. *)

LEMMA FrameFields ==
  ASSUME NEW f \in Frame
  PROVE  /\ f.kind \in Kind /\ f.mask \in BOOLEAN /\ f.ext \in {0, 2, 8}
         /\ f.len \in Nat /\ f.at \in Nat
  BY DEF Frame

LEMMA PlainSizes ==
  ASSUME NEW f \in Frame, PlainFrame(f)
  PROVE  /\ HeaderLen(f) = 2 + f.ext
         /\ Size(f) = 2 + f.ext + f.len
         /\ LastByte(f) = f.at + 1 + f.ext + f.len
         /\ HeaderLen(f) \in Nat /\ HeaderLen(f) <= 4 /\ Size(f) \in Nat
         /\ LastByte(f) \in Nat /\ f.at <= LastByte(f)
<1>1. f.mask = FALSE /\ f.ext \in {0, 2}
  BY DEF PlainFrame
<1>2. HeaderLen(f) = 2 + f.ext
  BY <1>1 DEF HeaderLen, MaskLen
<1>3. Size(f) = 2 + f.ext + f.len /\ LastByte(f) = f.at + 1 + f.ext + f.len
  BY <1>1, <1>2, FrameFields DEF Size, LastByte
<1> QED BY <1>1, <1>2, <1>3, FrameFields

LEMMA WireFrame ==
  ASSUME IInv, NEW k \in DOMAIN wire
  PROVE  wire[k] \in Frame /\ PlainFrame(wire[k]) /\ wire[k].at = EndOf(k - 1) + 1
         /\ k \in Nat /\ 1 <= k /\ k <= Len(wire) /\ EndOf(k) = LastByte(wire[k])
  BY DEF IInv, TypeOK, WireInv, EndOf

LEMMA EndOfNat ==
  ASSUME IInv, NEW k \in Nat, k <= Len(wire)
  PROVE  EndOf(k) \in Nat
<1>1. CASE k = 0
  BY <1>1, FrameReaderAssumption DEF EndOf
<1>2. CASE k # 0
  <2>1. k \in DOMAIN wire
    BY <1>2 DEF IInv, TypeOK
  <2> QED BY <1>2, <2>1, WireFrame, PlainSizes DEF EndOf
<1> QED BY <1>1, <1>2

LEMMA CountFacts ==
  ASSUME IInv
  PROVE  Count \in Nat /\ Count <= Len(wire) /\ Len(wire) \in Nat
  BY DEF IInv, DeliveredInv, TypeOK, Count

(* The next frame, where there is one: the first byte of its header, or of *)
(* its payload once the header is parsed, is the next unread byte.         *)
LEMMA PosFacts ==
  ASSUME IInv
  PROVE  /\ Pos \in Nat /\ Unread \in Int /\ received \in Nat
         /\ header = NoFrame => Pos = EndOf(Count) + 1
         /\ header # NoFrame =>
              /\ Count + 1 \in DOMAIN wire
              /\ header = wire[Count + 1]
              /\ header \in Frame /\ PlainFrame(header)
              /\ Pos = header.at + HeaderLen(header)
              /\ Pos + header.len = LastByte(header) + 1
<1>1. received \in Nat
  BY DEF IInv, TypeOK
<1>2. CASE header = NoFrame
  <2>1. Pos = EndOf(Count) + 1 /\ EndOf(Count) \in Nat
    BY <1>2, CountFacts, EndOfNat DEF Pos
  <2> QED BY <1>1, <1>2, <2>1 DEF Unread
<1>3. CASE header # NoFrame
  <2>1. Count < Len(wire) /\ header = wire[Count + 1]
    BY <1>3 DEF IInv, HeaderInv
  <2>2. Count + 1 \in DOMAIN wire
    BY <2>1, CountFacts DEF IInv, TypeOK
  <2>3. header \in Frame /\ PlainFrame(header)
    BY <2>1, <2>2, WireFrame
  <2>4. Pos = header.at + HeaderLen(header)
    BY <1>3 DEF Pos
  <2>5. Pos \in Nat /\ Pos + header.len = LastByte(header) + 1
    BY <2>3, <2>4, PlainSizes, FrameFields
  <2> QED BY <1>1, <1>3, <2>1, <2>2, <2>3, <2>4, <2>5 DEF Unread
<1> QED BY <1>2, <1>3

(* If four bytes are unread and no header is parsed, a frame starts there. *)
LEMMA NextFrame ==
  ASSUME IInv, header = NoFrame, Unread > 0
  PROVE  Count + 1 \in DOMAIN wire /\ wire[Count + 1].at = Pos
<1>1. EndOf(Count) < received /\ received <= EndOf(Len(wire))
  <2>1. received \in Nat /\ sent \in Nat /\ received <= sent /\ sent <= EndOf(Len(wire))
    BY DEF IInv, TypeOK, WireInv
  <2>2. EndOf(Len(wire)) \in Nat
    BY EndOfNat, CountFacts
  <2>3. Pos = EndOf(Count) + 1 /\ EndOf(Count) \in Nat
    BY EndOfNat, CountFacts, PosFacts
  <2> QED BY <2>1, <2>2, <2>3 DEF Unread
<1>2. Count # Len(wire)
  BY <1>1, EndOfNat, CountFacts DEF IInv, TypeOK
<1>3. Count + 1 \in DOMAIN wire
  BY <1>2, CountFacts DEF IInv, TypeOK
<1>4. wire[Count + 1].at = EndOf((Count + 1) - 1) + 1
  BY <1>3, WireFrame
<1>5. (Count + 1) - 1 = Count
  BY CountFacts
<1> QED BY <1>3, <1>4, <1>5, PosFacts

(* What is held in front of the read cursor fits. *)
LEMMA HeldFacts ==
  ASSUME WithinLimits, IInv
  PROVE  /\ Held \in Nat
         /\ Fits(Held) \/ Held = 0
         /\ header = NoFrame => 0 < Held
<1>1. CASE header # NoFrame
  BY <1>1 DEF Held
<1>2. CASE header = NoFrame /\ Count = 0
  BY <1>2, FrameReaderAssumption DEF Held, WithinLimits
<1>3. CASE header = NoFrame /\ Count # 0
  <2>1. Count \in DOMAIN wire
    BY <1>3, CountFacts DEF IInv, TypeOK
  <2>2. wire[Count] \in Frame /\ PlainFrame(wire[Count])
    BY <2>1, WireFrame
  <2>3. Held = wire[Count].len
    BY <1>3 DEF Held
  <2> QED BY <2>2, <2>3, FrameFields DEF PlainFrame
<1> QED BY <1>1, <1>2, <1>3

-----------------------------------------------------------------------------
(* The initial state. *)

LEMMA NoFrameType == NoFrame \in Frame
  BY DEF NoFrame, Frame, Kind

LEMMA InitState ==
  ASSUME Init
  PROVE  /\ buf \in Buffer
         /\ buf.read_cursor = Junk /\ buf.write_cursor = Junk
         /\ buf.end = Junk /\ buf.curr_frame = 0
         /\ \A i \in Cells : i < Junk => buf.chunk[i] = i + 1
         /\ TypeOK
<1>1. Junk \in Nat /\ Junk < ChunkSize /\ ChunkSize \in Nat
  BY FrameReaderAssumption, ChunkSizeAssumption
<1>2. /\ mode \in Modes /\ wire = << >> /\ sent = Junk /\ eof = FALSE /\ received = Junk
      /\ header = NoFrame /\ adj = 0 /\ pc = "idle" /\ delivered = << >>
      /\ torn = FALSE
  BY DEF Init
<1> DEFINE ch == [i \in Cells |-> IF i < Junk THEN i + 1 ELSE 0]
<1>5. ch \in Chunk
  BY ChunkSizeAssumption DEF Chunk, Cells
<1>6. /\ buf \in Buffer
      /\ buf.read_cursor = Junk /\ buf.write_cursor = Junk
      /\ buf.end = Junk /\ buf.curr_frame = 0
      /\ buf.chunk = ch
  <2>1. buf = [read_cursor |-> Junk, write_cursor |-> Junk, end |-> Junk,
               curr_frame |-> 0, chunk |-> ch]
    <3>1. Len(FirstBytes(Junk)) = Junk
      BY <1>1 DEF FirstBytes
    <3>2. \A i \in Cells : i < Junk => FirstBytes(Junk)[i + 1] = i + 1
      BY <1>1, ChunkSizeAssumption DEF FirstBytes, Cells
    <3>3. [i \in Cells |-> IF i < Len(FirstBytes(Junk))
                             THEN FirstBytes(Junk)[i + 1] ELSE 0] = ch
      BY <3>1, <3>2
    <3> QED BY <3>1, <3>3 DEF Init, FromPartiallyRead
  <2> HIDE DEF ch
  <2> QED BY <1>1, <1>5, <2>1 DEF Buffer
<1>7. TypeOK
  <2>1. wire \in Seq(Frame) /\ delivered \in Seq(Seq(Nat))
    BY <1>2
  <2>2. sent \in Nat /\ eof \in BOOLEAN /\ received \in Nat /\ adj \in Nat
    BY <1>1, <1>2
  <2>3. header \in Frame /\ pc \in Locations
    BY <1>2, NoFrameType DEF Locations
  <2> QED BY <1>2, <1>6, <2>1, <2>2, <2>3 DEF TypeOK
<1> QED BY <1>6, <1>7

LEMMA InitIInv ==
  ASSUME WithinLimits, Init
  PROVE  IInv
<1>1. Junk \in Nat /\ 0 < Junk /\ Junk < ChunkSize /\ ChunkSize \in Nat
  BY FrameReaderAssumption, ChunkSizeAssumption DEF WithinLimits
<1>2. /\ mode \in Modes /\ wire = << >> /\ sent = Junk /\ eof = FALSE /\ received = Junk
      /\ header = NoFrame /\ adj = 0 /\ pc = "idle" /\ delivered = << >>
      /\ torn = FALSE
  BY DEF Init
<1>3. Len(wire) = 0 /\ Count = 0 /\ DOMAIN wire = {} /\ DOMAIN delivered = {}
  BY <1>2 DEF Count
<1>4. Pos = Junk + 1 /\ Unread = 0 /\ Held = Junk
  BY <1>1, <1>2, <1>3 DEF Pos, Unread, Held, EndOf
<1>7. /\ buf \in Buffer /\ TypeOK
      /\ buf.read_cursor = Junk /\ buf.write_cursor = Junk
      /\ buf.end = Junk /\ buf.curr_frame = 0
  BY InitState
<1>8. NeverBreaks
  BY <1>2 DEF NeverBreaks
<1>9. WireInv
  BY <1>1, <1>2, <1>3 DEF WireInv, EndOf
<1>10. DeliveredInv
  BY <1>3 DEF DeliveredInv
<1>11. HeaderInv
  BY <1>2 DEF HeaderInv
<1>12. SettledInv
  BY <1>1, <1>2, <1>4, <1>7 DEF SettledInv, Cells
<1>13. BufferInv
  BY <1>2, <1>12 DEF BufferInv
<1> QED BY <1>7, <1>8, <1>9, <1>10, <1>11, <1>13 DEF IInv

-----------------------------------------------------------------------------
(* The peer's steps. *)

LEMMA PeerSendIInv ==
  ASSUME WithinLimits, IInv, PeerSend
  PROVE  IInv'
<1>1. PICK s \in Shapes :
        LET f == [kind |-> s.kind, ext |-> s.ext, mask |-> s.mask,
                  len |-> s.len, at |-> sent + 1]
        IN  /\ wire' = Append(wire, f)
            /\ sent' = sent + Size(f)
  BY DEF PeerSend
<1> DEFINE f == [kind |-> s.kind, ext |-> s.ext, mask |-> s.mask,
                 len |-> s.len, at |-> sent + 1]
<1>0. PICK n \in Nat : n = Len(wire)
  BY DEF IInv, TypeOK
<1>2. /\ wire \in Seq(Frame) /\ sent \in Nat /\ received \in Nat /\ n \in Nat
      /\ received <= sent /\ sent = EndOf(n) /\ eof = FALSE
  BY <1>0 DEF IInv, TypeOK, WireInv, PeerSend
<1>3. UNCHANGED <<mode, eof, torn, received, buf, header, adj, pc, delivered>>
  BY DEF PeerSend
<1>4. f \in Frame /\ PlainFrame(f) /\ f.at = sent + 1
  <2>1. s \in Shape
    BY FrameReaderAssumption
  <2>2. s.kind = "start" /\ ~s.mask /\ s.ext # 8 /\ s.len > 0 /\ Fits(s.len)
    BY DEF WithinLimits
  <2> QED BY <1>2, <2>1, <2>2 DEF Frame, Shape, PlainFrame, Kind
<1> HIDE DEF f
<1>5. /\ wire' = Append(wire, f) /\ sent' = sent + Size(f)
      /\ wire' \in Seq(Frame) /\ Len(wire') = n + 1 /\ wire'[n + 1] = f
      /\ \A k \in 1 .. n : wire'[k] = wire[k]
  BY <1>0, <1>1, <1>2, <1>4 DEF f
<1>6. DOMAIN wire' = 1 .. n + 1 /\ DOMAIN wire = 1 .. n
  BY <1>0, <1>2, <1>5
<1>7. ASSUME NEW k \in 0 .. n PROVE EndOf(k)' = EndOf(k)
  BY <1>2, <1>5, <1>7 DEF EndOf
<1>8. /\ Size(f) \in Nat /\ LastByte(f) \in Nat /\ LastByte(f) = sent + Size(f)
      /\ EndOf(n + 1)' = LastByte(f)
  <2>1. EndOf(n + 1)' = LastByte(f)
    <3>1. EndOf(n + 1)' = LastByte(wire[n + 1])'
      <4>1. n + 1 # 0
        BY <1>2
      <4> QED BY <4>1 DEF EndOf
    <3>2. LastByte(wire[n + 1])' = LastByte(f)
      BY <1>5 DEF LastByte, Size, HeaderLen, MaskLen
    <3> QED BY <3>1, <3>2
  <2>2. Size(f) \in Nat /\ LastByte(f) \in Nat
    BY <1>4, PlainSizes
  <2>3. LastByte(f) = sent + Size(f)
    BY <1>2, <1>4, <2>2 DEF LastByte
  <2> QED BY <2>1, <2>2, <2>3
<1>9. TypeOK'
  BY <1>2, <1>3, <1>5, <1>8 DEF IInv, TypeOK
<1>10. WireInv'
  <2>1. ASSUME NEW k \in 1 .. n + 1
        PROVE  PlainFrame(wire'[k]) /\ wire'[k].at = EndOf(k - 1)' + 1
    <3>1. CASE k = n + 1
      BY <1>2, <1>4, <1>5, <1>7, <3>1
    <3>2. CASE k # n + 1
      <4>1. k \in 1 .. n /\ k - 1 \in 0 .. n /\ k \in DOMAIN wire
        BY <1>2, <1>6, <3>2
      <4> QED BY <1>5, <1>7, <4>1, WireFrame
    <3> QED BY <3>1, <3>2
  <2>2. ASSUME NEW j \in 1 .. n + 1, NEW k \in 1 .. n + 1, j < k
        PROVE  wire'[j].at < wire'[k].at
    <3>1. j \in 1 .. n /\ j \in DOMAIN wire
      BY <1>2, <1>6, <2>2
    <3>2. CASE k = n + 1
      <4>1. n \in DOMAIN wire /\ wire[n] \in Frame /\ wire[j] \in Frame
        BY <1>2, <1>6, <3>1, WireFrame
      <4>2. j = n \/ wire[j].at < wire[n].at
        BY <1>2, <3>1, <4>1 DEF IInv, WireInv
      <4>3. PlainFrame(wire[n]) /\ EndOf(n) = LastByte(wire[n])
        BY <4>1, WireFrame
      <4>4. wire[n].at \in Nat /\ wire[n].at <= LastByte(wire[n])
        BY <4>1, <4>3, PlainSizes, FrameFields
      <4>5. wire[n].at <= sent
        BY <1>2, <4>3, <4>4
      <4>6. wire[j].at \in Nat /\ wire[j].at <= sent
        BY <1>2, <4>1, <4>2, <4>4, <4>5, FrameFields
      <4>7. wire'[j] = wire[j] /\ wire'[k] = f
        BY <1>5, <3>1, <3>2
      <4> QED BY <1>2, <1>4, <4>6, <4>7
    <3>3. CASE k # n + 1
      <4>1. k \in 1 .. n /\ k \in DOMAIN wire
        BY <1>2, <1>6, <3>3
      <4> QED BY <1>5, <2>2, <3>1, <4>1 DEF IInv, WireInv
    <3> QED BY <3>2, <3>3
  <2>3. sent' = EndOf(Len(wire))'
    BY <1>2, <1>5, <1>8 DEF EndOf, LastByte, Size, HeaderLen, MaskLen
  <2>4. received' <= sent' /\ sent' <= EndOf(Len(wire))'
    BY <1>2, <1>3, <1>5, <1>8, <2>3
  <2> QED BY <1>6, <2>1, <2>2, <2>3, <2>4 DEF WireInv
<1>11. Count' = Count /\ Count \in Nat /\ Count <= n
  BY <1>0, <1>3, CountFacts DEF Count
<1>12. DeliveredInv'
  <2>1. ASSUME NEW k \in 1 .. Count PROVE delivered'[k] = PayloadOf(wire'[k])
    <3>1. k \in 1 .. n
      BY <1>2, <1>11
    <3> QED BY <1>3, <1>5, <2>1, <3>1 DEF IInv, DeliveredInv
  <2> QED BY <1>2, <1>5, <1>11, <2>1 DEF DeliveredInv
<1>13. HeaderInv'
  <2>1. ASSUME header # NoFrame
        PROVE  Count < n + 1 /\ header = wire'[Count + 1]
    <3>1. Count < n /\ header = wire[Count + 1]
      BY <1>0, <2>1 DEF IInv, HeaderInv
    <3>2. Count + 1 \in 1 .. n
      BY <1>2, <1>11, <3>1
    <3> QED BY <1>2, <1>5, <1>11, <3>1, <3>2
  <2> QED BY <1>3, <1>5, <1>11, <2>1 DEF IInv, HeaderInv
<1>14. Pos' = Pos /\ Unread' = Unread /\ Held' = Held /\ Short' = Short
  <2>1. EndOf(Count)' = EndOf(Count)
    BY <1>2, <1>7, <1>11
  <2>2. Pos' = Pos
    BY <1>3, <1>11, <2>1 DEF Pos
  <2>3. Count # 0 => wire'[Count] = wire[Count]
    BY <1>2, <1>5, <1>11
  <2>4. Held' = Held
    BY <1>3, <1>11, <2>3 DEF Held
  <2> QED BY <1>3, <2>2, <2>4 DEF Unread, Short
<1>15. BufferInv'
  BY <1>3, <1>14 DEF IInv, BufferInv, SettledInv, MovedInv
<1>16. NeverBreaks'
  BY <1>3 DEF IInv, NeverBreaks
<1> QED BY <1>9, <1>10, <1>12, <1>13, <1>15, <1>16 DEF IInv

LEMMA PeerCloseIInv ==
  ASSUME WithinLimits, IInv, PeerClose
  PROVE  IInv'
<1>1. UNCHANGED <<mode, wire, torn, received, buf, header, adj, pc, delivered>> /\ eof' = TRUE
  BY DEF PeerClose
<1>2. sent' \in Nat /\ received <= sent' /\ sent' <= sent
  BY DEF PeerClose, IInv, TypeOK
<1>3. TypeOK'
  BY <1>1, <1>2 DEF IInv, TypeOK
<1>4. EndOf(Len(wire))' = EndOf(Len(wire)) /\ EndOf(Len(wire)) \in Nat
      /\ sent \in Nat /\ sent <= EndOf(Len(wire))
  BY <1>1, EndOfNat, CountFacts DEF EndOf, IInv, TypeOK, WireInv
<1>5. ASSUME NEW k \in DOMAIN wire PROVE EndOf(k - 1)' = EndOf(k - 1)
  BY <1>1 DEF EndOf
<1>6. WireInv'
  BY <1>1, <1>2, <1>4, <1>5 DEF IInv, WireInv
<1>7. DeliveredInv' /\ HeaderInv' /\ NeverBreaks' /\ Pos' = Pos /\ Held' = Held
  BY <1>1 DEF IInv, DeliveredInv, HeaderInv, NeverBreaks, Count, Pos, Held, EndOf
<1>8. BufferInv'
  BY <1>1, <1>7 DEF IInv, BufferInv, SettledInv, MovedInv, Unread, Short
<1> QED BY <1>3, <1>6, <1>7, <1>8 DEF IInv

-----------------------------------------------------------------------------
(* The reader's steps.  None of them touches what the peer sent. *)

LEMMA WireKept ==
  ASSUME IInv, UNCHANGED peerVars, received' <= sent
  PROVE  WireInv' /\ \A k \in Nat : EndOf(k)' = EndOf(k)
<1>1. wire' = wire /\ sent' = sent /\ eof' = eof
  BY DEF peerVars
<1>2. ASSUME NEW k PROVE EndOf(k)' = EndOf(k)
  BY <1>1 DEF EndOf
<1>3. EndOf(Len(wire))' = EndOf(Len(wire))
  BY <1>1 DEF EndOf
<1> QED BY <1>1, <1>2, <1>3 DEF IInv, WireInv

LEMMA ReceivedBelowSent ==
  ASSUME IInv
  PROVE  received \in Nat /\ sent \in Nat /\ received <= sent
  BY DEF IInv, TypeOK, WireInv

(* A settled buffer. *)
LEMMA SettledFacts ==
  ASSUME IInv, pc \in {"idle", "header", "payload", "fill"}
  PROVE  /\ buf \in Buffer /\ SettledInv
         /\ Skipped = buf /\ ~SkipPanics
         /\ Remaining(buf) = Unread
         /\ 0 <= Unread
<1>1. buf \in Buffer /\ SettledInv /\ adj = 0
  BY DEF IInv, TypeOK, BufferInv, HeaderInv
<1>2. Remaining(buf) = Unread /\ 0 <= Unread
  BY <1>1, BufferFields, PosFacts DEF Remaining, SettledInv
<1> QED BY <1>1, <1>2 DEF Skipped, SkipPanics

LEMMA ReadFrameIInv ==
  ASSUME WithinLimits, IInv, ReadFrame
  PROVE  IInv'
<1>1. pc = "idle" /\ header = NoFrame /\ pc' = "header"
  BY DEF IInv, HeaderInv, ReadFrame
<1>2. UNCHANGED <<mode, wire, sent, eof, torn, received, buf, header, adj, delivered>>
  BY DEF ReadFrame, peerVars
<1>3. TypeOK' /\ NeverBreaks'
  BY <1>1, <1>2 DEF IInv, TypeOK, NeverBreaks, Locations
<1>4. WireInv'
  BY <1>2, WireKept, ReceivedBelowSent DEF peerVars
<1>5. DeliveredInv' /\ HeaderInv' /\ Pos' = Pos /\ Held' = Held
  BY <1>1, <1>2 DEF IInv, DeliveredInv, HeaderInv, Count, Pos, Held, EndOf
<1>6. BufferInv'
  BY <1>1, <1>2, <1>5, SettledFacts DEF BufferInv, SettledInv, Unread
<1> QED BY <1>3, <1>4, <1>5, <1>6 DEF IInv

LEMMA AwaitHeaderIInv ==
  ASSUME WithinLimits, IInv, AwaitHeader
  PROVE  IInv'
<1>1. pc = "header" /\ header = NoFrame /\ pc' = "fill" /\ buf' = buf /\ Unread < 4
  BY SettledFacts DEF IInv, HeaderInv, AwaitHeader, ShortHeader
<1>2. UNCHANGED <<mode, wire, sent, eof, torn, received, buf, header, adj, delivered>>
  BY <1>1 DEF AwaitHeader, peerVars
<1>3. TypeOK' /\ NeverBreaks'
  BY <1>1, <1>2 DEF IInv, TypeOK, NeverBreaks, Locations
<1>4. WireInv'
  BY <1>2, WireKept, ReceivedBelowSent DEF peerVars
<1>5. DeliveredInv' /\ HeaderInv' /\ Pos' = Pos /\ Held' = Held
  BY <1>1, <1>2 DEF IInv, DeliveredInv, HeaderInv, Count, Pos, Held, EndOf
<1>6. BufferInv'
  BY <1>1, <1>2, <1>5, SettledFacts DEF BufferInv, SettledInv, Unread, Short
<1> QED BY <1>3, <1>4, <1>5, <1>6 DEF IInv

LEMMA AwaitPayloadIInv ==
  ASSUME WithinLimits, IInv, AwaitPayload
  PROVE  IInv'
<1>1. pc = "payload" /\ header # NoFrame /\ pc' = "fill" /\ ~HasPayload
  BY DEF IInv, HeaderInv, AwaitPayload
<1>2. UNCHANGED <<mode, wire, sent, eof, torn, received, buf, header, adj, delivered>>
  BY DEF AwaitPayload, peerVars
<1>3. TypeOK' /\ NeverBreaks'
  BY <1>1, <1>2 DEF IInv, TypeOK, NeverBreaks, Locations
<1>4. WireInv'
  BY <1>2, WireKept, ReceivedBelowSent DEF peerVars
<1>5. DeliveredInv' /\ HeaderInv' /\ Pos' = Pos /\ Held' = Held
  BY <1>1, <1>2 DEF IInv, DeliveredInv, HeaderInv, Count, Pos, Held, EndOf
<1>6. Unread < header.len
  <2>1. header \in Frame /\ header.len > 0
    BY <1>1, PosFacts DEF PlainFrame
  <2> QED BY <1>1, <2>1, SettledFacts, PosFacts, FrameFields DEF HasPayload
<1>7. BufferInv'
  BY <1>1, <1>2, <1>5, <1>6, SettledFacts DEF BufferInv, SettledInv, Unread, Short
<1> QED BY <1>3, <1>4, <1>5, <1>7 DEF IInv

LEMMA RefuseTooLongIInv ==
  ASSUME WithinLimits, IInv, RefuseTooLong
  PROVE  IInv'
<1>1. pc' = "failed"
  BY DEF RefuseTooLong
<1>2. UNCHANGED <<mode, wire, sent, eof, torn, received, buf, header, adj, delivered>>
  BY DEF RefuseTooLong, peerVars
<1>3. TypeOK' /\ NeverBreaks'
  BY <1>1, <1>2 DEF IInv, TypeOK, NeverBreaks, Locations, Stopped
<1>4. WireInv'
  BY <1>2, WireKept, ReceivedBelowSent DEF peerVars
<1>5. DeliveredInv' /\ HeaderInv'
  BY <1>1, <1>2 DEF IInv, DeliveredInv, HeaderInv, Count
<1>6. BufferInv'
  BY <1>1 DEF BufferInv
<1> QED BY <1>3, <1>4, <1>5, <1>6 DEF IInv

-----------------------------------------------------------------------------
(* Parsing: with four bytes unread there is exactly one frame to parse,    *)
(* the next one, and its whole header is there.                            *)
LEMMA HeaderReadable ==
  ASSUME WithinLimits, IInv, pc = "header", LongEnough,
         NEW f, f = wire[Count + 1]
  PROVE  /\ f \in Frame /\ PlainFrame(f) /\ f.at = Pos
         /\ Count + 1 \in DOMAIN wire
         /\ FramesAt(buf) = {Count + 1}
         /\ ~ParsePanics
         /\ ~MaskIncomplete(f)
         /\ AfterHeader(f) = AfterLength(f)
         /\ 4 <= Unread
<1>1. header = NoFrame /\ 4 <= Unread /\ Skipped = buf /\ ~SkipPanics
  BY SettledFacts DEF IInv, HeaderInv, LongEnough
<1>2. Count + 1 \in DOMAIN wire /\ f.at = Pos
  BY <1>1, NextFrame, PosFacts
<1>3. f \in Frame /\ PlainFrame(f)
  BY <1>2, WireFrame
<1>4. buf \in Buffer /\ SettledInv
  BY SettledFacts
<1>5. /\ buf.read_cursor \in Nat /\ buf.write_cursor \in Nat /\ buf.end = buf.write_cursor
      /\ buf.read_cursor + 4 <= buf.write_cursor /\ buf.write_cursor < ChunkSize
      /\ ChunkSize \in Nat
  BY <1>1, <1>4, BufferFields, PosFacts, ChunkSizeAssumption DEF SettledInv
<1>6. Taken(buf, 2) = [j \in 1 .. 2 |-> Pos + j - 1]
  <2>1. ASSUME NEW j \in 1 .. 2
        PROVE  buf.chunk[buf.read_cursor + j - 1] = Pos + j - 1
    <3>1. buf.read_cursor + j - 1 \in Cells
      BY <1>5 DEF Cells
    <3>2. buf.chunk[buf.read_cursor + j - 1] = Pos + ((buf.read_cursor + j - 1) - buf.read_cursor)
      BY <1>4, <1>5, <3>1 DEF SettledInv
    <3> QED BY <1>5, <3>2, PosFacts
  <2> QED BY <2>1 DEF Taken
<1>7. ASSUME NEW k \in DOMAIN wire
      PROVE  Taken(buf, 2) = [j \in 1 .. 2 |-> wire[k].at + j - 1] <=> k = Count + 1
  <2>1. CASE k = Count + 1
    BY <1>2, <1>6, <2>1
  <2>2. CASE k # Count + 1
    <3>1. wire[k].at \in Nat /\ f.at \in Nat /\ k \in Nat /\ Count + 1 \in Nat
      BY <1>3, WireFrame, FrameFields, CountFacts
    <3>2. wire[k].at # f.at
      BY <1>2, <2>2, <3>1 DEF IInv, WireInv
    <3>3. wire[k].at + 1 - 1 # Pos + 1 - 1
      BY <1>2, <3>1, <3>2
    <3>4. [j \in 1 .. 2 |-> wire[k].at + j - 1][1] # [j \in 1 .. 2 |-> Pos + j - 1][1]
      BY <3>3
    <3> QED BY <1>6, <2>2, <3>4
  <2> QED BY <2>1, <2>2
<1>8. FramesAt(buf) = {Count + 1}
  BY <1>2, <1>7 DEF FramesAt
<1>9. f.mask = FALSE /\ f.ext \in {0, 2}
  BY <1>3 DEF PlainFrame
<1>10. ~TakeRefPanics(buf, 2)
  BY <1>5 DEF TakeRefPanics
<1>11. AfterTwo = TakeRef(buf, 2)
  BY <1>1 DEF AfterTwo
<1>12. ~TakeRefPanics(AfterTwo, f.ext)
  <2>1. buf.end <= buf.write_cursor
    BY <1>5
  <2>2. AfterTwo.read_cursor = buf.read_cursor + 2 /\ AfterTwo.end = buf.end
    BY <1>4, <1>11, <2>1, TakeRefFields
  <2> QED BY <1>5, <1>9, <2>2 DEF TakeRefPanics
<1>13. ~ParsePanics
  BY <1>1, <1>8, <1>10, <1>12 DEF ParsePanics
<1>14. ~MaskIncomplete(f) /\ AfterHeader(f) = AfterLength(f)
  BY <1>9 DEF MaskIncomplete, AfterHeader
<1> QED BY <1>1, <1>2, <1>3, <1>8, <1>13, <1>14

LEMMA AfterLengthFields ==
  ASSUME WithinLimits, IInv, pc = "header", LongEnough,
         NEW f, f = wire[Count + 1]
  PROVE  LET c == AfterLength(f)
         IN  /\ c \in Buffer
             /\ c.read_cursor = buf.read_cursor + HeaderLen(f)
             /\ c.write_cursor = buf.write_cursor
             /\ c.end = buf.end
             /\ c.chunk = buf.chunk
<1>1. f \in Frame /\ PlainFrame(f) /\ f.ext \in {0, 2}
  BY HeaderReadable DEF PlainFrame
<1>2. buf \in Buffer /\ buf.end = buf.write_cursor /\ Skipped = buf
  BY SettledFacts DEF SettledInv
<1>3. /\ AfterTwo \in Buffer
      /\ AfterTwo.read_cursor = buf.read_cursor + 2
      /\ AfterTwo.write_cursor = buf.write_cursor
      /\ AfterTwo.end = buf.end
      /\ AfterTwo.chunk = buf.chunk
  <2>1. buf.end <= buf.write_cursor
    BY <1>2, BufferFields
  <2>2. AfterTwo = TakeRef(buf, 2)
    BY <1>2 DEF AfterTwo
  <2> QED BY <1>2, <2>1, <2>2, TakeRefFields
<1>4. CASE f.ext = 0
  BY <1>1, <1>3, <1>4, PlainSizes, BufferFields, <1>2 DEF AfterLength
<1>5. CASE f.ext = 2
  <2>1. AfterLength(f) = TakeRef(AfterTwo, 2)
    BY <1>5 DEF AfterLength
  <2>2. AfterTwo.end <= AfterTwo.write_cursor
    BY <1>2, <1>3, BufferFields
  <2>3. /\ TakeRef(AfterTwo, 2) \in Buffer
        /\ TakeRef(AfterTwo, 2).read_cursor = AfterTwo.read_cursor + 2
        /\ TakeRef(AfterTwo, 2).write_cursor = AfterTwo.write_cursor
        /\ TakeRef(AfterTwo, 2).end = AfterTwo.end
        /\ TakeRef(AfterTwo, 2).chunk = AfterTwo.chunk
    BY <1>3, <2>2, TakeRefFields
  <2>4. HeaderLen(f) = 4 /\ buf.read_cursor + 2 + 2 = buf.read_cursor + 4
    BY <1>1, <1>2, <1>5, PlainSizes, BufferFields
  <2> QED BY <1>2, <1>3, <2>1, <2>3, <2>4, BufferFields
<1> QED BY <1>1, <1>4, <1>5

LEMMA ParseHeaderIInv ==
  ASSUME WithinLimits, IInv, ParseHeader
  PROVE  IInv'
<1> DEFINE f == wire[Count + 1]
           c == AfterLength(f)
<1>1. pc = "header" /\ header = NoFrame /\ LongEnough /\ Skipped = buf
  BY SettledFacts DEF IInv, HeaderInv, ParseHeader
<1>2. /\ f \in Frame /\ PlainFrame(f) /\ f.at = Pos /\ 4 <= Unread
      /\ Count + 1 \in DOMAIN wire /\ FramesAt(buf) = {Count + 1}
      /\ AfterHeader(f) = c
  BY <1>1, HeaderReadable
<1>3. /\ c \in Buffer
      /\ c.read_cursor = buf.read_cursor + HeaderLen(f)
      /\ c.write_cursor = buf.write_cursor
      /\ c.end = buf.end
      /\ c.chunk = buf.chunk
  BY <1>1, AfterLengthFields
<1>4. header' = f /\ adj' = 0 /\ buf' = SetCurrFrame(c) /\ pc' = "payload"
  BY <1>1, <1>2 DEF ParseHeader, PlainFrame
<1>5. UNCHANGED <<mode, wire, sent, eof, torn, received, delivered>>
  BY DEF ParseHeader, peerVars
<1> HIDE DEF f, c
<1>6. /\ buf' \in Buffer
      /\ buf'.read_cursor = buf.read_cursor + HeaderLen(f)
      /\ buf'.write_cursor = buf.write_cursor
      /\ buf'.end = buf.end
      /\ buf'.curr_frame = buf.read_cursor + HeaderLen(f)
      /\ buf'.chunk = buf.chunk
  BY <1>3, <1>4, SetCurrFrameFields
<1>7. TypeOK' /\ NeverBreaks'
  BY <1>2, <1>4, <1>5, <1>6 DEF IInv, TypeOK, NeverBreaks, Locations
<1>8. WireInv'
  BY <1>5, WireKept, ReceivedBelowSent DEF peerVars
<1>9. f # NoFrame
  BY <1>2 DEF NoFrame, PlainFrame
<1>10. Count' = Count /\ Count \in Nat /\ Count < Len(wire)
  BY <1>2, <1>5, CountFacts DEF Count, IInv, TypeOK
<1>11. DeliveredInv'
  BY <1>5, <1>10 DEF IInv, DeliveredInv
<1>12. HeaderInv'
  BY <1>4, <1>5, <1>9, <1>10 DEF HeaderInv, f
<1>13. Pos' = Pos + HeaderLen(f) /\ HeaderLen(f) \in Nat /\ HeaderLen(f) <= 4
  <2>1. Pos' = f.at + HeaderLen(f)
    BY <1>4, <1>9 DEF Pos, HeaderLen, MaskLen
  <2> QED BY <1>2, <2>1, PlainSizes
<1>14. Unread' = Unread - HeaderLen(f) /\ 0 <= Unread'
  BY <1>2, <1>5, <1>13, PosFacts DEF Unread
<1>15. Held' = 0
  BY <1>4, <1>9 DEF Held
<1>16. SettledInv /\ buf \in Buffer
  BY <1>1, SettledFacts
<1>17. SettledInv'
  <2>1. /\ 1 <= buf'.write_cursor /\ buf'.write_cursor < ChunkSize
        /\ buf'.end = buf'.write_cursor
        /\ buf'.read_cursor <= buf'.write_cursor
        /\ buf'.write_cursor = buf'.read_cursor + Unread'
        /\ buf'.read_cursor = buf'.curr_frame + Held'
    BY <1>2, <1>6, <1>13, <1>14, <1>15, <1>16, BufferFields, PosFacts DEF SettledInv
  <2>2. ASSUME NEW i \in Cells, buf'.read_cursor <= i, i < buf'.write_cursor
        PROVE  buf'.chunk[i] = Pos' + (i - buf'.read_cursor)
    <3>1. i \in Int /\ buf.read_cursor \in Nat /\ HeaderLen(f) \in Nat /\ Pos \in Nat
      BY <1>13, <1>16, BufferFields, PosFacts, ChunkSizeAssumption DEF Cells
    <3>2. buf.read_cursor <= i /\ i < buf.write_cursor
      BY <1>6, <2>2, <3>1
    <3>3. buf.chunk[i] = Pos + (i - buf.read_cursor)
      BY <1>16, <3>2 DEF SettledInv
    <3> QED BY <1>6, <1>13, <3>1, <3>3
  <2> QED BY <1>4, <2>1, <2>2 DEF SettledInv
<1>18. BufferInv'
  BY <1>4, <1>17 DEF BufferInv
<1> QED BY <1>7, <1>8, <1>11, <1>12, <1>18 DEF IInv

-----------------------------------------------------------------------------
LEMMA TakePayloadIInv ==
  ASSUME WithinLimits, IInv, TakePayload
  PROVE  IInv'
<1>1. pc = "payload" /\ header # NoFrame /\ HasPayload
  BY DEF IInv, HeaderInv, TakePayload
<1>2. /\ delivered' = Append(delivered, Taken(buf, header.len))
      /\ buf' = TakeRef(buf, header.len) /\ header' = NoFrame /\ pc' = "idle"
      /\ UNCHANGED <<mode, wire, sent, eof, torn, received, adj>>
  BY DEF TakePayload, peerVars
<1>3. /\ header \in Frame /\ PlainFrame(header) /\ header = wire[Count + 1]
      /\ Count + 1 \in DOMAIN wire
      /\ Pos = header.at + HeaderLen(header)
      /\ Pos + header.len = LastByte(header) + 1
      /\ Pos \in Nat
  BY <1>1, PosFacts
<1>4. header.len \in Nat /\ HeaderLen(header) \in Nat /\ header.at \in Nat
  BY <1>3, FrameFields, PlainSizes
<1>5. buf \in Buffer /\ SettledInv /\ Unread \in Int /\ header.len <= Unread
  BY <1>1, SettledFacts, PosFacts DEF HasPayload
<1>6. /\ buf.read_cursor \in Nat /\ buf.write_cursor \in Nat /\ buf.curr_frame \in Nat
      /\ buf.read_cursor + header.len <= buf.write_cursor
      /\ buf.write_cursor < ChunkSize /\ ChunkSize \in Nat
      /\ buf.end <= buf.write_cursor
  BY <1>4, <1>5, BufferFields, ChunkSizeAssumption DEF SettledInv
<1>7. /\ buf' \in Buffer
      /\ buf'.read_cursor = buf.read_cursor + header.len
      /\ buf'.write_cursor = buf.write_cursor
      /\ buf'.end = buf.end
      /\ buf'.curr_frame = buf.curr_frame
      /\ buf'.chunk = buf.chunk
  BY <1>2, <1>4, <1>5, <1>6, TakeRefFields
<1>8. Taken(buf, header.len) = PayloadOf(header)
  <2>1. ASSUME NEW k \in 1 .. header.len
        PROVE  buf.chunk[buf.read_cursor + k - 1] = header.at + HeaderLen(header) + k - 1
    <3>1. buf.read_cursor + k - 1 \in Cells
      BY <1>4, <1>6 DEF Cells
    <3>2. buf.chunk[buf.read_cursor + k - 1]
            = Pos + ((buf.read_cursor + k - 1) - buf.read_cursor)
      BY <1>4, <1>5, <1>6, <3>1 DEF SettledInv
    <3> QED BY <1>3, <1>4, <1>6, <3>2
  <2> QED BY <2>1 DEF Taken, PayloadOf
<1>9. PayloadOf(header) \in Seq(Nat)
  BY <1>4 DEF PayloadOf
<1>10. /\ delivered \in Seq(Seq(Nat)) /\ delivered' \in Seq(Seq(Nat))
       /\ Count \in Nat /\ Count' = Count + 1 /\ Count' <= Len(wire)
       /\ delivered'[Count + 1] = PayloadOf(header)
       /\ \A k \in 1 .. Count : delivered'[k] = delivered[k]
  <2>1. delivered \in Seq(Seq(Nat)) /\ Count + 1 <= Len(wire)
    BY <1>3 DEF IInv, TypeOK
  <2>2. delivered' = Append(delivered, PayloadOf(header))
    BY <1>2, <1>8
  <2> QED BY <1>9, <2>1, <2>2 DEF Count
<1>11. TypeOK' /\ NeverBreaks'
  BY <1>2, <1>7, <1>10, NoFrameType DEF IInv, TypeOK, NeverBreaks, Locations
<1>12. WireInv'
  BY <1>2, WireKept, ReceivedBelowSent DEF peerVars
<1>13. DeliveredInv'
  <2>1. ASSUME NEW k \in 1 .. Count + 1
        PROVE  delivered'[k] = PayloadOf(wire[k])
    <3>1. CASE k = Count + 1
      BY <1>3, <1>10, <3>1
    <3>2. CASE k # Count + 1
      <4>1. k \in 1 .. Count
        BY <1>10, <3>2
      <4> QED BY <1>10, <4>1 DEF IInv, DeliveredInv
    <3> QED BY <3>1, <3>2
  <2> QED BY <1>2, <1>10, <2>1 DEF DeliveredInv
<1>14. HeaderInv'
  BY <1>2 DEF IInv, HeaderInv
<1>15. EndOf(Count)' = LastByte(header)
  <2>1. EndOf(Count)' = LastByte(wire[Count + 1])
    <3>1. Count + 1 # 0
      BY <1>10
    <3> QED BY <1>2, <1>10, <3>1 DEF EndOf, LastByte, Size, HeaderLen, MaskLen
  <2> QED BY <1>3, <2>1
<1>16. Pos' = Pos + header.len
  BY <1>2, <1>3, <1>15 DEF Pos
<1>17. Unread' = Unread - header.len
  <2>1. Unread' = received + 1 - (Pos + header.len)
    BY <1>2, <1>16 DEF Unread
  <2>2. received \in Nat /\ Unread = received + 1 - Pos
    BY ReceivedBelowSent DEF Unread
  <2> QED BY <1>3, <1>4, <2>1, <2>2
<1>18. Held' = header.len
  <2>1. Count' # 0 /\ wire'[Count'] = header
    BY <1>2, <1>3, <1>10
  <2> QED BY <1>2, <2>1 DEF Held
<1>19. SettledInv'
  <2>1. /\ buf.write_cursor = buf.read_cursor + Unread /\ buf.end = buf.write_cursor
        /\ buf.read_cursor = buf.curr_frame + Held /\ Held = 0
        /\ 1 <= buf.write_cursor
    BY <1>1, <1>5 DEF SettledInv, Held
  <2>2. /\ 1 <= buf'.write_cursor /\ buf'.write_cursor < ChunkSize
        /\ buf'.end = buf'.write_cursor
        /\ buf'.read_cursor <= buf'.write_cursor
        /\ buf'.write_cursor = buf'.read_cursor + Unread'
        /\ buf'.read_cursor = buf'.curr_frame + Held'
    BY <1>4, <1>5, <1>6, <1>7, <1>17, <1>18, <2>1
  <2>3. ASSUME NEW i \in Cells, buf'.read_cursor <= i, i < buf'.write_cursor
        PROVE  buf'.chunk[i] = Pos' + (i - buf'.read_cursor)
    <3>1. i \in Int
      BY <1>6 DEF Cells
    <3>2. buf.read_cursor <= i /\ i < buf.write_cursor
      BY <1>4, <1>6, <1>7, <2>3, <3>1
    <3>3. buf.chunk[i] = Pos + (i - buf.read_cursor)
      BY <1>5, <3>2 DEF SettledInv
    <3> QED BY <1>3, <1>4, <1>6, <1>7, <1>16, <3>1, <3>3
  <2> QED BY <1>2, <2>2, <2>3 DEF SettledInv
<1>20. BufferInv'
  BY <1>2, <1>19 DEF BufferInv
<1> QED BY <1>11, <1>12, <1>13, <1>14, <1>20 DEF IInv

-----------------------------------------------------------------------------
(* The reads. *)

LEMMA ReadSize ==
  ASSUME NEW room \in Nat, NEW n \in ReadSizes(room), IInv
  PROVE  /\ n \in Nat /\ n <= MaxRead /\ n <= room /\ MaxRead \in Nat /\ 0 < MaxRead
         /\ received + n \in Nat /\ received + n <= sent
         /\ received + 1 \in Nat
  BY FrameReaderAssumption, ReceivedBelowSent DEF ReadSizes

(* A first read that leaves room. *)
LEMMA FillSettledIInv ==
  ASSUME WithinLimits, IInv, pc = "fill",
         NEW n \in ReadSizes(Room(buf)),
         buf.write_cursor + n < ChunkSize,
         UNCHANGED <<peerVars, header, adj, delivered>>,
         received' = received + n,
         buf' = ReadFirst(buf, n, received + 1),
         pc' = (IF n = 0 THEN "closed" ELSE AfterRead)
  PROVE  IInv'
<1>1. buf \in Buffer /\ SettledInv /\ 0 <= Unread /\ Unread \in Int /\ Pos \in Nat
  BY SettledFacts, PosFacts
<1>2. /\ buf.read_cursor \in Nat /\ buf.write_cursor \in Nat /\ buf.curr_frame \in Nat
      /\ buf.end = buf.write_cursor /\ 1 <= buf.write_cursor /\ ChunkSize \in Nat
      /\ buf.read_cursor + Unread = buf.write_cursor
      /\ buf.read_cursor = buf.curr_frame + Held
  BY <1>1, BufferFields, ChunkSizeAssumption DEF SettledInv
<1>3. Room(buf) \in Nat
  BY <1>1, <1>2 DEF Room, SettledInv
<1>4. n \in Nat /\ received \in Nat /\ received + n \in Nat /\ received + n <= sent
      /\ received + 1 \in Nat
  BY <1>3, ReadSize, ReceivedBelowSent
<1>5. /\ buf' \in Buffer
      /\ buf'.read_cursor = buf.read_cursor
      /\ buf'.write_cursor = buf.write_cursor + n
      /\ buf'.end = buf.write_cursor + n
      /\ buf'.curr_frame = buf.curr_frame
      /\ buf'.chunk = Stored(buf, n, received + 1)
  BY <1>1, <1>2, <1>4, ReadFirstFields
<1>6. UNCHANGED <<mode, wire, sent, eof, torn, header, adj, delivered>>
  BY DEF peerVars
<1>7. pc' \in {"closed", "header", "payload"}
      /\ (pc' = "header" => header = NoFrame) /\ (pc' = "payload" => header # NoFrame)
  BY DEF AfterRead
<1>8. TypeOK' /\ NeverBreaks'
  BY <1>4, <1>5, <1>6, <1>7 DEF IInv, TypeOK, NeverBreaks, Locations, Stopped
<1>9. WireInv'
  BY <1>4, <1>6, WireKept
<1>10. DeliveredInv' /\ HeaderInv' /\ Pos' = Pos /\ Held' = Held
  BY <1>6, <1>7 DEF IInv, DeliveredInv, HeaderInv, Count, Pos, Held, EndOf
<1>11. Unread' = Unread + n
  BY <1>1, <1>4, <1>10 DEF Unread
<1>12. SettledInv'
  <2>1. /\ 1 <= buf'.write_cursor /\ buf'.write_cursor < ChunkSize
        /\ buf'.end = buf'.write_cursor
        /\ buf'.read_cursor <= buf'.write_cursor
        /\ buf'.write_cursor = buf'.read_cursor + Unread'
        /\ buf'.read_cursor = buf'.curr_frame + Held'
    BY <1>1, <1>2, <1>4, <1>5, <1>10, <1>11
  <2>2. ASSUME NEW i \in Cells, buf'.read_cursor <= i, i < buf'.write_cursor
        PROVE  buf'.chunk[i] = Pos' + (i - buf'.read_cursor)
    <3>1. i \in Int
      BY <1>2 DEF Cells
    <3>2. CASE i < buf.write_cursor
      <4>1. buf'.chunk[i] = buf.chunk[i]
        BY <1>2, <1>4, <1>5, <3>1, <3>2, StoredCell
      <4>2. buf.chunk[i] = Pos + (i - buf.read_cursor)
        BY <1>1, <1>5, <2>2, <3>2 DEF SettledInv
      <4> QED BY <1>5, <1>10, <4>1, <4>2
    <3>3. CASE ~(i < buf.write_cursor)
      <4>1. buf'.chunk[i] = received + 1 + (i - buf.write_cursor)
        BY <1>2, <1>4, <1>5, <2>2, <3>1, <3>3, StoredCell
      <4>2. Unread = received + 1 - Pos
        BY DEF Unread
      <4> QED BY <1>1, <1>2, <1>4, <1>5, <1>10, <3>1, <4>1, <4>2
    <3> QED BY <3>2, <3>3
  <2> QED BY <1>7, <2>1, <2>2 DEF SettledInv
<1>13. pc' = "closed" => Short'
  <2> SUFFICES ASSUME pc' = "closed" PROVE Short'
    OBVIOUS
  <2>1. n = 0
    BY DEF AfterRead
  <2>2. Unread' = Unread /\ header' = header /\ Short
    BY <1>1, <1>6, <1>11, <2>1 DEF SettledInv
  <2> QED BY <2>2 DEF Short
<1>14. BufferInv'
  BY <1>7, <1>12, <1>13 DEF BufferInv
<1> QED BY <1>8, <1>9, <1>10, <1>14 DEF IInv

(* A first read that fills the buffer.  What is unread is short of a       *)
(* header, or of the payload, by then: the read cursor is close to the     *)
(* end, and curr_frame no further from it than a payload.                  *)
LEMMA FillWrapIInv ==
  ASSUME WithinLimits, IInv, pc = "fill",
         NEW n \in ReadSizes(Room(buf)),
         buf.write_cursor + n = ChunkSize,
         UNCHANGED <<peerVars, header, adj, delivered>>,
         received' = received + n,
         buf' = MigrateTail(ReadFirst(buf, n, received + 1)),
         pc' = "again"
  PROVE  IInv'
<1>1. /\ buf \in Buffer /\ SettledInv /\ 0 <= Unread /\ Unread \in Int /\ Pos \in Nat
      /\ Short /\ Held \in Nat
  BY SettledFacts, PosFacts, HeldFacts DEF SettledInv
<1>2. /\ buf.read_cursor \in Nat /\ buf.write_cursor \in Nat /\ buf.curr_frame \in Nat
      /\ ChunkSize \in Nat /\ buf.write_cursor < ChunkSize
      /\ buf.read_cursor + Unread = buf.write_cursor
      /\ buf.read_cursor = buf.curr_frame + Held
  BY <1>1, BufferFields, ChunkSizeAssumption DEF SettledInv
<1>3. Room(buf) \in Nat
  BY <1>2 DEF Room
<1>4. /\ n \in Nat /\ received \in Nat /\ received + n \in Nat /\ received + n <= sent
      /\ received + 1 \in Nat /\ n <= MaxRead /\ MaxRead \in Nat /\ 0 < MaxRead
  BY <1>3, ReadSize, ReceivedBelowSent
<1>5. 0 < n /\ buf.curr_frame <= ChunkSize
  BY <1>1, <1>2, <1>4
<1>6. /\ buf' \in Buffer
      /\ buf'.read_cursor = buf.read_cursor
      /\ buf'.write_cursor = ChunkSize - buf.curr_frame
      /\ buf'.end = buf.curr_frame
      /\ buf'.curr_frame = buf.curr_frame
      /\ buf'.chunk = CopyWithin(Stored(buf, n, received + 1), buf.curr_frame, ChunkSize, 0)
  BY <1>1, <1>4, <1>5, MigratedFields
<1>7. UNCHANGED <<mode, wire, sent, eof, torn, header, adj, delivered>>
  BY DEF peerVars
<1>8. TypeOK' /\ NeverBreaks'
  BY <1>4, <1>6, <1>7 DEF IInv, TypeOK, NeverBreaks, Locations
<1>9. WireInv'
  BY <1>4, <1>7, WireKept
<1>10. DeliveredInv' /\ HeaderInv' /\ Pos' = Pos /\ Held' = Held
  BY <1>7 DEF IInv, DeliveredInv, HeaderInv, Count, Pos, Held, EndOf
<1>11. Unread' = Unread + n
  BY <1>1, <1>4, <1>10 DEF Unread
<1>12. IF header = NoFrame THEN Unread' < MaxRead + 4 ELSE Unread' < MaxRead + header.len
  <2>1. CASE header = NoFrame
    BY <1>1, <1>4, <1>11, <2>1 DEF Short
  <2>2. CASE header # NoFrame
    <3>1. header.len \in Nat
      BY <2>2, PosFacts, FrameFields
    <3> QED BY <1>1, <1>4, <1>11, <2>2, <3>1 DEF Short
  <2> QED BY <2>1, <2>2
<1>13. 1 <= buf.curr_frame
  <2>1. CASE header = NoFrame
    <3>1. 3 * MaxRead + Held + 6 <= ChunkSize
      BY <2>1, HeldFacts DEF Fits
    <3> QED BY <1>1, <1>2, <1>4, <1>11, <1>12, <2>1, <3>1
  <2>2. CASE header # NoFrame
    <3>1. header.len \in Nat /\ 3 * MaxRead + header.len + 6 <= ChunkSize
      BY <2>2, PosFacts, FrameFields DEF PlainFrame, Fits
    <3>2. Held = 0
      BY <2>2 DEF Held
    <3> QED BY <1>1, <1>2, <1>4, <1>11, <1>12, <2>2, <3>1, <3>2
  <2> QED BY <2>1, <2>2
<1>14. ASSUME NEW i \in Cells, Held <= i, i < ChunkSize - buf.curr_frame
       PROVE  buf'.chunk[i] = Pos + (i - Held)
  <2> DEFINE k == buf.curr_frame + (i - 0)
  <2>1. i \in Int /\ 0 <= i
    BY <1>2 DEF Cells
  <2>2. k \in Cells /\ k \in Int /\ buf.read_cursor <= k /\ k < ChunkSize
        /\ k - buf.read_cursor = i - Held
    BY <1>1, <1>2, <1>14, <2>1 DEF Cells
  <2>3. buf'.chunk[i] = Stored(buf, n, received + 1)[k]
    BY <1>2, <1>6, <1>14, <2>1, CopyWithinCell
  <2> HIDE DEF k
  <2>4. CASE k < buf.write_cursor
    <3>1. Stored(buf, n, received + 1)[k] = buf.chunk[k]
      BY <1>2, <1>4, <2>2, <2>4, StoredCell
    <3>2. buf.chunk[k] = Pos + (k - buf.read_cursor)
      BY <1>1, <2>2, <2>4 DEF SettledInv
    <3> QED BY <2>2, <2>3, <3>1, <3>2
  <2>5. CASE ~(k < buf.write_cursor)
    <3>1. Stored(buf, n, received + 1)[k] = received + 1 + (k - buf.write_cursor)
      BY <1>2, <1>4, <2>2, <2>5, StoredCell
    <3>2. Unread = received + 1 - Pos
      BY DEF Unread
    <3> QED BY <1>1, <1>2, <1>4, <2>1, <2>2, <2>3, <3>1, <3>2
  <2> QED BY <2>4, <2>5
<1>15. MovedInv'
  <2>1. buf'.read_cursor + Unread' = ChunkSize /\ 0 < Unread'
    BY <1>1, <1>2, <1>4, <1>5, <1>6, <1>11
  <2> QED BY <1>2, <1>6, <1>7, <1>10, <1>12, <1>13, <1>14, <2>1 DEF MovedInv
<1>16. BufferInv'
  BY <1>15 DEF BufferInv
<1> QED BY <1>8, <1>9, <1>10, <1>16 DEF IInv

LEMMA FillIInv ==
  ASSUME WithinLimits, IInv, Fill
  PROVE  IInv'
<1>1. PICK n \in ReadSizes(Room(buf)) :
        LET b == ReadFirst(buf, n, received + 1)
        IN  /\ received' = received + n
            /\ IF Wrapped(b)
               THEN buf' = MigrateTail(b) /\ pc' = IF n = 0 THEN "empty" ELSE "again"
               ELSE buf' = b /\ pc' = IF n = 0 THEN "closed" ELSE AfterRead
  BY DEF Fill
<1>2. pc = "fill" /\ UNCHANGED <<peerVars, header, adj, delivered>>
  BY DEF Fill
<1>3. /\ buf \in Buffer /\ buf.write_cursor \in Nat /\ 1 <= buf.write_cursor
      /\ buf.end = buf.write_cursor /\ buf.write_cursor < ChunkSize /\ ChunkSize \in Nat
      /\ buf.curr_frame \in Nat /\ buf.curr_frame <= ChunkSize
  BY <1>2, SettledFacts, BufferFields, HeldFacts, ChunkSizeAssumption DEF SettledInv
<1>4. n \in Nat /\ received + 1 \in Nat /\ buf.write_cursor + n <= ChunkSize
  <2>1. Room(buf) \in Nat
    BY <1>3 DEF Room
  <2> QED BY <1>3, <2>1, ReadSize DEF Room
<1>5. CASE buf.write_cursor + n < ChunkSize
  <2>1. ReadFirst(buf, n, received + 1).write_cursor = buf.write_cursor + n
    BY <1>3, <1>4, <1>5, ReadFirstFields
  <2>2. ~Wrapped(ReadFirst(buf, n, received + 1))
    BY <1>3, <1>4, <2>1 DEF Wrapped
  <2> QED BY <1>1, <1>2, <1>5, <2>2, FillSettledIInv
<1>6. CASE ~(buf.write_cursor + n < ChunkSize)
  <2>1. buf.write_cursor + n = ChunkSize
    BY <1>3, <1>4, <1>6
  <2>2. Wrapped(ReadFirst(buf, n, received + 1))
    BY <1>3, <1>4, <2>1, MigratedFields
  <2>3. n # 0
    BY <1>3, <1>4, <2>1
  <2> QED BY <1>1, <1>2, <2>1, <2>2, <2>3, FillWrapIInv
<1> QED BY <1>5, <1>6

(* The second read.  The migrated bytes and one more read leave room, and  *)
(* the write cursor does not overtake a read cursor that has not moved     *)
(* yet, except where the two start from the same place.                    *)
LEMMA FillAgainIInv ==
  ASSUME WithinLimits, IInv, FillAgain
  PROVE  IInv'
<1>1. pc = "again" /\ MovedInv /\ buf \in Buffer
      /\ UNCHANGED <<mode, wire, sent, eof, torn, header, adj, delivered>>
  BY DEF FillAgain, peerVars, IInv, BufferInv, TypeOK
<1>2. PICK n \in ReadSizes(Room(buf)) :
        /\ received' = received + n
        /\ IF ReadAgainPanics(buf, n)
           THEN UNCHANGED buf /\ pc' = "panicked"
           ELSE /\ buf' = ReadAgain(buf, n, received + 1)
                /\ pc' = IF pc = "empty" /\ n = 0 THEN "closed" ELSE AfterRead
  BY DEF FillAgain
<1>3. Pos \in Nat /\ Unread \in Int /\ Held \in Nat
  BY PosFacts, HeldFacts
<1>4. /\ buf.read_cursor \in Nat /\ buf.write_cursor \in Nat /\ buf.curr_frame \in Nat
      /\ ChunkSize \in Nat
      /\ 1 <= buf.curr_frame /\ buf.end = buf.curr_frame
      /\ buf.write_cursor = ChunkSize - buf.curr_frame
      /\ buf.read_cursor = buf.curr_frame + Held
      /\ buf.read_cursor + Unread = ChunkSize /\ 0 < Unread
  BY <1>1, BufferFields, ChunkSizeAssumption DEF MovedInv
<1>5. Room(buf) \in Nat
  BY <1>4 DEF Room
<1>6. /\ n \in Nat /\ received \in Nat /\ received + n \in Nat /\ received + n <= sent
      /\ received + 1 \in Nat /\ n <= MaxRead /\ MaxRead \in Nat
  BY <1>5, ReadSize, ReceivedBelowSent
<1>7. /\ buf.write_cursor + n < ChunkSize
      /\ buf.write_cursor + n <= buf.read_cursor \/ buf.read_cursor = buf.curr_frame
  <2>1. CASE header = NoFrame
    <3>1. 3 * MaxRead + Held + 6 <= ChunkSize /\ Unread < MaxRead + 4
      BY <1>1, <2>1, HeldFacts DEF Fits, MovedInv
    <3> QED BY <1>3, <1>4, <1>6, <3>1
  <2>2. CASE header # NoFrame
    <3>1. /\ header.len \in Nat /\ 3 * MaxRead + header.len + 6 <= ChunkSize
          /\ Unread < MaxRead + header.len /\ Held = 0
      BY <1>1, <2>2, PosFacts, FrameFields DEF PlainFrame, Fits, MovedInv, Held
    <3> QED BY <1>3, <1>4, <1>6, <3>1
  <2> QED BY <2>1, <2>2
<1>8. ~ReadAgainPanics(buf, n)
  <2>1. Advanced(buf, n) = buf.write_cursor + n
    BY <1>4, <1>6, <1>7, ModBelow DEF Advanced
  <2>2. 0 < buf.write_cursor
    BY <1>3, <1>4
  <2> QED BY <1>4, <1>6, <2>1, <2>2 DEF ReadAgainPanics
<1>9. buf' = ReadAgain(buf, n, received + 1) /\ pc' = AfterRead /\ received' = received + n
  BY <1>1, <1>2, <1>8
<1>10. buf.curr_frame <= buf.read_cursor
  BY <1>3, <1>4
<1>11. /\ buf' \in Buffer
       /\ buf'.read_cursor = buf.read_cursor - buf.curr_frame
       /\ buf'.write_cursor = buf.write_cursor + n
       /\ buf'.end = buf.write_cursor + n
       /\ buf'.curr_frame = 0
       /\ buf'.chunk = Stored(buf, n, received + 1)
  BY <1>1, <1>4, <1>6, <1>7, <1>9, <1>10, ReadAgainFields
<1>12. pc' \in {"header", "payload"}
       /\ (pc' = "header" => header = NoFrame) /\ (pc' = "payload" => header # NoFrame)
  BY <1>9 DEF AfterRead
<1>13. TypeOK' /\ NeverBreaks'
  BY <1>1, <1>6, <1>9, <1>11, <1>12 DEF IInv, TypeOK, NeverBreaks, Locations
<1>14. WireInv'
  BY <1>1, <1>6, <1>9, WireKept DEF peerVars
<1>15. DeliveredInv' /\ HeaderInv' /\ Pos' = Pos /\ Held' = Held
  BY <1>1, <1>12 DEF IInv, DeliveredInv, HeaderInv, Count, Pos, Held, EndOf
<1>16. Unread' = Unread + n
  BY <1>3, <1>6, <1>9, <1>15 DEF Unread
<1>17. SettledInv'
  <2>1. /\ 1 <= buf'.write_cursor /\ buf'.write_cursor < ChunkSize
        /\ buf'.end = buf'.write_cursor
        /\ buf'.read_cursor <= buf'.write_cursor
        /\ buf'.write_cursor = buf'.read_cursor + Unread'
        /\ buf'.read_cursor = buf'.curr_frame + Held'
    <3>1. buf.write_cursor = Held + Unread /\ buf.read_cursor - buf.curr_frame = Held
      BY <1>3, <1>4
    <3> QED BY <1>3, <1>4, <1>6, <1>7, <1>11, <1>15, <1>16, <3>1
  <2>2. ASSUME NEW i \in Cells, buf'.read_cursor <= i, i < buf'.write_cursor
        PROVE  buf'.chunk[i] = Pos' + (i - buf'.read_cursor)
    <3>1. i \in Int /\ buf'.read_cursor = Held
      BY <1>3, <1>4, <1>11 DEF Cells
    <3>2. CASE i < buf.write_cursor
      <4>1. buf'.chunk[i] = buf.chunk[i]
        BY <1>4, <1>6, <1>11, <3>1, <3>2, StoredCell
      <4>2. buf.chunk[i] = Pos + (i - Held)
        BY <1>1, <2>2, <3>1, <3>2 DEF MovedInv
      <4> QED BY <1>15, <3>1, <4>1, <4>2
    <3>3. CASE ~(i < buf.write_cursor)
      <4>1. buf'.chunk[i] = received + 1 + (i - buf.write_cursor)
        BY <1>4, <1>6, <1>11, <2>2, <3>1, <3>3, StoredCell
      <4>2. Unread = received + 1 - Pos /\ buf.write_cursor = Held + Unread
        BY <1>3, <1>4 DEF Unread
      <4> QED BY <1>3, <1>4, <1>6, <1>15, <3>1, <4>1, <4>2
    <3> QED BY <3>2, <3>3
  <2> QED BY <1>12, <2>1, <2>2 DEF SettledInv
<1>18. BufferInv'
  BY <1>12, <1>17 DEF BufferInv
<1> QED BY <1>13, <1>14, <1>15, <1>18 DEF IInv

-----------------------------------------------------------------------------
(* The steps that the limits rule out. *)

LEMMA NoSuchStep ==
  ASSUME WithinLimits, IInv
  PROVE  ~ (PanicInHeader \/ ReadGarbage \/ AwaitMask \/ RefuseOpcode
              \/ PanicInPayload \/ WouldBlock)
<1>1. ASSUME pc = "header"
      PROVE  /\ Skipped = buf
             /\ ~SkipPanics
             /\ LongEnough => ~ParsePanics /\ FramesAt(buf) # {}
             /\ LongEnough => \A k \in FramesAt(buf) :
                   ~MaskIncomplete(wire[k]) /\ wire[k].kind = "start"
  BY <1>1, SettledFacts, HeaderReadable DEF PlainFrame
<1>2. ~PanicInHeader
  <2>1. ASSUME pc = "header", ParsePanics PROVE LongEnough
    BY <1>1, <2>1 DEF ParsePanics
  <2> QED BY <1>1, <2>1 DEF PanicInHeader
<1>3. ~ReadGarbage /\ ~AwaitMask /\ ~RefuseOpcode
  BY <1>1 DEF ReadGarbage, AwaitMask, RefuseOpcode
<1>4. ~PanicInPayload
  <2> SUFFICES ASSUME PanicInPayload PROVE FALSE
    OBVIOUS
  <2>1. pc = "payload" /\ header # NoFrame /\ HasPayload /\ TakeRefPanics(buf, header.len)
    BY DEF PanicInPayload, IInv, HeaderInv
  <2>2. header.len \in Nat
    BY <2>1, PosFacts, FrameFields
  <2>3. header.len <= Unread /\ Unread \in Int /\ SettledInv /\ buf \in Buffer
    BY <2>1, SettledFacts, PosFacts DEF HasPayload
  <2> QED BY <2>1, <2>2, <2>3, BufferFields DEF SettledInv, TakeRefPanics
<1>5. ~WouldBlock
  BY DEF WouldBlock, WithinLimits, IInv, TypeOK
<1> QED BY <1>2, <1>3, <1>4, <1>5

LEMMA StutterIInv ==
  ASSUME IInv, UNCHANGED vars
  PROVE  IInv'
<1>1. /\ mode' = mode /\ wire' = wire /\ sent' = sent /\ eof' = eof
      /\ received' = received /\ buf' = buf /\ header' = header
      /\ adj' = adj /\ pc' = pc
      /\ delivered' = delivered /\ torn' = torn
  BY DEF vars
<1>2. TypeOK' /\ NeverBreaks'
  BY <1>1 DEF IInv, TypeOK, NeverBreaks
<1>3. WireInv'
  BY <1>1, WireKept, ReceivedBelowSent DEF peerVars
<1>4. DeliveredInv' /\ HeaderInv' /\ Pos' = Pos /\ Held' = Held
  BY <1>1 DEF IInv, DeliveredInv, HeaderInv, Count, Pos, Held, EndOf
<1>5. BufferInv'
  BY <1>1, <1>4 DEF IInv, BufferInv, SettledInv, MovedInv, Unread, Short
<1> QED BY <1>2, <1>3, <1>4, <1>5 DEF IInv

LEMMA NextIInv ==
  ASSUME WithinLimits, IInv, [Next]_vars
  PROVE  IInv'
<1>1. CASE Peer
  BY <1>1, PeerSendIInv, PeerCloseIInv DEF Peer
<1>2. CASE Reader
  <2>1. ReadFrame \/ AwaitHeader \/ ParseHeader \/ RefuseTooLong
          \/ TakePayload \/ AwaitPayload \/ Fill \/ FillAgain
    BY <1>2, NoSuchStep DEF Reader
  <2> QED BY <2>1, ReadFrameIInv, AwaitHeaderIInv, ParseHeaderIInv, RefuseTooLongIInv,
             TakePayloadIInv, AwaitPayloadIInv, FillIInv, FillAgainIInv
<1>3. CASE UNCHANGED vars
  BY <1>3, StutterIInv
<1> QED BY <1>1, <1>2, <1>3 DEF Next

-----------------------------------------------------------------------------
(* The k-th frame ends where the next begins. *)
LEMMA EndsGrow ==
  ASSUME IInv, NEW k \in DOMAIN wire, Count < k
  PROVE  /\ EndOf(Count) + Size(wire[k]) <= LastByte(wire[k])
         /\ header # NoFrame => LastByte(header) <= LastByte(wire[k])
<1>1. /\ wire[k] \in Frame /\ PlainFrame(wire[k]) /\ wire[k].at = EndOf(k - 1) + 1
      /\ k \in Nat /\ 1 <= k /\ k <= Len(wire)
  BY WireFrame
<1>2. Count \in Nat /\ Len(wire) \in Nat /\ Count <= Len(wire)
  BY CountFacts
<1>3. Size(wire[k]) \in Nat /\ wire[k].at \in Nat /\ LastByte(wire[k]) = wire[k].at + Size(wire[k]) - 1
  BY <1>1, PlainSizes, FrameFields DEF LastByte
<1>4. Count + 1 \in DOMAIN wire /\ wire \in Seq(Frame)
  BY <1>1, <1>2 DEF IInv, TypeOK
<1> DEFINE next == wire[Count + 1]
<1>5. next \in Frame /\ PlainFrame(next) /\ next.at = EndOf(Count) + 1 /\ EndOf(Count) \in Nat
  BY <1>2, <1>4, WireFrame, EndOfNat
<1>6. next.at \in Nat /\ LastByte(next) \in Nat /\ next.at <= LastByte(next)
  BY <1>5, PlainSizes, FrameFields
<1>7. CASE k = Count + 1
  <2>1. header # NoFrame => header = next
    BY DEF IInv, HeaderInv
  <2> QED BY <1>3, <1>5, <1>6, <1>7, <2>1
(* A later frame begins behind the one that follows the next. *)
<1>8. CASE k # Count + 1
  <2>1. Count + 2 \in DOMAIN wire /\ Count + 2 \in Nat /\ (k = Count + 2 \/ Count + 2 < k)
    BY <1>1, <1>2, <1>4, <1>8
  <2> DEFINE after == wire[Count + 2]
  <2>2. after \in Frame /\ after.at = EndOf(Count + 1) + 1 /\ EndOf(Count + 1) = LastByte(next)
    <3>1. after.at = EndOf((Count + 2) - 1) + 1 /\ (Count + 2) - 1 = Count + 1
      BY <1>2, <2>1, WireFrame
    <3> QED BY <1>4, <2>1, <3>1, WireFrame
  <2>3. after.at \in Nat /\ after.at <= wire[k].at
    <3>1. k = Count + 2 \/ after.at < wire[k].at
      BY <2>1 DEF IInv, WireInv
    <3> QED BY <1>3, <2>2, <3>1, FrameFields
  <2>4. header # NoFrame => header = next
    BY DEF IInv, HeaderInv
  <2> QED BY <1>3, <1>5, <1>6, <2>2, <2>3, <2>4
<1> QED BY <1>7, <1>8

-----------------------------------------------------------------------------
(* The theorems. *)

(* Within the limits the invariant holds throughout: the unread bytes lie  *)
(* between the cursors, in the order the peer sent them.                   *)
THEOREM Invariance == WithinLimits => (Spec => []IInv)
<1> SUFFICES ASSUME WithinLimits PROVE Spec => []IInv
  OBVIOUS
<1>1. Init => IInv
  BY InitIInv
<1>2. IInv /\ [Next]_vars => IInv'
  BY NextIInv
<1> QED BY <1>1, <1>2, PTL DEF Spec

(* The variables keep their types, and the cursors stay in the ring, in    *)
(* order and at the distance of the unread bytes: every slice the reader   *)
(* takes is one of cells it has filled (take_ref, read_from).              *)
THEOREM TypeCorrect == WithinLimits => (Spec => [](TypeOK /\ CursorsInRing))
<1> SUFFICES ASSUME WithinLimits PROVE Spec => [](TypeOK /\ CursorsInRing)
  OBVIOUS
<1>1. IInv => TypeOK
  BY DEF IInv
<1>2. IInv => CursorsInRing
  <2> SUFFICES ASSUME IInv, pc \in {"idle", "header", "payload", "fill", "again"}
               PROVE  CursorsInRing
    BY DEF CursorsInRing
  <2>1. /\ buf.read_cursor \in Nat /\ buf.write_cursor \in Nat
        /\ buf.end \in Nat /\ buf.curr_frame \in Nat
    BY BufferFields DEF IInv, TypeOK
  <2>2. Held \in Nat /\ Unread \in Int /\ ChunkSize \in Nat
    BY HeldFacts, PosFacts, ChunkSizeAssumption
  <2>3. CASE pc = "again"
    <3>1. MovedInv
      BY <2>3 DEF IInv, BufferInv
    <3>2. /\ 1 <= buf.curr_frame /\ buf.curr_frame <= buf.read_cursor
          /\ buf.read_cursor < ChunkSize
          /\ buf.write_cursor = ChunkSize - buf.curr_frame
          /\ buf.end = buf.curr_frame /\ buf.read_cursor + Unread = ChunkSize
      BY <2>1, <2>2, <3>1 DEF MovedInv
    <3> QED BY <2>1, <2>2, <2>3, <3>2 DEF CursorsInRing, Cells
  <2>4. CASE pc # "again"
    <3>1. SettledInv
      BY <2>4 DEF IInv, BufferInv
    <3>2. /\ buf.curr_frame <= buf.read_cursor /\ buf.read_cursor <= buf.write_cursor
          /\ buf.write_cursor < ChunkSize
          /\ buf.end = buf.write_cursor /\ buf.write_cursor = buf.read_cursor + Unread
      BY <2>1, <2>2, <3>1 DEF SettledInv
    <3> QED BY <2>1, <2>2, <2>4, <3>2 DEF CursorsInRing, Cells
  <2> QED BY <2>3, <2>4
<1> QED BY <1>1, <1>2, Invariance, PTL

(* Every payload handed to the caller is the one the peer sent, in order,  *)
(* byte for byte, however the network cuts the stream and wherever the     *)
(* buffer wraps.                                                           *)
THEOREM Integrity == WithinLimits => (Spec => []DeliveredIntact)
<1>1. IInv => DeliveredIntact
  BY SMTT(40) DEF IInv, TypeOK, DeliveredInv, DeliveredIntact, Count
<1> QED BY <1>1, Invariance, PTL

(* When the reader waits in the first read or reports the end of the       *)
(* stream, every frame that had been read whole was handed over first, but *)
(* for a last one of 3 bytes: for every size, read and cut, only the       *)
(* second read of a wrap keeps a longer frame back.                        *)
THEOREM NothingLeftBehind == WithinLimits => (Spec => []DrainedBeforeWaiting)
<1>1. IInv => DrainedBeforeWaiting
  <2> SUFFICES ASSUME IInv, pc \in {"fill", "closed"}, NEW k \in DOMAIN wire,
                      k > Len(delivered), LastByte(wire[k]) <= received
               PROVE  Size(wire[k]) < 4 /\ LastByte(wire[k]) = received
    BY DEF DrainedBeforeWaiting
  <2>1. Count < k
    BY CountFacts, WireFrame DEF Count
  <2>2. Short
    BY DEF IInv, BufferInv, SettledInv
  <2>3. /\ wire[k] \in Frame /\ PlainFrame(wire[k]) /\ received \in Nat /\ Pos \in Nat
        /\ Size(wire[k]) \in Nat /\ LastByte(wire[k]) \in Nat
    BY WireFrame, PlainSizes, PosFacts
  <2>4. CASE header = NoFrame
    <3>1. received + 1 - Pos < 4 /\ Pos = EndOf(Count) + 1 /\ EndOf(Count) \in Nat
      BY <2>2, <2>4, CountFacts, EndOfNat DEF Short, Unread, Pos
    <3>2. EndOf(Count) + Size(wire[k]) <= LastByte(wire[k])
      BY <2>1, EndsGrow
    <3>3. Size(wire[k]) >= 3
      <4>1. wire[k].ext \in {0, 2} /\ wire[k].len > 0 /\ wire[k].len \in Nat
        BY <2>3, FrameFields DEF PlainFrame
      <4>2. Size(wire[k]) = 2 + wire[k].ext + wire[k].len
        BY <2>3, PlainSizes
      <4> QED BY <4>1, <4>2
    <3> QED BY <2>3, <3>1, <3>2, <3>3
  <2>5. CASE header # NoFrame
    <3>1. received + 1 - Pos < header.len /\ Pos = header.at + HeaderLen(header)
      BY <2>2, <2>5 DEF Short, Unread, Pos
    <3>2. header \in Frame /\ PlainFrame(header) /\ Pos + header.len = LastByte(header) + 1
      BY <2>5, PosFacts
    <3>3. LastByte(header) = Pos + header.len - 1 /\ header.len \in Nat
      <4>1. LastByte(header) \in Nat /\ header.len \in Nat
        BY <3>2, PlainSizes, FrameFields
      <4> QED BY <2>3, <3>2, <4>1
    <3>4. LastByte(header) <= LastByte(wire[k])
      BY <2>1, <2>5, EndsGrow
    <3> QED BY <2>3, <3>1, <3>3, <3>4, SMTT(40)
  <2> QED BY <2>4, <2>5
<1> QED BY <1>1, Invariance, PTL

(* The reader neither panics nor loses its place in the stream. *)
THEOREM Safety == WithinLimits => (Spec => []NeverBreaks)
<1>1. IInv => NeverBreaks
  BY DEF IInv
<1> QED BY <1>1, Invariance, PTL

-----------------------------------------------------------------------------
(* The refinement.  A frame sent is a Send, a payload taken is a Deliver,  *)
(* every other step leaves both sequences alone.                           *)

LEMMA StreamInit ==
  ASSUME Init
  PROVE  Stream!Init
  BY DEF Init, Stream!Init

LEMMA StreamSend ==
  ASSUME WithinLimits, IInv, PeerSend
  PROVE  Stream!Send
<1>1. PICK s \in Shapes :
        wire' = Append(wire, [kind |-> s.kind, ext |-> s.ext, mask |-> s.mask,
                              len |-> s.len, at |-> sent + 1])
  BY DEF PeerSend
<1> DEFINE f == [kind |-> s.kind, ext |-> s.ext, mask |-> s.mask,
                 len |-> s.len, at |-> sent + 1]
<1>2. f \in Frame
  <2>1. s \in Shape /\ sent \in Nat
    BY FrameReaderAssumption DEF IInv, TypeOK
  <2> QED BY <2>1 DEF Frame, Shape
<1>3. wire' = Append(wire, f) /\ wire \in Seq(Frame)
  BY <1>1 DEF IInv, TypeOK
<1> HIDE DEF f
<1>4. Len(wire') = Len(wire) + 1 /\ wire'[Len(wire')] = f
  BY <1>2, <1>3
<1>5. delivered' = delivered
  BY DEF PeerSend
<1> QED BY <1>2, <1>3, <1>4, <1>5 DEF Stream!Send

LEMMA StreamDeliver ==
  ASSUME WithinLimits, IInv, TakePayload
  PROVE  Stream!Deliver
<1>1. IInv'
  BY TakePayloadIInv
<1>2. delivered' = Append(delivered, Taken(buf, header.len)) /\ wire' = wire
  BY DEF TakePayload, peerVars
<1>3. delivered \in Seq(Seq(Nat)) /\ delivered' \in Seq(Seq(Nat))
      /\ Len(delivered') <= Len(wire)
  BY <1>1, <1>2 DEF IInv, TypeOK, DeliveredInv, Count
<1>4. Len(delivered') = Len(delivered) + 1
      /\ delivered'[Len(delivered) + 1] = Taken(buf, header.len)
  BY <1>2, <1>3
<1>5. Len(delivered) < Len(wire)
  BY <1>3, <1>4, CountFacts
<1>6. delivered'[Len(delivered) + 1] = PayloadOf(wire[Len(delivered) + 1])
  <2>1. Len(delivered) + 1 \in 1 .. Len(delivered')
    BY <1>3, <1>4
  <2>2. \A k \in 1 .. Len(delivered') : delivered'[k] = PayloadOf(wire'[k])
    BY <1>1 DEF IInv, DeliveredInv, Count, PayloadOf, HeaderLen, MaskLen
  <2> QED BY <1>2, <2>1, <2>2
<1> QED BY <1>2, <1>4, <1>5, <1>6 DEF Stream!Deliver

LEMMA StreamNext ==
  ASSUME WithinLimits, IInv, [Next]_vars
  PROVE  [Stream!Next]_(Stream!svars)
<1>1. CASE PeerSend
  BY <1>1, StreamSend DEF Stream!Next
<1>2. CASE TakePayload
  BY <1>2, StreamDeliver DEF Stream!Next
<1>3. CASE PeerClose \/ ReadFrame \/ AwaitHeader \/ ParseHeader \/ RefuseTooLong
             \/ AwaitPayload \/ Fill \/ FillAgain \/ UNCHANGED vars
  <2>1. wire' = wire /\ delivered' = delivered
    BY <1>3 DEF PeerClose, ReadFrame, AwaitHeader, ParseHeader, RefuseTooLong,
                AwaitPayload, Fill, FillAgain, vars, peerVars
  <2> QED BY <2>1 DEF Stream!svars
<1> QED BY <1>1, <1>2, <1>3, NoSuchStep DEF Next, Peer, Reader

(* Within the limits the reader implements the stream of frames.           *)
THEOREM Refinement == WithinLimits => (Spec => StreamSpec)
<1> SUFFICES ASSUME WithinLimits PROVE Spec => StreamSpec
  OBVIOUS
<1>1. Init => Stream!Init
  BY StreamInit
<1>2. IInv /\ [Next]_vars => [Stream!Next]_(Stream!svars)
  BY StreamNext
<1> QED BY <1>1, <1>2, Invariance, PTL DEF Spec, StreamSpec, Stream!Spec

-----------------------------------------------------------------------------
(***************************************************************************)
(* Outside the limits: no continue frames, no wrap left half done.         *)
(***************************************************************************)

(* The cursors as numbers. *)
LEMMA RowFacts ==
  ASSUME TypeOK
  PROVE  /\ buf \in Buffer /\ buf.chunk \in Chunk
         /\ buf.read_cursor \in Nat /\ buf.write_cursor \in Nat
         /\ buf.end \in Nat /\ buf.curr_frame \in Nat
         /\ received \in Nat /\ sent \in Nat /\ ChunkSize \in Nat /\ 0 < ChunkSize
         /\ Count \in Nat /\ Len(wire) \in Nat /\ DOMAIN wire = 1 .. Len(wire)
         /\ Cells = 0 .. ChunkSize - 1
  BY BufferFields, ChunkSizeAssumption DEF TypeOK, Count, Cells

LEMMA AnySizes ==
  ASSUME NEW f \in Frame
  PROVE  /\ HeaderLen(f) = 2 + f.ext + MaskLen(f)
         /\ MaskLen(f) = IF f.mask THEN 4 ELSE 0
         /\ MaskLen(f) \in {0, 4} /\ f.ext \in {0, 2, 8}
         /\ HeaderLen(f) \in Nat /\ f.at \in Nat /\ f.len \in Nat
         /\ Size(f) = HeaderLen(f) + f.len /\ Size(f) \in Nat
         /\ LastByte(f) = f.at + HeaderLen(f) + f.len - 1
         /\ LastByte(f) \in Nat /\ f.at < LastByte(f)
<1>1. f.ext \in {0, 2, 8} /\ f.at \in Nat /\ f.len \in Nat
  BY FrameFields
<1>2. MaskLen(f) = (IF f.mask THEN 4 ELSE 0) /\ MaskLen(f) \in {0, 4}
  BY DEF MaskLen
<1>3. HeaderLen(f) = 2 + f.ext + MaskLen(f)
  BY DEF HeaderLen
<1>4. HeaderLen(f) \in Nat /\ 2 <= HeaderLen(f)
  BY <1>1, <1>2, <1>3
<1>5. Size(f) = HeaderLen(f) + f.len
  BY DEF Size
<1>6. LastByte(f) = f.at + Size(f) - 1
  BY DEF LastByte
<1> QED BY <1>1, <1>2, <1>3, <1>4, <1>5, <1>6

LEMMA AnyFrame ==
  ASSUME TypeOK, NEW k \in DOMAIN wire
  PROVE  wire[k] \in Frame /\ k \in Nat /\ 1 <= k /\ k <= Len(wire)
         /\ EndOf(k) = LastByte(wire[k])
  BY DEF TypeOK, EndOf

LEMMA EndNat ==
  ASSUME TypeOK, NEW k \in 0 .. Len(wire)
  PROVE  EndOf(k) \in Nat
<1>1. CASE k = 0
  BY <1>1, FrameReaderAssumption DEF EndOf
<1>2. CASE k # 0
  <2>1. k \in DOMAIN wire
    BY <1>2 DEF TypeOK
  <2> QED BY <2>1, AnyFrame, AnySizes
<1> QED BY <1>1, <1>2

(* Nothing lies behind the last frame. *)
LEMMA EndOrder ==
  ASSUME TypeOK, ApartInv, NEW k \in DOMAIN wire, NEW n \in Nat, k <= n, n <= Len(wire)
  PROVE  LastByte(wire[k]) <= EndOf(n)
<1>1. n \in DOMAIN wire
  BY AnyFrame DEF TypeOK
<1>2. CASE k = n
  BY <1>1, <1>2, AnyFrame, AnySizes
<1>3. CASE k # n
  <2>1. LastByte(wire[k]) < wire[n].at
    BY <1>1, <1>3, AnyFrame DEF ApartInv
  <2> QED BY <1>1, <2>1, AnyFrame, AnySizes
<1> QED BY <1>2, <1>3

(* The frame that starts behind the first n is the next one. *)
LEMMA NextStarts ==
  ASSUME TypeOK, ApartInv, NEW n \in 0 .. Len(wire), NEW k \in DOMAIN wire,
         wire[k].at = EndOf(n) + 1
  PROVE  k = n + 1
<1>1. EndOf(n) \in Nat /\ wire[k].at \in Nat /\ wire[k].at < LastByte(wire[k])
      /\ LastByte(wire[k]) \in Nat /\ k \in Nat /\ k <= Len(wire)
  BY EndNat, AnyFrame, AnySizes
<1>2. ~(k <= n)
  BY <1>1, EndOrder
<1>3. ASSUME n + 1 < k PROVE FALSE
  <2>1. n + 1 \in DOMAIN wire
    BY <1>1, <1>3 DEF TypeOK
  <2>2. wire[n + 1].at = EndOf((n + 1) - 1) + 1 /\ LastByte(wire[n + 1]) < wire[k].at
    BY <1>3, <2>1 DEF ApartInv
  <2>3. (n + 1) - 1 = n
    OBVIOUS
  <2> QED BY <1>1, <2>1, <2>2, <2>3, AnyFrame, AnySizes, SMTT(40)
<1> QED BY <1>1, <1>2, <1>3

(* No frame starts inside another one. *)
LEMMA NoneInside ==
  ASSUME TypeOK, ApartInv, NEW p \in Int, InFrame(p), NEW k \in DOMAIN wire
  PROVE  wire[k].at # p
<1>1. PICK j \in DOMAIN wire : wire[j].at < p /\ p <= LastByte(wire[j])
  BY DEF InFrame
<1>2. /\ wire[k].at \in Nat /\ LastByte(wire[k]) \in Nat /\ wire[k].at < LastByte(wire[k])
      /\ wire[j].at \in Nat /\ LastByte(wire[j]) \in Nat /\ j \in Nat /\ k \in Nat
  BY AnyFrame, AnySizes
<1>3. CASE j < k
  BY <1>1, <1>2, <1>3 DEF ApartInv
<1>4. CASE k < j
  BY <1>1, <1>2, <1>4 DEF ApartInv
<1>5. CASE j = k
  BY <1>1, <1>2, <1>5
<1> QED BY <1>2, <1>3, <1>4, <1>5

-----------------------------------------------------------------------------
(* What a new frame does to those before it. *)
LEMMA WireGrows ==
  ASSUME TypeOK, NEW n \in Nat, n = Len(wire), NEW f \in Frame, wire' = Append(wire, f)
  PROVE  /\ wire' \in Seq(Frame) /\ Len(wire') = n + 1
         /\ DOMAIN wire' = 1 .. n + 1 /\ DOMAIN wire = 1 .. n
         /\ \A k \in DOMAIN wire : k \in DOMAIN wire' /\ wire'[k] = wire[k]
         /\ wire'[n + 1] = f
         /\ \A k \in 0 .. n : EndOf(k)' = EndOf(k)
         /\ EndOf(n + 1)' = LastByte(f)
<1>1. /\ wire' \in Seq(Frame) /\ Len(wire') = n + 1 /\ Len(wire) \in Nat
      /\ DOMAIN wire' = 1 .. n + 1 /\ DOMAIN wire = 1 .. n
      /\ \A k \in DOMAIN wire : k \in DOMAIN wire' /\ wire'[k] = wire[k]
      /\ wire'[n + 1] = f
  BY DEF TypeOK
<1>2. ASSUME NEW k \in 0 .. n PROVE EndOf(k)' = EndOf(k)
  <2>1. CASE k = 0
    BY <2>1 DEF EndOf
  <2>2. CASE k # 0
    <3>1. wire'[k] = wire[k]
      BY <1>1, <2>2
    <3> QED BY <2>2, <3>1 DEF EndOf, LastByte, Size, HeaderLen, MaskLen
  <2> QED BY <2>1, <2>2
<1>3. EndOf(n + 1)' = LastByte(f)
  <2>1. n + 1 # 0
    BY <1>1
  <2> QED BY <1>1, <2>1 DEF EndOf, LastByte, Size, HeaderLen, MaskLen
<1> QED BY <1>1, <1>2, <1>3

LEMMA PeerSendCalm ==
  ASSUME CalmInv, PeerSend
  PROVE  CalmInv'
<1>1. PICK s \in Shapes :
        LET f == [kind |-> s.kind, ext |-> s.ext, mask |-> s.mask,
                  len |-> s.len, at |-> sent + 1]
        IN  /\ wire' = Append(wire, f)
            /\ sent' = sent + Size(f)
  BY DEF PeerSend
<1> DEFINE f == [kind |-> s.kind, ext |-> s.ext, mask |-> s.mask,
                 len |-> s.len, at |-> sent + 1]
<1>0. PICK n \in Nat : n = Len(wire)
  BY DEF CalmInv, TypeOK
<1>2. /\ UNCHANGED <<mode, eof, torn, received, buf, header, adj, pc, delivered>>
      /\ eof = FALSE
  BY DEF PeerSend, CalmInv, TypeOK
<1>3. TypeOK /\ ApartInv /\ DeliveredInv /\ adj = 0 /\ ReadInv
  BY DEF CalmInv
<1>4. /\ sent \in Nat /\ received \in Nat /\ received <= sent /\ sent = EndOf(n)
      /\ n \in Nat /\ Count \in Nat /\ Count <= n
  BY <1>0, <1>2, <1>3, RowFacts DEF ApartInv, DeliveredInv
<1>5. f \in Frame /\ f.at = sent + 1
  <2>1. s \in Shape
    BY FrameReaderAssumption
  <2> QED BY <1>4, <2>1 DEF Frame, Shape
<1> HIDE DEF f
<1>6. wire' = Append(wire, f) /\ sent' = sent + Size(f)
  BY <1>1 DEF f
<1>7. /\ wire' \in Seq(Frame) /\ Len(wire') = n + 1
      /\ DOMAIN wire' = 1 .. n + 1 /\ DOMAIN wire = 1 .. n
      /\ \A k \in DOMAIN wire : k \in DOMAIN wire' /\ wire'[k] = wire[k]
      /\ wire'[n + 1] = f
      /\ \A k \in 0 .. n : EndOf(k)' = EndOf(k)
      /\ EndOf(n + 1)' = LastByte(f)
  BY <1>0, <1>3, <1>5, <1>6, WireGrows
<1>8. LastByte(f) = sent' /\ sent' \in Nat /\ sent <= sent' /\ LastByte(f) \in Nat
  <2>1. Size(f) \in Nat /\ LastByte(f) = f.at + Size(f) - 1
    BY <1>5, AnySizes DEF LastByte
  <2> QED BY <1>4, <1>5, <1>6, <2>1
<1>9. TypeOK'
  BY <1>2, <1>3, <1>7, <1>8 DEF TypeOK
<1>10. ApartInv'
  <2>1. ASSUME NEW k \in 1 .. n + 1 PROVE wire'[k].at = EndOf(k - 1)' + 1
    <3>1. CASE k = n + 1
      BY <1>4, <1>5, <1>7, <3>1
    <3>2. CASE k # n + 1
      <4>1. k \in DOMAIN wire /\ k - 1 \in 0 .. n
        BY <1>4, <1>7, <3>2
      <4> QED BY <1>3, <1>7, <4>1 DEF ApartInv
    <3> QED BY <3>1, <3>2
  <2>2. ASSUME NEW j \in 1 .. n + 1, NEW k \in 1 .. n + 1, j < k
        PROVE  LastByte(wire'[j]) < wire'[k].at
    <3>1. j \in DOMAIN wire /\ wire'[j] = wire[j] /\ j <= n
      BY <1>4, <1>7, <2>2
    <3>2. CASE k = n + 1
      <4>1. LastByte(wire[j]) <= EndOf(n)
        BY <1>0, <1>3, <1>4, <3>1, EndOrder
      <4>2. LastByte(wire[j]) \in Nat
        BY <1>3, <3>1, AnyFrame, AnySizes
      <4> QED BY <1>4, <1>5, <1>7, <3>1, <3>2, <4>1, <4>2
    <3>3. CASE k # n + 1
      <4>1. k \in DOMAIN wire /\ wire'[k] = wire[k]
        BY <1>4, <1>7, <3>3
      <4> QED BY <1>3, <2>2, <3>1, <4>1 DEF ApartInv
    <3> QED BY <3>2, <3>3
  <2>3. \A j \in DOMAIN wire' : LastByte(wire[j])' = LastByte(wire'[j])
    BY DEF LastByte, Size, HeaderLen, MaskLen
  <2>4. EndOf(Len(wire))' = sent'
    BY <1>7, <1>8
  <2>5. received' <= sent'
    BY <1>2, <1>4, <1>8
  <2> QED BY <1>7, <1>8, <2>1, <2>2, <2>3, <2>4, <2>5 DEF ApartInv
<1>11. Count' = Count /\ EndOf(Count)' = EndOf(Count)
  BY <1>2, <1>4, <1>7 DEF Count
<1>12. DeliveredInv'
  <2>1. ASSUME NEW k \in 1 .. Count PROVE delivered[k] = PayloadOf(wire'[k])
    <3>1. k \in DOMAIN wire
      BY <1>4, <1>7
    <3> QED BY <1>3, <1>7, <3>1 DEF DeliveredInv
  <2>2. \A k \in 1 .. Count : PayloadOf(wire[k])' = PayloadOf(wire'[k])
    BY DEF PayloadOf, HeaderLen, MaskLen
  <2> QED BY <1>2, <1>4, <1>7, <1>11, <2>1, <2>2 DEF DeliveredInv
<1>13. /\ Shift' = Shift /\ Ahead' = Ahead /\ Origin' = Origin
       /\ \A i : At(i)' = At(i)
  BY <1>2 DEF Shift, Ahead, Origin, At
<1>14. RowInv => RowInv'
  BY <1>2, <1>13 DEF RowInv
<1>15. PlaceInv => PlaceInv'
  <2>1. InFrame(Ahead) => InFrame(Ahead)'
    <3> SUFFICES ASSUME NEW k \in DOMAIN wire, wire[k].at < Ahead, Ahead <= LastByte(wire[k])
                 PROVE  InFrame(Ahead)'
      BY DEF InFrame
    <3>1. k \in DOMAIN wire' /\ wire'[k] = wire[k]
      BY <1>7
    <3>2. LastByte(wire[k])' = LastByte(wire[k])
      BY <3>1 DEF LastByte, Size, HeaderLen, MaskLen
    <3> QED BY <1>13, <3>1, <3>2 DEF InFrame
  <2>2. Count # 0 => Count \in DOMAIN wire
    BY <1>4, <1>7
  <2>3. \A k \in DOMAIN wire : /\ k \in DOMAIN wire' /\ wire'[k] = wire[k]
                               /\ HeaderLen(wire[k])' = HeaderLen(wire[k])
    BY <1>7 DEF HeaderLen, MaskLen
  <2>4. HeaderLen(header)' = HeaderLen(header)
    BY <1>2 DEF HeaderLen, MaskLen
  <2> SUFFICES ASSUME PlaceInv PROVE PlaceInv'
    OBVIOUS
  <2>5. ASSUME header # NoFrame
        PROVE  /\ Count + 1 \in DOMAIN wire' /\ header = wire'[Count + 1]
               /\ buf.read_cursor = buf.curr_frame /\ Ahead = header.at + HeaderLen(header)
    BY <2>3, <2>5 DEF PlaceInv
  <2>6. ASSUME header = NoFrame
        PROVE  /\ Ahead' = EndOf(Count)' + 1 \/ InFrame(Ahead)'
               /\ Count # 0 => /\ wire'[Count].len > 0
                               /\ Origin = wire'[Count].at + HeaderLen(wire[Count])'
               /\ Count = 0 => buf.curr_frame = 0
    BY <1>11, <1>13, <2>1, <2>2, <2>3, <2>6 DEF PlaceInv
  <2> QED BY <1>2, <1>11, <1>13, <2>4, <2>5, <2>6 DEF PlaceInv
<1>16. ReadInv'
  BY <1>2, <1>3, <1>14, <1>15 DEF ReadInv, AtWork
<1> QED BY <1>2, <1>3, <1>9, <1>10, <1>12, <1>16 DEF CalmInv

LEMMA PeerCloseCalm ==
  ASSUME CalmInv, PeerClose
  PROVE  CalmInv'
<1>1. UNCHANGED <<mode, wire, torn, received, buf, header, adj, pc, delivered>> /\ eof' = TRUE
  BY DEF PeerClose
<1>2. TypeOK /\ ApartInv /\ DeliveredInv /\ adj = 0 /\ ReadInv
  BY DEF CalmInv
<1>3. sent' \in Nat /\ received <= sent' /\ sent' <= sent /\ sent \in Nat
  BY <1>2, RowFacts DEF PeerClose
<1>4. TypeOK'
  BY <1>1, <1>2, <1>3 DEF TypeOK
<1>5. \A k : EndOf(k)' = EndOf(k)
  BY <1>1 DEF EndOf, LastByte, Size, HeaderLen, MaskLen
<1>6. EndOf(Len(wire))' = EndOf(Len(wire)) /\ EndOf(Len(wire)) \in Nat
  BY <1>1, <1>2, EndNat, RowFacts, SMTT(40) DEF EndOf, LastByte, Size, HeaderLen, MaskLen
<1>7. ApartInv'
  <2>1. \A k \in DOMAIN wire : LastByte(wire[k])' = LastByte(wire[k])
    BY <1>1 DEF LastByte, Size, HeaderLen, MaskLen
  <2>2. \A k \in DOMAIN wire : EndOf(k - 1)' = EndOf(k - 1)
    BY <1>1 DEF EndOf, LastByte, Size, HeaderLen, MaskLen
  <2>3. sent' <= EndOf(Len(wire))'
    BY <1>2, <1>3, <1>6 DEF ApartInv
  <2> QED BY <1>1, <1>2, <1>3, <2>1, <2>2, <2>3 DEF ApartInv
<1>8. DeliveredInv' /\ ReadInv'
  BY <1>1, <1>2, ZenonT(40) DEF DeliveredInv, ReadInv, AtWork, RowInv, PlaceInv, Count, Shift, At,
       Ahead, Origin, InFrame, EndOf, LastByte, Size, HeaderLen, MaskLen, PayloadOf
<1> QED BY <1>1, <1>2, <1>4, <1>7, <1>8 DEF CalmInv

-----------------------------------------------------------------------------
(* What every step of the reader leaves as it is. *)

LEMMA ReaderKeeps ==
  ASSUME TypeOK, ApartInv, UNCHANGED peerVars, received' <= sent
  PROVE  /\ ApartInv'
         /\ UNCHANGED <<mode, wire, sent, eof, torn>>
         /\ \A p : InFrame(p)' = InFrame(p)
<1>1. UNCHANGED <<mode, wire, sent, eof, torn>>
  BY DEF peerVars
<1>2. \A k \in DOMAIN wire : LastByte(wire[k])' = LastByte(wire[k])
  BY <1>1 DEF LastByte, Size, HeaderLen, MaskLen
<1>3. \A k \in DOMAIN wire : EndOf(k - 1)' = EndOf(k - 1)
  BY <1>1 DEF EndOf, LastByte, Size, HeaderLen, MaskLen
<1>4. EndOf(Len(wire))' = EndOf(Len(wire))
  BY <1>1 DEF EndOf, LastByte, Size, HeaderLen, MaskLen
<1>5. ApartInv'
  BY <1>1, <1>2, <1>3, <1>4 DEF ApartInv
<1>6. ASSUME NEW p PROVE InFrame(p)' = InFrame(p)
  BY <1>1, <1>2, Zenon DEF InFrame
<1> QED BY <1>1, <1>5, <1>6

LEMMA DeliveredKept ==
  ASSUME DeliveredInv, UNCHANGED <<wire, delivered>>
  PROVE  DeliveredInv' /\ Count' = Count /\ EndOf(Count)' = EndOf(Count)
  BY Zenon DEF DeliveredInv, Count, PayloadOf, EndOf, LastByte, Size, HeaderLen, MaskLen

LEMMA PlaceKept ==
  ASSUME PlaceInv, UNCHANGED <<wire, delivered, header>>,
         Ahead' = Ahead, Origin' = Origin,
         header # NoFrame => buf'.read_cursor = buf'.curr_frame,
         Count = 0 /\ header = NoFrame => buf'.curr_frame = buf.curr_frame,
         pc' = "header" => header = NoFrame,
         pc' = "payload" => header # NoFrame
  PROVE  PlaceInv'
<1>1. Count' = Count /\ EndOf(Count)' = EndOf(Count)
  BY DEF Count, EndOf, LastByte, Size, HeaderLen, MaskLen
<1>2. /\ HeaderLen(header)' = HeaderLen(header)
      /\ HeaderLen(wire[Count])' = HeaderLen(wire[Count])
  BY <1>1 DEF HeaderLen, MaskLen
<1>3. InFrame(Ahead)' <=> InFrame(Ahead)
  BY Zenon DEF InFrame, LastByte, Size, HeaderLen, MaskLen
<1> QED BY <1>1, <1>2, <1>3 DEF PlaceInv

(* A step that leaves the buffer alone, outside of a read. *)
LEMMA StandingCalm ==
  ASSUME CalmInv,
         UNCHANGED <<peerVars, received, buf, header, adj, delivered>>,
         \/ pc' \in Stopped
         \/ /\ pc \in {"idle", "header", "payload"}
            /\ pc' \in {"idle", "header", "payload", "fill"}
            /\ pc' = "header" => header = NoFrame
            /\ pc' = "payload" => header # NoFrame
         \/ pc = "fill" /\ pc' = "idle"
  PROVE  CalmInv'
<1>1. TypeOK /\ ApartInv /\ DeliveredInv /\ adj = 0 /\ ReadInv
  BY DEF CalmInv
<1>2. received' <= sent
  BY <1>1 DEF ApartInv
<1>3. ApartInv' /\ UNCHANGED <<mode, wire, sent, eof, torn>>
  BY <1>1, <1>2, ReaderKeeps
<1>4. DeliveredInv'
  BY <1>1, <1>3, DeliveredKept
<1>5. TypeOK'
  BY <1>1, <1>3 DEF TypeOK, Locations, Stopped
<1>6. CASE pc' \in Stopped
  <2>1. ReadInv'
    BY <1>6 DEF ReadInv, AtWork, Stopped
  <2> QED BY <1>1, <1>3, <1>4, <1>5, <2>1 DEF CalmInv
<1>7. CASE /\ pc \in {"idle", "header", "payload", "fill"}
           /\ pc' \in {"idle", "header", "payload", "fill"}
           /\ pc' = "header" => header = NoFrame
           /\ pc' = "payload" => header # NoFrame
  <2>1. RowInv /\ PlaceInv
    BY <1>1, <1>7 DEF ReadInv, AtWork
  <2>2. Shift = 0 /\ Shift' = 0 /\ \A i : At(i)' = At(i)
    BY <1>7 DEF Shift, At
  <2>3. Ahead' = Ahead /\ Origin' = Origin
    BY <2>2 DEF Ahead, Origin, At
  <2>4. RowInv'
    BY <1>7, <2>1, <2>2 DEF RowInv
  <2>5. header # NoFrame => buf.read_cursor = buf.curr_frame
    BY <2>1 DEF PlaceInv
  <2>6. PlaceInv'
    BY <1>3, <1>7, <2>1, <2>3, <2>5, PlaceKept
  <2>7. ReadInv'
    BY <1>7, <2>4, <2>6 DEF ReadInv
  <2> QED BY <1>1, <1>3, <1>4, <1>5, <2>7 DEF CalmInv
<1> QED BY <1>6, <1>7

(* A settled buffer. *)
LEMMA CalmFacts ==
  ASSUME CalmInv, pc \in {"idle", "header", "payload", "fill"}
  PROVE  /\ TypeOK /\ ApartInv /\ DeliveredInv /\ adj = 0 /\ RowInv /\ PlaceInv
         /\ Skipped = buf /\ ~SkipPanics /\ Shift = 0
         /\ Ahead = At(buf.read_cursor) /\ Origin = At(buf.curr_frame)
         /\ buf.curr_frame <= buf.read_cursor /\ buf.read_cursor <= buf.write_cursor
         /\ buf.end = buf.write_cursor /\ buf.write_cursor < ChunkSize
         /\ Remaining(buf) = buf.write_cursor - buf.read_cursor
<1>1. TypeOK /\ ApartInv /\ DeliveredInv /\ adj = 0 /\ RowInv /\ PlaceInv
  BY DEF CalmInv, ReadInv, AtWork
<1>2. Skipped = buf /\ ~SkipPanics
  BY <1>1 DEF Skipped, SkipPanics
<1>3. Shift = 0
  BY DEF Shift
<1>4. Ahead = At(buf.read_cursor) /\ Origin = At(buf.curr_frame)
  BY <1>1, <1>3, RowFacts DEF Ahead, Origin
<1>5. /\ buf.curr_frame <= buf.read_cursor /\ buf.read_cursor <= buf.write_cursor
      /\ buf.end = buf.write_cursor /\ buf.write_cursor < ChunkSize
  BY <1>1 DEF RowInv
<1>6. Remaining(buf) = buf.write_cursor - buf.read_cursor
  BY <1>1, <1>5, RowFacts DEF Remaining
<1> QED BY <1>1, <1>2, <1>3, <1>4, <1>5, <1>6

LEMMA PlainStepsCalm ==
  ASSUME CalmInv,
         \/ ReadFrame \/ AwaitHeader \/ AwaitPayload \/ RefuseTooLong
         \/ PanicInHeader \/ ReadGarbage \/ PanicInPayload
         \/ WouldBlock /\ ~torn'
  PROVE  CalmInv'
<1>1. CASE ReadFrame
  <2>1. /\ pc = "idle" /\ pc' = (IF header = NoFrame THEN "header" ELSE "payload")
        /\ UNCHANGED <<peerVars, received, buf, header, adj, delivered>>
    BY <1>1 DEF ReadFrame
  <2> QED BY <2>1, StandingCalm
<1>2. CASE AwaitHeader
  <2>1. pc = "header"
    BY <1>2 DEF AwaitHeader
  <2>2. Skipped = buf
    BY <2>1, CalmFacts
  <2>3. pc' = "fill" /\ UNCHANGED <<peerVars, received, buf, header, adj, delivered>>
    BY <1>2, <2>2 DEF AwaitHeader
  <2> QED BY <2>1, <2>3, StandingCalm
<1>3. CASE AwaitPayload
  <2>1. /\ pc = "payload" /\ pc' = "fill"
        /\ UNCHANGED <<peerVars, received, buf, header, adj, delivered>>
    BY <1>3 DEF AwaitPayload
  <2> QED BY <2>1, StandingCalm
<1>4. CASE RefuseTooLong \/ PanicInHeader \/ ReadGarbage \/ PanicInPayload
  <2>1. /\ pc' \in Stopped
        /\ UNCHANGED <<peerVars, received, buf, header, adj, delivered>>
    BY <1>4, Zenon DEF RefuseTooLong, PanicInHeader, ReadGarbage, PanicInPayload, Stopped
  <2> QED BY <2>1, StandingCalm
(* The first read is given up: nothing has been done yet. *)
<1>5. CASE WouldBlock /\ ~torn'
  <2>1. pc = "fill" /\ pc' = "idle"
    BY <1>5 DEF WouldBlock
  <2>2. torn' = torn
    <3>1. torn \in BOOLEAN
      BY DEF CalmInv, TypeOK
    <3> QED BY <1>5, <2>1, <3>1 DEF WouldBlock
  <2>3. UNCHANGED <<peerVars, received, buf, header, adj, delivered>>
    BY <1>5, <2>2 DEF WouldBlock, peerVars
  <2> QED BY <2>1, <2>3, StandingCalm
<1> QED BY <1>1, <1>2, <1>3, <1>4, <1>5

-----------------------------------------------------------------------------
(* A header is parsed only where the next frame starts. *)
LEMMA NextParsed ==
  ASSUME CalmInv, pc = "header", LongEnough, NEW k \in FramesAt(Skipped)
  PROVE  /\ k = Count + 1 /\ k \in DOMAIN wire /\ wire[k] \in Frame
         /\ wire[k].at = Ahead /\ Ahead = EndOf(Count) + 1
<1>1. /\ TypeOK /\ ApartInv /\ DeliveredInv /\ RowInv /\ PlaceInv
      /\ Skipped = buf /\ Shift = 0 /\ Ahead = At(buf.read_cursor)
      /\ Remaining(buf) = buf.write_cursor - buf.read_cursor
      /\ buf.curr_frame <= buf.read_cursor /\ buf.write_cursor < ChunkSize
  BY CalmFacts
<1>2. /\ buf.read_cursor \in Nat /\ buf.write_cursor \in Nat /\ received \in Nat
      /\ buf.curr_frame \in Nat /\ ChunkSize \in Nat /\ Count \in Nat
      /\ Cells = 0 .. ChunkSize - 1 /\ Len(wire) \in Nat
  BY <1>1, RowFacts
<1>3. buf.read_cursor + 4 <= buf.write_cursor
  BY <1>1, <1>2 DEF LongEnough
<1>4. buf.chunk[buf.read_cursor] = Ahead /\ Ahead \in Int
  <2>1. buf.read_cursor \in Cells /\ buf.curr_frame - Shift <= buf.read_cursor
        /\ buf.read_cursor < buf.write_cursor
    BY <1>1, <1>2, <1>3
  <2> QED BY <1>1, <1>2, <2>1, SMTT(40) DEF RowInv, At
<1>5. k \in DOMAIN wire /\ Taken(buf, 2) = [j \in 1 .. 2 |-> wire[k].at + j - 1]
  BY <1>1 DEF FramesAt
<1>6. wire[k] \in Frame /\ wire[k].at \in Nat
  BY <1>1, <1>5, AnyFrame, AnySizes
<1>7. wire[k].at = Ahead
  <2>1. Taken(buf, 2)[1] = buf.chunk[buf.read_cursor + 1 - 1]
    BY DEF Taken
  <2>2. Taken(buf, 2)[1] = wire[k].at + 1 - 1
    BY <1>5
  <2>3. buf.read_cursor + 1 - 1 = buf.read_cursor /\ wire[k].at + 1 - 1 = wire[k].at
    BY <1>2, <1>6
  <2> QED BY <1>4, <2>1, <2>2, <2>3
<1>8. ~InFrame(Ahead)
  BY <1>1, <1>4, <1>5, <1>7, NoneInside
<1>9. Ahead = EndOf(Count) + 1
  BY <1>1, <1>8 DEF PlaceInv
<1>10. Count \in 0 .. Len(wire)
  BY <1>1, <1>2 DEF DeliveredInv
<1>11. k = Count + 1
  BY <1>1, <1>5, <1>7, <1>9, <1>10, NextStarts
<1> QED BY <1>5, <1>6, <1>7, <1>9, <1>11

(* The buffer behind the length field of the next frame. *)
LEMMA BehindLength ==
  ASSUME CalmInv, pc = "header", LongEnough, ~ParsePanics,
         NEW k \in FramesAt(Skipped), k \in DOMAIN wire, wire[k] \in Frame
  PROVE  LET c == AfterLength(wire[k])
         IN  /\ c \in Buffer
             /\ c.read_cursor = buf.read_cursor + 2 + wire[k].ext
             /\ c.read_cursor <= c.write_cursor
             /\ c.write_cursor = buf.write_cursor
             /\ c.end = buf.end
             /\ c.curr_frame = buf.curr_frame
             /\ c.chunk = buf.chunk
<1> DEFINE f == wire[k]
<1>1. /\ buf \in Buffer /\ Skipped = buf /\ buf.end = buf.write_cursor
      /\ Remaining(buf) = buf.write_cursor - buf.read_cursor
      /\ buf.read_cursor \in Nat /\ buf.write_cursor \in Nat
  BY CalmFacts, RowFacts
<1>2. buf.read_cursor + 4 <= buf.write_cursor
  BY <1>1 DEF LongEnough
<1>3. f.ext \in {0, 2, 8}
  BY AnySizes
<1>4. ~TakeRefPanics(buf, 2)
  BY <1>1, <1>2 DEF TakeRefPanics
<1>5. f.ext > 0 => ~TakeRefPanics(AfterTwo, f.ext)
  BY <1>1, <1>4 DEF ParsePanics
<1> DEFINE t == AfterTwo
<1>6. /\ t \in Buffer
      /\ t.read_cursor = buf.read_cursor + 2
      /\ t.write_cursor = buf.write_cursor
      /\ t.end = buf.end
      /\ t.curr_frame = buf.curr_frame
      /\ t.chunk = buf.chunk
  <2>1. buf.end <= buf.write_cursor /\ t = TakeRef(buf, 2)
    BY <1>1 DEF AfterTwo
  <2> QED BY <1>1, <2>1, TakeRefFields
<1>7. AfterLength(f) = (IF f.ext > 0 THEN TakeRef(t, f.ext) ELSE t)
  BY DEF AfterLength
<1> HIDE DEF t, f
<1>8. CASE f.ext = 0
  BY <1>1, <1>2, <1>6, <1>7, <1>8 DEF f
<1>9. CASE f.ext > 0
  <2>1. t.end <= t.write_cursor /\ f.ext \in Nat
    BY <1>1, <1>3, <1>6
  <2>2. /\ TakeRef(t, f.ext) \in Buffer
        /\ TakeRef(t, f.ext).read_cursor = t.read_cursor + f.ext
        /\ TakeRef(t, f.ext).write_cursor = t.write_cursor
        /\ TakeRef(t, f.ext).end = t.end
        /\ TakeRef(t, f.ext).curr_frame = t.curr_frame
        /\ TakeRef(t, f.ext).chunk = t.chunk
    BY <1>6, <2>1, TakeRefFields
  <2>3. t.read_cursor + f.ext <= t.end
    BY <1>1, <1>5, <1>6, <1>9, <2>1 DEF TakeRefPanics, t
  <2> QED BY <1>1, <1>6, <1>7, <1>9, <2>2, <2>3 DEF f
<1> QED BY <1>3, <1>8, <1>9

LEMMA BehindHeader ==
  ASSUME CalmInv, pc = "header", LongEnough, ~ParsePanics,
         NEW k \in FramesAt(Skipped), k \in DOMAIN wire, wire[k] \in Frame,
         ~MaskIncomplete(wire[k])
  PROVE  LET c == AfterHeader(wire[k])
         IN  /\ c \in Buffer
             /\ c.read_cursor = buf.read_cursor + HeaderLen(wire[k])
             /\ c.read_cursor <= c.write_cursor
             /\ c.write_cursor = buf.write_cursor
             /\ c.end = buf.end
             /\ c.curr_frame = buf.curr_frame
             /\ c.chunk = buf.chunk
<1> DEFINE f == wire[k]
           c == AfterLength(f)
<1>1. /\ c \in Buffer
      /\ c.read_cursor = buf.read_cursor + 2 + f.ext
      /\ c.read_cursor <= c.write_cursor
      /\ c.write_cursor = buf.write_cursor
      /\ c.end = buf.end
      /\ c.curr_frame = buf.curr_frame
      /\ c.chunk = buf.chunk
  BY BehindLength
<1>2. /\ buf.end = buf.write_cursor /\ buf.read_cursor \in Nat /\ buf.write_cursor \in Nat
  BY CalmFacts, RowFacts
<1>3. /\ f.ext \in {0, 2, 8} /\ HeaderLen(f) = 2 + f.ext + MaskLen(f)
      /\ MaskLen(f) = (IF f.mask THEN 4 ELSE 0)
  BY AnySizes
<1>4. f.mask => Remaining(c) > 4
  <2>1. Remaining(c) = c.write_cursor - c.read_cursor /\ Remaining(c) \in Int
    BY <1>1, <1>2, BufferFields DEF Remaining
  <2> QED BY <2>1 DEF MaskIncomplete
<1>5. AfterHeader(f) = (IF f.mask THEN TakeRef(c, 4) ELSE c)
  BY DEF AfterHeader
<1> HIDE DEF c, f
<1>6. CASE ~f.mask
  BY <1>1, <1>2, <1>3, <1>5, <1>6 DEF f
<1>7. CASE f.mask
  <2>1. c.end <= c.write_cursor
    BY <1>1, <1>2
  <2>2. /\ TakeRef(c, 4) \in Buffer
        /\ TakeRef(c, 4).read_cursor = c.read_cursor + 4
        /\ TakeRef(c, 4).write_cursor = c.write_cursor
        /\ TakeRef(c, 4).end = c.end
        /\ TakeRef(c, 4).curr_frame = c.curr_frame
        /\ TakeRef(c, 4).chunk = c.chunk
    BY <1>1, <2>1, TakeRefFields
  <2>3. c.read_cursor + 4 <= c.write_cursor
    BY <1>1, <1>2, <1>4, <1>7, BufferFields DEF Remaining
  <2>4. buf.read_cursor + 2 + f.ext + 4 = buf.read_cursor + HeaderLen(f)
    BY <1>2, <1>3, <1>7
  <2> QED BY <1>1, <1>5, <1>7, <2>2, <2>3, <2>4 DEF f
<1> QED BY <1>6, <1>7

(* The cells stay what they are when the read cursor, or curr_frame with   *)
(* it, moves on.                                                           *)
LEMMA RowMoves ==
  ASSUME RowInv, TypeOK, buf' \in Buffer, UNCHANGED received,
         pc \in {"idle", "header", "payload", "fill"},
         pc' \in {"idle", "header", "payload", "fill"},
         buf.read_cursor <= buf'.read_cursor, buf'.read_cursor <= buf.write_cursor,
         buf'.write_cursor = buf.write_cursor, buf'.end = buf.end,
         buf'.chunk = buf.chunk,
         buf'.curr_frame = buf.curr_frame \/ buf'.curr_frame = buf'.read_cursor
  PROVE  /\ RowInv'
         /\ Ahead' = Ahead + (buf'.read_cursor - buf.read_cursor)
         /\ Origin' = Origin + (buf'.curr_frame - buf.curr_frame)
         /\ Ahead \in Int /\ Origin \in Int
<1>1. Shift = 0 /\ Shift' = 0 /\ \A i : At(i)' = At(i)
  BY DEF Shift, At
<1>2. /\ buf.read_cursor \in Nat /\ buf.write_cursor \in Nat /\ buf.curr_frame \in Nat
      /\ buf'.read_cursor \in Nat /\ buf'.curr_frame \in Nat /\ ChunkSize \in Nat
      /\ Cells = 0 .. ChunkSize - 1
  BY RowFacts, BufferFields
<1>3. /\ buf.curr_frame <= buf.read_cursor /\ buf.end = buf.write_cursor
      /\ buf.write_cursor < ChunkSize
  BY DEF RowInv
<1>4. buf'.curr_frame <= buf'.read_cursor /\ buf.curr_frame <= buf'.curr_frame
  BY <1>2, <1>3
<1>5. ASSUME NEW i \in Cells, buf'.curr_frame - Shift' <= i, i < buf'.write_cursor
      PROVE  buf'.chunk[i] = At(i)'
  <2>1. buf.curr_frame - Shift <= i /\ i < buf.write_cursor
    BY <1>1, <1>2, <1>4, <1>5
  <2> QED BY <1>1, <2>1 DEF RowInv
<1>6. RowInv'
  BY <1>2, <1>3, <1>4, <1>5 DEF RowInv
<1>7. /\ Ahead = received + 1 - (buf.write_cursor - buf.read_cursor)
      /\ Origin = received + 1 - (buf.write_cursor - buf.curr_frame)
  BY <1>1, <1>2 DEF Ahead, Origin, At
<1>8. /\ Ahead' = received + 1 - (buf.write_cursor - buf'.read_cursor)
      /\ Origin' = received + 1 - (buf.write_cursor - buf'.curr_frame)
  BY <1>1, <1>2 DEF Ahead, Origin, At
<1>9. received \in Nat
  BY RowFacts
<1>10. Ahead' = Ahead + (buf'.read_cursor - buf.read_cursor) /\ Ahead \in Int
  <2>1. /\ received + 1 - (buf.write_cursor - buf.read_cursor) \in Int
        /\ received + 1 - (buf.write_cursor - buf'.read_cursor)
             = (received + 1 - (buf.write_cursor - buf.read_cursor)) + (buf'.read_cursor - buf.read_cursor)
    BY <1>2, <1>9
  <2> QED BY <1>7, <1>8, <2>1, Zenon
<1>11. Origin' = Origin + (buf'.curr_frame - buf.curr_frame) /\ Origin \in Int
  <2>1. /\ received + 1 - (buf.write_cursor - buf.curr_frame) \in Int
        /\ received + 1 - (buf.write_cursor - buf'.curr_frame)
             = (received + 1 - (buf.write_cursor - buf.curr_frame)) + (buf'.curr_frame - buf.curr_frame)
    BY <1>2, <1>9, SMTT(40)
  <2> QED BY <1>7, <1>8, <2>1, Zenon
<1> QED BY <1>6, <1>10, <1>11

-----------------------------------------------------------------------------
LEMMA AwaitMaskCalm ==
  ASSUME CalmInv, AwaitMask
  PROVE  CalmInv'
<1>1. /\ pc = "header" /\ LongEnough /\ ~ParsePanics /\ pc' = "fill"
      /\ UNCHANGED <<peerVars, received, header, adj, delivered>>
  BY DEF AwaitMask
<1>2. PICK k \in FramesAt(Skipped) :
        MaskIncomplete(wire[k]) /\ buf' = AfterLength(wire[k])
  BY DEF AwaitMask
<1>3. /\ TypeOK /\ ApartInv /\ DeliveredInv /\ adj = 0 /\ RowInv /\ PlaceInv
      /\ Ahead = At(buf.read_cursor) /\ Origin = At(buf.curr_frame)
      /\ buf.read_cursor \in Nat /\ buf.write_cursor \in Nat /\ buf.curr_frame \in Nat
      /\ received \in Nat
  BY <1>1, CalmFacts, RowFacts
<1>4. k \in DOMAIN wire /\ wire[k] \in Frame /\ wire[k].at = Ahead
  BY <1>1, NextParsed
<1>5. /\ buf' \in Buffer
      /\ buf'.read_cursor = buf.read_cursor + 2 + wire[k].ext
      /\ buf'.read_cursor <= buf'.write_cursor
      /\ buf'.write_cursor = buf.write_cursor
      /\ buf'.end = buf.end
      /\ buf'.curr_frame = buf.curr_frame
      /\ buf'.chunk = buf.chunk
  BY <1>1, <1>2, <1>4, BehindLength
<1>6. /\ wire[k].ext \in {0, 2, 8} /\ wire[k].mask
      /\ LastByte(wire[k]) = wire[k].at + HeaderLen(wire[k]) + wire[k].len - 1
      /\ HeaderLen(wire[k]) = 2 + wire[k].ext + 4
      /\ wire[k].len \in Nat /\ wire[k].at \in Nat
  BY <1>2, <1>4, AnySizes DEF MaskIncomplete
<1>7. ApartInv' /\ UNCHANGED <<mode, wire, sent, eof, torn>> /\ \A p : InFrame(p)' = InFrame(p)
  <2>1. received' <= sent
    BY <1>1, <1>3 DEF ApartInv
  <2> QED BY <1>1, <1>3, <2>1, ReaderKeeps
<1>8. DeliveredInv' /\ Count' = Count
  BY <1>1, <1>3, <1>7, DeliveredKept
<1>9. TypeOK'
  BY <1>1, <1>3, <1>5, <1>7 DEF TypeOK, Locations
<1>10. /\ RowInv'
       /\ Ahead' = Ahead + (buf'.read_cursor - buf.read_cursor)
       /\ Origin' = Origin + (buf'.curr_frame - buf.curr_frame)
       /\ Ahead \in Int /\ Origin \in Int
  BY <1>1, <1>3, <1>5, <1>6, RowMoves
<1>11. Ahead' = Ahead + 2 + wire[k].ext /\ Origin' = Origin
  BY <1>3, <1>5, <1>6, <1>10
<1>12. InFrame(Ahead')
  <2>1. wire[k].at < Ahead' /\ Ahead' <= LastByte(wire[k])
    BY <1>4, <1>6, <1>11
  <2> QED BY <1>4, <2>1 DEF InFrame
<1>13. PlaceInv'
  <2>1. header = NoFrame
    BY <1>1, <1>3 DEF PlaceInv
  <2>2. InFrame(Ahead)'
    BY <1>12, <1>7 DEF InFrame, LastByte, Size, HeaderLen, MaskLen
  <2>3. Count # 0 => HeaderLen(wire[Count])' = HeaderLen(wire[Count])
    BY <1>7, <1>8 DEF HeaderLen, MaskLen
  <2> QED BY <1>1, <1>3, <1>5, <1>7, <1>8, <1>11, <2>1, <2>2, <2>3 DEF PlaceInv
<1>14. ReadInv'
  BY <1>1, <1>10, <1>13 DEF ReadInv
<1> QED BY <1>1, <1>3, <1>7, <1>8, <1>9, <1>14 DEF CalmInv

LEMMA RefuseOpcodeCalm ==
  ASSUME CalmInv, RefuseOpcode
  PROVE  CalmInv'
<1>1. /\ pc = "header" /\ LongEnough /\ ~ParsePanics /\ pc' = "failed"
      /\ UNCHANGED <<peerVars, received, header, adj, delivered>>
  BY DEF RefuseOpcode
<1>2. PICK k \in FramesAt(Skipped) :
        ~MaskIncomplete(wire[k]) /\ buf' = AfterHeader(wire[k])
  BY DEF RefuseOpcode
<1>3. k \in DOMAIN wire /\ wire[k] \in Frame
  BY <1>1, NextParsed
<1>4. buf' \in Buffer
  BY <1>1, <1>2, <1>3, BehindHeader
<1>5. TypeOK /\ ApartInv /\ DeliveredInv /\ adj = 0
  BY DEF CalmInv
<1>6. received' <= sent
  BY <1>1, <1>5 DEF ApartInv
<1>7. ApartInv' /\ UNCHANGED <<mode, wire, sent, eof, torn>>
  BY <1>1, <1>5, <1>6, ReaderKeeps
<1>8. DeliveredInv'
  BY <1>1, <1>5, <1>7, DeliveredKept
<1>9. TypeOK'
  BY <1>1, <1>4, <1>5, <1>7 DEF TypeOK, Locations, Stopped
<1>10. ReadInv'
  BY <1>1 DEF ReadInv, AtWork
<1> QED BY <1>1, <1>5, <1>7, <1>8, <1>9, <1>10 DEF CalmInv

LEMMA ParseHeaderCalm ==
  ASSUME CalmInv, NoContinuation, ParseHeader
  PROVE  CalmInv'
<1>1. /\ pc = "header" /\ LongEnough /\ ~ParsePanics
      /\ UNCHANGED <<peerVars, received, delivered>>
  BY DEF ParseHeader
<1>2. /\ TypeOK /\ ApartInv /\ DeliveredInv /\ adj = 0 /\ RowInv /\ PlaceInv
      /\ Ahead = At(buf.read_cursor)
      /\ buf.read_cursor \in Nat /\ buf.write_cursor \in Nat /\ buf.curr_frame \in Nat
      /\ received \in Nat /\ Count \in Nat
  BY <1>1, CalmFacts, RowFacts
<1>3. PICK k \in FramesAt(Skipped) :
        LET f == wire[k]
            b == AfterHeader(f)
            shift == adj + (IF f.mask THEN 6 ELSE 2)
        IN  /\ ~MaskIncomplete(f) /\ f.kind # "reserved"
            /\ header' = f
            /\ IF f.kind = "continue"
               THEN /\ adj' = shift
                    /\ IF AdjustContinuePanics(b, shift, f.len)
                       THEN buf' = b /\ pc' = "panicked"
                       ELSE buf' = AdjustContinuePayload(b, shift, f.len)
                            /\ pc' = "payload"
               ELSE /\ adj' = 0
                    /\ buf' = SetCurrFrame(b)
                    /\ pc' = "payload"
  BY DEF ParseHeader
<1> DEFINE f == wire[k]
           b == AfterHeader(f)
<1>4. k = Count + 1 /\ k \in DOMAIN wire /\ f \in Frame /\ f.at = Ahead
      /\ Ahead = EndOf(Count) + 1
  BY <1>1, NextParsed
<1>5. /\ header' = f /\ adj' = 0 /\ buf' = SetCurrFrame(b) /\ pc' = "payload"
      /\ ~MaskIncomplete(f)
  BY <1>3, <1>4 DEF NoContinuation
<1>6. /\ b \in Buffer
      /\ b.read_cursor = buf.read_cursor + HeaderLen(f)
      /\ b.read_cursor <= b.write_cursor
      /\ b.write_cursor = buf.write_cursor
      /\ b.end = buf.end
      /\ b.chunk = buf.chunk
  BY <1>1, <1>4, <1>5, BehindHeader
<1>7. HeaderLen(f) \in Nat /\ f.at \in Nat
  BY <1>4, AnySizes
<1> HIDE DEF b
<1>8. /\ buf' \in Buffer
      /\ buf'.read_cursor = buf.read_cursor + HeaderLen(f)
      /\ buf'.read_cursor <= buf.write_cursor
      /\ buf'.write_cursor = buf.write_cursor
      /\ buf'.end = buf.end
      /\ buf'.curr_frame = buf'.read_cursor
      /\ buf'.chunk = buf.chunk
  BY <1>5, <1>6, SetCurrFrameFields
<1>9. ApartInv' /\ UNCHANGED <<mode, wire, sent, eof, torn>>
  <2>1. received' <= sent
    BY <1>1, <1>2 DEF ApartInv
  <2> QED BY <1>1, <1>2, <2>1, ReaderKeeps
<1>10. DeliveredInv' /\ Count' = Count
  BY <1>1, <1>2, <1>9, DeliveredKept
<1>11. TypeOK'
  BY <1>1, <1>2, <1>4, <1>5, <1>8, <1>9 DEF TypeOK, Locations
<1>12. /\ RowInv' /\ Ahead \in Int
       /\ Ahead' = Ahead + (buf'.read_cursor - buf.read_cursor)
  BY <1>1, <1>2, <1>5, <1>7, <1>8, RowMoves
<1>13. Ahead' = Ahead + HeaderLen(f)
  BY <1>2, <1>7, <1>8, <1>12
<1>14. f # NoFrame
  <2>1. f.at >= 1
    BY <1>2, <1>4, EndNat, <1>7 DEF DeliveredInv
  <2> QED BY <2>1 DEF NoFrame
<1>15. PlaceInv'
  <2>1. Count' + 1 \in DOMAIN wire' /\ header' = wire'[Count' + 1]
    BY <1>4, <1>5, <1>9, <1>10
  <2>2. HeaderLen(header)' = HeaderLen(f)
    BY <1>5 DEF HeaderLen, MaskLen
  <2> QED BY <1>4, <1>5, <1>8, <1>13, <1>14, <2>1, <2>2 DEF PlaceInv
<1>16. ReadInv'
  BY <1>5, <1>12, <1>15 DEF ReadInv
<1> QED BY <1>5, <1>9, <1>10, <1>11, <1>16 DEF CalmInv

LEMMA TakePayloadCalm ==
  ASSUME CalmInv, TakePayload
  PROVE  CalmInv'
<1>1. /\ pc = "payload" /\ HasPayload /\ pc' = "idle" /\ header' = NoFrame
      /\ delivered' = Append(delivered, Taken(buf, header.len))
      /\ buf' = TakeRef(buf, header.len)
      /\ UNCHANGED <<peerVars, received, adj>>
  BY DEF TakePayload
<1>2. /\ TypeOK /\ ApartInv /\ DeliveredInv /\ adj = 0 /\ RowInv /\ PlaceInv
      /\ Ahead = At(buf.read_cursor) /\ Shift = 0
      /\ buf.curr_frame <= buf.read_cursor /\ buf.end = buf.write_cursor
      /\ Remaining(buf) = buf.write_cursor - buf.read_cursor
      /\ buf.write_cursor < ChunkSize
  BY <1>1, CalmFacts
<1>3. /\ buf \in Buffer /\ buf.read_cursor \in Nat /\ buf.write_cursor \in Nat
      /\ buf.curr_frame \in Nat /\ received \in Nat /\ Count \in Nat
      /\ ChunkSize \in Nat /\ Cells = 0 .. ChunkSize - 1
  BY <1>2, RowFacts
<1>4. /\ Count + 1 \in DOMAIN wire /\ header = wire[Count + 1] /\ header \in Frame
      /\ buf.read_cursor = buf.curr_frame /\ Ahead = header.at + HeaderLen(header)
  <2>1. header # NoFrame
    BY <1>1, <1>2 DEF PlaceInv
  <2> QED BY <1>2, <2>1, AnyFrame DEF PlaceInv
<1>5. /\ header.len \in Nat /\ HeaderLen(header) \in Nat /\ header.at \in Nat
      /\ LastByte(header) = header.at + HeaderLen(header) + header.len - 1
      /\ 0 < header.len /\ buf.read_cursor + header.len <= buf.write_cursor
  <2>1. /\ header.len \in Nat /\ HeaderLen(header) \in Nat /\ header.at \in Nat
        /\ LastByte(header) = header.at + HeaderLen(header) + header.len - 1
    BY <1>4, AnySizes
  <2>2. header.len <= buf.write_cursor - buf.read_cursor /\ header.len > 0
    BY <1>1, <1>2 DEF HasPayload
  <2> QED BY <1>3, <2>1, <2>2
<1>6. /\ buf' \in Buffer
      /\ buf'.read_cursor = buf.read_cursor + header.len
      /\ buf'.write_cursor = buf.write_cursor
      /\ buf'.end = buf.end
      /\ buf'.curr_frame = buf.curr_frame
      /\ buf'.chunk = buf.chunk
  <2>1. buf.end <= buf.write_cursor
    BY <1>2, <1>3
  <2> QED BY <1>1, <1>3, <1>5, <2>1, TakeRefFields
<1>7. Taken(buf, header.len) = PayloadOf(header)
  <2>1. ASSUME NEW j \in 1 .. header.len
        PROVE  buf.chunk[buf.read_cursor + j - 1] = header.at + HeaderLen(header) + j - 1
    <3> DEFINE i == buf.read_cursor + j - 1
    <3>0. j \in Int /\ 1 <= j /\ j <= header.len
      BY <1>5
    <3>1. /\ i \in Cells /\ i \in Int /\ i = buf.read_cursor + (j - 1)
          /\ buf.curr_frame - Shift <= i /\ i < buf.write_cursor
      <4>1. buf.read_cursor \in Nat /\ buf.write_cursor \in Nat /\ header.len \in Nat
            /\ buf.read_cursor + header.len <= buf.write_cursor
        BY <1>3, <1>5
      <4>2. /\ i \in Int /\ i = buf.read_cursor + (j - 1)
            /\ i < buf.write_cursor /\ buf.read_cursor <= i
        BY <3>0, <4>1
      <4> HIDE DEF i
      <4>3. i \in Cells
        BY <1>2, <1>3, <4>2
      <4> QED BY <1>2, <1>3, <4>2, <4>3
    <3>2. buf.chunk[i] = At(i)
      BY <1>2, <3>1 DEF RowInv
    <3>3. At(i) = At(buf.read_cursor) + (j - 1)
      BY <1>3, <3>1, SMTT(40) DEF At
    <3> QED BY <1>2, <1>4, <1>5, <3>2, <3>3
  <2> QED BY <2>1 DEF Taken, PayloadOf
<1>8. PayloadOf(header) \in Seq(Nat)
  BY <1>5 DEF PayloadOf
<1>9. /\ delivered' \in Seq(Seq(Nat))
      /\ Count' = Count + 1 /\ Count' <= Len(wire)
      /\ delivered'[Count + 1] = PayloadOf(header)
      /\ \A j \in 1 .. Count : delivered'[j] = delivered[j]
  <2>1. delivered \in Seq(Seq(Nat)) /\ Count + 1 <= Len(wire)
    BY <1>2, <1>4 DEF TypeOK
  <2>2. delivered' = Append(delivered, PayloadOf(header))
    BY <1>1, <1>7
  <2> QED BY <1>8, <2>1, <2>2 DEF Count
<1>10. ApartInv' /\ UNCHANGED <<mode, wire, sent, eof, torn>>
  <2>1. received' <= sent
    BY <1>1, <1>2 DEF ApartInv
  <2> QED BY <1>1, <1>2, <2>1, ReaderKeeps
<1>11. TypeOK'
  BY <1>1, <1>2, <1>6, <1>9, <1>10, NoFrameType DEF TypeOK, Locations
<1>12. DeliveredInv'
  <2>1. ASSUME NEW j \in 1 .. Count + 1 PROVE delivered'[j] = PayloadOf(wire[j])
    <3>1. CASE j = Count + 1
      BY <1>4, <1>9, <3>1
    <3>2. CASE j # Count + 1
      <4>1. j \in 1 .. Count
        BY <1>3, <3>2
      <4> QED BY <1>2, <1>9, <4>1 DEF DeliveredInv
    <3> QED BY <3>1, <3>2
  <2>2. \A j \in 1 .. Count + 1 : PayloadOf(wire[j])' = PayloadOf(wire[j])
    BY <1>10 DEF PayloadOf, HeaderLen, MaskLen
  <2> QED BY <1>9, <1>10, <2>1, <2>2 DEF DeliveredInv
<1>13. /\ RowInv'
       /\ Ahead' = Ahead + (buf'.read_cursor - buf.read_cursor)
       /\ Origin' = Origin + (buf'.curr_frame - buf.curr_frame)
       /\ Ahead \in Int /\ Origin \in Int
  BY <1>1, <1>2, <1>3, <1>5, <1>6, RowMoves
<1>14. Ahead' = LastByte(header) + 1 /\ Origin' = header.at + HeaderLen(header)
  <2>1. Origin = Ahead
    BY <1>2, <1>3, <1>4 DEF Ahead, Origin
  <2> QED BY <1>3, <1>4, <1>5, <1>6, <1>13, <2>1
<1>15. PlaceInv'
  <2>1. Count' # 0 /\ wire'[Count'] = header
    BY <1>3, <1>4, <1>9, <1>10
  <2>2. EndOf(Count)' = LastByte(header)
    BY <2>1 DEF EndOf, LastByte, Size, HeaderLen, MaskLen
  <2>3. HeaderLen(wire[Count])' = HeaderLen(header)
    BY <2>1 DEF HeaderLen, MaskLen
  <2> QED BY <1>1, <1>5, <1>14, <2>1, <2>2, <2>3 DEF PlaceInv
<1>16. ReadInv'
  BY <1>1, <1>13, <1>15 DEF ReadInv
<1> QED BY <1>1, <1>2, <1>10, <1>11, <1>12, <1>16 DEF CalmInv

-----------------------------------------------------------------------------
(* What a read appends continues the row. *)
LEMMA RowExtends ==
  ASSUME TypeOK, NEW n \in Nat, NEW low \in Int,
         \A i \in Cells : low <= i /\ i < buf.write_cursor => buf.chunk[i] = At(i)
  PROVE  \A i \in Cells : low <= i /\ i < buf.write_cursor + n =>
           Stored(buf, n, received + 1)[i] = received + n + 1 - ((buf.write_cursor + n) - i)
<1> SUFFICES ASSUME NEW i \in Cells, low <= i, i < buf.write_cursor + n
             PROVE  Stored(buf, n, received + 1)[i]
                      = received + n + 1 - ((buf.write_cursor + n) - i)
  OBVIOUS
<1>1. buf.write_cursor \in Nat /\ received \in Nat /\ i \in Int
  BY RowFacts DEF Cells
<1>2. CASE i < buf.write_cursor
  <2>1. Stored(buf, n, received + 1)[i] = buf.chunk[i]
    BY <1>1, <1>2, StoredCell
  <2>2. buf.chunk[i] = received + 1 - (buf.write_cursor - i)
    BY <1>2 DEF At
  <2> QED BY <1>1, <2>1, <2>2
<1>3. CASE ~(i < buf.write_cursor)
  <2>1. Stored(buf, n, received + 1)[i] = received + 1 + (i - buf.write_cursor)
    BY <1>1, <1>3, StoredCell
  <2> QED BY <1>1, <2>1
<1> QED BY <1>2, <1>3

(* What a read returns. *)
LEMMA AnyReadSize ==
  ASSUME TypeOK, NEW room \in Nat, NEW n \in ReadSizes(room)
  PROVE  /\ n \in Nat /\ n <= room
         /\ received + n \in Nat /\ received + n <= sent /\ received + 1 \in Nat
  BY RowFacts, FrameReaderAssumption, SMTT(40) DEF ReadSizes

(* A step that reads: what remains to be shown of the buffer. *)
LEMMA ReadingCalm ==
  ASSUME CalmInv, UNCHANGED <<peerVars, header, adj, delivered>>,
         received' \in Nat, received' <= sent, buf' \in Buffer, pc' \in Locations,
         ReadInv'
  PROVE  CalmInv'
<1>1. TypeOK /\ ApartInv /\ DeliveredInv /\ adj = 0
  BY DEF CalmInv
<1>2. ApartInv' /\ UNCHANGED <<mode, wire, sent, eof, torn>>
  BY <1>1, ReaderKeeps
<1>3. DeliveredInv'
  BY <1>1, <1>2, DeliveredKept
<1>4. TypeOK'
  BY <1>1, <1>2 DEF TypeOK
<1> QED BY <1>1, <1>2, <1>3, <1>4 DEF CalmInv

(* A cell's place in the stream after a read. *)
LEMMA AtNext ==
  ASSUME NEW n, received' = received + n, buf'.write_cursor = buf.write_cursor + n
  PROVE  \A i : At(i)' = received + n + 1 - ((buf.write_cursor + n) - i)
BY Zenon DEF At

LEMMA FillRoomCalm ==
  ASSUME CalmInv, pc = "fill", NEW n \in Nat,
         received + n \in Nat, received + n <= sent, received + 1 \in Nat,
         buf.write_cursor + n < ChunkSize,
         UNCHANGED <<peerVars, header, adj, delivered>>,
         received' = received + n,
         buf' = ReadFirst(buf, n, received + 1),
         pc' = (IF n = 0 THEN "closed" ELSE AfterRead)
  PROVE  CalmInv'
<1>1. /\ TypeOK /\ RowInv /\ PlaceInv /\ Shift = 0
      /\ buf.curr_frame <= buf.read_cursor /\ buf.read_cursor <= buf.write_cursor
      /\ buf.end = buf.write_cursor
      /\ Ahead = At(buf.read_cursor) /\ Origin = At(buf.curr_frame)
  BY CalmFacts
<1>2. /\ buf \in Buffer /\ buf.read_cursor \in Nat /\ buf.write_cursor \in Nat
      /\ buf.curr_frame \in Nat /\ received \in Nat /\ ChunkSize \in Nat
  BY <1>1, RowFacts
<1>3. /\ buf' \in Buffer
      /\ buf'.read_cursor = buf.read_cursor
      /\ buf'.write_cursor = buf.write_cursor + n
      /\ buf'.end = buf.write_cursor + n
      /\ buf'.curr_frame = buf.curr_frame
      /\ buf'.chunk = Stored(buf, n, received + 1)
  BY <1>1, <1>2, ReadFirstFields
<1>4. pc' \in {"closed", "header", "payload"}
      /\ (pc' = "header" => header = NoFrame) /\ (pc' = "payload" => header # NoFrame)
  BY DEF AfterRead
<1>5. /\ Shift' = 0 /\ \A i : At(i)' = received + n + 1 - ((buf.write_cursor + n) - i)
  <2>1. Shift' = 0
    BY <1>4 DEF Shift
  <2>2. \A i : At(i)' = received + n + 1 - ((buf.write_cursor + n) - i)
    BY <1>3, AtNext
  <2> QED BY <2>1, <2>2
<1>6. RowInv'
  <2>1. \A i \in Cells : buf.curr_frame <= i /\ i < buf.write_cursor => buf.chunk[i] = At(i)
    BY <1>1, <1>2 DEF RowInv
  <2>2. \A i \in Cells : buf.curr_frame <= i /\ i < buf.write_cursor + n =>
           Stored(buf, n, received + 1)[i] = received + n + 1 - ((buf.write_cursor + n) - i)
    BY <1>1, <1>2, <2>1, RowExtends
  <2>3. ASSUME NEW i \in Cells, buf'.curr_frame - Shift' <= i, i < buf'.write_cursor
        PROVE  buf'.chunk[i] = At(i)'
    <3>1. buf.curr_frame <= i
      BY <1>2, <1>3, <1>5, <2>3
    <3> QED BY <1>3, <1>5, <2>2, <2>3, <3>1
  <2>4. buf'.curr_frame <= buf'.read_cursor /\ buf'.read_cursor <= buf'.write_cursor
    BY <1>1, <1>2, <1>3
  <2> QED BY <1>3, <1>4, <2>3, <2>4 DEF RowInv
<1>7. Ahead' = Ahead /\ Origin' = Origin
  <2>1. /\ Ahead' = received + n + 1 - ((buf.write_cursor + n) - buf.read_cursor)
        /\ Origin' = received + n + 1 - ((buf.write_cursor + n) - buf.curr_frame)
    BY <1>2, <1>3, <1>5 DEF Ahead, Origin, At
  <2>2. /\ Ahead = received + 1 - (buf.write_cursor - buf.read_cursor)
        /\ Origin = received + 1 - (buf.write_cursor - buf.curr_frame)
    BY <1>1 DEF At
  <2> QED BY <1>2, <2>1, <2>2
<1>8. PlaceInv'
  <2>1. wire' = wire
    BY DEF peerVars
  <2>2. header # NoFrame => buf'.read_cursor = buf'.curr_frame
    BY <1>1, <1>3 DEF PlaceInv
  <2> QED BY <1>1, <1>3, <1>4, <1>7, <2>1, <2>2, PlaceKept
<1>9. ReadInv'
  BY <1>4, <1>6, <1>8 DEF ReadInv
<1> QED BY <1>3, <1>4, <1>9, ReadingCalm DEF Locations, Stopped

LEMMA FillWrapCalm ==
  ASSUME CalmInv, pc = "fill", NEW n \in Nat,
         received + n \in Nat, received + n <= sent, received + 1 \in Nat,
         buf.write_cursor + n = ChunkSize,
         UNCHANGED <<peerVars, header, adj, delivered>>,
         received' = received + n,
         buf' = MigrateTail(ReadFirst(buf, n, received + 1)),
         pc' = "again"
  PROVE  CalmInv'
<1>1. /\ TypeOK /\ RowInv /\ PlaceInv /\ Shift = 0
      /\ buf.curr_frame <= buf.read_cursor /\ buf.read_cursor <= buf.write_cursor
      /\ buf.write_cursor < ChunkSize
      /\ Ahead = At(buf.read_cursor) /\ Origin = At(buf.curr_frame)
  BY CalmFacts
<1>2. /\ buf \in Buffer /\ buf.read_cursor \in Nat /\ buf.write_cursor \in Nat
      /\ buf.curr_frame \in Nat /\ received \in Nat /\ ChunkSize \in Nat
      /\ Cells = 0 .. ChunkSize - 1
  BY <1>1, RowFacts
<1>3. /\ buf' \in Buffer
      /\ buf'.read_cursor = buf.read_cursor
      /\ buf'.write_cursor = ChunkSize - buf.curr_frame
      /\ buf'.end = buf.curr_frame
      /\ buf'.curr_frame = buf.curr_frame
      /\ buf'.chunk = CopyWithin(Stored(buf, n, received + 1), buf.curr_frame, ChunkSize, 0)
  <2>1. buf.curr_frame <= ChunkSize
    BY <1>1, <1>2
  <2> QED BY <1>2, <2>1, MigratedFields
<1>4. /\ Shift' = buf.curr_frame
      /\ \A i : At(i)' = received + n + 1 - ((ChunkSize - buf.curr_frame) - i)
  BY <1>3 DEF Shift, At
<1>5. RowInv'
  <2>1. \A i \in Cells : buf.curr_frame <= i /\ i < buf.write_cursor => buf.chunk[i] = At(i)
    BY <1>1, <1>2 DEF RowInv
  <2>2. \A i \in Cells : buf.curr_frame <= i /\ i < buf.write_cursor + n =>
           Stored(buf, n, received + 1)[i] = received + n + 1 - ((buf.write_cursor + n) - i)
    <3>1. buf.curr_frame \in Int
      BY <1>2
    <3> QED BY <1>1, <2>1, <3>1, RowExtends
  <2>3. ASSUME NEW i \in Cells, i < ChunkSize - buf.curr_frame
        PROVE  buf'.chunk[i] = At(i)'
    <3> DEFINE k == buf.curr_frame + (i - 0)
    <3>1. i \in Int /\ 0 <= i
      BY <1>2
    <3>2. k \in Int /\ buf.curr_frame <= k /\ k < ChunkSize /\ k = buf.curr_frame + i
      BY <1>2, <2>3, <3>1, SMTT(40)
    <3>3. k \in Cells
      BY <1>2, <3>2
    <3>4. buf'.chunk[i] = Stored(buf, n, received + 1)[k]
      <4>1. 0 <= i /\ i < 0 + (ChunkSize - buf.curr_frame)
        BY <1>2, <2>3, <3>1
      <4> QED BY <1>3, <4>1, CopyWithinCell
    <3> HIDE DEF k
    <3>5. Stored(buf, n, received + 1)[k] = received + n + 1 - (ChunkSize - k)
      <4>1. k < buf.write_cursor + n
        BY <3>2
      <4>2. Stored(buf, n, received + 1)[k] = received + n + 1 - ((buf.write_cursor + n) - k)
        BY <2>2, <3>2, <3>3, <4>1
      <4>3. buf.write_cursor + n = ChunkSize
        OBVIOUS
      <4> QED BY <4>2, <4>3, Zenon
    <3>6. ChunkSize - k = (ChunkSize - buf.curr_frame) - i
      BY <1>2, <3>1, <3>2
    <3> QED BY <1>4, <3>4, <3>5, <3>6
  <2>4. buf'.curr_frame <= buf'.read_cursor /\ buf'.read_cursor <= ChunkSize
    BY <1>1, <1>2, <1>3
  <2>5. buf'.curr_frame - Shift' = 0
    BY <1>2, <1>3, <1>4
  <2> QED BY <1>3, <2>3, <2>4, <2>5 DEF RowInv
<1>6. Ahead' = Ahead /\ Origin' = Origin
  <2>1. /\ Ahead' = received + n + 1
                      - ((ChunkSize - buf.curr_frame) - (buf.read_cursor - buf.curr_frame))
        /\ Origin' = received + n + 1
                      - ((ChunkSize - buf.curr_frame) - (buf.curr_frame - buf.curr_frame))
    BY <1>3, <1>4 DEF Ahead, Origin, At
  <2>2. /\ Ahead = received + 1 - (buf.write_cursor - buf.read_cursor)
        /\ Origin = received + 1 - (buf.write_cursor - buf.curr_frame)
    BY <1>1 DEF At
  <2>3. ChunkSize = buf.write_cursor + n
    OBVIOUS
  <2>4. /\ buf.read_cursor \in Nat /\ buf.write_cursor \in Nat /\ buf.curr_frame \in Nat
        /\ received \in Nat
    BY <1>2
  <2>5. Ahead' = Ahead
    BY <2>1, <2>2, <2>3, <2>4
  <2>6. Origin' = Origin
    BY <2>1, <2>2, <2>3, <2>4
  <2> QED BY <2>5, <2>6
<1>7. PlaceInv'
  <2>1. wire' = wire
    BY DEF peerVars
  <2>2. header # NoFrame => buf'.read_cursor = buf'.curr_frame
    BY <1>1, <1>3 DEF PlaceInv
  <2> QED BY <1>1, <1>3, <1>6, <2>1, <2>2, PlaceKept
<1>8. ReadInv'
  BY <1>5, <1>7 DEF ReadInv
<1> QED BY <1>3, <1>8, ReadingCalm DEF Locations

(* Nothing at all was read into a buffer that holds nothing. *)
LEMMA FillNothingCalm ==
  ASSUME CalmInv, pc = "fill", buf.write_cursor = 0,
         UNCHANGED <<peerVars, header, adj, delivered>>,
         received' = received,
         buf' = MigrateTail(ReadFirst(buf, 0, received + 1)),
         pc' = "empty"
  PROVE  CalmInv'
<1>1. /\ TypeOK /\ ApartInv
      /\ buf.curr_frame <= buf.read_cursor /\ buf.read_cursor <= buf.write_cursor
      /\ buf.end = buf.write_cursor
  BY CalmFacts
<1>2. /\ buf \in Buffer /\ buf.read_cursor \in Nat /\ buf.curr_frame \in Nat
      /\ received \in Nat /\ ChunkSize \in Nat /\ 0 < ChunkSize
  BY <1>1, RowFacts
<1>3. buf.curr_frame = 0
  BY <1>1, <1>2
<1> DEFINE c == ReadFirst(buf, 0, received + 1)
<1>4. c \in Buffer /\ c.curr_frame = 0
  <2>1. received + 1 \in Nat /\ buf.write_cursor + 0 < ChunkSize
    BY <1>2
  <2> QED BY <1>1, <1>2, <1>3, <2>1, ReadFirstFields
<1> HIDE DEF c
<1>5. CopyWithin(c.chunk, 0, ChunkSize, 0) \in Chunk
  BY <1>2, <1>4, TailCopyType, BufferFields
<1>6. buf' = [c EXCEPT !.end = 0, !.write_cursor = ChunkSize - 0,
                       !.chunk = CopyWithin(c.chunk, 0, ChunkSize, 0)]
  BY <1>4 DEF MigrateTail, c
<1>7. buf' \in Buffer /\ buf'.write_cursor = ChunkSize
  <2> DEFINE cc == CopyWithin(c.chunk, 0, ChunkSize, 0)
             w == ChunkSize - 0
  <2>1. cc \in Chunk /\ w = ChunkSize /\ w \in Nat /\ 0 \in Nat
    BY <1>2, <1>5
  <2>2. buf' = [c EXCEPT !.end = 0, !.write_cursor = w, !.chunk = cc]
    BY <1>6
  <2> HIDE DEF cc, w
  <2> QED BY <1>4, <2>1, <2>2 DEF Buffer
<1>8. ReadInv'
  BY <1>7 DEF ReadInv, AtWork
<1>9. received' \in Nat /\ received' <= sent
  BY <1>1, <1>2 DEF ApartInv
<1> QED BY <1>7, <1>8, <1>9, ReadingCalm DEF Locations

LEMMA FillCalm ==
  ASSUME CalmInv, Fill
  PROVE  CalmInv'
<1>1. PICK n \in ReadSizes(Room(buf)) :
        LET b == ReadFirst(buf, n, received + 1)
        IN  /\ received' = received + n
            /\ IF Wrapped(b)
               THEN buf' = MigrateTail(b) /\ pc' = IF n = 0 THEN "empty" ELSE "again"
               ELSE buf' = b /\ pc' = IF n = 0 THEN "closed" ELSE AfterRead
  BY DEF Fill
<1>2. pc = "fill" /\ UNCHANGED <<peerVars, header, adj, delivered>>
  BY DEF Fill
<1>3. /\ TypeOK /\ buf.curr_frame <= buf.read_cursor /\ buf.read_cursor <= buf.write_cursor
      /\ buf.end = buf.write_cursor /\ buf.write_cursor < ChunkSize
  BY <1>2, CalmFacts
<1>4. /\ buf \in Buffer /\ buf.read_cursor \in Nat /\ buf.write_cursor \in Nat
      /\ buf.curr_frame \in Nat /\ received \in Nat /\ ChunkSize \in Nat
  BY <1>3, RowFacts
<1>5. Room(buf) \in Nat /\ Room(buf) = ChunkSize - buf.write_cursor
  BY <1>3, <1>4 DEF Room
<1>6. /\ n \in Nat /\ n <= Room(buf)
      /\ received + n \in Nat /\ received + n <= sent /\ received + 1 \in Nat
  BY <1>3, <1>5, AnyReadSize
<1>7. buf.write_cursor + n <= ChunkSize
  BY <1>4, <1>5, <1>6
<1>8. CASE buf.write_cursor + n = ChunkSize
  <2>1. n # 0
    BY <1>3, <1>4, <1>8
  <2>2. Wrapped(ReadFirst(buf, n, received + 1))
    <3>1. buf.curr_frame <= ChunkSize
      BY <1>3, <1>4
    <3> QED BY <1>4, <1>6, <1>8, <3>1, MigratedFields
  <2> QED BY <1>1, <1>2, <1>6, <1>8, <2>1, <2>2, FillWrapCalm
<1>9. CASE buf.write_cursor + n # ChunkSize
  <2>1. buf.write_cursor + n < ChunkSize
    BY <1>4, <1>6, <1>7, <1>9
  <2>2. ReadFirst(buf, n, received + 1).write_cursor = buf.write_cursor + n
    BY <1>3, <1>4, <1>6, <2>1, ReadFirstFields
  <2>3. CASE buf.write_cursor + n = 0
    <3>1. n = 0 /\ buf.write_cursor = 0 /\ received' = received
      BY <1>1, <1>4, <1>6, <2>3
    <3>2. Wrapped(ReadFirst(buf, n, received + 1))
      BY <2>2, <2>3 DEF Wrapped
    <3> QED BY <1>1, <1>2, <3>1, <3>2, FillNothingCalm
  <2>4. CASE buf.write_cursor + n # 0
    <3>1. ~Wrapped(ReadFirst(buf, n, received + 1))
      BY <2>2, <2>4 DEF Wrapped
    <3> QED BY <1>1, <1>2, <1>6, <2>1, <3>1, FillRoomCalm
  <2> QED BY <2>3, <2>4
<1> QED BY <1>8, <1>9

(* A second read that overtakes the read cursor: it restarts at 0. *)
LEMMA OvertakenFields ==
  ASSUME NEW b \in Buffer, NEW size \in Nat, NEW from \in Nat,
         b.write_cursor + size < ChunkSize,
         1 <= b.curr_frame, b.end = b.curr_frame, b.curr_frame <= b.read_cursor,
         b.read_cursor < b.write_cursor + size
  PROVE  LET c == ReadAgain(b, size, from)
         IN  /\ c \in Buffer
             /\ c.read_cursor = 0
             /\ c.write_cursor = b.write_cursor + size
             /\ c.end = b.write_cursor + size
             /\ c.curr_frame = 0
             /\ c.chunk = Stored(b, size, from)
<1> DEFINE wc    == Advanced(b, size)
           rc    == IF b.read_cursor < wc THEN 0 ELSE b.read_cursor
           moved == rc >= b.end
           r     == IF moved THEN rc - b.curr_frame ELSE rc
           e     == IF moved THEN wc ELSE b.end
           f     == IF e < wc THEN wc ELSE e
           ch    == Stored(b, size, from)
<1>1. wc = b.write_cursor + size /\ wc \in Nat
  BY ModBelow, BufferFields DEF Advanced
<1>2. r = 0 /\ f = wc
  BY <1>1, BufferFields
<1>3. ch \in Chunk
  BY StoredType
<1>4. ReadAgain(b, size, from) =
        [b EXCEPT !.write_cursor = wc, !.read_cursor = r, !.end = f,
                  !.curr_frame = 0, !.chunk = ch]
  BY DEF ReadAgain
<1> HIDE DEF wc, r, f, ch
<1>5. ReadAgain(b, size, from) =
        [read_cursor |-> r, write_cursor |-> wc, end |-> f,
         curr_frame |-> 0, chunk |-> ch]
  BY <1>4 DEF Buffer
<1>6. ReadAgain(b, size, from) \in Buffer
  BY <1>1, <1>2, <1>3, <1>5 DEF Buffer
<1> QED BY <1>1, <1>2, <1>5, <1>6 DEF ch

LEMMA OvertakenCalm ==
  ASSUME CalmInv, pc = "again", NEW n \in Nat,
         received + n \in Nat, received + n <= sent, received + 1 \in Nat,
         buf.write_cursor + n < ChunkSize, buf.read_cursor < buf.write_cursor + n,
         UNCHANGED <<peerVars, header, adj, delivered>>,
         received' = received + n,
         buf' = ReadAgain(buf, n, received + 1),
         pc' = AfterRead
  PROVE  CalmInv'
<1>1. /\ TypeOK /\ ApartInv /\ RowInv /\ PlaceInv
  BY DEF CalmInv, ReadInv, AtWork
<1>2. /\ buf \in Buffer /\ buf.read_cursor \in Nat /\ buf.write_cursor \in Nat
      /\ buf.curr_frame \in Nat /\ received \in Nat /\ ChunkSize \in Nat
      /\ Cells = 0 .. ChunkSize - 1 /\ Count \in Nat
  BY <1>1, RowFacts
<1>3. /\ buf.end = buf.curr_frame /\ buf.write_cursor = ChunkSize - buf.curr_frame
      /\ buf.curr_frame <= buf.read_cursor /\ buf.read_cursor <= ChunkSize
      /\ Shift = buf.curr_frame
  BY <1>1 DEF RowInv, Shift
<1>4. 1 <= buf.curr_frame
  BY <1>2, <1>3
<1>5. /\ buf' \in Buffer
      /\ buf'.read_cursor = 0
      /\ buf'.write_cursor = buf.write_cursor + n
      /\ buf'.end = buf.write_cursor + n
      /\ buf'.curr_frame = 0
      /\ buf'.chunk = Stored(buf, n, received + 1)
  BY <1>2, <1>3, <1>4, OvertakenFields, SMTT(40)
<1>6. pc' \in {"header", "payload"}
      /\ (pc' = "header" => header = NoFrame) /\ (pc' = "payload" => header # NoFrame)
  BY DEF AfterRead
<1>7. Shift' = 0
  BY <1>6 DEF Shift
<1>8. \A i : At(i)' = received + n + 1 - ((buf.write_cursor + n) - i)
  BY <1>5, AtNext
<1>9. RowInv'
  <2>1. \A i \in Cells : 0 <= i /\ i < buf.write_cursor => buf.chunk[i] = At(i)
    BY <1>1, <1>2, <1>3 DEF RowInv
  <2>2. \A i \in Cells : 0 <= i /\ i < buf.write_cursor + n =>
           Stored(buf, n, received + 1)[i] = received + n + 1 - ((buf.write_cursor + n) - i)
    BY <1>1, <2>1, RowExtends
  <2>3. ASSUME NEW i \in Cells, i < buf'.write_cursor PROVE buf'.chunk[i] = At(i)'
    <3>1. 0 <= i
      BY <1>2
    <3> QED BY <1>5, <1>8, <2>2, <2>3, <3>1
  <2>4. buf'.curr_frame <= buf'.read_cursor /\ buf'.read_cursor <= buf'.write_cursor
        /\ buf'.end = buf'.write_cursor /\ buf'.write_cursor < ChunkSize
    BY <1>2, <1>5
  <2> QED BY <1>6, <2>3, <2>4 DEF RowInv
<1>10. Ahead' = Origin /\ Origin' = Origin /\ Origin \in Int
  <2>1. Ahead' = At(0)' /\ Origin' = At(0)'
    BY <1>5, <1>7 DEF Ahead, Origin
  <2>2. Origin = received + 1 - (buf.write_cursor - (buf.curr_frame - buf.curr_frame))
    BY <1>3 DEF Origin, At
  <2> QED BY <1>2, <1>8, <2>1, <2>2, SMTT(40)
<1>11. wire' = wire /\ Count' = Count /\ header' = header
  BY DEF peerVars, Count
<1>12. PlaceInv'
  <2>1. CASE header # NoFrame
    <3>1. Ahead = Origin
      BY <1>1, <2>1 DEF PlaceInv, Ahead, Origin
    <3>2. Ahead' = Ahead
      BY <1>10, <3>1, Zenon
    <3> QED BY <1>1, <1>5, <1>6, <1>10, <1>11, <2>1, <3>2, PlaceKept
  <2>2. CASE header = NoFrame
    <3>1. /\ Count # 0 /\ wire[Count].len > 0
          /\ Origin = wire[Count].at + HeaderLen(wire[Count])
      BY <1>1, <1>4, <2>2 DEF PlaceInv
    <3>2. Count \in DOMAIN wire /\ wire[Count] \in Frame
      <4>1. Count \in DOMAIN wire
        BY <1>1, <1>2, <3>1, RowFacts DEF CalmInv, DeliveredInv
      <4> QED BY <1>1, <4>1, AnyFrame
    <3>3. wire[Count].at < Origin /\ Origin <= LastByte(wire[Count])
      BY <3>1, <3>2, AnySizes
    <3>4. InFrame(Ahead)'
      <4>1. LastByte(wire[Count])' = LastByte(wire[Count])
        BY <1>11 DEF LastByte, Size, HeaderLen, MaskLen
      <4>2. Count \in DOMAIN wire' /\ wire'[Count].at < Ahead' /\ Ahead' <= LastByte(wire'[Count])
        BY <1>10, <1>11, <3>2, <3>3
      <4> QED BY <1>11, <4>2 DEF InFrame, LastByte, Size, HeaderLen, MaskLen
    <3>5. HeaderLen(wire[Count])' = HeaderLen(wire[Count])
      BY <1>11 DEF HeaderLen, MaskLen
    <3> QED BY <1>6, <1>10, <1>11, <2>2, <3>1, <3>4, <3>5 DEF PlaceInv
  <2> QED BY <2>1, <2>2
<1>13. ReadInv'
  BY <1>6, <1>9, <1>12 DEF ReadInv
<1> QED BY <1>5, <1>6, <1>13, ReadingCalm DEF Locations

LEMMA MovedCalm ==
  ASSUME CalmInv, pc = "again", NEW n \in Nat,
         received + n \in Nat, received + n <= sent, received + 1 \in Nat,
         buf.write_cursor + n < ChunkSize, buf.write_cursor + n <= buf.read_cursor,
         UNCHANGED <<peerVars, header, adj, delivered>>,
         received' = received + n,
         buf' = ReadAgain(buf, n, received + 1),
         pc' = AfterRead
  PROVE  CalmInv'
<1>1. /\ TypeOK /\ ApartInv /\ RowInv /\ PlaceInv
  BY DEF CalmInv, ReadInv, AtWork
<1>2. /\ buf \in Buffer /\ buf.read_cursor \in Nat /\ buf.write_cursor \in Nat
      /\ buf.curr_frame \in Nat /\ received \in Nat /\ ChunkSize \in Nat
      /\ Cells = 0 .. ChunkSize - 1
  BY <1>1, RowFacts
<1>3. /\ buf.end = buf.curr_frame /\ buf.write_cursor = ChunkSize - buf.curr_frame
      /\ buf.curr_frame <= buf.read_cursor /\ buf.read_cursor <= ChunkSize
      /\ Shift = buf.curr_frame
  BY <1>1 DEF RowInv, Shift
<1>4. 1 <= buf.curr_frame
  BY <1>2, <1>3
<1>5. /\ buf' \in Buffer
      /\ buf'.read_cursor = buf.read_cursor - buf.curr_frame
      /\ buf'.write_cursor = buf.write_cursor + n
      /\ buf'.end = buf.write_cursor + n
      /\ buf'.curr_frame = 0
      /\ buf'.chunk = Stored(buf, n, received + 1)
  BY <1>2, <1>3, <1>4, ReadAgainFields, SMTT(40)
<1>6. pc' \in {"header", "payload"}
      /\ (pc' = "header" => header = NoFrame) /\ (pc' = "payload" => header # NoFrame)
  BY DEF AfterRead
<1>7. Shift' = 0
  BY <1>6 DEF Shift
<1>8. \A i : At(i)' = received + n + 1 - ((buf.write_cursor + n) - i)
  BY <1>5, AtNext
<1>9. RowInv'
  <2>1. \A i \in Cells : 0 <= i /\ i < buf.write_cursor => buf.chunk[i] = At(i)
    BY <1>1, <1>2, <1>3 DEF RowInv
  <2>2. \A i \in Cells : 0 <= i /\ i < buf.write_cursor + n =>
           Stored(buf, n, received + 1)[i] = received + n + 1 - ((buf.write_cursor + n) - i)
    BY <1>1, <2>1, RowExtends
  <2>3. ASSUME NEW i \in Cells, i < buf'.write_cursor PROVE buf'.chunk[i] = At(i)'
    <3>1. 0 <= i
      BY <1>2
    <3> QED BY <1>5, <1>8, <2>2, <2>3, <3>1
  <2>4. buf'.curr_frame <= buf'.read_cursor /\ buf'.read_cursor <= buf'.write_cursor
        /\ buf'.end = buf'.write_cursor /\ buf'.write_cursor < ChunkSize
    BY <1>2, <1>3, <1>5, SMTT(40)
  <2> QED BY <1>6, <2>3, <2>4 DEF RowInv
<1>10. Ahead' = Ahead /\ Origin' = Origin
  <2>1. /\ Ahead' = received + n + 1
                      - ((buf.write_cursor + n) - ((buf.read_cursor - buf.curr_frame) - 0))
        /\ Origin' = received + n + 1 - ((buf.write_cursor + n) - (0 - 0))
    BY <1>5, <1>7, <1>8, Zenon DEF Ahead, Origin
  <2>2. /\ Ahead = received + 1 - (buf.write_cursor - (buf.read_cursor - buf.curr_frame))
        /\ Origin = received + 1 - (buf.write_cursor - (buf.curr_frame - buf.curr_frame))
    BY <1>3 DEF Ahead, Origin, At
  <2>0. /\ buf.read_cursor \in Nat /\ buf.write_cursor \in Nat /\ buf.curr_frame \in Nat
        /\ received \in Nat
    BY <1>2
  <2>3. Ahead' = Ahead
    BY <2>0, <2>1, <2>2
  <2>4. Origin' = Origin
    BY <2>0, <2>1, <2>2
  <2> QED BY <2>3, <2>4
<1>11. PlaceInv'
  <2>1. wire' = wire
    BY DEF peerVars
  <2>2. header # NoFrame => buf'.read_cursor = buf'.curr_frame
    BY <1>1, <1>2, <1>5 DEF PlaceInv
  <2>3. ~(Count = 0 /\ header = NoFrame)
    BY <1>1, <1>4 DEF PlaceInv
  <2> QED BY <1>1, <1>6, <1>10, <2>1, <2>2, <2>3, PlaceKept
<1>12. ReadInv'
  BY <1>6, <1>9, <1>11 DEF ReadInv
<1> QED BY <1>5, <1>6, <1>12, ReadingCalm DEF Locations

LEMMA FillAgainCalm ==
  ASSUME CalmInv, FillAgain
  PROVE  CalmInv'
<1>1. PICK n \in ReadSizes(Room(buf)) :
        /\ received' = received + n
        /\ IF ReadAgainPanics(buf, n)
           THEN UNCHANGED buf /\ pc' = "panicked"
           ELSE /\ buf' = ReadAgain(buf, n, received + 1)
                /\ pc' = IF pc = "empty" /\ n = 0 THEN "closed" ELSE AfterRead
  BY DEF FillAgain
<1>2. pc \in {"again", "empty"} /\ UNCHANGED <<peerVars, header, adj, delivered>>
  BY DEF FillAgain
<1>3. TypeOK /\ ApartInv /\ ReadInv
  BY DEF CalmInv
<1>4. /\ buf \in Buffer /\ buf.read_cursor \in Nat /\ buf.write_cursor \in Nat
      /\ buf.curr_frame \in Nat /\ received \in Nat /\ ChunkSize \in Nat /\ 0 < ChunkSize
  BY <1>3, RowFacts
<1>5. buf.write_cursor <= ChunkSize
  <2>1. CASE pc = "again"
    BY <1>3, <1>4, <2>1 DEF ReadInv, AtWork, RowInv
  <2>2. CASE pc = "empty"
    BY <1>3, <1>4, <2>2 DEF ReadInv
  <2> QED BY <1>2, <2>1, <2>2
<1>6. Room(buf) \in Nat /\ Room(buf) = ChunkSize - buf.write_cursor
  BY <1>4, <1>5 DEF Room
<1>7. /\ n \in Nat /\ n <= Room(buf)
      /\ received + n \in Nat /\ received + n <= sent /\ received + 1 \in Nat
  BY <1>3, <1>6, AnyReadSize
<1>8. buf.write_cursor + n <= ChunkSize
  BY <1>4, <1>6, <1>7
<1>9. CASE ReadAgainPanics(buf, n)
  <2>1. pc' = "panicked" /\ buf' = buf
    BY <1>1, <1>9
  <2>2. ReadInv'
    BY <2>1 DEF ReadInv, AtWork
  <2> QED BY <1>1, <1>2, <1>4, <1>7, <2>1, <2>2, ReadingCalm DEF Locations, Stopped
<1>10. CASE ~ReadAgainPanics(buf, n)
  <2>1. buf.write_cursor + n < ChunkSize
    <3>1. buf.write_cursor + n # ChunkSize
      BY <1>10, ModWhole DEF ReadAgainPanics, Advanced
    <3> QED BY <1>4, <1>7, <1>8, <3>1
  <2>2. pc = "again"
    BY <1>2, <1>3, <1>4, <1>7, <2>1 DEF ReadInv
  <2>3. buf' = ReadAgain(buf, n, received + 1) /\ pc' = AfterRead /\ received' = received + n
    BY <1>1, <1>10, <2>2
  <2>4. CASE buf.write_cursor + n <= buf.read_cursor
    BY <1>2, <1>7, <2>1, <2>2, <2>3, <2>4, MovedCalm
  <2>5. CASE buf.read_cursor < buf.write_cursor + n
    BY <1>2, <1>7, <2>1, <2>2, <2>3, <2>5, OvertakenCalm
  <2> QED BY <1>4, <1>7, <2>4, <2>5
<1> QED BY <1>9, <1>10

-----------------------------------------------------------------------------
(* What every step keeps, continue frames and retried reads included. *)
LEMMA StreamGrows ==
  ASSUME wire \in Seq(Frame), received \in Nat, sent \in Nat, [Next]_vars
  PROVE  /\ wire' \in Seq(Frame) /\ received' \in Nat /\ sent' \in Nat
         /\ torn => torn'
         /\ \A k \in DOMAIN wire : k \in DOMAIN wire' /\ wire'[k] = wire[k]
<1>1. CASE PeerSend
  <2>1. PICK s \in Shapes :
          LET f == [kind |-> s.kind, ext |-> s.ext, mask |-> s.mask,
                    len |-> s.len, at |-> sent + 1]
          IN  wire' = Append(wire, f) /\ sent' = sent + Size(f)
    BY <1>1 DEF PeerSend
  <2> DEFINE f == [kind |-> s.kind, ext |-> s.ext, mask |-> s.mask,
                   len |-> s.len, at |-> sent + 1]
  <2>2. f \in Frame
    <3>1. s \in Shape
      BY FrameReaderAssumption
    <3> QED BY <3>1 DEF Shape, Frame
  <2>3. wire' = Append(wire, f) /\ sent' = sent + Size(f)
    BY <2>1
  <2> HIDE DEF f
  <2>4. Size(f) \in Nat
    BY <2>2 DEF Size, HeaderLen, MaskLen, Frame
  <2>5. torn' = torn /\ received' = received
    BY <1>1 DEF PeerSend
  <2>6. /\ wire' \in Seq(Frame)
        /\ \A k \in DOMAIN wire : k \in DOMAIN wire' /\ wire'[k] = wire[k]
    BY <2>2, <2>3
  <2> QED BY <2>3, <2>4, <2>5, <2>6
<1>2. CASE PeerClose
  <2>1. sent' \in received .. sent /\ torn' = torn /\ wire' = wire /\ received' = received
    BY <1>2 DEF PeerClose
  <2>2. sent' \in Nat
    BY <2>1
  <2> QED BY <2>1, <2>2
<1>3. CASE Fill \/ FillAgain
  <2>1. PICK n \in ReadSizes(Room(buf)) : received' = received + n
    BY <1>3 DEF Fill, FillAgain
  <2>2. n \in Nat
    BY <2>1, FrameReaderAssumption DEF ReadSizes
  <2>3. UNCHANGED peerVars
    BY <1>3 DEF Fill, FillAgain
  <2> QED BY <2>1, <2>2, <2>3 DEF peerVars
<1>4. CASE UNCHANGED <<peerVars, received>>
  BY <1>4 DEF peerVars
<1>5. CASE Reader /\ ~Fill /\ ~FillAgain /\ ~WouldBlock
  <2>1. UNCHANGED <<peerVars, received>>
    BY <1>5, Zenon DEF Reader, ReadFrame, AwaitHeader, PanicInHeader, ReadGarbage, AwaitMask,
          RefuseOpcode, ParseHeader, RefuseTooLong, TakePayload, PanicInPayload,
          AwaitPayload
  <2> QED BY <1>4, <2>1
<1>7. CASE WouldBlock
  BY <1>7 DEF WouldBlock
<1>6. CASE UNCHANGED vars
  BY <1>6 DEF vars
<1> QED BY <1>1, <1>2, <1>3, <1>5, <1>6, <1>7 DEF Next, Peer

(* A stream that is steady after a step was so before. *)
LEMMA SteadyBefore ==
  ASSUME wire \in Seq(Frame), received \in Nat, sent \in Nat, [Next]_vars, Steady'
  PROVE  Steady
<1>1. /\ torn => torn'
      /\ \A k \in DOMAIN wire : k \in DOMAIN wire' /\ wire'[k] = wire[k]
  BY StreamGrows
<1>2. ~torn
  BY <1>1 DEF Steady
<1>3. \A k \in DOMAIN wire' : wire'[k].kind # "continue"
  BY DEF Steady, NoContinuation
<1> QED BY <1>1, <1>2, <1>3 DEF Steady, NoContinuation

LEMMA InitCalm ==
  ASSUME Init
  PROVE  WholeInv
<1>1. /\ buf.read_cursor = Junk /\ buf.write_cursor = Junk
      /\ buf.end = Junk /\ buf.curr_frame = 0
      /\ \A i \in Cells : i < Junk => buf.chunk[i] = i + 1
      /\ TypeOK
  BY InitState
<1>2. /\ wire = << >> /\ sent = Junk /\ eof = FALSE /\ received = Junk
      /\ header = NoFrame /\ adj = 0 /\ pc = "idle" /\ delivered = << >>
      /\ torn = FALSE
  BY DEF Init
<1>3. /\ Junk \in Nat /\ Junk < ChunkSize /\ ChunkSize \in Nat /\ DOMAIN wire = {}
      /\ Len(wire) = 0 /\ Count = 0
  BY <1>2, FrameReaderAssumption, ChunkSizeAssumption DEF Count
<1>4. EndOf(0) = Junk
  BY DEF EndOf
<1>5. ApartInv
  BY <1>2, <1>3, <1>4 DEF ApartInv
<1>6. DeliveredInv
  BY <1>3 DEF DeliveredInv
<1>7. Shift = 0
  BY <1>2 DEF Shift
<1>8. RowInv
  <2>1. ASSUME NEW i \in Cells, buf.curr_frame - Shift <= i, i < buf.write_cursor
        PROVE  buf.chunk[i] = At(i)
    <3>1. i \in Int /\ buf.chunk[i] = i + 1
      BY <1>1, <2>1 DEF Cells
    <3> QED BY <1>1, <1>2, <1>3, <3>1 DEF At
  <2> QED BY <1>1, <1>2, <1>3, <2>1 DEF RowInv
<1>9. PlaceInv
  <2>1. Ahead = Junk + 1
    BY <1>1, <1>2, <1>3, <1>7 DEF Ahead, At
  <2> QED BY <1>1, <1>2, <1>3, <1>4, <2>1 DEF PlaceInv
<1> QED BY <1>1, <1>2, <1>5, <1>6, <1>8, <1>9 DEF WholeInv, CalmInv, ReadInv, TypeOK

LEMMA NextCalm ==
  ASSUME WholeInv, [Next]_vars
  PROVE  WholeInv'
<1>1. wire \in Seq(Frame) /\ received \in Nat /\ sent \in Nat
  BY DEF WholeInv
<1>2. wire' \in Seq(Frame) /\ received' \in Nat /\ sent' \in Nat
  BY <1>1, StreamGrows
<1>3. ASSUME Steady' PROVE CalmInv'
  <2>1. Steady
    BY <1>1, <1>3, SteadyBefore
  <2>2. CalmInv /\ NoContinuation /\ ~torn'
    BY <1>3, <2>1 DEF WholeInv, Steady
  <2>3. CASE Peer
    BY <2>2, <2>3, PeerSendCalm, PeerCloseCalm DEF Peer
  <2>4. CASE \/ ReadFrame \/ AwaitHeader \/ AwaitPayload \/ RefuseTooLong
             \/ PanicInHeader \/ ReadGarbage \/ PanicInPayload
    BY <2>2, <2>4, PlainStepsCalm
  <2>5. CASE AwaitMask
    BY <2>2, <2>5, AwaitMaskCalm
  <2>6. CASE RefuseOpcode
    BY <2>2, <2>6, RefuseOpcodeCalm
  <2>7. CASE ParseHeader
    BY <2>2, <2>7, ParseHeaderCalm
  <2>8. CASE TakePayload
    BY <2>2, <2>8, TakePayloadCalm
  <2>9. CASE Fill
    BY <2>2, <2>9, FillCalm
  <2>10. CASE FillAgain
    BY <2>2, <2>10, FillAgainCalm
  <2>11. CASE WouldBlock
    BY <2>2, <2>11, PlainStepsCalm
  <2>12. CASE UNCHANGED vars
    <3>1. UNCHANGED <<mode, wire, sent, eof, torn, received, buf, header, adj, pc, delivered>>
      BY <2>12 DEF vars
    <3>2. TypeOK' = TypeOK
      BY <3>1, Zenon DEF TypeOK
    <3>3. ApartInv'
      <4>1. TypeOK /\ ApartInv /\ received' <= sent /\ UNCHANGED peerVars
        BY <2>2, <3>1 DEF CalmInv, ApartInv, peerVars
      <4> QED BY <4>1, ReaderKeeps
    <3>4. DeliveredInv'
      BY <2>2, <3>1, DeliveredKept DEF CalmInv
    <3>5. RowInv' = RowInv
      BY <3>1, Zenon DEF RowInv, Shift, At
    <3>6. PlaceInv' = PlaceInv
      BY <3>1, Zenon DEF PlaceInv, InFrame, Ahead, Origin, At, Shift, Count, EndOf,
            LastByte, Size, HeaderLen, MaskLen
    <3>7. ReadInv' = ReadInv
      BY <3>1, <3>5, <3>6, Zenon DEF ReadInv, AtWork
    <3> QED BY <2>2, <3>1, <3>2, <3>3, <3>4, <3>7, Zenon DEF CalmInv
  <2> QED BY <2>3, <2>4, <2>5, <2>6, <2>7, <2>8, <2>9, <2>10, <2>11, <2>12
          DEF Next, Reader
<1> QED BY <1>2, <1>3 DEF WholeInv

(* Without continue frames, and as long as no wrap is left half done, the  *)
(* buffer holds the stream without a gap, whatever the sizes and whatever  *)
(* first reads are given up and retried; the read cursor stands in front   *)
(* of the next header, behind the one just parsed, or inside a frame.      *)
THEOREM WholeInvariance == Spec => []WholeInv
<1>1. Init => WholeInv
  BY InitCalm
<1>2. WholeInv /\ [Next]_vars => WholeInv'
  BY NextCalm
<1> QED BY <1>1, <1>2, PTL DEF Spec

(* No limit on the sizes: as long as no payload is shifted to join a       *)
(* message and no wrap is left between its two reads, what read_frame      *)
(* hands over before it stops, or takes bytes inside a frame for a header, *)
(* are the payloads that were sent, in order, none skipped.  Neither a     *)
(* buffer that is overrun, nor a mask that arrives late, nor a WouldBlock  *)
(* of a first read makes it cut a payload wrongly while it still follows   *)
(* the headers that were sent.                                             *)
THEOREM WholeFrames == Spec => []WholeFramesIntact
<1>1. WholeInv => WholeFramesIntact
  <2> SUFFICES ASSUME WholeInv, NoContinuation, ~torn PROVE DeliveredIntact
    BY DEF WholeFramesIntact
  <2>1. CalmInv
    BY DEF WholeInv, Steady
  <2>2. DeliveredInv /\ delivered \in Seq(Seq(Nat))
    BY <2>1 DEF CalmInv, TypeOK
  <2>3. DOMAIN delivered = 1 .. Len(delivered)
    BY <2>2
  <2> QED BY <2>2, <2>3 DEF DeliveredInv, DeliveredIntact, Count
<1> QED BY <1>1, WholeInvariance, PTL
=============================================================================
