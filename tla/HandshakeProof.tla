--------------------------- MODULE HandshakeProof ---------------------------
(***************************************************************************)
(* Proofs about Handshake, for every length of the two messages, every     *)
(* size of read, every limit and every number of redirects.                *)
(***************************************************************************)
EXTENDS HandshakeInvariant, SequenceTheorems, TLAPS

-----------------------------------------------------------------------------
(* The buffer while nothing has been consumed *)

LEMMA Sizes ==
  /\ ChunkSize \in Nat \ {0} /\ InLen \in Nat \ {0} /\ OutLen \in Nat \ {0}
  /\ MaxRead \in Nat \ {0}
  /\ MaxBehind \in Nat /\ MaxRedirects \in Nat /\ InLen + MaxBehind < ChunkSize
  BY ChunkSizeAssumption, HandshakeAssumption

LEMMA FirstBytesProperties ==
  ASSUME NEW n \in Nat
  PROVE  /\ FirstBytes(n) \in Seq(Nat)
         /\ Len(FirstBytes(n)) = n
         /\ \A k \in 1 .. n : FirstBytes(n)[k] = k
<1>1. FirstBytes(n) \in [1 .. n -> Nat]
  BY DEF FirstBytes
<1>2. FirstBytes(n) \in Seq(Nat)
  BY <1>1, SeqDef
<1>3. DOMAIN FirstBytes(n) = 1 .. n
  BY DEF FirstBytes
<1>4. Len(FirstBytes(n)) = n
  BY <1>2, <1>3, LenProperties
<1>5. QED
  BY <1>2, <1>4 DEF FirstBytes

LEMMA HoldingFields ==
  ASSUME NEW n \in Nat
  PROVE  /\ Holding(n) \in Buffer
         /\ Holding(n).read_cursor = 0
         /\ Holding(n).write_cursor = n
         /\ Holding(n).end = n
         /\ Holding(n).curr_frame = 0
         /\ Holding(n).chunk = [i \in Cells |-> IF i < n THEN i + 1 ELSE 0]
<1> DEFINE ch == [i \in Cells |-> IF i < n THEN i + 1 ELSE 0]
<1>1. ASSUME NEW i \in Cells
      PROVE  (IF i < Len(FirstBytes(n)) THEN FirstBytes(n)[i + 1] ELSE 0) = (IF i < n THEN i + 1 ELSE 0)
  <2>1. i \in Nat
    BY Sizes DEF Cells
  <2>2. CASE i < n
    <3>1. i + 1 \in 1 .. n
      BY <2>1, <2>2
    <3>2. QED
      BY <2>2, <3>1, FirstBytesProperties
  <2>3. CASE ~(i < n)
    BY <2>3, FirstBytesProperties
  <2>4. QED
    BY <2>2, <2>3
<1>2. [i \in Cells |-> IF i < Len(FirstBytes(n)) THEN FirstBytes(n)[i + 1] ELSE 0] = ch
  BY <1>1, Zenon
<1>3. Len(FirstBytes(n)) = n
  BY FirstBytesProperties
<1>4. Holding(n) = [read_cursor |-> 0, write_cursor |-> n, end |-> n, curr_frame |-> 0, chunk |-> ch]
  BY <1>2, <1>3, Zenon DEF Holding, FromPartiallyRead
<1>5. ch \in Chunk
  <2>1. \A i \in Cells : (IF i < n THEN i + 1 ELSE 0) \in Nat
    BY Sizes DEF Cells
  <2>2. QED
    BY <2>1 DEF Chunk
<1>6. QED
  BY <1>4, <1>5 DEF Buffer

(* Every cell of a buffer that holds the first n bytes. *)
LEMMA HoldingCell ==
  ASSUME NEW n \in Nat, NEW i \in Cells
  PROVE  Holding(n).chunk[i] = IF i < n THEN i + 1 ELSE 0
<1>1. Holding(n).chunk = [j \in Cells |-> IF j < n THEN j + 1 ELSE 0]
  BY HoldingFields
<1>2. QED
  BY <1>1, Zenon

LEMMA NewBufferEmpty == NewBuffer = Holding(0)
<1>1. FirstBytes(0) = << >>
  BY FirstBytesProperties, EmptySeq
<1>2. QED
  BY <1>1 DEF NewBuffer, Holding

(* Reading n bytes more, the buffer not being filled. *)
LEMMA ReadMore ==
  ASSUME NEW r \in Nat, NEW n \in Nat, r + n < ChunkSize
  PROVE  ReadFirst(Holding(r), n, r + 1) = Holding(r + n)
<1> DEFINE b == Holding(r)
           c == Holding(r + n)
<1>1. Advanced(b, n) = r + n
  <2>1. b.write_cursor = r
    BY HoldingFields
  <2>2. (r + n) % ChunkSize = r + n
    BY Sizes
  <2>3. QED
    BY <2>1, <2>2 DEF Advanced
<1>2. (IF b.end < r + n THEN r + n ELSE b.end) = r + n
  <2>1. b.end = r
    BY HoldingFields
  <2>2. QED
    BY <2>1
<1>3. ASSUME NEW i \in Cells
      PROVE  (IF b.write_cursor <= i /\ i < b.write_cursor + n
              THEN (r + 1) + (i - b.write_cursor) ELSE b.chunk[i])
             = (IF i < r + n THEN i + 1 ELSE 0)
  <2>1. i \in Nat
    BY Sizes DEF Cells
  <2>2. b.write_cursor = r /\ b.chunk[i] = (IF i < r THEN i + 1 ELSE 0)
    BY HoldingFields, HoldingCell
  <2>3. QED
    BY <2>1, <2>2
<1>4. Stored(b, n, r + 1) = c.chunk
  <2>1. c.chunk = [i \in Cells |-> IF i < r + n THEN i + 1 ELSE 0]
    BY HoldingFields
  <2>2. QED
    BY <1>3, <2>1, Zenon DEF Stored
<1>5. ReadFirst(b, n, r + 1) = [b EXCEPT !.write_cursor = r + n, !.end = r + n, !.chunk = c.chunk]
  <2>1. ReadFirst(b, n, r + 1) =
          [b EXCEPT !.write_cursor = Advanced(b, n),
                    !.end = IF b.end < Advanced(b, n) THEN Advanced(b, n) ELSE b.end,
                    !.chunk = Stored(b, n, r + 1)]
    BY Zenon DEF ReadFirst
  <2>2. QED
    BY <1>1, <1>2, <1>4, <2>1, Zenon
<1>6. /\ b \in Buffer /\ b.read_cursor = 0 /\ b.curr_frame = 0
      /\ c \in Buffer /\ c.read_cursor = 0 /\ c.curr_frame = 0
      /\ c.write_cursor = r + n /\ c.end = r + n
  <2>1. r + n \in Nat
    OBVIOUS
  <2>2. QED
    BY <2>1, HoldingFields
<1> HIDE DEF b, c
<1>7. ReadFirst(b, n, r + 1) = c
  BY <1>5, <1>6 DEF Buffer
<1>8. QED
  BY <1>7 DEF b, c

LEMMA HoldingRemaining ==
  ASSUME NEW n \in Nat
  PROVE  Remaining(Holding(n)) = n
<1>1. Holding(n).read_cursor = 0 /\ Holding(n).write_cursor = n
  BY HoldingFields
<1>2. QED
  BY <1>1 DEF Remaining

LEMMA HoldingTaken ==
  ASSUME NEW n \in Nat, n < ChunkSize
  PROVE  Taken(Holding(n), n) = FirstBytes(n)
<1>1. ASSUME NEW k \in 1 .. n
      PROVE  Holding(n).chunk[Holding(n).read_cursor + k - 1] = k
  <2>1. k - 1 \in Cells /\ k - 1 < n /\ (k - 1) + 1 = k /\ 0 + k - 1 = k - 1
    BY Sizes DEF Cells
  <2>2. Holding(n).chunk[k - 1] = IF k - 1 < n THEN (k - 1) + 1 ELSE 0
    BY <2>1, HoldingCell
  <2>3. Holding(n).read_cursor = 0
    BY HoldingFields
  <2>4. QED
    BY <2>1, <2>2, <2>3, Zenon
<1>2. QED
  BY <1>1, Zenon DEF Taken, FirstBytes

(* The end of the stream looks like a wrap if nothing was read before, and *)
(* only then; the second read then fills an empty buffer with nothing.     *)
LEMMA EndOfStream ==
  ASSUME NEW r \in Nat, r < ChunkSize
  PROVE  LET b == ReadFirst(Holding(r), 0, r + 1)
         IN  Wrapped(b) /\ ReadAgainPanics(MigrateTail(b), 0) <=> r = 0
<1>1. ReadFirst(Holding(r), 0, r + 1) = Holding(r)
  BY ReadMore
<1>2. Wrapped(Holding(r)) <=> r = 0
  BY HoldingFields DEF Wrapped
<1>3. ReadAgainPanics(MigrateTail(Holding(r)), 0)
  <2>1. MigrateTail(Holding(r)).write_cursor = ChunkSize
    <3> DEFINE b  == Holding(r)
               ch == CopyWithin(b.chunk, b.curr_frame, ChunkSize, 0)
    <3>1. b \in Buffer /\ b.curr_frame = 0 /\ ChunkSize - 0 = ChunkSize
      <4>1. b \in Buffer /\ b.curr_frame = 0
        BY HoldingFields
      <4>2. ChunkSize - 0 = ChunkSize
        BY Sizes
      <4>3. QED
        BY <4>1, <4>2
    <3>2. MigrateTail(b) =
            [b EXCEPT !.end = b.curr_frame, !.write_cursor = ChunkSize - b.curr_frame, !.chunk = ch]
      BY Zenon DEF MigrateTail
    <3> HIDE DEF b, ch
    <3>3. MigrateTail(b) = [b EXCEPT !.end = 0, !.write_cursor = ChunkSize, !.chunk = ch]
      BY <3>1, <3>2
    <3>4. MigrateTail(b).write_cursor = ChunkSize
      BY <3>1, <3>3 DEF Buffer
    <3>5. QED
      BY <3>4 DEF b
  <2>2. (ChunkSize + 0) % ChunkSize = 0
    BY Sizes
  <2>3. QED
    BY <2>1, <2>2, Zenon DEF ReadAgainPanics, Advanced
<1>4. QED
  BY <1>1, <1>2, <1>3, Zenon

-----------------------------------------------------------------------------
(* The tail that is handed to the frame reader.  into_vec never returns    *)
(* nothing: when the message was all that came, it returns the message.    *)

LEMMA Consumed ==
  ASSUME NEW r \in Nat, InLen <= r
  PROVE  /\ TakeRef(Holding(r), InLen) \in Buffer
         /\ TakeRef(Holding(r), InLen).read_cursor = InLen
         /\ TakeRef(Holding(r), InLen).write_cursor = r
         /\ TakeRef(Holding(r), InLen).end = r
         /\ TakeRef(Holding(r), InLen).chunk = Holding(r).chunk
<1> DEFINE b == Holding(r)
<1>1. /\ b \in Buffer /\ b.read_cursor = 0 /\ b.write_cursor = r /\ b.end = r
  BY HoldingFields
<1> HIDE DEF b
<1>2. TakeRef(b, InLen) = [b EXCEPT !.read_cursor = b.read_cursor + InLen]
  BY <1>1, Sizes DEF TakeRef
<1>3. QED
  BY <1>1, <1>2, Sizes DEF b, Buffer

LEMMA TailAll ==
  TailOf(Holding(InLen)) = FirstBytes(InLen)
<1> DEFINE b == TakeRef(Holding(InLen), InLen)
<1>1. /\ b.read_cursor = InLen /\ b.write_cursor = InLen /\ b.end = InLen
      /\ b.chunk = Holding(InLen).chunk
  BY Consumed, Sizes
<1>2. ~(b.read_cursor < b.write_cursor) /\ b.end - b.read_cursor = 0
  BY <1>1, Sizes
<1>3. Taken(b, 0) = << >>
  BY SMT DEF Taken
<1>4. ASSUME NEW k \in 1 .. InLen
      PROVE  b.chunk[k - 1] = k
  <2>1. k - 1 \in Cells /\ k - 1 < InLen /\ k \in Nat
    BY Sizes DEF Cells
  <2>2. Holding(InLen).chunk[k - 1] = (k - 1) + 1
    BY <2>1, HoldingCell, Sizes
  <2>3. QED
    BY <1>1, <2>1, <2>2
<1>5. [k \in 1 .. b.write_cursor |-> b.chunk[k - 1]] = FirstBytes(InLen)
  BY <1>1, <1>4, Zenon DEF FirstBytes
<1>6. IntoVec(b) = << >> \o FirstBytes(InLen)
  BY <1>2, <1>3, <1>5, Zenon DEF IntoVec
<1>7. QED
  BY <1>6, FirstBytesProperties, Sizes, ConcatEmptySeq DEF TailOf

LEMMA TailBehind ==
  ASSUME NEW r \in Nat, InLen < r, r < ChunkSize
  PROVE  /\ TailOf(Holding(r)) \in Seq(Nat)
         /\ Len(TailOf(Holding(r))) = r - InLen
<1> DEFINE b == TakeRef(Holding(r), InLen)
           t == [k \in 1 .. r - InLen |-> b.chunk[InLen + k - 1]]
<1>1. /\ b.read_cursor = InLen /\ b.write_cursor = r /\ b.chunk = Holding(r).chunk
  BY Consumed, Sizes
<1>2. b.chunk \in Chunk
  BY <1>1, HoldingFields DEF Buffer
<1>3. TailOf(Holding(r)) = t
  BY <1>1, Sizes DEF TailOf, IntoVec, Taken
<1>4. \A k \in 1 .. r - InLen : b.chunk[InLen + k - 1] \in Nat
  <2>1. \A k \in 1 .. r - InLen : InLen + k - 1 \in Cells
    BY Sizes DEF Cells
  <2> HIDE DEF b
  <2>2. QED
    BY <1>2, <2>1 DEF Chunk
<1> HIDE DEF b
<1>5. t \in [1 .. r - InLen -> Nat] /\ r - InLen \in Nat
  BY <1>4, Sizes
<1>6. t \in Seq(Nat)
  BY <1>5, SeqDef
<1>7. DOMAIN t = 1 .. r - InLen
  OBVIOUS
<1> HIDE DEF t
<1>8. Len(t) = r - InLen
  BY <1>5, <1>6, <1>7, LenProperties
<1>9. QED
  BY <1>3, <1>6, <1>8

LEMMA TailNotEmpty ==
  ASSUME NEW r \in Nat, InLen <= r, r < ChunkSize
  PROVE  TailOf(Holding(r)) # << >> /\ TailOf(Holding(r)) \in Seq(Nat)
<1>1. CASE r = InLen
  <2>1. TailOf(Holding(r)) = FirstBytes(InLen)
    BY <1>1, TailAll
  <2>2. QED
    BY <2>1, FirstBytesProperties, Sizes, EmptySeq
<1>2. CASE r # InLen
  <2>1. InLen < r
    BY <1>2, Sizes
  <2>2. TailOf(Holding(r)) \in Seq(Nat) /\ Len(TailOf(Holding(r))) # 0
    BY <2>1, TailBehind, Sizes
  <2>3. QED
    BY <2>2, EmptySeq
<1>3. QED
  BY <1>1, <1>2

(* A buffer made of what was read too far. *)
LEMMA PartFields ==
  ASSUME NEW part \in Seq(Nat)
  PROVE  /\ FromPartiallyRead(part) \in Buffer
         /\ FromPartiallyRead(part).read_cursor = 0
         /\ FromPartiallyRead(part).write_cursor = FromPartiallyRead(part).end
<1> DEFINE ch == [i \in Cells |-> IF i < Len(part) THEN part[i + 1] ELSE 0]
<1>1. Len(part) \in Nat
  BY LenProperties
<1>2. ASSUME NEW i \in Cells
      PROVE  (IF i < Len(part) THEN part[i + 1] ELSE 0) \in Nat
  <2>1. i \in Nat
    BY Sizes DEF Cells
  <2>2. CASE i < Len(part)
    <3>1. i + 1 \in 1 .. Len(part)
      BY <1>1, <2>1, <2>2
    <3>2. QED
      BY <2>2, <3>1, ElementOfSeq
  <2>3. CASE ~(i < Len(part))
    BY <2>3
  <2>4. QED
    BY <2>2, <2>3
<1>3. ch \in Chunk
  BY <1>2 DEF Chunk
<1> HIDE DEF ch
<1>4. FromPartiallyRead(part) = [read_cursor |-> 0, write_cursor |-> Len(part), end |-> Len(part),
                                 curr_frame |-> 0, chunk |-> ch]
  BY DEF FromPartiallyRead, ch
<1>5. QED
  BY <1>1, <1>3, <1>4 DEF Buffer

(* The application's step over its buffer leaves nothing unread. *)
LEMMA SteppedOver ==
  ASSUME NEW b \in Buffer, b.read_cursor = 0, b.write_cursor = b.end
  PROVE  /\ ~TakeRefPanics(b, b.write_cursor)
         /\ TakeRef(b, b.write_cursor) = [b EXCEPT !.read_cursor = b.write_cursor]
  BY DEF TakeRefPanics, TakeRef, Buffer

-----------------------------------------------------------------------------
(* The invariant *)

LEMMA Parts ==
  ASSUME HandInv
  PROVE  /\ TypeOK /\ CallInv /\ ReadingInv /\ DoneInv /\ Handover /\ FailsForCause
         /\ entry \in Entries /\ entry \in {"connect", "client", "accept"}
         /\ pc \in Locations /\ result \in Errors
         /\ stage \in {"writing", "flushing", "reading"}
         /\ left \in 0 .. OutLen /\ buf \in Buffer
         /\ packets \in Nat /\ bytes \in Nat /\ rejects \in BOOLEAN
         /\ attempt \in 0 .. MaxRedirects
         /\ answer \in AllAnswers \cup {"none"}
         /\ total \in 0 .. InLen + MaxBehind /\ total \in Nat
         /\ arrived \in 0 .. total /\ arrived \in Nat
         /\ peer_open \in BOOLEAN
         /\ received \in 0 .. arrived /\ received \in Nat
         /\ received < ChunkSize
<1>1. /\ TypeOK /\ CallInv /\ ReadingInv /\ DoneInv /\ Handover /\ FailsForCause
  BY DEF HandInv
<1>2. total \in 0 .. InLen + MaxBehind /\ arrived \in 0 .. total /\ received \in 0 .. arrived
  BY <1>1 DEF TypeOK
<1>3. total \in Nat /\ arrived \in Nat /\ received \in Nat /\ received < ChunkSize
  BY <1>2, Sizes
<1>4. entry \in {"connect", "client", "accept"}
  BY <1>1, HandshakeAssumption DEF TypeOK
<1>5. QED
  BY <1>1, <1>2, <1>3, <1>4, Zenon DEF TypeOK

LEMMA HandInit == Init => HandInv
<1> SUFFICES ASSUME Init PROVE HandInv
  OBVIOUS
<1>1. NewBuffer = Holding(0) /\ NewBuffer \in Buffer
  BY NewBufferEmpty, HoldingFields
<1>2. TypeOK
  <2>1. left \in 0 .. OutLen /\ total \in 0 .. InLen + MaxBehind /\ arrived \in 0 .. total
        /\ received \in 0 .. arrived /\ attempt \in 0 .. MaxRedirects
    BY Sizes DEF Init
  <2>2. stage \in {"writing", "flushing", "reading"}
    BY DEF Init
  <2>3. QED
    BY <1>1, <2>1, <2>2 DEF Init, TypeOK, Locations, Errors
<1>3. CallInv
  BY DEF Init, CallInv
<1>4. ReadingInv
  BY <1>1, Sizes DEF Init, ReadingInv
<1>5. DoneInv /\ Handover
  BY DEF Init, DoneInv, Handover
<1>6. FailsForCause
  BY DEF Init, FailsForCause, IsClient
<1>7. QED
  BY <1>2, <1>3, <1>4, <1>5, <1>6 DEF HandInv

LEMMA HandStutter ==
  ASSUME HandInv, UNCHANGED vars
  PROVE  HandInv'
<1>1. UNCHANGED <<entry, pc, result, stage, left, buf, packets, bytes, rejects, attempt,
                  answer, total, arrived, peer_open, received>>
  BY DEF vars, machine, peer
<1>2. TypeOK' /\ CallInv'
  BY <1>1, Parts DEF TypeOK, CallInv
<1>3. ReadingInv' /\ DoneInv' /\ Handover'
  BY <1>1, Parts DEF ReadingInv, DoneInv, Handover, Going
<1>4. FailsForCause'
  BY <1>1, Parts DEF FailsForCause, IsClient
<1>5. QED
  BY <1>2, <1>3, <1>4 DEF HandInv

-----------------------------------------------------------------------------
(* The peer *)

LEMMA HandPeerSends ==
  ASSUME HandInv, PeerSends
  PROVE  HandInv'
<1>1. /\ UNCHANGED <<entry, pc, result, stage, left, buf, packets, bytes, rejects, attempt,
                     arrived, peer_open, received>>
      /\ answer = "none" /\ peer_open /\ answer' \in Answers /\ total' \in InLen .. InLen + MaxBehind
  BY DEF PeerSends, machine
<1>2. total = 0 /\ arrived = 0 /\ received = 0
  BY <1>1, Parts DEF CallInv
<1>3. answer' \in AllAnswers /\ answer' # "none"
  BY <1>1, HandshakeAssumption DEF AllAnswers
<1>4. TypeOK'
  <2>1. total' \in 0 .. InLen + MaxBehind /\ arrived' \in 0 .. total' /\ received' \in 0 .. arrived'
    BY <1>1, <1>2, Sizes
  <2>2. QED
    BY <1>1, <1>3, <2>1, Parts DEF TypeOK
<1>5. CallInv'
  BY <1>1, <1>3, Parts DEF CallInv
<1>6. ReadingInv' /\ DoneInv' /\ Handover'
  BY <1>1, <1>2, Parts, Sizes DEF ReadingInv, DoneInv, Handover, Going
<1>7. FailsForCause'
  BY <1>1, Parts DEF FailsForCause, IsClient
<1>8. QED
  BY <1>4, <1>5, <1>6, <1>7 DEF HandInv

LEMMA HandArrive ==
  ASSUME HandInv, Arrive
  PROVE  HandInv'
<1>1. /\ UNCHANGED <<entry, pc, result, stage, left, buf, packets, bytes, rejects, attempt,
                     answer, total, peer_open, received>>
      /\ arrived' \in arrived + 1 .. total
  BY DEF Arrive, machine
<1>2. arrived' \in 0 .. total' /\ received' \in 0 .. arrived'
  BY <1>1, Parts
<1>3. TypeOK' /\ CallInv'
  BY <1>1, <1>2, Parts DEF TypeOK, CallInv
<1>4. ReadingInv' /\ DoneInv' /\ Handover' /\ FailsForCause'
  BY <1>1, Parts DEF ReadingInv, DoneInv, Handover, Going, FailsForCause, IsClient
<1>5. QED
  BY <1>3, <1>4 DEF HandInv

LEMMA HandPeerCloses ==
  ASSUME HandInv, PeerCloses
  PROVE  HandInv'
<1>1. /\ UNCHANGED <<entry, pc, result, stage, left, buf, packets, bytes, rejects, attempt,
                     answer, arrived, received>>
      /\ peer_open' = FALSE /\ total' = arrived
  BY DEF PeerCloses, machine
<1>2. total' \in 0 .. InLen + MaxBehind /\ arrived' \in 0 .. total'
  BY <1>1, Parts, Sizes
<1>3. TypeOK'
  BY <1>1, <1>2, Parts DEF TypeOK
<1>4. CallInv'
  BY <1>1, Parts DEF CallInv
<1>5. ReadingInv' /\ DoneInv' /\ Handover'
  BY <1>1, Parts DEF ReadingInv, DoneInv, Handover, Going
<1>6. FailsForCause'
  BY <1>1, Parts DEF FailsForCause, IsClient
<1>7. QED
  BY <1>3, <1>4, <1>5, <1>6 DEF HandInv

-----------------------------------------------------------------------------
(* Writing *)

(* A server never writes: it never gets past the request it has read. *)
LEMMA WriterIsClient ==
  ASSUME HandInv, stage # "reading"
  PROVE  IsClient
  BY Parts DEF FailsForCause

LEMMA HandWriteRound ==
  ASSUME HandInv, WriteRound
  PROVE  HandInv'
<1>1. PICK n \in 1 .. left : left' = left - n /\ stage' = IF n = left THEN "flushing" ELSE "writing"
  BY DEF WriteRound
<1>2. /\ UNCHANGED <<entry, pc, result, buf, packets, bytes, rejects, attempt,
                     answer, total, arrived, peer_open, received>>
      /\ pc = "running" /\ stage = "writing"
  BY DEF WriteRound, Running, peer
<1>3. stage' \in {"flushing", "writing"} /\ left' \in 0 .. OutLen
  BY <1>1, Parts, Sizes
<1>4. TypeOK' /\ CallInv'
  BY <1>2, <1>3, Parts DEF TypeOK, CallInv
<1>5. ReadingInv' /\ DoneInv' /\ Handover'
  BY <1>2, <1>3, Parts DEF ReadingInv, DoneInv, Handover, Going
<1>6. FailsForCause'
  BY <1>2, <1>3, Parts, WriterIsClient DEF FailsForCause, IsClient
<1>7. QED
  BY <1>4, <1>5, <1>6 DEF HandInv

LEMMA HandFlushRound ==
  ASSUME HandInv, FlushRound
  PROVE  HandInv'
<1>1. IsClient /\ pc = "running" /\ stage = "flushing"
  BY WriterIsClient DEF FlushRound, Running
<1>2. /\ UNCHANGED <<entry, left, attempt, answer, total, arrived, peer_open, received,
                     pc, result, rejects>>
      /\ stage' = "reading" /\ buf' = NewBuffer /\ packets' = 0 /\ bytes' = 0
  BY <1>1 DEF FlushRound, StartRead, peer
<1>3. buf' = Holding(0) /\ buf' \in Buffer
  BY <1>2, NewBufferEmpty, HoldingFields
<1>4. received = 0
  BY <1>1, Parts DEF ReadingInv, Going
<1>5. TypeOK' /\ CallInv'
  BY <1>2, <1>3, Parts DEF TypeOK, CallInv
<1>6. ReadingInv'
  BY <1>2, <1>3, <1>4, Sizes DEF ReadingInv
<1>7. DoneInv' /\ Handover'
  BY <1>1, <1>2 DEF DoneInv, Handover
<1>8. FailsForCause'
  BY <1>1, <1>2, Parts DEF FailsForCause, IsClient
<1>9. QED
  BY <1>5, <1>6, <1>7, <1>8 DEF HandInv

-----------------------------------------------------------------------------
(* Steps that only end or interrupt a call *)

(* The call returns an error, and all else stays as it is. *)
LEMMA HandFail ==
  ASSUME HandInv, Going, pc' = "failed",
         NEW e \in Errors \ {"None", "HandshakeIncomplete", "JunkAfterRequest"}, result' = e,
         UNCHANGED <<entry, machine, attempt, peer, received>>
  PROVE  HandInv'
<1>1. UNCHANGED <<entry, stage, left, buf, packets, bytes, rejects, attempt,
                  answer, total, arrived, peer_open, received>>
  BY DEF machine, peer
<1>2. TypeOK'
  BY <1>1, Parts DEF TypeOK, Locations
<1>3. CallInv' /\ ReadingInv' /\ DoneInv' /\ Handover'
  BY <1>1, Parts DEF CallInv, ReadingInv, DoneInv, Handover, Going
<1>4. FailsForCause'
  BY <1>1, Parts DEF FailsForCause, IsClient
<1>5. QED
  BY <1>2, <1>3, <1>4 DEF HandInv

LEMMA HandIoFails ==
  ASSUME HandInv, IoFails
  PROVE  HandInv'
<1>1. Going /\ pc' = "failed" /\ result' = "Io"
  BY DEF IoFails, Fail, Running, Going
<1>2. "Io" \in Errors \ {"None", "HandshakeIncomplete", "JunkAfterRequest"}
  BY DEF Errors
<1>3. UNCHANGED <<entry, machine, attempt, peer, received>>
  BY DEF IoFails
<1>4. QED
  BY <1>1, <1>2, <1>3, HandFail

(* An interruption and the resumption keep all that has been read. *)
LEMMA HandPause ==
  ASSUME HandInv, Going, pc' \in {"running", "interrupted"},
         UNCHANGED <<entry, result, machine, attempt, peer, received>>
  PROVE  HandInv'
<1>1. UNCHANGED <<entry, result, stage, left, buf, packets, bytes, rejects, attempt,
                  answer, total, arrived, peer_open, received>>
  BY DEF machine, peer
<1>2. TypeOK'
  BY <1>1, Parts DEF TypeOK, Locations
<1>3. CallInv' /\ ReadingInv' /\ DoneInv' /\ Handover'
  BY <1>1, Parts DEF CallInv, ReadingInv, DoneInv, Handover, Going
<1>4. FailsForCause'
  BY <1>1, Parts DEF FailsForCause, IsClient
<1>5. QED
  BY <1>2, <1>3, <1>4 DEF HandInv

LEMMA HandWriteBlocks ==
  ASSUME HandInv, WriteBlocks
  PROVE  HandInv'
  BY HandPause DEF WriteBlocks, Interrupt, Running, Going

LEMMA HandReadBlocks ==
  ASSUME HandInv, ReadBlocks
  PROVE  HandInv'
  BY HandPause DEF ReadBlocks, Interrupt, Running, Going

LEMMA HandResume ==
  ASSUME HandInv, Resume
  PROVE  HandInv'
  BY HandPause DEF Resume, Going

LEMMA HandReadEnd ==
  ASSUME HandInv, ReadEnd
  PROVE  HandInv'
<1> DEFINE b == ReadFirst(buf, 0, received + 1)
<1>1. /\ pc = "running" /\ stage = "reading" /\ ~peer_open /\ received = arrived
      /\ UNCHANGED <<entry, stage, left, buf, packets, bytes, rejects, attempt,
                     answer, total, arrived, peer_open, received>>
  BY DEF ReadEnd, Running, machine, peer
<1>2. buf = Holding(received) /\ (received >= InLen => answer = "bad")
  BY <1>1, Parts DEF ReadingInv, Going
<1>3. Wrapped(b) /\ ReadAgainPanics(MigrateTail(b), 0) <=> received = 0
  BY <1>2, Parts, EndOfStream
<1>4. \/ received = 0 /\ pc' = "panicked" /\ result' = result
      \/ received # 0 /\ pc' = "failed" /\ result' = "HandshakeIncomplete"
  <2> HIDE DEF b
  <2>1. IF Wrapped(b) /\ ReadAgainPanics(MigrateTail(b), 0)
        THEN pc' = "panicked" /\ UNCHANGED result
        ELSE Fail("HandshakeIncomplete")
    BY Zenon DEF ReadEnd, b
  <2>2. QED
    BY <1>3, <2>1 DEF Fail
<1>5. TypeOK'
  BY <1>1, <1>4, Parts DEF TypeOK, Locations, Errors
<1>6. CallInv'
  BY <1>1, <1>4, Parts DEF CallInv
<1>7. ReadingInv' /\ DoneInv' /\ Handover'
  BY <1>4 DEF ReadingInv, DoneInv, Handover, Going
<1>8. FailsForCause'
  <2>1. received < InLen \/ answer = "bad"
    BY <1>2, Parts, Sizes
  <2>2. result = "None"
    BY <1>1, Parts DEF CallInv
  <2>3. pc' # "done" /\ (pc' = "panicked" => ~peer_open /\ received = 0)
        /\ (result' = "HandshakeIncomplete" => ~peer_open /\ received > 0)
        /\ result' # "JunkAfterRequest"
    BY <1>1, <1>4, <2>2, Parts
  <2>4. ~IsClient' => stage' = "reading"
    BY <1>1
  <2>5. QED
    BY <1>1, <2>1, <2>3, <2>4 DEF FailsForCause, IsClient
<1>9. QED
  BY <1>5, <1>6, <1>7, <1>8 DEF HandInv

(* A new connection is a new start. *)
LEMMA HandFollowRedirect ==
  ASSUME HandInv, FollowRedirect
  PROVE  HandInv'
<1>1. /\ entry = "connect" /\ attempt < MaxRedirects /\ attempt' = attempt + 1
      /\ \/ pc' = "running" /\ result' = "None"
         \/ pc' = "failed" /\ result' = "UnableToConnect"
      /\ stage' = "writing" /\ left' = OutLen
      /\ buf' = NewBuffer /\ packets' = 0 /\ bytes' = 0
      /\ answer' = "none" /\ total' = 0 /\ arrived' = 0 /\ peer_open' = TRUE
      /\ received' = 0
      /\ UNCHANGED <<entry, rejects>>
  BY DEF FollowRedirect, Fail
<1>2. buf' \in Buffer
  BY <1>1, NewBufferEmpty, HoldingFields
<1>3. TypeOK'
  <2>1. attempt' \in 0 .. MaxRedirects /\ left' \in 0 .. OutLen /\ total' \in 0 .. InLen + MaxBehind
        /\ arrived' \in 0 .. total' /\ received' \in 0 .. arrived'
    BY <1>1, Parts, Sizes
  <2>2. pc' \in Locations /\ result' \in Errors
    BY <1>1 DEF Locations, Errors
  <2>3. QED
    BY <1>1, <1>2, <2>1, <2>2, Parts DEF TypeOK
<1>4. CallInv' /\ ReadingInv' /\ DoneInv' /\ Handover'
  BY <1>1 DEF CallInv, ReadingInv, DoneInv, Handover, Going
<1>5. FailsForCause'
  BY <1>1 DEF FailsForCause, IsClient
<1>6. QED
  BY <1>3, <1>4, <1>5 DEF HandInv

-----------------------------------------------------------------------------
(* The connection is used *)

LEMMA HandStepOver ==
  ASSUME HandInv, StepOver
  PROVE  HandInv'
<1>1. /\ IsClient /\ pc = "done"
      /\ UNCHANGED <<entry, result, stage, left, packets, bytes, rejects, attempt,
                     answer, total, arrived, peer_open, received>>
  BY DEF StepOver, peer
<1>2. buf.read_cursor = 0 /\ buf.write_cursor = buf.end /\ buf \in Buffer
  BY <1>1, Parts DEF DoneInv
<1>3. pc' = "ready" /\ buf' = [buf EXCEPT !.read_cursor = buf.write_cursor]
  BY <1>2, SteppedOver DEF StepOver
<1>4. buf' \in Buffer /\ buf'.read_cursor = buf.write_cursor
      /\ buf'.write_cursor = buf.write_cursor /\ buf'.end = buf.end
  BY <1>2, <1>3 DEF Buffer
<1>5. TypeOK' /\ CallInv'
  BY <1>1, <1>3, <1>4, Parts DEF TypeOK, CallInv, Locations
<1>6. ReadingInv' /\ DoneInv'
  BY <1>3 DEF ReadingInv, DoneInv, Going
<1>7. Handover'
  <2>1. received = InLen => buf = Holding(InLen) /\ buf.write_cursor = InLen
    BY <1>1, Parts, HoldingFields, Sizes DEF DoneInv
  <2>2. received' = InLen =>
          buf' = [FromPartiallyRead(FirstBytes(InLen)) EXCEPT !.read_cursor = InLen]
    BY <1>1, <1>3, <2>1 DEF Holding
  <2>3. QED
    BY <1>2, <1>4, <2>2 DEF Handover
<1>8. FailsForCause'
  BY <1>1, <1>3, Parts DEF FailsForCause, IsClient
<1>9. QED
  BY <1>5, <1>6, <1>7, <1>8 DEF HandInv

-----------------------------------------------------------------------------
(* Reading *)

(* What holds of a read that returns n bytes. *)
LEMMA OneRead ==
  ASSUME HandInv, pc = "running", stage = "reading",
         NEW n \in 1 .. MaxRead, n <= arrived - received
  PROVE  /\ received + n \in Nat /\ received + n \in 0 .. arrived /\ received + n < ChunkSize
         /\ received + n > 0
         /\ ReadFirst(buf, n, received + 1) = Holding(received + n)
         /\ Holding(received + n) \in Buffer
         /\ (Complete(Holding(received + n)) <=> received + n >= InLen)
         /\ bytes + n = received + n /\ packets + 1 <= received + n
         /\ answer # "none" /\ result = "None"
<1>1. /\ buf = Holding(received) /\ bytes = received /\ packets <= received
  BY Parts DEF ReadingInv, Going
<1>2. n \in Nat /\ 1 <= n /\ received + n \in Nat /\ received + n \in 0 .. arrived
      /\ received + n > 0
  BY Parts, Sizes
<1>3. received + n < ChunkSize
  BY <1>2, Parts, Sizes
<1>4. ReadFirst(buf, n, received + 1) = Holding(received + n)
  BY <1>1, <1>2, <1>3, Parts, ReadMore
<1>5. Remaining(Holding(received + n)) = received + n
  BY <1>2, HoldingRemaining
<1>6. Complete(Holding(received + n)) <=> received + n >= InLen
  BY <1>5 DEF Complete
<1>7. bytes + n = received + n /\ packets + 1 <= received + n
  BY <1>1, <1>2, Parts
<1>8. answer # "none"
  BY <1>2, Parts DEF CallInv
<1>9. QED
  BY <1>2, <1>3, <1>4, <1>6, <1>7, <1>8, HoldingFields, Parts DEF CallInv

(* What a read does to the machine: an error that keeps the stage, a part  *)
(* of a message, or a whole response. *)
LEMMA ReadOutcomes ==
  ASSUME HandInv, ReadRound
  PROVE  \E n \in 1 .. MaxRead :
           /\ n <= arrived - received /\ received' = received + n
           /\ packets' = packets + 1 /\ bytes' = bytes + n
           /\ stage' = stage /\ rejects' = rejects
           /\ UNCHANGED <<entry, left, attempt, answer, total, arrived, peer_open>>
           /\ \/ /\ pc' = "failed" /\ buf' = Holding(received + n)
                 /\ \/ result' \in {"AttackAttempt", "Protocol", "Http"}
                    \/ result' = "JunkAfterRequest" /\ ~IsClient /\ received + n >= InLen
              \/ /\ pc' = pc /\ result' = result /\ buf' = Holding(received + n)
                 /\ received + n < InLen
              \/ /\ pc' = "done" /\ result' = result /\ IsClient
                 /\ received + n >= InLen
                 /\ buf' = FromPartiallyRead(TailOf(Holding(received + n)))
<1> DEFINE b(n) == ReadFirst(buf, n, received + 1)
           keep(n) == buf' = b(n) /\ UNCHANGED <<stage, rejects>>
<1>1. PICK n \in 1 .. MaxRead :
        /\ n <= arrived - received
        /\ received' = received + n
        /\ packets' = packets + 1 /\ bytes' = bytes + n
        /\ IF AttackAttempt(packets + 1, bytes + n)
           THEN Fail("AttackAttempt") /\ keep(n)
           ELSE \/ answer = "bad" /\ Fail("Protocol") /\ keep(n)
                \/ ~Complete(b(n)) /\ UNCHANGED <<pc, result>> /\ keep(n)
                \/ /\ Complete(b(n)) /\ answer # "bad"
                   /\ IF IsClient THEN ResponseRead(b(n)) ELSE RequestRead(b(n))
  BY Zenon DEF ReadRound
<1>2. pc = "running" /\ stage = "reading"
      /\ UNCHANGED <<entry, left, attempt, answer, total, arrived, peer_open>>
  BY DEF ReadRound, Running, peer
<1> DEFINE h == Holding(received + n)
<1>3. /\ b(n) = h /\ (Complete(h) <=> received + n >= InLen)
      /\ received + n \in Nat /\ received + n < ChunkSize
  BY <1>1, <1>2, OneRead
<1>4. \/ Fail("AttackAttempt") /\ buf' = h /\ UNCHANGED <<stage, rejects>>
      \/ Fail("Protocol") /\ buf' = h /\ UNCHANGED <<stage, rejects>>
      \/ ~Complete(h) /\ UNCHANGED <<pc, result>> /\ buf' = h /\ UNCHANGED <<stage, rejects>>
      \/ Complete(h) /\ IsClient /\ ResponseRead(h)
      \/ Complete(h) /\ ~IsClient /\ RequestRead(h)
  BY <1>1, <1>3, Zenon
<1> HIDE DEF h
<1>5. received + n >= InLen => TailOf(h) # << >>
  BY <1>3, TailNotEmpty DEF h
<1>6. ResponseRead(h) =>
        \/ pc' = "done" /\ buf' = FromPartiallyRead(TailOf(h)) /\ UNCHANGED <<result, stage, rejects>>
        \/ /\ pc' = "failed" /\ result' \in {"Protocol", "Http"}
           /\ buf' = h /\ UNCHANGED <<stage, rejects>>
  BY DEF ResponseRead, Fail
<1>7. RequestRead(h) /\ TailOf(h) # << >> =>
        /\ pc' = "failed" /\ result' = "JunkAfterRequest"
        /\ buf' = h /\ UNCHANGED <<stage, rejects>>
  BY DEF RequestRead, Fail
<1>8. /\ stage' = stage /\ rejects' = rejects
      /\ \/ /\ pc' = "failed" /\ buf' = h
            /\ \/ result' \in {"AttackAttempt", "Protocol", "Http"}
               \/ result' = "JunkAfterRequest" /\ ~IsClient /\ received + n >= InLen
         \/ /\ pc' = pc /\ result' = result /\ buf' = h
            /\ received + n < InLen
         \/ /\ pc' = "done" /\ result' = result /\ IsClient
            /\ received + n >= InLen
            /\ buf' = FromPartiallyRead(TailOf(h))
  <2>1. CASE Fail("AttackAttempt") /\ buf' = h /\ UNCHANGED <<stage, rejects>>
    BY <2>1 DEF Fail
  <2>2. CASE Fail("Protocol") /\ buf' = h /\ UNCHANGED <<stage, rejects>>
    BY <2>2 DEF Fail
  <2>3. CASE ~Complete(h) /\ UNCHANGED <<pc, result>> /\ buf' = h /\ UNCHANGED <<stage, rejects>>
    BY <1>3, <2>3, Sizes
  <2>4. CASE Complete(h) /\ IsClient /\ ResponseRead(h)
    BY <1>3, <1>6, <2>4
  <2>5. CASE Complete(h) /\ ~IsClient /\ RequestRead(h)
    BY <1>3, <1>5, <1>7, <2>5
  <2>6. QED
    BY <1>4, <2>1, <2>2, <2>3, <2>4, <2>5, Zenon
<1>9. QED
  BY <1>1, <1>2, <1>8 DEF h

LEMMA HandReadRound ==
  ASSUME HandInv, ReadRound
  PROVE  HandInv'
<1>1. PICK n \in 1 .. MaxRead :
           /\ n <= arrived - received /\ received' = received + n
           /\ packets' = packets + 1 /\ bytes' = bytes + n
           /\ stage' = stage /\ rejects' = rejects
           /\ UNCHANGED <<entry, left, attempt, answer, total, arrived, peer_open>>
           /\ \/ /\ pc' = "failed" /\ buf' = Holding(received + n)
                 /\ \/ result' \in {"AttackAttempt", "Protocol", "Http"}
                    \/ result' = "JunkAfterRequest" /\ ~IsClient /\ received + n >= InLen
              \/ /\ pc' = pc /\ result' = result /\ buf' = Holding(received + n)
                 /\ received + n < InLen
              \/ /\ pc' = "done" /\ result' = result /\ IsClient
                 /\ received + n >= InLen
                 /\ buf' = FromPartiallyRead(TailOf(Holding(received + n)))
  BY ReadOutcomes, Zenon
<1>2. pc = "running" /\ stage = "reading"
  BY DEF ReadRound, Running
<1> DEFINE r == received + n
           h == Holding(r)
<1>3. /\ r \in Nat /\ r \in 0 .. arrived /\ r < ChunkSize /\ h \in Buffer
      /\ bytes + n = r /\ packets + 1 <= r /\ answer # "none" /\ result = "None"
  BY <1>1, <1>2, OneRead
<1>4. r >= InLen => /\ FromPartiallyRead(TailOf(h)) \in Buffer
                    /\ FromPartiallyRead(TailOf(h)).read_cursor = 0
                    /\ FromPartiallyRead(TailOf(h)).write_cursor = FromPartiallyRead(TailOf(h)).end
  BY <1>3, TailNotEmpty, PartFields
<1>5. r = InLen => FromPartiallyRead(TailOf(h)) = Holding(InLen)
  BY TailAll DEF Holding
<1> HIDE DEF h, r
<1>6. /\ received' = r /\ packets' = packets + 1 /\ bytes' = r
      /\ UNCHANGED <<entry, stage, left, rejects, attempt, answer, total, arrived, peer_open>>
  BY <1>1, <1>3, Zenon DEF r
<1>7. CASE pc' = "failed"
  <2>1. /\ buf' = h
        /\ \/ result' \in {"AttackAttempt", "Protocol", "Http"}
           \/ result' = "JunkAfterRequest" /\ ~IsClient /\ r >= InLen
    BY <1>1, <1>2, <1>7 DEF h, r
  <2>2. TypeOK'
    <3>1. result' \in Errors /\ packets' \in Nat /\ bytes' \in Nat
      BY <1>3, <1>6, <2>1, Parts DEF Errors
    <3>2. QED
      BY <1>3, <1>6, <1>7, <2>1, <3>1, Parts DEF TypeOK, Locations
  <2>3. CallInv' /\ ReadingInv' /\ DoneInv' /\ Handover'
    BY <1>3, <1>6, <1>7 DEF CallInv, ReadingInv, DoneInv, Handover, Going
  <2>4. FailsForCause'
    BY <1>2, <1>6, <1>7, <2>1 DEF FailsForCause, IsClient
  <2>5. QED
    BY <2>2, <2>3, <2>4 DEF HandInv
<1>8. CASE pc' = "running"
  <2>1. buf' = h /\ result' = "None" /\ r < InLen
    BY <1>1, <1>2, <1>3, <1>8 DEF h, r
  <2>2. TypeOK'
    <3>1. packets' \in Nat /\ bytes' \in Nat
      BY <1>3, <1>6, Parts
    <3>2. QED
      BY <1>3, <1>6, <1>8, <2>1, <3>1, Parts DEF TypeOK, Locations, Errors
  <2>3. CallInv'
    BY <1>3, <1>6, <2>1 DEF CallInv
  <2>4. ReadingInv'
    BY <1>2, <1>3, <1>6, <2>1, Sizes DEF ReadingInv, h
  <2>5. DoneInv' /\ Handover'
    BY <1>8 DEF DoneInv, Handover
  <2>6. FailsForCause'
    BY <1>2, <1>6, <1>8, <2>1 DEF FailsForCause, IsClient
  <2>7. QED
    BY <2>2, <2>3, <2>4, <2>5, <2>6 DEF HandInv
<1>9. CASE pc' = "done"
  <2>1. buf' = FromPartiallyRead(TailOf(h)) /\ result' = "None" /\ IsClient /\ r >= InLen
    BY <1>1, <1>2, <1>3, <1>9 DEF h, r
  <2>2. TypeOK'
    <3>1. packets' \in Nat /\ bytes' \in Nat
      BY <1>3, <1>6, Parts
    <3>2. QED
      BY <1>3, <1>4, <1>6, <1>9, <2>1, <3>1, Parts DEF TypeOK, Locations, Errors
  <2>3. CallInv'
    BY <1>3, <1>6, <2>1 DEF CallInv
  <2>4. ReadingInv' /\ Handover'
    BY <1>9 DEF ReadingInv, Going, Handover
  <2>5. DoneInv'
    BY <1>4, <1>5, <1>6, <2>1 DEF DoneInv
  <2>6. FailsForCause'
    BY <1>6, <1>9, <2>1 DEF FailsForCause, IsClient
  <2>7. QED
    BY <2>2, <2>3, <2>4, <2>5, <2>6 DEF HandInv
<1>10. QED
  BY <1>1, <1>2, <1>7, <1>8, <1>9

-----------------------------------------------------------------------------
LEMMA HandNext == HandInv /\ [Next]_vars => HandInv'
<1> SUFFICES ASSUME HandInv, [Next]_vars
             PROVE  HandInv'
  OBVIOUS
<1>1. CASE PeerSends BY <1>1, HandPeerSends
<1>2. CASE Arrive BY <1>2, HandArrive
<1>3. CASE PeerCloses BY <1>3, HandPeerCloses
<1>4. CASE WriteRound BY <1>4, HandWriteRound
<1>5. CASE IoFails BY <1>5, HandIoFails
<1>6. CASE WriteBlocks BY <1>6, HandWriteBlocks
<1>7. CASE FlushRound BY <1>7, HandFlushRound
<1>8. CASE ReadRound BY <1>8, HandReadRound
<1>9. CASE ReadEnd BY <1>9, HandReadEnd
<1>10. CASE ReadBlocks BY <1>10, HandReadBlocks
<1>11. CASE Resume BY <1>11, HandResume
<1>12. CASE FollowRedirect BY <1>12, HandFollowRedirect
<1>13. CASE StepOver BY <1>13, HandStepOver
<1>14. CASE UNCHANGED vars BY <1>14, HandStutter
<1>15. QED
  BY <1>1, <1>2, <1>3, <1>4, <1>5, <1>6, <1>7, <1>8, <1>9, <1>10, <1>11, <1>12, <1>13, <1>14
     DEF Next, Machine

LEMMA HandInvImplies ==
  HandInv => TypeOK /\ NothingMislaid /\ Handover /\ FailsForCause
<1> SUFFICES ASSUME HandInv
             PROVE  NothingMislaid
  BY DEF HandInv
<1>1. ASSUME stage = "reading", Going
      PROVE  /\ bytes = received /\ packets <= received
             /\ buf.read_cursor = 0 /\ Remaining(buf) = received
             /\ Taken(buf, received) = FirstBytes(received)
  BY <1>1, Parts, HoldingFields, HoldingRemaining, HoldingTaken DEF ReadingInv
<1>2. QED
  BY <1>1 DEF NothingMislaid, Going

(* What the handshake holds in each stage follows from its rounds alone    *)
(* (machine.rs, handshake/client.rs, handshake/server.rs, buffer.rs).      *)
THEOREM HandshakeInvariance == Spec => []HandInv
  BY HandInit, HandNext, PTL DEF Spec

(* Every variable has its type. *)
THEOREM HandshakeTypes == Spec => []TypeOK
  BY HandshakeInvariance, HandInvImplies, PTL

(* However often a handshake is interrupted and resumed, every byte read   *)
(* is in its buffer, in its place, and has been counted (machine.rs).      *)
THEOREM NothingLost == Spec => []NothingMislaid
  BY HandshakeInvariance, HandInvImplies, PTL

(* The reader of a connection starts behind the response when nothing came *)
(* with its end, and with nothing unread in any case (handshake/client.rs, *)
(* buffer.rs:82-104, binance_data.rs:22-23).                               *)
THEOREM ReaderStartsBehind == Spec => []Handover
  BY HandshakeInvariance, HandInvImplies, PTL

(* Each failure has its cause; no server gets past a whole request         *)
(* (buffer.rs:100, 151-161, handshake/server.rs:239-241).                  *)
THEOREM CausesOfFailure == Spec => []FailsForCause
  BY HandshakeInvariance, HandInvImplies, PTL
=============================================================================
