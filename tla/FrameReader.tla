---------------------------- MODULE FrameReader ----------------------------
(***************************************************************************)
(* FrameCodec::read_frame (Kyrptonite/src/protocol/frame/mod.rs) with      *)
(* FrameHeader::parse (frame/frame.rs) over the ring buffer ReadBuffer:    *)
(* one reader, called again and again, and the peer that sends it frames.  *)
(*                                                                         *)
(* The stream of bytes is numbered from 1.  Its first Junk bytes are the   *)
(* HTTP response that the handshake left in the buffer and the caller has  *)
(* stepped over (binance_data.rs:22-23); frames follow.  A frame knows the *)
(* position `at' of its first byte, so header and payload are the          *)
(* positions at .. at + HeaderLen - 1 and the Len ones after them.  The    *)
(* network cuts the stream anywhere: a read returns any number of bytes    *)
(* that have arrived, up to MaxRead.                                       *)
(***************************************************************************)
EXTENDS ReadBuffer

CONSTANTS
  MaxRead,       \* most bytes one call of stream.read returns
  Shapes,        \* the shapes of frame the peer sends
  MaxFrames,     \* bound: frames the peer sends in all
  MaxSize,       \* max_frame_size: a longer payload is refused
  Junk,          \* bytes of the handshake in front of the first frame
  Modes          \* what a stream may be: "blocking", "nonblocking"

(* A shape says whether the frame starts a message (or is a control frame, *)
(* which the reader treats alike), continues one, or has a reserved        *)
(* opcode; how many bytes its length field has after the first two         *)
(* (LengthFormat); whether it is masked; and how long its payload is.      *)
Kind == {"start", "continue", "reserved"}
Shape == [kind : Kind, ext : {0, 2, 8}, mask : BOOLEAN, len : Nat]

ASSUME FrameReaderAssumption ==
  /\ MaxRead \in Nat \ {0}
  /\ Shapes \subseteq Shape
  /\ MaxFrames \in Nat
  /\ MaxSize \in Nat
  /\ Junk \in Nat /\ Junk < ChunkSize
  /\ Modes \subseteq {"blocking", "nonblocking"}

Frame == [kind : Kind, ext : {0, 2, 8}, mask : BOOLEAN, len : Nat, at : Nat]

NoFrame == [kind |-> "start", ext |-> 0, mask |-> FALSE, len |-> 0, at |-> 0]

MaskLen(f) == IF f.mask THEN 4 ELSE 0

HeaderLen(f) == 2 + f.ext + MaskLen(f)

Size(f) == HeaderLen(f) + f.len

(* The positions of a frame's payload bytes. *)
PayloadOf(f) == [k \in 1 .. f.len |-> f.at + HeaderLen(f) + k - 1]

VARIABLES
  mode,          \* whether a read waits or may return WouldBlock
  wire,          \* the frames the peer has sent
  sent,          \* position of the last byte that will reach the reader
  eof,           \* the peer has closed its side of the stream
  received,      \* position of the last byte read from the stream
  buf,           \* FrameCodec.in_buffer
  header,        \* FrameCodec.header, NoFrame for None
  adj,           \* FrameCodec.add_adj_size
  pc,            \* where the reader is
  delivered,     \* payloads of the frames read_frame returned
  torn           \* history: a wrap was left between its two reads

peerVars == <<mode, wire, sent, eof, torn>>
vars == <<mode, wire, sent, eof, received, buf, header, adj, pc, delivered, torn>>

(* "idle"     between two calls of read_frame                              *)
(* "header"   at the top of the loop, no header parsed                     *)
(* "payload"  header parsed, about to look for the payload                 *)
(* "fill"     about to make, or blocked in, the first read of read_from    *)
(* "again"    in the second read, after the buffer wrapped                 *)
(* "empty"    the same, the first read having returned 0                   *)
(* "closed"   returned Ok(None): the stream has ended                      *)
(* "failed"   returned an error other than WouldBlock                      *)
(* "panicked" panicked                                                     *)
(* "garbled"  parsed, as a header, bytes that are none                     *)
Stopped == {"closed", "failed", "panicked", "garbled"}
Locations == {"idle", "header", "payload", "fill", "again", "empty"} \cup Stopped

TypeOK ==
  /\ mode \in Modes
  /\ wire \in Seq(Frame)
  /\ sent \in Nat
  /\ eof \in BOOLEAN
  /\ received \in Nat
  /\ buf \in Buffer
  /\ header \in Frame
  /\ adj \in Nat
  /\ pc \in Locations
  /\ delivered \in Seq(Seq(Nat))
  /\ torn \in BOOLEAN

-----------------------------------------------------------------------------
Init ==
  /\ mode \in Modes
  /\ wire = << >>
  /\ sent = Junk
  /\ eof = FALSE
  /\ received = Junk
  /\ buf = [FromPartiallyRead(FirstBytes(Junk)) EXCEPT !.read_cursor = Junk]
  /\ header = NoFrame
  /\ adj = 0
  /\ pc = "idle"
  /\ delivered = << >>
  /\ torn = FALSE

(* The peer sends a frame. *)
PeerSend ==
  /\ ~eof
  /\ Len(wire) < MaxFrames
  /\ \E s \in Shapes :
       LET f == [kind |-> s.kind, ext |-> s.ext, mask |-> s.mask,
                 len |-> s.len, at |-> sent + 1]
       IN  /\ wire' = Append(wire, f)
           /\ sent' = sent + Size(f)
  /\ UNCHANGED <<mode, eof, received, buf, header, adj, pc, delivered, torn>>

(* The stream ends, and with it whatever had not left the peer. *)
PeerClose ==
  /\ ~eof
  /\ eof' = TRUE
  /\ sent' \in received .. sent
  /\ UNCHANGED <<mode, wire, received, buf, header, adj, pc, delivered, torn>>

-----------------------------------------------------------------------------
(* read_frame is called. *)
ReadFrame ==
  /\ pc = "idle"
  /\ pc' = IF header = NoFrame THEN "header" ELSE "payload"
  /\ UNCHANGED <<peerVars, received, buf, header, adj, delivered>>

(* Before it looks for a header the reader steps over the bytes that the   *)
(* previous continue frame was shifted by.  It does so each time it comes  *)
(* round the loop without a header.                                        *)
SkipPanics == adj > 0 /\ TakeRefPanics(buf, adj)

Skipped == IF adj > 0 THEN TakeRef(buf, adj) ELSE buf

(* The frame whose first two bytes are the next two unread ones, if any.   *)
FramesAt(b) == {k \in DOMAIN wire :
                  Taken(b, 2) = [j \in 1 .. 2 |-> wire[k].at + j - 1]}

(* parse_internal reads a header only if there are 4 unread bytes. *)
ShortHeader == ~SkipPanics /\ Remaining(Skipped) < 4


LongEnough == ~SkipPanics /\ Remaining(Skipped) >= 4

AwaitHeader ==
  /\ pc = "header"
  /\ ShortHeader
  /\ buf' = Skipped
  /\ pc' = "fill"
  /\ UNCHANGED <<peerVars, received, header, adj, delivered>>

(* The buffer after the first two bytes, and after the length field.       *)
AfterTwo == TakeRef(Skipped, 2)
AfterLength(f) == IF f.ext > 0 THEN TakeRef(AfterTwo, f.ext) ELSE AfterTwo

(* Panics on the bytes to step over, on the first two bytes, or on the     *)
(* length field.                                                           *)
ParsePanics ==
  \/ SkipPanics
  \/ LongEnough /\ TakeRefPanics(Skipped, 2)
  \/ /\ LongEnough /\ ~TakeRefPanics(Skipped, 2)
     /\ \E k \in FramesAt(Skipped) :
          wire[k].ext > 0 /\ TakeRefPanics(AfterTwo, wire[k].ext)

PanicInHeader ==
  /\ pc = "header"
  /\ ParsePanics
  /\ pc' = "panicked"
  /\ UNCHANGED <<peerVars, received, buf, header, adj, delivered>>

(* The next bytes are not the start of a frame: whatever is parsed from    *)
(* here on is not what the peer sent.                                      *)
ReadGarbage ==
  /\ pc = "header"
  /\ LongEnough /\ ~TakeRefPanics(Skipped, 2)
  /\ FramesAt(Skipped) = {}
  /\ pc' = "garbled"
  /\ UNCHANGED <<peerVars, received, buf, header, adj, delivered>>

MaskIncomplete(f) == f.mask /\ Remaining(AfterLength(f)) <= 4

(* The mask has not arrived: parse returns None, but the bytes in front of *)
(* it have been consumed.                                                  *)
AwaitMask ==
  /\ pc = "header"
  /\ LongEnough /\ ~ParsePanics
  /\ \E k \in FramesAt(Skipped) :
       /\ MaskIncomplete(wire[k])
       /\ buf' = AfterLength(wire[k])
  /\ pc' = "fill"
  /\ UNCHANGED <<peerVars, received, header, adj, delivered>>

AfterHeader(f) == IF f.mask THEN TakeRef(AfterLength(f), 4) ELSE AfterLength(f)

(* InvalidOpcode: the header is consumed and lost. *)
RefuseOpcode ==
  /\ pc = "header"
  /\ LongEnough /\ ~ParsePanics
  /\ \E k \in FramesAt(Skipped) :
       /\ ~MaskIncomplete(wire[k]) /\ wire[k].kind = "reserved"
       /\ buf' = AfterHeader(wire[k])
  /\ pc' = "failed"
  /\ UNCHANGED <<peerVars, received, header, adj, delivered>>

(* A whole header.  Any frame but a continue frame marks its payload as    *)
(* the current frame; a continue frame is shifted back over the headers,   *)
(* to join the payload before it.                                          *)
ParseHeader ==
  /\ pc = "header"
  /\ LongEnough /\ ~ParsePanics
  /\ \E k \in FramesAt(Skipped) :
       LET f == wire[k]
           b == AfterHeader(f)
           shift == adj + (IF f.mask THEN 6 ELSE 2)
       IN  /\ ~MaskIncomplete(f) /\ f.kind # "reserved"
           /\ header' = f
           /\ IF f.kind = "continue"
              THEN /\ adj' = shift
                   /\ IF AdjustContinuePanics(b, shift, f.len)
                      THEN buf' = b /\ pc' = "panicked"
                      ELSE buf' = AdjustContinuePayload(b, shift, f.len)
                           /\ pc' = "payload"
              ELSE /\ adj' = 0
                   /\ buf' = SetCurrFrame(b)
                   /\ pc' = "payload"
  /\ UNCHANGED <<peerVars, received, delivered>>

-----------------------------------------------------------------------------
TooLong == header.len > MaxSize

RefuseTooLong ==
  /\ pc = "payload"
  /\ TooLong
  /\ pc' = "failed"
  /\ UNCHANGED <<peerVars, received, buf, header, adj, delivered>>

(* Mutant: the last byte in the buffer is not counted. *)
MutHasPayload == header.len < Remaining(buf) /\ header.len > 0

(* An empty payload is never taken: the loop goes on reading. *)
HasPayload == header.len <= Remaining(buf) /\ header.len > 0

(* Mutant: the header is not taken with the payload. *)
MutTakePayload ==
  /\ pc = "payload"
  /\ ~TooLong /\ HasPayload
  /\ ~TakeRefPanics(buf, header.len)
  /\ delivered' = Append(delivered, Taken(buf, header.len))
  /\ buf' = TakeRef(buf, header.len)
  /\ pc' = "idle"
  /\ UNCHANGED <<peerVars, received, header, adj>>

TakePayload ==
  /\ pc = "payload"
  /\ ~TooLong /\ HasPayload
  /\ ~TakeRefPanics(buf, header.len)
  /\ delivered' = Append(delivered, Taken(buf, header.len))
  /\ buf' = TakeRef(buf, header.len)
  /\ header' = NoFrame
  /\ pc' = "idle"
  /\ UNCHANGED <<peerVars, received, adj>>

PanicInPayload ==
  /\ pc = "payload"
  /\ ~TooLong /\ HasPayload
  /\ TakeRefPanics(buf, header.len)
  /\ pc' = "panicked"
  /\ UNCHANGED <<peerVars, received, buf, header, adj, delivered>>

AwaitPayload ==
  /\ pc = "payload"
  /\ ~TooLong /\ ~HasPayload
  /\ pc' = "fill"
  /\ UNCHANGED <<peerVars, received, buf, header, adj, delivered>>

-----------------------------------------------------------------------------
(* What stream.read may return for a slice of `room' bytes: some bytes     *)
(* that have arrived, or 0 if the slice is empty or the stream has ended.  *)
(* It blocks otherwise.                                                    *)
ReadSizes(room) ==
  {n \in 0 .. MaxRead :
     /\ n <= room
     /\ n <= sent - received
     /\ n = 0 => room = 0 \/ (eof /\ sent = received)}

AfterRead == IF header = NoFrame THEN "header" ELSE "payload"

(* The first read of read_from. *)
Fill ==
  /\ pc = "fill"
  /\ \E n \in ReadSizes(Room(buf)) :
       LET b == ReadFirst(buf, n, received + 1)
       IN  /\ received' = received + n
           /\ IF Wrapped(b)
              THEN buf' = MigrateTail(b) /\ pc' = IF n = 0 THEN "empty" ELSE "again"
              ELSE buf' = b /\ pc' = IF n = 0 THEN "closed" ELSE AfterRead
  /\ UNCHANGED <<peerVars, header, adj, delivered>>

(* The second read, made because the first filled the buffer. *)
FillAgain ==
  /\ pc \in {"again", "empty"}
  /\ \E n \in ReadSizes(Room(buf)) :
       /\ received' = received + n
       /\ IF ReadAgainPanics(buf, n)
          THEN UNCHANGED buf /\ pc' = "panicked"
          ELSE /\ buf' = ReadAgain(buf, n, received + 1)
               /\ pc' = IF pc = "empty" /\ n = 0 THEN "closed" ELSE AfterRead
  /\ UNCHANGED <<peerVars, header, adj, delivered>>

(* Either read returns WouldBlock, which `?' returns to the caller; the    *)
(* caller tries again later.  Bytes counted in `sent' may still be on      *)
(* their way, so this does not depend on them.  After the second read the  *)
(* bytes have moved and the read cursor has not: it stays so.              *)
WouldBlock ==
  /\ mode = "nonblocking"
  /\ pc \in {"fill", "again", "empty"}
  /\ pc' = "idle"
  /\ torn' = (torn \/ pc # "fill")
  /\ UNCHANGED <<mode, wire, sent, eof, received, buf, header, adj, delivered>>

Peer == PeerSend \/ PeerClose

Reader ==
  \/ ReadFrame
  \/ AwaitHeader \/ PanicInHeader \/ ReadGarbage \/ AwaitMask
  \/ RefuseOpcode \/ ParseHeader
  \/ RefuseTooLong \/ TakePayload \/ PanicInPayload \/ AwaitPayload
  \/ Fill \/ FillAgain \/ WouldBlock

Next == Peer \/ Reader

Spec == Init /\ [][Next]_vars

(* The caller's loop calls read again as soon as it returns (looping_msg,  *)
(* binance_data.rs:27-50), and a read returns once there is something to   *)
(* return.  Nothing is assumed of the peer.                                *)
FairSpec == Spec /\ WF_vars(Reader)

-----------------------------------------------------------------------------
(***************************************************************************)
(* The traffic and the sizes for which the reader keeps its promise: whole *)
(* messages in one unmasked frame with a payload, no 64-bit length, a      *)
(* blocking stream, a handshake that left bytes behind, and a buffer of at *)
(* least three reads and the longest payload.  With 1 MiB of buffer and    *)
(* TLS records of 16 KiB this admits payloads of up to 999 418 bytes: what *)
(* an exchange's feed sends its clients.                                   *)
(***************************************************************************)
Fits(len) == 3 * MaxRead + len + 6 <= ChunkSize

WithinLimits ==
  /\ Modes = {"blocking"}
  /\ Junk > 0 /\ Fits(Junk)
  /\ \A s \in Shapes :
       s.kind = "start" /\ ~s.mask /\ s.ext # 8 /\ s.len > 0 /\ Fits(s.len)

(* The payloads handed to the caller are those the peer sent, in order,    *)
(* none missing, none twice, every byte from the place it was sent in:     *)
(* take_ref never hands out bytes that a wrap moved or overwrote.          *)
DeliveredIntact ==
  /\ Len(delivered) <= Len(wire)
  /\ \A k \in DOMAIN delivered : delivered[k] = PayloadOf(wire[k])

NoContinuation == \A k \in DOMAIN wire : wire[k].kind # "continue"

(* Whatever the peer sends, and whenever a read is given up and retried,   *)
(* as long as nothing is shifted to join a message and no wrap is left     *)
(* half done: while the reader follows the headers that were sent it hands *)
(* over no bytes of another place and skips no frame.  One that cannot     *)
(* keep up stops, or is "garbled", and from there on, where the model      *)
(* ends, nothing is claimed.                                               *)
WholeFramesIntact ==
  NoContinuation /\ ~torn => DeliveredIntact

(* A WouldBlock is not fatal (error.rs:38-39): the caller reads again, and *)
(* what it is then given are payloads the peer sent, each at most once and *)
(* in the order sent.  It is not so when the second read of a wrap is the  *)
(* one that would block (buffer.rs:157).                                   *)
NothingInvented ==
  NoContinuation =>
    /\ \A k \in DOMAIN delivered :
         \E j \in DOMAIN wire : delivered[k] = PayloadOf(wire[j])
    /\ \A k \in DOMAIN delivered :
         k > 1 => delivered[k][1] > delivered[k - 1][1]

(* The reader neither panics (which aborts the whole program: panic is     *)
(* "abort" in Cargo.toml) nor loses its place in the stream and parses     *)
(* payload bytes as a header.                                              *)
NeverBreaks == pc \notin {"panicked", "garbled"}

(* When read_frame waits in its first read, and when it reports the end of *)
(* the stream, every frame that had been read whole was handed over first, *)
(* but for a last one of 3 bytes: parse_internal waits for a fourth, which *)
(* may never come.  (The second read of a wrap is another matter: see      *)
(* HeldBackOnlyByWrap.)                                                    *)
LastByte(f) == f.at + Size(f) - 1
DrainedBeforeWaiting ==
  pc \in {"fill", "closed"} =>
    \A k \in DOMAIN wire :
      k > Len(delivered) /\ LastByte(wire[k]) <= received =>
        Size(wire[k]) < 4 /\ LastByte(wire[k]) = received

(* The end of the stream came before the end of the k-th frame. *)
CutOff(k) == k \in DOMAIN wire /\ LastByte(wire[k]) > sent

(* The second read of a wrap blocks (buffer.rs:157), and nothing is on its *)
(* way that could end it.                                                  *)
StuckInWrap == pc = "again" /\ received = sent

(* The k-th frame is too short to be parsed, and nothing comes behind it.  *)
TooShort(k) ==
  k \in DOMAIN wire /\ Size(wire[k]) < 4 /\ LastByte(wire[k]) = sent


(* The reader refines the stream of frames of FrameStream. *)
Stream == INSTANCE FrameStream WITH frames <- wire
StreamSpec == Stream!Spec
=============================================================================
