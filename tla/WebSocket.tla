----------------------------- MODULE WebSocket -----------------------------
(***************************************************************************)
(* One endpoint of a WebSocket connection: WebSocketContext of             *)
(* Kyrptonite/src/protocol/mod.rs, its calls read, write, flush and close, *)
(* and the write side of FrameCodec (frame/mod.rs) they use.               *)
(*                                                                         *)
(* This module has the endpoint only.  What comes in and what becomes of   *)
(* what goes out is up to the module that completes it: WebSocketPeer puts *)
(* any peer at the other end, CloseHandshake another endpoint.             *)
(*                                                                         *)
(* The stream is a stream of frames (FrameStream); a write of the stream   *)
(* takes whole frames, and a frame of which some bytes are left counts as  *)
(* not written.  A frame that opens a message is "data", text or binary.   *)
(* Frames that read_message_frame refuses for what they are (reserved bits *)
(* or opcodes, wrong masking, fragmented or oversized control frames, a    *)
(* malformed close, text that is not UTF-8) are one kind, "bad".           *)
(*                                                                         *)
(* Definitions named Mut... are mistakes the checks must notice.           *)
(***************************************************************************)
EXTENDS Integers, Sequences

CONSTANTS
  Role,          \* "Client" or "Server"
  WriteLen,      \* out_buffer_write_len: frames held back before a write
  MaxMessage     \* max_message_size, in fragments

ASSUME WebSocketAssumption ==
  /\ Role \in {"Client", "Server"}
  /\ WriteLen \in Nat
  /\ MaxMessage \in Nat \ {0}

(* A frame.  `id' tells frames apart (a pong has that of its ping); `body' *)
(* says what its payload is; `auto' marks a reply the endpoint queued by   *)
(* itself.                                                                 *)
Ops == {"data", "continue", "ping", "pong", "close", "bad"}
Bodies == {"empty", "bytes", "bare", "allowed", "forbidden"}
Frame == [op : Ops, fin : BOOLEAN, body : Bodies, id : Nat, auto : BOOLEAN]

(* A close frame is empty, or has a code, allowed or not, and after it a   *)
(* reason, or none if it is "bare".                                        *)
CloseBodies == Bodies \ {"bytes"}

Plain(op, n) == [op |-> op, fin |-> TRUE, body |-> "bytes", id |-> n, auto |-> FALSE]
PongTo(n) == [Plain("pong", n) EXCEPT !.auto = TRUE]
Close(b) == [Plain("close", 0) EXCEPT !.body = b]
CloseReply(b) == [Close(b) EXCEPT !.auto = TRUE]

(* What a call returned.  "Closed" is Error::ConnectionClosed, "NoClose"   *)
(* ResetWithoutClosingHandshake.                                           *)
Fatal == {"Io", "Protocol", "Capacity", "NoClose", "AlreadyClosed"}
Results == {"Ok", "WouldBlock", "SendAfterClosing", "Closed"} \cup Fatal

VARIABLES
  state,                  \* WebSocketState
  out_buffer,             \* FrameCodec.out_buffer, as frames
  unflushed_additional,
  incomplete,             \* ids of the fragments of the message being read
  pc,                     \* where the endpoint's thread is
  result,                 \* what the last call returned
  handed,                 \* what read has returned: sequences of frame ids
  inbox,                  \* frames that have arrived, not yet read
  outgoing,               \* frames written to the stream
  peer_open,              \* FALSE once the peer has closed its side
  broken,                 \* TRUE once the connection is reset
  nonblocking             \* TRUE if reads and writes may return WouldBlock

endpoint == <<state, out_buffer, unflushed_additional, incomplete, pc, result, handed>>
link == <<peer_open, broken, nonblocking>>
stream == <<inbox, outgoing, link>>
wsVars == <<endpoint, stream>>

States == {"Active", "ClosedByUs", "ClosedByPeer", "CloseAcknowledged", "Terminated"}

(* "idle" between calls, "loop" at the top of read's loop, "reading" in    *)
(* read_frame, "dropped" when the user has let go of the connection.       *)
Locations == {"idle", "loop", "reading", "panicked", "dropped"}

(* Mutant: a connection we are closing is still written to. *)
MutIsActive == state \in {"Active", "ClosedByUs"}

IsActive == state = "Active"

(* Mutant: nothing is read any more once we have sent a close frame. *)
MutCanRead == IsActive

CanRead == state \in {"Active", "ClosedByUs"}

(* The types of the variables *)
TypeOK ==
  /\ state \in States
  /\ out_buffer \in Seq(Frame)
  /\ unflushed_additional \in BOOLEAN
  /\ incomplete \in Seq(Nat)
  /\ pc \in Locations
  /\ result \in Results
  /\ handed \in Seq(Seq(Nat))
  /\ inbox \in Seq(Frame)
  /\ outgoing \in Seq(Frame)
  /\ peer_open \in BOOLEAN
  /\ broken \in BOOLEAN
  /\ nonblocking \in BOOLEAN

EndpointInit ==
  /\ state = "Active"
  /\ out_buffer = << >>
  /\ unflushed_additional = FALSE
  /\ incomplete = << >>
  /\ pc = "idle"
  /\ result = "Ok"
  /\ handed = << >>

-----------------------------------------------------------------------------
(* Writing *)

(* Mutant: what a short write leaves over is lost. *)
MutWriteOut(q) ==
  {[rest |-> << >>, done |-> SubSeq(q, 1, k),
    err |-> IF k = Len(q) THEN "Ok" ELSE "WouldBlock"] : k \in 0 .. Len(q)}

(* write_out_buffer on the queue q: what stays, what is written and the    *)
(* error, if any.                                                          *)
WriteOut(q) ==
  IF q = << >>
  THEN {[rest |-> << >>, done |-> << >>, err |-> "Ok"]}
  ELSE IF broken
  THEN {[rest |-> q, done |-> << >>, err |-> "Io"]}
  ELSE {[rest |-> << >>, done |-> q, err |-> "Ok"]}
         \cup (IF nonblocking
               THEN {[rest |-> SubSeq(q, k + 1, Len(q)), done |-> SubSeq(q, 1, k),
                      err |-> "WouldBlock"] : k \in 0 .. Len(q) - 1}
               ELSE {})

(* check_connection_reset, in the state s: what it may make of an error.   *)
(* Of the errors of a broken connection only ConnectionReset is replaced.  *)
CheckReset(err, s) ==
  IF err = "Io" /\ s \notin {"Active", "ClosedByUs"} THEN {"Io", "Closed"} ELSE {err}

(* Mutant: a frame is written as soon as it is queued. *)
MutBufferFrame(f, s) ==
  UNION {{[o EXCEPT !.err = e] : e \in CheckReset(o.err, s)} :
           o \in WriteOut(Append(out_buffer, f))}

(* buffer_frame, in the state s *)
BufferFrame(f, s) ==
  LET q == Append(out_buffer, f)
  IN  IF Len(q) > WriteLen
      THEN UNION {{[o EXCEPT !.err = e] : e \in CheckReset(o.err, s)} : o \in WriteOut(q)}
      ELSE {[rest |-> q, done |-> << >>, err |-> "Ok"]}

Written(o) ==
  /\ out_buffer' = o.rest
  /\ outgoing' = outgoing \o o.done

(* A frame is queued, and flushed too if `also'. *)
WriteFrame(f, s, also) ==
  \E o \in BufferFrame(f, s) :
    IF o.err = "Ok" /\ also
    THEN \E p \in WriteOut(o.rest) :
           /\ out_buffer' = p.rest
           /\ outgoing' = outgoing \o o.done \o p.done
           /\ result' = p.err
           /\ unflushed_additional' = (unflushed_additional /\ p.err # "Ok")
    ELSE /\ Written(o)
         /\ result' = o.err
         /\ UNCHANGED unflushed_additional

(* The user goes on unless the last call returned a fatal error; a call    *)
(* after ConnectionClosed is a mistake, but one the code answers.          *)
MayCall == pc = "idle" /\ result \notin Fatal

(* write: a message of one frame, a ping, or an unasked-for pong. *)
Write(op, n) ==
  /\ MayCall
  /\ IF state = "Terminated"
     THEN result' = "AlreadyClosed"
          /\ UNCHANGED <<out_buffer, outgoing, unflushed_additional>>
     ELSE IF ~IsActive
     THEN result' = "SendAfterClosing"
          /\ UNCHANGED <<out_buffer, outgoing, unflushed_additional>>
     ELSE WriteFrame(Plain(op, n), state, op # "pong" /\ unflushed_additional)
  /\ UNCHANGED <<state, incomplete, pc, handed, inbox, link>>

(* Mutant: the replies are not known to be written. *)
MutFlush ==
  /\ MayCall
  /\ \E o \in WriteOut(out_buffer) : Written(o) /\ result' = o.err
  /\ UNCHANGED <<state, unflushed_additional, incomplete, pc, handed, inbox, link>>

Flush ==
  /\ MayCall
  /\ \E o \in WriteOut(out_buffer) :
       /\ Written(o)
       /\ result' = o.err
       /\ unflushed_additional' = (unflushed_additional /\ o.err # "Ok")
  /\ UNCHANGED <<state, incomplete, pc, handed, inbox, link>>

(* close: the first call queues a close frame, every call flushes. *)
CloseCall(b) ==
  /\ MayCall
  /\ IF IsActive
     THEN state' = "ClosedByUs" /\ WriteFrame(Close(b), "ClosedByUs", TRUE)
     ELSE UNCHANGED state
          /\ \E o \in WriteOut(out_buffer) :
               /\ Written(o)
               /\ result' = o.err
               /\ unflushed_additional' = (unflushed_additional /\ o.err # "Ok")
  /\ UNCHANGED <<incomplete, pc, handed, inbox, link>>

(* The user lets go of the connection, once it was told to.  *)
Drop ==
  /\ pc = "idle"
  /\ result \in Fatal \cup {"Closed"}
  /\ pc' = "dropped"
  /\ UNCHANGED <<state, out_buffer, unflushed_additional, incomplete, result, handed, stream>>

-----------------------------------------------------------------------------
(* Reading *)

Return(r) == pc' = "idle" /\ result' = r

Read ==
  /\ MayCall
  /\ IF state = "Terminated"
     THEN Return("AlreadyClosed")
     ELSE pc' = "loop" /\ UNCHANGED result
  /\ UNCHANGED <<state, out_buffer, unflushed_additional, incomplete, handed, stream>>

(* Replies queued by an earlier read go out before the next blocks.        *)
FlushReplies ==
  /\ pc = "loop"
  /\ unflushed_additional
  /\ \E o \in WriteOut(out_buffer) :
       /\ Written(o)
       /\ unflushed_additional' = (o.err # "Ok")
       /\ IF o.err = "Io" THEN Return("Io") ELSE pc' = "reading" /\ UNCHANGED result
  /\ UNCHANGED <<state, incomplete, handed, inbox, link>>

(* Mutant: a client does so too. *)
MutServerDone == ~CanRead

ServerDone == Role = "Server" /\ ~CanRead

(* A server that has nothing left to read ends the connection. *)
EndConnection ==
  /\ pc = "loop"
  /\ ~unflushed_additional /\ ServerDone
  /\ state' = "Terminated"
  /\ Return("Closed")
  /\ UNCHANGED <<out_buffer, unflushed_additional, incomplete, handed, stream>>

NothingToFlush ==
  /\ pc = "loop"
  /\ ~unflushed_additional /\ ~ServerDone
  /\ pc' = "reading"
  /\ UNCHANGED <<state, out_buffer, unflushed_additional, incomplete, result, handed, stream>>

(* read_frame never returns a frame without a payload: it goes on reading, *)
(* and what follows is read into the buffer behind it, to no effect.       *)
Stuck == inbox # << >> /\ Head(inbox).body = "empty"

(* read_frame returns a frame.  A frame that was already in in_buffer is   *)
(* returned even if the connection has been reset since.                   *)
Arrival == pc = "reading" /\ inbox # << >> /\ ~Stuck

Refuse(r) ==
  /\ Return(r)
  /\ UNCHANGED <<state, out_buffer, unflushed_additional, incomplete, handed, outgoing>>

ReceiveAfterClosing ==
  /\ Arrival /\ ~CanRead
  /\ inbox' = Tail(inbox)
  /\ Refuse("Protocol")
  /\ UNCHANGED link

Hand(ids) == handed' = Append(handed, ids)

(* Mutant: that there is a reply to flush is not remembered. *)
MutReceivePing(f) ==
  /\ \E o \in (IF IsActive THEN BufferFrame(PongTo(f.id), state) ELSE WriteOut(<< >>)) :
       /\ IF IsActive THEN Written(o) ELSE UNCHANGED <<out_buffer, outgoing>>
       /\ Return(o.err)
  /\ Hand(<<f.id>>)
  /\ UNCHANGED <<state, incomplete, unflushed_additional>>

(* A ping is answered while the connection is active.  If the reply cannot *)
(* be written the ping is not handed over, and the flag not set.           *)
ReceivePing(f) ==
  IF IsActive
  THEN \E o \in BufferFrame(PongTo(f.id), state) :
         /\ Written(o)
         /\ Return(o.err)
         /\ IF o.err = "Ok"
            THEN unflushed_additional' = TRUE /\ Hand(<<f.id>>)
            ELSE UNCHANGED <<unflushed_additional, handed>>
         /\ UNCHANGED <<state, incomplete>>
  ELSE /\ Hand(<<f.id>>)
       /\ Return("Ok")
       /\ UNCHANGED <<state, out_buffer, unflushed_additional, incomplete, outgoing>>

(* into_close: what is read of a close frame.  A server does not unmask    *)
(* what it receives: it reads some other code, and a reason that may be no *)
(* text.                                                                   *)
ReadBodies(f) ==
  IF Role = "Server"
  THEN IF f.body = "bare" THEN {"bare", "forbidden"}
                          ELSE {"allowed", "forbidden", "malformed"}
  ELSE {f.body}

(* Mutant: a close is answered even if it is itself the answer to ours. *)
MutReceiveClose(f) ==
  /\ state' = IF state = "ClosedByUs" THEN "CloseAcknowledged" ELSE "ClosedByPeer"
  /\ \E o \in BufferFrame(CloseReply(f.body), "ClosedByPeer") :
       /\ Written(o)
       /\ unflushed_additional' = TRUE /\ Hand(<<f.id>>) /\ Return("Ok")
  /\ UNCHANGED incomplete

(* do_close.  A reply that cannot be written is a panic. *)
ReceiveClose(f) ==
  \E b \in ReadBodies(f) :
    IF b = "malformed" THEN Refuse("Protocol")
    ELSE IF state = "ClosedByUs"
    THEN /\ state' = "CloseAcknowledged"
         /\ Hand(<<f.id>>)
         /\ Return("Ok")
         /\ UNCHANGED <<out_buffer, unflushed_additional, incomplete, outgoing>>
    ELSE /\ state' = "ClosedByPeer"
         /\ \E o \in BufferFrame(CloseReply(IF b = "forbidden" THEN "allowed" ELSE b),
                                 "ClosedByPeer") :
              /\ Written(o)
              /\ IF o.err = "Ok"
                 THEN unflushed_additional' = TRUE /\ Hand(<<f.id>>) /\ Return("Ok")
                 ELSE pc' = "panicked"
                      /\ UNCHANGED <<unflushed_additional, handed, result>>
         /\ UNCHANGED incomplete

(* Mutant: a message that starts takes the place of the one under way. *)
MutReceiveData(f) ==
  LET msg == IF f.op = "data" THEN <<f.id>> ELSE Append(incomplete, f.id)
  IN  /\ IF f.fin
         THEN incomplete' = << >> /\ Hand(msg) /\ Return("Ok")
         ELSE incomplete' = msg /\ pc' = "loop" /\ UNCHANGED <<handed, result>>
      /\ UNCHANGED <<state, out_buffer, unflushed_additional, outgoing>>

(* Mutant: the limit is compared with what there was before. *)
MutTooLong(msg) == Len(msg) - 1 > MaxMessage

(* IncompleteMessage::extend *)
TooLong(msg) == Len(msg) > MaxMessage

(* A fragment that would make the message too long is refused; what was    *)
(* collected before it stays.                                              *)
ReceiveData(f) ==
  LET msg == Append(incomplete, f.id)
  IN  IF (f.op = "continue") # (incomplete # << >>)
      THEN Refuse("Protocol")
      ELSE IF TooLong(msg)
      THEN Refuse("Capacity")
      ELSE /\ IF f.fin
              THEN incomplete' = << >> /\ Hand(msg) /\ Return("Ok")
              ELSE incomplete' = msg /\ pc' = "loop" /\ UNCHANGED <<handed, result>>
           /\ UNCHANGED <<state, out_buffer, unflushed_additional, outgoing>>

ReceivePong(f) ==
  /\ Hand(<<f.id>>)
  /\ Return("Ok")
  /\ UNCHANGED <<state, out_buffer, unflushed_additional, incomplete, outgoing>>

Receive ==
  /\ Arrival /\ CanRead
  /\ inbox' = Tail(inbox)
  /\ LET f == Head(inbox)
     IN  \/ f.op = "bad" /\ Refuse("Protocol")
         \/ f.op = "ping" /\ ReceivePing(f)
         \/ f.op = "pong" /\ ReceivePong(f)
         \/ f.op = "close" /\ ReceiveClose(f)
         \/ f.op \in {"data", "continue"} /\ ReceiveData(f)
  /\ UNCHANGED link

(* Mutant: a stream that ends after we sent a close frame counts as closed. *)
MutReceiveEof ==
  /\ pc = "reading" /\ ~broken /\ (inbox = << >> \/ Stuck) /\ ~peer_open
  /\ state' = "Terminated"
  /\ Return(IF state # "Active" THEN "Closed" ELSE "NoClose")
  /\ UNCHANGED <<out_buffer, unflushed_additional, incomplete, handed, stream>>

(* read_frame returns Ok(None). *)
ReceiveEof ==
  /\ pc = "reading" /\ ~broken /\ (inbox = << >> \/ Stuck) /\ ~peer_open
  /\ state' = "Terminated"
  /\ Return(IF state \in {"ClosedByPeer", "CloseAcknowledged"} THEN "Closed" ELSE "NoClose")
  /\ UNCHANGED <<out_buffer, unflushed_additional, incomplete, handed, stream>>

ReceiveReset ==
  /\ pc = "reading" /\ broken
  /\ \E r \in CheckReset("Io", state) : Return(r)
  /\ UNCHANGED <<state, out_buffer, unflushed_additional, incomplete, handed, stream>>

ReadWouldBlock ==
  /\ nonblocking
  /\ pc = "reading" /\ ~broken /\ (inbox = << >> \/ Stuck) /\ peer_open
  /\ Return("WouldBlock")
  /\ UNCHANGED <<state, out_buffer, unflushed_additional, incomplete, handed, stream>>

(* The steps of a call of read after its start: the thread's own. *)
ReadStep ==
  \/ FlushReplies \/ EndConnection \/ NothingToFlush
  \/ ReceiveAfterClosing \/ Receive \/ ReceiveEof \/ ReceiveReset \/ ReadWouldBlock
=============================================================================
