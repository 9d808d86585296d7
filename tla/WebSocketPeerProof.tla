------------------------- MODULE WebSocketPeerProof -------------------------
(***************************************************************************)
(* Proofs about WebSocketPeer, for both roles, any sizes, any peer and any *)
(* user, on streams that block and on streams that do not.                 *)
(***************************************************************************)
EXTENDS WebSocketPeerInvariant, SequenceTheorems, TLAPS

USE WebSocketAssumption, PeerAssumption

-----------------------------------------------------------------------------
(* Frames *)
LEMMA FrameTypes ==
  /\ \A op \in Ops, n \in Nat : Plain(op, n) \in Frame /\ PongTo(n) \in Frame
  /\ \A b \in Bodies : Close(b) \in Frame /\ CloseReply(b) \in Frame
  BY DEF Frame, Plain, PongTo, Close, CloseReply, Ops, Bodies

LEMMA FrameKinds ==
  /\ \A op, n : Plain(op, n).op = op /\ ~Plain(op, n).auto
  /\ \A n : PongTo(n).op = "pong" /\ PongTo(n).auto /\ PongTo(n).id = n
  /\ \A b : Close(b).op = "close" /\ ~Close(b).auto
  /\ \A b : CloseReply(b).op = "close" /\ CloseReply(b).auto
  BY DEF Plain, PongTo, Close, CloseReply

-----------------------------------------------------------------------------
(* What a write of the stream makes of the queue: a part of it, from the   *)
(* front, is written and the rest stays.                                   *)
Outcome(o, q) ==
  /\ o.rest \in Seq(Frame) /\ o.done \in Seq(Frame)
  /\ o.done \o o.rest = q
  /\ o.err \in {"Ok", "WouldBlock", "Io", "Closed"}

LEMMA WriteOutFacts ==
  ASSUME NEW q \in Seq(Frame), NEW o \in WriteOut(q)
  PROVE  /\ Outcome(o, q)
         /\ o.err # "Closed"
         /\ o.err = "Ok" => o.rest = << >>
         /\ ~nonblocking => o.err # "WouldBlock"
<1>0. q \o << >> = q /\ << >> \o q = q /\ << >> \in Seq(Frame)
  BY ConcatEmptySeq
<1>1. CASE q = << >>
  <2>1. o = [rest |-> q, done |-> q, err |-> "Ok"]
    BY <1>1 DEF WriteOut
  <2>2. QED
    BY <1>0, <1>1, <2>1 DEF Outcome
<1>2. CASE q # << >> /\ broken
  <2>1. o = [rest |-> q, done |-> << >>, err |-> "Io"]
    BY <1>2 DEF WriteOut
  <2>2. QED
    BY <1>0, <2>1 DEF Outcome
<1>3. CASE q # << >> /\ ~broken
  <2>1. CASE o = [rest |-> << >>, done |-> q, err |-> "Ok"]
    BY <1>0, <2>1 DEF Outcome
  <2>2. ASSUME nonblocking, NEW k \in 0 .. Len(q) - 1,
               o = [rest |-> SubSeq(q, k + 1, Len(q)), done |-> SubSeq(q, 1, k),
                    err |-> "WouldBlock"]
        PROVE  Outcome(o, q) /\ o.err = "WouldBlock"
    <3>1. SubSeq(q, 1, k) \o SubSeq(q, k + 1, Len(q)) = SubSeq(q, 1, Len(q))
      BY ConcatAdjacentSubSeq
    <3>2. SubSeq(q, 1, Len(q)) = q
      BY SubSeqFull
    <3>3. SubSeq(q, k + 1, Len(q)) \in Seq(Frame) /\ SubSeq(q, 1, k) \in Seq(Frame)
      OBVIOUS
    <3>4. QED
      BY <2>2, <3>1, <3>2, <3>3 DEF Outcome
  <2>3. QED
    BY <1>3, <2>1, <2>2 DEF WriteOut
<1>4. QED
  BY <1>1, <1>2, <1>3

LEMMA BufferFrameFacts ==
  ASSUME out_buffer \in Seq(Frame), NEW f \in Frame, NEW s \in States, NEW o \in BufferFrame(f, s)
  PROVE  /\ Outcome(o, Append(out_buffer, f))
         /\ o.err = "Closed" => s \notin {"Active", "ClosedByUs"}
         /\ ~nonblocking => o.err # "WouldBlock"
         /\ o.err = "Ok" => o.rest \in {<< >>, Append(out_buffer, f)}
<1> DEFINE q == Append(out_buffer, f)
<1>1. q \in Seq(Frame)
  OBVIOUS
<1>2. CASE Len(q) > WriteLen
  <2>1. PICK p \in WriteOut(q) : o \in {[p EXCEPT !.err = d] : d \in CheckReset(p.err, s)}
    BY <1>2 DEF BufferFrame
  <2>0. PICK e \in CheckReset(p.err, s) : o = [p EXCEPT !.err = e]
    BY <2>1
  <2>2. /\ Outcome(p, q) /\ p.err # "Closed" /\ (~nonblocking => p.err # "WouldBlock")
        /\ p.err = "Ok" => p.rest = << >>
    BY <1>1, WriteOutFacts
  <2>3. e \in {p.err, "Closed"} /\ (e = "Closed" => s \notin {"Active", "ClosedByUs"})
    BY <2>2 DEF CheckReset
  <2>4. o.rest = p.rest /\ o.done = p.done /\ o.err = e
    BY <2>0, <2>2 DEF WriteOut
  <2>5. QED
    BY <2>2, <2>3, <2>4 DEF Outcome
<1>3. CASE ~(Len(q) > WriteLen)
  <2>1. o = [rest |-> q, done |-> << >>, err |-> "Ok"]
    BY <1>3 DEF BufferFrame
  <2>2. QED
    BY <1>1, <2>1 DEF Outcome
<1>4. QED
  BY <1>2, <1>3

(* What was written before stays written. *)
Extends(old, new) == Len(old) <= Len(new) /\ \A i \in DOMAIN old : new[i] = old[i]

Buffers == out_buffer \in Seq(Frame) /\ outgoing \in Seq(Frame)

LEMMA Associative ==
  \A s, t, u \in Seq(Frame) : (s \o t) \o u = s \o (t \o u)
<1> SUFFICES ASSUME NEW s \in Seq(Frame), NEW t \in Seq(Frame), NEW u \in Seq(Frame)
             PROVE  (s \o t) \o u = s \o (t \o u)
  OBVIOUS
<1>1. QED
  BY ConcatAssociative

LEMMA ConcatKeeps ==
  ASSUME NEW s \in Seq(Frame), NEW t \in Seq(Frame)
  PROVE  s \o t \in Seq(Frame) /\ Extends(s, s \o t)
  BY ConcatProperties DEF Extends

LEMMA WrittenFacts ==
  ASSUME Buffers, NEW q \in Seq(Frame), NEW o, Outcome(o, q), Written(o)
  PROVE  Buffers' /\ Out' = outgoing \o q /\ Extends(outgoing, outgoing')
<1>1. o.rest \in Seq(Frame) /\ o.done \in Seq(Frame) /\ o.done \o o.rest = q
  BY DEF Outcome
<1>2. outgoing' = outgoing \o o.done /\ out_buffer' = o.rest
  BY DEF Written
<1>3. outgoing' \in Seq(Frame) /\ Extends(outgoing, outgoing')
  BY <1>1, <1>2, ConcatKeeps DEF Buffers
<1>4. (outgoing \o o.done) \o o.rest = outgoing \o q
  <2>0. outgoing \in Seq(Frame) /\ o.done \in Seq(Frame) /\ o.rest \in Seq(Frame)
    BY <1>1 DEF Buffers
  <2>1. (outgoing \o o.done) \o o.rest = outgoing \o (o.done \o o.rest)
    BY <2>0, Associative, ZenonT(40)
  <2>2. QED
    BY <1>1, <2>1
<1>5. QED
  BY <1>1, <1>2, <1>3, <1>4 DEF Buffers, Out

LEMMA AppendOut ==
  ASSUME Buffers, NEW f \in Frame
  PROVE  outgoing \o Append(out_buffer, f) = Append(Out, f) /\ Append(out_buffer, f) \in Seq(Frame)
<1>1. <<f>> \in Seq(Frame) /\ Out \in Seq(Frame) /\ Append(out_buffer, f) = out_buffer \o <<f>>
  BY AppendIsConcat, ConcatProperties DEF Buffers, Out
<1>2. outgoing \o (out_buffer \o <<f>>) = Out \o <<f>>
  BY <1>1, Associative DEF Buffers, Out
<1>3. Append(Out, f) = Out \o <<f>>
  BY <1>1, AppendIsConcat
<1>4. QED
  BY <1>1, <1>2, <1>3, SMTT(40) DEF Buffers

(* A frame that is queued by itself. *)
LEMMA QueuedFacts ==
  ASSUME Buffers, NEW f \in Frame, NEW s \in States, NEW o \in BufferFrame(f, s), Written(o)
  PROVE  Buffers' /\ Out' = Append(Out, f) /\ Extends(outgoing, outgoing')
<1>1. Outcome(o, Append(out_buffer, f))
  BY BufferFrameFacts DEF Buffers
<1>2. QED
  BY <1>1, WrittenFacts, AppendOut

(* A frame the user writes. *)
LEMMA WriteFrameFacts ==
  ASSUME Buffers, NEW f \in Frame, NEW s \in {"Active", "ClosedByUs"}, NEW also \in BOOLEAN,
         unflushed_additional \in BOOLEAN, WriteFrame(f, s, also)
  PROVE  /\ Buffers' /\ Out' = Append(Out, f) /\ Extends(outgoing, outgoing')
         /\ unflushed_additional' \in BOOLEAN
         /\ result' \in {"Ok", "WouldBlock", "Io"}
         /\ ~nonblocking => result' # "WouldBlock"
         /\ result' = "Ok" =>
              \/ out_buffer' = << >>
              \/ /\ ~also /\ out_buffer' = Append(out_buffer, f)
                 /\ unflushed_additional' = unflushed_additional
<1>1. PICK o \in BufferFrame(f, s) :
        IF o.err = "Ok" /\ also
        THEN \E p \in WriteOut(o.rest) :
               /\ out_buffer' = p.rest
               /\ outgoing' = outgoing \o o.done \o p.done
               /\ result' = p.err
               /\ unflushed_additional' = (unflushed_additional /\ p.err # "Ok")
        ELSE /\ Written(o)
             /\ result' = o.err
             /\ UNCHANGED unflushed_additional
  BY DEF WriteFrame
<1>2. /\ Outcome(o, Append(out_buffer, f)) /\ o.err # "Closed"
      /\ ~nonblocking => o.err # "WouldBlock"
      /\ o.err = "Ok" => o.rest \in {<< >>, Append(out_buffer, f)}
  BY BufferFrameFacts DEF Buffers, States
<1>3. CASE o.err = "Ok" /\ also
  <2>1. PICK p \in WriteOut(o.rest) :
               /\ out_buffer' = p.rest
               /\ outgoing' = outgoing \o o.done \o p.done
               /\ result' = p.err
               /\ unflushed_additional' = (unflushed_additional /\ p.err # "Ok")
    BY <1>1, <1>3
  <2>2. /\ Outcome(p, o.rest) /\ p.err # "Closed"
        /\ p.err = "Ok" => p.rest = << >>
        /\ ~nonblocking => p.err # "WouldBlock"
    BY <1>2, WriteOutFacts DEF Outcome
  <2> DEFINE d == o.done \o p.done
  <2>3. /\ o.done \in Seq(Frame) /\ p.done \in Seq(Frame) /\ p.rest \in Seq(Frame)
        /\ o.rest \in Seq(Frame) /\ p.done \o p.rest = o.rest
        /\ o.done \o o.rest = Append(out_buffer, f)
    BY <1>2, <2>2 DEF Outcome
  <2>4. d \in Seq(Frame) /\ d \o p.rest = Append(out_buffer, f)
    <3>1. d \o p.rest = o.done \o (p.done \o p.rest)
      BY <2>3, Associative, ZenonT(40)
    <3>2. d \in Seq(Frame)
      BY <2>3, ConcatProperties
    <3>3. QED
      BY <2>3, <3>1, <3>2
  <2>5. outgoing' = outgoing \o d
    <3>1. (outgoing \o o.done) \o p.done = outgoing \o d
      BY <2>3, Associative, ZenonT(40) DEF Buffers
    <3>2. QED
      BY <2>1, <3>1
  <2>6. Outcome([done |-> d, rest |-> p.rest, err |-> "Ok"], Append(out_buffer, f))
    BY <2>3, <2>4 DEF Outcome
  <2>7. Written([done |-> d, rest |-> p.rest, err |-> "Ok"])
    BY <2>1, <2>5 DEF Written
  <2>8. Buffers' /\ Out' = Append(Out, f) /\ Extends(outgoing, outgoing')
    BY <2>6, <2>7, WrittenFacts, AppendOut
  <2>9. QED
    BY <2>1, <2>2, <2>8 DEF Outcome
<1>4. CASE ~(o.err = "Ok" /\ also)
  <2>1. Buffers' /\ Out' = Append(Out, f) /\ Extends(outgoing, outgoing')
    BY <1>1, <1>4, QueuedFacts DEF States
  <2>2. QED
    BY <1>1, <1>2, <1>4, <2>1 DEF Outcome, Written
<1>5. QED
  BY <1>3, <1>4

(* What is queued is written. *)
LEMMA FlushFacts ==
  ASSUME Buffers, NEW o \in WriteOut(out_buffer), Written(o)
  PROVE  /\ Buffers' /\ Out' = Out /\ Extends(outgoing, outgoing')
         /\ o.err \in {"Ok", "WouldBlock", "Io"}
         /\ o.err = "Ok" => out_buffer' = << >>
         /\ ~nonblocking => o.err # "WouldBlock"
<1>1. Outcome(o, out_buffer) /\ o.err # "Closed" /\ (o.err = "Ok" => o.rest = << >>)
      /\ (~nonblocking => o.err # "WouldBlock")
  BY WriteOutFacts DEF Buffers
<1>2. Buffers' /\ Out' = outgoing \o out_buffer /\ Extends(outgoing, outgoing')
  BY <1>1, WrittenFacts DEF Buffers
<1>3. QED
  BY <1>1, <1>2 DEF Out, Outcome, Written

-----------------------------------------------------------------------------
(* Frames that arrive and frames that are read *)
SameBehind == \A n \in 1 .. Returned : arrivals'[n] = arrivals[n]

LEMMA ReturnedNat ==
  ASSUME TypeInv, ArrivalsInv
  PROVE  Returned \in Nat /\ Returned <= Len(arrivals)
  BY DEF TypeInv, TypeOK, ArrivalsInv, Returned

LEMMA ReadOne ==
  ASSUME TypeInv, ArrivalsInv, inbox # << >>, inbox' = Tail(inbox), arrivals' = arrivals
  PROVE  /\ Returned' = Returned + 1 /\ Returned + 1 \in DOMAIN arrivals
         /\ Head(inbox) = arrivals[Returned + 1] /\ Head(inbox).id = Returned + 1
         /\ Head(inbox) \in Frame
         /\ inbox' \in Seq(Frame) /\ ArrivalsInv' /\ SameBehind
<1>1. /\ inbox \in Seq(Frame) /\ arrivals \in Seq(Frame)
      /\ Len(inbox) <= Len(arrivals) /\ Returned = Len(arrivals) - Len(inbox)
  BY DEF TypeInv, TypeOK, ArrivalsInv, Returned
<1>2. /\ inbox' \in Seq(Frame) /\ Len(inbox') = Len(inbox) - 1 /\ Len(inbox) > 0
      /\ \A i \in 1 .. Len(inbox) - 1 : inbox'[i] = inbox[i + 1]
      /\ Head(inbox) = inbox[1] /\ Head(inbox) \in Frame
  BY <1>1, HeadTailProperties
<1>3. Returned' = Returned + 1 /\ Returned + 1 \in DOMAIN arrivals
  BY <1>1, <1>2 DEF Returned
<1>4. Head(inbox) = arrivals[Returned + 1] /\ Head(inbox).id = Returned + 1
  BY <1>1, <1>2, <1>3 DEF ArrivalsInv
<1>5. ArrivalsInv'
  BY <1>1, <1>2, <1>3, SMTT(40) DEF ArrivalsInv
<1>6. QED
  BY <1>2, <1>3, <1>4, <1>5 DEF SameBehind

LEMMA PeerSendsInput ==
  ASSUME TypeInv, ArrivalsInv, PeerSends
  PROVE  TypeInv' /\ ArrivalsInv' /\ Returned' = Returned /\ SameBehind
<1>1. PICK s \in PeerShapes :
        LET f == [op |-> s.op, fin |-> s.fin, body |-> s.body, id |-> Len(arrivals) + 1, auto |-> FALSE]
        IN  arrivals' = Append(arrivals, f) /\ inbox' = Append(inbox, f)
  BY DEF PeerSends
<1> DEFINE f == [op |-> s.op, fin |-> s.fin, body |-> s.body, id |-> Len(arrivals) + 1, auto |-> FALSE]
<1>2. inbox \in Seq(Frame) /\ arrivals \in Seq(Frame)
  BY DEF TypeInv, TypeOK
<1>3. f \in Frame /\ f.id = Len(arrivals) + 1
  BY <1>2 DEF Frame
<1>4. arrivals' = Append(arrivals, f) /\ inbox' = Append(inbox, f)
  BY <1>1
<1> HIDE DEF f
<1>5. TypeInv'
  BY <1>2, <1>3, <1>4 DEF PeerSends, TypeInv, TypeOK, endpoint
<1>6. /\ Len(inbox') = Len(inbox) + 1 /\ Len(arrivals') = Len(arrivals) + 1
      /\ \A i \in 1 .. Len(inbox) : inbox'[i] = inbox[i]
      /\ \A i \in 1 .. Len(arrivals) : arrivals'[i] = arrivals[i]
      /\ inbox'[Len(inbox) + 1] = f /\ arrivals'[Len(arrivals) + 1] = f
  BY <1>2, <1>3, <1>4
<1>7. Returned' = Returned /\ SameBehind
  BY <1>2, <1>6 DEF Returned, SameBehind
<1>8. ArrivalsInv'
  <2>1. Len(inbox') <= Len(arrivals')
    BY <1>2, <1>6 DEF ArrivalsInv
  <2>2. ASSUME NEW i \in DOMAIN inbox' PROVE inbox'[i] = arrivals'[Returned' + i]
    <3>1. CASE i = Len(inbox) + 1
      BY <1>2, <1>6, <1>7, <3>1 DEF Returned
    <3>2. CASE i \in 1 .. Len(inbox)
      <4>1. inbox'[i] = arrivals[Returned + i] /\ Returned + i \in 1 .. Len(arrivals)
        BY <1>2, <1>6, <3>2 DEF ArrivalsInv, Returned
      <4>2. QED
        BY <1>6, <1>7, <4>1
    <3>3. QED
      BY <1>2, <1>6, <3>1, <3>2
  <2>3. ASSUME NEW n \in DOMAIN arrivals' PROVE arrivals'[n].id = n
    BY <1>2, <1>3, <1>6 DEF ArrivalsInv
  <2>4. QED
    BY <2>1, <2>2, <2>3 DEF ArrivalsInv
<1>9. QED
  BY <1>5, <1>7, <1>8

(* Two sequences lose the same number of elements at their ends. *)
LEMMA CutArithmetic ==
  ASSUME NEW n \in Nat, NEW m \in Nat, n <= m, NEW c \in 0 .. n
  PROVE  /\ (m - c) - (n - c) = m - n
         /\ n - c <= m - c
         /\ \A k \in 1 .. m - n : k \in 1 .. m - c
         /\ \A k \in 1 .. n - c : k \in 1 .. n /\ (m - n) + k \in 1 .. m - c
         /\ \A k \in 1 .. m - c : k \in 1 .. m
  OBVIOUS

LEMMA BreakInput ==
  ASSUME TypeInv, ArrivalsInv, Break
  PROVE  TypeInv' /\ ArrivalsInv' /\ Returned' = Returned /\ SameBehind
<1>1. PICK lost \in 0 .. Len(inbox) :
        /\ inbox' = SubSeq(inbox, 1, Len(inbox) - lost)
        /\ arrivals' = SubSeq(arrivals, 1, Len(arrivals) - lost)
  BY DEF Break
<1>2. inbox \in Seq(Frame) /\ arrivals \in Seq(Frame) /\ Len(inbox) <= Len(arrivals)
  BY DEF TypeInv, TypeOK, ArrivalsInv
<1>21. /\ Len(inbox) \in Nat /\ Len(arrivals) \in Nat /\ Len(inbox) <= Len(arrivals)
       /\ lost \in 0 .. Len(inbox)
  BY <1>2
<1>3. /\ inbox' \in Seq(Frame) /\ Len(inbox') = Len(inbox) - lost
      /\ \A i \in 1 .. Len(inbox) - lost : inbox'[i] = inbox[i]
      /\ arrivals' \in Seq(Frame) /\ Len(arrivals') = Len(arrivals) - lost
      /\ \A i \in 1 .. Len(arrivals) - lost : arrivals'[i] = arrivals[i]
  <2>1. /\ Len(inbox) - lost \in 0 .. Len(inbox) /\ Len(arrivals) - lost \in 0 .. Len(arrivals)
    BY <1>2
  <2>2. /\ inbox' \in Seq(Frame) /\ Len(inbox') = Len(inbox) - lost
        /\ \A i \in 1 .. Len(inbox) - lost : inbox'[i] = inbox[i]
    BY <1>1, <1>2, <2>1
  <2>3. /\ arrivals' \in Seq(Frame) /\ Len(arrivals') = Len(arrivals) - lost
        /\ \A i \in 1 .. Len(arrivals) - lost : arrivals'[i] = arrivals[i]
    BY <1>1, <1>2, <2>1
  <2>4. QED
    BY <2>2, <2>3
<1>4. TypeInv'
  BY <1>3 DEF Break, TypeInv, TypeOK, endpoint
<1>5. Returned' = Returned /\ SameBehind
  <2>1. Len(arrivals') - Len(inbox') = Len(arrivals) - Len(inbox)
    BY <1>3, <1>21, CutArithmetic
  <2>2. Returned' = Returned
    BY <2>1, Zenon DEF Returned
  <2>3. ASSUME NEW n \in 1 .. Returned PROVE arrivals'[n] = arrivals[n]
    <3>1. n \in 1 .. Len(arrivals) - lost
      BY <1>21, <2>3, CutArithmetic DEF Returned
    <3>2. QED
      BY <1>3, <3>1, Zenon
  <2>4. QED
    BY <2>2, <2>3, Zenon DEF SameBehind
<1>6. ArrivalsInv'
  <2>1. ASSUME NEW i \in DOMAIN inbox' PROVE inbox'[i] = arrivals'[Returned' + i]
    <3>1. i \in 1 .. Len(inbox) - lost /\ i \in 1 .. Len(inbox)
      <4>1. DOMAIN inbox' = 1 .. Len(inbox) - lost
        BY <1>3
      <4>2. QED
        BY <1>21, <2>1, <4>1, CutArithmetic
    <3>2. inbox'[i] = arrivals[Returned + i]
      <4>1. i \in DOMAIN inbox
        BY <1>2, <3>1
      <4>2. QED
        BY <1>3, <3>1, <4>1, Zenon DEF ArrivalsInv
    <3>3. Returned + i \in 1 .. Len(arrivals) - lost
      BY <1>21, <3>1, CutArithmetic DEF Returned
    <3>4. QED
      BY <1>3, <1>5, <3>2, <3>3, Zenon
  <2>2. Len(inbox') <= Len(arrivals')
    BY <1>3, <1>21, CutArithmetic
  <2>3. ASSUME NEW n \in DOMAIN arrivals' PROVE arrivals'[n].id = n
    <3>1. DOMAIN arrivals' = 1 .. Len(arrivals) - lost
      BY <1>3
    <3>2. DOMAIN arrivals = 1 .. Len(arrivals)
      BY <1>2
    <3>3. n \in 1 .. Len(arrivals) - lost /\ n \in DOMAIN arrivals
      BY <1>21, <2>3, <3>1, <3>2, CutArithmetic
    <3>4. QED
      BY <1>3, <3>3, Zenon DEF ArrivalsInv
  <2>4. QED
    BY <2>1, <2>2, <2>3, Zenon DEF ArrivalsInv
<1>7. QED
  BY <1>4, <1>5, <1>6, Zenon

-----------------------------------------------------------------------------
(* Pongs *)

(* What appending a frame does to the indices of Out. *)
LEMMA OutGrows ==
  ASSUME NEW f \in Frame, Out \in Seq(Frame), Out' = Append(Out, f)
  PROVE  /\ DOMAIN Out = 1 .. Len(Out) /\ Len(Out) \in Nat
         /\ DOMAIN Out' = 1 .. Len(Out) + 1 /\ Len(Out') = Len(Out) + 1
         /\ \A i \in DOMAIN Out : Out'[i] = Out[i] /\ i \in DOMAIN Out'
         /\ Out'[Len(Out) + 1] = f /\ Len(Out) + 1 \in DOMAIN Out'
         /\ \A i \in DOMAIN Out' : i \in DOMAIN Out \/ i = Len(Out) + 1
  OBVIOUS

LEMMA PongsKept ==
  ASSUME PongsMatchPings, Out \in Seq(Frame), Returned \in Nat, SameBehind,
         \/ Returned' = Returned
         \/ Returned' = Returned + 1 /\ (arrivals'[Returned + 1].op # "ping" \/ state' # "Active"),
         \/ Out' = Out
         \/ \E f \in Frame : ~IsReply(f) /\ Out' = Append(Out, f),
         state' = state \/ state' # "Active"
  PROVE  PongsMatchPings'
<1>1. \A n \in 1 .. Returned : n \in 1 .. Returned' /\ arrivals'[n].op = arrivals[n].op
  BY DEF SameBehind
<1>2. /\ \A i \in DOMAIN Out' : IsReply(Out'[i]) => i \in DOMAIN Out /\ Out'[i] = Out[i]
      /\ \A i \in DOMAIN Out : i \in DOMAIN Out' /\ Out'[i] = Out[i]
  <2>1. CASE Out' = Out
    BY <2>1
  <2>2. ASSUME NEW f \in Frame, ~IsReply(f), Out' = Append(Out, f)
        PROVE  <1>2
    BY <2>2, OutGrows
  <2>3. QED
    BY <2>1, <2>2
<1>3. \A n : Answered(n) <=> Answered(n)'
  BY <1>2 DEF Answered
<1>4. \A i \in DOMAIN Out' : IsReply(Out'[i]) =>
        Out'[i].id \in 1 .. Returned' /\ arrivals'[Out'[i].id].op = "ping" /\ Out'[i].id \in 1 .. Returned
  BY <1>1, <1>2 DEF PongsMatchPings, OpOf
<1>5. \A i, j \in DOMAIN Out' : IsReply(Out'[i]) /\ IsReply(Out'[j]) /\ i < j =>
        Out'[i].id < Out'[j].id
  BY <1>2 DEF PongsMatchPings, OpOf
<1>6. ASSUME NEW n \in 1 .. Returned', arrivals'[n].op = "ping"
      PROVE  \/ Answered(n)'
             \/ /\ state' # "Active"
                /\ \A i \in DOMAIN Out' : IsReply(Out'[i]) => Out'[i].id < n
  <2>1. CASE n \in 1 .. Returned
    BY <1>1, <1>2, <1>3, <1>6, <2>1 DEF PongsMatchPings, OpOf
  <2>2. CASE n = Returned + 1
    <3>1. state' # "Active"
      BY <1>6, <2>2
    <3>2. QED
      BY <1>4, <2>2, <3>1
  <2>3. QED
    BY <2>1, <2>2
<1>7. QED
  BY <1>4, <1>5, <1>6 DEF PongsMatchPings, OpOf

LEMMA PongsAnswered ==
  ASSUME PongsMatchPings, Out \in Seq(Frame), Returned \in Nat, SameBehind,
         Returned' = Returned + 1, arrivals'[Returned + 1].op = "ping",
         Out' = Append(Out, PongTo(Returned + 1)), state = "Active"
  PROVE  PongsMatchPings'
<1> DEFINE f == PongTo(Returned + 1)
<1>1. f \in Frame /\ IsReply(f) /\ f.id = Returned + 1
  <2>1. Returned + 1 \in Nat
    OBVIOUS
  <2>2. "ping" \in Ops
    BY DEF Ops
  <2>3. QED
    BY <2>1, <2>2, FrameTypes, FrameKinds, Zenon DEF IsReply
<1> HIDE DEF f
<1>2. /\ DOMAIN Out = 1 .. Len(Out) /\ Len(Out) \in Nat
      /\ \A i \in DOMAIN Out : Out'[i] = Out[i] /\ i \in DOMAIN Out'
      /\ Out'[Len(Out) + 1] = f /\ Len(Out) + 1 \in DOMAIN Out'
      /\ \A i \in DOMAIN Out' : i \in DOMAIN Out \/ i = Len(Out) + 1
  BY <1>1, OutGrows DEF f
<1>3. \A n \in 1 .. Returned : n \in 1 .. Returned' /\ arrivals'[n].op = arrivals[n].op
  BY DEF SameBehind
<1>4. \A n : Answered(n) => Answered(n)'
  BY <1>2 DEF Answered
<1>5. \A n : n = Returned + 1 => Answered(n)'
  BY <1>1, <1>2 DEF Answered
<1>6. \A i \in DOMAIN Out' : IsReply(Out'[i]) =>
        Out'[i].id \in 1 .. Returned' /\ arrivals'[Out'[i].id].op = "ping"
  <2> SUFFICES ASSUME NEW i \in DOMAIN Out', IsReply(Out'[i])
               PROVE  Out'[i].id \in 1 .. Returned' /\ arrivals'[Out'[i].id].op = "ping"
    OBVIOUS
  <2>1. CASE i \in DOMAIN Out
    BY <1>2, <1>3, <2>1 DEF PongsMatchPings, OpOf
  <2>2. CASE i = Len(Out) + 1
    BY <1>1, <1>2, <2>2
  <2>3. QED
    BY <1>2, <2>1, <2>2
<1>7. \A i, j \in DOMAIN Out' : IsReply(Out'[i]) /\ IsReply(Out'[j]) /\ i < j =>
        Out'[i].id < Out'[j].id
  <2> SUFFICES ASSUME NEW i \in DOMAIN Out', NEW j \in DOMAIN Out',
                      IsReply(Out'[i]), IsReply(Out'[j]), i < j
               PROVE  Out'[i].id < Out'[j].id
    OBVIOUS
  <2>1. i \in DOMAIN Out /\ Out'[i] = Out[i]
    BY <1>2
  <2>2. CASE j \in DOMAIN Out
    BY <1>2, <2>1, <2>2 DEF PongsMatchPings, OpOf
  <2>3. CASE j = Len(Out) + 1
    <3>1. Out[i].id \in 1 .. Returned
      BY <2>1 DEF PongsMatchPings, OpOf
    <3>2. QED
      BY <1>1, <1>2, <2>1, <2>3, <3>1
  <2>4. QED
    BY <1>2, <2>2, <2>3
<1>8. \A n \in 1 .. Returned' : arrivals'[n].op = "ping" => Answered(n)'
  BY <1>3, <1>4, <1>5 DEF PongsMatchPings, OpOf
<1>9. QED
  BY <1>6, <1>7, <1>8 DEF PongsMatchPings, OpOf

-----------------------------------------------------------------------------
(* Messages *)

(* What is known of a frame that was read stays so. *)
LEMMA KnownFrames ==
  ASSUME SameBehind, Returned \in Nat, Returned' \in {Returned, Returned + 1}
  PROVE  \A n \in 1 .. Returned : n \in 1 .. Returned' /\ arrivals'[n] = arrivals[n]
  BY DEF SameBehind

LEMMA IdsKnown ==
  ASSUME FragmentsInv
  PROVE  /\ \A n : Handed(n) \/ Kept(n) => n \in 1 .. Returned
         /\ \A i \in DOMAIN handed : 1 \in DOMAIN handed[i] => handed[i][1] \in 1 .. Returned
  BY DEF FragmentsInv, Handed, Kept

(* A message that was read stays what it is. *)
LEMMA WholeStays ==
  ASSUME NEW m, WholeMessage(m), \A k \in DOMAIN m : arrivals'[m[k]] = arrivals[m[k]]
  PROVE  /\ \A k \in DOMAIN m : /\ arrivals'[m[k]].op = (IF k = 1 THEN "data" ELSE "continue")
                                /\ arrivals'[m[k]].fin <=> k = Len(m)
         /\ InOrder(m) /\ Len(m) <= MaxMessage
<1>1. \A k \in DOMAIN m : /\ arrivals[m[k]].op = (IF k = 1 THEN "data" ELSE "continue")
                          /\ arrivals[m[k]].fin <=> k = Len(m)
  BY Zenon DEF WholeMessage, OpOf
<1>2. QED
  BY <1>1, Zenon DEF WholeMessage

LEMMA FirstKnown ==
  ASSUME handed \in Seq(Seq(Nat)), FragmentsInv
  PROVE  \A i \in DOMAIN handed : 1 \in DOMAIN handed[i] /\ handed[i][1] \in 1 .. Returned
<1> SUFFICES ASSUME NEW i \in DOMAIN handed
             PROVE  1 \in DOMAIN handed[i] /\ handed[i][1] \in 1 .. Returned
  OBVIOUS
<1>1. handed[i] \in Seq(Nat) /\ handed[i] # << >>
  BY DEF FragmentsInv
<1>2. 1 \in DOMAIN handed[i]
  BY <1>1
<1>3. QED
  BY <1>2 DEF FragmentsInv

(* Steps by which the user is handed nothing and nothing is kept: no frame *)
(* was read, or one that was refused or whose answer could not be written. *)
LEMMA MessagesAlone ==
  ASSUME TypeInv, MessageInv, SameBehind, Returned \in Nat, UNCHANGED <<handed, incomplete, nonblocking>>,
         Going' => Going,
         \/ Returned' = Returned
         \/ /\ Returned' = Returned + 1
            /\ ~Going' \/ (nonblocking /\ arrivals'[Returned + 1].op \notin {"data", "continue"})
  PROVE  MessageInv'
<1>1. FragmentsInv /\ MessagesWhole /\ NothingSwallowed
  BY DEF MessageInv
<1>2. \A n \in 1 .. Returned : n \in 1 .. Returned' /\ arrivals'[n] = arrivals[n]
  BY KnownFrames
<1>3. \A n : (Handed(n)' <=> Handed(n)) /\ (Kept(n)' <=> Kept(n))
  BY DEF Handed, Kept
<1>4. \A n : Handed(n) \/ Kept(n) => n \in 1 .. Returned
  BY <1>1, IdsKnown
<1>5. handed \in Seq(Seq(Nat)) /\ incomplete \in Seq(Nat)
  BY DEF TypeInv, TypeOK
<1>6. \A i \in DOMAIN handed : /\ handed[i][1] \in 1 .. Returned /\ IsMessage(i)' = IsMessage(i)
                               /\ 1 \in DOMAIN handed[i]
  <2>1. \A i \in DOMAIN handed : 1 \in DOMAIN handed[i] /\ handed[i][1] \in 1 .. Returned
    BY <1>1, <1>5, FirstKnown
  <2>2. QED
    BY <1>2, <2>1 DEF IsMessage, IsData, OpOf
<1>7. FragmentsInv'
  <2>1. \A k \in DOMAIN incomplete :
           /\ incomplete[k] \in 1 .. Returned'
           /\ arrivals'[incomplete[k]].op = IF k = 1 THEN "data" ELSE "continue"
           /\ ~arrivals'[incomplete[k]].fin
    BY <1>1, <1>2 DEF FragmentsInv, OpOf
  <2>2. \A i \in DOMAIN handed :
           /\ handed[i] # << >>
           /\ \A k \in DOMAIN handed[i] : handed[i][k] \in 1 .. Returned'
           /\ ~IsMessage(i)' => Len(handed[i]) = 1
    BY <1>1, <1>2, <1>6 DEF FragmentsInv
  <2>3. Going' => \A n \in 1 .. Returned' : arrivals'[n].op \in {"data", "continue"} =>
                    (Handed(n) \/ Kept(n))'
    BY <1>1, <1>2, <1>3 DEF FragmentsInv, IsData, OpOf
  <2>4. QED
    BY <2>1, <2>2, <2>3 DEF FragmentsInv, IsData, OpOf
<1>8. MessagesWhole'
  <2>1. \A i \in DOMAIN handed : IsMessage(i)' => WholeMessage(handed[i])'
    <3> SUFFICES ASSUME NEW i \in DOMAIN handed, IsMessage(i)' PROVE WholeMessage(handed[i])'
      OBVIOUS
    <3>1. WholeMessage(handed[i]) /\ \A k \in DOMAIN handed[i] : handed[i][k] \in 1 .. Returned
      BY <1>1, <1>6 DEF MessagesWhole, FragmentsInv
    <3>2. QED
      BY <1>2, <3>1 DEF WholeMessage, InOrder, OpOf
  <2>2. \A n \in 1 .. Returned' : arrivals'[n].op \in {"data", "continue"} =>
           \/ (Handed(n) \/ Kept(n))'
           \/ \A m \in 1 .. Returned' :
                arrivals'[m].op \in {"data", "continue"} /\ (Handed(m) \/ Kept(m))' => m < n
    BY <1>1, <1>2, <1>3, <1>4 DEF MessagesWhole, IsData, OpOf
  <2>3. QED
    BY <1>1, <1>6, <2>1, <2>2 DEF MessagesWhole, IsData, OpOf, InOrder
<1>9. NothingSwallowed'
  <2>1. ~nonblocking /\ Going' => \A n \in 1 .. Returned' : Handed(n) \/ Kept(n)
    BY <1>1 DEF NothingSwallowed, Going
  <2>2. QED
    BY <1>1, <1>3, <2>1 DEF NothingSwallowed, Going
<1>10. QED
  BY <1>7, <1>8, <1>9 DEF MessageInv

(* Appending to what the user was handed. *)
LEMMA HandGrows ==
  ASSUME handed \in Seq(Seq(Nat)), NEW m \in Seq(Nat), handed' = Append(handed, m)
  PROVE  /\ handed' \in Seq(Seq(Nat)) /\ Len(handed) \in Nat
         /\ DOMAIN handed = 1 .. Len(handed) /\ DOMAIN handed' = 1 .. Len(handed) + 1
         /\ \A i \in DOMAIN handed : i \in DOMAIN handed' /\ handed'[i] = handed[i]
         /\ handed'[Len(handed) + 1] = m
         /\ \A i \in DOMAIN handed' : i \in DOMAIN handed \/ i = Len(handed) + 1
  OBVIOUS

(* A frame that carries no data is handed over by itself. *)
LEMMA ControlHanded ==
  ASSUME TypeInv, MessageInv, Going, SameBehind, Returned \in Nat, Returned' = Returned + 1,
         UNCHANGED <<incomplete, nonblocking>>,
         handed' = Append(handed, <<Returned + 1>>),
         arrivals'[Returned + 1].op \notin {"data", "continue"}
  PROVE  MessageInv'
<1> DEFINE new == Returned + 1
           last == Len(handed) + 1
<1>1. FragmentsInv /\ MessagesWhole /\ NothingSwallowed
  BY DEF MessageInv
<1>2. \A n \in 1 .. Returned : n \in 1 .. Returned' /\ arrivals'[n] = arrivals[n]
  BY KnownFrames
<1>3. handed \in Seq(Seq(Nat)) /\ incomplete \in Seq(Nat)
  BY DEF TypeInv, TypeOK
<1>4. /\ <<new>> \in Seq(Nat) /\ Len(<<new>>) = 1 /\ DOMAIN <<new>> = {1} /\ <<new>>[1] = new
      /\ <<new>> # << >>
  OBVIOUS
<1>5. /\ DOMAIN handed = 1 .. Len(handed) /\ Len(handed) \in Nat
      /\ \A i \in DOMAIN handed : i \in DOMAIN handed' /\ handed'[i] = handed[i]
      /\ handed'[last] = <<new>> /\ last \in DOMAIN handed'
      /\ \A i \in DOMAIN handed' : i \in DOMAIN handed \/ i = last
  BY <1>3, <1>4, HandGrows
<1> HIDE DEF new, last
<1>6. new \in Nat /\ new > Returned /\ Returned' = new
  BY DEF new
<1>7. \A n : /\ Kept(n)' <=> Kept(n)
             /\ Handed(n)' <=> Handed(n) \/ n = new
  <2>1. \A n : Kept(n)' <=> Kept(n)
    BY DEF Kept
  <2>2. \A n : Handed(n) => Handed(n)'
    BY <1>5 DEF Handed
  <2>3. \A n : n = new => Handed(n)'
    BY <1>4, <1>5 DEF Handed
  <2>4. \A n : Handed(n)' => Handed(n) \/ n = new
    BY <1>4, <1>5 DEF Handed
  <2>5. QED
    BY <2>1, <2>2, <2>3, <2>4
<1>8. \A n : Handed(n) \/ Kept(n) => n \in 1 .. Returned
  BY <1>1, IdsKnown
<1>9. \A i \in DOMAIN handed : /\ 1 \in DOMAIN handed[i] /\ handed[i][1] \in 1 .. Returned
                               /\ IsMessage(i)' = IsMessage(i)
  <2>1. \A i \in DOMAIN handed : 1 \in DOMAIN handed[i] /\ handed[i][1] \in 1 .. Returned
    BY <1>1, <1>3, FirstKnown
  <2>2. QED
    BY <1>2, <1>5, <2>1 DEF IsMessage, IsData, OpOf
<1>10. \A i : i = last => ~IsMessage(i)'
  BY <1>4, <1>5 DEF IsMessage, IsData, OpOf, new
<1>11. FragmentsInv'
  <2>1. \A k \in DOMAIN incomplete :
           /\ incomplete[k] \in 1 .. Returned'
           /\ arrivals'[incomplete[k]].op = IF k = 1 THEN "data" ELSE "continue"
           /\ ~arrivals'[incomplete[k]].fin
    BY <1>1, <1>2 DEF FragmentsInv, OpOf
  <2>2. \A i \in DOMAIN handed' :
           /\ handed'[i] # << >>
           /\ \A k \in DOMAIN handed'[i] : handed'[i][k] \in 1 .. Returned'
           /\ ~IsMessage(i)' => Len(handed'[i]) = 1
    <3> SUFFICES ASSUME NEW i \in DOMAIN handed'
                 PROVE  /\ handed'[i] # << >>
                        /\ \A k \in DOMAIN handed'[i] : handed'[i][k] \in 1 .. Returned'
                        /\ ~IsMessage(i)' => Len(handed'[i]) = 1
      OBVIOUS
    <3>1. CASE i \in DOMAIN handed
      BY <1>1, <1>2, <1>5, <1>9, <3>1 DEF FragmentsInv
    <3>2. CASE i = last
      BY <1>4, <1>5, <1>6, <3>2
    <3>3. QED
      BY <1>5, <3>1, <3>2
  <2>3. \A n \in 1 .. Returned' : arrivals'[n].op \in {"data", "continue"} => (Handed(n) \/ Kept(n))'
    BY <1>1, <1>2, <1>6, <1>7 DEF FragmentsInv, IsData, OpOf, new
  <2>4. QED
    BY <2>1, <2>2, <2>3 DEF FragmentsInv, IsData, OpOf
<1>12. MessagesWhole'
  <2>1. \A i \in DOMAIN handed' : IsMessage(i)' => WholeMessage(handed[i])' /\ i \in DOMAIN handed
    <3> SUFFICES ASSUME NEW i \in DOMAIN handed', IsMessage(i)'
                 PROVE  WholeMessage(handed[i])' /\ i \in DOMAIN handed
      OBVIOUS
    <3>1. i \in DOMAIN handed /\ handed'[i] = handed[i]
      BY <1>5, <1>10
    <3>2. WholeMessage(handed[i]) /\ \A k \in DOMAIN handed[i] : handed[i][k] \in 1 .. Returned
      BY <1>1, <1>9, <3>1 DEF MessagesWhole, FragmentsInv
    <3>3. \A k \in DOMAIN handed[i] : arrivals'[handed[i][k]] = arrivals[handed[i][k]]
      BY <1>2, <3>2
    <3>4. WholeMessage(handed[i])'
      BY <3>1, <3>2, <3>3, WholeStays, SMTT(40) DEF WholeMessage, InOrder, OpOf
    <3>5. QED
      BY <3>1, <3>4
  <2>2. \A n \in 1 .. Returned' : arrivals'[n].op \in {"data", "continue"} => (Handed(n) \/ Kept(n))'
    BY <1>1, <1>2, <1>6, <1>7 DEF FragmentsInv, IsData, OpOf, new
  <2>3. \A i, j \in DOMAIN handed' : IsMessage(i)' /\ IsMessage(j)' /\ i < j =>
          \A k \in DOMAIN handed'[i], l \in DOMAIN handed'[j] : handed'[i][k] < handed'[j][l]
    BY <1>1, <1>5, <1>9, <2>1 DEF MessagesWhole
  <2>4. \A i \in DOMAIN handed' : IsMessage(i)' =>
          \A k \in DOMAIN handed'[i], l \in DOMAIN incomplete : handed'[i][k] < incomplete[l]
    BY <1>1, <1>5, <1>9, <2>1 DEF MessagesWhole
  <2>5. QED
    BY <1>1, <2>1, <2>2, <2>3, <2>4 DEF MessagesWhole, IsData, OpOf, InOrder
<1>13. NothingSwallowed'
  <2>1. ~nonblocking => \A n \in 1 .. Returned' : (Handed(n) \/ Kept(n))'
    BY <1>1, <1>6, <1>7 DEF NothingSwallowed, Going, new
  <2>2. \A i, j \in DOMAIN handed' : \A k \in DOMAIN handed'[i], l \in DOMAIN handed'[j] :
          handed'[i][k] = handed'[j][l] => i = j /\ k = l
    <3>1. \A i \in DOMAIN handed : \A k \in DOMAIN handed[i] : handed[i][k] \in 1 .. Returned
      BY <1>1 DEF FragmentsInv
    <3>2. \A i, j \in DOMAIN handed : \A k \in DOMAIN handed[i], l \in DOMAIN handed[j] :
            handed[i][k] = handed[j][l] => i = j /\ k = l
      BY <1>1 DEF NothingSwallowed
    <3>3. QED
      BY <1>4, <1>5, <1>6, <3>1, <3>2
  <2>3. \A l \in DOMAIN incomplete : \A n : n = incomplete[l] => ~Handed(n)'
    <3>1. \A l \in DOMAIN incomplete : ~Handed(incomplete[l]) /\ incomplete[l] \in 1 .. Returned
      BY <1>1 DEF NothingSwallowed, FragmentsInv
    <3>2. QED
      BY <1>6, <1>7, <3>1
  <2>4. QED
    BY <2>1, <2>2, <2>3 DEF NothingSwallowed
<1>14. QED
  BY <1>11, <1>12, <1>13 DEF MessageInv

(* A fragment that does not end its message is kept. *)
LEMMA FragmentKept ==
  ASSUME TypeInv, MessageInv, Going, SameBehind, Returned \in Nat, Returned' = Returned + 1,
         UNCHANGED <<handed, nonblocking>>,
         incomplete' = Append(incomplete, Returned + 1), Len(incomplete') <= MaxMessage,
         arrivals'[Returned + 1].op = IF incomplete = << >> THEN "data" ELSE "continue",
         ~arrivals'[Returned + 1].fin
  PROVE  MessageInv'
<1> DEFINE new == Returned + 1
           last == Len(incomplete) + 1
<1>1. FragmentsInv /\ MessagesWhole /\ NothingSwallowed
  BY DEF MessageInv
<1>2. \A n \in 1 .. Returned : n \in 1 .. Returned' /\ arrivals'[n] = arrivals[n]
  BY KnownFrames
<1>3. handed \in Seq(Seq(Nat)) /\ incomplete \in Seq(Nat)
  BY DEF TypeInv, TypeOK
<1>4. /\ DOMAIN incomplete = 1 .. Len(incomplete) /\ Len(incomplete) \in Nat
      /\ DOMAIN incomplete' = 1 .. Len(incomplete) + 1
      /\ \A k \in DOMAIN incomplete : k \in DOMAIN incomplete' /\ incomplete'[k] = incomplete[k] /\ k < last
      /\ incomplete'[last] = new /\ last \in DOMAIN incomplete'
      /\ \A k \in DOMAIN incomplete' : k \in DOMAIN incomplete \/ k = last
      /\ last = 1 <=> incomplete = << >>
  BY <1>3
<1> HIDE DEF new, last
<1>5. new \in Nat /\ new > Returned /\ Returned' = new
  BY DEF new
<1>6. \A n : (Handed(n)' <=> Handed(n)) /\ (Kept(n)' <=> Kept(n) \/ n = new)
  <2>1. \A n : Handed(n)' <=> Handed(n)
    BY DEF Handed
  <2>2. \A n : Kept(n) => Kept(n)'
    BY <1>4 DEF Kept
  <2>3. \A n : n = new => Kept(n)'
    BY <1>4 DEF Kept
  <2>4. \A n : Kept(n)' => Kept(n) \/ n = new
    BY <1>4 DEF Kept
  <2>5. QED
    BY <2>1, <2>2, <2>3, <2>4
<1>7. \A n : Handed(n) \/ Kept(n) => n \in 1 .. Returned
  BY <1>1, IdsKnown
<1>8. \A i \in DOMAIN handed : /\ 1 \in DOMAIN handed[i] /\ handed[i][1] \in 1 .. Returned
                               /\ IsMessage(i)' = IsMessage(i)
  <2>1. \A i \in DOMAIN handed : 1 \in DOMAIN handed[i] /\ handed[i][1] \in 1 .. Returned
    BY <1>1, <1>3, FirstKnown
  <2>2. QED
    BY <1>2, <2>1 DEF IsMessage, IsData, OpOf
<1>9. /\ \A k \in DOMAIN incomplete : incomplete[k] \in 1 .. Returned
      /\ \A i \in DOMAIN handed : \A k \in DOMAIN handed[i] : handed[i][k] \in 1 .. Returned
  BY <1>1 DEF FragmentsInv
<1>10. FragmentsInv'
  <2>1. ASSUME NEW k \in DOMAIN incomplete'
        PROVE  /\ incomplete'[k] \in 1 .. Returned'
               /\ arrivals'[incomplete'[k]].op = IF k = 1 THEN "data" ELSE "continue"
               /\ ~arrivals'[incomplete'[k]].fin
    <3>1. CASE k \in DOMAIN incomplete
      BY <1>1, <1>2, <1>4, <3>1 DEF FragmentsInv, OpOf
    <3>2. CASE k = last
      BY <1>4, <1>5, <3>2 DEF new
    <3>3. QED
      BY <1>4, <3>1, <3>2
  <2>2. \A i \in DOMAIN handed :
           /\ handed[i] # << >>
           /\ \A k \in DOMAIN handed[i] : handed[i][k] \in 1 .. Returned'
           /\ ~IsMessage(i)' => Len(handed[i]) = 1
    BY <1>1, <1>2, <1>8 DEF FragmentsInv
  <2>3. \A n \in 1 .. Returned' : arrivals'[n].op \in {"data", "continue"} => (Handed(n) \/ Kept(n))'
    BY <1>1, <1>2, <1>5, <1>6 DEF FragmentsInv, IsData, OpOf, new
  <2>4. QED
    BY <2>1, <2>2, <2>3 DEF FragmentsInv, IsData, OpOf
<1>11. MessagesWhole'
  <2>1. \A i \in DOMAIN handed : IsMessage(i)' => WholeMessage(handed[i])'
    <3> SUFFICES ASSUME NEW i \in DOMAIN handed, IsMessage(i)' PROVE WholeMessage(handed[i])'
      OBVIOUS
    <3>1. WholeMessage(handed[i]) /\ \A k \in DOMAIN handed[i] : handed[i][k] \in 1 .. Returned
      BY <1>1, <1>8 DEF MessagesWhole, FragmentsInv
    <3>2. QED
      BY <1>2, <3>1 DEF WholeMessage, InOrder, OpOf
  <2>2. \A n \in 1 .. Returned' : arrivals'[n].op \in {"data", "continue"} => (Handed(n) \/ Kept(n))'
    BY <1>1, <1>2, <1>5, <1>6 DEF FragmentsInv, IsData, OpOf, new
  <2>3. \A k, l \in DOMAIN incomplete' : k < l => incomplete'[k] < incomplete'[l]
    <3> SUFFICES ASSUME NEW k \in DOMAIN incomplete', NEW l \in DOMAIN incomplete', k < l
                 PROVE  incomplete'[k] < incomplete'[l]
      OBVIOUS
    <3>1. k \in DOMAIN incomplete
      BY <1>4 DEF last
    <3>2. CASE l \in DOMAIN incomplete
      BY <1>1, <1>4, <3>1, <3>2 DEF MessagesWhole, InOrder
    <3>3. CASE l = last
      BY <1>4, <1>5, <1>9, <3>1, <3>3
    <3>4. QED
      BY <1>4, <3>2, <3>3
  <2>4. \A i \in DOMAIN handed : IsMessage(i)' =>
          \A k \in DOMAIN handed[i], l \in DOMAIN incomplete' : handed[i][k] < incomplete'[l]
    <3> SUFFICES ASSUME NEW i \in DOMAIN handed, IsMessage(i)', NEW k \in DOMAIN handed[i],
                        NEW l \in DOMAIN incomplete'
                 PROVE  handed[i][k] < incomplete'[l]
      OBVIOUS
    <3>1. CASE l \in DOMAIN incomplete
      BY <1>1, <1>4, <1>8, <3>1 DEF MessagesWhole
    <3>2. CASE l = last
      BY <1>4, <1>5, <1>9, <3>2
    <3>3. QED
      BY <1>4, <3>1, <3>2
  <2>5. QED
    BY <1>1, <1>8, <2>1, <2>2, <2>3, <2>4 DEF MessagesWhole, IsData, OpOf, InOrder
<1>12. NothingSwallowed'
  <2>1. ~nonblocking => \A n \in 1 .. Returned' : (Handed(n) \/ Kept(n))'
    BY <1>1, <1>5, <1>6 DEF NothingSwallowed, Going, new
  <2>2. \A l \in DOMAIN incomplete' : \A n : n = incomplete'[l] => ~Handed(n)'
    <3> SUFFICES ASSUME NEW l \in DOMAIN incomplete' PROVE ~Handed(incomplete'[l])
      BY <1>6
    <3>1. CASE l \in DOMAIN incomplete
      BY <1>1, <1>4, <3>1 DEF NothingSwallowed
    <3>2. CASE l = last
      BY <1>4, <1>5, <1>7, <3>2
    <3>3. QED
      BY <1>4, <3>1, <3>2
  <2>3. QED
    BY <1>1, <2>1, <2>2 DEF NothingSwallowed
<1>13. QED
  BY <1>10, <1>11, <1>12 DEF MessageInv

(* The final fragment: the message is handed over. *)
LEMMA MessageDone ==
  ASSUME TypeInv, MessageInv, Going, SameBehind, Returned \in Nat, Returned' = Returned + 1,
         UNCHANGED nonblocking, incomplete' = << >>,
         handed' = Append(handed, Append(incomplete, Returned + 1)),
         Len(Append(incomplete, Returned + 1)) <= MaxMessage,
         arrivals'[Returned + 1].op = IF incomplete = << >> THEN "data" ELSE "continue",
         arrivals'[Returned + 1].fin
  PROVE  MessageInv'
<1> DEFINE new == Returned + 1
           end == Len(incomplete) + 1
           msg == Append(incomplete, new)
           last == Len(handed) + 1
<1>1. FragmentsInv /\ MessagesWhole /\ NothingSwallowed
  BY DEF MessageInv
<1>2. \A n \in 1 .. Returned : n \in 1 .. Returned' /\ arrivals'[n] = arrivals[n]
  BY KnownFrames
<1>3. handed \in Seq(Seq(Nat)) /\ incomplete \in Seq(Nat)
  BY DEF TypeInv, TypeOK
<1>4. /\ DOMAIN incomplete = 1 .. Len(incomplete) /\ Len(incomplete) \in Nat
      /\ DOMAIN msg = 1 .. Len(incomplete) + 1 /\ msg \in Seq(Nat) /\ msg # << >>
      /\ \A k \in DOMAIN incomplete : k \in DOMAIN msg /\ msg[k] = incomplete[k] /\ k < end
      /\ msg[end] = new /\ end \in DOMAIN msg /\ Len(msg) = end
      /\ \A k \in DOMAIN msg : k \in DOMAIN incomplete \/ k = end
      /\ end = 1 <=> incomplete = << >>
      /\ 1 \in DOMAIN msg
  BY <1>3
<1>5. Len(msg) <= MaxMessage /\ handed' = Append(handed, msg)
  OBVIOUS
<1> HIDE DEF msg
<1>6. /\ DOMAIN handed = 1 .. Len(handed) /\ Len(handed) \in Nat
      /\ \A i \in DOMAIN handed : i \in DOMAIN handed' /\ handed'[i] = handed[i] /\ i < last
      /\ handed'[last] = msg /\ last \in DOMAIN handed'
      /\ \A i \in DOMAIN handed' : i \in DOMAIN handed \/ i = last
  BY <1>3, <1>4, <1>5, HandGrows, SMTT(40)
<1> HIDE DEF new, last, end
<1>7. new \in Nat /\ new > Returned /\ Returned' = new
  BY DEF new
<1>8. /\ \A k \in DOMAIN incomplete : incomplete[k] \in 1 .. Returned
      /\ \A i \in DOMAIN handed : \A k \in DOMAIN handed[i] : handed[i][k] \in 1 .. Returned
      /\ \A k \in DOMAIN msg : msg[k] \in 1 .. Returned'
  <2>1. \A k \in DOMAIN incomplete : incomplete[k] \in 1 .. Returned
    BY <1>1 DEF FragmentsInv
  <2>2. \A k \in DOMAIN msg : msg[k] \in 1 .. Returned'
    <3>1. ASSUME NEW k \in DOMAIN incomplete PROVE msg[k] \in 1 .. Returned'
      <4>1. msg[k] = incomplete[k] /\ incomplete[k] \in 1 .. Returned
        BY <1>4, <2>1, Zenon
      <4>2. QED
        BY <1>2, <4>1, Zenon
    <3>2. msg[end] \in 1 .. Returned'
      <4>1. msg[end] = new
        BY <1>4, Zenon
      <4>2. new \in 1 .. Returned'
        BY <1>7
      <4>3. QED
        BY <4>1, <4>2, Zenon
    <3>3. \A k \in DOMAIN msg : k \in DOMAIN incomplete \/ k = end
      BY <1>4, Zenon
    <3>4. QED
      BY <3>1, <3>2, <3>3, Zenon
  <2>3. QED
    BY <1>1, <2>1, <2>2 DEF FragmentsInv
<1>9. /\ \A n : ~Kept(n)'
      /\ \A n : Handed(n)' <=> Handed(n) \/ Kept(n) \/ n = new
  <2>1. \A n : ~Kept(n)'
    BY DEF Kept
  <2>2. \A n : Handed(n) => Handed(n)'
    BY <1>6 DEF Handed
  <2>3. \A n : n = new => Handed(n)'
    BY <1>4, <1>6 DEF Handed
  <2>4. \A n : Kept(n) => Handed(n)'
    BY <1>4, <1>6 DEF Handed, Kept
  <2>5. \A n : Handed(n)' => Handed(n) \/ Kept(n) \/ n = new
    BY <1>4, <1>6 DEF Handed, Kept
  <2>6. QED
    BY <2>1, <2>2, <2>3, <2>4, <2>5
<1>10. \A n : Handed(n) \/ Kept(n) => n \in 1 .. Returned
  BY <1>1, IdsKnown
<1>11. \A i \in DOMAIN handed : /\ 1 \in DOMAIN handed[i] /\ handed[i][1] \in 1 .. Returned
                                /\ IsMessage(i)' = IsMessage(i)
  <2>1. \A i \in DOMAIN handed : 1 \in DOMAIN handed[i] /\ handed[i][1] \in 1 .. Returned
    BY <1>1, <1>3, FirstKnown
  <2>2. QED
    BY <1>2, <1>6, <2>1 DEF IsMessage, IsData, OpOf
<1>12. \A k \in DOMAIN msg : /\ arrivals'[msg[k]].op = IF k = 1 THEN "data" ELSE "continue"
                             /\ arrivals'[msg[k]].fin <=> k = end
  <2> SUFFICES ASSUME NEW k \in DOMAIN msg
               PROVE  /\ arrivals'[msg[k]].op = IF k = 1 THEN "data" ELSE "continue"
                      /\ arrivals'[msg[k]].fin <=> k = end
    OBVIOUS
  <2>1. CASE k \in DOMAIN incomplete
    <3>1. msg[k] = incomplete[k] /\ k # end /\ incomplete[k] \in 1 .. Returned
      BY <1>4, <1>8, <2>1
    <3>2. /\ arrivals[incomplete[k]].op = IF k = 1 THEN "data" ELSE "continue"
          /\ ~arrivals[incomplete[k]].fin
      BY <1>1, <2>1 DEF FragmentsInv, OpOf
    <3>3. QED
      BY <1>2, <3>1, <3>2
  <2>2. CASE k = end
    BY <1>4, <2>2 DEF new
  <2>3. QED
    BY <1>4, <2>1, <2>2
<1>13. \A i : i = last => IsMessage(i)'
  BY <1>4, <1>6, <1>12 DEF IsMessage, IsData, OpOf
<1>14. InOrder(msg)
  <2> SUFFICES ASSUME NEW k \in DOMAIN msg, NEW l \in DOMAIN msg, k < l PROVE msg[k] < msg[l]
    BY DEF InOrder
  <2>1. k \in DOMAIN incomplete
    BY <1>4 DEF end
  <2>2. CASE l \in DOMAIN incomplete
    BY <1>1, <1>4, <2>1, <2>2 DEF MessagesWhole, InOrder
  <2>3. CASE l = end
    BY <1>4, <1>7, <1>8, <2>1, <2>3
  <2>4. QED
    BY <1>4, <2>2, <2>3
<1>15. FragmentsInv'
  <2>1. ASSUME NEW i \in DOMAIN handed'
        PROVE  /\ handed'[i] # << >>
               /\ \A k \in DOMAIN handed'[i] : handed'[i][k] \in 1 .. Returned'
               /\ ~IsMessage(i)' => Len(handed'[i]) = 1
    <3>1. CASE i \in DOMAIN handed
      BY <1>1, <1>2, <1>6, <1>11, <3>1 DEF FragmentsInv
    <3>2. CASE i = last
      BY <1>4, <1>6, <1>8, <1>13, <3>2
    <3>3. QED
      BY <1>6, <3>1, <3>2
  <2>2. \A n \in 1 .. Returned' : arrivals'[n].op \in {"data", "continue"} => (Handed(n) \/ Kept(n))'
    BY <1>1, <1>2, <1>7, <1>9 DEF FragmentsInv, IsData, OpOf, new
  <2>3. QED
    BY <2>1, <2>2 DEF FragmentsInv, IsData, OpOf
<1>16. MessagesWhole'
  <2>1. ASSUME NEW i \in DOMAIN handed', IsMessage(i)' PROVE WholeMessage(handed[i])'
    <3>1. CASE i \in DOMAIN handed
      <4>1. WholeMessage(handed[i]) /\ \A k \in DOMAIN handed[i] : handed[i][k] \in 1 .. Returned
        BY <1>1, <1>8, <1>11, <2>1, <3>1 DEF MessagesWhole
      <4>2. \A k \in DOMAIN handed[i] : arrivals'[handed[i][k]] = arrivals[handed[i][k]]
        BY <1>2, <4>1
      <4>3. QED
        BY <1>6, <3>1, <4>1, <4>2, WholeStays, SMTT(40) DEF WholeMessage, InOrder, OpOf
    <3>2. CASE i = last
      BY <1>4, <1>5, <1>6, <1>12, <1>14, <3>2 DEF WholeMessage, InOrder, OpOf
    <3>3. QED
      BY <1>6, <3>1, <3>2
  <2>2. \A n \in 1 .. Returned' : arrivals'[n].op \in {"data", "continue"} => (Handed(n) \/ Kept(n))'
    BY <1>1, <1>2, <1>7, <1>9 DEF FragmentsInv, IsData, OpOf, new
  <2>3. ASSUME NEW i \in DOMAIN handed', NEW j \in DOMAIN handed', IsMessage(i)', IsMessage(j)', i < j,
               NEW k \in DOMAIN handed'[i], NEW l \in DOMAIN handed'[j]
        PROVE  handed'[i][k] < handed'[j][l]
    <3>1. i \in DOMAIN handed
      BY <1>6, <2>3 DEF last
    <3>2. CASE j \in DOMAIN handed
      BY <1>1, <1>6, <1>11, <2>3, <3>1, <3>2 DEF MessagesWhole
    <3>3. CASE j = last
      <4>1. l \in DOMAIN msg /\ handed'[j] = msg /\ handed'[i] = handed[i] /\ IsMessage(i)
        BY <1>6, <1>11, <2>3, <3>1, <3>3
      <4>2. CASE l \in DOMAIN incomplete
        BY <1>1, <1>4, <2>3, <3>1, <4>1, <4>2 DEF MessagesWhole
      <4>3. CASE l = end
        BY <1>4, <1>7, <1>8, <2>3, <3>1, <4>1, <4>3, SMTT(40)
      <4>4. QED
        BY <1>4, <4>1, <4>2, <4>3
    <3>4. QED
      BY <1>6, <3>2, <3>3
  <2>4. InOrder(incomplete)' /\ Len(incomplete') <= MaxMessage
    BY DEF InOrder
  <2>5. QED
    BY <2>1, <2>2, <2>3, <2>4 DEF MessagesWhole, IsData, OpOf
<1>17. NothingSwallowed'
  <2>1. ~nonblocking => \A n \in 1 .. Returned' : (Handed(n) \/ Kept(n))'
    BY <1>1, <1>7, <1>9 DEF NothingSwallowed, Going, new
  <2>2. ASSUME NEW i \in DOMAIN handed', NEW j \in DOMAIN handed', NEW k \in DOMAIN handed'[i],
               NEW l \in DOMAIN handed'[j], handed'[i][k] = handed'[j][l]
        PROVE  i = j /\ k = l
    <3>1. \A a \in DOMAIN handed : \A b \in DOMAIN handed[a] : \A c \in DOMAIN msg : handed[a][b] # msg[c]
      <4> SUFFICES ASSUME NEW a \in DOMAIN handed, NEW b \in DOMAIN handed[a], NEW c \in DOMAIN msg
                   PROVE  handed[a][b] # msg[c]
        OBVIOUS
      <4>1. CASE c \in DOMAIN incomplete
        BY <1>1, <1>4, <4>1 DEF NothingSwallowed, Handed
      <4>2. CASE c = end
        BY <1>4, <1>7, <1>8, <4>2
      <4>3. QED
        BY <1>4, <4>1, <4>2
    <3>2. \A c, d \in DOMAIN msg : msg[c] = msg[d] => c = d
      <4>1. \A c, d \in DOMAIN msg : c \in Int /\ d \in Int /\ msg[c] \in Int /\ msg[d] \in Int
        BY <1>4, SMTT(40)
      <4>2. QED
        BY <1>14, <4>1 DEF InOrder
    <3>3. CASE i \in DOMAIN handed /\ j \in DOMAIN handed
      BY <1>1, <1>6, <2>2, <3>3 DEF NothingSwallowed
    <3>4. CASE i \in DOMAIN handed /\ j = last
      BY <1>6, <2>2, <3>1, <3>4
    <3>5. CASE i = last /\ j \in DOMAIN handed
      BY <1>6, <2>2, <3>1, <3>5
    <3>6. CASE i = last /\ j = last
      BY <1>6, <2>2, <3>2, <3>6
    <3>7. QED
      BY <1>6, <3>3, <3>4, <3>5, <3>6
  <2>3. QED
    BY <2>1, <2>2, SMTT(40) DEF NothingSwallowed
<1>18. QED
  BY <1>15, <1>16, <1>17 DEF MessageInv

-----------------------------------------------------------------------------
(* The close handshake *)
NoReplyQueued == \A i \in DOMAIN out_buffer : ~out_buffer[i].auto

(* What ConnectionClosed tells the user. *)
Done == CloseHanded /\ CloseQueued /\ (~nonblocking => CloseWritten)

LEMMA OutTyped ==
  ASSUME TypeInv
  PROVE  Buffers /\ Out \in Seq(Frame)
  BY ConcatProperties DEF TypeInv, TypeOK, Buffers, Out

(* A frame is queued while no close frame is. *)
LEMMA QueueGrows ==
  ASSUME Out \in Seq(Frame), ~CloseQueued, NEW f \in Frame, Out' = Append(Out, f)
  PROVE  /\ NothingAfterClose'
         /\ CloseQueued' <=> IsClose(f)
         /\ Out'[Len(Out')] = f
<1>1. /\ DOMAIN Out = 1 .. Len(Out) /\ Len(Out) \in Nat
      /\ DOMAIN Out' = 1 .. Len(Out) + 1 /\ Len(Out') = Len(Out) + 1
      /\ \A i \in DOMAIN Out : Out'[i] = Out[i] /\ i \in DOMAIN Out'
      /\ Out'[Len(Out) + 1] = f /\ Len(Out) + 1 \in DOMAIN Out'
      /\ \A i \in DOMAIN Out' : i \in DOMAIN Out \/ i = Len(Out) + 1
  BY OutGrows
<1>2. \A i \in DOMAIN Out : ~IsClose(Out[i])
  BY DEF CloseQueued
<1>3. \A i \in DOMAIN Out' : IsClose(Out'[i]) => i = Len(Out') /\ IsClose(f)
  BY <1>1, <1>2
<1>4. CloseQueued' <=> IsClose(f)
  BY <1>1, <1>3 DEF CloseQueued
<1>5. QED
  BY <1>1, <1>3, <1>4 DEF NothingAfterClose

LEMMA WrittenStays ==
  ASSUME Buffers, Buffers', Extends(outgoing, outgoing'), CloseWritten
  PROVE  CloseWritten'
<1>1. PICK i \in DOMAIN outgoing : IsClose(outgoing[i])
  BY DEF CloseWritten
<1>2. i \in DOMAIN outgoing' /\ outgoing'[i] = outgoing[i]
  BY DEF Buffers, Extends
<1>3. QED
  BY <1>1, <1>2 DEF CloseWritten

(* With nothing left in out_buffer all that was queued is written. *)
LEMMA AllWritten ==
  ASSUME Buffers, out_buffer = << >>
  PROVE  outgoing = Out
  BY ConcatEmptySeq DEF Buffers, Out

(* The close frame is the last, so it is written if no frame of its kind   *)
(* waits.                                                                  *)
LEMMA ReplyWritten ==
  ASSUME Buffers, NothingAfterClose, CloseQueued, Out[Len(Out)].auto, NoReplyQueued
  PROVE  CloseWritten
<1>1. /\ outgoing \in Seq(Frame) /\ out_buffer \in Seq(Frame)
      /\ Len(Out) = Len(outgoing) + Len(out_buffer)
      /\ \A i \in 1 .. Len(outgoing) : Out[i] = outgoing[i]
      /\ \A i \in 1 .. Len(out_buffer) : Out[Len(outgoing) + i] = out_buffer[i]
  BY ConcatProperties DEF Buffers, Out
<1>2. PICK i \in DOMAIN Out : IsClose(Out[i])
  BY DEF CloseQueued
<1>3. i = Len(Out) /\ i \in 1 .. Len(Out)
  <2>1. Out \in Seq(Frame)
    BY ConcatProperties DEF Buffers, Out
  <2>2. QED
    BY <1>2, <2>1 DEF NothingAfterClose
<1>4. CASE Len(out_buffer) = 0
  <2>1. i \in DOMAIN outgoing /\ outgoing[i] = Out[i]
    BY <1>1, <1>3, <1>4
  <2>2. QED
    BY <1>2, <2>1 DEF CloseWritten
<1>5. CASE Len(out_buffer) > 0
  <2>1. Len(out_buffer) \in DOMAIN out_buffer /\ Out[Len(Out)] = out_buffer[Len(out_buffer)]
    BY <1>1, <1>5
  <2>2. QED
    BY <2>1 DEF NoReplyQueued
<1>6. QED
  BY <1>1, <1>4, <1>5

LEMMA HandshakeDone ==
  ASSUME Buffers, NothingAfterClose, HandshakeState, FlushedInv, result \notin Fatal, pc # "panicked",
         state \in {"ClosedByPeer", "CloseAcknowledged"}, ~nonblocking => NoReplyQueued
  PROVE  Done
<1>1. CASE state = "ClosedByPeer"
  <2>1. CloseQueued /\ Out[Len(Out)].auto /\ CloseHanded
    BY <1>1 DEF HandshakeState
  <2>2. QED
    BY <2>1, ReplyWritten DEF Done
<1>2. CASE state = "CloseAcknowledged"
  <2>1. CloseQueued /\ CloseHanded
    BY <1>2 DEF HandshakeState
  <2>2. QED
    BY <1>2, <2>1 DEF FlushedInv, Done
<1>3. QED
  BY <1>1, <1>2

(* Whether the peer's close frame was handed over *)
LEMMA HandedAlone ==
  ASSUME TypeInv, FragmentsInv, SameBehind, handed' = handed
  PROVE  CloseHanded' <=> CloseHanded
<1>1. \A i \in DOMAIN handed : handed[i][1] \in 1 .. Returned
  BY FirstKnown DEF TypeInv, TypeOK
<1>2. \A i \in DOMAIN handed : arrivals'[handed[i][1]].op = arrivals[handed[i][1]].op
  BY <1>1 DEF SameBehind
<1>3. QED
  BY <1>2 DEF CloseHanded, OpOf

LEMMA HandedMore ==
  ASSUME TypeInv, FragmentsInv, SameBehind, NEW m \in Seq(Nat), handed' = Append(handed, m)
  PROVE  CloseHanded' <=> CloseHanded \/ arrivals'[m[1]].op = "close"
<1> DEFINE last == Len(handed) + 1
<1>1. handed \in Seq(Seq(Nat))
  BY DEF TypeInv, TypeOK
<1>2. /\ \A i \in DOMAIN handed : i \in DOMAIN handed' /\ handed'[i] = handed[i]
      /\ handed'[last] = m /\ last \in DOMAIN handed'
      /\ \A i \in DOMAIN handed' : i \in DOMAIN handed \/ i = last
  BY <1>1, HandGrows
<1> HIDE DEF last
<1>3. \A i \in DOMAIN handed : arrivals'[handed'[i][1]].op = arrivals[handed[i][1]].op
  BY <1>1, <1>2, FirstKnown DEF SameBehind
<1>4. QED
  BY <1>2, <1>3 DEF CloseHanded, OpOf

-----------------------------------------------------------------------------
(* A step that queues nothing.  What it does to messages and answers comes *)
(* from the lemmas above.                                                  *)
LEMMA NothingQueued ==
  ASSUME PeerInv, TypeInv', ArrivalsInv', PlaceInv', MessageInv', PongsMatchPings',
         Out' = Out, Extends(outgoing, outgoing'), UNCHANGED nonblocking,
         CloseHanded' <=> CloseHanded, state' \in {state, "Terminated"},
         pc = "panicked" => pc' = "panicked",
         result' \in Fatal \/ result \notin Fatal,
         result' = "Closed" => Done,
         pc' = "reading" /\ ~nonblocking => NoReplyQueued',
         ~nonblocking /\ ~unflushed_additional' /\ Going' => NoReplyQueued'
  PROVE  PeerInv'
<1>1. Buffers /\ Buffers'
  BY OutTyped DEF PeerInv, TypeInv, TypeOK, Buffers
<1>2. CloseQueued' <=> CloseQueued
  BY DEF CloseQueued
<1>3. CloseWritten => CloseWritten'
  BY <1>1, WrittenStays
<1>4. NothingAfterClose'
  BY DEF PeerInv, CloseInv, NothingAfterClose
<1>5. HandshakeState'
  BY <1>2 DEF PeerInv, CloseInv, HandshakeState
<1>6. ClosedMeansDone'
  BY <1>2, <1>3 DEF ClosedMeansDone, Done
<1>7. NoReplyWaits'
  BY DEF NoReplyWaits, NoReplyQueued
<1>8. FlushedInv'
  <2>1. FlushedInv
    BY DEF PeerInv, CloseInv
  <2>2. QED
    BY <1>3, <2>1 DEF FlushedInv, NoReplyQueued
<1>9. QED
  BY <1>4, <1>5, <1>6, <1>7, <1>8 DEF PeerInv, CloseInv

(* A step that hands nothing over either: it reads nothing, or a frame it  *)
(* refuses.                                                                *)
LEMMA NothingHanded ==
  ASSUME PeerInv, TypeInv', ArrivalsInv', PlaceInv', SameBehind,
         UNCHANGED <<handed, incomplete, nonblocking>>,
         Out' = Out, Extends(outgoing, outgoing'), state' \in {state, "Terminated"},
         pc = "panicked" => pc' = "panicked",
         result' \in Fatal \/ result \notin Fatal,
         result' = "Closed" => Done,
         pc' = "reading" /\ ~nonblocking => NoReplyQueued',
         ~nonblocking /\ ~unflushed_additional' /\ Going' => NoReplyQueued',
         \/ Returned' = Returned
         \/ /\ Returned' = Returned + 1 /\ result' \in Fatal
            /\ arrivals'[Returned + 1].op # "ping" \/ state' # "Active"
  PROVE  PeerInv'
<1>1. TypeInv /\ MessageInv /\ PongsMatchPings /\ FragmentsInv /\ ArrivalsInv
  BY DEF PeerInv, MessageInv
<1>2. Returned \in Nat /\ Out \in Seq(Frame)
  BY <1>1, ReturnedNat, OutTyped
<1>3. Going' => Going
  BY DEF Going
<1>4. MessageInv'
  <2>1. \/ Returned' = Returned
        \/ Returned' = Returned + 1 /\ ~Going'
    BY DEF Going
  <2>2. QED
    BY <1>1, <1>2, <1>3, <2>1, MessagesAlone
<1>5. PongsMatchPings'
  <2>1. state' = state \/ state' # "Active"
    OBVIOUS
  <2>2. \/ Returned' = Returned
        \/ Returned' = Returned + 1 /\ (arrivals'[Returned + 1].op # "ping" \/ state' # "Active")
    OBVIOUS
  <2>3. QED
    BY <1>1, <1>2, <2>1, <2>2, PongsKept
<1>6. CloseHanded' <=> CloseHanded
  BY <1>1, HandedAlone
<1>7. QED
  BY <1>4, <1>5, <1>6, NothingQueued

-----------------------------------------------------------------------------
(* The steps, one by one: first those that read nothing *)
LEMMA InputSame ==
  ASSUME TypeInv, ArrivalsInv, UNCHANGED <<inbox, arrivals>>
  PROVE  ArrivalsInv' /\ Returned' = Returned /\ SameBehind
  BY DEF TypeInv, TypeOK, ArrivalsInv, Returned, SameBehind

LEMMA PartsOf ==
  ASSUME PeerInv
  PROVE  /\ TypeInv /\ ArrivalsInv /\ PlaceInv /\ PongsMatchPings /\ MessageInv /\ CloseInv
         /\ FragmentsInv /\ FlushedInv /\ HandshakeState /\ NothingAfterClose
         /\ ClosedMeansDone /\ NoReplyWaits
         /\ result = "Closed" => Done
         /\ Buffers /\ Out \in Seq(Frame) /\ Returned \in Nat
  BY OutTyped, ReturnedNat DEF PeerInv, MessageInv, CloseInv, ClosedMeansDone, Done

LEMMA RepliesKnown ==
  ASSUME PeerInv
  PROVE  /\ pc = "reading" /\ ~nonblocking => NoReplyQueued
         /\ ~nonblocking /\ ~unflushed_additional /\ Going => NoReplyQueued
  BY PartsOf DEF NoReplyWaits, FlushedInv, NoReplyQueued

(* Nothing of the endpoint changes but where its thread is and what it has *)
(* been told: the peer's steps, and those of a call that end at once.      *)
LEMMA NothingDone ==
  ASSUME PeerInv, TypeInv', ArrivalsInv', PlaceInv', SameBehind, Returned' = Returned,
         UNCHANGED <<out_buffer, outgoing, unflushed_additional, handed, incomplete, nonblocking>>,
         state' \in {state, "Terminated"},
         pc = "panicked" => pc' = "panicked",
         result' \in Fatal \/ result \notin Fatal,
         result' = "Closed" => Done,
         pc' = "reading" /\ ~nonblocking => NoReplyQueued
  PROVE  PeerInv'
<1>1. Out' = Out /\ Extends(outgoing, outgoing')
  BY PartsOf DEF Out, Extends, Buffers
<1>2. NoReplyQueued' <=> NoReplyQueued
  BY DEF NoReplyQueued
<1>3. ~nonblocking /\ ~unflushed_additional' /\ Going' => NoReplyQueued'
  BY <1>2, RepliesKnown DEF Going
<1>4. QED
  BY <1>1, <1>2, <1>3, NothingHanded

LEMMA PeerStep ==
  ASSUME PeerInv, PeerSends \/ PeerShuts \/ Break
  PROVE  PeerInv'
<1>1. TypeInv /\ ArrivalsInv /\ PlaceInv
  BY PartsOf
<1>2. UNCHANGED <<out_buffer, outgoing, unflushed_additional, handed, incomplete, nonblocking,
                  state, pc, result>>
  BY DEF PeerSends, PeerShuts, Break, endpoint
<1>3. TypeInv' /\ ArrivalsInv' /\ Returned' = Returned /\ SameBehind
  <2>1. CASE PeerSends
    BY <1>1, <2>1, PeerSendsInput
  <2>2. CASE PeerShuts
    <3>1. TypeInv'
      BY <1>1, <2>2 DEF PeerShuts, TypeInv, TypeOK, endpoint
    <3>2. QED
      BY <1>1, <2>2, <3>1, InputSame DEF PeerShuts
  <2>3. CASE Break
    BY <1>1, <2>3, BreakInput
  <2>4. QED
    BY <2>1, <2>2, <2>3
<1>4. PlaceInv'
  BY <1>1, <1>2 DEF PlaceInv
<1>5. QED
  BY <1>1, <1>2, <1>3, <1>4, NothingDone, PartsOf, RepliesKnown

(* A call that fails at once or only moves the thread. *)
LEMMA ThreadMoves ==
  ASSUME PeerInv, UNCHANGED <<out_buffer, unflushed_additional, incomplete, handed, stream, arrivals>>,
         state' \in {state, "Terminated"}, pc' \in Locations, result' \in Results,
         writes' \in Nat, PlaceInv',
         pc = "panicked" => pc' = "panicked",
         result' \in Fatal \/ result \notin Fatal,
         result' = "Closed" => Done,
         pc' = "reading" /\ ~nonblocking => NoReplyQueued
  PROVE  PeerInv'
<1>1. TypeInv'
  BY PartsOf DEF TypeInv, TypeOK, stream, link, States
<1>2. ArrivalsInv' /\ Returned' = Returned /\ SameBehind
  BY PartsOf, InputSame DEF stream
<1>3. QED
  BY <1>1, <1>2, NothingDone DEF stream, link

LEMMA WriteStep ==
  ASSUME PeerInv, NEW op \in {"data", "ping", "pong"}, NEW n \in Nat, Write(op, n),
         arrivals' = arrivals, writes' \in Nat
  PROVE  PeerInv'
<1>1. /\ TypeInv /\ ArrivalsInv /\ PlaceInv /\ PongsMatchPings /\ MessageInv /\ FragmentsInv
      /\ FlushedInv /\ HandshakeState /\ Buffers /\ Out \in Seq(Frame) /\ Returned \in Nat
  BY PartsOf
<1>2. pc = "idle" /\ result \notin Fatal /\ UNCHANGED <<state, incomplete, pc, handed, inbox, link>>
  BY DEF Write, MayCall
<1>3. CASE state # "Active"
  <2>1. UNCHANGED <<out_buffer, outgoing, unflushed_additional>>
        /\ result' \in {"AlreadyClosed", "SendAfterClosing"}
    BY <1>3 DEF Write, IsActive
  <2>2. PlaceInv'
    BY <1>2 DEF PlaceInv
  <2>3. QED
    BY <1>2, <2>1, <2>2, ThreadMoves DEF stream, link, Fatal, Results, Locations
<1>4. CASE state = "Active"
  <2> DEFINE f == Plain(op, n)
             also == op # "pong" /\ unflushed_additional
  <2>1. f \in Frame /\ f.op = op /\ ~f.auto /\ op \in Ops
    BY FrameTypes, FrameKinds, Zenon DEF Ops
  <2>2. WriteFrame(f, state, also)
    BY <1>4 DEF Write, IsActive
  <2>3. also \in BOOLEAN /\ unflushed_additional \in BOOLEAN
    BY <1>1 DEF TypeInv, TypeOK
  <2> HIDE DEF f, also
  <2>4. /\ Buffers' /\ Out' = Append(Out, f) /\ Extends(outgoing, outgoing')
        /\ unflushed_additional' \in BOOLEAN
        /\ result' \in {"Ok", "WouldBlock", "Io"}
        /\ ~nonblocking => result' # "WouldBlock"
        /\ result' = "Ok" =>
             \/ out_buffer' = << >>
             \/ /\ ~also /\ out_buffer' = Append(out_buffer, f)
                /\ unflushed_additional' = unflushed_additional
    BY <1>1, <1>4, <2>1, <2>2, <2>3, WriteFrameFacts
  <2>5. TypeInv'
    BY <1>1, <1>2, <2>4 DEF TypeInv, TypeOK, Buffers, link, Results, Fatal
  <2>6. ArrivalsInv' /\ Returned' = Returned /\ SameBehind
    BY <1>1, <1>2, InputSame
  <2>7. PlaceInv'
    BY <1>2 DEF PlaceInv
  <2>8. ~IsClose(f) /\ ~IsReply(f)
    BY <2>1 DEF IsClose, IsReply
  <2>9. PongsMatchPings'
    BY <1>1, <1>2, <2>1, <2>4, <2>6, <2>8, PongsKept
  <2>10. MessageInv'
    BY <1>1, <1>2, <2>6, MessagesAlone DEF Going, link
  <2>11. ~CloseQueued /\ ~CloseHanded
    BY <1>1, <1>4 DEF HandshakeState
  <2>12. NothingAfterClose' /\ ~CloseQueued'
    BY <1>1, <2>1, <2>4, <2>8, <2>11, QueueGrows
  <2>13. ~CloseHanded'
    BY <1>1, <1>2, <2>6, <2>11, HandedAlone
  <2>14. HandshakeState'
    BY <1>2, <1>4, <2>12, <2>13 DEF HandshakeState
  <2>15. ClosedMeansDone' /\ NoReplyWaits'
    BY <1>2, <2>4 DEF ClosedMeansDone, NoReplyWaits
  <2>16. FlushedInv'
    <3>1. ASSUME ~nonblocking', ~unflushed_additional', Going'
          PROVE  \A i \in DOMAIN out_buffer' : ~out_buffer'[i].auto
      <4>1. ~nonblocking /\ result' = "Ok"
        BY <1>2, <2>4, <3>1 DEF link, Going, Fatal
      <4>2. CASE out_buffer' = << >>
        BY <4>2
      <4>3. CASE ~also /\ out_buffer' = Append(out_buffer, f) /\ unflushed_additional' = unflushed_additional
        <5>1. \A i \in DOMAIN out_buffer : ~out_buffer[i].auto
          BY <1>1, <1>2, <3>1, <4>1, <4>3 DEF FlushedInv, Going
        <5>2. QED
          BY <1>1, <2>1, <4>3, <5>1 DEF Buffers
      <4>4. QED
        BY <2>4, <4>1, <4>2, <4>3
    <3>2. QED
      BY <1>2, <1>4, <3>1 DEF FlushedInv
  <2>17. QED
    BY <2>5, <2>6, <2>7, <2>9, <2>10, <2>12, <2>14, <2>15, <2>16 DEF PeerInv, CloseInv
<1>5. QED
  BY <1>3, <1>4

(* write_out_buffer as flush, close and read call it. *)
LEMMA FlushStep ==
  ASSUME PeerInv, NEW o \in WriteOut(out_buffer), Written(o),
         UNCHANGED <<state, incomplete, handed, inbox, link, arrivals>>,
         pc \in {"idle", "loop"}, result \notin Fatal,
         pc' \in {"idle", "reading"}, writes' \in Nat,
         unflushed_additional' = (unflushed_additional /\ o.err # "Ok"),
         \/ result' = o.err /\ pc' = "idle"
         \/ result' = result /\ o.err # "Io" /\ pc = "loop"
  PROVE  PeerInv'
<1>1. /\ TypeInv /\ ArrivalsInv /\ PlaceInv /\ Buffers
      /\ result = "Closed" => Done
  BY PartsOf
<1>2. /\ Buffers' /\ Out' = Out /\ Extends(outgoing, outgoing')
      /\ o.err \in {"Ok", "WouldBlock", "Io"}
      /\ o.err = "Ok" => out_buffer' = << >>
      /\ ~nonblocking => o.err # "WouldBlock"
  BY <1>1, FlushFacts
<1>3. TypeInv'
  BY <1>1, <1>2 DEF TypeInv, TypeOK, Buffers, link, Results, Fatal, Locations
<1>4. ArrivalsInv' /\ Returned' = Returned /\ SameBehind
  BY <1>1, InputSame
<1>5. PlaceInv'
  BY <1>1, <1>2 DEF PlaceInv
<1>6. out_buffer' = << >> => NoReplyQueued'
  BY DEF NoReplyQueued
<1>7. ~nonblocking /\ ~unflushed_additional' /\ Going' => NoReplyQueued'
  <2> SUFFICES ASSUME ~nonblocking, ~unflushed_additional', Going' PROVE NoReplyQueued'
    OBVIOUS
  <2>1. o.err = "Ok"
    BY <1>2 DEF Going, Fatal
  <2>2. QED
    BY <1>2, <1>6, <2>1
<1>8. pc' = "reading" /\ ~nonblocking => NoReplyQueued'
  BY <1>2, <1>6
<1>9. result' = "Closed" => Done
  BY <1>1, <1>2
<1>10. QED
  BY <1>2, <1>3, <1>4, <1>5, <1>7, <1>8, <1>9, NothingHanded DEF link

(* The close frame of the user *)
LEMMA CloseStep ==
  ASSUME PeerInv, NEW b \in CloseBodies, CloseCall(b), state = "Active",
         arrivals' = arrivals, writes' \in Nat
  PROVE  PeerInv'
<1> DEFINE f == Close(b)
<1>1. /\ TypeInv /\ ArrivalsInv /\ PlaceInv /\ PongsMatchPings /\ MessageInv /\ FragmentsInv
      /\ FlushedInv /\ HandshakeState /\ Buffers /\ Out \in Seq(Frame) /\ Returned \in Nat
  BY PartsOf
<1>2. /\ pc = "idle" /\ result \notin Fatal /\ UNCHANGED <<incomplete, pc, handed, inbox, link>>
      /\ state' = "ClosedByUs" /\ WriteFrame(f, "ClosedByUs", TRUE)
  BY DEF CloseCall, MayCall, IsActive
<1>3. f \in Frame /\ f.op = "close" /\ ~f.auto
  BY FrameTypes, FrameKinds, Zenon DEF CloseBodies
<1>4. IsClose(f) /\ ~IsReply(f)
  BY <1>3 DEF IsClose, IsReply
<1> HIDE DEF f
<1>5. /\ Buffers' /\ Out' = Append(Out, f) /\ Extends(outgoing, outgoing')
      /\ unflushed_additional' \in BOOLEAN
      /\ result' \in {"Ok", "WouldBlock", "Io"}
      /\ ~nonblocking => result' # "WouldBlock"
      /\ result' = "Ok" => out_buffer' = << >>
  BY <1>1, <1>2, <1>3, WriteFrameFacts DEF TypeInv, TypeOK
<1>6. TypeInv'
  BY <1>1, <1>2, <1>5 DEF TypeInv, TypeOK, Buffers, link, Results, Fatal, States
<1>7. ArrivalsInv' /\ Returned' = Returned /\ SameBehind
  BY <1>1, <1>2, InputSame
<1>8. PlaceInv'
  BY <1>2 DEF PlaceInv
<1>9. PongsMatchPings'
  BY <1>1, <1>2, <1>3, <1>4, <1>5, <1>7, PongsKept
<1>10. MessageInv'
  BY <1>1, <1>2, <1>7, MessagesAlone DEF Going, link
<1>11. ~CloseQueued /\ ~CloseHanded
  BY <1>1 DEF HandshakeState
<1>12. NothingAfterClose' /\ CloseQueued' /\ Out'[Len(Out')] = f
  BY <1>1, <1>3, <1>4, <1>5, <1>11, QueueGrows
<1>13. ~CloseHanded'
  BY <1>1, <1>2, <1>7, <1>11, HandedAlone
<1>14. HandshakeState'
  BY <1>2, <1>3, <1>12, <1>13 DEF HandshakeState
<1>15. ClosedMeansDone' /\ NoReplyWaits'
  BY <1>2, <1>5 DEF ClosedMeansDone, NoReplyWaits
<1>16. FlushedInv'
  <2>1. ~nonblocking' /\ result' \notin Fatal => out_buffer' = << >>
    BY <1>2, <1>5 DEF link, Fatal
  <2>2. out_buffer' = << >> => CloseWritten'
    <3> SUFFICES ASSUME out_buffer' = << >> PROVE CloseWritten'
      OBVIOUS
    <3>1. outgoing' = Out'
      BY <1>5, ConcatEmptySeq DEF Buffers, Out
    <3>2. QED
      BY <1>12, <3>1 DEF CloseQueued, CloseWritten
  <2>3. QED
    BY <2>1, <2>2 DEF FlushedInv, Going
<1>17. QED
  BY <1>6, <1>7, <1>8, <1>9, <1>10, <1>12, <1>14, <1>15, <1>16 DEF PeerInv, CloseInv

LEMMA CallStep ==
  ASSUME PeerInv, Flush \/ Read \/ Drop \/ (\E b \in CloseBodies : CloseCall(b)),
         arrivals' = arrivals, writes' \in Nat
  PROVE  PeerInv'
<1>1. TypeInv /\ PlaceInv /\ (result = "Closed" => Done)
  BY PartsOf
<1>2. CASE Flush
  <2>1. PICK o \in WriteOut(out_buffer) :
          /\ Written(o) /\ result' = o.err
          /\ unflushed_additional' = (unflushed_additional /\ o.err # "Ok")
    BY <1>2 DEF Flush
  <2>2. QED
    BY <1>2, <2>1, FlushStep DEF Flush, MayCall
<1>3. CASE Read
  <2>1. UNCHANGED <<state, out_buffer, unflushed_additional, incomplete, handed, stream>>
        /\ pc = "idle" /\ result \notin Fatal
    BY <1>3 DEF Read, MayCall
  <2>2. \/ state = "Terminated" /\ pc' = "idle" /\ result' = "AlreadyClosed"
        \/ state # "Terminated" /\ pc' = "loop" /\ result' = result
    BY <1>3 DEF Read, Return
  <2>3. result \in Results
    BY <1>1 DEF TypeInv, TypeOK
  <2>4. PlaceInv' /\ pc' \in Locations /\ result' \in Results /\ pc' # "reading"
    BY <1>1, <2>1, <2>2, <2>3 DEF PlaceInv, Locations, Results, Fatal
  <2>5. result' = "Closed" => Done
    BY <1>1, <2>2
  <2>6. QED
    BY <2>1, <2>4, <2>5, ThreadMoves
<1>4. CASE Drop
  <2>1. UNCHANGED <<state, out_buffer, unflushed_additional, incomplete, result, handed, stream>>
        /\ pc = "idle" /\ pc' = "dropped"
    BY <1>4 DEF Drop
  <2>2. result \in Results
    BY <1>1 DEF TypeInv, TypeOK
  <2>3. PlaceInv' /\ pc' \in Locations
    BY <2>1 DEF PlaceInv, Locations
  <2>4. QED
    BY <1>1, <2>1, <2>2, <2>3, ThreadMoves
<1>5. ASSUME NEW b \in CloseBodies, CloseCall(b) PROVE PeerInv'
  <2>1. CASE state = "Active"
    BY <1>5, <2>1, CloseStep
  <2>2. CASE state # "Active"
    <3>1. PICK o \in WriteOut(out_buffer) :
            /\ Written(o) /\ result' = o.err
            /\ unflushed_additional' = (unflushed_additional /\ o.err # "Ok")
      BY <1>5, <2>2 DEF CloseCall, IsActive
    <3>2. state' = state
      BY <1>5, <2>2 DEF CloseCall, IsActive
    <3>3. QED
      BY <1>5, <3>1, <3>2, FlushStep DEF CloseCall, MayCall
  <2>3. QED
    BY <2>1, <2>2
<1>6. QED
  BY <1>2, <1>3, <1>4, <1>5

(* Before a frame is read *)
LEMMA LoopStep ==
  ASSUME PeerInv, FlushReplies \/ EndConnection \/ NothingToFlush,
         arrivals' = arrivals, writes' \in Nat
  PROVE  PeerInv'
<1>1. /\ TypeInv /\ PlaceInv /\ FlushedInv /\ HandshakeState /\ NothingAfterClose /\ Buffers
      /\ result = "Closed" => Done
  BY PartsOf
<1>2. pc = "loop"
  BY DEF FlushReplies, EndConnection, NothingToFlush
<1>3. result \notin Fatal /\ state # "Terminated" /\ Going
  BY <1>1, <1>2 DEF PlaceInv, Going
<1>4. ~nonblocking /\ ~unflushed_additional => NoReplyQueued
  BY <1>3, RepliesKnown
<1>5. CASE FlushReplies
  <2>1. PICK o \in WriteOut(out_buffer) :
          /\ Written(o)
          /\ unflushed_additional' = (o.err # "Ok")
          /\ IF o.err = "Io" THEN Return("Io") ELSE pc' = "reading" /\ UNCHANGED result
    BY <1>5 DEF FlushReplies
  <2>2. unflushed_additional' = (unflushed_additional /\ o.err # "Ok")
    BY <1>5, <2>1 DEF FlushReplies
  <2>3. \/ result' = o.err /\ pc' = "idle"
        \/ result' = result /\ o.err # "Io" /\ pc' = "reading"
    BY <2>1 DEF Return
  <2>4. pc' \in {"idle", "reading"}
    BY <2>3
  <2>5. UNCHANGED <<state, incomplete, handed, inbox, link>>
    BY <1>5 DEF FlushReplies
  <2>6. QED
    BY <1>2, <1>3, <2>1, <2>2, <2>3, <2>4, <2>5, FlushStep
<1>6. CASE EndConnection
  <2>1. /\ UNCHANGED <<out_buffer, unflushed_additional, incomplete, handed, stream>>
        /\ state' = "Terminated" /\ pc' = "idle" /\ result' = "Closed"
        /\ ~unflushed_additional /\ state \notin {"Active", "ClosedByUs"}
    BY <1>6 DEF EndConnection, Return, ServerDone, CanRead
  <2>2. state \in {"ClosedByPeer", "CloseAcknowledged"}
    BY <1>1, <1>3, <2>1 DEF TypeInv, TypeOK, States
  <2>3. Done
    BY <1>1, <1>2, <1>3, <1>4, <2>1, <2>2, HandshakeDone
  <2>4. PlaceInv' /\ pc' \in Locations /\ result' \in Results
    BY <2>1 DEF PlaceInv, Locations, Results
  <2>5. QED
    BY <1>2, <1>3, <2>1, <2>3, <2>4, ThreadMoves
<1>7. CASE NothingToFlush
  <2>1. /\ UNCHANGED <<state, out_buffer, unflushed_additional, incomplete, result, handed, stream>>
        /\ pc' = "reading" /\ ~unflushed_additional
    BY <1>7 DEF NothingToFlush
  <2>2. PlaceInv' /\ pc' \in Locations /\ result' \in Results
    BY <1>1, <1>3, <2>1 DEF PlaceInv, Locations, TypeInv, TypeOK
  <2>3. QED
    BY <1>1, <1>2, <1>4, <2>1, <2>2, ThreadMoves
<1>8. QED
  BY <1>5, <1>6, <1>7

(* Nothing to read *)
LEMMA NoFrameStep ==
  ASSUME PeerInv, ReceiveEof \/ ReceiveReset \/ ReadWouldBlock,
         arrivals' = arrivals, writes' \in Nat
  PROVE  PeerInv'
<1>1. /\ TypeInv /\ PlaceInv /\ FlushedInv /\ HandshakeState /\ NothingAfterClose /\ Buffers
  BY PartsOf
<1>2. pc = "reading" /\ UNCHANGED <<out_buffer, unflushed_additional, incomplete, handed, stream>>
      /\ pc' = "idle"
  BY DEF ReceiveEof, ReceiveReset, ReadWouldBlock, Return
<1>3. result \notin Fatal /\ state # "Terminated" /\ (~nonblocking => NoReplyQueued)
  BY <1>1, <1>2, RepliesKnown DEF PlaceInv
<1>4. state \in {"ClosedByPeer", "CloseAcknowledged"} => Done
  BY <1>1, <1>2, <1>3, HandshakeDone
<1>5. /\ state' \in {state, "Terminated"} /\ result' \in Results
      /\ result' = "Closed" => state \in {"ClosedByPeer", "CloseAcknowledged"}
  <2>1. CASE ReceiveEof
    BY <2>1 DEF ReceiveEof, Return, Results, Fatal
  <2>2. CASE ReceiveReset
    <3>1. PICK r \in CheckReset("Io", state) : result' = r /\ state' = state
      BY <2>2 DEF ReceiveReset, Return
    <3>2. r \in {"Io", "Closed"} /\ (r = "Closed" => state \notin {"Active", "ClosedByUs"})
      BY DEF CheckReset
    <3>3. QED
      BY <1>1, <1>3, <3>1, <3>2 DEF TypeInv, TypeOK, States, Results, Fatal
  <2>3. CASE ReadWouldBlock
    BY <2>3 DEF ReadWouldBlock, Return, Results
  <2>4. QED
    BY <2>1, <2>2, <2>3
<1>6. PlaceInv' /\ pc' \in Locations
  BY <1>2 DEF PlaceInv, Locations
<1>7. QED
  BY <1>2, <1>3, <1>4, <1>5, <1>6, ThreadMoves

-----------------------------------------------------------------------------
(* A frame is read *)

(* What every frame read has in common *)
Reads(f) ==
  /\ pc = "reading" /\ inbox # << >> /\ f = Head(inbox) /\ inbox' = Tail(inbox)
  /\ UNCHANGED <<link, arrivals>> /\ writes' \in Nat

LEMMA ReadsFacts ==
  ASSUME PeerInv, NEW f, Reads(f)
  PROVE  /\ Returned' = Returned + 1 /\ ArrivalsInv' /\ SameBehind
         /\ f = arrivals'[Returned + 1] /\ f.id = Returned + 1 /\ f \in Frame
         /\ inbox' \in Seq(Frame) /\ link' = link
         /\ result \notin Fatal /\ Going /\ pc = "reading" /\ pc # "panicked" /\ state # "Terminated"
         /\ ~nonblocking => NoReplyQueued
<1>1. TypeInv /\ ArrivalsInv /\ PlaceInv
  BY PartsOf
<1>2. /\ Returned' = Returned + 1 /\ ArrivalsInv' /\ SameBehind
      /\ f = arrivals'[Returned + 1] /\ f.id = Returned + 1 /\ f \in Frame
      /\ inbox' \in Seq(Frame)
  BY <1>1, ReadOne DEF Reads
<1>3. QED
  BY <1>1, <1>2, RepliesKnown DEF Reads, PlaceInv, Going

(* A frame that is refused *)
LEMMA RefuseStep ==
  ASSUME PeerInv, NEW f, Reads(f), NEW r \in {"Protocol", "Capacity"}, Refuse(r),
         f.op # "ping" \/ state # "Active"
  PROVE  PeerInv'
<1>1. TypeInv /\ Buffers
  BY PartsOf
<1>2. /\ Returned' = Returned + 1 /\ ArrivalsInv' /\ SameBehind /\ f = arrivals'[Returned + 1]
      /\ inbox' \in Seq(Frame) /\ link' = link /\ pc = "reading" /\ result \notin Fatal
  BY ReadsFacts
<1>3. /\ UNCHANGED <<state, out_buffer, unflushed_additional, incomplete, handed, outgoing>>
      /\ pc' = "idle" /\ result' \in Fatal /\ result' # "Closed"
  BY DEF Refuse, Return, Fatal
<1>4. TypeInv'
  BY <1>1, <1>2, <1>3 DEF TypeInv, TypeOK, Reads, link, Locations, Results
<1>5. PlaceInv'
  BY <1>3 DEF PlaceInv
<1>6. Out' = Out /\ Extends(outgoing, outgoing')
  BY <1>1, <1>3 DEF Out, Extends, Buffers
<1>7. ~Going' /\ pc' # "reading"
  BY <1>3 DEF Going
<1>8. QED
  BY <1>2, <1>3, <1>4, <1>5, <1>6, <1>7, NothingHanded DEF link

(* A frame that is taken, and to which nothing is answered *)
LEMMA TakeStep ==
  ASSUME PeerInv, NEW f, Reads(f), f.op \notin {"close"}, f.op # "ping" \/ state # "Active",
         UNCHANGED <<state, out_buffer, unflushed_additional, outgoing>>,
         handed' \in Seq(Seq(Nat)), incomplete' \in Seq(Nat), MessageInv',
         CloseHanded' <=> CloseHanded,
         \/ pc' = "idle" /\ result' = "Ok"
         \/ pc' = "loop" /\ result' = result
  PROVE  PeerInv'
<1>1. TypeInv /\ Buffers /\ Out \in Seq(Frame) /\ Returned \in Nat /\ PongsMatchPings
      /\ (result = "Closed" => Done)
  BY PartsOf
<1>2. /\ Returned' = Returned + 1 /\ ArrivalsInv' /\ SameBehind /\ f = arrivals'[Returned + 1]
      /\ inbox' \in Seq(Frame) /\ link' = link /\ pc = "reading" /\ result \notin Fatal
      /\ Going /\ state # "Terminated"
      /\ ~nonblocking => NoReplyQueued
  BY ReadsFacts
<1>3. TypeInv'
  BY <1>1, <1>2 DEF TypeInv, TypeOK, Reads, link, Locations, Results
<1>4. PlaceInv'
  BY <1>2 DEF PlaceInv, Fatal
<1>5. Out' = Out /\ Extends(outgoing, outgoing') /\ (NoReplyQueued' <=> NoReplyQueued)
  BY <1>1 DEF Out, Extends, Buffers, NoReplyQueued
<1>6. PongsMatchPings'
  <2>1. Returned' = Returned + 1 /\ (arrivals'[Returned + 1].op # "ping" \/ state' # "Active")
    BY <1>2
  <2>2. QED
    BY <1>1, <1>2, <1>5, <2>1, PongsKept
<1>7. /\ nonblocking' = nonblocking /\ pc # "panicked" /\ result' \notin Fatal
      /\ result' = "Closed" => Done
      /\ pc' = "reading" /\ ~nonblocking => NoReplyQueued'
      /\ ~nonblocking /\ ~unflushed_additional' /\ Going' => NoReplyQueued'
  BY <1>1, <1>2, <1>5 DEF link, Fatal
<1>8. state' \in {state, "Terminated"} /\ (result' \in Fatal \/ result \notin Fatal)
      /\ (pc = "panicked" => pc' = "panicked")
  BY <1>2
<1>9. QED
  BY <1>2, <1>3, <1>4, <1>5, <1>6, <1>7, <1>8, NothingQueued

(* Handed over by itself: a pong, or a ping that is not answered. *)
LEMMA ControlStep ==
  ASSUME PeerInv, NEW f, Reads(f), f.op \in {"ping", "pong"}, f.op # "ping" \/ state # "Active",
         Hand(<<f.id>>), Return("Ok"),
         UNCHANGED <<state, out_buffer, unflushed_additional, incomplete, outgoing>>
  PROVE  PeerInv'
<1>1. TypeInv /\ MessageInv /\ FragmentsInv /\ Returned \in Nat
  BY PartsOf
<1>2. /\ Returned' = Returned + 1 /\ SameBehind /\ f = arrivals'[Returned + 1] /\ f.id = Returned + 1
      /\ link' = link /\ Going
  BY ReadsFacts
<1> DEFINE m == <<Returned + 1>>
<1>3. m \in Seq(Nat) /\ m[1] = Returned + 1 /\ handed' = Append(handed, m)
  BY <1>1, <1>2 DEF Hand
<1>4. arrivals'[Returned + 1].op \in {"ping", "pong"}
  BY <1>2
<1>5. MessageInv'
  BY <1>1, <1>2, <1>3, <1>4, ControlHanded DEF link
<1> HIDE DEF m
<1>6. CloseHanded' <=> CloseHanded
  BY <1>1, <1>2, <1>3, <1>4, HandedMore
<1>7. handed' \in Seq(Seq(Nat)) /\ incomplete' \in Seq(Nat)
  BY <1>1, <1>3 DEF TypeInv, TypeOK
<1>8. QED
  BY <1>5, <1>6, <1>7, TakeStep DEF Return

LEMMA DataStep ==
  ASSUME PeerInv, NEW f, Reads(f), f.op \in {"data", "continue"}, ReceiveData(f)
  PROVE  PeerInv'
<1>1. TypeInv /\ MessageInv /\ FragmentsInv /\ Returned \in Nat
      /\ handed \in Seq(Seq(Nat)) /\ incomplete \in Seq(Nat)
  BY PartsOf DEF TypeInv, TypeOK
<1>2. /\ Returned' = Returned + 1 /\ SameBehind /\ f = arrivals'[Returned + 1] /\ f.id = Returned + 1
      /\ link' = link /\ Going
  BY ReadsFacts
<1> DEFINE m == Append(incomplete, Returned + 1)
<1>3. CASE Refuse("Protocol") \/ Refuse("Capacity")
  BY <1>3, RefuseStep
<1>4. CASE ~(Refuse("Protocol") \/ Refuse("Capacity"))
  <2>1. /\ (f.op = "continue") = (incomplete # << >>) /\ ~TooLong(m)
        /\ IF f.fin
           THEN incomplete' = << >> /\ handed' = Append(handed, m) /\ Return("Ok")
           ELSE incomplete' = m /\ pc' = "loop" /\ UNCHANGED <<handed, result>>
        /\ UNCHANGED <<state, out_buffer, unflushed_additional, outgoing>>
    BY <1>2, <1>4 DEF ReceiveData, Hand
  <2>2. m \in Seq(Nat) /\ Len(m) <= MaxMessage
    BY <1>1, <2>1 DEF TooLong
  <2>3. arrivals'[Returned + 1].op = IF incomplete = << >> THEN "data" ELSE "continue"
    BY <1>2, <2>1
  <2>4. m[1] = Returned + 1 \/ (m[1] = incomplete[1] /\ 1 \in DOMAIN incomplete)
    <3>1. m[Len(incomplete) + 1] = Returned + 1 /\ Len(incomplete) \in Nat
      BY <1>1
    <3>2. \A k \in 1 .. Len(incomplete) : m[k] = incomplete[k]
      BY <1>1
    <3>3. DOMAIN incomplete = 1 .. Len(incomplete)
      BY <1>1
    <3> HIDE DEF m
    <3>4. CASE Len(incomplete) = 0
      BY <3>1, <3>4
    <3>5. CASE Len(incomplete) # 0
      BY <3>1, <3>2, <3>3, <3>5
    <3>6. QED
      BY <3>4, <3>5
  <2>5. arrivals'[m[1]].op # "close"
    <3>1. CASE m[1] = Returned + 1
      BY <1>2, <3>1
    <3>2. CASE m[1] = incomplete[1] /\ 1 \in DOMAIN incomplete
      <4>1. OpOf(incomplete[1]) = "data" /\ incomplete[1] \in 1 .. Returned
        BY <1>1, <3>2 DEF FragmentsInv
      <4>2. QED
        BY <1>2, <3>2, <4>1 DEF SameBehind, OpOf
    <3>3. QED
      BY <2>4, <3>1, <3>2
  <2>6. CASE f.fin
    <3>1. incomplete' = << >> /\ handed' = Append(handed, m) /\ Return("Ok")
      BY <2>1, <2>6
    <3>2. MessageInv'
      BY <1>1, <1>2, <2>2, <2>3, <2>6, <3>1, MessageDone DEF link
    <3>3. handed' \in Seq(Seq(Nat)) /\ incomplete' \in Seq(Nat)
      BY <1>1, <2>2, <3>1
    <3> HIDE DEF m
    <3>4. CloseHanded' <=> CloseHanded
      BY <1>1, <1>2, <2>2, <2>5, <3>1, HandedMore
    <3>5. QED
      BY <2>1, <3>1, <3>2, <3>3, <3>4, TakeStep DEF Return
  <2>7. CASE ~f.fin
    <3>1. incomplete' = m /\ pc' = "loop" /\ UNCHANGED <<handed, result>>
      BY <2>1, <2>7
    <3>2. MessageInv'
      BY <1>1, <1>2, <2>2, <2>3, <2>7, <3>1, FragmentKept DEF link
    <3>3. handed' \in Seq(Seq(Nat)) /\ incomplete' \in Seq(Nat)
      BY <1>1, <2>2, <3>1
    <3>4. CloseHanded' <=> CloseHanded
      BY <1>1, <1>2, <3>1, HandedAlone
    <3>5. QED
      BY <2>1, <3>1, <3>2, <3>3, <3>4, TakeStep
  <2>8. QED
    BY <2>6, <2>7
<1>5. QED
  BY <1>3, <1>4

(* A ping that is answered, if the answer can be written. *)
LEMMA PingStep ==
  ASSUME PeerInv, NEW f, Reads(f), f.op = "ping", state = "Active",
         NEW o \in BufferFrame(PongTo(f.id), state), Written(o), Return(o.err),
         IF o.err = "Ok"
         THEN unflushed_additional' = TRUE /\ Hand(<<f.id>>)
         ELSE UNCHANGED <<unflushed_additional, handed>>,
         UNCHANGED <<state, incomplete>>
  PROVE  PeerInv'
<1>1. /\ TypeInv /\ MessageInv /\ FragmentsInv /\ HandshakeState /\ PongsMatchPings /\ Buffers
      /\ Returned \in Nat /\ Out \in Seq(Frame)
  BY PartsOf
<1>2. /\ Returned' = Returned + 1 /\ SameBehind /\ f = arrivals'[Returned + 1] /\ f.id = Returned + 1
      /\ link' = link /\ Going /\ ArrivalsInv' /\ inbox' \in Seq(Frame) /\ result \notin Fatal
  BY ReadsFacts
<1> DEFINE p == PongTo(f.id)
<1>3. p \in Frame /\ p.op = "pong"
  <2>1. f.id \in Nat /\ "ping" \in Ops
    BY <1>1, <1>2 DEF Ops
  <2>2. QED
    BY <2>1, FrameTypes, FrameKinds, Zenon
<1>4. ~IsClose(p) /\ p = PongTo(Returned + 1)
  BY <1>2, <1>3 DEF IsClose
<1> HIDE DEF p
<1>5. Buffers' /\ Out' = Append(Out, p) /\ Extends(outgoing, outgoing')
  BY <1>1, <1>3, QueuedFacts DEF p, States
<1>6. o.err \in {"Ok", "WouldBlock", "Io"} /\ (~nonblocking => o.err # "WouldBlock")
  BY <1>1, <1>3, BufferFrameFacts DEF p, States, Outcome, Buffers
<1>7. pc' = "idle" /\ result' = o.err /\ state' = "Active"
  BY DEF Return
<1>8. \/ result' = "Ok" /\ unflushed_additional' = TRUE /\ handed' = Append(handed, <<Returned + 1>>)
      \/ /\ result' \in {"WouldBlock", "Io"} /\ (~nonblocking => result' = "Io")
         /\ UNCHANGED <<unflushed_additional, handed>>
  BY <1>2, <1>6, <1>7 DEF Hand
<1>9. MessageInv'
  <2>1. CASE result' = "Ok" /\ handed' = Append(handed, <<Returned + 1>>)
    BY <1>1, <1>2, <2>1, ControlHanded DEF link
  <2>2. CASE result' \in {"WouldBlock", "Io"} /\ (~nonblocking => result' = "Io") /\ handed' = handed
    <3>1. ~Going' \/ (nonblocking /\ arrivals'[Returned + 1].op \notin {"data", "continue"})
      BY <1>2, <2>2 DEF Going, Fatal
    <3>2. QED
      BY <1>1, <1>2, <2>2, <3>1, MessagesAlone DEF link
  <2>3. QED
    BY <1>8, <2>1, <2>2
<1>10. ~CloseQueued /\ ~CloseHanded
  BY <1>1 DEF HandshakeState
<1>11. ~CloseHanded'
  <2>1. CASE handed' = handed
    BY <1>1, <1>2, <1>10, <2>1, HandedAlone
  <2>2. CASE handed' = Append(handed, <<Returned + 1>>)
    <3> DEFINE m == <<Returned + 1>>
    <3>1. m \in Seq(Nat) /\ m[1] = Returned + 1 /\ handed' = Append(handed, m)
      BY <1>1, <2>2
    <3> HIDE DEF m
    <3>2. arrivals'[m[1]].op = "ping"
      BY <1>2, <3>1
    <3>3. QED
      BY <1>1, <1>2, <1>10, <3>1, <3>2, HandedMore
  <2>3. QED
    BY <1>8, <2>1, <2>2
<1>12. NothingAfterClose' /\ ~CloseQueued'
  BY <1>1, <1>3, <1>4, <1>5, <1>10, QueueGrows
<1>13. HandshakeState'
  BY <1>7, <1>11, <1>12 DEF HandshakeState
<1>14. PongsMatchPings'
  <2>1. Out' = Append(Out, PongTo(Returned + 1)) /\ arrivals'[Returned + 1].op = "ping"
    BY <1>2, <1>4, <1>5
  <2>2. QED
    BY <1>1, <1>2, <2>1, PongsAnswered
<1>15. TypeInv'
  <2>0. handed \in Seq(Seq(Nat)) /\ unflushed_additional \in BOOLEAN /\ <<Returned + 1>> \in Seq(Nat)
    BY <1>1 DEF TypeInv, TypeOK
  <2>1. handed' \in Seq(Seq(Nat)) /\ unflushed_additional' \in BOOLEAN
    BY <1>8, <2>0, HandGrows
  <2>2. QED
    BY <1>1, <1>2, <1>5, <1>6, <1>7, <2>1 DEF TypeInv, TypeOK, Buffers, Reads, link, Locations, Results, Fatal
<1>16. PlaceInv' /\ ClosedMeansDone' /\ NoReplyWaits'
  BY <1>6, <1>7 DEF PlaceInv, ClosedMeansDone, NoReplyWaits
<1>17. FlushedInv'
  <2>1. nonblocking' \/ unflushed_additional' \/ ~Going'
    BY <1>2, <1>8 DEF link, Going, Fatal
  <2>2. QED
    BY <1>7, <2>1 DEF FlushedInv
<1>18. QED
  BY <1>2, <1>9, <1>12, <1>13, <1>14, <1>15, <1>16, <1>17 DEF PeerInv, CloseInv

(* The peer's close frame is the answer to ours. *)
LEMMA CloseAnswered ==
  ASSUME PeerInv, NEW f, Reads(f), f.op = "close", state = "ClosedByUs",
         state' = "CloseAcknowledged", Hand(<<f.id>>), Return("Ok"),
         UNCHANGED <<out_buffer, unflushed_additional, incomplete, outgoing>>
  PROVE  PeerInv'
<1>1. /\ TypeInv /\ MessageInv /\ FragmentsInv /\ HandshakeState /\ PongsMatchPings /\ Buffers
      /\ FlushedInv /\ NothingAfterClose /\ Returned \in Nat /\ Out \in Seq(Frame)
  BY PartsOf
<1>2. /\ Returned' = Returned + 1 /\ SameBehind /\ f = arrivals'[Returned + 1] /\ f.id = Returned + 1
      /\ link' = link /\ Going /\ ArrivalsInv' /\ inbox' \in Seq(Frame) /\ result \notin Fatal
      /\ ~nonblocking => NoReplyQueued
  BY ReadsFacts
<1> DEFINE m == <<Returned + 1>>
<1>3. m \in Seq(Nat) /\ m[1] = Returned + 1 /\ handed' = Append(handed, m) /\ handed \in Seq(Seq(Nat))
  BY <1>1, <1>2 DEF Hand, TypeInv, TypeOK
<1>4. MessageInv'
  BY <1>1, <1>2, <1>3, ControlHanded DEF link
<1> HIDE DEF m
<1>5. handed' \in Seq(Seq(Nat))
  BY <1>3, HandGrows
<1>6. TypeInv'
  BY <1>1, <1>2, <1>5 DEF TypeInv, TypeOK, Reads, link, Locations, Results, States, Return
<1>7. CloseHanded'
  BY <1>1, <1>2, <1>3, HandedMore
<1>8. Out' = Out /\ (NoReplyQueued' <=> NoReplyQueued) /\ (CloseQueued' <=> CloseQueued)
      /\ (CloseWritten' <=> CloseWritten)
  BY DEF Out, NoReplyQueued, CloseQueued, CloseWritten
<1>9. NothingAfterClose' /\ HandshakeState'
  BY <1>1, <1>7, <1>8 DEF NothingAfterClose, HandshakeState
<1>10. PongsMatchPings'
  BY <1>1, <1>2, <1>8, PongsKept
<1>11. PlaceInv' /\ ClosedMeansDone' /\ NoReplyWaits'
  BY DEF PlaceInv, ClosedMeansDone, NoReplyWaits, Return, Fatal
<1>12. FlushedInv'
  <2>1. ~nonblocking => CloseWritten'
    BY <1>1, <1>2, <1>8 DEF FlushedInv
  <2>2. nonblocking' = nonblocking
    BY <1>2 DEF link
  <2>3. QED
    BY <1>2, <1>8, <2>1, <2>2 DEF FlushedInv, NoReplyQueued
<1>13. QED
  BY <1>2, <1>4, <1>6, <1>9, <1>10, <1>11, <1>12 DEF PeerInv, CloseInv

(* The peer closes first: the reply is queued. *)
LEMMA CloseReplied ==
  ASSUME PeerInv, NEW f, Reads(f), f.op = "close", state = "Active", state' = "ClosedByPeer",
         NEW b \in Bodies, NEW o \in BufferFrame(CloseReply(b), "ClosedByPeer"), Written(o),
         IF o.err = "Ok"
         THEN unflushed_additional' = TRUE /\ Hand(<<f.id>>) /\ Return("Ok")
         ELSE pc' = "panicked" /\ UNCHANGED <<unflushed_additional, handed, result>>,
         UNCHANGED incomplete
  PROVE  PeerInv'
<1>1. /\ TypeInv /\ MessageInv /\ FragmentsInv /\ HandshakeState /\ PongsMatchPings /\ Buffers
      /\ Returned \in Nat /\ Out \in Seq(Frame) /\ (result = "Closed" => Done)
  BY PartsOf
<1>2. /\ Returned' = Returned + 1 /\ SameBehind /\ f = arrivals'[Returned + 1] /\ f.id = Returned + 1
      /\ link' = link /\ Going /\ ArrivalsInv' /\ inbox' \in Seq(Frame) /\ result \notin Fatal
  BY ReadsFacts
<1> DEFINE p == CloseReply(b)
<1>3. p \in Frame /\ p.op = "close" /\ p.auto
  BY FrameTypes, FrameKinds, Zenon
<1>4. IsClose(p) /\ ~IsReply(p)
  BY <1>3 DEF IsClose, IsReply
<1> HIDE DEF p
<1>5. Buffers' /\ Out' = Append(Out, p) /\ Extends(outgoing, outgoing')
  BY <1>1, <1>3, QueuedFacts DEF p, States
<1> DEFINE m == <<Returned + 1>>
<1>6. m \in Seq(Nat) /\ m[1] = Returned + 1 /\ handed \in Seq(Seq(Nat)) /\ unflushed_additional \in BOOLEAN
  BY <1>1 DEF TypeInv, TypeOK
<1>7. \/ /\ handed' = Append(handed, m) /\ pc' = "idle" /\ result' = "Ok" /\ unflushed_additional' = TRUE
      \/ /\ pc' = "panicked" /\ UNCHANGED <<unflushed_additional, handed, result>>
  BY <1>2 DEF Hand, Return
<1>8. MessageInv'
  <2>1. CASE handed' = Append(handed, m)
    BY <1>1, <1>2, <2>1, ControlHanded DEF link
  <2>2. CASE pc' = "panicked" /\ handed' = handed
    <3>1. ~Going'
      BY <2>2 DEF Going
    <3>2. QED
      BY <1>1, <1>2, <2>2, <3>1, MessagesAlone DEF link
  <2>3. QED
    BY <1>7, <2>1, <2>2
<1> HIDE DEF m
<1>9. CloseHanded' \/ pc' = "panicked"
  <2>1. CASE handed' = Append(handed, m)
    BY <1>1, <1>2, <1>6, <2>1, HandedMore
  <2>2. QED
    BY <1>7, <2>1
<1>10. TypeInv'
  <2>1. handed' \in Seq(Seq(Nat)) /\ unflushed_additional' \in BOOLEAN
    BY <1>6, <1>7, HandGrows
  <2>2. QED
    BY <1>1, <1>2, <1>5, <1>7, <2>1
       DEF TypeInv, TypeOK, Buffers, Reads, link, Locations, Results, States
<1>11. ~CloseQueued
  BY <1>1 DEF HandshakeState
<1>12. NothingAfterClose' /\ CloseQueued' /\ Out'[Len(Out')] = p
  BY <1>1, <1>3, <1>4, <1>5, <1>11, QueueGrows
<1>13. HandshakeState'
  BY <1>3, <1>9, <1>12 DEF HandshakeState
<1>14. PongsMatchPings'
  BY <1>1, <1>2, <1>3, <1>4, <1>5, PongsKept
<1>15. PlaceInv' /\ NoReplyWaits'
  BY <1>2, <1>7 DEF PlaceInv, NoReplyWaits, Fatal
<1>16. ClosedMeansDone'
  <2>1. result # "Closed"
    BY <1>1, <1>11 DEF Done
  <2>2. QED
    BY <1>7, <2>1 DEF ClosedMeansDone
<1>17. FlushedInv'
  <2>1. unflushed_additional' \/ ~Going'
    BY <1>7 DEF Going
  <2>2. QED
    BY <2>1 DEF FlushedInv
<1>18. QED
  BY <1>2, <1>8, <1>10, <1>12, <1>13, <1>14, <1>15, <1>16, <1>17 DEF PeerInv, CloseInv

LEMMA ReceiveStep ==
  ASSUME PeerInv, ReceiveAfterClosing \/ Receive, arrivals' = arrivals, writes' \in Nat
  PROVE  PeerInv'
<1> DEFINE f == Head(inbox)
<1>1. Reads(f)
  BY DEF ReceiveAfterClosing, Receive, Arrival, Reads
<1>2. f \in Frame /\ f.body \in Bodies
  BY <1>1, ReadsFacts DEF Frame
<1>3. CASE ReceiveAfterClosing
  BY <1>1, <1>3, RefuseStep DEF ReceiveAfterClosing, CanRead
<1>4. CASE Receive
  <2>1. state \in {"Active", "ClosedByUs"}
    BY <1>4 DEF Receive, CanRead
  <2>2. \/ f.op = "bad" /\ Refuse("Protocol")
        \/ f.op = "ping" /\ ReceivePing(f)
        \/ f.op = "pong" /\ ReceivePong(f)
        \/ f.op = "close" /\ ReceiveClose(f)
        \/ f.op \in {"data", "continue"} /\ ReceiveData(f)
    BY <1>4 DEF Receive
  <2> HIDE DEF f
  <2>3. CASE f.op = "bad" /\ Refuse("Protocol")
    BY <1>1, <2>3, RefuseStep
  <2>4. CASE f.op = "ping" /\ ReceivePing(f)
    <3>1. CASE IsActive
      <4>1. PICK o \in BufferFrame(PongTo(f.id), state) :
              /\ Written(o)
              /\ Return(o.err)
              /\ IF o.err = "Ok"
                 THEN unflushed_additional' = TRUE /\ Hand(<<f.id>>)
                 ELSE UNCHANGED <<unflushed_additional, handed>>
              /\ UNCHANGED <<state, incomplete>>
        BY <2>4, <3>1 DEF ReceivePing
      <4>2. QED
        BY <1>1, <2>4, <3>1, <4>1, PingStep DEF IsActive
    <3>2. CASE ~IsActive
      BY <1>1, <2>4, <3>2, ControlStep DEF ReceivePing, IsActive
    <3>3. QED
      BY <3>1, <3>2
  <2>5. CASE f.op = "pong" /\ ReceivePong(f)
    BY <1>1, <2>5, ControlStep DEF ReceivePong
  <2>6. CASE f.op = "close" /\ ReceiveClose(f)
    <3>1. PICK b \in ReadBodies(f) :
            IF b = "malformed" THEN Refuse("Protocol")
            ELSE IF state = "ClosedByUs"
            THEN /\ state' = "CloseAcknowledged"
                 /\ Hand(<<f.id>>)
                 /\ Return("Ok")
                 /\ UNCHANGED <<out_buffer, unflushed_additional, incomplete, outgoing>>
            ELSE /\ state' = "ClosedByPeer"
                 /\ \E o \in BufferFrame(CloseReply(IF b = "forbidden" THEN "allowed" ELSE b),
                                         "ClosedByPeer") :
                      /\ Written(o)
                      /\ IF o.err = "Ok"
                         THEN unflushed_additional' = TRUE /\ Hand(<<f.id>>) /\ Return("Ok")
                         ELSE pc' = "panicked" /\ UNCHANGED <<unflushed_additional, handed, result>>
                 /\ UNCHANGED incomplete
      BY <2>6, Zenon DEF ReceiveClose
    <3>2. CASE b = "malformed"
      BY <1>1, <2>6, <3>1, <3>2, RefuseStep
    <3>3. CASE b # "malformed" /\ state = "ClosedByUs"
      BY <1>1, <2>6, <3>1, <3>3, CloseAnswered
    <3>4. CASE b # "malformed" /\ state = "Active"
      <4> DEFINE body == IF b = "forbidden" THEN "allowed" ELSE b
      <4>1. body \in Bodies
        BY <1>2, <3>4 DEF ReadBodies, Bodies
      <4>2. PICK o \in BufferFrame(CloseReply(body), "ClosedByPeer") :
              /\ Written(o)
              /\ IF o.err = "Ok"
                 THEN unflushed_additional' = TRUE /\ Hand(<<f.id>>) /\ Return("Ok")
                 ELSE pc' = "panicked" /\ UNCHANGED <<unflushed_additional, handed, result>>
        BY <3>1, <3>4
      <4>3. state' = "ClosedByPeer" /\ UNCHANGED incomplete
        BY <3>1, <3>4
      <4> HIDE DEF body
      <4>4. QED
        BY <1>1, <2>6, <3>4, <4>1, <4>2, <4>3, CloseReplied
    <3>5. QED
      BY <2>1, <3>2, <3>3, <3>4
  <2>7. CASE f.op \in {"data", "continue"} /\ ReceiveData(f)
    BY <1>1, <2>7, DataStep
  <2>8. QED
    BY <2>2, <2>3, <2>4, <2>5, <2>6, <2>7
<1>5. QED
  BY <1>3, <1>4

LEMMA ReadStepInv ==
  ASSUME PeerInv, ReadStep, arrivals' = arrivals, writes' \in Nat
  PROVE  PeerInv'
  BY LoopStep, ReceiveStep, NoFrameStep DEF ReadStep

-----------------------------------------------------------------------------
(* A new connection *)
Fresh ==
  /\ EndpointInit /\ inbox = << >> /\ outgoing = << >> /\ arrivals = << >>
  /\ peer_open \in BOOLEAN /\ broken \in BOOLEAN /\ nonblocking \in BOOLEAN /\ writes \in Nat

LEMMA FreshInv == Fresh => PeerInv
<1> SUFFICES ASSUME Fresh PROVE PeerInv
  OBVIOUS
<1> USE DEF Fresh, EndpointInit
<1>0. << >> \in Seq(Frame) /\ << >> \in Seq(Nat) /\ << >> \in Seq(Seq(Nat))
  OBVIOUS
<1>1. TypeInv
  <2>1. state \in States /\ pc \in Locations /\ result \in Results
    BY DEF States, Locations, Results
  <2>2. QED
    BY <1>0, <2>1, Zenon DEF TypeInv, TypeOK
<1>2. Out = << >> /\ Returned = 0
  BY ConcatEmptySeq DEF Out, Returned
<1>3. ArrivalsInv
  BY DEF ArrivalsInv
<1>4. PlaceInv
  BY DEF PlaceInv, Fatal
<1>5. ~CloseQueued /\ ~CloseHanded
  BY <1>2 DEF CloseQueued, CloseHanded
<1>6. NothingAfterClose /\ HandshakeState
  BY <1>2, <1>5 DEF NothingAfterClose, HandshakeState
<1>7. ClosedMeansDone /\ NoReplyWaits /\ FlushedInv
  BY DEF ClosedMeansDone, NoReplyWaits, FlushedInv
<1>8. PongsMatchPings
  BY <1>2 DEF PongsMatchPings
<1>9. FragmentsInv /\ MessagesWhole /\ NothingSwallowed
  <2>1. DOMAIN incomplete = {} /\ DOMAIN handed = {} /\ Len(incomplete) = 0 /\ 1 .. Returned = {}
    BY <1>2
  <2>2. QED
    BY <2>1 DEF FragmentsInv, MessagesWhole, NothingSwallowed, InOrder
<1>10. QED
  BY <1>1, <1>3, <1>4, <1>6, <1>7, <1>8, <1>9 DEF PeerInv, CloseInv, MessageInv

LEMMA PeerInit == Init => PeerInv
<1>1. Init => Fresh
  <2>1. 0 \in Nat
    OBVIOUS
  <2>2. QED
    BY <2>1, Zenon DEF Init, Fresh, PeerAssumption
<1>2. QED
  BY <1>1, FreshInv

LEMMA PeerStutter ==
  ASSUME PeerInv, UNCHANGED vars
  PROVE  PeerInv'
<1>1. UNCHANGED <<state, out_buffer, unflushed_additional, incomplete, pc, result, handed,
                  inbox, outgoing, peer_open, broken, nonblocking, arrivals, writes>>
  BY DEF vars, wsVars, endpoint, stream, link
<1>2. TypeInv /\ PlaceInv /\ (result = "Closed" => Done)
  BY PartsOf
<1>3. PlaceInv' /\ pc' \in Locations /\ result' \in Results /\ writes' \in Nat
  BY <1>1, <1>2 DEF PlaceInv, TypeInv, TypeOK
<1>4. pc' = "reading" /\ ~nonblocking => NoReplyQueued
  BY <1>1, RepliesKnown
<1>5. UNCHANGED stream
  BY <1>1 DEF stream, link
<1>6. QED
  BY <1>1, <1>2, <1>3, <1>4, <1>5, ThreadMoves

LEMMA PeerNext ==
  PeerInv /\ [Next]_vars => PeerInv'
<1> SUFFICES ASSUME PeerInv, [Next]_vars PROVE PeerInv'
  OBVIOUS
<1>0. writes \in Nat
  BY PartsOf DEF TypeInv
<1>1. CASE PeerSends \/ PeerShuts \/ Break
  BY <1>1, PeerStep
<1>2. CASE UserWrites
  <2>1. PICK op \in {"data", "ping", "pong"} : Write(op, writes + 1)
    BY <1>2 DEF UserWrites
  <2>2. arrivals' = arrivals /\ writes' = writes + 1
    BY <1>2 DEF UserWrites
  <2>3. QED
    BY <1>0, <2>1, <2>2, WriteStep
<1>3. CASE UserCalls
  BY <1>0, <1>3, CallStep DEF UserCalls
<1>4. CASE Endpoint
  BY <1>0, <1>4, ReadStepInv DEF Endpoint
<1>5. CASE UNCHANGED vars
  BY <1>5, PeerStutter
<1>6. QED
  BY <1>1, <1>2, <1>3, <1>4, <1>5 DEF Next

-----------------------------------------------------------------------------
(* What holds of an endpoint, of either role and any sizes, whoever it     *)
(* talks to (WebSocketContext of protocol/mod.rs).                         *)
THEOREM PeerInvariance == Spec => []PeerInv
  BY PeerInit, PeerNext, PTL DEF Spec

LEMMA PeerInvImplies ==
  PeerInv => /\ TypeOK /\ NothingAfterClose /\ HandshakeState /\ ClosedMeansDone /\ NoReplyWaits
             /\ PongsMatchPings /\ MessagesWhole /\ NothingSwallowed
  BY DEF PeerInv, TypeInv, CloseInv, MessageInv

(* The variables have their types, the frames queued and handed included. *)
THEOREM EndpointTypes == Spec => []TypeOK
  BY PeerInvariance, PeerInvImplies, PTL

(* One close frame at most is queued, and nothing behind it (write and     *)
(* do_close).                                                              *)
THEOREM CloseIsLast == Spec => []NothingAfterClose
  BY PeerInvariance, PeerInvImplies, PTL

(* WebSocketState says how far the close handshake is. *)
THEOREM StateIsTrue == Spec => []HandshakeState
  BY PeerInvariance, PeerInvImplies, PTL

(* ConnectionClosed is returned only when the close handshake is finished  *)
(* (the doc of Error::ConnectionClosed).                                   *)
THEOREM ClosedIsDone == Spec => []ClosedMeansDone
  BY PeerInvariance, PeerInvImplies, PTL

(* A blocking read never waits for the peer while a reply that the peer    *)
(* may be waiting for is in out_buffer (read's flush of                    *)
(* unflushed_additional).                                                  *)
THEOREM RepliesGoFirst == Spec => []NoReplyWaits
  BY PeerInvariance, PeerInvImplies, PTL

(* Every ping read while the connection is active is answered once, in     *)
(* order, whatever short writes do to out_buffer (read_message_frame).     *)
THEOREM PingsAnswered == Spec => []PongsMatchPings
  BY PeerInvariance, PeerInvImplies, PTL

(* Messages are handed over whole, in order and no longer than the limit   *)
(* (IncompleteMessage).                                                    *)
THEOREM WholeMessages == Spec => []MessagesWhole
  BY PeerInvariance, PeerInvImplies, PTL

(* No frame that was read gets lost or is handed over twice. *)
THEOREM FramesNotLost == Spec => []NothingSwallowed
  BY PeerInvariance, PeerInvImplies, PTL
=============================================================================
