------------------------- MODULE CloseHandshakeProof -------------------------
(***************************************************************************)
(* Proofs about CloseHandshake: the two endpoints implement ClosePromise,  *)
(* and no orderly close ends in an error, for every number of writes and   *)
(* every size of the write buffers.                                        *)
(***************************************************************************)
EXTENDS CloseHandshakeInvariant, SequenceTheorems, TLAPS

USE HandshakeAssumption

-----------------------------------------------------------------------------
(* Sequences *)

LEMMA AppendElements ==
  ASSUME NEW T, NEW q \in Seq(T), NEW x \in T
  PROVE  /\ Append(q, x) \in Seq(T)
         /\ Len(Append(q, x)) = Len(q) + 1
         /\ DOMAIN Append(q, x) = 1 .. Len(q) + 1
         /\ DOMAIN q = 1 .. Len(q) /\ Len(q) \in Nat
         /\ \A i \in DOMAIN q : Append(q, x)[i] = q[i]
         /\ Append(q, x)[Len(q) + 1] = x
  OBVIOUS

LEMMA TailElements ==
  ASSUME NEW T, NEW q \in Seq(T), q # << >>
  PROVE  /\ Tail(q) \in Seq(T)
         /\ Len(q) \in Nat \ {0}
         /\ Len(Tail(q)) = Len(q) - 1
         /\ DOMAIN q = 1 .. Len(q)
         /\ DOMAIN Tail(q) = 1 .. Len(q) - 1
         /\ \A i \in DOMAIN Tail(q) : Tail(q)[i] = q[i + 1] /\ i + 1 \in DOMAIN q
         /\ Head(q) = q[1] /\ 1 \in DOMAIN q /\ Head(q) \in T
  BY EmptySeq, HeadTailProperties, LenProperties

(* A frame is queued: it is written with all before it, or waits.          *)
LEMMA QueueGrows ==
  ASSUME NEW T, NEW net \in Seq(T), NEW out \in Seq(T), NEW f \in T
  PROVE  /\ Append(out, f) \in Seq(T) /\ << >> \in Seq(T)
         /\ net \o Append(out, f) \in Seq(T)
         /\ net \o Append(out, f) = Append(net \o out, f)
         /\ (net \o Append(out, f)) \o << >> = Append(net \o out, f)
<1>1. Append(out, f) \in Seq(T)
  OBVIOUS
<1>2. net \o Append(out, f) = Append(net \o out, f)
  OBVIOUS
<1>3. net \o Append(out, f) \in Seq(T)
  BY <1>1, ConcatProperties
<1>4. QED
  BY <1>1, <1>2, <1>3, ConcatEmptySeq, EmptySeq

LEMMA QueueFlushed ==
  ASSUME NEW T, NEW net \in Seq(T), NEW out \in Seq(T)
  PROVE  net \o out \in Seq(T) /\ (net \o out) \o << >> = net \o out
  BY ConcatProperties, ConcatEmptySeq

LEMMA QueueShifts ==
  ASSUME NEW T, NEW net \in Seq(T), NEW out \in Seq(T), net # << >>
  PROVE  /\ Tail(net) \in Seq(T) /\ Tail(net) \o out = Tail(net \o out)
         /\ net \o out \in Seq(T) /\ net \o out # << >>
         /\ Head(net \o out) = Head(net) /\ Head(net) \in T
<1>1. net \o out \in Seq(T) /\ net \o out # << >>
  BY ConcatProperties, ConcatEqualIffEmpty
<1>2. Tail(net) \in Seq(T) /\ Head(net) \in T
  BY HeadTailProperties
<1>3. Tail(net) \o out = Tail(net \o out) /\ Head(net \o out) = Head(net)
  BY ConcatProperties, <1>1, SMTT(40)
<1>4. QED
  BY <1>1, <1>2, <1>3

-----------------------------------------------------------------------------
(* Traffic *)

LEMMA TrafficGrows ==
  ASSUME NEW q, NEW h \in BOOLEAN, NEW f \in C!Frame, Traffic(q, "Active", h), Sendable(f)
  PROVE  /\ h = FALSE
         /\ ~IsClose(f) => Traffic(Append(q, f), "Active", h)
         /\ IsClose(f) => \A s : s # "Active" => Traffic(Append(q, f), s, h)
<1>1. q \in Seq(C!Frame) /\ (\A i \in DOMAIN q : Sendable(q[i])) /\ NoCloseIn(q) /\ h = FALSE
  BY DEF Traffic
<1> DEFINE r == Append(q, f)
<1>2. /\ r \in Seq(C!Frame) /\ Len(r) = Len(q) + 1 /\ DOMAIN r = 1 .. Len(q) + 1
      /\ DOMAIN q = 1 .. Len(q) /\ Len(q) \in Nat
      /\ \A i \in DOMAIN q : r[i] = q[i]
      /\ r[Len(q) + 1] = f
  BY <1>1, AppendElements
<1> HIDE DEF r
<1>3. \A i \in DOMAIN r : i \in DOMAIN q \/ i = Len(q) + 1
  BY <1>2
<1>4. \A i \in DOMAIN r : Sendable(r[i])
  BY <1>1, <1>2, <1>3
<1>5. ~IsClose(f) => NoCloseIn(r)
  BY <1>1, <1>2, <1>3 DEF NoCloseIn
<1>6. IsClose(f) => CloseEnds(r)
  <2>1. r # << >>
    BY <1>2, EmptySeq
  <2>2. \A i \in DOMAIN q : i # Len(q) + 1
    BY <1>2
  <2>3. ASSUME IsClose(f), NEW i \in DOMAIN r PROVE IsClose(r[i]) <=> i = Len(r)
    <3>1. CASE i \in DOMAIN q
      BY <1>1, <1>2, <2>2, <3>1 DEF NoCloseIn
    <3>2. CASE i = Len(q) + 1
      BY <1>2, <2>3, <3>2
    <3>3. QED
      BY <1>3, <3>1, <3>2
  <2>4. QED
    BY <2>1, <2>3 DEF CloseEnds
<1>7. QED
  BY <1>1, <1>2, <1>4, <1>5, <1>6 DEF Traffic, r

LEMMA TrafficShifts ==
  ASSUME NEW q, NEW s, NEW h \in BOOLEAN, Traffic(q, s, h), q # << >>
  PROVE  /\ h = FALSE /\ Sendable(Head(q)) /\ Head(q) \in C!Frame
         /\ ~IsClose(Head(q)) => Traffic(Tail(q), s, h)
         /\ IsClose(Head(q)) => s # "Active" /\ Tail(q) = << >> /\ Traffic(Tail(q), s, TRUE)
<1>1. q \in Seq(C!Frame) /\ (\A i \in DOMAIN q : Sendable(q[i])) /\ h = FALSE
  BY DEF Traffic
<1> DEFINE r == Tail(q)
<1>2. /\ r \in Seq(C!Frame) /\ Len(q) \in Nat \ {0} /\ Len(r) = Len(q) - 1
      /\ DOMAIN q = 1 .. Len(q) /\ DOMAIN r = 1 .. Len(q) - 1
      /\ \A i \in DOMAIN r : r[i] = q[i + 1] /\ i + 1 \in DOMAIN q
      /\ Head(q) = q[1] /\ 1 \in DOMAIN q /\ Head(q) \in C!Frame
  BY <1>1, TailElements
<1> HIDE DEF r
<1>3. \A i \in DOMAIN r : Sendable(r[i])
  BY <1>1, <1>2
<1>4. Sendable(Head(q))
  BY <1>1, <1>2
<1>5. CASE s = "Active"
  <2>1. NoCloseIn(q) /\ ~IsClose(Head(q))
    BY <1>2, <1>5 DEF Traffic, NoCloseIn
  <2>2. NoCloseIn(r)
    BY <1>2, <2>1 DEF NoCloseIn
  <2>3. QED
    BY <1>1, <1>2, <1>3, <1>4, <1>5, <2>1, <2>2 DEF Traffic, r
<1>6. CASE s # "Active"
  <2>1. CloseEnds(q)
    BY <1>1, <1>6 DEF Traffic
  <2>2. IsClose(Head(q)) <=> Len(q) = 1
    BY <1>2, <2>1 DEF CloseEnds
  <2>3. CASE IsClose(Head(q))
    <3>1. Len(r) = 0
      BY <1>2, <2>2, <2>3
    <3>2. r = << >>
      BY <1>2, <3>1, EmptySeq
    <3>3. QED
      BY <1>1, <1>2, <1>3, <1>4, <1>6, <2>3, <3>2 DEF Traffic, r
  <2>4. CASE ~IsClose(Head(q))
    <3>1. Len(r) # 0
      BY <1>2, <2>2, <2>4
    <3>2. r # << >>
      BY <3>1, EmptySeq
    <3>3. \A i \in DOMAIN r : IsClose(r[i]) <=> i = Len(r)
      <4>1. \A i \in DOMAIN r : i + 1 = Len(q) <=> i = Len(r)
        BY <1>2
      <4>2. QED
        BY <1>2, <2>1, <4>1 DEF CloseEnds
    <3>4. CloseEnds(r)
      BY <3>2, <3>3 DEF CloseEnds
    <3>5. QED
      BY <1>1, <1>2, <1>3, <1>4, <1>6, <2>4, <3>4 DEF Traffic, r
  <2>5. QED
    BY <2>3, <2>4
<1>7. QED
  BY <1>5, <1>6

(* How an end came to close does not matter to what it has sent. *)
LEMMA TrafficSame ==
  ASSUME NEW q, NEW s, NEW t, NEW h \in BOOLEAN, Traffic(q, s, h), s = "Active" <=> t = "Active"
  PROVE  Traffic(q, t, h)
  BY DEF Traffic

LEMMA HeardGrows ==
  ASSUME NEW seen \in Seq(Seq(Nat)), NEW n \in Nat
  PROVE  /\ Append(seen, <<n>>) \in Seq(Seq(Nat))
         /\ n >= 1 => (HeardClose(Append(seen, <<n>>)) <=> HeardClose(seen))
         /\ n = 0 => HeardClose(Append(seen, <<n>>))
<1> DEFINE r == Append(seen, <<n>>)
<1>1. <<n>> \in Seq(Nat) /\ (<<n>> = <<0>> <=> n = 0)
  <2>1. <<n>> \in Seq(Nat)
    OBVIOUS
  <2>2. <<n>>[1] = n /\ <<0>>[1] = 0
    OBVIOUS
  <2>3. QED
    BY <2>1, <2>2
<1>2. /\ r \in Seq(Seq(Nat)) /\ DOMAIN r = 1 .. Len(seen) + 1
      /\ DOMAIN seen = 1 .. Len(seen) /\ Len(seen) \in Nat
      /\ \A i \in DOMAIN seen : r[i] = seen[i]
      /\ r[Len(seen) + 1] = <<n>>
  BY <1>1, AppendElements
<1> HIDE DEF r
<1>3. (\A i \in DOMAIN seen : i \in DOMAIN r) /\ (\A i \in DOMAIN r : i \in DOMAIN seen \/ i = Len(seen) + 1)
      /\ Len(seen) + 1 \in DOMAIN r
  BY <1>2
<1> DEFINE m == <<n>>
           z == <<0>>
<1>6. /\ HeardClose(r) <=> \E i \in DOMAIN r : r[i] = z
      /\ HeardClose(seen) <=> \E i \in DOMAIN seen : seen[i] = z
  BY DEF HeardClose
<1>7. r[Len(seen) + 1] = m /\ (m = z <=> n = 0)
  BY <1>1, <1>2
<1> HIDE DEF m, z
<1>4. n >= 1 => (HeardClose(r) <=> HeardClose(seen))
  <2>1. n >= 1 => m # z
    BY <1>7
  <2>2. QED
    BY <1>2, <1>3, <1>6, <1>7, <2>1, Zenon
<1>5. n = 0 => HeardClose(r)
  BY <1>3, <1>6, <1>7, Zenon
<1>8. QED
  BY <1>2, <1>4, <1>5 DEF r

-----------------------------------------------------------------------------
(* What the invariant says, with the types of the variables *)

LEMMA SameFrames == S!Frame = C!Frame /\ S!States = C!States
  BY DEF S!Frame, C!Frame, S!Ops, C!Ops, S!Bodies, C!Bodies, S!States, C!States

LEMMA Parts ==
  ASSUME CloseInv
  PROVE  /\ CloseTypes /\ Connected /\ ClientInv /\ ServerInv /\ BodiesInv
         /\ Traffic(ToServer, c_state, HeardClose(s_handed))
         /\ Traffic(ToClient, s_state, HeardClose(c_handed))
         /\ c_state \in C!States /\ s_state \in C!States
         /\ to_server \in Seq(C!Frame) /\ to_client \in Seq(C!Frame)
         /\ c_out \in Seq(C!Frame) /\ s_out \in Seq(C!Frame)
         /\ c_handed \in Seq(Seq(Nat)) /\ s_handed \in Seq(Seq(Nat))
         /\ c_unflushed \in BOOLEAN /\ s_unflushed \in BOOLEAN
         /\ s_owes \in BOOLEAN /\ c_reset \in BOOLEAN
         /\ c_pc \in {"idle", "loop", "reading", "dropped"}
         /\ s_pc \in {"idle", "loop", "reading", "dropped"}
         /\ c_writes \in Nat /\ s_writes \in Nat
         /\ nonblocking = FALSE /\ s_reset = FALSE
         /\ HeardClose(c_handed) \in BOOLEAN /\ HeardClose(s_handed) \in BOOLEAN
<1>1. CloseTypes /\ Connected
  BY DEF CloseInv
<1>2. HeardClose(c_handed) \in BOOLEAN /\ HeardClose(s_handed) \in BOOLEAN
  BY DEF HeardClose
<1>3. QED
  BY <1>1, <1>2, SameFrames DEF CloseInv, CloseTypes, Connected

(* Once the server is done, nothing more comes from the client, and once   *)
(* either has heard the other's close frame nothing more comes from it.    *)
LEMMA ServerHeard ==
  ASSUME CloseInv, s_state \in Heard
  PROVE  c_state # "Active" /\ ToServer = << >> /\ to_server = << >>
<1>1. HeardClose(s_handed) /\ Traffic(ToServer, c_state, HeardClose(s_handed))
  BY Parts DEF ServerInv
<1>2. ToServer = << >> /\ c_state # "Active"
  BY <1>1 DEF Traffic
<1>3. QED
  BY <1>2, Parts, ConcatEqualIffEmpty DEF ToServer

LEMMA ClientHeard ==
  ASSUME CloseInv, HeardClose(c_handed)
  PROVE  s_state # "Active" /\ ToClient = << >> /\ to_client = << >>
<1>1. ToClient = << >> /\ s_state # "Active"
  BY Parts DEF Traffic
<1>2. QED
  BY <1>1, Parts, ConcatEqualIffEmpty DEF ToClient

LEMMA ServerWorks ==
  ASSUME CloseInv, s_pc # "dropped"
  PROVE  c_result = "Ok" /\ c_reset = FALSE /\ c_pc # "dropped" /\ c_state # "Terminated"
  BY Parts DEF ClientInv, Connected

-----------------------------------------------------------------------------
(* What an endpoint's operators come to while the stream is whole and     *)
(* blocks *)

LEMMA ClientWriteOut ==
  ASSUME CloseInv, NEW q
  PROVE  C!WriteOut(q) = {[rest |-> << >>, done |-> q, err |-> "Ok"]}
<1>1. nonblocking = FALSE /\ s_reset = FALSE
  BY Parts
<1>2. QED
  BY <1>1 DEF C!WriteOut

LEMMA ServerWriteOut ==
  ASSUME CloseInv, s_pc # "dropped", NEW q
  PROVE  S!WriteOut(q) = {[rest |-> << >>, done |-> q, err |-> "Ok"]}
<1>1. nonblocking = FALSE /\ c_reset = FALSE
  BY Parts, ServerWorks
<1>2. QED
  BY <1>1 DEF S!WriteOut

LEMMA ClientBuffer ==
  ASSUME CloseInv, NEW f, NEW s, NEW o \in C!BufferFrame(f, s)
  PROVE  /\ o.err = "Ok"
         /\ \/ o.rest = Append(c_out, f) /\ o.done = << >>
            \/ o.rest = << >> /\ o.done = Append(c_out, f)
<1> DEFINE q == Append(c_out, f)
<1>1. CASE Len(q) > WriteLen
  <2>1. o \in UNION {{[p EXCEPT !.err = e] : e \in C!CheckReset(p.err, s)} : p \in C!WriteOut(q)}
    BY <1>1, Zenon DEF C!BufferFrame
  <2>2. PICK p \in C!WriteOut(q) : \E e \in C!CheckReset(p.err, s) : o = [p EXCEPT !.err = e]
    BY <2>1
  <2> HIDE DEF q
  <2>3. p = [rest |-> << >>, done |-> q, err |-> "Ok"]
    BY <2>2, ClientWriteOut
  <2>4. C!CheckReset(p.err, s) = {"Ok"}
    BY <2>3 DEF C!CheckReset
  <2>5. o = [p EXCEPT !.err = "Ok"]
    BY <2>2, <2>4
  <2>6. QED
    BY <2>3, <2>5 DEF q
<1>2. CASE ~(Len(q) > WriteLen)
  <2>1. o \in {[rest |-> q, done |-> << >>, err |-> "Ok"]}
    BY <1>2, Zenon DEF C!BufferFrame
  <2> HIDE DEF q
  <2>2. QED
    BY <2>1 DEF q
<1>3. QED
  BY <1>1, <1>2

LEMMA ServerBuffer ==
  ASSUME CloseInv, s_pc # "dropped", NEW f, NEW s, NEW o \in S!BufferFrame(f, s)
  PROVE  /\ o.err = "Ok"
         /\ \/ o.rest = Append(s_out, f) /\ o.done = << >>
            \/ o.rest = << >> /\ o.done = Append(s_out, f)
<1> DEFINE q == Append(s_out, f)
<1>1. CASE Len(q) > WriteLen
  <2>1. o \in UNION {{[p EXCEPT !.err = e] : e \in S!CheckReset(p.err, s)} : p \in S!WriteOut(q)}
    BY <1>1, Zenon DEF S!BufferFrame
  <2>2. PICK p \in S!WriteOut(q) : \E e \in S!CheckReset(p.err, s) : o = [p EXCEPT !.err = e]
    BY <2>1
  <2> HIDE DEF q
  <2>3. p = [rest |-> << >>, done |-> q, err |-> "Ok"]
    BY <2>2, ServerWriteOut
  <2>4. S!CheckReset(p.err, s) = {"Ok"}
    BY <2>3 DEF S!CheckReset
  <2>5. o = [p EXCEPT !.err = "Ok"]
    BY <2>2, <2>4
  <2>6. QED
    BY <2>3, <2>5 DEF q
<1>2. CASE ~(Len(q) > WriteLen)
  <2>1. o \in {[rest |-> q, done |-> << >>, err |-> "Ok"]}
    BY <1>2, Zenon DEF S!BufferFrame
  <2> HIDE DEF q
  <2>2. QED
    BY <2>1 DEF q
<1>3. QED
  BY <1>1, <1>2

(* A frame that a call writes is queued behind all others, and none waits  *)
(* if the call flushes. *)
LEMMA ClientWriteFrame ==
  ASSUME CloseInv, NEW f \in C!Frame, NEW s, NEW also \in BOOLEAN, C!WriteFrame(f, s, also)
  PROVE  /\ to_server' \in Seq(C!Frame) /\ c_out' \in Seq(C!Frame)
         /\ to_server' \o c_out' = Append(ToServer, f)
         /\ c_result' = "Ok"
         /\ c_unflushed' \in BOOLEAN
<1>1. PICK o \in C!BufferFrame(f, s) :
        IF o.err = "Ok" /\ also
        THEN \E p \in C!WriteOut(o.rest) :
               /\ c_out' = p.rest
               /\ to_server' = to_server \o o.done \o p.done
               /\ c_result' = p.err
               /\ c_unflushed' = (c_unflushed /\ p.err # "Ok")
        ELSE /\ C!Written(o)
             /\ c_result' = o.err
             /\ UNCHANGED c_unflushed
  BY Zenon DEF C!WriteFrame
<1>2. /\ o.err = "Ok"
      /\ \/ o.rest = Append(c_out, f) /\ o.done = << >>
         \/ o.rest = << >> /\ o.done = Append(c_out, f)
  BY ClientBuffer
<1>3. to_server \in Seq(C!Frame) /\ c_out \in Seq(C!Frame) /\ Append(c_out, f) \in Seq(C!Frame)
      /\ c_unflushed \in BOOLEAN
  BY Parts
<1>4. /\ \/ to_server' = to_server /\ c_out' = Append(c_out, f)
         \/ to_server' = to_server \o Append(c_out, f) /\ c_out' = << >>
      /\ c_result' = "Ok" /\ c_unflushed' \in BOOLEAN
  <2>1. CASE also
    <3>1. PICK p \in C!WriteOut(o.rest) :
               /\ c_out' = p.rest
               /\ to_server' = to_server \o o.done \o p.done
               /\ c_result' = p.err
               /\ c_unflushed' = (c_unflushed /\ p.err # "Ok")
      BY <1>1, <1>2, <2>1, Zenon
    <3>2. p = [rest |-> << >>, done |-> o.rest, err |-> "Ok"]
      BY ClientWriteOut
    <3>3. c_out' = << >> /\ to_server' = to_server \o o.done \o o.rest /\ c_result' = "Ok"
      BY <3>1, <3>2
    <3>4. c_unflushed' \in BOOLEAN
      BY <3>1
    <3>5. to_server \o << >> = to_server /\ to_server \o Append(c_out, f) \in Seq(C!Frame)
      BY <1>3, ConcatProperties, ConcatEmptySeq
    <3>6. to_server \o o.done \o o.rest = to_server \o Append(c_out, f)
      BY <1>2, <3>5, ConcatEmptySeq
    <3>7. QED
      BY <3>3, <3>4, <3>6
  <2>2. CASE ~also
    <3>1. C!Written(o) /\ c_result' = o.err /\ c_unflushed' = c_unflushed
      BY <1>1, <2>2, Zenon
    <3>2. to_server \o << >> = to_server
      BY <1>3, ConcatEmptySeq
    <3>3. QED
      BY <1>2, <1>3, <3>1, <3>2 DEF C!Written
  <2>3. QED
    BY <2>1, <2>2
<1>5. /\ << >> \in Seq(C!Frame)
      /\ to_server \o Append(c_out, f) \in Seq(C!Frame)
      /\ to_server \o Append(c_out, f) = Append(ToServer, f)
      /\ (to_server \o Append(c_out, f)) \o << >> = Append(ToServer, f)
  BY <1>3, QueueGrows DEF ToServer
<1>6. QED
  BY <1>3, <1>4, <1>5, Zenon

LEMMA ServerWriteFrame ==
  ASSUME CloseInv, s_pc # "dropped",
         NEW f \in C!Frame, NEW s, NEW also \in BOOLEAN, S!WriteFrame(f, s, also)
  PROVE  /\ to_client' \in Seq(C!Frame) /\ s_out' \in Seq(C!Frame)
         /\ to_client' \o s_out' = Append(ToClient, f)
         /\ s_result' = "Ok"
         /\ s_unflushed' \in BOOLEAN
         /\ also => s_out' = << >>
<1>1. PICK o \in S!BufferFrame(f, s) :
        IF o.err = "Ok" /\ also
        THEN \E p \in S!WriteOut(o.rest) :
               /\ s_out' = p.rest
               /\ to_client' = to_client \o o.done \o p.done
               /\ s_result' = p.err
               /\ s_unflushed' = (s_unflushed /\ p.err # "Ok")
        ELSE /\ S!Written(o)
             /\ s_result' = o.err
             /\ UNCHANGED s_unflushed
  BY Zenon DEF S!WriteFrame
<1>2. /\ o.err = "Ok"
      /\ \/ o.rest = Append(s_out, f) /\ o.done = << >>
         \/ o.rest = << >> /\ o.done = Append(s_out, f)
  BY ServerBuffer
<1>3. to_client \in Seq(C!Frame) /\ s_out \in Seq(C!Frame) /\ Append(s_out, f) \in Seq(C!Frame)
      /\ s_unflushed \in BOOLEAN
  BY Parts
<1>4. /\ \/ to_client' = to_client /\ s_out' = Append(s_out, f)
         \/ to_client' = to_client \o Append(s_out, f) /\ s_out' = << >>
      /\ s_result' = "Ok" /\ s_unflushed' \in BOOLEAN
      /\ also => s_out' = << >>
  <2>1. CASE also
    <3>1. PICK p \in S!WriteOut(o.rest) :
               /\ s_out' = p.rest
               /\ to_client' = to_client \o o.done \o p.done
               /\ s_result' = p.err
               /\ s_unflushed' = (s_unflushed /\ p.err # "Ok")
      BY <1>1, <1>2, <2>1, Zenon
    <3>2. p = [rest |-> << >>, done |-> o.rest, err |-> "Ok"]
      BY ServerWriteOut
    <3>3. s_out' = << >> /\ to_client' = to_client \o o.done \o o.rest /\ s_result' = "Ok"
      BY <3>1, <3>2
    <3>4. s_unflushed' \in BOOLEAN
      BY <3>1
    <3>5. to_client \o << >> = to_client /\ to_client \o Append(s_out, f) \in Seq(C!Frame)
      BY <1>3, ConcatProperties, ConcatEmptySeq
    <3>6. to_client \o o.done \o o.rest = to_client \o Append(s_out, f)
      BY <1>2, <3>5, ConcatEmptySeq
    <3>7. QED
      BY <3>3, <3>4, <3>6
  <2>2. CASE ~also
    <3>1. S!Written(o) /\ s_result' = o.err /\ s_unflushed' = s_unflushed
      BY <1>1, <2>2, Zenon
    <3>2. to_client \o << >> = to_client
      BY <1>3, ConcatEmptySeq
    <3>3. QED
      BY <1>2, <1>3, <2>2, <3>1, <3>2 DEF S!Written
  <2>3. QED
    BY <2>1, <2>2
<1>5. /\ << >> \in Seq(C!Frame)
      /\ to_client \o Append(s_out, f) \in Seq(C!Frame)
      /\ to_client \o Append(s_out, f) = Append(ToClient, f)
      /\ (to_client \o Append(s_out, f)) \o << >> = Append(ToClient, f)
  BY <1>3, QueueGrows DEF ToClient
<1>6. QED
  BY <1>3, <1>4, <1>5, Zenon

LEMMA BodiesGrow ==
  ASSUME NEW q \in Seq(C!Frame), NEW f \in C!Frame, NEW b
  PROVE  With(b, Append(q, f)) => With(b, q) \/ f.body = b
<1> DEFINE r == Append(q, f)
<1>1. /\ DOMAIN r = 1 .. Len(q) + 1 /\ DOMAIN q = 1 .. Len(q) /\ Len(q) \in Nat
      /\ \A i \in DOMAIN q : r[i] = q[i]
      /\ r[Len(q) + 1] = f
  BY AppendElements
<1> HIDE DEF r
<1>2. \A i \in DOMAIN r : i \in DOMAIN q \/ i = Len(q) + 1
  BY <1>1
<1>3. With(b, r) => With(b, q) \/ f.body = b
  BY <1>1, <1>2, Zenon DEF With
<1>4. QED
  BY <1>3 DEF r

LEMMA BodiesShift ==
  ASSUME NEW q \in Seq(C!Frame), q # << >>, NEW b
  PROVE  /\ With(b, Tail(q)) => With(b, q)
         /\ Head(q).body = b => With(b, q)
<1> DEFINE r == Tail(q)
<1>1. /\ \A i \in DOMAIN r : r[i] = q[i + 1] /\ i + 1 \in DOMAIN q
      /\ Head(q) = q[1] /\ 1 \in DOMAIN q
  BY TailElements
<1> HIDE DEF r
<1>2. (With(b, r) => With(b, q)) /\ (Head(q).body = b => With(b, q))
  BY <1>1, Zenon DEF With
<1>3. QED
  BY <1>2 DEF r

-----------------------------------------------------------------------------
(* The abstract state and its steps *)

LEMMA AbstractEnds ==
  /\ Promise!Ends = {"Client", "Server"}
  /\ Promise!Other("Client") = "Server" /\ Promise!Other("Server") = "Client"
<1>1. Promise!Ends = {"Client", "Server"}
  BY DEF Promise!Ends
<1>2. ASSUME NEW x \in {"Client", "Server"}, NEW y \in {"Client", "Server"}, x # y
      PROVE  Promise!Other(x) = y
  <2>1. \E o \in Promise!Ends : o # x
    BY <1>1, <1>2
  <2>2. Promise!Other(x) \in Promise!Ends /\ Promise!Other(x) # x
    BY <2>1, Zenon DEF Promise!Other
  <2>3. QED
    BY <1>1, <1>2, <2>2
<1>3. QED
  BY <1>1, <1>2

LEMMA AbstractState ==
  /\ saidEnds \subseteq {"Client", "Server"}
  /\ "Client" \in saidEnds <=> c_state # "Active"
  /\ "Server" \in saidEnds <=> s_state # "Active"
  /\ heardEnds \subseteq {"Client", "Server"}
  /\ "Client" \in heardEnds <=> HeardClose(c_handed)
  /\ "Server" \in heardEnds <=> HeardClose(s_handed)
  /\ doneEnds \subseteq {"Client", "Server"}
  /\ "Client" \in doneEnds <=> c_result = "Closed"
  /\ "Server" \in doneEnds <=> s_result = "Closed"
<1>1. \A e \in {"Client", "Server"} :
        HeardClose(IF e = "Client" THEN c_handed ELSE s_handed)
          <=> (e = "Client" /\ HeardClose(c_handed)) \/ (e = "Server" /\ HeardClose(s_handed))
  <2>1. "Client" # "Server"
    OBVIOUS
  <2>2. QED
    BY <2>1, Zenon
<1>2. QED
  BY <1>1 DEF saidEnds, heardEnds, doneEnds

LEMMA AbstractStateNext ==
  /\ saidEnds' \subseteq {"Client", "Server"}
  /\ "Client" \in saidEnds' <=> c_state' # "Active"
  /\ "Server" \in saidEnds' <=> s_state' # "Active"
  /\ heardEnds' \subseteq {"Client", "Server"}
  /\ "Client" \in heardEnds' <=> HeardClose(c_handed')
  /\ "Server" \in heardEnds' <=> HeardClose(s_handed')
  /\ doneEnds' \subseteq {"Client", "Server"}
  /\ "Client" \in doneEnds' <=> c_result' = "Closed"
  /\ "Server" \in doneEnds' <=> s_result' = "Closed"
<1>1. \A e \in {"Client", "Server"} :
        HeardClose(IF e = "Client" THEN c_handed' ELSE s_handed')
          <=> (e = "Client" /\ HeardClose(c_handed')) \/ (e = "Server" /\ HeardClose(s_handed'))
  <2>1. "Client" # "Server"
    OBVIOUS
  <2>2. QED
    BY <2>1, Zenon
<1>2. QED
  BY <1>1 DEF saidEnds, heardEnds, doneEnds

(* A step that the promise allows *)
Kept == [Promise!Next]_<<saidEnds, heardEnds, doneEnds>>

(* What an end has said, heard and been told, before and after. *)
ClientSame ==
  /\ c_state' = "Active" <=> c_state = "Active"
  /\ HeardClose(c_handed') <=> HeardClose(c_handed)
  /\ c_result' = "Closed" <=> c_result = "Closed"

ServerSame ==
  /\ s_state' = "Active" <=> s_state = "Active"
  /\ HeardClose(s_handed') <=> HeardClose(s_handed)
  /\ s_result' = "Closed" <=> s_result = "Closed"

LEMMA TwoEnds ==
  ASSUME NEW A, A \subseteq {"Client", "Server"}, NEW B, B \subseteq {"Client", "Server"},
         NEW e \in {"Client", "Server"}, NEW o \in {"Client", "Server"}, e # o,
         o \in A <=> o \in B
  PROVE  /\ (e \in A <=> e \in B) => A = B
         /\ e \in A => A = B \cup {e}
<1>1. \A x \in {"Client", "Server"} : x = e \/ x = o
  OBVIOUS
<1>2. \A x : (x \in A => x = e \/ x = o) /\ (x \in B => x = e \/ x = o)
  BY <1>1
<1>3. (e \in A <=> e \in B) => A = B
  BY <1>2
<1>4. e \in A => A = B \cup {e}
  BY <1>2
<1>5. QED
  BY <1>3, <1>4

LEMMA AbstractQuiet ==
  ASSUME ClientSame, ServerSame
  PROVE  Kept
<1>1. /\ "Client" \in saidEnds' <=> "Client" \in saidEnds
      /\ "Server" \in saidEnds' <=> "Server" \in saidEnds
      /\ "Client" \in heardEnds' <=> "Client" \in heardEnds
      /\ "Server" \in heardEnds' <=> "Server" \in heardEnds
      /\ "Client" \in doneEnds' <=> "Client" \in doneEnds
      /\ "Server" \in doneEnds' <=> "Server" \in doneEnds
  BY AbstractState, AbstractStateNext, Zenon DEF ClientSame, ServerSame
<1>2. saidEnds' = saidEnds /\ heardEnds' = heardEnds /\ doneEnds' = doneEnds
  BY <1>1, AbstractState, AbstractStateNext, TwoEnds
<1>3. QED
  BY <1>2 DEF Kept

(* An end says that it ends, ... *)
LEMMA ClientSays ==
  ASSUME ServerSame, c_state = "Active", c_state' # "Active",
         HeardClose(c_handed') <=> HeardClose(c_handed),
         c_result' = "Closed" <=> c_result = "Closed"
  PROVE  Kept
<1>1. /\ "Client" \notin saidEnds
      /\ "Client" \in saidEnds'
      /\ "Client" \in heardEnds' <=> "Client" \in heardEnds
      /\ "Client" \in doneEnds' <=> "Client" \in doneEnds
      /\ "Server" \in saidEnds' <=> "Server" \in saidEnds
      /\ "Server" \in heardEnds' <=> "Server" \in heardEnds
      /\ "Server" \in doneEnds' <=> "Server" \in doneEnds
  BY AbstractState, AbstractStateNext, Zenon DEF ServerSame
<1>2. saidEnds' = saidEnds \cup {"Client"} /\ heardEnds' = heardEnds /\ doneEnds' = doneEnds
  BY <1>1, AbstractState, AbstractStateNext, TwoEnds
<1>3. Promise!Say("Client")
  BY <1>1, <1>2, AbstractEnds DEF Promise!Say
<1>4. QED
  BY <1>3, AbstractEnds DEF Kept, Promise!Next

LEMMA ServerSays ==
  ASSUME ClientSame, s_state = "Active", s_state' # "Active",
         HeardClose(s_handed') <=> HeardClose(s_handed),
         s_result' = "Closed" <=> s_result = "Closed"
  PROVE  Kept
<1>1. /\ "Server" \notin saidEnds
      /\ "Server" \in saidEnds'
      /\ "Server" \in heardEnds' <=> "Server" \in heardEnds
      /\ "Server" \in doneEnds' <=> "Server" \in doneEnds
      /\ "Client" \in saidEnds' <=> "Client" \in saidEnds
      /\ "Client" \in heardEnds' <=> "Client" \in heardEnds
      /\ "Client" \in doneEnds' <=> "Client" \in doneEnds
  BY AbstractState, AbstractStateNext, Zenon DEF ClientSame
<1>2. saidEnds' = saidEnds \cup {"Server"} /\ heardEnds' = heardEnds /\ doneEnds' = doneEnds
  BY <1>1, AbstractState, AbstractStateNext, TwoEnds
<1>3. Promise!Say("Server")
  BY <1>1, <1>2, AbstractEnds DEF Promise!Say
<1>4. QED
  BY <1>3, AbstractEnds DEF Kept, Promise!Next

(* ... hears that the other does, and so says it too, ... *)
LEMMA ClientHears ==
  ASSUME ServerSame, s_state # "Active", c_state' # "Active",
         ~HeardClose(c_handed),
         HeardClose(c_handed'),
         c_result' = "Closed" <=> c_result = "Closed"
  PROVE  Kept
<1>1. /\ "Server" \in saidEnds
      /\ "Client" \notin heardEnds
      /\ "Client" \in saidEnds'
      /\ "Client" \in heardEnds'
      /\ "Client" \in doneEnds' <=> "Client" \in doneEnds
      /\ "Server" \in saidEnds' <=> "Server" \in saidEnds
      /\ "Server" \in heardEnds' <=> "Server" \in heardEnds
      /\ "Server" \in doneEnds' <=> "Server" \in doneEnds
  BY AbstractState, AbstractStateNext, Zenon DEF ServerSame
<1>2. saidEnds' = saidEnds \cup {"Client"} /\ heardEnds' = heardEnds \cup {"Client"} /\ doneEnds' = doneEnds
  BY <1>1, AbstractState, AbstractStateNext, TwoEnds
<1>3. Promise!Hear("Client")
  BY <1>1, <1>2, AbstractEnds DEF Promise!Hear
<1>4. QED
  BY <1>3, AbstractEnds DEF Kept, Promise!Next

LEMMA ServerHears ==
  ASSUME ClientSame, c_state # "Active", s_state' # "Active",
         ~HeardClose(s_handed),
         HeardClose(s_handed'),
         s_result' = "Closed" <=> s_result = "Closed"
  PROVE  Kept
<1>1. /\ "Client" \in saidEnds
      /\ "Server" \notin heardEnds
      /\ "Server" \in saidEnds'
      /\ "Server" \in heardEnds'
      /\ "Server" \in doneEnds' <=> "Server" \in doneEnds
      /\ "Client" \in saidEnds' <=> "Client" \in saidEnds
      /\ "Client" \in heardEnds' <=> "Client" \in heardEnds
      /\ "Client" \in doneEnds' <=> "Client" \in doneEnds
  BY AbstractState, AbstractStateNext, Zenon DEF ClientSame
<1>2. saidEnds' = saidEnds \cup {"Server"} /\ heardEnds' = heardEnds \cup {"Server"} /\ doneEnds' = doneEnds
  BY <1>1, AbstractState, AbstractStateNext, TwoEnds
<1>3. Promise!Hear("Server")
  BY <1>1, <1>2, AbstractEnds DEF Promise!Hear
<1>4. QED
  BY <1>3, AbstractEnds DEF Kept, Promise!Next

(* ... and is told that the connection is closed, the client after the    *)
(* server. *)
LEMMA ClientEnds ==
  ASSUME ServerSame, c_state # "Active", c_state' # "Active",
         HeardClose(c_handed),
         HeardClose(c_handed'),
         c_result # "Closed",
         c_result' = "Closed",
         s_result = "Closed"
  PROVE  Kept
<1>1. /\ "Client" \in saidEnds
      /\ "Client" \in heardEnds
      /\ "Client" \notin doneEnds
      /\ "Client" \in saidEnds'
      /\ "Client" \in heardEnds'
      /\ "Client" \in doneEnds'
      /\ "Server" \in doneEnds
      /\ "Server" \in saidEnds' <=> "Server" \in saidEnds
      /\ "Server" \in heardEnds' <=> "Server" \in heardEnds
      /\ "Server" \in doneEnds' <=> "Server" \in doneEnds
  BY AbstractState, AbstractStateNext, Zenon DEF ServerSame
<1>2. saidEnds' = saidEnds /\ heardEnds' = heardEnds /\ doneEnds' = doneEnds \cup {"Client"}
  BY <1>1, AbstractState, AbstractStateNext, TwoEnds
<1>3. Promise!End("Client")
  BY <1>1, <1>2, AbstractEnds DEF Promise!End
<1>4. QED
  BY <1>3, AbstractEnds DEF Kept, Promise!Next

LEMMA ServerEnds ==
  ASSUME ClientSame, s_state # "Active", s_state' # "Active",
         HeardClose(s_handed),
         HeardClose(s_handed'),
         s_result # "Closed",
         s_result' = "Closed"
  PROVE  Kept
<1>1. /\ "Server" \in saidEnds
      /\ "Server" \in heardEnds
      /\ "Server" \notin doneEnds
      /\ "Server" \in saidEnds'
      /\ "Server" \in heardEnds'
      /\ "Server" \in doneEnds'
      /\ "Client" \in saidEnds' <=> "Client" \in saidEnds
      /\ "Client" \in heardEnds' <=> "Client" \in heardEnds
      /\ "Client" \in doneEnds' <=> "Client" \in doneEnds
  BY AbstractState, AbstractStateNext, Zenon DEF ClientSame
<1>2. saidEnds' = saidEnds /\ heardEnds' = heardEnds /\ doneEnds' = doneEnds \cup {"Server"}
  BY <1>1, AbstractState, AbstractStateNext, TwoEnds
<1>3. Promise!End("Server")
  BY <1>1, <1>2, AbstractEnds DEF Promise!End
<1>4. QED
  BY <1>3, AbstractEnds DEF Kept, Promise!Next

-----------------------------------------------------------------------------
(* Steps of the client *)

LEMMA SentFrames ==
  ASSUME NEW op \in {"data", "ping", "pong"}, NEW n \in Nat, n >= 1
  PROVE  /\ C!Plain(op, n) \in C!Frame /\ Sendable(C!Plain(op, n))
         /\ ~IsClose(C!Plain(op, n)) /\ C!Plain(op, n).body = "bytes"
         /\ C!PongTo(n) \in C!Frame /\ Sendable(C!PongTo(n))
         /\ ~IsClose(C!PongTo(n)) /\ C!PongTo(n).body = "bytes"
         /\ S!Plain(op, n) = C!Plain(op, n) /\ S!PongTo(n) = C!PongTo(n)
  BY DEF C!Plain, C!PongTo, S!Plain, S!PongTo, C!Frame, C!Ops, C!Bodies, Sendable, IsClose

LEMMA SentCloses ==
  ASSUME NEW b \in {"empty", "bare", "allowed"}
  PROVE  /\ C!Close(b) \in C!Frame /\ Sendable(C!Close(b)) /\ IsClose(C!Close(b))
         /\ C!Close(b).body = b
         /\ C!CloseReply(b) \in C!Frame /\ Sendable(C!CloseReply(b)) /\ IsClose(C!CloseReply(b))
         /\ C!CloseReply(b).body = b
         /\ S!Close(b) = C!Close(b) /\ S!CloseReply(b) = C!CloseReply(b)
  BY DEF C!Plain, C!Close, C!CloseReply, S!Plain, S!Close, S!CloseReply,
         C!Frame, C!Ops, C!Bodies, Sendable, IsClose

LEMMA ClientMoves ==
  ASSUME CloseInv, UNCHANGED <<server, s_reset, nonblocking>>,
         c_state' \in C!States, to_server' \in Seq(C!Frame), to_client' \in Seq(C!Frame),
         c_out' \in Seq(C!Frame), c_handed' \in Seq(Seq(Nat)), c_unflushed' \in BOOLEAN,
         c_reset' \in BOOLEAN, c_pc' \in {"idle", "loop", "reading", "dropped"}, c_writes' \in Nat,
         c_reset' => c_pc' = "dropped" /\ s_pc = "dropped",
         ClientInv',
         Traffic(ToServer', c_state', HeardClose(s_handed)),
         Traffic(ToClient', s_state, HeardClose(c_handed')),
         \A b \in {"empty", "allowed"} :
           /\ With(b, ToServer') => With(b, ToServer) \/ (b = "empty" /\ b \in Closes)
           /\ With(b, ToClient') => With(b, ToClient)
  PROVE  CloseInv'
<1>1. UNCHANGED <<s_state, s_out, s_unflushed, s_incomplete, s_pc, s_result, s_handed, s_writes,
                  s_owes, s_reset, nonblocking>>
  BY DEF server
<1>2. CloseTypes'
  BY <1>1, Parts, SameFrames DEF CloseTypes
<1>3. Connected'
  BY <1>1, Parts DEF Connected
<1>4. ServerInv'
  BY <1>1, Parts DEF ServerInv
<1>5. BodiesInv'
  <2>1. BodiesInv
    BY Parts
  <2>2. HeardClose(s_handed)' <=> HeardClose(s_handed)
    BY <1>1
  <2>3. QED
    BY <2>1, <2>2 DEF BodiesInv
<1>6. Traffic(ToServer, c_state, HeardClose(s_handed))' /\ Traffic(ToClient, s_state, HeardClose(c_handed))'
  BY <1>1
<1>7. QED
  BY <1>2, <1>3, <1>4, <1>5, <1>6 DEF CloseInv

(* Nothing is queued and nothing read: what is on its way may be written.  *)
LEMMA ClientAlone ==
  ASSUME CloseInv, UNCHANGED <<server, s_reset, nonblocking, c_reset, c_state, c_handed,
                               c_writes, c_incomplete, to_client>>,
         to_server' \in Seq(C!Frame), c_out' \in Seq(C!Frame), to_server' \o c_out' = ToServer,
         c_unflushed' \in BOOLEAN,
         c_pc = "idle" => c_result = "Ok",
         c_pc # "dropped", c_pc' \in {"idle", "loop", "reading"},
         c_result' = c_result
  PROVE  CloseInv' /\ Kept
<1>1. UNCHANGED <<s_state, s_out, s_unflushed, s_incomplete, s_pc, s_result, s_handed>>
  BY DEF server
<1>2. c_result = "Ok"
  BY Parts DEF ClientInv
<1>3. ClientInv'
  <2>1. HeardClose(c_handed)' <=> HeardClose(c_handed)
    OBVIOUS
  <2>2. QED
    BY <1>1, <1>2, <2>1, Parts DEF ClientInv
<1>4. ToServer' = ToServer /\ ToClient' = ToClient
  BY <1>1 DEF ToServer, ToClient
<1>5. Traffic(ToServer', c_state', HeardClose(s_handed)) /\ Traffic(ToClient', s_state, HeardClose(c_handed'))
  BY <1>1, <1>4, Parts
<1>6. c_reset' => c_pc' = "dropped" /\ s_pc = "dropped"
  BY Parts DEF Connected
<1>7. CloseInv'
  BY <1>2, <1>3, <1>4, <1>5, <1>6, Parts, ClientMoves
<1>8. ClientSame /\ ServerSame
  BY <1>1 DEF ClientSame, ServerSame
<1>9. QED
  BY <1>7, <1>8, AbstractQuiet

LEMMA ClientWritesStep ==
  ASSUME CloseInv, ClientWrites
  PROVE  CloseInv' /\ Kept
<1>1. PICK op \in Written : C!Write(op, c_writes + 1)
  BY DEF ClientWrites
<1>2. /\ UNCHANGED <<server, resets>> /\ c_state = "Active"
      /\ c_writes' = c_writes + 1
  BY DEF ClientWrites, C!IsActive
<1>3. /\ c_pc = "idle" /\ c_result \notin C!Fatal
      /\ UNCHANGED <<c_state, c_incomplete, c_pc, c_handed, to_client, nonblocking>>
      /\ C!WriteFrame(C!Plain(op, c_writes + 1), c_state, op # "pong" /\ c_unflushed)
  BY <1>1, <1>2 DEF C!Write, C!MayCall, C!IsActive, C!link
<1> DEFINE f == C!Plain(op, c_writes + 1)
<1>4. /\ f \in C!Frame /\ Sendable(f) /\ ~IsClose(f) /\ f.body = "bytes"
  BY <1>1, Parts, SentFrames DEF Written
<1> HIDE DEF f
<1>5. /\ to_server' \in Seq(C!Frame) /\ c_out' \in Seq(C!Frame)
      /\ to_server' \o c_out' = Append(ToServer, f)
      /\ c_result' = "Ok" /\ c_unflushed' \in BOOLEAN
  BY <1>3, <1>4, ClientWriteFrame DEF f
<1>6. /\ UNCHANGED <<s_state, s_out, s_unflushed, s_incomplete, s_pc, s_result, s_handed, c_reset, s_reset>>
  BY <1>2 DEF server, resets
<1>7. ToServer' = Append(ToServer, f) /\ ToClient' = ToClient
  BY <1>3, <1>5, <1>6 DEF ToServer, ToClient
<1>8. c_result = "Ok"
  BY <1>2, Parts DEF ClientInv
<1>9. ClientInv'
  <2>1. HeardClose(c_handed)' <=> HeardClose(c_handed)
    BY <1>3
  <2>2. QED
    BY <1>3, <1>5, <1>6, <1>8, <2>1, Parts DEF ClientInv
<1>10. Traffic(ToServer', c_state', HeardClose(s_handed)) /\ Traffic(ToClient', s_state, HeardClose(c_handed'))
  BY <1>2, <1>3, <1>4, <1>7, Parts, TrafficGrows
<1>11. ToServer \in Seq(C!Frame)
  BY Parts DEF Traffic
<1>12. \A b \in {"empty", "allowed"} :
           /\ With(b, ToServer') => With(b, ToServer) \/ (b = "empty" /\ b \in Closes)
           /\ With(b, ToClient') => With(b, ToClient)
  BY <1>4, <1>7, <1>11, BodiesGrow
<1>13. c_reset' => c_pc' = "dropped" /\ s_pc = "dropped"
  BY <1>3, <1>6, Parts DEF Connected
<1>14. CloseInv'
  BY <1>2, <1>3, <1>5, <1>6, <1>9, <1>10, <1>12, <1>13, Parts, ClientMoves
<1>15. ClientSame /\ ServerSame
  BY <1>3, <1>5, <1>6, <1>8 DEF ClientSame, ServerSame
<1>16. QED
  BY <1>14, <1>15, AbstractQuiet

LEMMA ClientClosesStep ==
  ASSUME CloseInv, ClientCloses
  PROVE  CloseInv' /\ Kept
<1>1. PICK b \in Closes : C!CloseCall(b)
  BY DEF ClientCloses
<1>2. /\ UNCHANGED <<server, resets, c_writes>> /\ c_state = "Active"
  BY DEF ClientCloses, C!IsActive
<1>3. /\ c_pc = "idle"
      /\ UNCHANGED <<c_incomplete, c_pc, c_handed, to_client, nonblocking>>
      /\ c_state' = "ClosedByUs" /\ C!WriteFrame(C!Close(b), "ClosedByUs", TRUE)
  BY <1>1, <1>2 DEF C!CloseCall, C!MayCall, C!IsActive, C!link
<1> DEFINE f == C!Close(b)
<1>4. /\ f \in C!Frame /\ Sendable(f) /\ IsClose(f) /\ f.body = b /\ b \in {"empty", "bare"}
  BY SentCloses
<1> HIDE DEF f
<1>5. /\ to_server' \in Seq(C!Frame) /\ c_out' \in Seq(C!Frame)
      /\ to_server' \o c_out' = Append(ToServer, f)
      /\ c_result' = "Ok" /\ c_unflushed' \in BOOLEAN
  BY <1>3, <1>4, ClientWriteFrame DEF f
<1>6. /\ UNCHANGED <<s_state, s_out, s_unflushed, s_incomplete, s_pc, s_result, s_handed, c_reset, s_reset>>
  BY <1>2 DEF server, resets
<1>7. ToServer' = Append(ToServer, f) /\ ToClient' = ToClient
  BY <1>3, <1>5, <1>6 DEF ToServer, ToClient
<1>8. c_result = "Ok" /\ ~HeardClose(c_handed)
  BY <1>2, Parts DEF ClientInv, Heard
<1>9. ClientInv'
  <2>1. HeardClose(c_handed)' <=> HeardClose(c_handed)
    BY <1>3
  <2>2. QED
    BY <1>3, <1>5, <1>6, <1>8, <2>1, Parts DEF ClientInv, Heard
<1>10. Traffic(ToServer', c_state', HeardClose(s_handed)) /\ Traffic(ToClient', s_state, HeardClose(c_handed'))
  <2>1. Traffic(ToServer, "Active", HeardClose(s_handed)) /\ c_state' # "Active"
    BY <1>2, <1>3, Parts
  <2>2. Traffic(Append(ToServer, f), c_state', HeardClose(s_handed))
    BY <1>4, <2>1, Parts, TrafficGrows
  <2>3. QED
    BY <1>3, <1>7, <2>2, Parts
<1>11. ToServer \in Seq(C!Frame)
  BY Parts DEF Traffic
<1>12. \A x \in {"empty", "allowed"} :
           /\ With(x, ToServer') => With(x, ToServer) \/ (x = "empty" /\ x \in Closes)
           /\ With(x, ToClient') => With(x, ToClient)
  BY <1>4, <1>7, <1>11, BodiesGrow
<1>13. c_reset' => c_pc' = "dropped" /\ s_pc = "dropped"
  BY <1>3, <1>6, Parts DEF Connected
<1>14. c_state' \in C!States
  BY <1>3 DEF C!States
<1>15. CloseInv'
  BY <1>2, <1>3, <1>5, <1>6, <1>9, <1>10, <1>12, <1>13, <1>14, Parts, ClientMoves
<1>16. ServerSame
  BY <1>6 DEF ServerSame
<1>17. QED
  BY <1>2, <1>3, <1>5, <1>8, <1>15, <1>16, ClientSays

(* A call of read starts, or writes the replies that wait. *)
LEMMA ClientReadStarts ==
  ASSUME CloseInv, UNCHANGED <<server, s_reset, c_writes, c_reset>>, c_result # "Closed",
         C!Read
  PROVE  CloseInv' /\ Kept
<1>1. c_pc = "idle" /\ c_result \notin C!Fatal
  BY DEF C!Read, C!MayCall
<1>2. c_result = "Ok"
  BY <1>1, Parts DEF ClientInv, C!Fatal
<1>3. c_state # "Terminated"
  BY <1>2, Parts DEF ClientInv
<1>4. /\ c_pc' = "loop" /\ c_result' = c_result
      /\ UNCHANGED <<c_state, c_out, c_unflushed, c_incomplete, c_handed, to_client, to_server, nonblocking>>
  BY <1>3 DEF C!Read, C!stream, C!link
<1>5. to_server' \o c_out' = ToServer
  BY <1>4 DEF ToServer
<1>6. QED
  BY <1>1, <1>2, <1>4, <1>5, Parts, ClientAlone

LEMMA ClientFlushes ==
  ASSUME CloseInv, UNCHANGED <<server, s_reset, c_writes, c_reset>>, C!FlushReplies
  PROVE  CloseInv' /\ Kept
<1>1. PICK o \in C!WriteOut(c_out) :
        /\ C!Written(o)
        /\ c_unflushed' = (o.err # "Ok")
        /\ IF o.err = "Io" THEN C!Return("Io") ELSE c_pc' = "reading" /\ UNCHANGED c_result
  BY DEF C!FlushReplies
<1>2. c_pc = "loop" /\ UNCHANGED <<c_state, c_incomplete, c_handed, to_client, nonblocking>>
  BY DEF C!FlushReplies, C!link
<1>3. o = [rest |-> << >>, done |-> c_out, err |-> "Ok"]
  BY ClientWriteOut
<1>4. /\ c_out' = << >> /\ to_server' = ToServer /\ c_unflushed' \in BOOLEAN
      /\ c_pc' = "reading" /\ c_result' = c_result
  BY <1>1, <1>3 DEF C!Written, ToServer
<1>5. ToServer \in Seq(C!Frame) /\ ToServer \o << >> = ToServer /\ << >> \in Seq(C!Frame)
  BY Parts, QueueFlushed, EmptySeq DEF ToServer
<1>6. QED
  BY <1>2, <1>4, <1>5, ClientAlone

LEMMA ClientGoesOn ==
  ASSUME CloseInv, UNCHANGED <<server, s_reset, c_writes, c_reset>>, C!NothingToFlush
  PROVE  CloseInv' /\ Kept
<1>1. /\ c_pc = "loop" /\ c_pc' = "reading" /\ c_result' = c_result
      /\ UNCHANGED <<c_state, c_out, c_unflushed, c_incomplete, c_handed, to_client, to_server, nonblocking>>
  BY DEF C!NothingToFlush, C!stream, C!link
<1>2. to_server' \o c_out' = ToServer
  BY <1>1 DEF ToServer
<1>3. QED
  BY <1>1, <1>2, Parts, ClientAlone

(* A client that reads has not been told anything yet. *)
LEMMA ClientReading ==
  ASSUME CloseInv, c_pc = "reading"
  PROVE  /\ c_result = "Ok" /\ c_state # "Terminated" /\ c_incomplete = << >>
         /\ c_state \in {"Active", "ClosedByUs"} => ~HeardClose(c_handed)
         /\ c_state \notin {"Active", "ClosedByUs"} => to_client = << >> /\ HeardClose(c_handed)
<1>1. c_result = "Ok" /\ c_state # "Terminated" /\ c_incomplete = << >>
  BY Parts DEF ClientInv
<1>2. c_state \in {"Active", "ClosedByUs"} => ~HeardClose(c_handed)
  BY Parts DEF ClientInv, Heard
<1>3. c_state \notin {"Active", "ClosedByUs"} => HeardClose(c_handed)
  BY <1>1, Parts DEF ClientInv, Heard, C!States
<1>4. QED
  BY <1>1, <1>2, <1>3, ClientHeard

(* The frame that a client is about to read *)
LEMMA ClientHead ==
  ASSUME CloseInv, C!Arrival, C!CanRead
  PROVE  /\ c_pc = "reading" /\ to_client # << >> /\ Head(to_client).body # "empty"
         /\ c_state \in {"Active", "ClosedByUs"} /\ ~HeardClose(c_handed)
         /\ ToClient \in Seq(C!Frame) /\ ToClient # << >>
         /\ Head(ToClient) = Head(to_client)
         /\ Tail(to_client) \in Seq(C!Frame) /\ Tail(to_client) \o s_out = Tail(ToClient)
         /\ Head(to_client) \in C!Frame /\ Sendable(Head(to_client))
<1>1. c_pc = "reading" /\ to_client # << >> /\ Head(to_client).body # "empty"
      /\ c_state \in {"Active", "ClosedByUs"}
  BY DEF C!Arrival, C!Stuck, C!CanRead
<1>2. ~HeardClose(c_handed)
  BY <1>1, ClientReading
<1>3. /\ ToClient \in Seq(C!Frame) /\ ToClient # << >>
      /\ Head(ToClient) = Head(to_client)
      /\ Tail(to_client) \in Seq(C!Frame) /\ Tail(to_client) \o s_out = Tail(ToClient)
  BY <1>1, Parts, QueueShifts, SMTT(40) DEF ToClient
<1>4. Head(to_client) \in C!Frame /\ Sendable(Head(to_client))
  BY <1>3, Parts, TrafficShifts
<1>5. QED
  BY <1>1, <1>2, <1>3, <1>4

(* A message, a ping or a pong is handed over; a ping may be answered. *)
LEMMA ClientHands ==
  ASSUME CloseInv, C!Arrival, C!CanRead, UNCHANGED <<server, s_reset, nonblocking, c_reset, c_writes,
                                          c_incomplete, c_state>>,
         ~IsClose(Head(to_client)), to_client' = Tail(to_client),
         c_handed' = Append(c_handed, <<Head(to_client).id>>),
         c_pc' = "idle", c_result' = "Ok", c_unflushed' \in BOOLEAN,
         to_server' \in Seq(C!Frame), c_out' \in Seq(C!Frame),
         \/ to_server' \o c_out' = ToServer
         \/ /\ c_state = "Active"
            /\ \E g \in C!Frame : /\ Sendable(g) /\ ~IsClose(g) /\ g.body = "bytes"
                                  /\ to_server' \o c_out' = Append(ToServer, g)
  PROVE  CloseInv' /\ Kept
<1> DEFINE f == Head(to_client)
<1>1. /\ c_pc = "reading" /\ ~HeardClose(c_handed) /\ c_state \in {"Active", "ClosedByUs"}
      /\ ToClient \in Seq(C!Frame) /\ ToClient # << >>
      /\ Head(ToClient) = f /\ Tail(to_client) \in Seq(C!Frame)
      /\ Tail(to_client) \o s_out = Tail(ToClient)
      /\ f \in C!Frame /\ Sendable(f)
  BY ClientHead
<1>2. f.id \in Nat /\ f.id >= 1
  BY <1>1 DEF Sendable, IsClose, C!Frame
<1>3. c_handed' \in Seq(Seq(Nat)) /\ ~HeardClose(c_handed')
  BY <1>1, <1>2, Parts, HeardGrows
<1> HIDE DEF f
<1>4. UNCHANGED <<s_state, s_out, s_unflushed, s_incomplete, s_pc, s_result, s_handed>>
  BY DEF server
<1>5. c_result = "Ok" /\ c_state # "Terminated" /\ c_incomplete = << >>
  BY <1>1, ClientReading
<1>6. ClientInv'
  <2>1. ~HeardClose(c_handed)'
    BY <1>3
  <2>2. QED
    BY <1>1, <1>4, <1>5, <2>1 DEF ClientInv, Heard
<1>7. ToClient' = Tail(ToClient)
  BY <1>1, <1>4 DEF ToClient
<1>8. Traffic(ToClient', s_state, HeardClose(c_handed'))
  <2>1. Traffic(Tail(ToClient), s_state, HeardClose(c_handed))
    BY <1>1, Parts, TrafficShifts DEF f
  <2>2. HeardClose(c_handed) = FALSE /\ HeardClose(c_handed') = FALSE
    BY <1>1, <1>3, Zenon DEF HeardClose
  <2>3. QED
    BY <1>7, <2>1, <2>2, Zenon
<1>9. ToServer' = to_server' \o c_out'
  BY DEF ToServer
<1>10. Traffic(ToServer', c_state', HeardClose(s_handed))
       /\ \A b \in {"empty", "allowed"} : With(b, ToServer') => With(b, ToServer)
  <2>1. CASE to_server' \o c_out' = ToServer
    BY <1>9, <2>1, Parts
  <2>2. CASE \E g \in C!Frame : /\ Sendable(g) /\ ~IsClose(g) /\ g.body = "bytes"
                                /\ to_server' \o c_out' = Append(ToServer, g)
                                /\ c_state = "Active"
    <3>1. PICK g \in C!Frame : /\ Sendable(g) /\ ~IsClose(g) /\ g.body = "bytes"
                               /\ ToServer' = Append(ToServer, g) /\ c_state = "Active"
      BY <1>9, <2>2
    <3>2. ToServer \in Seq(C!Frame)
      BY Parts DEF Traffic
    <3>3. \A b \in {"empty", "allowed"} : With(b, ToServer') => With(b, ToServer)
      BY <3>1, <3>2, BodiesGrow
    <3>4. Traffic(ToServer', c_state, HeardClose(s_handed))
      BY <3>1, Parts, TrafficGrows
    <3>5. QED
      BY <3>3, <3>4
  <2>3. QED
    BY <2>1, <2>2
<1>11. \A b \in {"empty", "allowed"} : With(b, ToClient') => With(b, ToClient)
  BY <1>1, <1>7, BodiesShift
<1>12. c_reset' => c_pc' = "dropped" /\ s_pc = "dropped"
  BY <1>1, Parts DEF Connected
<1>13. CloseInv'
  BY <1>1, <1>3, <1>6, <1>8, <1>10, <1>11, <1>12, Parts, ClientMoves
<1>14. ClientSame /\ ServerSame
  BY <1>1, <1>3, <1>4, <1>5 DEF ClientSame, ServerSame
<1>15. QED
  BY <1>13, <1>14, AbstractQuiet

(* A reply that is queued *)
LEMMA ClientQueues ==
  ASSUME CloseInv, NEW g \in C!Frame, NEW s, NEW o \in C!BufferFrame(g, s), C!Written(o)
  PROVE  /\ o.err = "Ok" /\ to_server' \in Seq(C!Frame) /\ c_out' \in Seq(C!Frame)
         /\ to_server' \o c_out' = Append(ToServer, g)
<1>1. /\ o.err = "Ok" /\ c_out' = o.rest /\ to_server' = to_server \o o.done
      /\ \/ o.rest = Append(c_out, g) /\ o.done = << >>
         \/ o.rest = << >> /\ o.done = Append(c_out, g)
  BY ClientBuffer DEF C!Written
<1>2. to_server \in Seq(C!Frame) /\ c_out \in Seq(C!Frame) /\ to_server \o << >> = to_server
  BY Parts, ConcatEmptySeq
<1>3. /\ Append(c_out, g) \in Seq(C!Frame) /\ << >> \in Seq(C!Frame)
      /\ to_server \o Append(c_out, g) \in Seq(C!Frame)
      /\ to_server \o Append(c_out, g) = Append(ToServer, g)
      /\ (to_server \o Append(c_out, g)) \o << >> = Append(ToServer, g)
  BY <1>2, QueueGrows DEF ToServer
<1>4. QED
  BY <1>1, <1>2, <1>3, Zenon

(* The close frame of the server: the client's answer is queued, unless it *)
(* has said that it ends before. *)
LEMMA ClientHearsClose ==
  ASSUME CloseInv, C!Arrival, C!CanRead, UNCHANGED <<server, s_reset, nonblocking, c_reset, c_writes>>,
         IsClose(Head(to_client)), to_client' = Tail(to_client),
         C!ReceiveClose(Head(to_client))
  PROVE  CloseInv' /\ Kept
<1> DEFINE f == Head(to_client)
<1>1. /\ c_pc = "reading" /\ ~HeardClose(c_handed) /\ c_state \in {"Active", "ClosedByUs"}
      /\ ToClient \in Seq(C!Frame) /\ ToClient # << >>
      /\ Head(ToClient) = f /\ Tail(to_client) \in Seq(C!Frame)
      /\ Tail(to_client) \o s_out = Tail(ToClient)
      /\ f \in C!Frame /\ Sendable(f) /\ f.body # "empty"
  BY ClientHead
<1>2. f.id = 0 /\ f.body \in {"bare", "allowed"}
  BY <1>1 DEF Sendable, IsClose
<1>3. c_result = "Ok" /\ c_incomplete = << >>
  BY <1>1, ClientReading
<1>4. C!ReadBodies(f) = {f.body}
  BY DEF C!ReadBodies
<1>5. s_state # "Active" /\ Traffic(Tail(ToClient), s_state, TRUE)
  BY <1>1, Parts, TrafficShifts DEF f
<1>6. UNCHANGED <<s_state, s_out, s_unflushed, s_incomplete, s_pc, s_result, s_handed>>
  BY DEF server
<1> DEFINE d == Append(c_handed, <<f.id>>)
<1>7. d \in Seq(Seq(Nat)) /\ HeardClose(d)
  BY <1>2, Parts, HeardGrows
<1> HIDE DEF f, d
<1>8. ToClient' = Tail(ToClient)
  BY <1>1, <1>6 DEF ToClient
<1>9. \A b \in {"empty", "allowed"} : With(b, ToClient') => With(b, ToClient)
  BY <1>1, <1>8, BodiesShift
<1>10. c_reset' => c_pc' = "dropped" /\ s_pc = "dropped"
  BY <1>1, Parts DEF Connected
<1>11. /\ C!Hand(<<f.id>>) /\ C!Return("Ok") /\ c_incomplete' = c_incomplete
       /\ \/ /\ c_state = "ClosedByUs" /\ c_state' = "CloseAcknowledged"
             /\ UNCHANGED <<c_out, c_unflushed, to_server>>
          \/ /\ c_state = "Active" /\ c_state' = "ClosedByPeer"
             /\ c_unflushed' = TRUE
             /\ \E o \in C!BufferFrame(C!CloseReply("bare"), "ClosedByPeer") : C!Written(o)
  <2>1. PICK b \in C!ReadBodies(f) :
          IF b = "malformed" THEN C!Refuse("Protocol")
          ELSE IF c_state = "ClosedByUs"
          THEN /\ c_state' = "CloseAcknowledged"
               /\ C!Hand(<<f.id>>)
               /\ C!Return("Ok")
               /\ UNCHANGED <<c_out, c_unflushed, c_incomplete, to_server>>
          ELSE /\ c_state' = "ClosedByPeer"
               /\ \E o \in C!BufferFrame(C!CloseReply(IF b = "forbidden" THEN "allowed" ELSE b),
                                         "ClosedByPeer") :
                    /\ C!Written(o)
                    /\ IF o.err = "Ok"
                       THEN c_unflushed' = TRUE /\ C!Hand(<<f.id>>) /\ C!Return("Ok")
                       ELSE c_pc' = "panicked"
                            /\ UNCHANGED <<c_unflushed, c_handed, c_result>>
               /\ UNCHANGED c_incomplete
    BY Zenon DEF C!ReceiveClose, f
  <2>2. b = f.body /\ b # "malformed" /\ b # "forbidden"
    BY <1>2, <1>4, <2>1
  <2>3. CASE c_state = "ClosedByUs"
    BY <2>1, <2>2, <2>3
  <2>4. CASE c_state = "Active"
    <3>1. ~HeardClose(s_handed)
      BY <2>4, Parts DEF Traffic
    <3>2. f.body # "allowed"
      BY <1>1, <3>1, Parts, BodiesShift DEF BodiesInv
    <3>3. b = "bare"
      BY <1>2, <2>2, <3>2
    <3>4. /\ c_state' = "ClosedByPeer" /\ c_incomplete' = c_incomplete
          /\ \E o \in C!BufferFrame(C!CloseReply("bare"), "ClosedByPeer") :
                    /\ C!Written(o)
                    /\ IF o.err = "Ok"
                       THEN c_unflushed' = TRUE /\ C!Hand(<<f.id>>) /\ C!Return("Ok")
                       ELSE c_pc' = "panicked"
                            /\ UNCHANGED <<c_unflushed, c_handed, c_result>>
      <4>1. (IF b = "forbidden" THEN "allowed" ELSE b) = "bare"
        BY <3>3
      <4>2. c_state # "ClosedByUs"
        BY <2>4
      <4>3. QED
        BY <2>1, <2>2, <4>1, <4>2, Zenon
    <3>5. PICK o \in C!BufferFrame(C!CloseReply("bare"), "ClosedByPeer") :
                    /\ C!Written(o)
                    /\ IF o.err = "Ok"
                       THEN c_unflushed' = TRUE /\ C!Hand(<<f.id>>) /\ C!Return("Ok")
                       ELSE c_pc' = "panicked"
                            /\ UNCHANGED <<c_unflushed, c_handed, c_result>>
      BY <3>4, Zenon
    <3>6. o.err = "Ok"
      BY ClientBuffer
    <3>7. QED
      BY <2>4, <3>4, <3>5, <3>6, Zenon
  <2>5. QED
    BY <1>1, <2>3, <2>4
<1>12. c_handed' = d /\ c_pc' = "idle" /\ c_result' = "Ok" /\ c_incomplete' = << >>
  BY <1>3, <1>11 DEF C!Hand, C!Return, d
<1>13. /\ c_state' \in {"CloseAcknowledged", "ClosedByPeer"} /\ c_unflushed' \in BOOLEAN
       /\ to_server' \in Seq(C!Frame) /\ c_out' \in Seq(C!Frame)
       /\ Traffic(ToServer', c_state', HeardClose(s_handed))
       /\ \A b \in {"empty", "allowed"} : With(b, ToServer') => With(b, ToServer)
  <2>1. CASE c_state = "ClosedByUs"
    <3>1. c_state' = "CloseAcknowledged" /\ UNCHANGED <<c_out, c_unflushed, to_server>>
      BY <1>11, <2>1
    <3>2. ToServer' = ToServer
      BY <3>1 DEF ToServer
    <3>3. Traffic(ToServer, c_state', HeardClose(s_handed))
      <4>1. Traffic(ToServer, c_state, HeardClose(s_handed)) /\ HeardClose(s_handed) \in BOOLEAN
        BY Parts
      <4>2. c_state = "Active" <=> c_state' = "Active"
        BY <2>1, <3>1
      <4>3. QED
        BY <4>1, <4>2, TrafficSame
    <3>4. QED
      BY <3>1, <3>2, <3>3, Parts
  <2>2. CASE c_state = "Active"
    <3> DEFINE g == C!CloseReply("bare")
    <3>1. PICK o \in C!BufferFrame(g, "ClosedByPeer") : C!Written(o)
      BY <1>11, <2>2
    <3>2. c_state' = "ClosedByPeer" /\ c_unflushed' = TRUE
      BY <1>11, <2>2
    <3>3. g \in C!Frame /\ Sendable(g) /\ IsClose(g) /\ g.body = "bare"
      BY SentCloses
    <3> HIDE DEF g
    <3>4. to_server' \in Seq(C!Frame) /\ c_out' \in Seq(C!Frame) /\ ToServer' = Append(ToServer, g)
      BY <3>1, <3>3, ClientQueues DEF ToServer
    <3>5. Traffic(ToServer, "Active", HeardClose(s_handed))
      BY <2>2, Parts
    <3>6. Traffic(Append(ToServer, g), c_state', HeardClose(s_handed))
      BY <3>2, <3>3, <3>5, Parts, TrafficGrows
    <3>7. ToServer \in Seq(C!Frame)
      BY Parts DEF Traffic
    <3>8. \A b \in {"empty", "allowed"} : With(b, ToServer') => With(b, ToServer)
      BY <3>3, <3>4, <3>7, BodiesGrow
    <3>9. QED
      BY <3>2, <3>4, <3>6, <3>8
  <2>3. QED
    BY <1>1, <2>1, <2>2
<1>14. ClientInv'
  <2>1. HeardClose(c_handed)'
    BY <1>7, <1>12
  <2>2. QED
    BY <1>12, <1>13, <2>1 DEF ClientInv, Heard
<1>15. Traffic(ToClient', s_state, HeardClose(c_handed'))
  <2>1. HeardClose(c_handed') = TRUE
    BY <1>7, <1>12, Zenon DEF HeardClose
  <2>2. QED
    BY <1>5, <1>8, <2>1, Zenon
<1>16. c_state' \in C!States
  BY <1>13 DEF C!States
<1>17. CloseInv'
  BY <1>1, <1>7, <1>9, <1>10, <1>12, <1>13, <1>14, <1>15, <1>16, Parts, ClientMoves
<1>18. ServerSame
  BY <1>6 DEF ServerSame
<1>19. QED
  BY <1>1, <1>3, <1>5, <1>7, <1>12, <1>13, <1>17, <1>18, ClientHears

LEMMA ClientReceives ==
  ASSUME CloseInv, UNCHANGED <<server, s_reset, c_writes, c_reset>>, C!Receive
  PROVE  CloseInv' /\ Kept
<1> DEFINE f == Head(to_client)
<1>1. C!Arrival /\ C!CanRead /\ to_client' = Tail(to_client) /\ UNCHANGED nonblocking
  BY DEF C!Receive, C!link
<1>2. \/ f.op = "bad" /\ C!Refuse("Protocol")
      \/ f.op = "ping" /\ C!ReceivePing(f)
      \/ f.op = "pong" /\ C!ReceivePong(f)
      \/ f.op = "close" /\ C!ReceiveClose(f)
      \/ f.op \in {"data", "continue"} /\ C!ReceiveData(f)
  BY Zenon DEF C!Receive
<1>3. /\ c_pc = "reading" /\ f \in C!Frame /\ Sendable(f)
  BY <1>1, ClientHead
<1>4. f.op \in {"data", "ping", "pong", "close"} /\ f.id \in Nat
      /\ (f.op = "data" => f.fin) /\ (f.op # "close" => ~IsClose(f)) /\ (f.op = "close" => IsClose(f))
  BY <1>3 DEF Sendable, C!Frame, IsClose
<1>5. c_incomplete = << >>
  BY <1>3, ClientReading
<1> HIDE DEF f
<1>6. CASE f.op = "close" /\ C!ReceiveClose(f)
  BY <1>1, <1>4, <1>6, ClientHearsClose DEF f
<1>7. CASE f.op = "pong" /\ C!ReceivePong(f)
  <2>1. /\ c_handed' = Append(c_handed, <<f.id>>) /\ c_pc' = "idle" /\ c_result' = "Ok"
        /\ UNCHANGED <<c_state, c_out, c_unflushed, c_incomplete, to_server>>
    BY <1>7 DEF C!ReceivePong, C!Hand, C!Return
  <2>2. to_server' \o c_out' = ToServer
    BY <2>1 DEF ToServer
  <2>3. QED
    BY <1>1, <1>4, <1>7, <2>1, <2>2, Parts, ClientHands DEF f
<1>8. CASE f.op = "data" /\ C!ReceiveData(f)
  <2>1. Append(c_incomplete, f.id) = <<f.id>>
    BY <1>5
  <2>2. ~C!TooLong(<<f.id>>)
    BY DEF C!TooLong
  <2>3. ~((f.op = "continue") # (c_incomplete # << >>))
    BY <1>5, <1>8
  <2>4. /\ C!Hand(<<f.id>>) /\ C!Return("Ok") /\ c_incomplete' = << >>
        /\ UNCHANGED <<c_state, c_out, c_unflushed, to_server>>
    BY <1>4, <1>8, <2>1, <2>2, <2>3, Zenon DEF C!ReceiveData
  <2>5. to_server' \o c_out' = ToServer
    BY <2>4 DEF ToServer
  <2>6. c_handed' = Append(c_handed, <<f.id>>) /\ c_pc' = "idle" /\ c_result' = "Ok"
    BY <2>4 DEF C!Hand, C!Return
  <2>7. QED
    BY <1>1, <1>4, <1>5, <1>8, <2>4, <2>5, <2>6, Parts, ClientHands DEF f
<1>9. CASE f.op = "ping" /\ C!ReceivePing(f)
  <2>1. CASE c_state # "Active"
    <3>1. /\ c_handed' = Append(c_handed, <<f.id>>) /\ c_pc' = "idle" /\ c_result' = "Ok"
          /\ UNCHANGED <<c_state, c_out, c_unflushed, c_incomplete, to_server>>
      BY <1>9, <2>1 DEF C!ReceivePing, C!IsActive, C!Hand, C!Return
    <3>2. to_server' \o c_out' = ToServer
      BY <3>1 DEF ToServer
    <3>3. QED
      BY <1>1, <1>4, <1>9, <3>1, <3>2, Parts, ClientHands DEF f
  <2>2. CASE c_state = "Active"
    <3>1. PICK o \in C!BufferFrame(C!PongTo(f.id), c_state) :
            /\ C!Written(o)
            /\ C!Return(o.err)
            /\ IF o.err = "Ok"
               THEN c_unflushed' = TRUE /\ C!Hand(<<f.id>>)
               ELSE UNCHANGED <<c_unflushed, c_handed>>
            /\ UNCHANGED <<c_state, c_incomplete>>
      BY <1>9, <2>2, Zenon DEF C!ReceivePing, C!IsActive
    <3> DEFINE g == C!PongTo(f.id)
    <3>2. f.id >= 1
      BY <1>3, <1>9 DEF Sendable
    <3>3. g \in C!Frame /\ Sendable(g) /\ ~IsClose(g) /\ g.body = "bytes"
      BY <1>4, <3>2, SentFrames
    <3> HIDE DEF g
    <3>4. o.err = "Ok" /\ to_server' \in Seq(C!Frame) /\ c_out' \in Seq(C!Frame)
          /\ to_server' \o c_out' = Append(ToServer, g)
      BY <3>1, <3>3, ClientQueues DEF g
    <3>5. /\ c_unflushed' = TRUE /\ c_handed' = Append(c_handed, <<f.id>>)
          /\ c_pc' = "idle" /\ c_result' = "Ok" /\ UNCHANGED <<c_state, c_incomplete>>
      BY <3>1, <3>4 DEF C!Hand, C!Return
    <3>6. QED
      BY <1>1, <1>4, <1>9, <2>2, <3>3, <3>4, <3>5, ClientHands DEF f
  <2>3. QED
    BY <2>1, <2>2
<1>10. QED
  BY <1>2, <1>4, <1>6, <1>7, <1>8, <1>9

(* The stream ends when the server has let go. *)
LEMMA ClientSeesEnd ==
  ASSUME CloseInv, UNCHANGED <<server, s_reset, c_writes, c_reset>>, C!ReceiveEof
  PROVE  CloseInv' /\ Kept
<1>1. /\ c_pc = "reading" /\ s_pc = "dropped" /\ c_state' = "Terminated" /\ c_pc' = "idle"
      /\ c_result' = IF c_state \in {"ClosedByPeer", "CloseAcknowledged"} THEN "Closed" ELSE "NoClose"
      /\ UNCHANGED <<c_out, c_unflushed, c_incomplete, c_handed, to_client, to_server, nonblocking>>
  BY DEF C!ReceiveEof, C!Return, C!stream, C!link
<1>2. c_result = "Ok" /\ c_state # "Terminated" /\ c_incomplete = << >>
      /\ (c_state \in {"ClosedByPeer", "CloseAcknowledged"} => HeardClose(c_handed))
  BY <1>1, ClientReading
<1>3. UNCHANGED <<s_state, s_out, s_unflushed, s_incomplete, s_pc, s_result, s_handed>>
  BY DEF server
<1>4. s_result = "Closed" /\ s_state = "Terminated"
  BY <1>1, Parts DEF ServerInv
<1>5. c_state # "Active"
  BY <1>4, ServerHeard DEF Heard
<1>5a. c_state \notin {"ClosedByPeer", "CloseAcknowledged"} => "empty" \in Closes
  <2> SUFFICES ASSUME c_state \notin {"ClosedByPeer", "CloseAcknowledged"}
               PROVE  "empty" \in Closes
    OBVIOUS
  <2>1. ~HeardClose(c_handed)
    BY <1>2, Parts DEF ClientInv, Heard
  <2>2. ToClient # << >>
    BY <1>4, <2>1, Parts DEF Traffic, CloseEnds
  <2>3. s_out = << >>
    BY <1>4, Parts DEF ServerInv
  <2>4. to_client # << >>
    BY <2>2, <2>3, Parts, ConcatEqualIffEmpty DEF ToClient
  <2>5. Head(to_client).body = "empty"
    BY <2>4 DEF C!ReceiveEof, C!Stuck
  <2>6. Head(ToClient) = Head(to_client) /\ ToClient \in Seq(C!Frame)
    BY <2>4, Parts, QueueShifts DEF ToClient
  <2>7. With("empty", ToClient)
    BY <2>2, <2>5, <2>6, BodiesShift
  <2>8. QED
    BY <2>7, Parts DEF BodiesInv
<1>6. ClientInv'
  <2>1. HeardClose(c_handed)' <=> HeardClose(c_handed)
    BY <1>1
  <2>2. QED
    BY <1>1, <1>2, <1>3, <1>5a, <2>1 DEF ClientInv, Heard
<1>7. ToServer' = ToServer /\ ToClient' = ToClient
  BY <1>1, <1>3 DEF ToServer, ToClient
<1>8. Traffic(ToServer', c_state', HeardClose(s_handed)) /\ Traffic(ToClient', s_state, HeardClose(c_handed'))
  <2>1. Traffic(ToServer, c_state', HeardClose(s_handed))
    BY <1>1, <1>5, Parts, TrafficSame
  <2>2. QED
    BY <1>1, <1>7, <2>1, Parts
<1>9. c_reset' => c_pc' = "dropped" /\ s_pc = "dropped"
  BY <1>1, Parts DEF Connected
<1>10. c_state' \in C!States
  BY <1>1 DEF C!States
<1>11. CloseInv'
  BY <1>1, <1>6, <1>7, <1>8, <1>9, <1>10, Parts, ClientMoves
<1>12. ServerSame
  BY <1>3 DEF ServerSame
<1>13. CASE c_state \in {"ClosedByPeer", "CloseAcknowledged"}
  BY <1>1, <1>2, <1>4, <1>5, <1>11, <1>12, <1>13, ClientEnds
<1>14. CASE c_state \notin {"ClosedByPeer", "CloseAcknowledged"}
  <2>1. ClientSame
    BY <1>1, <1>2, <1>5, <1>14 DEF ClientSame
  <2>2. QED
    BY <1>11, <1>12, <2>1, AbstractQuiet
<1>15. QED
  BY <1>13, <1>14

(* A client that was told lets go. *)
LEMMA ClientLetsGo ==
  ASSUME CloseInv, UNCHANGED <<server, s_reset, c_writes>>, C!Drop, c_reset' = (to_client # << >>)
  PROVE  CloseInv' /\ Kept
<1>1. /\ c_pc = "idle" /\ c_pc' = "dropped" /\ c_result # "Ok"
      /\ UNCHANGED <<c_state, c_out, c_unflushed, c_incomplete, c_result, c_handed, to_client,
                     to_server, nonblocking>>
  BY DEF C!Drop, C!Fatal, C!stream, C!link
<1>2. UNCHANGED <<s_state, s_out, s_unflushed, s_incomplete, s_pc, s_result, s_handed>>
  BY DEF server
<1>3. s_pc = "dropped" /\ c_reset' \in BOOLEAN
  BY <1>1, Parts DEF ClientInv
<1>4. ClientInv'
  <2>1. HeardClose(c_handed)' <=> HeardClose(c_handed)
    BY <1>1
  <2>2. QED
    BY <1>1, <1>2, <1>3, <2>1, Parts DEF ClientInv
<1>5. ToServer' = ToServer /\ ToClient' = ToClient
  BY <1>1, <1>2 DEF ToServer, ToClient
<1>6. Traffic(ToServer', c_state', HeardClose(s_handed)) /\ Traffic(ToClient', s_state, HeardClose(c_handed'))
  BY <1>1, <1>5, Parts
<1>7. CloseInv'
  BY <1>1, <1>3, <1>4, <1>5, <1>6, Parts, ClientMoves
<1>8. ClientSame /\ ServerSame
  BY <1>1, <1>2 DEF ClientSame, ServerSame
<1>9. QED
  BY <1>7, <1>8, AbstractQuiet

LEMMA ClientReadsStep ==
  ASSUME CloseInv, ClientReads
  PROVE  CloseInv' /\ Kept
<1>1. UNCHANGED <<server, s_reset, c_writes>>
  BY DEF ClientReads
<1>2. CASE c_result # "Closed" /\ C!Read /\ UNCHANGED c_reset
  BY <1>1, <1>2, ClientReadStarts
<1>3. CASE C!Drop /\ c_reset' = (to_client # << >>)
  BY <1>1, <1>3, ClientLetsGo
<1>4. CASE C!ReadStep /\ UNCHANGED c_reset
  <2>1. CASE C!FlushReplies
    BY <1>1, <1>4, <2>1, ClientFlushes
  <2>2. ~C!EndConnection
    BY DEF C!EndConnection, C!ServerDone
  <2>3. CASE C!NothingToFlush
    BY <1>1, <1>4, <2>3, ClientGoesOn
  <2>4. ~C!ReceiveAfterClosing
    BY ClientReading DEF C!ReceiveAfterClosing, C!Arrival, C!CanRead, C!IsActive
  <2>5. CASE C!Receive
    BY <1>1, <1>4, <2>5, ClientReceives
  <2>6. CASE C!ReceiveEof
    BY <1>1, <1>4, <2>6, ClientSeesEnd
  <2>7. ~C!ReceiveReset /\ ~C!ReadWouldBlock
    BY Parts DEF C!ReceiveReset, C!ReadWouldBlock
  <2>8. QED
    BY <1>4, <2>1, <2>2, <2>3, <2>4, <2>5, <2>6, <2>7 DEF C!ReadStep
<1>5. QED
  BY <1>2, <1>3, <1>4 DEF ClientReads

-----------------------------------------------------------------------------
(* Steps of the server: until it has let go, the client works. *)

LEMMA ServerMoves ==
  ASSUME CloseInv, s_pc # "dropped", UNCHANGED <<client, c_reset, nonblocking>>,
         s_state' \in C!States, to_client' \in Seq(C!Frame), to_server' \in Seq(C!Frame),
         s_out' \in Seq(C!Frame), s_handed' \in Seq(Seq(Nat)), s_unflushed' \in BOOLEAN,
         s_owes' \in BOOLEAN, s_reset' = FALSE,
         s_pc' \in {"idle", "loop", "reading", "dropped"}, s_writes' \in Nat,
         ServerInv',
         Traffic(ToClient', s_state', HeardClose(c_handed)),
         Traffic(ToServer', c_state, HeardClose(s_handed')),
         HeardClose(s_handed) => HeardClose(s_handed'),
         With("allowed", ToClient') => With("allowed", ToClient) \/ HeardClose(s_handed'),
         With("empty", ToClient') => With("empty", ToClient) \/ "empty" \in Closes,
         \A b \in {"empty", "allowed"} : With(b, ToServer') => With(b, ToServer)
  PROVE  CloseInv'
<1>1. UNCHANGED <<c_state, c_out, c_unflushed, c_incomplete, c_pc, c_result, c_handed, c_writes,
                  c_reset, nonblocking>>
  BY DEF client
<1>2. CloseTypes'
  BY <1>1, Parts, SameFrames DEF CloseTypes
<1>3. Connected'
  BY <1>1, Parts, ServerWorks DEF Connected
<1>4. ClientInv'
  <2>1. HeardClose(c_handed)' <=> HeardClose(c_handed)
    BY <1>1
  <2>2. QED
    BY <1>1, <2>1, Parts, ServerWorks DEF ClientInv
<1>5. BodiesInv'
  <2>1. BodiesInv
    BY Parts
  <2>2. ~With("allowed", ToServer)'
    BY <2>1 DEF BodiesInv
  <2>3. With("allowed", ToClient)' => HeardClose(s_handed)'
    BY <2>1 DEF BodiesInv
  <2>4. With("empty", ToServer)' \/ With("empty", ToClient)' => "empty" \in Closes
    BY <2>1 DEF BodiesInv
  <2>5. QED
    BY <2>2, <2>3, <2>4 DEF BodiesInv
<1>6. Traffic(ToClient, s_state, HeardClose(c_handed))' /\ Traffic(ToServer, c_state, HeardClose(s_handed))'
  BY <1>1
<1>7. QED
  BY <1>2, <1>3, <1>4, <1>5, <1>6 DEF CloseInv

LEMMA ServerAlone ==
  ASSUME CloseInv, UNCHANGED <<client, c_reset, nonblocking, s_reset, s_state, s_handed,
                               s_writes, s_incomplete, to_server>>,
         to_client' \in Seq(C!Frame), s_out' \in Seq(C!Frame), to_client' \o s_out' = ToClient,
         s_unflushed' \in BOOLEAN, s_owes' \in BOOLEAN,
         s_state # "Active" => s_unflushed' \/ s_out' = << >>,
         s_pc = "idle" => s_result = "Ok",
         s_pc # "dropped", s_pc' \in {"idle", "loop", "reading"},
         s_result' = s_result
  PROVE  CloseInv' /\ Kept
<1>1. UNCHANGED <<c_state, c_out, c_unflushed, c_incomplete, c_pc, c_result, c_handed>>
  BY DEF client
<1>2. s_result = "Ok"
  BY Parts DEF ServerInv
<1>3. ServerInv'
  <2>1. HeardClose(s_handed)' <=> HeardClose(s_handed)
    OBVIOUS
  <2>2. QED
    BY <1>1, <1>2, <2>1, Parts DEF ServerInv
<1>4. ToClient' = ToClient /\ ToServer' = ToServer
  BY <1>1 DEF ToClient, ToServer
<1>5. Traffic(ToClient', s_state', HeardClose(c_handed)) /\ Traffic(ToServer', c_state, HeardClose(s_handed'))
  BY <1>1, <1>4, Parts
<1>6. s_reset' = FALSE
  BY Parts
<1>7. CloseInv'
  BY <1>2, <1>3, <1>4, <1>5, <1>6, Parts, ServerMoves
<1>8. ServerSame /\ ClientSame
  BY <1>1 DEF ServerSame, ClientSame
<1>9. QED
  BY <1>7, <1>8, AbstractQuiet

LEMMA ServerWritesStep ==
  ASSUME CloseInv, ServerWrites
  PROVE  CloseInv' /\ Kept
<1>1. PICK op \in Written : S!Write(op, s_writes + 1)
  BY DEF ServerWrites
<1>2. /\ UNCHANGED <<client, resets, s_owes>> /\ s_state = "Active"
      /\ s_writes' = s_writes + 1
  BY DEF ServerWrites, S!IsActive
<1>3. /\ s_pc = "idle" /\ s_result \notin S!Fatal
      /\ UNCHANGED <<s_state, s_incomplete, s_pc, s_handed, to_server, nonblocking>>
      /\ S!WriteFrame(S!Plain(op, s_writes + 1), s_state, op # "pong" /\ s_unflushed)
  BY <1>1, <1>2 DEF S!Write, S!MayCall, S!IsActive, S!link
<1> DEFINE f == S!Plain(op, s_writes + 1)
<1>4. /\ f \in C!Frame /\ Sendable(f) /\ ~IsClose(f) /\ f.body = "bytes"
  BY <1>1, Parts, SentFrames DEF Written
<1> HIDE DEF f
<1>5. /\ to_client' \in Seq(C!Frame) /\ s_out' \in Seq(C!Frame)
      /\ to_client' \o s_out' = Append(ToClient, f)
      /\ s_result' = "Ok" /\ s_unflushed' \in BOOLEAN
  BY <1>3, <1>4, ServerWriteFrame DEF f
<1>6. /\ UNCHANGED <<c_state, c_out, c_unflushed, c_incomplete, c_pc, c_result, c_handed, s_reset, c_reset>>
  BY <1>2 DEF client, resets
<1>7. ToClient' = Append(ToClient, f) /\ ToServer' = ToServer
  BY <1>3, <1>5, <1>6 DEF ToClient, ToServer
<1>8. s_result = "Ok"
  BY <1>2, Parts DEF ServerInv
<1>9. ServerInv'
  <2>1. HeardClose(s_handed)' <=> HeardClose(s_handed)
    BY <1>3
  <2>2. QED
    BY <1>2, <1>3, <1>5, <1>6, <1>8, <2>1, Parts DEF ServerInv
<1>10. Traffic(ToClient', s_state', HeardClose(c_handed)) /\ Traffic(ToServer', c_state, HeardClose(s_handed'))
  BY <1>2, <1>3, <1>4, <1>6, <1>7, Parts, TrafficGrows
<1>11. ToClient \in Seq(C!Frame)
  BY Parts DEF Traffic
<1>12. \A b \in {"empty", "allowed"} :
           /\ With(b, ToClient') => With(b, ToClient)
           /\ With(b, ToServer') => With(b, ToServer)
  BY <1>4, <1>7, <1>11, BodiesGrow
<1>13. s_reset' = FALSE
  BY <1>6, Parts
<1>14. CloseInv'
  BY <1>2, <1>3, <1>5, <1>6, <1>9, <1>10, <1>12, <1>13, Parts, ServerMoves
<1>15. ServerSame /\ ClientSame
  BY <1>3, <1>5, <1>6, <1>8 DEF ServerSame, ClientSame
<1>16. QED
  BY <1>14, <1>15, AbstractQuiet

LEMMA ServerClosesStep ==
  ASSUME CloseInv, ServerCloses
  PROVE  CloseInv' /\ Kept
<1>1. PICK b \in Closes : S!CloseCall(b)
  BY DEF ServerCloses
<1>2. /\ UNCHANGED <<client, resets, s_writes, s_owes>> /\ s_state = "Active"
  BY DEF ServerCloses, S!IsActive
<1>3. /\ s_pc = "idle"
      /\ UNCHANGED <<s_incomplete, s_pc, s_handed, to_server, nonblocking>>
      /\ s_state' = "ClosedByUs" /\ S!WriteFrame(S!Close(b), "ClosedByUs", TRUE)
  BY <1>1, <1>2 DEF S!CloseCall, S!MayCall, S!IsActive, S!link
<1> DEFINE f == S!Close(b)
<1>4. /\ f \in C!Frame /\ Sendable(f) /\ IsClose(f) /\ f.body = b /\ b \in {"empty", "bare"}
  BY SentCloses
<1> HIDE DEF f
<1>5. /\ to_client' \in Seq(C!Frame) /\ s_out' \in Seq(C!Frame) /\ s_out' = << >>
      /\ to_client' \o s_out' = Append(ToClient, f)
      /\ s_result' = "Ok" /\ s_unflushed' \in BOOLEAN
  BY <1>3, <1>4, ServerWriteFrame DEF f
<1>6. /\ UNCHANGED <<c_state, c_out, c_unflushed, c_incomplete, c_pc, c_result, c_handed, s_reset, c_reset>>
  BY <1>2 DEF client, resets
<1>7. ToClient' = Append(ToClient, f) /\ ToServer' = ToServer
  BY <1>3, <1>5, <1>6 DEF ToClient, ToServer
<1>8. s_result = "Ok" /\ ~HeardClose(s_handed)
  BY <1>2, Parts DEF ServerInv, Heard
<1>9. ServerInv'
  <2>1. HeardClose(s_handed)' <=> HeardClose(s_handed)
    BY <1>3
  <2>2. QED
    BY <1>3, <1>5, <1>6, <1>8, <2>1, Parts DEF ServerInv, Heard
<1>10. Traffic(ToClient', s_state', HeardClose(c_handed)) /\ Traffic(ToServer', c_state, HeardClose(s_handed'))
  <2>1. Traffic(ToClient, "Active", HeardClose(c_handed)) /\ s_state' # "Active"
    BY <1>2, <1>3, Parts
  <2>2. Traffic(Append(ToClient, f), s_state', HeardClose(c_handed))
    BY <1>4, <2>1, Parts, TrafficGrows
  <2>3. QED
    BY <1>3, <1>7, <2>2, Parts
<1>11. ToClient \in Seq(C!Frame)
  BY Parts DEF Traffic
<1>12. /\ With("allowed", ToClient') => With("allowed", ToClient)
       /\ With("empty", ToClient') => With("empty", ToClient) \/ "empty" \in Closes
       /\ \A x \in {"empty", "allowed"} : With(x, ToServer') => With(x, ToServer)
  BY <1>4, <1>7, <1>11, BodiesGrow
<1>13. s_reset' = FALSE
  BY <1>6, Parts
<1>14. s_state' \in C!States
  BY <1>3 DEF C!States
<1>15. CloseInv'
  BY <1>2, <1>3, <1>5, <1>6, <1>9, <1>10, <1>12, <1>13, <1>14, Parts, ServerMoves
<1>16. ClientSame
  BY <1>6 DEF ClientSame
<1>17. QED
  BY <1>2, <1>3, <1>5, <1>8, <1>15, <1>16, ServerSays

(* A call of read starts, or writes the replies that wait. *)
LEMMA ServerReadStarts ==
  ASSUME CloseInv, UNCHANGED <<client, c_reset, s_writes, s_reset>>, s_owes' \in BOOLEAN,
         s_result # "Closed", S!Read
  PROVE  CloseInv' /\ Kept
<1>1. s_pc = "idle" /\ s_result \notin S!Fatal
  BY DEF S!Read, S!MayCall
<1>2. s_result = "Ok"
  BY <1>1, Parts DEF ServerInv, S!Fatal
<1>3. s_state # "Terminated"
  BY <1>2, Parts DEF ServerInv
<1>4. /\ s_pc' = "loop" /\ s_result' = s_result
      /\ UNCHANGED <<s_state, s_out, s_unflushed, s_incomplete, s_handed, to_server, to_client, nonblocking>>
  BY <1>3 DEF S!Read, S!stream, S!link
<1>5. to_client' \o s_out' = ToClient
  BY <1>4 DEF ToClient
<1>6. s_state # "Active" => s_unflushed' \/ s_out' = << >>
  BY <1>4, Parts DEF ServerInv
<1>7. QED
  BY <1>1, <1>2, <1>4, <1>5, <1>6, Parts, ServerAlone

LEMMA ServerWritesReplies ==
  ASSUME CloseInv, UNCHANGED <<client, c_reset, s_writes, s_reset, s_owes>>, S!FlushReplies
  PROVE  CloseInv' /\ Kept
<1>1. PICK o \in S!WriteOut(s_out) :
        /\ S!Written(o)
        /\ s_unflushed' = (o.err # "Ok")
        /\ IF o.err = "Io" THEN S!Return("Io") ELSE s_pc' = "reading" /\ UNCHANGED s_result
  BY DEF S!FlushReplies
<1>2. s_pc = "loop" /\ UNCHANGED <<s_state, s_incomplete, s_handed, to_server, nonblocking>>
  BY DEF S!FlushReplies, S!link
<1>3. o = [rest |-> << >>, done |-> s_out, err |-> "Ok"]
  BY <1>2, ServerWriteOut
<1>4. /\ s_out' = << >> /\ to_client' = ToClient /\ s_unflushed' \in BOOLEAN
      /\ s_pc' = "reading" /\ s_result' = s_result
  BY <1>1, <1>3 DEF S!Written, ToClient
<1>5. ToClient \in Seq(C!Frame) /\ ToClient \o << >> = ToClient /\ << >> \in Seq(C!Frame)
  BY Parts, QueueFlushed, EmptySeq DEF ToClient
<1>6. QED
  BY <1>2, <1>4, <1>5, Parts, ServerAlone

(* A flush that the user asks for does so too. *)
LEMMA ServerFlushStep ==
  ASSUME CloseInv, ServerFlush
  PROVE  CloseInv' /\ Kept
<1>1. /\ UNCHANGED <<client, c_reset, s_writes, s_reset>>
      /\ s_result # "Closed" /\ S!Flush /\ s_owes' = FALSE
  BY DEF ServerFlush
<1>2. PICK o \in S!WriteOut(s_out) :
        /\ S!Written(o)
        /\ s_result' = o.err
        /\ s_unflushed' = (s_unflushed /\ o.err # "Ok")
  BY <1>1 DEF S!Flush
<1>3. s_pc = "idle" /\ UNCHANGED <<s_state, s_incomplete, s_pc, s_handed, to_server, nonblocking>>
  BY <1>1 DEF S!Flush, S!MayCall, S!link
<1>4. s_result = "Ok"
  BY <1>1, Parts DEF ServerInv
<1>5. o = [rest |-> << >>, done |-> s_out, err |-> "Ok"]
  BY <1>3, ServerWriteOut
<1>6. /\ s_out' = << >> /\ to_client' = ToClient /\ s_unflushed' \in BOOLEAN
      /\ s_result' = s_result
  BY <1>2, <1>4, <1>5 DEF S!Written, ToClient
<1>7. ToClient \in Seq(C!Frame) /\ ToClient \o << >> = ToClient /\ << >> \in Seq(C!Frame)
  BY Parts, QueueFlushed, EmptySeq DEF ToClient
<1>8. QED
  BY <1>1, <1>3, <1>4, <1>6, <1>7, ServerAlone

LEMMA ServerGoesOn ==
  ASSUME CloseInv, UNCHANGED <<client, c_reset, s_writes, s_reset, s_owes>>, S!NothingToFlush
  PROVE  CloseInv' /\ Kept
<1>1. /\ s_pc = "loop" /\ s_pc' = "reading" /\ s_result' = s_result
      /\ UNCHANGED <<s_state, s_out, s_unflushed, s_incomplete, s_handed, to_server, to_client, nonblocking>>
  BY DEF S!NothingToFlush, S!stream, S!link
<1>2. to_client' \o s_out' = ToClient
  BY <1>1 DEF ToClient
<1>3. s_state # "Active" => s_unflushed' \/ s_out' = << >>
  BY <1>1, Parts DEF ServerInv
<1>4. QED
  BY <1>1, <1>2, <1>3, Parts, ServerAlone

(* A server whose replies are all written, and which has nothing to read, *)
(* is told that the connection is closed. *)
LEMMA ServerIsTold ==
  ASSUME CloseInv, UNCHANGED <<client, c_reset, s_writes, s_reset, s_owes>>, S!EndConnection
  PROVE  CloseInv' /\ Kept
<1>1. /\ s_pc = "loop" /\ ~s_unflushed /\ s_state \notin {"Active", "ClosedByUs"}
      /\ s_state' = "Terminated" /\ s_pc' = "idle" /\ s_result' = "Closed"
      /\ UNCHANGED <<s_out, s_unflushed, s_incomplete, s_handed, to_server, to_client, nonblocking>>
  BY DEF S!EndConnection, S!ServerDone, S!CanRead, S!Return, S!stream, S!link
<1>2. s_result = "Ok" /\ s_out = << >> /\ HeardClose(s_handed) /\ s_incomplete = << >>
  BY <1>1, Parts DEF ServerInv, Heard, C!States
<1>3. UNCHANGED <<c_state, c_out, c_unflushed, c_incomplete, c_pc, c_result, c_handed>>
  BY DEF client
<1>4. ServerInv'
  <2>1. HeardClose(s_handed)' <=> HeardClose(s_handed)
    BY <1>1
  <2>2. QED
    BY <1>1, <1>2, <2>1 DEF ServerInv, Heard
<1>5. ToClient' = ToClient /\ ToServer' = ToServer
  BY <1>1, <1>3 DEF ToClient, ToServer
<1>6. Traffic(ToClient', s_state', HeardClose(c_handed)) /\ Traffic(ToServer', c_state, HeardClose(s_handed'))
  <2>1. Traffic(ToClient, s_state', HeardClose(c_handed))
    BY <1>1, Parts, TrafficSame
  <2>2. QED
    BY <1>1, <1>5, <2>1, Parts
<1>7. s_state' \in C!States
  BY <1>1 DEF C!States
<1>8. s_reset' = FALSE
  BY Parts
<1>9. CloseInv'
  BY <1>1, <1>4, <1>5, <1>6, <1>7, <1>8, Parts, ServerMoves
<1>10. ClientSame
  BY <1>3 DEF ClientSame
<1>11. QED
  BY <1>1, <1>2, <1>9, <1>10, ServerEnds

(* A server that reads has not been told anything yet. *)
LEMMA ServerReading ==
  ASSUME CloseInv, s_pc = "reading"
  PROVE  /\ s_result = "Ok" /\ s_state # "Terminated" /\ s_incomplete = << >>
         /\ s_state \in {"Active", "ClosedByUs"} => ~HeardClose(s_handed)
         /\ s_state \notin {"Active", "ClosedByUs"} => to_server = << >> /\ HeardClose(s_handed)
<1>1. s_result = "Ok" /\ s_state # "Terminated" /\ s_incomplete = << >>
  BY Parts DEF ServerInv
<1>2. s_state \in {"Active", "ClosedByUs"} => ~HeardClose(s_handed)
  BY Parts DEF ServerInv, Heard
<1>3. s_state \notin {"Active", "ClosedByUs"} => HeardClose(s_handed)
  BY <1>1, Parts DEF ServerInv, Heard, C!States
<1>4. s_state \notin {"Active", "ClosedByUs"} => s_state \in Heard
  BY <1>1, Parts DEF Heard, C!States
<1>5. s_state \notin {"Active", "ClosedByUs"} => to_server = << >>
  BY <1>4, ServerHeard
<1>6. QED
  BY <1>1, <1>2, <1>3, <1>5

(* The frame that a server is about to read *)
LEMMA ServerHead ==
  ASSUME CloseInv, S!Arrival, S!CanRead
  PROVE  /\ s_pc = "reading" /\ to_server # << >> /\ Head(to_server).body # "empty"
         /\ s_state \in {"Active", "ClosedByUs"} /\ ~HeardClose(s_handed)
         /\ ToServer \in Seq(C!Frame) /\ ToServer # << >>
         /\ Head(ToServer) = Head(to_server)
         /\ Tail(to_server) \in Seq(C!Frame) /\ Tail(to_server) \o c_out = Tail(ToServer)
         /\ Head(to_server) \in C!Frame /\ Sendable(Head(to_server))
<1>1. s_pc = "reading" /\ to_server # << >> /\ Head(to_server).body # "empty"
      /\ s_state \in {"Active", "ClosedByUs"}
  BY DEF S!Arrival, S!Stuck, S!CanRead
<1>2. ~HeardClose(s_handed)
  BY <1>1, ServerReading
<1>3. /\ ToServer \in Seq(C!Frame) /\ ToServer # << >>
      /\ Head(ToServer) = Head(to_server)
      /\ Tail(to_server) \in Seq(C!Frame) /\ Tail(to_server) \o c_out = Tail(ToServer)
  <2>1. to_server \in Seq(C!Frame) /\ c_out \in Seq(C!Frame)
    BY Parts
  <2>2. QED
    BY <1>1, <2>1, QueueShifts DEF ToServer
<1>4. Head(to_server) \in C!Frame /\ Sendable(Head(to_server))
  BY <1>3, Parts, TrafficShifts
<1>5. QED
  BY <1>1, <1>2, <1>3, <1>4

(* A message, a ping or a pong is handed over; a ping may be answered. *)
LEMMA ServerHands ==
  ASSUME CloseInv, S!Arrival, S!CanRead, UNCHANGED <<client, c_reset, nonblocking, s_reset, s_writes,
                                                     s_owes, s_incomplete, s_state>>,
         s_state # "Active" => UNCHANGED <<s_out, s_unflushed>>,
         ~IsClose(Head(to_server)), to_server' = Tail(to_server),
         s_handed' = Append(s_handed, <<Head(to_server).id>>),
         s_pc' = "idle", s_result' = "Ok", s_unflushed' \in BOOLEAN,
         to_client' \in Seq(C!Frame), s_out' \in Seq(C!Frame),
         \/ to_client' \o s_out' = ToClient
         \/ /\ s_state = "Active"
            /\ \E g \in C!Frame : /\ Sendable(g) /\ ~IsClose(g) /\ g.body = "bytes"
                                  /\ to_client' \o s_out' = Append(ToClient, g)
  PROVE  CloseInv' /\ Kept
<1> DEFINE f == Head(to_server)
<1>1. /\ s_pc = "reading" /\ ~HeardClose(s_handed) /\ s_state \in {"Active", "ClosedByUs"}
      /\ ToServer \in Seq(C!Frame) /\ ToServer # << >>
      /\ Head(ToServer) = f /\ Tail(to_server) \in Seq(C!Frame)
      /\ Tail(to_server) \o c_out = Tail(ToServer)
      /\ f \in C!Frame /\ Sendable(f)
  BY ServerHead
<1>2. f.id \in Nat /\ f.id >= 1
  BY <1>1 DEF Sendable, IsClose, C!Frame
<1>3. s_handed' \in Seq(Seq(Nat)) /\ ~HeardClose(s_handed')
  BY <1>1, <1>2, Parts, HeardGrows
<1> HIDE DEF f
<1>4. UNCHANGED <<c_state, c_out, c_unflushed, c_incomplete, c_pc, c_result, c_handed>>
  BY DEF client
<1>5. s_result = "Ok" /\ s_state # "Terminated" /\ s_incomplete = << >>
  BY <1>1, ServerReading
<1>6. ServerInv'
  <2>1. ~HeardClose(s_handed)'
    BY <1>3
  <2>2. QED
    BY <1>1, <1>4, <1>5, <2>1, Parts DEF ServerInv, Heard
<1>7. ToServer' = Tail(ToServer)
  BY <1>1, <1>4 DEF ToServer
<1>8. Traffic(ToServer', c_state, HeardClose(s_handed'))
  <2>1. Traffic(Tail(ToServer), c_state, HeardClose(s_handed))
    BY <1>1, Parts, TrafficShifts DEF f
  <2>2. HeardClose(s_handed) = FALSE /\ HeardClose(s_handed') = FALSE
    BY <1>1, <1>3, Zenon DEF HeardClose
  <2>3. QED
    BY <1>7, <2>1, <2>2, Zenon
<1>9. ToClient' = to_client' \o s_out'
  BY DEF ToClient
<1>10. Traffic(ToClient', s_state', HeardClose(c_handed))
       /\ \A b \in {"empty", "allowed"} : With(b, ToClient') => With(b, ToClient)
  <2>1. CASE to_client' \o s_out' = ToClient
    BY <1>9, <2>1, Parts
  <2>2. CASE \E g \in C!Frame : /\ Sendable(g) /\ ~IsClose(g) /\ g.body = "bytes"
                                /\ to_client' \o s_out' = Append(ToClient, g)
                                /\ s_state = "Active"
    <3>1. PICK g \in C!Frame : /\ Sendable(g) /\ ~IsClose(g) /\ g.body = "bytes"
                               /\ ToClient' = Append(ToClient, g) /\ s_state = "Active"
      BY <1>9, <2>2
    <3>2. ToClient \in Seq(C!Frame)
      BY Parts DEF Traffic
    <3>3. \A b \in {"empty", "allowed"} : With(b, ToClient') => With(b, ToClient)
      BY <3>1, <3>2, BodiesGrow
    <3>4. Traffic(ToClient', s_state, HeardClose(c_handed))
      BY <3>1, Parts, TrafficGrows
    <3>5. QED
      BY <3>3, <3>4
  <2>3. QED
    BY <2>1, <2>2
<1>11. \A b \in {"empty", "allowed"} : With(b, ToServer') => With(b, ToServer)
  BY <1>1, <1>7, BodiesShift
<1>12. s_reset' = FALSE
  BY Parts
<1>13. CloseInv'
  BY <1>1, <1>3, <1>6, <1>8, <1>10, <1>11, <1>12, Parts, ServerMoves
<1>14. ServerSame /\ ClientSame
  BY <1>1, <1>3, <1>4, <1>5 DEF ServerSame, ClientSame
<1>15. QED
  BY <1>13, <1>14, AbstractQuiet

(* A reply that is queued *)
LEMMA ServerQueues ==
  ASSUME CloseInv, s_pc # "dropped", NEW g \in C!Frame, NEW s, NEW o \in S!BufferFrame(g, s), S!Written(o)
  PROVE  /\ o.err = "Ok" /\ to_client' \in Seq(C!Frame) /\ s_out' \in Seq(C!Frame)
         /\ to_client' \o s_out' = Append(ToClient, g)
<1>1. /\ o.err = "Ok" /\ s_out' = o.rest /\ to_client' = to_client \o o.done
      /\ \/ o.rest = Append(s_out, g) /\ o.done = << >>
         \/ o.rest = << >> /\ o.done = Append(s_out, g)
  BY ServerBuffer DEF S!Written
<1>2. to_client \in Seq(C!Frame) /\ s_out \in Seq(C!Frame) /\ to_client \o << >> = to_client
  BY Parts, ConcatEmptySeq
<1>3. /\ Append(s_out, g) \in Seq(C!Frame) /\ << >> \in Seq(C!Frame)
      /\ to_client \o Append(s_out, g) \in Seq(C!Frame)
      /\ to_client \o Append(s_out, g) = Append(ToClient, g)
      /\ (to_client \o Append(s_out, g)) \o << >> = Append(ToClient, g)
  BY <1>2, QueueGrows DEF ToClient
<1>4. QED
  BY <1>1, <1>2, <1>3, Zenon

(* The close frame of the client: the server's answer is queued, unless it *)
(* has said that it ends before. *)
LEMMA ServerHearsClose ==
  ASSUME CloseInv, S!Arrival, S!CanRead, UNCHANGED <<client, c_reset, nonblocking, s_reset, s_writes, s_owes>>,
         IsClose(Head(to_server)), to_server' = Tail(to_server),
         S!ReceiveClose(Head(to_server))
  PROVE  CloseInv' /\ Kept
<1> DEFINE f == Head(to_server)
<1>1. /\ s_pc = "reading" /\ ~HeardClose(s_handed) /\ s_state \in {"Active", "ClosedByUs"}
      /\ ToServer \in Seq(C!Frame) /\ ToServer # << >>
      /\ Head(ToServer) = f /\ Tail(to_server) \in Seq(C!Frame)
      /\ Tail(to_server) \o c_out = Tail(ToServer)
      /\ f \in C!Frame /\ Sendable(f) /\ f.body # "empty"
  BY ServerHead
<1>2. f.id = 0 /\ f.body \in {"bare", "allowed"}
  BY <1>1 DEF Sendable, IsClose
<1>3. s_result = "Ok" /\ s_incomplete = << >>
  BY <1>1, ServerReading
<1>3a. f.body = "bare"
  <2>1. ~With("allowed", ToServer)
    BY Parts DEF BodiesInv
  <2>2. QED
    BY <1>1, <1>2, <2>1, BodiesShift
<1>4. S!ReadBodies(f) = {"bare", "forbidden"}
  BY <1>2, <1>3a DEF S!ReadBodies
<1>5. c_state # "Active" /\ Traffic(Tail(ToServer), c_state, TRUE)
  BY <1>1, Parts, TrafficShifts DEF f
<1>6. UNCHANGED <<c_state, c_out, c_unflushed, c_incomplete, c_pc, c_result, c_handed>>
  BY DEF client
<1> DEFINE d == Append(s_handed, <<f.id>>)
<1>7. d \in Seq(Seq(Nat)) /\ HeardClose(d)
  BY <1>2, Parts, HeardGrows
<1> HIDE DEF f, d
<1>8. ToServer' = Tail(ToServer)
  BY <1>1, <1>6 DEF ToServer
<1>9. \A b \in {"empty", "allowed"} : With(b, ToServer') => With(b, ToServer)
  BY <1>1, <1>8, BodiesShift
<1>10. s_reset' = FALSE
  BY Parts
<1>11. /\ S!Hand(<<f.id>>) /\ S!Return("Ok") /\ s_incomplete' = s_incomplete
       /\ \/ /\ s_state = "ClosedByUs" /\ s_state' = "CloseAcknowledged"
             /\ UNCHANGED <<s_out, s_unflushed, to_client>>
          \/ /\ s_state = "Active" /\ s_state' = "ClosedByPeer"
             /\ s_unflushed' = TRUE
             /\ \E b \in {"bare", "allowed"} :
                  \E o \in S!BufferFrame(S!CloseReply(b), "ClosedByPeer") : S!Written(o)
  <2>1. PICK b \in S!ReadBodies(f) :
          IF b = "malformed" THEN S!Refuse("Protocol")
          ELSE IF s_state = "ClosedByUs"
          THEN /\ s_state' = "CloseAcknowledged"
               /\ S!Hand(<<f.id>>)
               /\ S!Return("Ok")
               /\ UNCHANGED <<s_out, s_unflushed, s_incomplete, to_client>>
          ELSE /\ s_state' = "ClosedByPeer"
               /\ \E o \in S!BufferFrame(S!CloseReply(IF b = "forbidden" THEN "allowed" ELSE b),
                                         "ClosedByPeer") :
                    /\ S!Written(o)
                    /\ IF o.err = "Ok"
                       THEN s_unflushed' = TRUE /\ S!Hand(<<f.id>>) /\ S!Return("Ok")
                       ELSE s_pc' = "panicked"
                            /\ UNCHANGED <<s_unflushed, s_handed, s_result>>
               /\ UNCHANGED s_incomplete
    BY Zenon DEF S!ReceiveClose, f
  <2>2. b \in {"bare", "forbidden"} /\ b # "malformed"
    BY <1>4, <2>1
  <2>3. CASE s_state = "ClosedByUs"
    BY <2>1, <2>2, <2>3
  <2>4. CASE s_state = "Active"
    <3> DEFINE c == IF b = "forbidden" THEN "allowed" ELSE b
    <3>1. c \in {"bare", "allowed"}
      BY <2>2
    <3> HIDE DEF c
    <3>2. s_state # "ClosedByUs"
      BY <2>4
    <3>3. s_state' = "ClosedByPeer" /\ s_incomplete' = s_incomplete
      BY <2>1, <2>2, <3>2, Zenon
    <3>4. PICK o \in S!BufferFrame(S!CloseReply(c), "ClosedByPeer") :
                    /\ S!Written(o)
                    /\ IF o.err = "Ok"
                       THEN s_unflushed' = TRUE /\ S!Hand(<<f.id>>) /\ S!Return("Ok")
                       ELSE s_pc' = "panicked"
                            /\ UNCHANGED <<s_unflushed, s_handed, s_result>>
      BY <2>1, <2>2, <3>2, Zenon DEF c
    <3>5. o.err = "Ok"
      BY <1>1, ServerBuffer
    <3>6. S!Written(o) /\ s_unflushed' = TRUE /\ S!Hand(<<f.id>>) /\ S!Return("Ok")
      BY <3>4, <3>5, Zenon
    <3>7. QED
      BY <2>4, <3>1, <3>3, <3>6, Zenon
  <2>5. QED
    BY <1>1, <2>3, <2>4
<1>12. s_handed' = d /\ s_pc' = "idle" /\ s_result' = "Ok" /\ s_incomplete' = << >>
  BY <1>3, <1>11 DEF S!Hand, S!Return, d
<1>13. /\ s_state' \in {"CloseAcknowledged", "ClosedByPeer"} /\ s_unflushed' \in BOOLEAN
       /\ to_client' \in Seq(C!Frame) /\ s_out' \in Seq(C!Frame)
       /\ Traffic(ToClient', s_state', HeardClose(c_handed))
       /\ With("empty", ToClient') => With("empty", ToClient)
       /\ s_state = "ClosedByUs" => UNCHANGED <<s_out, s_unflushed>>
       /\ s_state = "Active" => s_unflushed'
  <2>1. CASE s_state = "ClosedByUs"
    <3>1. s_state' = "CloseAcknowledged" /\ UNCHANGED <<s_out, s_unflushed, to_client>>
      BY <1>11, <2>1
    <3>2. ToClient' = ToClient
      BY <3>1 DEF ToClient
    <3>3. Traffic(ToClient, s_state', HeardClose(c_handed))
      <4>1. Traffic(ToClient, s_state, HeardClose(c_handed)) /\ HeardClose(c_handed) \in BOOLEAN
        BY Parts
      <4>2. s_state = "Active" <=> s_state' = "Active"
        BY <2>1, <3>1
      <4>3. QED
        BY <4>1, <4>2, TrafficSame
    <3>4. QED
      BY <2>1, <3>1, <3>2, <3>3, Parts
  <2>2. CASE s_state = "Active"
    <3>0. PICK b \in {"bare", "allowed"} :
            \E o \in S!BufferFrame(S!CloseReply(b), "ClosedByPeer") : S!Written(o)
      BY <1>11, <2>2
    <3> DEFINE g == S!CloseReply(b)
    <3>1. PICK o \in S!BufferFrame(g, "ClosedByPeer") : S!Written(o)
      BY <3>0
    <3>2. s_state' = "ClosedByPeer" /\ s_unflushed' = TRUE
      BY <1>11, <2>2
    <3>3. g \in C!Frame /\ Sendable(g) /\ IsClose(g) /\ g.body = b
      BY SentCloses
    <3> HIDE DEF g
    <3>4. to_client' \in Seq(C!Frame) /\ s_out' \in Seq(C!Frame) /\ ToClient' = Append(ToClient, g)
      BY <1>1, <3>1, <3>3, ServerQueues DEF ToClient
    <3>5. Traffic(ToClient, "Active", HeardClose(c_handed))
      BY <2>2, Parts
    <3>6. Traffic(Append(ToClient, g), s_state', HeardClose(c_handed))
      BY <3>2, <3>3, <3>5, Parts, TrafficGrows
    <3>7. ToClient \in Seq(C!Frame)
      BY Parts DEF Traffic
    <3>8. With("empty", ToClient') => With("empty", ToClient)
      BY <3>3, <3>4, <3>7, BodiesGrow
    <3>9. QED
      BY <2>2, <3>2, <3>4, <3>6, <3>8
  <2>3. QED
    BY <1>1, <2>1, <2>2
<1>14. ServerInv'
  <2>1. HeardClose(s_handed)'
    BY <1>7, <1>12
  <2>2. QED
    BY <1>1, <1>12, <1>13, <2>1, Parts DEF ServerInv, Heard
<1>15. Traffic(ToServer', c_state, HeardClose(s_handed'))
  <2>1. HeardClose(s_handed') = TRUE
    BY <1>7, <1>12, Zenon DEF HeardClose
  <2>2. QED
    BY <1>5, <1>8, <2>1, Zenon
<1>16. s_state' \in C!States
  BY <1>13 DEF C!States
<1>17. CloseInv'
  <2>1. HeardClose(s_handed')
    BY <1>7, <1>12
  <2>2. QED
    BY <1>1, <1>9, <1>10, <1>12, <1>13, <1>14, <1>15, <1>16, <1>7, <2>1, Parts, ServerMoves
<1>18. ClientSame
  BY <1>6 DEF ClientSame
<1>19. QED
  BY <1>1, <1>3, <1>5, <1>7, <1>12, <1>13, <1>17, <1>18, ServerHears

LEMMA ServerReceives ==
  ASSUME CloseInv, UNCHANGED <<client, c_reset, s_writes, s_reset, s_owes>>, S!Receive
  PROVE  CloseInv' /\ Kept
<1> DEFINE f == Head(to_server)
<1>1. S!Arrival /\ S!CanRead /\ to_server' = Tail(to_server) /\ UNCHANGED nonblocking
  BY DEF S!Receive, S!link
<1>2. \/ f.op = "bad" /\ S!Refuse("Protocol")
      \/ f.op = "ping" /\ S!ReceivePing(f)
      \/ f.op = "pong" /\ S!ReceivePong(f)
      \/ f.op = "close" /\ S!ReceiveClose(f)
      \/ f.op \in {"data", "continue"} /\ S!ReceiveData(f)
  BY Zenon DEF S!Receive
<1>3. /\ s_pc = "reading" /\ f \in C!Frame /\ Sendable(f)
  BY <1>1, ServerHead
<1>4. f.op \in {"data", "ping", "pong", "close"} /\ f.id \in Nat
      /\ (f.op = "data" => f.fin) /\ (f.op # "close" => ~IsClose(f)) /\ (f.op = "close" => IsClose(f))
  BY <1>3 DEF Sendable, C!Frame, IsClose
<1>5. s_incomplete = << >>
  BY <1>3, ServerReading
<1> HIDE DEF f
<1>6. CASE f.op = "close" /\ S!ReceiveClose(f)
  BY <1>1, <1>4, <1>6, ServerHearsClose DEF f
<1>7. CASE f.op = "pong" /\ S!ReceivePong(f)
  <2>1. /\ s_handed' = Append(s_handed, <<f.id>>) /\ s_pc' = "idle" /\ s_result' = "Ok"
        /\ UNCHANGED <<s_state, s_out, s_unflushed, s_incomplete, to_client>>
    BY <1>7 DEF S!ReceivePong, S!Hand, S!Return
  <2>2. to_client' \o s_out' = ToClient
    BY <2>1 DEF ToClient
  <2>3. QED
    BY <1>1, <1>4, <1>7, <2>1, <2>2, Parts, ServerHands DEF f
<1>8. CASE f.op = "data" /\ S!ReceiveData(f)
  <2>1. Append(s_incomplete, f.id) = <<f.id>>
    BY <1>5
  <2>2. ~S!TooLong(<<f.id>>)
    BY DEF S!TooLong
  <2>3. ~((f.op = "continue") # (s_incomplete # << >>))
    BY <1>5, <1>8
  <2>4. /\ S!Hand(<<f.id>>) /\ S!Return("Ok") /\ s_incomplete' = << >>
        /\ UNCHANGED <<s_state, s_out, s_unflushed, to_client>>
    BY <1>4, <1>8, <2>1, <2>2, <2>3, Zenon DEF S!ReceiveData
  <2>5. to_client' \o s_out' = ToClient
    BY <2>4 DEF ToClient
  <2>6. s_handed' = Append(s_handed, <<f.id>>) /\ s_pc' = "idle" /\ s_result' = "Ok"
    BY <2>4 DEF S!Hand, S!Return
  <2>7. QED
    BY <1>1, <1>4, <1>5, <1>8, <2>4, <2>5, <2>6, Parts, ServerHands DEF f
<1>9. CASE f.op = "ping" /\ S!ReceivePing(f)
  <2>1. CASE s_state # "Active"
    <3>1. /\ s_handed' = Append(s_handed, <<f.id>>) /\ s_pc' = "idle" /\ s_result' = "Ok"
          /\ UNCHANGED <<s_state, s_out, s_unflushed, s_incomplete, to_client>>
      BY <1>9, <2>1 DEF S!ReceivePing, S!IsActive, S!Hand, S!Return
    <3>2. to_client' \o s_out' = ToClient
      BY <3>1 DEF ToClient
    <3>3. QED
      BY <1>1, <1>4, <1>9, <3>1, <3>2, Parts, ServerHands DEF f
  <2>2. CASE s_state = "Active"
    <3>1. PICK o \in S!BufferFrame(S!PongTo(f.id), s_state) :
            /\ S!Written(o)
            /\ S!Return(o.err)
            /\ IF o.err = "Ok"
               THEN s_unflushed' = TRUE /\ S!Hand(<<f.id>>)
               ELSE UNCHANGED <<s_unflushed, s_handed>>
            /\ UNCHANGED <<s_state, s_incomplete>>
      BY <1>9, <2>2, Zenon DEF S!ReceivePing, S!IsActive
    <3> DEFINE g == S!PongTo(f.id)
    <3>2. f.id >= 1
      BY <1>3, <1>9 DEF Sendable
    <3>3. g \in C!Frame /\ Sendable(g) /\ ~IsClose(g) /\ g.body = "bytes"
      BY <1>4, <3>2, SentFrames
    <3> HIDE DEF g
    <3>4. o.err = "Ok" /\ to_client' \in Seq(C!Frame) /\ s_out' \in Seq(C!Frame)
          /\ to_client' \o s_out' = Append(ToClient, g)
      BY <1>3, <3>1, <3>3, ServerQueues DEF g
    <3>5. /\ s_unflushed' = TRUE /\ s_handed' = Append(s_handed, <<f.id>>)
          /\ s_pc' = "idle" /\ s_result' = "Ok" /\ UNCHANGED <<s_state, s_incomplete>>
      BY <3>1, <3>4 DEF S!Hand, S!Return
    <3>6. QED
      BY <1>1, <1>4, <1>9, <2>2, <3>3, <3>4, <3>5, ServerHands DEF f
  <2>3. QED
    BY <2>1, <2>2
<1>10. QED
  BY <1>2, <1>4, <1>6, <1>7, <1>8, <1>9

(* The client lets go after the server. *)
LEMMA ServerLetsGo ==
  ASSUME CloseInv, UNCHANGED <<client, c_reset, s_writes, s_owes>>, S!Drop, s_reset' = (to_server # << >>)
  PROVE  CloseInv' /\ Kept
<1>1. /\ s_pc = "idle" /\ s_pc' = "dropped" /\ s_result # "Ok"
      /\ UNCHANGED <<s_state, s_out, s_unflushed, s_incomplete, s_result, s_handed, to_server,
                     to_client, nonblocking>>
  BY DEF S!Drop, S!Fatal, S!stream, S!link
<1>2. UNCHANGED <<c_state, c_out, c_unflushed, c_incomplete, c_pc, c_result, c_handed>>
  BY DEF client
<1>3. s_result = "Closed" /\ s_state = "Terminated"
  BY <1>1, Parts DEF ServerInv
<1>4. s_reset' = FALSE
  BY <1>3, ServerHeard DEF Heard
<1>5. ServerInv'
  <2>1. HeardClose(s_handed)' <=> HeardClose(s_handed)
    BY <1>1
  <2>2. QED
    BY <1>1, <1>3, <2>1, Parts DEF ServerInv
<1>6. ToClient' = ToClient /\ ToServer' = ToServer
  BY <1>1, <1>2 DEF ToClient, ToServer
<1>7. Traffic(ToClient', s_state', HeardClose(c_handed)) /\ Traffic(ToServer', c_state, HeardClose(s_handed'))
  BY <1>1, <1>6, Parts
<1>8. CloseInv'
  BY <1>1, <1>4, <1>5, <1>6, <1>7, Parts, ServerMoves
<1>9. ServerSame /\ ClientSame
  BY <1>1, <1>2 DEF ServerSame, ClientSame
<1>10. QED
  BY <1>8, <1>9, AbstractQuiet

LEMMA ServerReadsStep ==
  ASSUME CloseInv, ServerReads
  PROVE  CloseInv' /\ Kept
<1>1. UNCHANGED <<client, c_reset, s_writes>>
  BY DEF ServerReads
<1>2. CASE s_result # "Closed" /\ S!Read /\ s_owes' = ServerFlushes /\ UNCHANGED s_reset
  BY <1>1, <1>2, ServerReadStarts
<1>3. CASE S!Drop /\ UNCHANGED s_owes /\ s_reset' = (to_server # << >>)
  BY <1>1, <1>3, ServerLetsGo
<1>4. CASE S!ReadStep /\ UNCHANGED <<s_owes, s_reset>>
  <2>1. CASE S!FlushReplies
    BY <1>1, <1>4, <2>1, ServerWritesReplies
  <2>2. CASE S!EndConnection
    BY <1>1, <1>4, <2>2, ServerIsTold
  <2>3. CASE S!NothingToFlush
    BY <1>1, <1>4, <2>3, ServerGoesOn
  <2>4. ~S!ReceiveAfterClosing
    BY ServerReading DEF S!ReceiveAfterClosing, S!Arrival, S!CanRead, S!IsActive
  <2>5. CASE S!Receive
    BY <1>1, <1>4, <2>5, ServerReceives
  <2>6. ~S!ReceiveEof /\ ~S!ReceiveReset /\ ~S!ReadWouldBlock
    BY Parts, ServerWorks DEF S!ReceiveEof, S!ReceiveReset, S!ReadWouldBlock
  <2>7. QED
    BY <1>4, <2>1, <2>2, <2>3, <2>4, <2>5, <2>6 DEF S!ReadStep
<1>5. QED
  BY <1>2, <1>3, <1>4 DEF ServerReads

-----------------------------------------------------------------------------
(* The theorems *)

LEMMA CloseInit == Init => CloseInv /\ Promise!Init
<1> SUFFICES ASSUME Init
             PROVE  CloseInv /\ Promise!Init
  OBVIOUS
<1>1. /\ c_state = "Active" /\ s_state = "Active"
      /\ c_out = << >> /\ s_out = << >> /\ to_server = << >> /\ to_client = << >>
      /\ c_unflushed = FALSE /\ s_unflushed = FALSE
      /\ c_incomplete = << >> /\ s_incomplete = << >>
      /\ c_pc = "idle" /\ s_pc = "idle" /\ c_result = "Ok" /\ s_result = "Ok"
      /\ c_handed = << >> /\ s_handed = << >>
      /\ c_writes = 0 /\ s_writes = 0 /\ s_owes = FALSE
      /\ c_reset = FALSE /\ s_reset = FALSE /\ nonblocking = FALSE
  BY DEF Init, C!EndpointInit, S!EndpointInit
<1>2. ~HeardClose(c_handed) /\ ~HeardClose(s_handed)
  BY <1>1 DEF HeardClose
<1>3. CloseTypes
  <2>1. << >> \in Seq(C!Frame) /\ << >> \in Seq(S!Frame) /\ << >> \in Seq(Seq(Nat))
    BY EmptySeq
  <2>2. "Active" \in C!States /\ "Active" \in S!States
    BY DEF C!States, S!States
  <2>3. QED
    BY <1>1, <2>1, <2>2 DEF CloseTypes
<1>4. Connected /\ ClientInv /\ ServerInv
  BY <1>1, <1>2 DEF Connected, ClientInv, ServerInv, Heard
<1>5. ToServer = << >> /\ ToClient = << >>
  <2>1. << >> \in Seq(C!Frame)
    OBVIOUS
  <2>2. QED
    BY <1>1, <2>1, ConcatEmptySeq DEF ToServer, ToClient
<1>6. BodiesInv
  BY <1>5 DEF BodiesInv, With
<1>7. Traffic(ToServer, c_state, HeardClose(s_handed)) /\ Traffic(ToClient, s_state, HeardClose(c_handed))
  BY <1>1, <1>2, <1>5 DEF Traffic, NoCloseIn
<1>8. CloseInv
  BY <1>3, <1>4, <1>6, <1>7 DEF CloseInv
<1>9. saidEnds = {} /\ heardEnds = {} /\ doneEnds = {}
  <2>1. \A e : e \notin saidEnds /\ e \notin heardEnds /\ e \notin doneEnds
    BY <1>1, <1>2, AbstractState
  <2>2. QED
    BY <2>1
<1>10. QED
  BY <1>8, <1>9 DEF Promise!Init

LEMMA CloseStutter ==
  ASSUME CloseInv, UNCHANGED vars
  PROVE  CloseInv' /\ Kept
<1>1. UNCHANGED <<c_state, c_out, c_unflushed, c_incomplete, c_pc, c_result, c_handed, c_writes,
                  s_state, s_out, s_unflushed, s_incomplete, s_pc, s_result, s_handed, s_writes,
                  s_owes, to_server, to_client, c_reset, s_reset, nonblocking>>
  BY DEF vars, client, server, resets
<1>2. HeardClose(c_handed)' = HeardClose(c_handed) /\ HeardClose(s_handed)' = HeardClose(s_handed)
  BY <1>1, Zenon
<1>3. ToServer' = ToServer /\ ToClient' = ToClient
  BY <1>1 DEF ToServer, ToClient
<1>4. ClientInv' /\ ServerInv'
  BY <1>1, <1>2, Parts DEF ClientInv, ServerInv
<1>5. CloseTypes' /\ Connected'
  BY <1>1, Parts, SameFrames DEF CloseTypes, Connected
<1>6. BodiesInv'
  BY <1>2, <1>3, Parts, Zenon DEF BodiesInv, With
<1>7. Traffic(ToServer, c_state, HeardClose(s_handed))' /\ Traffic(ToClient, s_state, HeardClose(c_handed))'
  BY <1>1, <1>3, Parts
<1>8. CloseInv'
  BY <1>4, <1>5, <1>6, <1>7 DEF CloseInv
<1>9. ClientSame /\ ServerSame
  BY <1>1 DEF ClientSame, ServerSame
<1>10. QED
  BY <1>8, <1>9, AbstractQuiet

LEMMA CloseNext == CloseInv /\ [Next]_vars => CloseInv' /\ Kept
<1> SUFFICES ASSUME CloseInv, [Next]_vars
             PROVE  CloseInv' /\ Kept
  OBVIOUS
<1>1. CASE ClientWrites
  BY <1>1, ClientWritesStep
<1>2. CASE ClientCloses
  BY <1>2, ClientClosesStep
<1>3. CASE ClientThread
  BY <1>3, ClientReadsStep DEF ClientThread
<1>4. CASE ServerWrites
  BY <1>4, ServerWritesStep
<1>5. CASE ServerCloses
  BY <1>5, ServerClosesStep
<1>6. CASE ServerThread
  BY <1>6, ServerReadsStep, ServerFlushStep DEF ServerThread
<1>7. CASE UNCHANGED vars
  BY <1>7, CloseStutter
<1>8. QED
  BY <1>1, <1>2, <1>3, <1>4, <1>5, <1>6, <1>7 DEF Next

(* What is on its way between the ends, and how far each has come, is what *)
(* the close handshake needs it to be (mod.rs: read, write, close, flush). *)
THEOREM CloseInvariance == Spec => []CloseInv
<1>1. Init => CloseInv
  BY CloseInit
<1>2. CloseInv /\ [Next]_vars => CloseInv'
  BY CloseNext
<1>3. QED
  BY <1>1, <1>2, PTL DEF Spec

(* Two endpoints of this library at the ends of one connection implement   *)
(* ClosePromise: nobody is told that it is closed before it has said and   *)
(* heard so, the client only after the server (mod.rs:262-276).            *)
THEOREM PromiseIsKept == Spec => PromiseKept
<1>1. Init => Promise!Init
  BY CloseInit
<1>2. CloseInv /\ [Next]_vars => [Promise!Next]_<<saidEnds, heardEnds, doneEnds>>
  BY CloseNext DEF Kept
<1>3. QED
  BY <1>1, <1>2, CloseInvariance, PTL DEF Spec, PromiseKept, Promise!Spec

LEMMA CloseInvImplies ==
  ASSUME Closes \subseteq {"bare"}, CloseInv
  PROVE  OrderlyClose
<1>1. c_result \in {"Ok", "Closed"} /\ s_result \in {"Ok", "Closed"}
  BY Parts DEF ClientInv, ServerInv
<1>2. QED
  BY <1>1 DEF OrderlyClose

(* A close with a code never ends in an error on either side, whoever      *)
(* starts it, even if both do (mod.rs: do_close, read).  A close frame     *)
(* without one is never read: hence the condition (frame/mod.rs:230).      *)
THEOREM OrderlyEnd == Closes \subseteq {"bare"} => (Spec => []OrderlyClose)
<1> SUFFICES ASSUME Closes \subseteq {"bare"}
             PROVE  Spec => []OrderlyClose
  OBVIOUS
<1>1. CloseInv => OrderlyClose
  BY CloseInvImplies
<1>2. QED
  BY <1>1, CloseInvariance, PTL
=============================================================================
