---------------------------- MODULE TraderProof ----------------------------
(***************************************************************************)
(* Proofs about OrderClient, Trader and OrderBook.                         *)
(*                                                                         *)
(* Of the client, for any requests and any exchange: ClientInv is an       *)
(* inductive invariant, and the properties of the pairing of requests and  *)
(* answers follow from it.                                                 *)
(*                                                                         *)
(* Of the program, for any threads, orders and exchange: main uses its     *)
(* order client as OrderClient says, so what is proved of the client holds *)
(* in the program; and every book update becomes one order.                *)
(*                                                                         *)
(* Of the book, for any depth and any messages: where the tokens of a      *)
(* message are, what each parser reads of them, and so what a message      *)
(* leaves of the book.  The recursive functions that read a side are dealt *)
(* with by sets closed under the step of the induction (InductiveSet).     *)
(***************************************************************************)
EXTENDS Trader, OrderBook, FiniteSetTheorems, SequenceTheorems, WellFoundedInduction, TLAPS

USE DEF Kinds, Ends, Reading, Places

(* The invariant holds at the start. *)
LEMMA InitInv == ClientInit => ClientInv
  BY DEF ClientInit, ClientInv, ClientTypeOK, Pace, Answers, InTurn, CallsInv, Distinct

(* Steps that leave the histories as they are. *)
LEMMA ConnectFailsInv == ClientInv /\ ConnectFails => ClientInv'
  BY DEF ConnectFails, ClientInv, ClientTypeOK, Pace, Answers, InTurn, CallsInv, Distinct, Settled

LEMMA CloseClientInv == ClientInv /\ CloseClient => ClientInv'
  BY DEF CloseClient, ClientInv, ClientTypeOK, Pace, Answers, InTurn, CallsInv, Distinct, Settled

LEMMA ShutInv == ClientInv /\ Shut => ClientInv'
  BY DEF Shut, ClientInv, ClientTypeOK, Pace, Answers, InTurn, CallsInv, Distinct, Settled

(* Appending to the history of calls one that read a message of its own,   *)
(* or none.                                                                *)
LEMMA OneMoreCall ==
  ASSUME NEW o \in Outcome, calls \in Seq(Outcome), calls' = Append(calls, o),
         Settled(o)',
         \A i \in DOMAIN calls : Settled(calls[i])',
         Distinct,
         o.message # 0 => \A i \in DOMAIN calls : calls[i].message # o.message
  PROVE  calls' \in Seq(Outcome) /\ CallsInv'
<1>1. /\ calls' \in Seq(Outcome) /\ Len(calls') = Len(calls) + 1
      /\ \A i \in 1 .. Len(calls) : calls'[i] = calls[i]
      /\ calls'[Len(calls) + 1] = o
  OBVIOUS
<1>2. \A i \in DOMAIN calls' : i \in DOMAIN calls \/ i = Len(calls) + 1
  BY <1>1
<1>3. \A i \in DOMAIN calls' : Settled(calls[i])'
  <2> SUFFICES ASSUME NEW i \in DOMAIN calls' PROVE Settled(calls[i])'
    OBVIOUS
  <2>1. CASE i = Len(calls) + 1
    BY <2>1, <1>1 DEF Settled
  <2>2. QED
    BY <2>1, <1>2
<1>4. Distinct'
  <2> SUFFICES ASSUME NEW i \in DOMAIN calls', NEW j \in DOMAIN calls',
                      i # j, calls'[i].message # 0
               PROVE  calls'[i].message # calls'[j].message
    BY DEF Distinct
  <2>1. CASE i \in DOMAIN calls /\ j \in DOMAIN calls
    BY <2>1, <1>1 DEF Distinct
  <2>2. CASE i \in DOMAIN calls /\ j = Len(calls) + 1
    <3>1. calls'[i] = calls[i] /\ calls'[j] = o
      BY <2>2, <1>1
    <3>2. QED
      BY <2>2, <3>1
  <2>3. CASE i = Len(calls) + 1 /\ j \in DOMAIN calls
    <3>1. calls'[j] = calls[j] /\ calls'[i] = o
      BY <2>3, <1>1
    <3>2. QED
      BY <2>3, <3>1
  <2>4. QED
    BY <2>1, <2>2, <2>3, <1>2
<1>5. QED
  BY <1>1, <1>3, <1>4 DEF CallsInv

-----------------------------------------------------------------------------
(* A request is written: the one after those that have been read for.      *)
LEMMA WrittenInv ==
  ASSUME ClientInv, NEW r \in Requests \cup {Logon}, client \in {"new", "idle"}, Written(r)
  PROVE  ClientInv'
<1>1. /\ sent' \in Seq(Requests \cup {Logon})
      /\ Len(sent') = Len(sent) + 1
  BY DEF Written, ClientInv, ClientTypeOK
<1>2. ClientTypeOK'
  BY <1>1 DEF Written, ClientInv, ClientTypeOK
<1>3. Len(sent) = reads
  BY DEF Written, ClientInv, ClientTypeOK, Pace
<1>4. Pace'
  BY <1>1, <1>3 DEF Written, ClientInv, ClientTypeOK, Pace
<1>5. Answers' /\ InTurn'
  BY <1>1 DEF Written, ClientInv, ClientTypeOK, Answers, InTurn
<1>6. CallsInv'
  (* No call is without its message: the socket could not be written to.   *)
  BY <1>1 DEF Written, ClientInv, ClientTypeOK, CallsInv, Settled, Distinct
<1>7. QED
  BY <1>2, <1>4, <1>5, <1>6 DEF ClientInv

(* A request is not written: the call is one without place or message.     *)
LEMMA UnwrittenInv ==
  ASSUME ClientInv, client \in {"new", "idle"}, Unwritten
  PROVE  ClientInv'
<1>1. PICK o \in Outcome :
        /\ o.place = 0 /\ o.message = 0 /\ o.got # "ok"
        /\ calls' = Append(calls, o)
  <2> DEFINE w == Without(IF socket # "active" THEN "refused" ELSE "send_error", 0, 0)
  <2>1. w \in Outcome /\ w.place = 0 /\ w.message = 0 /\ w.got # "ok"
    BY DEF Without, Outcome
  <2>2. calls' = Append(calls, w)
    BY DEF Unwritten, Returns
  <2>3. QED
    BY <2>1, <2>2
<1>2. client' \in {"gone", "idle"}
  BY DEF Unwritten, Returns
<1>3. Settled(o)' /\ (\A i \in DOMAIN calls : Settled(calls[i])')
  <2>1. Settled(o)'
    <3>1. reads \in Nat /\ Len(sent) \in Nat /\ UNCHANGED <<sent, reads>>
      BY DEF Unwritten, ClientInv, ClientTypeOK
    <3>2. QED
      BY <1>1, <3>1 DEF Settled
  <2>2. ASSUME NEW i \in DOMAIN calls PROVE Settled(calls[i])'
    <3>1. Settled(calls[i]) /\ calls'[i] = calls[i]
      BY <1>1, <1>2 DEF ClientInv, ClientTypeOK, CallsInv
    <3>2. QED
      BY <1>2, <3>1 DEF Unwritten, Settled
  <2>3. QED
    BY <2>1, <2>2
<1>4. calls' \in Seq(Outcome) /\ CallsInv'
  <2>1. calls \in Seq(Outcome) /\ Distinct
    BY DEF ClientInv, ClientTypeOK, CallsInv
  <2>2. QED
    BY <1>1, <1>2, <1>3, <2>1, OneMoreCall
<1>5. ClientTypeOK' /\ Pace' /\ Answers' /\ InTurn'
  BY <1>2, <1>4 DEF Unwritten, ClientInv, ClientTypeOK, Pace, Answers, InTurn
<1>6. QED
  BY <1>4, <1>5 DEF ClientInv

-----------------------------------------------------------------------------
(* A call that has read the next message, whatever it is: its place is the *)
(* number of that message, and no earlier call has read it.                *)
LEMMA ReadNext ==
  ASSUME ClientInv, Arrived, NEW o \in Outcome,
         calls' = Append(calls, o), client' \in {"gone", "idle"},
         reads' = reads + 1, UNCHANGED <<link, sent, posted>>,
         socket' \in {socket, "closing"},
         o.place = Len(sent), o.message = reads + 1,
         o.got = "ok" => posted[reads + 1].kind = "answer" /\ o.answer = posted[reads + 1].re
  PROVE  ClientInv'
<1>1. Len(sent) = reads + 1 /\ reads + 1 \in DOMAIN posted
  BY DEF Arrived, ClientInv, ClientTypeOK, Pace
<1>2. o.got = "ok" => o.answer \in 1 .. o.place
  BY <1>1 DEF ClientInv, Answers
<1>3. Settled(o)'
  BY <1>1, <1>2 DEF Settled, ClientInv, ClientTypeOK
<1>4. \A i \in DOMAIN calls : Settled(calls[i])'
  <2> SUFFICES ASSUME NEW i \in DOMAIN calls PROVE Settled(calls[i])'
    OBVIOUS
  <2>1. Settled(calls[i]) /\ calls[i] \in Outcome
    BY DEF ClientInv, ClientTypeOK, CallsInv
  <2>2. calls'[i] = calls[i]
    BY DEF ClientInv, ClientTypeOK
  <2>3. QED
    BY <2>1, <2>2 DEF Settled, ClientInv, ClientTypeOK, Arrived
<1>5. \A i \in DOMAIN calls : calls[i].message # o.message
  BY DEF ClientInv, ClientTypeOK, CallsInv, Settled
<1>6. calls' \in Seq(Outcome) /\ CallsInv'
  BY <1>3, <1>4, <1>5, OneMoreCall DEF ClientInv, ClientTypeOK, CallsInv
<1>7. ClientTypeOK'
  BY <1>1, <1>6 DEF ClientInv, ClientTypeOK
<1>8. Pace'
  BY <1>1 DEF ClientInv, ClientTypeOK, Pace
<1>9. Answers' /\ InTurn'
  BY DEF ClientInv, Answers, InTurn
<1>10. QED
  BY <1>6, <1>7, <1>8, <1>9 DEF ClientInv

LEMMA TakeAnswerInv == ClientInv /\ TakeAnswer => ClientInv'
<1> SUFFICES ASSUME ClientInv, TakeAnswer PROVE ClientInv'
  OBVIOUS
<1> DEFINE o == [got |-> "ok", place |-> Len(sent), message |-> reads + 1,
                 answer |-> Next1.re]
<1>1. Next1 \in Message
  <2>1. reads + 1 \in 1 .. Len(posted) /\ posted \in Seq(Message)
    BY DEF TakeAnswer, Arrived, ClientInv, ClientTypeOK
  <2>2. QED
    BY <2>1 DEF Next1
<1>2. o \in Outcome
  <2>1. Next1.re \in Nat
    BY <1>1 DEF Message
  <2>2. QED
    BY <2>1 DEF Outcome, ClientInv, ClientTypeOK
<1>3. calls' = Append(calls, o) /\ client' \in {"gone", "idle"}
  BY DEF TakeAnswer, Returns
<1>4. o.got = "ok" /\ o.place = Len(sent) /\ o.message = reads + 1 /\ o.answer = Next1.re
  OBVIOUS
<1> HIDE DEF o
<1>5. QED
  BY <1>2, <1>3, <1>4, ReadNext DEF TakeAnswer, Next1

LEMMA TakeOtherInv == ClientInv /\ TakeOther => ClientInv'
<1> SUFFICES ASSUME ClientInv, TakeOther PROVE ClientInv'
  OBVIOUS
<1> DEFINE got == CASE Next1.kind = "garbage" -> "unparsed"
                    [] Next1.kind = "bad" -> "read_error"
                    [] OTHER -> "not_text"
           o == Without(got, Len(sent), reads + 1)
<1>1. got \in Ends \ {"ok"}
  OBVIOUS
<1>2. calls' = Append(calls, o) /\ client' \in {"gone", "idle"}
  BY DEF TakeOther, Returns
<1> HIDE DEF got
<1>3. o \in Outcome /\ o.got # "ok" /\ o.place = Len(sent) /\ o.message = reads + 1
  BY <1>1 DEF Without, Outcome, ClientInv, ClientTypeOK
<1> HIDE DEF o
<1>4. /\ socket' \in {socket, "closing"} /\ reads' = reads + 1
      /\ Arrived /\ UNCHANGED <<link, sent, posted>>
  BY DEF TakeOther
<1>5. QED
  BY <1>2, <1>3, <1>4, ReadNext

(* There is no message: after it the connection cannot be written to.      *)
LEMMA ReadFailsInv == ClientInv /\ ReadFails => ClientInv'
<1> SUFFICES ASSUME ClientInv, ReadFails PROVE ClientInv'
  OBVIOUS
<1>1. PICK o \in Outcome :
        /\ o.place = Len(sent) /\ o.message = 0 /\ o.got # "ok"
        /\ calls' = Append(calls, o)
  <2> DEFINE w == Without("read_error", Len(sent), 0)
  <2>1. w \in Outcome /\ w.place = Len(sent) /\ w.message = 0 /\ w.got # "ok"
    BY DEF Without, Outcome, ClientInv, ClientTypeOK
  <2>2. calls' = Append(calls, w)
    BY DEF ReadFails, Returns
  <2>3. QED
    BY <2>1, <2>2
<1>2. client' \in {"gone", "idle"}
  BY DEF ReadFails, Returns
<1>3. socket' # "active" \/ link' = "reset"
  BY DEF ReadFails, ClientInv, ClientTypeOK
<1>4. Settled(o)'
  BY <1>1, <1>2, <1>3 DEF ReadFails, Settled, ClientInv, ClientTypeOK
<1>5. \A i \in DOMAIN calls : Settled(calls[i])'
  <2> SUFFICES ASSUME NEW i \in DOMAIN calls PROVE Settled(calls[i])'
    OBVIOUS
  <2>1. Settled(calls[i]) /\ calls'[i] = calls[i]
    BY <1>1, <1>2 DEF ClientInv, ClientTypeOK, CallsInv
  <2>2. QED
    BY <1>2, <1>3, <2>1 DEF ReadFails, Settled
<1>6. calls' \in Seq(Outcome) /\ CallsInv'
  <2>1. calls \in Seq(Outcome) /\ Distinct
    BY DEF ClientInv, ClientTypeOK, CallsInv
  <2>2. QED
    BY <1>1, <1>4, <1>5, <2>1, OneMoreCall
<1>7. ClientTypeOK' /\ Pace' /\ Answers' /\ InTurn'
  BY <1>2, <1>3, <1>6 DEF ReadFails, ClientInv, ClientTypeOK, Pace, Answers, InTurn
<1>8. QED
  BY <1>6, <1>7 DEF ClientInv

-----------------------------------------------------------------------------
(* The exchange sends one more message. *)
LEMMA PostInv ==
  ASSUME ClientInv, NEW m \in Message, Post(m),
         m.kind = "answer" => m.re \in 1 .. Len(sent) /\ Unanswered(m.re)
  PROVE  ClientInv'
<1>1. /\ posted' \in Seq(Message) /\ Len(posted') = Len(posted) + 1
      /\ \A k \in 1 .. Len(posted) : posted'[k] = posted[k]
      /\ posted'[Len(posted) + 1] = m
  BY DEF Post, ClientInv, ClientTypeOK
<1>2. /\ DOMAIN posted = 1 .. Len(posted) /\ Len(posted) \in Nat
      /\ \A k \in DOMAIN posted' : k \in DOMAIN posted \/ k = Len(posted) + 1
  BY <1>1 DEF ClientInv, ClientTypeOK
<1>3. ClientTypeOK' /\ Pace'
  BY <1>1 DEF Post, ClientInv, ClientTypeOK, Pace
<1>4. Answers'
  <2>1. ASSUME NEW k \in DOMAIN posted', posted'[k].kind = "answer"
        PROVE  posted'[k].re \in 1 .. Len(sent')
    BY <1>1, <1>2, <2>1 DEF Post, ClientInv, Answers
  <2>2. ASSUME NEW j \in DOMAIN posted', NEW k \in DOMAIN posted', j # k,
               posted'[j].kind = "answer", posted'[k].kind = "answer"
        PROVE  posted'[j].re # posted'[k].re
    <3>1. CASE j \in DOMAIN posted /\ k \in DOMAIN posted
      BY <1>1, <1>2, <2>2, <3>1 DEF ClientInv, Answers
    <3>2. CASE j \in DOMAIN posted /\ k = Len(posted) + 1
      BY <1>1, <1>2, <2>2, <3>2 DEF Unanswered
    <3>3. CASE k \in DOMAIN posted /\ j = Len(posted) + 1
      BY <1>1, <1>2, <2>2, <3>3 DEF Unanswered
    <3>4. QED
      BY <1>2, <2>2, <3>1, <3>2, <3>3
  <2>3. QED
    BY <2>1, <2>2 DEF Answers
<1>5. InTurn'
  <2> SUFFICES ASSUME NEW k \in DOMAIN posted',
                      \A j \in 1 .. k : posted'[j].kind = "answer"
               PROVE  posted'[k].re = k
    BY DEF InTurn
  <2>1. CASE k \in DOMAIN posted
    BY <2>1, <1>1, <1>2 DEF ClientInv, InTurn
  <2>2. CASE k = Len(posted) + 1
    (* The earlier ones are answered, each in its turn; what is left to    *)
    (* answer is no later than this.                                       *)
    <3>1. \A j \in 1 .. Len(posted) : posted[j].kind = "answer"
      BY <2>2, <1>1, <1>2
    <3>2. \A j \in 1 .. Len(posted) : posted[j].re = j
      BY <3>1, <1>2 DEF ClientInv, InTurn
    <3>3. m.kind = "answer" /\ m.re \in 1 .. Len(sent) /\ m.re \notin 1 .. Len(posted)
      BY <2>2, <3>1, <3>2, <1>1, <1>2 DEF Unanswered
    <3>4. Len(sent) \in Nat /\ Len(sent) <= Len(posted) + 1
      BY DEF ClientInv, ClientTypeOK, Pace
    <3>5. QED
      BY <2>2, <3>3, <3>4, <1>1, <1>2
  <2>3. QED
    BY <2>1, <2>2, <1>2
<1>6. CallsInv'
  <2>1. \A i \in DOMAIN calls : calls[i].message \in 0 .. reads
    BY DEF ClientInv, CallsInv, Settled
  <2>2. \A i \in 1 .. reads : posted'[i] = posted[i]
    BY <1>1, <1>2 DEF ClientInv, ClientTypeOK
  <2>3. QED
    BY <2>1, <2>2 DEF Post, ClientInv, ClientTypeOK, CallsInv, Settled, Distinct
<1>7. QED
  BY <1>3, <1>4, <1>5, <1>6 DEF ClientInv

LEMMA AnswerInv == ClientInv /\ Answer => ClientInv'
<1> SUFFICES ASSUME ClientInv, NEW i \in DOMAIN sent, Unanswered(i),
                    Post([kind |-> "answer", re |-> i])
             PROVE  ClientInv'
  BY DEF Answer
<1>1. i \in 1 .. Len(sent) /\ i \in Nat
  BY DEF ClientInv, ClientTypeOK
<1>2. [kind |-> "answer", re |-> i] \in Message
  BY <1>1 DEF Message
<1>3. QED
  BY <1>1, <1>2, PostInv

LEMMA PostOtherInv == ClientInv /\ PostOther => ClientInv'
<1> SUFFICES ASSUME ClientInv, NEW k \in Kinds \ {"answer"}, Post(Unasked(k))
             PROVE  ClientInv'
  BY DEF PostOther
<1>1. Unasked(k) \in Message /\ Unasked(k).kind # "answer"
  BY DEF Unasked, Message
<1>2. QED
  BY <1>1, PostInv

(* Messages under way are lost, none that was read. *)
LEMMA ResetInv == ClientInv /\ Reset => ClientInv'
<1> SUFFICES ASSUME ClientInv, NEW n \in reads .. Len(posted),
                    posted' = SubSeq(posted, 1, n), link' = "reset",
                    UNCHANGED <<client, socket, sent, reads, calls>>
             PROVE  ClientInv'
  BY DEF Reset
<1>1. n \in Nat /\ n <= Len(posted) /\ reads <= n /\ Len(posted) \in Nat /\ reads \in Nat
  BY DEF ClientInv, ClientTypeOK
<1>2. \A i \in 1 .. n : posted[i] \in Message
  BY <1>1 DEF ClientInv, ClientTypeOK
<1>3. /\ posted' \in Seq(Message) /\ Len(posted') = n
      /\ \A k \in 1 .. n : posted'[k] = posted[k]
  BY <1>1, <1>2, SubSeqProperties
<1>4. DOMAIN posted' = 1 .. n /\ DOMAIN posted = 1 .. Len(posted)
  BY <1>3 DEF ClientInv, ClientTypeOK
<1>5. ClientTypeOK' /\ Pace'
  BY <1>1, <1>3 DEF ClientInv, ClientTypeOK, Pace
<1>6. Answers' /\ InTurn'
  BY <1>1, <1>3, <1>4 DEF ClientInv, Answers, InTurn
<1>7. CallsInv'
  <2>1. \A i \in DOMAIN calls : calls[i].message \in 0 .. reads
    BY DEF ClientInv, CallsInv, Settled
  <2>2. \A i \in 1 .. reads : posted'[i] = posted[i]
    BY <1>1, <1>3
  <2>3. QED
    BY <2>1, <2>2, <1>1 DEF ClientInv, CallsInv, Settled, Distinct
<1>8. QED
  BY <1>5, <1>6, <1>7 DEF ClientInv

-----------------------------------------------------------------------------
(* Every step of the client and of the exchange keeps the invariant. *)
LEMMA NextInv == ClientInv /\ [ClientNext]_clientVars => ClientInv'
<1> SUFFICES ASSUME ClientInv, [ClientNext]_clientVars PROVE ClientInv'
  OBVIOUS
<1>1. CASE ConnectFails
  BY <1>1, ConnectFailsInv
<1>2. CASE Authenticate
  BY <1>2, WrittenInv, UnwrittenInv DEF Authenticate
<1>3. ASSUME NEW r \in Requests, Call(r) PROVE ClientInv'
  BY <1>3, WrittenInv, UnwrittenInv DEF Call
<1>4. CASE CloseClient
  BY <1>4, CloseClientInv
<1>5. CASE ClientRead
  BY <1>5, TakeAnswerInv, TakeOtherInv, ReadFailsInv DEF ClientRead
<1>6. CASE Exchange
  BY <1>6, AnswerInv, PostOtherInv, ShutInv, ResetInv DEF Exchange
<1>7. CASE UNCHANGED clientVars
  BY <1>7 DEF clientVars, ClientInv, ClientTypeOK, Pace, Answers, InTurn, CallsInv,
              Settled, Distinct
<1>8. QED
  BY <1>1, <1>2, <1>3, <1>4, <1>5, <1>6, <1>7 DEF ClientNext

(* The inductive invariant holds in every state, whatever the exchange     *)
(* sends and whenever the connection fails (binance_client.rs:56-244).     *)
THEOREM ClientInvariance == ClientSpec => []ClientInv
  BY InitInv, NextInv, PTL DEF ClientSpec

(* What the invariant is for. *)
LEMMA InvImplies ==
  ClientInv => InStep /\ OwnAnswer /\ AnsweredOnce /\ OneFateUnknown
<1> SUFFICES ASSUME ClientInv
             PROVE  InStep /\ OwnAnswer /\ AnsweredOnce /\ OneFateUnknown
  OBVIOUS
<1>1. \A i \in DOMAIN calls : Settled(calls[i])
  BY DEF ClientInv, CallsInv
<1>2. InStep /\ OneFateUnknown
  BY <1>1 DEF InStep, OneFateUnknown, Settled
<1>3. \A i \in DOMAIN calls : calls[i].message # 0 => calls[i].message \in DOMAIN posted
  BY <1>1 DEF Settled, ClientInv, ClientTypeOK
<1>4. OwnAnswer
  BY <1>1, <1>3 DEF OwnAnswer, Settled, ClientInv, InTurn
<1>5. AnsweredOnce
  <2> SUFFICES ASSUME NEW i \in DOMAIN calls, NEW j \in DOMAIN calls, calls[i].got = "ok"
               PROVE  /\ calls[i].answer \in 1 .. calls[i].place
                      /\ i # j /\ calls[j].got = "ok" => calls[i].answer # calls[j].answer
    BY DEF AnsweredOnce
  <2>1. calls[i].answer \in 1 .. calls[i].place
    BY <1>1 DEF Settled
  <2>2. ASSUME i # j, calls[j].got = "ok" PROVE calls[i].answer # calls[j].answer
    <3>1. calls[i].message # calls[j].message
      BY <1>1, <2>2 DEF Settled, ClientInv, CallsInv, Distinct
    <3>2. QED
      BY <1>1, <1>3, <2>2, <3>1 DEF Settled, ClientInv, Answers
  <2>3. QED
    BY <2>1, <2>2
<1>6. QED
  BY <1>2, <1>4, <1>5

(* A client that is one message behind stays behind, and one that is not   *)
(* returns its own answer to each call that succeeds.                      *)
THEOREM AnswerIsOwn == ClientSpec => [](InStep /\ OwnAnswer)
  BY ClientInvariance, InvImplies, PTL

(* No answer is returned twice or before it was asked for. *)
THEOREM AnswerIsReturnedOnce == ClientSpec => []AnsweredOnce
  BY ClientInvariance, InvImplies, PTL

(* At most one order's fate is unknown, and it is the last one written. *)
THEOREM OneUnknown == ClientSpec => []OneFateUnknown
  BY ClientInvariance, InvImplies, PTL

-----------------------------------------------------------------------------
(* The program.                                                            *)

HIDE DEF Kinds, Ends, Places
USE TraderAssumption

(* What the loop and the threads do to the book's channel. *)
Rest == TypeOK /\ Attention /\ BookQueue /\ UpToDate /\ OneOrderPerUpdate

LEMMA TraderInitInv == Init => TraderInv
<1> SUFFICES ASSUME Init PROVE TraderInv
  OBVIOUS
<1>1. ClientInv
  BY InitInv DEF Init
<1>2. TypeOK
  BY <1>1 DEF Init, TypeOK, ClientInv
<1>3. Attention /\ BookQueue /\ UpToDate /\ OneOrderPerUpdate
  BY DEF Init, ClientInit, Attention, BookQueue, UpToDate, Started, OneOrderPerUpdate, Channels
<1>4. QED
  BY <1>1, <1>2, <1>3 DEF TraderInv

-----------------------------------------------------------------------------
(* Steps that leave the book's channel alone. *)

(* Of the invariant, the parts that are about the book only. *)
LEMMA BookAlone ==
  ASSUME TraderInv, queue'["book"] = queue["book"], taken'["book"] = taken["book"],
         UNCHANGED made
  PROVE  BookQueue'
  BY DEF TraderInv, BookQueue

LEMMA StartingInv ==
  ASSUME TraderInv, LogOn \/ StartThreads \/ MainReturns
  PROVE  Rest'
<1>1. CASE LogOn
  <2>1. BookQueue'
    BY <1>1, BookAlone DEF LogOn, mainVars
  <2>2. TypeOK'
    BY <1>1, ConnectFailsInv, WrittenInv, UnwrittenInv DEF LogOn, mainVars, Authenticate, TraderInv, TypeOK, ClientInv
  <2>3. at = "start" /\ at' = "start" /\ taken' = taken /\ taken["book"] = 0
    BY <1>1 DEF LogOn, mainVars, TraderInv, Attention
  <2>4. ASSUME ConnectFails PROVE Attention' /\ UpToDate' /\ OneOrderPerUpdate'
    BY <2>3, <2>4 DEF ConnectFails, TraderInv, Attention, UpToDate, OneOrderPerUpdate, Started,
                      Channels
  <2>5. ASSUME client = "new", Written(Logon)
        PROVE  Attention' /\ UpToDate' /\ OneOrderPerUpdate'
    <3>1. sent = << >> /\ sent' = <<Logon>> /\ client' = "logging_in"
      BY <2>3, <2>5 DEF Written, TraderInv, Attention
    <3>2. QED
      BY <2>3, <3>1 DEF Attention, UpToDate, OneOrderPerUpdate, Started, Channels
  <2>6. ASSUME client = "new", Unwritten
        PROVE  Attention' /\ UpToDate' /\ OneOrderPerUpdate'
    <3>1. sent = << >> /\ sent' = << >> /\ client' = "gone"
      BY <2>3, <2>6 DEF Unwritten, Returns, TraderInv, Attention
    <3>2. QED
      BY <2>3, <3>1 DEF Attention, UpToDate, OneOrderPerUpdate, Started, Channels
  <2>7. Attention' /\ UpToDate' /\ OneOrderPerUpdate'
    BY <1>1, <2>4, <2>5, <2>6 DEF LogOn, Authenticate
  <2>8. QED
    BY <2>1, <2>2, <2>7 DEF Rest
<1>2. CASE StartThreads \/ MainReturns
  <2>1. BookQueue'
    BY <1>2, BookAlone DEF StartThreads, MainReturns
  <2>2. TypeOK'
    BY <1>2 DEF StartThreads, MainReturns, clientVars, TraderInv, TypeOK, ClientTypeOK, Channels
  <2>3. /\ at = "start" /\ client \in {"idle", "gone"} /\ taken["book"] = 0
        /\ client = "idle" => Len(sent) = 1
        /\ client = "gone" => at' = "stopped" /\ Len(sent) <= 1
        /\ client = "idle" => at' = "user"
        /\ UNCHANGED <<clientVars, taken>>
    BY <1>2 DEF StartThreads, MainReturns, TraderInv, Attention
  <2>4. UNCHANGED <<client, socket, link, sent>>
    BY <2>3 DEF clientVars
  <2>5. Attention' /\ UpToDate'
    <3>1. CASE client = "idle"
      BY <2>3, <2>4, <3>1 DEF Attention, UpToDate, Started, Channels
    <3>2. CASE client = "gone"
      BY <2>3, <2>4, <3>2 DEF Attention, UpToDate, Started, Channels
    <3>3. QED
      BY <2>3, <3>1, <3>2
  <2>6. OneOrderPerUpdate'
    BY <2>3, <2>4 DEF OneOrderPerUpdate, TraderInv
  <2>7. QED
    BY <2>1, <2>2, <2>5, <2>6 DEF Rest
<1>3. QED
  BY <1>1, <1>2

(* The loop looks into a channel other than that of the book. *)
LEMMA OtherChannelInv ==
  ASSUME TraderInv, NEW c \in Channels, NEW next \in Channels, c # "book",
         Empty(c, next) \/ Discard(c, next) \/ Look(c, next)
  PROVE  Rest'
<1>1. /\ at = c /\ at' \in {next, "stopped"}
      /\ UNCHANGED <<clientVars, made>>
  <2>1. CASE Empty(c, next)
    BY <2>1 DEF Empty
  <2>2. CASE Discard(c, next)
    BY <2>2 DEF Discard, Take
  <2>3. CASE Look(c, next)
    BY <2>3 DEF Look, Take
  <2>4. QED
    BY <2>1, <2>2, <2>3
<1>2. /\ queue' \in [Channels -> Seq(Update)] /\ taken' \in [Channels -> Nat]
      /\ queue'["book"] = queue["book"] /\ taken'["book"] = taken["book"]
  <2>1. /\ queue \in [Channels -> Seq(Update)] /\ taken \in [Channels -> Nat]
    BY DEF TraderInv, TypeOK
  <2>2. CASE Empty(c, next)
    BY <2>1, <2>2 DEF Empty
  <2>3. CASE Take(c)
    <3>1. Tail(queue[c]) \in Seq(Update) /\ taken[c] + 1 \in Nat
      BY <2>1, <2>3 DEF Take
    <3>2. QED
      BY <2>1, <2>3, <3>1 DEF Take, Channels
  <2>4. QED
    BY <2>2, <2>3 DEF Discard, Look
<1>3. UNCHANGED <<client, socket, link, sent, posted, reads, calls>>
  BY <1>1 DEF clientVars
<1>4. client = "idle"
  BY <1>1 DEF TraderInv, Attention
<1>5. BookQueue'
  BY <1>1, <1>2, BookAlone
<1>6. TypeOK'
  BY <1>1, <1>2, <1>3 DEF TraderInv, TypeOK, ClientTypeOK
<1>7. Attention' /\ UpToDate' /\ OneOrderPerUpdate'
  BY <1>1, <1>2, <1>3, <1>4 DEF Attention, UpToDate, OneOrderPerUpdate, TraderInv, Started,
                                Channels
<1>8. QED
  BY <1>5, <1>6, <1>7 DEF Rest

LEMMA NoBookInv ==
  ASSUME TraderInv, Empty("book", "other") \/ Ordered
  PROVE  Rest'
<1>1. /\ at \in {"book", "ordering"} /\ at' = "other" /\ client = "idle"
      /\ UNCHANGED <<clientVars, queue, made, taken>>
  BY DEF Empty, Ordered, TraderInv, Attention, Channels
<1>2. UNCHANGED <<client, socket, link, sent, posted, reads, calls>>
  BY <1>1 DEF clientVars
<1>3. BookQueue'
  BY <1>1, BookAlone
<1>4. TypeOK'
  BY <1>1, <1>2 DEF TraderInv, TypeOK, ClientTypeOK, Channels
<1>5. Attention' /\ UpToDate' /\ OneOrderPerUpdate'
  BY <1>1, <1>2 DEF Attention, UpToDate, OneOrderPerUpdate, TraderInv, Started, Channels
<1>6. QED
  BY <1>3, <1>4, <1>5 DEF Rest

-----------------------------------------------------------------------------
(* The book's channel. *)

(* The thread that feeds it, if it is that one, sends the next update. *)
LEMMA FeedSendsInv ==
  ASSUME TraderInv, NEW f \in Feeds, FeedSends(f)
  PROVE  Rest'
<1> PICK readable \in BOOLEAN :
      queue' = [queue EXCEPT ![f.to] =
                  Append(@, [feed |-> f, n |-> made[f] + 1, readable |-> readable])]
  BY DEF FeedSends
<1> DEFINE u == [feed |-> f, n |-> made[f] + 1, readable |-> readable]
<1>1. /\ f.to \in Channels /\ f.most \in Nat /\ made[f] \in Nat /\ made[f] < f.most
      /\ made' = [made EXCEPT ![f] = @ + 1] /\ made \in [Feeds -> Nat]
      /\ UNCHANGED <<clientVars, at, taken>>
  BY DEF FeedSends, TraderInv, TypeOK
<1>2. u \in Update /\ u.n = made[f] + 1
  BY <1>1 DEF Update
<1>3. queue \in [Channels -> Seq(Update)] /\ queue' = [queue EXCEPT ![f.to] = Append(@, u)]
  BY DEF TraderInv, TypeOK
<1> HIDE DEF u
<1>4. UNCHANGED <<client, socket, link, sent, posted, reads, calls>>
  BY <1>1 DEF clientVars
<1>5. queue' \in [Channels -> Seq(Update)]
  BY <1>1, <1>2, <1>3
<1>6. TypeOK'
  BY <1>1, <1>4, <1>5 DEF TraderInv, TypeOK, ClientTypeOK
<1>7. BookQueue'
  <2>1. CASE f.to = "book"
    <3>1. queue'["book"] = Append(queue["book"], u) /\ queue["book"] \in Seq(Update)
      BY <1>1, <1>3, <2>1
    <3>2. made[f] = taken["book"] + Len(queue["book"]) /\ taken["book"] \in Nat
      BY <2>1, <1>1 DEF TraderInv, TypeOK, BookQueue, Channels
    <3>3. u.n = taken["book"] + Len(queue["book"]) + 1 /\ OrderFor(u.n) \in Requests
      BY <1>1, <1>2, <3>2
    <3>4. /\ Len(queue'["book"]) = Len(queue["book"]) + 1
          /\ \A j \in 1 .. Len(queue["book"]) : queue'["book"][j] = queue["book"][j]
          /\ queue'["book"][Len(queue["book"]) + 1] = u
          /\ \A j \in DOMAIN queue'["book"] :
               j \in DOMAIN queue["book"] \/ j = Len(queue["book"]) + 1
      BY <1>2, <3>1
    <3>5. \A g \in Feeds : g.to = "book" => g = f
      BY <2>1
    <3>6. made'[f] = made[f] + 1
      BY <1>1
    <3>7. \A j \in DOMAIN queue'["book"] :
            /\ queue'["book"][j].n = taken["book"] + j
            /\ OrderFor(queue'["book"][j].n) \in Requests
      <4>1. ASSUME NEW j \in DOMAIN queue["book"]
            PROVE  /\ queue'["book"][j].n = taken["book"] + j
                   /\ OrderFor(queue'["book"][j].n) \in Requests
        <5>1. queue'["book"][j] = queue["book"][j]
          BY <3>1, <3>4
        <5>2. QED
          BY <5>1 DEF TraderInv, BookQueue
      <4>2. /\ queue'["book"][Len(queue["book"]) + 1].n = taken["book"] + (Len(queue["book"]) + 1)
            /\ OrderFor(queue'["book"][Len(queue["book"]) + 1].n) \in Requests
        <5>1. queue'["book"][Len(queue["book"]) + 1] = u /\ Len(queue["book"]) \in Nat
          BY <3>1, <3>4
        <5> DEFINE held == Len(queue["book"])
                   done == taken["book"]
        <5>2. done \in Nat /\ held \in Nat
          BY <3>2, <5>1
        <5>3. u.n = done + held + 1
          BY <3>3
        <5> HIDE DEF held, done
        <5>4. u.n = done + (held + 1)
          BY <5>2, <5>3
        <5> QED BY <3>3, <5>1, <5>4 DEF held, done
      <4>3. QED
        BY <3>4, <4>1, <4>2
    <3>8. made'[f] = taken["book"] + Len(queue'["book"])
      <4> DEFINE held == Len(queue["book"])
                 done == taken["book"]
      <4>1. done \in Nat /\ held \in Nat /\ Len(queue'["book"]) = held + 1
        BY <3>1, <3>2, <3>4
      <4>2. made'[f] = done + held + 1
        BY <3>2, <3>6
      <4> HIDE DEF held, done
      <4>3. made'[f] = done + (held + 1)
        BY <4>1, <4>2
      <4> QED BY <4>1, <4>3 DEF done
    <3>9. taken' = taken
      BY <1>1
    <3>10. QED
      BY <3>5, <3>7, <3>8, <3>9 DEF BookQueue
  <2>2. CASE f.to # "book"
    <3>1. queue'["book"] = queue["book"]
      BY <1>3, <2>2 DEF Channels
    <3>2. \A g \in Feeds : g.to = "book" => made'[g] = made[g]
      BY <1>1, <2>2
    <3>3. QED
      BY <1>1, <3>1, <3>2 DEF TraderInv, BookQueue
  <2>3. QED
    BY <2>1, <2>2
<1>8. Attention' /\ UpToDate' /\ OneOrderPerUpdate'
  <2>1. Attention'
    BY <1>1, <1>4 DEF TraderInv, Attention
  <2>2. UpToDate'
    BY <1>1, <1>4 DEF TraderInv, UpToDate, Started
  <2>3. OneOrderPerUpdate'
    BY <1>1, <1>4 DEF TraderInv, OneOrderPerUpdate
  <2>4. QED
    BY <2>1, <2>2, <2>3
<1>9. QED
  BY <1>6, <1>7, <1>8 DEF Rest

(* The loop takes an update of the book. *)
LEMMA TakeBook ==
  ASSUME TraderInv, Take("book")
  PROVE  /\ Head(queue["book"]).n = taken["book"] + 1
         /\ OrderFor(Head(queue["book"]).n) \in Requests
         /\ taken'["book"] = taken["book"] + 1 /\ taken["book"] \in Nat
         /\ queue' \in [Channels -> Seq(Update)] /\ taken' \in [Channels -> Nat]
         /\ BookQueue'
<1> DEFINE q == queue["book"]
<1>1. /\ queue \in [Channels -> Seq(Update)] /\ taken \in [Channels -> Nat]
      /\ q \in Seq(Update) /\ q # << >> /\ taken["book"] \in Nat /\ "book" \in Channels
      /\ queue' = [queue EXCEPT !["book"] = Tail(@)]
      /\ taken' = [taken EXCEPT !["book"] = @ + 1] /\ made' = made
  BY DEF Take, TraderInv, TypeOK, Channels
<1>2. /\ Tail(q) \in Seq(Update) /\ Len(Tail(q)) = Len(q) - 1 /\ Len(q) \in Nat
      /\ Head(q) = q[1] /\ 1 \in DOMAIN q
      /\ \A j \in DOMAIN Tail(q) : j \in Nat /\ j + 1 \in DOMAIN q /\ Tail(q)[j] = q[j + 1]
  BY <1>1
<1>3. queue'["book"] = Tail(q) /\ taken'["book"] = taken["book"] + 1
  BY <1>1
<1>4. queue' \in [Channels -> Seq(Update)] /\ taken' \in [Channels -> Nat]
  BY <1>1, <1>2
<1>5. \A j \in DOMAIN q : q[j].n = taken["book"] + j /\ OrderFor(q[j].n) \in Requests
  BY DEF TraderInv, BookQueue
<1>6. \A f \in Feeds : f.to = "book" => made[f] = taken["book"] + Len(q)
  BY DEF TraderInv, BookQueue
<1> HIDE DEF q
<1>7. ASSUME NEW j \in DOMAIN Tail(q)
      PROVE  Tail(q)[j].n = taken["book"] + 1 + j /\ OrderFor(Tail(q)[j].n) \in Requests
  <2>1. q[j + 1].n = taken["book"] + (j + 1) /\ OrderFor(q[j + 1].n) \in Requests
    BY <1>2, <1>5
  <2>2. \A a, b \in Nat : a + (b + 1) = a + 1 + b
    OBVIOUS
  <2>3. QED
    BY <1>1, <1>2, <2>1, <2>2
<1>8. \A f \in Feeds : f.to = "book" => made'[f] = taken["book"] + 1 + Len(Tail(q))
  <2>1. \A a, b \in Nat : a + b = a + 1 + (b - 1)
    OBVIOUS
  <2>2. QED
    BY <1>1, <1>2, <1>6, <2>1
<1>9. BookQueue'
  BY <1>3, <1>7, <1>8 DEF BookQueue
<1>10. Head(q).n = taken["book"] + 1 /\ OrderFor(Head(q).n) \in Requests
  BY <1>2, <1>5
<1>11. QED
  BY <1>1, <1>3, <1>4, <1>9, <1>10 DEF q

LEMMA PlaceOrderInv ==
  ASSUME TraderInv, PlaceOrder
  PROVE  Rest'
<1> DEFINE head == Head(queue["book"])
<1>1. /\ Take("book") /\ at = "book" /\ client = "idle" /\ UNCHANGED made
      /\ IF head.readable
         THEN /\ Call(OrderFor(head.n))
              /\ at' = "ordering"
         ELSE at' = "stopped" /\ UNCHANGED clientVars
  BY DEF PlaceOrder, Take, TraderInv, Attention, Channels
<1>2. /\ head.n = taken["book"] + 1 /\ OrderFor(head.n) \in Requests
      /\ taken'["book"] = taken["book"] + 1 /\ taken["book"] \in Nat
      /\ queue' \in [Channels -> Seq(Update)] /\ taken' \in [Channels -> Nat]
      /\ BookQueue'
  BY <1>1, TakeBook
<1> HIDE DEF head
<1>3. CASE ~head.readable
  <2>1. at' = "stopped" /\ UNCHANGED <<client, socket, link, sent, posted, reads, calls>>
    BY <1>1, <1>3 DEF clientVars
  <2>2. TypeOK'
    BY <1>1, <1>2, <2>1 DEF TraderInv, TypeOK, ClientTypeOK
  <2>3. Attention' /\ UpToDate'
    BY <1>1, <2>1 DEF Attention, UpToDate, Started, Channels
  <2>4. OneOrderPerUpdate'
    BY <1>2, <2>1 DEF TraderInv, TypeOK, ClientTypeOK, OneOrderPerUpdate
  <2>5. QED
    BY <1>2, <2>2, <2>3, <2>4 DEF Rest
<1>4. CASE head.readable /\ Unwritten
  <2>1. /\ socket # "active" \/ link = "reset"
        /\ client' = "idle" /\ at' = "ordering" /\ UNCHANGED <<socket, link, sent>>
    BY <1>1, <1>4 DEF Unwritten, Returns
  <2>2. ClientTypeOK'
    BY <1>1, <1>4, UnwrittenInv DEF TraderInv, ClientInv
  <2>3. TypeOK'
    BY <1>1, <1>2, <2>1, <2>2 DEF TraderInv, TypeOK
  <2>4. Attention' /\ UpToDate'
    BY <1>1, <2>1 DEF Attention, UpToDate, Started, Channels
  <2>5. OneOrderPerUpdate'
    BY <1>2, <2>1 DEF TraderInv, TypeOK, ClientTypeOK, OneOrderPerUpdate
  <2>6. QED
    BY <1>2, <2>3, <2>4, <2>5 DEF Rest
<1>5. CASE head.readable /\ Written(OrderFor(head.n))
  <2>1. /\ socket = "active" /\ link # "reset" /\ UNCHANGED <<socket, link>>
        /\ client' = "reading" /\ at' = "ordering" /\ sent' = Append(sent, OrderFor(head.n))
    BY <1>1, <1>5 DEF Written
  <2>2. ClientTypeOK'
    BY <1>1, <1>2, <1>5, WrittenInv DEF TraderInv, ClientInv
  <2>3. TypeOK'
    BY <1>1, <1>2, <2>1, <2>2 DEF TraderInv, TypeOK
  <2>4. Len(sent) = taken["book"] + 1 /\ sent \in Seq(Requests \cup {Logon})
    BY <1>1, <2>1 DEF TraderInv, TypeOK, ClientTypeOK, UpToDate, Started
  <2>5. /\ Len(sent') = taken["book"] + 2
        /\ \A i \in 1 .. Len(sent) : sent'[i] = sent[i]
        /\ sent'[Len(sent')] = OrderFor(taken["book"] + 1)
    <3>1. sent' = Append(sent, OrderFor(taken["book"] + 1)) /\ taken["book"] \in Nat
      BY <1>2, <2>1
    <3>2. OrderFor(taken["book"] + 1) \in Requests \cup {Logon}
      BY <1>2
    <3> DEFINE done == taken["book"]
               order == OrderFor(taken["book"] + 1)
    <3>3. /\ sent' = Append(sent, order) /\ done \in Nat /\ order \in Requests \cup {Logon}
          /\ Len(sent) = done + 1
      BY <2>4, <3>1, <3>2
    <3> HIDE DEF done, order
    <3>4. /\ Len(sent') = done + 2 /\ sent'[Len(sent')] = order
          /\ \A i \in 1 .. Len(sent) : sent'[i] = sent[i]
      BY <2>4, <3>3
    <3> QED BY <3>4 DEF done, order
  <2>6. Attention' /\ UpToDate'
    <3> DEFINE done == taken["book"]
    <3>1. Len(sent') = done + 2 /\ taken'["book"] = done + 1 /\ done \in Nat
      BY <1>2, <2>5
    <3> HIDE DEF done
    <3>2. Len(sent') = taken'["book"] + 1
      BY <3>1
    <3>3. Attention'
      BY <2>1 DEF Attention, Channels
    <3> QED BY <3>2, <3>3 DEF UpToDate
  <2>7. ASSUME NEW i \in 2 .. Len(sent') PROVE sent'[i] = OrderFor(i - 1)
    <3>1. CASE i \in 2 .. Len(sent)
      BY <2>4, <2>5, <3>1, <1>2 DEF TraderInv, OneOrderPerUpdate
    <3>2. CASE i = Len(sent')
      <4>1. i - 1 = taken["book"] + 1
        BY <1>2, <2>5, <3>2
      <4>2. QED
        BY <2>5, <3>2, <4>1
    <3>3. QED
      BY <1>2, <2>4, <2>5, <2>7, <3>1, <3>2
  <2>8. OneOrderPerUpdate'
    BY <1>2, <2>5, <2>7 DEF OneOrderPerUpdate
  <2>9. QED
    BY <1>2, <2>3, <2>6, <2>8 DEF Rest
<1>6. QED
  BY <1>1, <1>3, <1>4, <1>5 DEF Call

-----------------------------------------------------------------------------
(* The order client reads, or the exchange does something. *)
LEMMA ClientStepInv ==
  ASSUME TraderInv, ClientInv', UNCHANGED mainVars,
         ClientRead \/ (Exchange /\ at # "stopped")
  PROVE  Rest'
<1>1. UNCHANGED <<at, queue, made, taken>> /\ UNCHANGED sent
  BY DEF mainVars, ClientRead, TakeAnswer, TakeOther, ReadFails, Exchange, Answer, PostOther,
         Post, Shut, Reset
<1>2. TypeOK'
  BY <1>1 DEF TraderInv, TypeOK, ClientInv
<1>3. BookQueue'
  BY <1>1, BookAlone
<1>4. socket' = "active" /\ link' # "reset" => socket = "active" /\ link # "reset"
  BY DEF ClientRead, TakeAnswer, TakeOther, ReadFails, Exchange, Answer, PostOther,
         Post, Shut, Reset, Arrived
<1>5. UpToDate'
  BY <1>1, <1>4 DEF TraderInv, UpToDate, Started
<1>6. \/ client' = client
      \/ Reading /\ client' = "idle"
      \/ client = "logging_in" /\ client' = "gone"
  BY DEF ClientRead, TakeAnswer, TakeOther, ReadFails, Exchange, Answer, PostOther,
         Post, Shut, Reset, Arrived, Returns
<1>7. Attention'
  BY <1>1, <1>6 DEF TraderInv, Attention
<1>8. OneOrderPerUpdate'
  BY <1>1, <1>6 DEF TraderInv, OneOrderPerUpdate
<1>9. QED
  BY <1>2, <1>3, <1>5, <1>7, <1>8 DEF Rest

-----------------------------------------------------------------------------
(* Main does nothing to its order client but what OrderClient lists. *)
LEMMA StepOfClient == TraderInv /\ [Next]_vars => [ClientNext]_clientVars
<1> SUFFICES ASSUME TraderInv, [Next]_vars PROVE ClientNext \/ UNCHANGED clientVars
  OBVIOUS
<1>1. CASE LogOn
  BY <1>1 DEF LogOn, ClientNext
<1>2. CASE StartThreads \/ MainReturns \/ Ordered
  BY <1>2 DEF StartThreads, MainReturns, Ordered
<1>3. CASE PlaceOrder
  <2>1. OrderFor(Head(queue["book"]).n) \in Requests
    BY <1>3, TakeBook DEF PlaceOrder
  <2>2. QED
    BY <1>3, <2>1 DEF PlaceOrder, ClientNext
<1>4. ASSUME NEW c, NEW next, Empty(c, next) \/ Discard(c, next) \/ Look(c, next)
      PROVE  UNCHANGED clientVars
  BY <1>4 DEF Empty, Discard, Look
<1>5. CASE Turn
  BY <1>2, <1>3, <1>4, <1>5 DEF Turn
<1>6. CASE InCall \/ ExchangeActs
  BY <1>6 DEF InCall, ExchangeActs, ClientNext
<1>7. ASSUME NEW f \in Feeds, FeedSends(f) PROVE UNCHANGED clientVars
  BY <1>7 DEF FeedSends
<1>8. CASE UNCHANGED vars
  BY <1>8 DEF vars
<1>9. QED
  BY <1>1, <1>2, <1>5, <1>6, <1>7, <1>8 DEF Next, Main

LEMMA TraderNextInv == TraderInv /\ [Next]_vars => TraderInv'
<1> SUFFICES ASSUME TraderInv, [Next]_vars PROVE TraderInv'
  OBVIOUS
<1>1. ClientInv'
  BY StepOfClient, NextInv DEF TraderInv
<1> SUFFICES Rest'
  BY <1>1 DEF TraderInv, Rest
<1>2. CASE LogOn \/ StartThreads \/ MainReturns
  BY <1>2, StartingInv
<1>3. CASE Turn
  <2>1. ASSUME NEW c \in Channels, NEW next \in Channels, c # "book",
               Empty(c, next) \/ Discard(c, next) \/ Look(c, next)
        PROVE  Rest'
    BY <2>1, OtherChannelInv
  <2>2. CASE PlaceOrder
    BY <2>2, PlaceOrderInv
  <2>3. CASE Empty("book", "other") \/ Ordered
    BY <2>3, NoBookInv
  <2>4. QED
    BY <1>1, <1>3, <2>1, <2>2, <2>3 DEF Turn, Channels
<1>4. CASE InCall \/ ExchangeActs
  BY <1>1, <1>4, ClientStepInv DEF InCall, ExchangeActs
<1>5. ASSUME NEW f \in Feeds, FeedSends(f) PROVE Rest'
  BY <1>5, FeedSendsInv
<1>6. CASE UNCHANGED vars
  <2>1. /\ UNCHANGED <<at, queue, made, taken>>
        /\ UNCHANGED <<client, socket, link, sent, posted, reads, calls>>
    BY <1>6 DEF vars, clientVars, mainVars
  <2>2. BookQueue' /\ TypeOK'
    BY <2>1, BookAlone DEF TraderInv, TypeOK, ClientTypeOK
  <2>3. Attention' /\ UpToDate' /\ OneOrderPerUpdate'
    BY <2>1 DEF TraderInv, Attention, UpToDate, Started, OneOrderPerUpdate
  <2>4. QED
    BY <2>2, <2>3 DEF Rest
<1>7. QED
  BY <1>2, <1>3, <1>4, <1>5, <1>6 DEF Next, Main

(* The invariant of the program holds in every state, however many threads *)
(* send however much and whatever the exchange does (main.rs:43-130).      *)
THEOREM TraderInvariance == Spec => []TraderInv
  BY TraderInitInv, TraderNextInv, PTL DEF Spec

(* Each update of the book becomes one order, in their order, until the    *)
(* connection to the exchange is lost.                                     *)
THEOREM EveryUpdateOnce == Spec => []OneOrderPerUpdate
  BY TraderInvariance, PTL DEF TraderInv

(* The program drives its order client as OrderClient says: main, with its *)
(* channels and threads, implements it.                                    *)
THEOREM UsesClient == Spec => ClientSpec
<1>1. Init => ClientInit
  BY DEF Init
<1>2. QED
  BY <1>1, TraderInvariance, StepOfClient, PTL DEF Spec, ClientSpec

(* So the answers that the program gets are the answers to its own orders, *)
(* if nothing but answers came before them, and none comes twice.          *)
THEOREM ProgramAnswers == Spec => [](OwnAnswer /\ AnsweredOnce /\ OneFateUnknown)
  BY UsesClient, ClientInvariance, InvImplies, PTL

-----------------------------------------------------------------------------
HIDE TraderAssumption DEF Kinds, Ends, Reading, Places

(* Induction.                                                              *)

NatLess == {p \in Nat \X Nat : p[1] < p[2]}

LEMMA LeastNat ==
  ASSUME NEW T \in SUBSET Nat, T # {}
  PROVE  \E x \in T : \A y \in T : x <= y
<1>1. IsWellFoundedOn(NatLess, Nat)
  BY NatLessThanWellFounded DEF NatLess, OpToRel
<1>2. PICK x \in T : \A y \in T : ~(<<y, x>> \in NatLess)
  BY <1>1, WFMin
<1>3. ASSUME NEW y \in T PROVE x <= y
  <2>1. x \in Nat /\ y \in Nat /\ <<y, x>> \in Nat \X Nat
    OBVIOUS
  <2>2. ~(<<y, x>>[1] < <<y, x>>[2])
    BY <1>2, <2>1 DEF NatLess
  <2>3. <<y, x>>[1] = y /\ <<y, x>>[2] = x
    OBVIOUS
  <2>4. ~(y < x)
    BY <2>2, <2>3, Zenon
  <2> QED BY <2>1, <2>4
<1> QED BY <1>3

LEMMA InductiveSet ==
  ASSUME NEW T \in SUBSET Nat, 0 \in T, \A n \in T : n + 1 \in T
  PROVE  T = Nat
<1>1. SUFFICES ASSUME Nat \ T # {} PROVE FALSE
  OBVIOUS
<1>2. PICK x \in Nat \ T : \A y \in Nat \ T : x <= y
  <2>1. Nat \ T \in SUBSET Nat
    OBVIOUS
  <2> QED BY <1>1, <2>1, LeastNat
<1>3. x - 1 \in Nat /\ ~(x <= x - 1) /\ (x - 1) + 1 = x
  BY <1>2
<1>4. x - 1 \in T
  BY <1>2, <1>3
<1> QED BY <1>2, <1>3, <1>4

-----------------------------------------------------------------------------
(* Depth messages.  Tokens, and which of them are numerals.                *)

Tokens == [kind : {"plain", "long", "whole", "open", "close", "comma", "name", "brace"},
           value : Nat]

(* The two brackets that both parsers look for *)
Pair(t, q) == t[q] = Open /\ t[q + 1] = Open

LEMMA TokenTypes ==
  /\ {Open, Close, Comma, Name, Brace} \subseteq Tokens
  /\ Numerals \subseteq Tokens
  /\ Open \notin Numerals
  /\ Open # Close /\ Open # Comma /\ Open # Name /\ Open # Brace
  /\ Open.kind = "open" /\ Close.kind = "close" /\ Comma.kind = "comma"
  /\ Name.kind = "name" /\ Brace.kind = "brace"
<1>1. /\ Open = [kind |-> "open", value |-> 0] /\ Close = [kind |-> "close", value |-> 0]
      /\ Comma = [kind |-> "comma", value |-> 0] /\ Name = [kind |-> "name", value |-> 0]
      /\ Brace = [kind |-> "brace", value |-> 0]
  BY DEF Open, Close, Comma, Name, Brace, Token
<1>2. /\ Open.kind = "open" /\ Close.kind = "close" /\ Comma.kind = "comma"
      /\ Name.kind = "name" /\ Brace.kind = "brace"
  BY <1>1
<1>3. {Open, Close, Comma, Name, Brace} \subseteq Tokens
  BY <1>1 DEF Tokens
<1>4. Numerals \subseteq Tokens /\ \A n \in Numerals : n.kind # "open"
  BY DEF Numerals, Tokens
<1> QED BY <1>2, <1>3, <1>4

(* Where the tokens of a side are: the level i begins behind six for each  *)
(* level before it.                                                        *)
LEMMA LevelsTextIs ==
  ASSUME NEW levels \in Seq(Levels)
  PROVE  LET text == LevelsText(levels) IN
         /\ Span(levels) \in Nat
         /\ text \in Seq(Tokens) /\ Len(text) = Span(levels)
         /\ \A i \in 1 .. Len(levels) :
              /\ text[6 * i - 5] = Open
              /\ text[6 * i - 4] = levels[i].price
              /\ text[6 * i - 3] = Comma
              /\ text[6 * i - 2] = levels[i].quantity
              /\ text[6 * i - 1] = Close
              /\ i < Len(levels) => text[6 * i] = Comma
<1> DEFINE n == Len(levels)
           s == Span(levels)
           text == LevelsText(levels)
<1>1. n \in Nat /\ s \in Nat /\ (levels # <<>> => n >= 1 /\ s = 6 * n - 1) /\ (levels = <<>> => n = 0 /\ s = 0)
  BY DEF Span
<1>2. text = [k \in 1 .. s |-> IF k % 6 = 0 THEN Comma ELSE LevelText(levels[k \div 6 + 1])[k % 6]]
  BY DEF LevelsText
<1>3. ASSUME NEW l \in Levels
      PROVE  /\ l.price \in Tokens /\ l.quantity \in Tokens
             /\ LevelText(l)[1] = Open /\ LevelText(l)[2] = l.price /\ LevelText(l)[3] = Comma
             /\ LevelText(l)[4] = l.quantity /\ LevelText(l)[5] = Close
  BY TokenTypes DEF Levels, LevelText
<1> HIDE DEF s, text, n
<1>4. ASSUME NEW k \in 1 .. s PROVE text[k] \in Tokens
  <2>1. CASE k % 6 = 0
    BY <1>2, <2>1, TokenTypes
  <2>2. CASE k % 6 # 0
    <3>1. k \div 6 + 1 \in 1 .. n /\ k % 6 \in 1 .. 5
      BY <1>1, <2>2
    <3>2. levels[k \div 6 + 1] \in Levels
      BY <3>1 DEF n
    <3>3. k % 6 = 1 \/ k % 6 = 2 \/ k % 6 = 3 \/ k % 6 = 4 \/ k % 6 = 5
      BY <3>1
    <3>4. text[k] = LevelText(levels[k \div 6 + 1])[k % 6]
      BY <1>2, <2>2
    <3> QED BY <1>3, <3>2, <3>3, <3>4, TokenTypes
  <2> QED BY <2>1, <2>2
<1>5. text \in Seq(Tokens) /\ Len(text) = s
  BY <1>1, <1>2, <1>4
<1>6. ASSUME NEW i \in 1 .. n
      PROVE  /\ text[6 * i - 5] = Open
             /\ text[6 * i - 4] = levels[i].price
             /\ text[6 * i - 3] = Comma
             /\ text[6 * i - 2] = levels[i].quantity
             /\ text[6 * i - 1] = Close
             /\ i < n => text[6 * i] = Comma
  <2>1. levels[i] \in Levels
    BY DEF n
  <2>2. ASSUME NEW j \in 1 .. 5 PROVE text[6 * i - 6 + j] = LevelText(levels[i])[j]
    <3>1. 6 * i - 6 + j \in 1 .. s /\ (6 * i - 6 + j) % 6 = j /\ (6 * i - 6 + j) \div 6 + 1 = i /\ j # 0
      BY <1>1
    <3> QED BY <1>2, <3>1
  <2>3. /\ 6 * i - 6 + 1 = 6 * i - 5 /\ 6 * i - 6 + 2 = 6 * i - 4 /\ 6 * i - 6 + 3 = 6 * i - 3
        /\ 6 * i - 6 + 4 = 6 * i - 2 /\ 6 * i - 6 + 5 = 6 * i - 1
        /\ 1 \in 1 .. 5 /\ 2 \in 1 .. 5 /\ 3 \in 1 .. 5 /\ 4 \in 1 .. 5 /\ 5 \in 1 .. 5
    BY <1>1
  <2>4. ASSUME i < n PROVE text[6 * i] = Comma
    <3>1. 6 * i \in 1 .. s /\ (6 * i) % 6 = 0
      BY <1>1, <2>4
    <3> QED BY <1>2, <3>1
  <2>5. /\ text[6 * i - 5] = LevelText(levels[i])[1] /\ text[6 * i - 4] = LevelText(levels[i])[2]
        /\ text[6 * i - 3] = LevelText(levels[i])[3] /\ text[6 * i - 2] = LevelText(levels[i])[4]
        /\ text[6 * i - 1] = LevelText(levels[i])[5]
    BY <2>2, <2>3
  <2> QED BY <1>3, <2>1, <2>4, <2>5
<1> QED BY <1>1, <1>5, <1>6 DEF n, s, text

(* Of two texts with m and n tokens the second is behind the first.        *)
IsJoint(c, m, a, n, b) ==
  /\ c \in Seq(Tokens) /\ Len(c) = m + n
  /\ \A k \in 1 .. m : c[k] = a[k]
  /\ \A k \in 1 .. n : c[k + m] = b[k]

LEMMA Joint ==
  ASSUME NEW m \in Nat, NEW n \in Nat, NEW a \in Seq(Tokens), NEW b \in Seq(Tokens),
         Len(a) = m, Len(b) = n
  PROVE  IsJoint(a \o b, m, a, n, b)
<1>1. /\ a \o b \in Seq(Tokens) /\ Len(a \o b) = m + n
      /\ \A i \in 1 .. m + n : (a \o b)[i] = IF i <= m THEN a[i] ELSE b[i - m]
  BY ConcatProperties
<1>2. ASSUME NEW k \in 1 .. m PROVE (a \o b)[k] = a[k]
  BY <1>1
<1>3. ASSUME NEW k \in 1 .. n PROVE (a \o b)[k + m] = b[k]
  <2>1. k + m \in 1 .. m + n /\ ~(k + m <= m) /\ (k + m) - m = k
    OBVIOUS
  <2> QED BY <1>1, <2>1
<1> QED BY <1>1, <1>2, <1>3 DEF IsJoint

(* Where the parts of a message are. *)
LEMMA SideTextIs ==
  ASSUME NEW levels \in Seq(Levels)
  PROVE  LET side == SideText(levels)
             s == Span(levels) IN
         /\ side \in Seq(Tokens) /\ Len(side) = s + 3
         /\ side[1] = Name /\ side[2] = Open /\ side[s + 3] = Close
         /\ \A k \in 1 .. s : side[k + 2] = LevelsText(levels)[k]
<1> DEFINE text == LevelsText(levels)
           s == Span(levels)
           front == <<Name, Open>>
           behind == <<Close>>
           side == (front \o text) \o behind
<1>1. s \in Nat /\ text \in Seq(Tokens) /\ Len(text) = s
  BY LevelsTextIs
<1>2. /\ front \in Seq(Tokens) /\ Len(front) = 2 /\ front[1] = Name /\ front[2] = Open
      /\ behind \in Seq(Tokens) /\ Len(behind) = 1 /\ behind[1] = Close
  BY TokenTypes
<1>3. SideText(levels) = side
  BY DEF SideText
<1> HIDE DEF text, s, front, behind
<1>4. /\ front \o text \in Seq(Tokens) /\ Len(front \o text) = s + 2
      /\ (front \o text)[1] = Name /\ (front \o text)[2] = Open
      /\ \A k \in 1 .. s : (front \o text)[k + 2] = text[k]
  <2>1. 2 \in Nat
    OBVIOUS
  <2>2. IsJoint(front \o text, 2, front, s, text)
    BY <1>1, <1>2, <2>1, Joint
  <2> QED BY <1>1, <1>2, <2>2 DEF IsJoint
<1> DEFINE most == front \o text
<1>5. most \in Seq(Tokens) /\ Len(most) = s + 2 /\ most[1] = Name /\ most[2] = Open
      /\ \A k \in 1 .. s : most[k + 2] = text[k]
  BY <1>4
<1>6. side = most \o behind
  OBVIOUS
<1> HIDE DEF side, most
<1>7. IsJoint(side, s + 2, most, 1, behind)
  <2>1. s + 2 \in Nat /\ 1 \in Nat
    BY <1>1
  <2> QED BY <1>2, <1>5, <1>6, <2>1, Joint
<1>8. /\ side \in Seq(Tokens) /\ Len(side) = s + 3 /\ side[s + 3] = Close
      /\ \A k \in 1 .. s + 2 : side[k] = most[k]
  BY <1>1, <1>2, <1>7 DEF IsJoint
<1>9. side[1] = Name /\ side[2] = Open /\ \A k \in 1 .. s : side[k + 2] = text[k]
  <2>1. 1 \in 1 .. s + 2 /\ 2 \in 1 .. s + 2
    BY <1>1
  <2>2. ASSUME NEW k \in 1 .. s PROVE side[k + 2] = text[k]
    <3>1. k + 2 \in 1 .. s + 2
      BY <1>1
    <3> QED BY <1>5, <1>8, <3>1
  <2> QED BY <1>5, <1>8, <2>1, <2>2
<1> QED BY <1>3, <1>8, <1>9 DEF s, text

LEMMA DepthTextIs ==
  ASSUME NEW bids \in Seq(Levels), NEW asks \in Seq(Levels)
  PROVE  LET t == DepthText([bids |-> bids, asks |-> asks])
             b == Span(bids)
             a == Span(asks) IN
         /\ t \in Seq(Tokens) /\ Len(t) = b + a + 9
         /\ t[1] = Brace /\ t[2] = Name /\ t[3] = Open
         /\ \A k \in 1 .. b : t[k + 3] = LevelsText(bids)[k]
         /\ t[b + 4] = Close /\ t[b + 5] = Comma /\ t[b + 6] = Name /\ t[b + 7] = Open
         /\ \A k \in 1 .. a : t[k + b + 7] = LevelsText(asks)[k]
         /\ t[b + a + 8] = Close /\ t[b + a + 9] = Brace
<1> DEFINE b == Span(bids)
           a == Span(asks)
           brace == <<Brace>>
           comma == <<Comma>>
           x == SideText(bids)
           y == SideText(asks)
           t1 == brace \o x
           t2 == t1 \o comma
           t3 == t2 \o y
           t == t3 \o brace
<1>1. a \in Nat /\ b \in Nat
  BY LevelsTextIs
<1>2. /\ brace \in Seq(Tokens) /\ Len(brace) = 1 /\ brace[1] = Brace
      /\ comma \in Seq(Tokens) /\ Len(comma) = 1 /\ comma[1] = Comma
  BY TokenTypes
<1>3. /\ x \in Seq(Tokens) /\ Len(x) = b + 3 /\ x[1] = Name /\ x[2] = Open /\ x[b + 3] = Close
      /\ \A k \in 1 .. b : x[k + 2] = LevelsText(bids)[k]
  BY SideTextIs
<1>4. /\ y \in Seq(Tokens) /\ Len(y) = a + 3 /\ y[1] = Name /\ y[2] = Open /\ y[a + 3] = Close
      /\ \A k \in 1 .. a : y[k + 2] = LevelsText(asks)[k]
  BY SideTextIs
<1>5. DepthText([bids |-> bids, asks |-> asks]) = t
  BY DEF DepthText
<1> HIDE DEF a, b, brace, comma, x, y
<1>6. /\ t1 \in Seq(Tokens) /\ Len(t1) = b + 4 /\ t1[1] = Brace
      /\ \A k \in 1 .. b + 3 : t1[k + 1] = x[k]
  <2>1. b + 3 \in Nat /\ 1 \in Nat
    BY <1>1
  <2>2. IsJoint(t1, 1, brace, b + 3, x)
    BY <1>2, <1>3, <2>1, Joint
  <2> HIDE DEF t1
  <2> QED BY <1>1, <1>2, <2>2 DEF IsJoint
<1> HIDE DEF t1
<1>7. /\ t2 \in Seq(Tokens) /\ Len(t2) = b + 5 /\ t2[b + 5] = Comma
      /\ \A k \in 1 .. b + 4 : t2[k] = t1[k]
  <2>1. b + 4 \in Nat /\ 1 \in Nat
    BY <1>1
  <2>2. IsJoint(t2, b + 4, t1, 1, comma)
    BY <1>2, <1>6, <2>1, Joint
  <2> HIDE DEF t2
  <2> QED BY <1>1, <1>2, <2>2 DEF IsJoint
<1> HIDE DEF t2
<1>8. /\ t3 \in Seq(Tokens) /\ Len(t3) = b + a + 8
      /\ \A k \in 1 .. b + 5 : t3[k] = t2[k]
      /\ \A k \in 1 .. a + 3 : t3[k + b + 5] = y[k]
  <2>1. b + 5 \in Nat /\ a + 3 \in Nat
    BY <1>1
  <2>2. IsJoint(t3, b + 5, t2, a + 3, y)
    BY <1>4, <1>7, <2>1, Joint
  <2> HIDE DEF t3
  <2> QED BY <1>1, <2>2 DEF IsJoint
<1> HIDE DEF t3
<1>9. /\ t \in Seq(Tokens) /\ Len(t) = b + a + 9 /\ t[b + a + 9] = Brace
      /\ \A k \in 1 .. b + a + 8 : t[k] = t3[k]
  <2>1. b + a + 8 \in Nat /\ 1 \in Nat
    BY <1>1
  <2>2. IsJoint(t, b + a + 8, t3, 1, brace)
    BY <1>2, <1>8, <2>1, Joint
  <2> HIDE DEF t
  <2> QED BY <1>1, <1>2, <2>2 DEF IsJoint
<1> HIDE DEF t
<1>10. \A k \in 1 .. b + 3 : t[k + 1] = x[k]
  <2>1. ASSUME NEW k \in 1 .. b + 3 PROVE t[k + 1] = x[k]
    <3>1. k + 1 \in 1 .. b + a + 8 /\ k + 1 \in 1 .. b + 5 /\ k + 1 \in 1 .. b + 4
      BY <1>1
    <3> QED BY <1>6, <1>7, <1>8, <1>9, <3>1, SMTT(40)
  <2> QED BY <2>1
<1>11. \A k \in 1 .. a + 3 : t[k + b + 5] = y[k]
  <2>1. ASSUME NEW k \in 1 .. a + 3 PROVE t[k + b + 5] = y[k]
    <3>1. k + b + 5 \in 1 .. b + a + 8
      BY <1>1
    <3> QED BY <1>8, <1>9, <3>1
  <2> QED BY <2>1
<1>12. t[1] = Brace /\ t[b + 5] = Comma
  <2>1. /\ 1 \in 1 .. b + a + 8 /\ 1 \in 1 .. b + 5 /\ 1 \in 1 .. b + 4
        /\ b + 5 \in 1 .. b + a + 8 /\ b + 5 \in 1 .. b + 5
    BY <1>1
  <2> QED BY <1>6, <1>7, <1>8, <1>9, <2>1
<1>13. t[2] = Name /\ t[3] = Open /\ t[b + 4] = Close
  <2>1. /\ 1 \in 1 .. b + 3 /\ 2 \in 1 .. b + 3 /\ b + 3 \in 1 .. b + 3
        /\ 1 + 1 = 2 /\ 2 + 1 = 3 /\ (b + 3) + 1 = b + 4
    BY <1>1
  <2> QED BY <1>3, <1>10, <2>1
<1>14. \A k \in 1 .. b : t[k + 3] = LevelsText(bids)[k]
  <2>1. ASSUME NEW k \in 1 .. b PROVE t[k + 3] = LevelsText(bids)[k]
    <3>1. k + 2 \in 1 .. b + 3 /\ (k + 2) + 1 = k + 3
      BY <1>1
    <3> QED BY <1>3, <1>10, <3>1
  <2> QED BY <2>1
<1>15. t[b + 6] = Name /\ t[b + 7] = Open /\ t[b + a + 8] = Close
  <2>1. /\ 1 \in 1 .. a + 3 /\ 2 \in 1 .. a + 3 /\ a + 3 \in 1 .. a + 3
        /\ 1 + b + 5 = b + 6 /\ 2 + b + 5 = b + 7 /\ (a + 3) + b + 5 = b + a + 8
    BY <1>1
  <2> QED BY <1>4, <1>11, <2>1
<1>16. \A k \in 1 .. a : t[k + b + 7] = LevelsText(asks)[k]
  <2>1. ASSUME NEW k \in 1 .. a PROVE t[k + b + 7] = LevelsText(asks)[k]
    <3>1. k + 2 \in 1 .. a + 3 /\ (k + 2) + b + 5 = k + b + 7
      BY <1>1
    <3> QED BY <1>4, <1>11, <3>1
  <2> QED BY <2>1
<1> QED BY <1>5, <1>9, <1>12, <1>13, <1>14, <1>15, <1>16 DEF a, b

(* The only pairs of brackets are those with which a side with levels      *)
(* begins.                                                                 *)
LEMMA NoPairInLevels ==
  ASSUME NEW levels \in Seq(Levels), NEW k \in 1 .. Span(levels)
  PROVE  /\ LevelsText(levels)[k] = Open => k < Span(levels)
         /\ LevelsText(levels)[k] = Open /\ k < Span(levels) => LevelsText(levels)[k + 1] # Open
<1> DEFINE n == Len(levels)
           s == Span(levels)
           text == LevelsText(levels)
<1>1. n \in Nat /\ s \in Nat /\ s = 6 * n - 1 /\ n >= 1
  BY DEF Span
<1>2. /\ text = [j \in 1 .. s |-> IF j % 6 = 0 THEN Comma ELSE LevelText(levels[j \div 6 + 1])[j % 6]]
      /\ \A i \in 1 .. n : levels[i] \in Levels
  BY DEF LevelsText
<1>3. ASSUME NEW l \in Levels
      PROVE  /\ LevelText(l)[2] # Open /\ LevelText(l)[3] # Open
             /\ LevelText(l)[4] # Open /\ LevelText(l)[5] # Open
  <2>1. l.price \in Numerals /\ l.quantity \in Numerals
    BY DEF Levels
  <2> QED BY <2>1, TokenTypes DEF LevelText
<1> HIDE DEF s, text, n
<1>4. ASSUME NEW j \in 1 .. s, j % 6 # 1 PROVE text[j] # Open
  <2>1. CASE j % 6 = 0
    BY <1>2, <2>1, TokenTypes
  <2>2. CASE j % 6 # 0
    <3>1. j \div 6 + 1 \in 1 .. n /\ j % 6 \in 1 .. 5
      BY <1>1, <2>2
    <3>2. levels[j \div 6 + 1] \in Levels
      BY <1>2, <3>1
    <3>3. j % 6 = 2 \/ j % 6 = 3 \/ j % 6 = 4 \/ j % 6 = 5
      BY <1>4, <3>1
    <3>4. text[j] = LevelText(levels[j \div 6 + 1])[j % 6]
      BY <1>2, <2>2
    <3> QED BY <1>3, <3>2, <3>3, <3>4
  <2> QED BY <2>1, <2>2
<1>5. ASSUME text[k] = Open PROVE k < s /\ text[k + 1] # Open
  <2>1. k \in 1 .. s
    BY DEF s
  <2>2. k % 6 = 1
    BY <1>4, <1>5, <2>1
  <2>3. k + 1 \in 1 .. s /\ (k + 1) % 6 # 1 /\ k < s
    BY <1>1, <2>1, <2>2
  <2> QED BY <1>4, <2>3
<1> QED BY <1>5 DEF s, text

LEMMA PairsAre ==
  ASSUME NEW bids \in Seq(Levels), NEW asks \in Seq(Levels)
  PROVE  LET t == DepthText([bids |-> bids, asks |-> asks]) IN
         \A q \in 1 .. Len(t) - 1 :
           Pair(t, q) <=> (q = 3 /\ bids # <<>>) \/ (q = Span(bids) + 7 /\ asks # <<>>)
<1> DEFINE t == DepthText([bids |-> bids, asks |-> asks])
           b == Span(bids)
           a == Span(asks)
           x == LevelsText(bids)
           y == LevelsText(asks)
<1>1. /\ a \in Nat /\ b \in Nat
      /\ (bids = <<>> => b = 0) /\ (bids # <<>> => b >= 5) /\ (asks = <<>> => a = 0) /\ (asks # <<>> => a >= 5)
  BY LevelsTextIs DEF Span
<1>2. /\ Len(t) = b + a + 9
      /\ t[1] = Brace /\ t[2] = Name /\ t[3] = Open
      /\ \A k \in 1 .. b : t[k + 3] = x[k]
      /\ t[b + 4] = Close /\ t[b + 5] = Comma /\ t[b + 6] = Name /\ t[b + 7] = Open
      /\ \A k \in 1 .. a : t[k + b + 7] = y[k]
      /\ t[b + a + 8] = Close /\ t[b + a + 9] = Brace
  BY DepthTextIs
<1>3. /\ \A k \in 1 .. b : x[k] = Open => k < b /\ x[k + 1] # Open
      /\ \A k \in 1 .. a : y[k] = Open => k < a /\ y[k + 1] # Open
  BY NoPairInLevels
<1>4. (bids # <<>> => x[1] = Open) /\ (asks # <<>> => y[1] = Open)
  <2>1. ASSUME NEW levels \in Seq(Levels), levels # <<>> PROVE LevelsText(levels)[1] = Open
    <3>1. 1 \in 1 .. Len(levels) /\ 6 * 1 - 5 = 1
      BY <2>1
    <3> QED BY <3>1, LevelsTextIs
  <2> QED BY <2>1
<1> HIDE DEF t, a, b, x, y
<1>5. ASSUME NEW q \in 1 .. Len(t) - 1
      PROVE  Pair(t, q) <=> (q = 3 /\ bids # <<>>) \/ (q = b + 7 /\ asks # <<>>)
  <2>1. q \in Nat /\ 1 <= q /\ q <= b + a + 8
    BY <1>1, <1>2
  <2>2. CASE q \in {1, 2}
    <3>1. t[q] # Open /\ q # 3 /\ q # b + 7
      BY <1>1, <1>2, <2>2, TokenTypes
    <3> QED BY <3>1 DEF Pair
  <2>3. CASE q = 3
    <3>1. q # b + 7 /\ t[q] = Open
      BY <1>1, <1>2, <2>3
    <3>2. CASE bids = <<>>
      <4>1. t[q + 1] = Close
        BY <1>1, <1>2, <2>3, <3>2
      <4> QED BY <3>1, <3>2, <4>1, TokenTypes DEF Pair
    <3>3. CASE bids # <<>>
      <4>1. 1 \in 1 .. b /\ q + 1 = 1 + 3
        BY <1>1, <2>3, <3>3
      <4>2. t[q + 1] = Open
        BY <1>2, <1>4, <3>3, <4>1
      <4> QED BY <2>3, <3>1, <3>3, <4>2 DEF Pair
    <3> QED BY <3>2, <3>3
  <2>4. CASE q \in 4 .. b + 3
    <3>1. q - 3 \in 1 .. b /\ (q - 3) + 3 = q /\ q # 3 /\ q # b + 7
      BY <1>1, <2>4
    <3>2. ASSUME t[q] = Open PROVE t[q + 1] # Open
      <4>1. q - 3 < b /\ x[(q - 3) + 1] # Open
        BY <1>2, <1>3, <3>1, <3>2
      <4>2. (q - 3) + 1 \in 1 .. b /\ ((q - 3) + 1) + 3 = q + 1
        BY <1>1, <3>1, <4>1
      <4> QED BY <1>2, <4>1, <4>2
    <3> QED BY <3>1, <3>2 DEF Pair
  <2>5. CASE q \in {b + 4, b + 5, b + 6}
    <3>1. t[q] # Open /\ q # 3 /\ q # b + 7
      BY <1>1, <1>2, <2>5, TokenTypes
    <3> QED BY <3>1 DEF Pair
  <2>6. CASE q = b + 7
    <3>1. q # 3 /\ t[q] = Open
      BY <1>1, <1>2, <2>6
    <3>2. CASE asks = <<>>
      <4>1. q + 1 = b + a + 8
        BY <1>1, <2>6, <3>2
      <4>2. t[q + 1] = Close
        BY <1>2, <4>1
      <4> QED BY <3>1, <3>2, <4>2, TokenTypes DEF Pair
    <3>3. CASE asks # <<>>
      <4>1. 1 \in 1 .. a /\ q + 1 = 1 + b + 7
        BY <1>1, <2>6, <3>3
      <4>2. t[q + 1] = Open
        BY <1>2, <1>4, <3>3, <4>1
      <4> QED BY <2>6, <3>1, <3>3, <4>2 DEF Pair
    <3> QED BY <3>2, <3>3
  <2>7. CASE q \in b + 8 .. b + a + 7
    <3>1. q - b - 7 \in 1 .. a /\ (q - b - 7) + b + 7 = q /\ q # 3 /\ q # b + 7
      BY <1>1, <2>7
    <3>2. ASSUME t[q] = Open PROVE t[q + 1] # Open
      <4>1. q - b - 7 < a /\ y[(q - b - 7) + 1] # Open
        BY <1>2, <1>3, <3>1, <3>2, SMTT(40)
      <4>2. (q - b - 7) + 1 \in 1 .. a /\ ((q - b - 7) + 1) + b + 7 = q + 1
        BY <1>1, <3>1, <4>1
      <4> QED BY <1>2, <4>1, <4>2
    <3> QED BY <3>1, <3>2 DEF Pair
  <2>8. CASE q = b + a + 8
    <3>1. t[q] # Open /\ q # 3 /\ q # b + 7
      BY <1>1, <1>2, <2>8, TokenTypes
    <3> QED BY <3>1 DEF Pair
  <2>9. \/ q \in {1, 2} \/ q = 3 \/ q \in 4 .. b + 3 \/ q \in {b + 4, b + 5, b + 6}
        \/ q = b + 7 \/ q \in b + 8 .. b + a + 7 \/ q = b + a + 8
    BY <1>1, <2>1
  <2> QED BY <2>2, <2>3, <2>4, <2>5, <2>6, <2>7, <2>8, <2>9
<1> QED BY <1>5 DEF t, b

-----------------------------------------------------------------------------
(* What both parsers step over                                             *)
LEMMA LeastIs ==
  ASSUME NEW T \in SUBSET Int, NEW w \in T, \A q \in T : w <= q
  PROVE  Min(T) = w
<1>1. Min(T) \in T /\ \A q \in T : Min(T) <= q
  BY DEF Min
<1>2. Min(T) <= w /\ w <= Min(T) /\ Min(T) \in Int /\ w \in Int
  BY <1>1
<1> QED BY <1>2

LEMMA OnwardsIs ==
  ASSUME NEW n \in Nat, NEW t, Len(t) = n, NEW p \in Nat
  PROVE  /\ Onwards(t, p) \in SUBSET Nat
         /\ \A q \in Onwards(t, p) : p <= q
         /\ \A q \in Nat : p <= q /\ q <= n => q \in Onwards(t, p)
         /\ p \in Onwards(t, p)
<1>1. Max({p, n + 1}) \in Nat /\ Max({p, n + 1}) >= p /\ Max({p, n + 1}) >= n + 1
  <2>1. \E x \in {p, n + 1} : \A y \in {p, n + 1} : x >= y
    OBVIOUS
  <2>2. Max({p, n + 1}) \in {p, n + 1} /\ \A y \in {p, n + 1} : Max({p, n + 1}) >= y
    BY <2>1 DEF Max
  <2> QED BY <2>2
<1> DEFINE m == Max({p, n + 1})
<1>2. Onwards(t, p) = p .. m
  BY DEF Onwards
<1>3. m \in Nat /\ m >= p /\ m >= n + 1
  BY <1>1
<1> HIDE DEF m
<1> QED BY <1>2, <1>3

(* How much is left behind a position, and behind the last                 *)
LEMMA LeftIs ==
  ASSUME NEW t \in Seq(Tokens), NEW q \in 1 .. Len(t)
  PROVE  /\ Left(t, q) \in Int
         /\ Left(t, q) >= Len(t) - q
         /\ (\E k \in q + 1 .. Len(t) : t[k].kind = "plain") => Left(t, q) >= Len(t) - q + 4
         /\ q = Len(t) => Left(t, q) = 0
<1> DEFINE n == Len(t)
           U == {k \in q + 1 .. n : t[k].kind \in {"name", "plain", "long", "whole"}}
           c == Cardinality(U)
<1>1. n \in Nat /\ q \in Nat
  OBVIOUS
<1>2. IsFiniteSet(U) /\ c \in Nat
  <2>1. U \subseteq q + 1 .. n /\ IsFiniteSet(q + 1 .. n)
    BY <1>1, FS_Interval
  <2> QED BY <2>1, FS_Subset, FS_CardinalityType
<1>3. Left(t, q) = n - q + 4 * c
  BY DEF Left
<1>4. (\E k \in q + 1 .. n : t[k].kind = "plain") => c >= 1
  <2>1. ASSUME NEW k \in q + 1 .. n, t[k].kind = "plain" PROVE c >= 1
    <3>1. U # {}
      BY <2>1
    <3>2. c # 0
      BY <1>2, <3>1, FS_EmptySet
    <3> QED BY <1>2, <3>2
  <2> QED BY <2>1
<1>5. q = n => c = 0
  <2>1. ASSUME q = n PROVE U = {}
    BY <1>1, <2>1
  <2> QED BY <2>1, FS_EmptySet
<1> HIDE DEF n, c
<1>6. Left(t, q) \in Int /\ Left(t, q) >= n - q
  BY <1>1, <1>2, <1>3
<1>7. c >= 1 => Left(t, q) >= n - q + 4
  BY <1>1, <1>2, <1>3
<1>8. q = n => Left(t, q) = 0
  BY <1>1, <1>3, <1>5
<1> QED BY <1>4, <1>6, <1>7, <1>8 DEF n

(* Forward to w *)
LEMMA SkipIs ==
  ASSUME NEW t \in Seq(Tokens), NEW enough \in Nat,
         NEW p \in Nat, NEW w \in Nat, p <= w, w <= Len(t),
         \A q \in p .. w - 1 : ~(Left(t, q) < enough) /\ ~Pair(t, q),
         Left(t, w) < enough \/ Pair(t, w)
  PROVE  Skip(t, p, enough) = w
<1> DEFINE T == {q \in Onwards(t, p) : Left(t, q) < enough \/ Pair(t, q)}
<1>1. Skip(t, p, enough) = Min(T)
  BY DEF Skip, Pair
<1>2. Len(t) \in Nat
  OBVIOUS
<1>3. /\ Onwards(t, p) \in SUBSET Nat /\ w \in Onwards(t, p)
      /\ \A q \in Onwards(t, p) : p <= q
  BY <1>2, OnwardsIs
<1>4. ASSUME NEW q \in T PROVE w <= q
  <2>1. q \in Nat /\ p <= q /\ (Left(t, q) < enough \/ Pair(t, q))
    BY <1>3
  <2>2. ~(q <= w - 1)
    BY <2>1
  <2> QED BY <2>1, <2>2
<1>5. T \in SUBSET Int /\ w \in T
  BY <1>3
<1> HIDE DEF T
<1> QED BY <1>1, <1>4, <1>5, LeastIs

(* There is nothing to step over. *)
LEMMA DigitIs ==
  ASSUME NEW t \in Seq(Tokens), NEW p \in Nat, p > Len(t) \/ t[p] # Open
  PROVE  Digit(t, p) = p
<1>1. Len(t) \in Nat
  OBVIOUS
<1>2. /\ Onwards(t, p) \in SUBSET Nat /\ p \in Onwards(t, p)
      /\ \A q \in Onwards(t, p) : p <= q
  BY <1>1, OnwardsIs
<1> DEFINE T == {q \in Onwards(t, p) : q > Len(t) \/ t[q] # Open}
<1>3. T \in SUBSET Int /\ p \in T /\ \A q \in T : p <= q
  BY <1>2
<1>4. Digit(t, p) = Min(T)
  BY DEF Digit
<1> HIDE DEF T
<1> QED BY <1>3, <1>4, LeastIs

LEMMA NumberIs ==
  ASSUME NEW t \in Seq(Tokens), NEW p \in Nat, p > Len(t) \/ t[p] # Open
  PROVE  /\ NumberEnd(t, p) = IF p <= Len(t) /\ t[p].kind = "plain" THEN p + 1 ELSE Nowhere
         /\ FastNumber(t, p) =
              [at |-> p + 1,
               value |-> IF p <= Len(t) /\ t[p].kind = "plain" THEN t[p].value ELSE Unspecified]
<1>1. Digit(t, p) = p
  BY DigitIs
<1> QED BY <1>1 DEF NumberEnd, FastNumber

-----------------------------------------------------------------------------
(* The levels of a side, read one after another.                           *)

(* From p on there are these levels, as far as the parsers look at them.   *)
Stands(t, p, levels) ==
  /\ t \in Seq(Tokens) /\ levels \in Seq(Levels)
  /\ p \in Nat /\ p # 0 /\ p + 6 * Len(levels) <= Len(t)
  /\ \A i \in 1 .. Len(levels) :
       t[p + 6 * i - 5] = levels[i].price /\ t[p + 6 * i - 3] = levels[i].quantity
  /\ \/ p + 6 * Len(levels) + 1 > Len(t)
     \/ t[p + 6 * Len(levels) + 1] = Name

PlainLevel(l) == l.price.kind = "plain" /\ l.quantity.kind = "plain"

First(levels, n) == [i \in 1 .. n |-> Level(levels[i])]

LEMMA LevelIs ==
  ASSUME NEW t, NEW p, NEW levels, Stands(t, p, levels), NEW i \in 1 .. Len(levels),
         NEW q \in Nat, q = p + 6 * i - 6
  PROVE  /\ ReadLevel(t, q) = IF PlainLevel(levels[i])
                              THEN [at |-> q + 6, level |-> Level(levels[i])]
                              ELSE [at |-> Nowhere, level |-> NoLevel]
         /\ PlainLevel(levels[i]) =>
              FastLevel(t, q) = [at |-> q + 6, level |-> Level(levels[i])]
<1> DEFINE l == levels[i]
           n == Len(t)
<1>1. /\ l \in Levels /\ n \in Nat /\ t \in Seq(Tokens)
      /\ p \in Nat /\ p + 6 * Len(levels) <= n /\ Len(levels) \in Nat
      /\ t[p + 6 * i - 5] = l.price /\ t[p + 6 * i - 3] = l.quantity
  <2>1. /\ t \in Seq(Tokens) /\ levels \in Seq(Levels)
        /\ p \in Nat /\ p + 6 * Len(levels) <= Len(t)
        /\ t[p + 6 * i - 5] = l.price /\ t[p + 6 * i - 3] = l.quantity
    BY Zenon DEF Stands
  <2>2. l \in Levels /\ Len(levels) \in Nat /\ Len(t) \in Nat
    BY <2>1
  <2> QED BY <2>1, <2>2, Zenon
<1>2. /\ q + 1 \in Nat /\ q + 1 <= n /\ q + 3 \in Nat /\ q + 3 <= n
      /\ p + 6 * i - 5 = q + 1 /\ p + 6 * i - 3 = q + 3
  BY <1>1
<1>3. t[q + 1] = l.price /\ t[q + 3] = l.quantity
  BY <1>1, <1>2
<1>4. t[q + 1] # Open /\ t[q + 3] # Open
  BY <1>1, <1>3, TokenTypes DEF Levels
<1> HIDE DEF l, n
<1>5. /\ NumberEnd(t, q + 1) = IF l.price.kind = "plain" THEN q + 2 ELSE Nowhere
      /\ FastNumber(t, q + 1) =
           [at |-> q + 2, value |-> IF l.price.kind = "plain" THEN l.price.value ELSE Unspecified]
  <2>1. (q + 1) + 1 = q + 2
    BY <1>2
  <2> QED BY <1>1, <1>2, <1>3, <1>4, <2>1, NumberIs DEF n
<1>6. /\ NumberEnd(t, q + 3) = IF l.quantity.kind = "plain" THEN q + 4 ELSE Nowhere
      /\ FastNumber(t, q + 3) =
           [at |-> q + 4, value |-> IF l.quantity.kind = "plain" THEN l.quantity.value ELSE Unspecified]
  <2>1. (q + 3) + 1 = q + 4
    BY <1>2
  <2> QED BY <1>1, <1>2, <1>3, <1>4, <2>1, NumberIs DEF n
<1>7. /\ Level(l) = [price |-> l.price.value, quantity |-> l.quantity.value]
      /\ (q + 2) + 1 = q + 3 /\ (q + 4) + 2 = q + 6 /\ (q + 2) - 1 = q + 1 /\ (q + 4) - 1 = q + 3
      /\ q + 2 # Nowhere /\ q + 4 # Nowhere
  BY DEF Level, Nowhere
<1>8. CASE PlainLevel(l)
  <2>1. NumberEnd(t, q + 1) = q + 2 /\ NumberEnd(t, q + 3) = q + 4
    BY <1>5, <1>6, <1>8 DEF PlainLevel
  <2>2. ReadLevel(t, q) = [at |-> q + 6, level |-> Level(l)]
    BY <1>3, <1>7, <2>1 DEF ReadLevel
  <2>3. /\ FastNumber(t, q + 1) = [at |-> q + 2, value |-> l.price.value]
        /\ FastNumber(t, q + 3) = [at |-> q + 4, value |-> l.quantity.value]
    BY <1>5, <1>6, <1>8 DEF PlainLevel
  <2>4. FastLevel(t, q) = [at |-> q + 6, level |-> Level(l)]
    BY <1>7, <2>3, SMTT(40) DEF FastLevel
  <2> QED BY <1>8, <2>2, <2>4 DEF l
<1>9. CASE ~PlainLevel(l)
  <2>1. NumberEnd(t, q + 1) = Nowhere \/ (NumberEnd(t, q + 1) = q + 2 /\ NumberEnd(t, q + 3) = Nowhere)
    BY <1>5, <1>6, <1>9 DEF PlainLevel
  <2>2. ReadLevel(t, q) = [at |-> Nowhere, level |-> NoLevel]
    BY <1>7, <2>1 DEF ReadLevel
  <2> QED BY <1>9, <2>2 DEF l
<1> QED BY <1>8, <1>9

(* Behind the last level nothing reads. *)
LEMMA NoLevelIs ==
  ASSUME NEW t, NEW p, NEW levels, Stands(t, p, levels),
         NEW q \in Nat, q = p + 6 * Len(levels)
  PROVE  ReadLevel(t, q) = [at |-> Nowhere, level |-> NoLevel]
<1>1. t \in Seq(Tokens) /\ (q + 1 > Len(t) \/ t[q + 1] = Name)
  BY DEF Stands
<1>2. /\ q + 1 \in Nat /\ Len(t) \in Nat
      /\ q + 1 > Len(t) \/ t[q + 1] # Open
      /\ ~(q + 1 <= Len(t) /\ t[q + 1].kind = "plain")
  BY <1>1, TokenTypes
<1>3. NumberEnd(t, q + 1) = Nowhere
  BY <1>1, <1>2, NumberIs
<1> QED BY <1>3 DEF ReadLevel

(* The values of the two recursive functions *)
LEMMA ReadSteps ==
  ASSUME NEW t, NEW p
  PROVE  \E v : /\ v[0] = [at |-> p, levels |-> <<>>]
                /\ \A k \in 1 .. DEPTH : v[k] = ReadAnother(t, v[k - 1])
                /\ ReadSide(t, p) = v[DEPTH]
<1> DEFINE n == DEPTH
           b == [at |-> p, levels |-> <<>>]
           Up(g, m) == g = [k \in 0 .. m |-> IF k = 0 THEN b ELSE ReadAnother(t, g[k - 1])]
           v == CHOOSE g : Up(g, n)
           T == {m \in Nat : \E g : Up(g, m)}
<1>1. n \in Nat
  BY OrderBookAssumption
<1>2. ReadSide(t, p) = v[n]
  BY DEF ReadSide
<1> HIDE DEF n, b
<1>3. 0 \in T
  <2> DEFINE g == [k \in 0 .. 0 |-> b]
  <2>1. Up(g, 0)
    OBVIOUS
  <2> HIDE DEF Up, g
  <2> QED BY <2>1
<1>4. ASSUME NEW m \in T PROVE m + 1 \in T
  <2>1. m \in Nat /\ m + 1 \in Nat
    OBVIOUS
  <2>2. PICK g : Up(g, m)
    <3> HIDE DEF Up
    <3> QED OBVIOUS
  <2> DEFINE h == [k \in 0 .. m + 1 |-> IF k = m + 1 THEN ReadAnother(t, g[m]) ELSE g[k]]
  <2>3. \A k \in 0 .. m + 1 : h[k] = IF k = m + 1 THEN ReadAnother(t, g[m]) ELSE g[k]
    OBVIOUS
  <2>4. \A k \in 0 .. m : g[k] = IF k = 0 THEN b ELSE ReadAnother(t, g[k - 1])
    BY <2>2
  <2>5. ASSUME NEW k \in 0 .. m + 1 PROVE h[k] = IF k = 0 THEN b ELSE ReadAnother(t, h[k - 1])
    <3> HIDE DEF h
    <3>1. CASE k = m + 1
      <4>1. k # 0 /\ k - 1 = m /\ m \in 0 .. m + 1 /\ m # m + 1
        BY <2>1, <3>1
      <4> QED BY <2>3, <3>1, <4>1
    <3>2. CASE k = 0
      <4>1. 0 \in 0 .. m /\ 0 # m + 1
        BY <2>1
      <4> QED BY <2>3, <2>4, <3>2, <4>1
    <3>3. CASE k # 0 /\ k # m + 1
      <4>1. k \in 0 .. m /\ k - 1 \in 0 .. m + 1 /\ k - 1 # m + 1
        BY <2>1, <3>3
      <4> QED BY <2>3, <2>4, <3>3, <4>1
    <3> QED BY <3>1, <3>2, <3>3
  <2>6. h = [k \in 0 .. m + 1 |-> h[k]]
    OBVIOUS
  <2> HIDE DEF h
  <2>7. Up(h, m + 1)
    BY <2>5, <2>6
  <2> HIDE DEF Up
  <2> QED BY <2>1, <2>7
<1>5. n \in T
  <2>1. T \in SUBSET Nat
    OBVIOUS
  <2> HIDE DEF T
  <2>2. T = Nat
    BY <1>3, <1>4, <2>1, InductiveSet
  <2> QED BY <1>1, <2>2
<1>6. Up(v, n)
  <2> HIDE DEF Up
  <2> QED BY <1>5
<1> HIDE DEF v
<1>7. \A k \in 0 .. n : v[k] = IF k = 0 THEN b ELSE ReadAnother(t, v[k - 1])
  BY <1>6
<1>8. 0 \in 0 .. n /\ \A k \in 1 .. n : k \in 0 .. n /\ k # 0
  BY <1>1
<1>9. v[0] = b /\ \A k \in 1 .. n : v[k] = ReadAnother(t, v[k - 1])
  BY <1>7, <1>8
<1> QED BY <1>2, <1>9 DEF b, n

LEMMA FastSteps ==
  ASSUME NEW t, NEW p
  PROVE  \E v : /\ v[0] = [at |-> p, levels |-> <<>>]
                /\ \A k \in 1 .. DEPTH : v[k] = FastAnother(t, v[k - 1])
                /\ FastSide(t, p) = v[DEPTH]
<1> DEFINE n == DEPTH
           b == [at |-> p, levels |-> <<>>]
           Up(g, m) == g = [k \in 0 .. m |-> IF k = 0 THEN b ELSE FastAnother(t, g[k - 1])]
           v == CHOOSE g : Up(g, n)
           T == {m \in Nat : \E g : Up(g, m)}
<1>1. n \in Nat
  BY OrderBookAssumption
<1>2. FastSide(t, p) = v[n]
  BY DEF FastSide
<1> HIDE DEF n, b
<1>3. 0 \in T
  <2> DEFINE g == [k \in 0 .. 0 |-> b]
  <2>1. Up(g, 0)
    OBVIOUS
  <2> HIDE DEF Up, g
  <2> QED BY <2>1
<1>4. ASSUME NEW m \in T PROVE m + 1 \in T
  <2>1. m \in Nat /\ m + 1 \in Nat
    OBVIOUS
  <2>2. PICK g : Up(g, m)
    <3> HIDE DEF Up
    <3> QED OBVIOUS
  <2> DEFINE h == [k \in 0 .. m + 1 |-> IF k = m + 1 THEN FastAnother(t, g[m]) ELSE g[k]]
  <2>3. \A k \in 0 .. m + 1 : h[k] = IF k = m + 1 THEN FastAnother(t, g[m]) ELSE g[k]
    OBVIOUS
  <2>4. \A k \in 0 .. m : g[k] = IF k = 0 THEN b ELSE FastAnother(t, g[k - 1])
    BY <2>2
  <2>5. ASSUME NEW k \in 0 .. m + 1 PROVE h[k] = IF k = 0 THEN b ELSE FastAnother(t, h[k - 1])
    <3> HIDE DEF h
    <3>1. CASE k = m + 1
      <4>1. k # 0 /\ k - 1 = m /\ m \in 0 .. m + 1 /\ m # m + 1
        BY <2>1, <3>1
      <4> QED BY <2>3, <3>1, <4>1
    <3>2. CASE k = 0
      <4>1. 0 \in 0 .. m /\ 0 # m + 1
        BY <2>1
      <4> QED BY <2>3, <2>4, <3>2, <4>1
    <3>3. CASE k # 0 /\ k # m + 1
      <4>1. k \in 0 .. m /\ k - 1 \in 0 .. m + 1 /\ k - 1 # m + 1
        BY <2>1, <3>3
      <4> QED BY <2>3, <2>4, <3>3, <4>1
    <3> QED BY <3>1, <3>2, <3>3
  <2>6. h = [k \in 0 .. m + 1 |-> h[k]]
    OBVIOUS
  <2> HIDE DEF h
  <2>7. Up(h, m + 1)
    BY <2>5, <2>6
  <2> HIDE DEF Up
  <2> QED BY <2>1, <2>7
<1>5. n \in T
  <2>1. T \in SUBSET Nat
    OBVIOUS
  <2> HIDE DEF T
  <2>2. T = Nat
    BY <1>3, <1>4, <2>1, InductiveSet
  <2> QED BY <1>1, <2>2
<1>6. Up(v, n)
  <2> HIDE DEF Up
  <2> QED BY <1>5
<1> HIDE DEF v
<1>7. \A k \in 0 .. n : v[k] = IF k = 0 THEN b ELSE FastAnother(t, v[k - 1])
  BY <1>6
<1>8. 0 \in 0 .. n /\ \A k \in 1 .. n : k \in 0 .. n /\ k # 0
  BY <1>1
<1>9. v[0] = b /\ \A k \in 1 .. n : v[k] = FastAnother(t, v[k - 1])
  BY <1>7, <1>8
<1> QED BY <1>2, <1>9 DEF b, n

(* One more level than k, or none *)
Reached(p, levels, k) == [at |-> p + 6 * k, levels |-> First(levels, k)]
Stuck(levels, k) == [at |-> Nowhere, levels |-> First(levels, k)]

LEMMA NextIs ==
  ASSUME NEW t, NEW p, NEW levels, Stands(t, p, levels),
         NEW k \in Nat, k <= Len(levels)
  PROVE  /\ k < Len(levels) /\ PlainLevel(levels[k + 1]) =>
              /\ ReadAnother(t, Reached(p, levels, k)) = Reached(p, levels, k + 1)
              /\ FastAnother(t, Reached(p, levels, k)) = Reached(p, levels, k + 1)
         /\ ~(k < Len(levels) /\ PlainLevel(levels[k + 1])) =>
              ReadAnother(t, Reached(p, levels, k)) = Stuck(levels, k)
<1> DEFINE q == p + 6 * k
           f == First(levels, k)
           sofar == [at |-> q, levels |-> f]
           n == Len(levels)
<1>1. p \in Nat /\ p # 0 /\ levels \in Seq(Levels)
  BY Zenon DEF Stands
<1>2. n \in Nat /\ q \in Nat /\ q # Nowhere /\ q + 6 # Nowhere /\ q + 6 = p + 6 * (k + 1)
  BY <1>1 DEF Nowhere
<1>3. /\ sofar.at = q /\ sofar.levels = f /\ sofar = Reached(p, levels, k)
      /\ Stuck(levels, k) = [at |-> Nowhere, levels |-> f]
      /\ Reached(p, levels, k + 1) = [at |-> p + 6 * (k + 1), levels |-> First(levels, k + 1)]
  BY DEF Reached, Stuck
<1>4. Append(f, Level(levels[k + 1])) = First(levels, k + 1)
  BY DEF First
<1> HIDE DEF q, f, sofar, n
<1>5. CASE k < n /\ PlainLevel(levels[k + 1])
  <2>1. k + 1 \in 1 .. Len(levels) /\ q = p + 6 * (k + 1) - 6
    BY <1>1, <1>2, <1>5 DEF q, n
  <2> DEFINE got == [at |-> q + 6, level |-> Level(levels[k + 1])]
  <2>2. ReadLevel(t, q) = got /\ FastLevel(t, q) = got
    BY <1>2, <1>5, <2>1, LevelIs
  <2>3. got.at = q + 6 /\ got.level = Level(levels[k + 1])
    OBVIOUS
  <2> HIDE DEF got
  <2>4. ReadAnother(t, sofar) = [at |-> q + 6, levels |-> First(levels, k + 1)]
    <3>1. ReadAnother(t, sofar) = [at |-> got.at, levels |-> Append(sofar.levels, got.level)]
      BY <1>2, <1>3, <2>2, <2>3, Zenon DEF ReadAnother
    <3> QED BY <1>3, <1>4, <2>3, <3>1, Zenon
  <2>5. FastAnother(t, sofar) = [at |-> q + 6, levels |-> First(levels, k + 1)]
    <3>1. FastAnother(t, sofar) = [at |-> got.at, levels |-> Append(sofar.levels, got.level)]
      BY <1>3, <2>2, Zenon DEF FastAnother
    <3> QED BY <1>3, <1>4, <2>3, <3>1, Zenon
  <2> QED BY <1>2, <1>3, <1>5, <2>4, <2>5 DEF n
<1>6. CASE ~(k < n /\ PlainLevel(levels[k + 1]))
  <2>1. ReadLevel(t, q) = [at |-> Nowhere, level |-> NoLevel]
    <3>1. CASE k < n
      <4>1. k + 1 \in 1 .. Len(levels) /\ q = p + 6 * (k + 1) - 6
        BY <1>1, <1>2, <3>1 DEF q, n
      <4> QED BY <1>2, <1>6, <3>1, <4>1, LevelIs
    <3>2. CASE ~(k < n)
      <4>1. q = p + 6 * Len(levels)
        BY <1>1, <1>2, <3>2 DEF q, n
      <4> QED BY <1>2, <4>1, NoLevelIs
    <3> QED BY <3>1, <3>2
  <2>2. ReadAnother(t, sofar) = [at |-> Nowhere, levels |-> f]
    BY <1>2, <1>3, <2>1 DEF ReadAnother
  <2> QED BY <1>3, <1>6, <2>2 DEF n
<1> QED BY <1>5, <1>6

(* One side, by the parser that checks: the first levels, up to DEPTH or   *)
(* to the first that does not read.                                        *)
IsRead(side, p, levels, r) ==
  /\ r \in 0 .. DEPTH /\ r <= Len(levels)
  /\ side = [at |-> IF r = DEPTH THEN p + 6 * DEPTH ELSE Nowhere, levels |-> First(levels, r)]
  /\ (r = DEPTH) <=> (Len(levels) >= DEPTH /\ Plain(levels))

LEMMA ReadSideIs ==
  ASSUME NEW t, NEW p, NEW levels, Stands(t, p, levels)
  PROVE  \E r : IsRead(ReadSide(t, p), p, levels, r)
<1> DEFINE n == Len(levels)
           Clear(r) == r <= n /\ \A i \in 1 .. r : PlainLevel(levels[i])
           Stops(r) == ~(r < n /\ PlainLevel(levels[r + 1]))
<1>1. /\ DEPTH \in Nat /\ n \in Nat /\ p \in Nat /\ levels \in Seq(Levels)
      /\ DEPTH # 0 /\ p # 0
  <2>1. p \in Nat /\ p # 0 /\ levels \in Seq(Levels)
    BY Zenon DEF Stands
  <2> QED BY <2>1, OrderBookAssumption
<1>2. PICK v : /\ v[0] = [at |-> p, levels |-> <<>>]
               /\ \A k \in 1 .. DEPTH : v[k] = ReadAnother(t, v[k - 1])
               /\ ReadSide(t, p) = v[DEPTH]
  BY ReadSteps
<1> DEFINE Sofar(k) == \/ v[k] = Reached(p, levels, k) /\ Clear(k)
                       \/ \E r \in 0 .. k : r < k /\ v[k] = Stuck(levels, r) /\ Clear(r) /\ Stops(r)
           T == {k \in Nat : k <= DEPTH => Sofar(k)}
<1>3. 0 \in T
  <2>1. First(levels, 0) = <<>>
    BY DEF First
  <2>2. p + 6 * 0 = p
    BY <1>1
  <2>3. v[0] = Reached(p, levels, 0) /\ Clear(0)
    BY <1>1, <1>2, <2>1, <2>2 DEF Reached
  <2> HIDE DEF Clear, Stops
  <2> QED BY <2>3
<1>4. ASSUME NEW k \in Nat, k \in T PROVE k + 1 \in T
  <2>1. k + 1 \in Nat /\ (k <= DEPTH => Sofar(k))
    <3> HIDE DEF Sofar
    <3> QED BY <1>4
  <2>2. ASSUME k + 1 <= DEPTH PROVE Sofar(k + 1)
    <3>1. k + 1 \in 1 .. DEPTH /\ (k + 1) - 1 = k /\ k <= DEPTH
      BY <1>1, <2>1, <2>2
    <3>2. v[k + 1] = ReadAnother(t, v[k])
      BY <1>2, <3>1
    <3>3. ASSUME v[k] = Reached(p, levels, k), Clear(k) PROVE Sofar(k + 1)
      <4>1. k <= Len(levels) /\ \A i \in 1 .. k : PlainLevel(levels[i])
        BY <3>3
      <4>2. CASE k < n /\ PlainLevel(levels[k + 1])
        <5>1. ReadAnother(t, Reached(p, levels, k)) = Reached(p, levels, k + 1)
          BY <4>1, <4>2, NextIs
        <5>2. Clear(k + 1)
          <6>1. \A i \in 1 .. k + 1 : i \in 1 .. k \/ i = k + 1
            OBVIOUS
          <6>2. k + 1 <= n
            BY <1>1, <4>2
          <6> QED BY <4>1, <4>2, <6>1, <6>2
        <5> HIDE DEF Clear, Stops
        <5> QED BY <3>2, <3>3, <5>1, <5>2
      <4>3. CASE ~(k < n /\ PlainLevel(levels[k + 1]))
        <5>1. ReadAnother(t, Reached(p, levels, k)) = Stuck(levels, k)
          BY <4>1, <4>3, NextIs
        <5>2. Stops(k) /\ k \in 0 .. k + 1 /\ k < k + 1
          BY <4>3
        <5> HIDE DEF Clear, Stops
        <5> QED BY <3>2, <3>3, <5>1, <5>2
      <4> QED BY <4>2, <4>3
    <3>4. ASSUME NEW r \in 0 .. k, r < k, v[k] = Stuck(levels, r), Clear(r), Stops(r)
          PROVE  Sofar(k + 1)
      <4>1. v[k].at = Nowhere /\ v[k].levels = First(levels, r)
        BY <3>4 DEF Stuck
      <4>2. v[k + 1] = Stuck(levels, r)
        BY <3>2, <4>1 DEF ReadAnother, Stuck
      <4>3. r \in 0 .. k + 1 /\ r < k + 1
        BY <2>1, <3>4
      <4> HIDE DEF Clear, Stops
      <4> QED BY <3>4, <4>2, <4>3
    <3> HIDE DEF Clear, Stops
    <3> QED BY <2>1, <3>1, <3>3, <3>4
  <2> HIDE DEF Sofar
  <2> QED BY <2>1, <2>2
<1>5. Sofar(DEPTH)
  <2>1. T \in SUBSET Nat
    OBVIOUS
  <2> HIDE DEF Sofar
  <2>2. \A k \in T : k + 1 \in T
    BY <1>4
  <2> HIDE DEF T
  <2>3. T = Nat
    BY <1>3, <2>1, <2>2, InductiveSet
  <2> QED BY <1>1, <2>3 DEF T
<1>6. Plain(levels) <=> \A i \in 1 .. n : i <= DEPTH => PlainLevel(levels[i])
  <2>1. DOMAIN levels = 1 .. n
    BY <1>1
  <2> QED BY <2>1 DEF Plain, PlainLevel
<1>7. ASSUME v[DEPTH] = Reached(p, levels, DEPTH), Clear(DEPTH)
      PROVE  IsRead(ReadSide(t, p), p, levels, DEPTH)
  <2>1. DEPTH \in 0 .. DEPTH /\ DEPTH <= n /\ \A i \in 1 .. DEPTH : PlainLevel(levels[i])
    BY <1>1, <1>7
  <2>2. n >= DEPTH /\ Plain(levels)
    BY <1>1, <1>6, <2>1
  <2> QED BY <1>2, <1>7, <2>1, <2>2 DEF IsRead, Reached
<1>8. ASSUME NEW r \in 0 .. DEPTH, r < DEPTH, v[DEPTH] = Stuck(levels, r), Clear(r), Stops(r)
      PROVE  IsRead(ReadSide(t, p), p, levels, r)
  <2>1. r <= n /\ r # DEPTH
    BY <1>1, <1>8
  <2>2. ~(n >= DEPTH /\ Plain(levels))
    <3>1. ASSUME n >= DEPTH, Plain(levels) PROVE FALSE
      <4>1. r + 1 \in 1 .. n /\ r + 1 <= DEPTH /\ r < n
        BY <1>1, <1>8, <3>1
      <4> QED BY <1>6, <1>8, <3>1, <4>1
    <3> QED BY <3>1
  <2> QED BY <1>2, <1>8, <2>1, <2>2 DEF IsRead, Stuck
<1> HIDE DEF Clear, Stops
<1> QED BY <1>5, <1>7, <1>8

(* One side, by the parser that does not check, when there is nothing to   *)
(* check                                                                   *)
LEMMA FastSideIs ==
  ASSUME NEW t, NEW p, NEW levels, Stands(t, p, levels),
         Len(levels) >= DEPTH, Plain(levels)
  PROVE  FastSide(t, p) = [at |-> p + 6 * DEPTH, levels |-> First(levels, DEPTH)]
<1> DEFINE n == Len(levels)
<1>1. /\ DEPTH \in Nat /\ n \in Nat /\ p \in Nat /\ levels \in Seq(Levels)
  <2>1. p \in Nat /\ levels \in Seq(Levels)
    BY Zenon DEF Stands
  <2> QED BY <2>1, OrderBookAssumption
<1>2. PICK v : /\ v[0] = [at |-> p, levels |-> <<>>]
               /\ \A k \in 1 .. DEPTH : v[k] = FastAnother(t, v[k - 1])
               /\ FastSide(t, p) = v[DEPTH]
  BY FastSteps
<1>3. \A i \in 1 .. n : i <= DEPTH => PlainLevel(levels[i])
  <2>1. DOMAIN levels = 1 .. n
    BY <1>1
  <2> QED BY <2>1 DEF Plain, PlainLevel
<1> DEFINE T == {k \in Nat : k <= DEPTH => v[k] = Reached(p, levels, k)}
<1>4. 0 \in T
  <2>1. First(levels, 0) = <<>>
    BY DEF First
  <2>2. p + 6 * 0 = p
    BY <1>1
  <2>3. v[0] = Reached(p, levels, 0)
    BY <1>1, <1>2, <2>1, <2>2 DEF Reached
  <2> QED BY <2>3
<1>5. ASSUME NEW k \in Nat, k \in T PROVE k + 1 \in T
  <2>1. k <= DEPTH => v[k] = Reached(p, levels, k)
    <3> QED BY <1>5
  <2>2. ASSUME k + 1 <= DEPTH PROVE v[k + 1] = Reached(p, levels, k + 1)
    <3>1. /\ k + 1 \in 1 .. DEPTH /\ (k + 1) - 1 = k /\ k <= DEPTH
          /\ k <= Len(levels) /\ k < Len(levels) /\ k + 1 \in 1 .. n
      BY <1>1, <2>2
    <3>2. v[k + 1] = FastAnother(t, Reached(p, levels, k))
      BY <1>2, <2>1, <3>1
    <3>3. PlainLevel(levels[k + 1])
      BY <1>3, <2>2, <3>1
    <3>4. FastAnother(t, Reached(p, levels, k)) = Reached(p, levels, k + 1)
      BY <3>1, <3>3, NextIs
    <3> QED BY <3>2, <3>4
  <2> QED BY <2>2
<1>6. v[DEPTH] = Reached(p, levels, DEPTH)
  <2>1. T \in SUBSET Nat
    OBVIOUS
  <2>2. \A k \in T : k + 1 \in T
    BY <1>5
  <2> HIDE DEF T
  <2>3. T = Nat
    BY <1>4, <2>1, <2>2, InductiveSet
  <2> QED BY <1>1, <2>3 DEF T
<1> QED BY <1>2, <1>6 DEF Reached

-----------------------------------------------------------------------------
(* Whole messages.  Where the levels of a side stand                       *)
LEMMA LevelsTextAt ==
  ASSUME NEW levels \in Seq(Levels), NEW i \in 1 .. Len(levels)
  PROVE  /\ 6 * i - 4 \in 1 .. Span(levels) /\ LevelsText(levels)[6 * i - 4] = levels[i].price
         /\ 6 * i - 2 \in 1 .. Span(levels) /\ LevelsText(levels)[6 * i - 2] = levels[i].quantity
<1>1. 6 * i - 4 \in 1 .. Span(levels) /\ 6 * i - 2 \in 1 .. Span(levels)
  BY DEF Span
<1> QED BY <1>1, LevelsTextIs

LEMMA SidesStand ==
  ASSUME NEW bids \in Seq(Levels), NEW asks \in Seq(Levels)
  PROVE  LET t == DepthText([bids |-> bids, asks |-> asks]) IN
         /\ bids # <<>> => Stands(t, 4, bids)
         /\ asks # <<>> => Stands(t, Span(bids) + 8, asks)
<1> DEFINE t == DepthText([bids |-> bids, asks |-> asks])
           b == Span(bids)
           a == Span(asks)
<1>1. /\ t \in Seq(Tokens) /\ Len(t) = b + a + 9
      /\ \A k \in 1 .. b : t[k + 3] = LevelsText(bids)[k]
      /\ t[b + 6] = Name
      /\ \A k \in 1 .. a : t[k + b + 7] = LevelsText(asks)[k]
  BY DepthTextIs
<1>2. a \in Nat /\ b \in Nat /\ Len(bids) \in Nat /\ Len(asks) \in Nat
  BY LevelsTextIs
<1>3. (bids # <<>> => b = 6 * Len(bids) - 1) /\ (asks # <<>> => a = 6 * Len(asks) - 1)
  BY DEF Span
<1> HIDE DEF t, a, b
<1>4. ASSUME bids # <<>> PROVE Stands(t, 4, bids)
  <2>1. ASSUME NEW i \in 1 .. Len(bids)
        PROVE  t[4 + 6 * i - 5] = bids[i].price /\ t[4 + 6 * i - 3] = bids[i].quantity
    <3>1. /\ 6 * i - 4 \in 1 .. b /\ LevelsText(bids)[6 * i - 4] = bids[i].price
          /\ 6 * i - 2 \in 1 .. b /\ LevelsText(bids)[6 * i - 2] = bids[i].quantity
      BY LevelsTextAt DEF b
    <3>2. 4 + 6 * i - 5 = (6 * i - 4) + 3 /\ 4 + 6 * i - 3 = (6 * i - 2) + 3
      BY <1>2
    <3> QED BY <1>1, <3>1, <3>2
  <2>2. 4 + 6 * Len(bids) <= Len(t) /\ 4 + 6 * Len(bids) + 1 = b + 6
    <3> DEFINE m == Len(bids)
               n == Len(t)
    <3>1. n = b + a + 9 /\ b = 6 * m - 1 /\ m \in Nat
      BY <1>1, <1>2, <1>3, <1>4
    <3> HIDE DEF m, n
    <3>2. 4 + 6 * m <= n /\ 4 + 6 * m + 1 = b + 6
      BY <1>2, <3>1
    <3> QED BY <3>2 DEF m, n
  <2> QED BY <1>1, <2>1, <2>2 DEF Stands
<1>5. ASSUME asks # <<>> PROVE Stands(t, b + 8, asks)
  <2>1. ASSUME NEW i \in 1 .. Len(asks)
        PROVE  t[b + 8 + 6 * i - 5] = asks[i].price /\ t[b + 8 + 6 * i - 3] = asks[i].quantity
    <3>1. /\ 6 * i - 4 \in 1 .. a /\ LevelsText(asks)[6 * i - 4] = asks[i].price
          /\ 6 * i - 2 \in 1 .. a /\ LevelsText(asks)[6 * i - 2] = asks[i].quantity
      BY LevelsTextAt DEF a
    <3>2. /\ b + 8 + 6 * i - 5 = (6 * i - 4) + b + 7
          /\ b + 8 + 6 * i - 3 = (6 * i - 2) + b + 7
      BY <1>2
    <3>3. t[b + 8 + 6 * i - 5] = asks[i].price
      BY <1>1, <3>1, <3>2
    <3>4. t[b + 8 + 6 * i - 3] = asks[i].quantity
      BY <1>1, <3>1, <3>2
    <3> QED BY <3>3, <3>4
  <2>2. /\ b + 8 + 6 * Len(asks) <= Len(t) /\ b + 8 + 6 * Len(asks) + 1 > Len(t)
        /\ b + 8 \in Nat /\ b + 8 # 0
    BY <1>1, <1>2, <1>3, <1>5
  <2> QED BY <1>1, <2>1, <2>2 DEF Stands
<1> QED BY <1>4, <1>5 DEF t, b

(* What the parser that checks steps over to get to a side *)
LEMMA SkipsTo ==
  ASSUME NEW bids \in Seq(Levels), NEW asks \in Seq(Levels), NEW t,
         t = DepthText([bids |-> bids, asks |-> asks])
  PROVE  LET b == Span(bids)
             n == Len(t) IN
         /\ bids # <<>> => Skip(t, 1, 1) = 3
         /\ bids = <<>> /\ asks # <<>> => Skip(t, 1, 1) = b + 7
         /\ bids = <<>> /\ asks = <<>> => Skip(t, 1, 1) = n
         /\ \A p \in 4 .. b + 7 : Skip(t, p, 1) = IF asks # <<>> THEN b + 7 ELSE n
         /\ \A p \in b + 8 .. n : Skip(t, p, 1) = n
<1> DEFINE b == Span(bids)
           n == Len(t)
<1>1. t \in Seq(Tokens) /\ n \in Nat /\ b \in Nat /\ n >= b + 9
  <2>1. Span(asks) \in Nat /\ b \in Nat
    BY LevelsTextIs
  <2>2. t \in Seq(Tokens) /\ n = b + Span(asks) + 9
    BY DepthTextIs
  <2> QED BY <2>1, <2>2
<1>2. \A q \in 1 .. n - 1 : Pair(t, q) <=> (q = 3 /\ bids # <<>>) \/ (q = b + 7 /\ asks # <<>>)
  BY PairsAre
<1>3. ASSUME NEW p \in Nat, NEW w \in Nat, 1 <= p, p <= w, w <= n,
             \A q \in p .. w - 1 : ~Pair(t, q),
             w = n \/ Pair(t, w)
      PROVE  Skip(t, p, 1) = w
  <2>1. \A q \in p .. w - 1 : ~(Left(t, q) < 1) /\ ~Pair(t, q)
    <3>1. ASSUME NEW q \in p .. w - 1 PROVE ~(Left(t, q) < 1)
      <4>1. q \in 1 .. Len(t) /\ Len(t) - q >= 1
        BY <1>1, <1>3
      <4>2. Left(t, q) \in Int /\ Left(t, q) >= Len(t) - q
        BY <1>1, <4>1, LeftIs
      <4> QED BY <1>1, <4>1, <4>2
    <3> QED BY <1>3, <3>1
  <2>2. Left(t, w) < 1 \/ Pair(t, w)
    <3>1. ASSUME w = n PROVE Left(t, w) < 1
      <4>1. w \in 1 .. Len(t) /\ w = Len(t)
        BY <1>1, <1>3, <3>1
      <4>2. Left(t, w) = 0
        BY <1>1, <4>1, LeftIs
      <4> QED BY <4>2
    <3> QED BY <1>3, <3>1
  <2>3. 1 \in Nat
    OBVIOUS
  <2> QED BY <1>1, <1>3, <2>1, <2>2, <2>3, SkipIs
<1> HIDE DEF b, n
<1>4. ASSUME bids # <<>> PROVE Skip(t, 1, 1) = 3
  <2>1. Pair(t, 3) /\ \A q \in 1 .. 3 - 1 : ~Pair(t, q)
    BY <1>1, <1>2, <1>4
  <2> QED BY <1>1, <1>3, <2>1
<1>5. ASSUME bids = <<>>, asks # <<>> PROVE Skip(t, 1, 1) = b + 7
  <2>1. Pair(t, b + 7) /\ \A q \in 1 .. (b + 7) - 1 : ~Pair(t, q)
    BY <1>1, <1>2, <1>5
  <2> QED BY <1>1, <1>3, <2>1
<1>6. ASSUME bids = <<>>, asks = <<>> PROVE Skip(t, 1, 1) = n
  <2>1. \A q \in 1 .. n - 1 : ~Pair(t, q)
    BY <1>1, <1>2, <1>6
  <2> QED BY <1>1, <1>3, <2>1
<1>7. ASSUME NEW p \in 4 .. b + 7 PROVE Skip(t, p, 1) = IF asks # <<>> THEN b + 7 ELSE n
  <2>1. CASE asks # <<>>
    <3>1. Pair(t, b + 7) /\ \A q \in p .. (b + 7) - 1 : ~Pair(t, q)
      BY <1>1, <1>2, <2>1
    <3>2. p \in Nat /\ b + 7 \in Nat /\ 1 <= p /\ p <= b + 7 /\ b + 7 <= n
      BY <1>1
    <3> QED BY <1>3, <2>1, <3>1, <3>2
  <2>2. CASE asks = <<>>
    <3>1. \A q \in p .. n - 1 : ~Pair(t, q)
      BY <1>1, <1>2, <2>2
    <3>2. p \in Nat /\ 1 <= p /\ p <= n
      BY <1>1
    <3> QED BY <1>1, <1>3, <2>2, <3>1, <3>2
  <2> QED BY <2>1, <2>2
<1>8. ASSUME NEW p \in b + 8 .. n PROVE Skip(t, p, 1) = n
  <2>1. \A q \in p .. n - 1 : ~Pair(t, q)
    BY <1>1, <1>2
  <2>2. p \in Nat /\ 1 <= p /\ p <= n
    BY <1>1
  <2> QED BY <1>1, <1>3, <2>1, <2>2
<1> QED BY <1>4, <1>5, <1>6, <1>7, <1>8 DEF b, n

(* What the parser that checks reads of a message: r levels of the bids,   *)
(* and of the asks s, which is none unless it got through the bids.        *)
ReadsBoth(read, bids, asks, r, s) ==
  /\ bids # <<>>
  /\ r \in 0 .. DEPTH /\ r <= Len(bids) /\ s \in 0 .. DEPTH /\ s <= Len(asks)
  /\ read = [bids |-> First(bids, r), asks |-> First(asks, s), ok |-> (s = DEPTH)]
  /\ (r = DEPTH) <=> (Len(bids) >= DEPTH /\ Plain(bids))
  /\ (r # DEPTH) => (s = 0)
  /\ (r = DEPTH) => ((s = DEPTH) <=> (Len(asks) >= DEPTH /\ Plain(asks)))

(* Of a message without bids it takes the asks for the bids.               *)
ReadsOne(read, bids, asks, r) ==
  /\ bids = <<>>
  /\ r \in 0 .. DEPTH /\ r <= Len(asks)
  /\ read = [bids |-> First(asks, r), asks |-> <<>>, ok |-> FALSE]

LEMMA ParseIs ==
  ASSUME NEW bids \in Seq(Levels), NEW asks \in Seq(Levels)
  PROVE  LET read == Parse(DepthText([bids |-> bids, asks |-> asks])) IN
         \/ \E r, s : ReadsBoth(read, bids, asks, r, s)
         \/ \E r : ReadsOne(read, bids, asks, r)
<1> DEFINE t == DepthText([bids |-> bids, asks |-> asks])
           n == Len(t)
           b == Span(bids)
           nothing == [at |-> Nowhere, levels |-> <<>>]
           start == Skip(t, 1, 1)
           side == IF Found(t, start) THEN ReadSide(t, start + 1) ELSE nothing
           turn == Skip(t, side.at, 1)
           other == IF side.at # Nowhere /\ Found(t, turn) THEN ReadSide(t, turn + 1) ELSE nothing
<1>1. /\ DEPTH \in Nat /\ DEPTH >= 1 /\ b \in Nat /\ n \in Nat /\ Len(bids) \in Nat /\ Len(asks) \in Nat
      /\ n = b + Span(asks) + 9 /\ Span(asks) \in Nat
      /\ (bids # <<>> => b = 6 * Len(bids) - 1)
      /\ (asks # <<>> => Span(asks) = 6 * Len(asks) - 1)
  <2>1. n = b + Span(asks) + 9
    BY DepthTextIs
  <2>2. b \in Nat /\ Span(asks) \in Nat
    BY LevelsTextIs
  <2>3. DEPTH \in Nat /\ DEPTH >= 1
    BY OrderBookAssumption
  <2>4. (bids # <<>> => b = 6 * Len(bids) - 1) /\ (asks # <<>> => Span(asks) = 6 * Len(asks) - 1)
    BY DEF Span
  <2> HIDE DEF n, b
  <2> QED BY <2>1, <2>2, <2>3, <2>4
<1>2. Parse(t) = [bids |-> side.levels, asks |-> other.levels, ok |-> other.at # Nowhere]
  BY DEF Parse
<1>3. /\ bids # <<>> => start = 3
      /\ bids = <<>> /\ asks # <<>> => start = b + 7
      /\ bids = <<>> /\ asks = <<>> => start = n
      /\ \A p \in 4 .. b + 7 : Skip(t, p, 1) = IF asks # <<>> THEN b + 7 ELSE n
      /\ \A p \in b + 8 .. n : Skip(t, p, 1) = n
  BY SkipsTo
<1>4. /\ bids # <<>> => Stands(t, 4, bids)
      /\ asks # <<>> => Stands(t, b + 8, asks)
  BY SidesStand
<1>5. \A p : Found(t, p) <=> p < n
  BY DEF Found
<1>6. /\ nothing.at = Nowhere /\ nothing.levels = <<>>
      /\ First(asks, 0) = <<>> /\ Nowhere = 0
  BY DEF First, Nowhere
<1>7. /\ side = (IF Found(t, start) THEN ReadSide(t, start + 1) ELSE nothing)
      /\ turn = Skip(t, side.at, 1)
      /\ other = (IF side.at # Nowhere /\ Found(t, turn) THEN ReadSide(t, turn + 1) ELSE nothing)
  OBVIOUS
<1> HIDE DEF t, n, b, nothing, start, side, turn, other
<1>8. CASE bids # <<>>
  <2>1. start = 3 /\ Found(t, start) /\ side = ReadSide(t, 4)
    BY <1>1, <1>3, <1>5, <1>7, <1>8
  <2>2. PICK r : IsRead(side, 4, bids, r)
    BY <1>4, <1>8, <2>1, ReadSideIs
  <2>3. /\ r \in 0 .. DEPTH /\ r <= Len(bids) /\ side.levels = First(bids, r)
        /\ side.at = IF r = DEPTH THEN 4 + 6 * DEPTH ELSE Nowhere
        /\ (r = DEPTH) <=> (Len(bids) >= DEPTH /\ Plain(bids))
    BY <2>2 DEF IsRead
  <2>4. CASE r # DEPTH
    <3>1. other = nothing
      BY <1>7, <2>3, <2>4
    <3>2. Parse(t) = [bids |-> First(bids, r), asks |-> First(asks, 0), ok |-> 0 = DEPTH]
      BY <1>1, <1>2, <1>6, <2>3, <3>1
    <3>3. 0 \in 0 .. DEPTH /\ 0 <= Len(asks)
      BY <1>1
    <3>4. ReadsBoth(Parse(t), bids, asks, r, 0)
      BY <1>8, <2>3, <2>4, <3>2, <3>3 DEF ReadsBoth
    <3> QED BY <3>4 DEF t
  <2>5. CASE r = DEPTH
    <3>1. side.at = 4 + 6 * DEPTH /\ side.at # Nowhere /\ side.at \in 4 .. b + 7
      BY <1>1, <1>6, <1>8, <2>3, <2>5, SMTT(40)
    <3>2. turn = IF asks # <<>> THEN b + 7 ELSE n
      BY <1>3, <1>7, <3>1
    <3>3. CASE asks = <<>>
      <4>1. other = nothing
        BY <1>1, <1>5, <1>7, <3>2, <3>3
      <4>2. Parse(t) = [bids |-> First(bids, r), asks |-> First(asks, 0), ok |-> 0 = DEPTH]
        BY <1>1, <1>2, <1>6, <2>3, <4>1
      <4>3. 0 \in 0 .. DEPTH /\ 0 <= Len(asks) /\ ~(Len(asks) >= DEPTH) /\ 0 # DEPTH
        BY <1>1, <3>3
      <4>4. ReadsBoth(Parse(t), bids, asks, r, 0)
        BY <1>8, <2>3, <2>5, <4>2, <4>3 DEF ReadsBoth
      <4> QED BY <4>4 DEF t
    <3>4. CASE asks # <<>>
      <4>1. other = ReadSide(t, b + 8)
        <5>1. turn = b + 7 /\ turn + 1 = b + 8 /\ turn < n
          BY <1>1, <3>2, <3>4
        <5> QED BY <1>5, <1>7, <3>1, <5>1
      <4>2. PICK s : IsRead(other, b + 8, asks, s)
        BY <1>4, <3>4, <4>1, ReadSideIs
      <4>3. /\ s \in 0 .. DEPTH /\ s <= Len(asks) /\ other.levels = First(asks, s)
            /\ other.at = IF s = DEPTH THEN b + 8 + 6 * DEPTH ELSE Nowhere
            /\ (s = DEPTH) <=> (Len(asks) >= DEPTH /\ Plain(asks))
        BY <4>2 DEF IsRead
      <4>4. (other.at # Nowhere) <=> (s = DEPTH)
        BY <1>1, <1>6, <4>3
      <4>5. Parse(t) = [bids |-> First(bids, r), asks |-> First(asks, s), ok |-> (s = DEPTH)]
        BY <1>2, <2>3, <4>3, <4>4
      <4>6. ReadsBoth(Parse(t), bids, asks, r, s)
        BY <1>8, <2>3, <2>5, <4>3, <4>5 DEF ReadsBoth
      <4> QED BY <4>6 DEF t
    <3> QED BY <3>3, <3>4
  <2> QED BY <2>4, <2>5
<1>9. CASE bids = <<>> /\ asks = <<>>
  <2>1. side = nothing /\ other = nothing
    BY <1>1, <1>3, <1>5, <1>6, <1>7, <1>9
  <2>2. Parse(t) = [bids |-> First(asks, 0), asks |-> <<>>, ok |-> FALSE]
    BY <1>2, <1>6, <2>1
  <2>3. 0 \in 0 .. DEPTH /\ 0 <= Len(asks)
    BY <1>1
  <2>4. ReadsOne(Parse(t), bids, asks, 0)
    BY <1>9, <2>2, <2>3 DEF ReadsOne
  <2> QED BY <2>4 DEF t
<1>10. CASE bids = <<>> /\ asks # <<>>
  <2>1. start = b + 7 /\ start + 1 = b + 8 /\ Found(t, start)
    BY <1>1, <1>3, <1>5, <1>10
  <2>2. PICK r : IsRead(side, b + 8, asks, r)
    BY <1>4, <1>7, <1>10, <2>1, ReadSideIs
  <2>3. /\ r \in 0 .. DEPTH /\ r <= Len(asks) /\ side.levels = First(asks, r)
        /\ side.at = IF r = DEPTH THEN b + 8 + 6 * DEPTH ELSE Nowhere
    BY <2>2 DEF IsRead
  <2>4. other = nothing
    <3>1. CASE r # DEPTH
      BY <1>7, <2>3, <3>1
    <3>2. CASE r = DEPTH
      <4>1. side.at \in b + 8 .. n
        BY <1>1, <1>10, <2>3, <3>2
      <4>2. turn = n
        BY <1>3, <1>7, <4>1
      <4> QED BY <1>1, <1>5, <1>7, <4>2
    <3> QED BY <3>1, <3>2
  <2>5. Parse(t) = [bids |-> First(asks, r), asks |-> <<>>, ok |-> FALSE]
    BY <1>2, <1>6, <2>3, <2>4
  <2>6. ReadsOne(Parse(t), bids, asks, r)
    BY <1>10, <2>3, <2>5 DEF ReadsOne
  <2> QED BY <2>6 DEF t
<1> QED BY <1>8, <1>9, <1>10

(* What the other one reads of a message that gives the whole book         *)
LEMMA FastParseIs ==
  ASSUME NEW bids \in Seq(Levels), NEW asks \in Seq(Levels),
         Len(bids) >= DEPTH, Len(asks) >= DEPTH, Plain(bids), Plain(asks)
  PROVE  FastParse(DepthText([bids |-> bids, asks |-> asks])) =
           [bids |-> First(bids, DEPTH), asks |-> First(asks, DEPTH)]
<1> DEFINE t == DepthText([bids |-> bids, asks |-> asks])
           n == Len(t)
           b == Span(bids)
           a == Span(asks)
           x == Len(bids)
           y == Len(asks)
<1>1. /\ DEPTH \in Nat /\ DEPTH >= 1 /\ x \in Nat /\ y \in Nat
      /\ bids # <<>> /\ asks # <<>>
  BY OrderBookAssumption
<1>2. b = 6 * x - 1 /\ a = 6 * y - 1 /\ t \in Seq(Tokens) /\ n = b + a + 9
  <2>1. t \in Seq(Tokens) /\ n = b + a + 9
    BY DepthTextIs
  <2> QED BY <1>1, <2>1 DEF Span
<1>3. x >= DEPTH /\ y >= DEPTH
  OBVIOUS
<1>4. \A q \in 1 .. n - 1 : Pair(t, q) <=> (q = 3 /\ bids # <<>>) \/ (q = b + 7 /\ asks # <<>>)
  BY PairsAre
<1>5. Stands(t, 4, bids) /\ Stands(t, b + 8, asks)
  BY <1>1, SidesStand
<1> HIDE DEF t, n, a, b, x, y
<1>6. a \in Nat /\ b \in Nat /\ n \in Nat /\ a >= 5 /\ b >= 5
  BY <1>1, <1>2, <1>3
<1>7. ASSUME NEW q \in 1 .. b + 6 PROVE ~(Left(t, q) < 8)
  <2>1. n = b + a + 9 /\ q \in Nat /\ q >= 1 /\ q <= b + 6
    BY <1>2, <1>6
  <2>2. q <= n /\ n - q >= 8
    BY <1>6, <2>1
  <2>3. q \in 1 .. Len(t) /\ n - q >= 8
    BY <1>6, <2>1, <2>2 DEF n
  <2>4. Left(t, q) \in Int /\ Left(t, q) >= n - q
    BY <1>2, <2>3, LeftIs DEF n
  <2> QED BY <1>6, <2>3, <2>4
<1>8. Skip(t, 1, 8) = 3
  <2>1. Pair(t, 3) /\ \A q \in 1 .. 3 - 1 : ~(Left(t, q) < 8) /\ ~Pair(t, q)
    BY <1>1, <1>2, <1>4, <1>6, <1>7
  <2>2. 1 \in Nat /\ 3 \in Nat /\ 8 \in Nat /\ 1 <= 3 /\ 3 <= Len(t)
    BY <1>2, <1>6, SMTT(40) DEF n
  <2> QED BY <1>2, <2>1, <2>2, SkipIs
<1>9. FastSide(t, 4) = [at |-> 4 + 6 * DEPTH, levels |-> First(bids, DEPTH)]
  BY <1>5, FastSideIs
<1>10. Skip(t, 4 + 6 * DEPTH, 8) = b + 7
  <2> DEFINE p == 4 + 6 * DEPTH
             w == b + 7
  <2>1. p \in Nat /\ p >= 4 /\ w \in Nat /\ p <= w /\ w <= n /\ w \in 1 .. n - 1
    BY <1>1, <1>2, <1>3, <1>6
  <2>2. Pair(t, w)
    BY <1>1, <1>4, <2>1
  <2>3. \A q \in p .. w - 1 : ~(Left(t, q) < 8) /\ ~Pair(t, q)
    <3>1. ASSUME NEW q \in p .. w - 1 PROVE q \in 1 .. b + 6 /\ q \in 1 .. n - 1 /\ q # 3 /\ q # b + 7
      BY <1>6, <2>1
    <3> HIDE DEF p, w
    <3> QED BY <1>4, <1>7, <3>1
  <2>4. 8 \in Nat /\ w <= Len(t)
    BY <2>1 DEF n
  <2> HIDE DEF p, w
  <2>5. Skip(t, p, 8) = w
    BY <1>2, <2>1, <2>2, <2>3, <2>4, SkipIs
  <2> QED BY <2>5 DEF p, w
<1>11. FastSide(t, b + 8) = [at |-> (b + 8) + 6 * DEPTH, levels |-> First(asks, DEPTH)]
  BY <1>5, FastSideIs
<1>12. /\ Skip(t, 1, 8) + 1 = 4
       /\ FastSide(t, 4).at = 4 + 6 * DEPTH /\ FastSide(t, 4).levels = First(bids, DEPTH)
       /\ Skip(t, 4 + 6 * DEPTH, 8) + 1 = b + 8
       /\ FastSide(t, b + 8).levels = First(asks, DEPTH)
  BY <1>6, <1>8, <1>9, <1>10, <1>11
<1>13. FastParse(t) = [bids |-> First(bids, DEPTH), asks |-> First(asks, DEPTH)]
  BY <1>12, Zenon DEF FastParse
<1> QED BY <1>13 DEF t

-----------------------------------------------------------------------------
(* The book.                                                               *)

(* As many levels of a side as a book has *)
Most(levels) == IF Len(levels) < DEPTH THEN Len(levels) ELSE DEPTH

LEMMA FirstIs ==
  ASSUME NEW levels \in Seq(Levels), NEW r \in Nat, r <= Len(levels)
  PROVE  /\ First(levels, r) \in Seq(Amounts) /\ Len(First(levels, r)) = r
         /\ \A i \in 1 .. r : First(levels, r)[i] = Level(levels[i]) /\ Level(levels[i]) \in Amounts
<1>1. ASSUME NEW i \in 1 .. r PROVE Level(levels[i]) \in Amounts
  <2>1. levels[i] \in Levels
    OBVIOUS
  <2> QED BY <2>1 DEF Level, Levels, Numerals, Amounts
<1> DEFINE f == [i \in 1 .. r |-> Level(levels[i])]
<1>2. First(levels, r) = f
  BY DEF First
<1>3. f \in Seq(Amounts) /\ Len(f) = r /\ \A i \in 1 .. r : f[i] = Level(levels[i])
  BY <1>1
<1> HIDE DEF f
<1> QED BY <1>1, <1>2, <1>3

LEMMA SaysIs ==
  ASSUME NEW levels \in Seq(Levels)
  PROVE  /\ Says(levels) = First(levels, Most(levels))
         /\ Most(levels) \in 0 .. DEPTH /\ Most(levels) <= Len(levels)
         /\ \A r \in 0 .. DEPTH : r <= Len(levels) => r <= Most(levels)
<1>1. Says(levels) = First(levels, Most(levels))
  BY DEF Says, First, Most
<1>2. DEPTH \in Nat /\ Len(levels) \in Nat
  BY OrderBookAssumption
<1> QED BY <1>1, <1>2 DEF Most

LEMMA PutIs ==
  ASSUME NEW side \in BookSides, NEW levels \in Seq(Levels), NEW r \in 0 .. DEPTH, r <= Len(levels)
  PROVE  /\ Put(side, First(levels, r)) \in BookSides
         /\ \A i \in 1 .. DEPTH : Put(side, First(levels, r))[i] = IF i <= r THEN Level(levels[i]) ELSE side[i]
<1> DEFINE f == First(levels, r)
<1>1. /\ r \in Nat /\ DEPTH \in Nat /\ Len(f) = r
      /\ \A i \in 1 .. r : f[i] = Level(levels[i]) /\ Level(levels[i]) \in Amounts
  BY OrderBookAssumption, FirstIs
<1> HIDE DEF f
<1>2. Put(side, f) = [i \in 1 .. DEPTH |-> IF i <= r THEN f[i] ELSE side[i]]
  BY <1>1 DEF Put
<1>3. ASSUME NEW i \in 1 .. DEPTH
      PROVE  /\ Put(side, f)[i] = IF i <= r THEN Level(levels[i]) ELSE side[i]
             /\ (IF i <= r THEN f[i] ELSE side[i]) \in Amounts
  <2>1. i <= r => i \in 1 .. r
    BY <1>1
  <2>2. side[i] \in Amounts
    BY DEF BookSides
  <2> QED BY <1>1, <1>2, <2>1, <2>2
<1>4. Put(side, f) \in BookSides
  BY <1>2, <1>3 DEF BookSides
<1> QED BY <1>3, <1>4 DEF f

(* Both sides after one another *)
LEMMA SidesJoin ==
  ASSUME NEW m \in Nat, NEW x \in Seq(Amounts), Len(x) = m, NEW y \in Seq(Amounts)
  PROVE  /\ Len(x \o y) = m + Len(y)
         /\ \A i \in 1 .. m : (x \o y)[i] = x[i]
         /\ \A i \in 1 .. Len(y) : (x \o y)[i + m] = y[i]
<1> DEFINE n == Len(y)
<1>1. /\ n \in Nat /\ Len(x \o y) = m + n
      /\ \A i \in 1 .. m + n : (x \o y)[i] = IF i <= m THEN x[i] ELSE y[i - m]
  <2>1. n \in Nat
    OBVIOUS
  <2>2. /\ Len(x \o y) = Len(x) + Len(y)
        /\ \A i \in 1 .. Len(x) + Len(y) : (x \o y)[i] = IF i <= Len(x) THEN x[i] ELSE y[i - Len(x)]
    BY ConcatProperties
  <2> QED BY <2>1, <2>2, Zenon
<1> DEFINE c == x \o y
<1> HIDE DEF n, c
<1>2. \A i \in 1 .. m : c[i] = x[i]
  BY <1>1 DEF c
<1>3. ASSUME NEW i \in 1 .. n PROVE c[i + m] = y[i]
  <2>1. i + m \in 1 .. m + n /\ ~(i + m <= m) /\ (i + m) - m = i
    BY <1>1
  <2> QED BY <1>1, <2>1 DEF c
<1> QED BY <1>1, <1>2, <1>3 DEF n, c

LEMMA BookJoins ==
  ASSUME NEW x \in BookSides, NEW y \in BookSides
  PROVE  /\ \A i \in 1 .. DEPTH : (x \o y)[i] = x[i]
         /\ \A i \in 1 .. DEPTH : (x \o y)[i + DEPTH] = y[i]
<1>1. DEPTH \in Nat
  BY OrderBookAssumption
<1>2. x \in Seq(Amounts) /\ Len(x) = DEPTH /\ y \in Seq(Amounts) /\ Len(y) = DEPTH
  BY <1>1 DEF BookSides
<1> QED BY <1>1, <1>2, SidesJoin

(* What WrittenInOrder says of a message, of the book it met and of the    *)
(* book it left                                                            *)
PartWritten(m, old, new) ==
  LET says == Says(m.bids) \o Says(m.asks)
      now == new.bids \o new.asks
      then == old.bids \o old.asks
  IN \E n \in 0 .. 2 * DEPTH - 1 :
       /\ n <= Len(says)
       /\ \A i \in 1 .. 2 * DEPTH : now[i] = IF i <= n THEN says[i] ELSE then[i]

WrittenOver(m, old, new, ok) ==
  /\ ok <=> Whole(m)
  /\ ok => new.bids \o new.asks = Says(m.bids) \o Says(m.asks)
  /\ ~ok => PartWritten(m, old, new)

(* The book is made of two sides: what is left of a message that was       *)
(* refused, when its first levels were written over a side each.           *)
LEMMA PartIs ==
  ASSUME NEW old \in Books, NEW new \in Books,
         NEW bids \in Seq(Levels), NEW asks \in Seq(Levels),
         NEW first \in Seq(Amounts), NEW second \in Seq(Amounts),
         Says(bids) \o Says(asks) = first \o second,
         Len(first) <= DEPTH,
         NEW r \in 0 .. DEPTH, r <= Len(first),
         NEW s \in 0 .. DEPTH, s <= Len(second), s # DEPTH, (r # DEPTH) => (s = 0),
         \A i \in 1 .. DEPTH : new.bids[i] = IF i <= r THEN first[i] ELSE old.bids[i],
         \A i \in 1 .. DEPTH : new.asks[i] = IF i <= s THEN second[i] ELSE old.asks[i]
  PROVE  PartWritten([bids |-> bids, asks |-> asks], old, new)
<1> DEFINE n == r + s
           says == first \o second
           now == new.bids \o new.asks
           then == old.bids \o old.asks
           x == Len(first)
           y == Len(second)
<1>1. DEPTH \in Nat /\ DEPTH >= 1 /\ x \in Nat /\ y \in Nat /\ n \in Nat
  BY OrderBookAssumption
<1>2. /\ old.bids \in BookSides /\ old.asks \in BookSides
      /\ new.bids \in BookSides /\ new.asks \in BookSides
  BY DEF Books
<1>3. /\ \A i \in 1 .. DEPTH : now[i] = new.bids[i]
      /\ \A i \in 1 .. DEPTH : now[i + DEPTH] = new.asks[i]
  BY <1>2, BookJoins
<1>4. /\ \A i \in 1 .. DEPTH : then[i] = old.bids[i]
      /\ \A i \in 1 .. DEPTH : then[i + DEPTH] = old.asks[i]
  BY <1>2, BookJoins
<1>5. /\ Len(says) = x + y
      /\ \A i \in 1 .. x : says[i] = first[i]
      /\ \A i \in 1 .. y : says[i + x] = second[i]
  BY <1>1, SidesJoin
<1>6. PartWritten([bids |-> bids, asks |-> asks], old, new) <=>
        \E k \in 0 .. 2 * DEPTH - 1 :
          /\ k <= Len(says)
          /\ \A i \in 1 .. 2 * DEPTH : now[i] = IF i <= k THEN says[i] ELSE then[i]
  BY Zenon DEF PartWritten
<1>7. x <= DEPTH /\ r <= x /\ s <= y
  OBVIOUS
<1> HIDE DEF n, says, now, then, x, y
<1>8. n \in 0 .. 2 * DEPTH - 1 /\ n <= Len(says) /\ n = r + s
  BY <1>1, <1>5, <1>7 DEF n
<1>9. ASSUME NEW i \in 1 .. 2 * DEPTH PROVE now[i] = IF i <= n THEN says[i] ELSE then[i]
  <2>1. CASE i <= DEPTH
    <3>1. i \in 1 .. DEPTH /\ (i <= n <=> i <= r)
      BY <1>1, <1>8, <2>1, SMTT(40)
    <3>2. now[i] = (IF i <= r THEN first[i] ELSE old.bids[i]) /\ then[i] = old.bids[i]
      BY <1>3, <1>4, <3>1
    <3>3. i <= r => says[i] = first[i]
      <4>1. i <= r => i \in 1 .. x
        BY <1>1, <1>7, <3>1
      <4> QED BY <1>5, <4>1
    <3> QED BY <3>1, <3>2, <3>3
  <2>2. CASE ~(i <= DEPTH)
    <3> DEFINE j == i - DEPTH
    <3>1. j \in 1 .. DEPTH /\ i = j + DEPTH /\ (i <= n <=> j <= s)
      BY <1>1, <1>8, <2>2, SMTT(40)
    <3> HIDE DEF j
    <3>2. now[i] = (IF j <= s THEN second[j] ELSE old.asks[j]) /\ then[i] = old.asks[j]
      BY <1>3, <1>4, <3>1
    <3>3. j <= s => says[i] = second[j]
      <4>1. j <= s => j \in 1 .. y /\ i = j + x
        BY <1>1, <1>7, <3>1
      <4> QED BY <1>5, <4>1
    <3> QED BY <3>1, <3>2, <3>3
  <2> QED BY <2>1, <2>2
<1> QED BY <1>6, <1>8, <1>9

LEMMA PutRead ==
  ASSUME NEW old \in Books, NEW bids \in Seq(Levels), NEW asks \in Seq(Levels)
  PROVE  LET m == [bids |-> bids, asks |-> asks]
             read == Parse(DepthText(m))
             new == [bids |-> Put(old.bids, read.bids), asks |-> Put(old.asks, read.asks)] IN
         /\ new \in Books
         /\ WrittenOver(m, old, new, read.ok)
         /\ read.ok => FastParse(DepthText(m)) = new
<1> DEFINE m == [bids |-> bids, asks |-> asks]
           read == Parse(DepthText(m))
           new == [bids |-> Put(old.bids, read.bids), asks |-> Put(old.asks, read.asks)]
<1>1. /\ DEPTH \in Nat /\ DEPTH >= 1 /\ Len(bids) \in Nat /\ Len(asks) \in Nat
      /\ old.bids \in BookSides /\ old.asks \in BookSides
  BY OrderBookAssumption DEF Books
<1>2. /\ Says(bids) = First(bids, Most(bids)) /\ Says(asks) = First(asks, Most(asks))
      /\ Most(bids) \in 0 .. DEPTH /\ Most(bids) <= Len(bids)
      /\ Most(asks) \in 0 .. DEPTH /\ Most(asks) <= Len(asks)
      /\ \A r \in 0 .. DEPTH : r <= Len(bids) => r <= Most(bids)
      /\ \A r \in 0 .. DEPTH : r <= Len(asks) => r <= Most(asks)
  BY SaysIs
<1>3. /\ First(bids, Most(bids)) \in Seq(Amounts) /\ Len(First(bids, Most(bids))) = Most(bids)
      /\ \A i \in 1 .. Most(bids) : First(bids, Most(bids))[i] = Level(bids[i])
  <2>1. Most(bids) \in Nat /\ Most(bids) <= Len(bids)
    BY <1>2
  <2> QED BY <2>1, FirstIs
<1>4. /\ First(asks, Most(asks)) \in Seq(Amounts) /\ Len(First(asks, Most(asks))) = Most(asks)
      /\ \A i \in 1 .. Most(asks) : First(asks, Most(asks))[i] = Level(asks[i])
  <2>1. Most(asks) \in Nat /\ Most(asks) <= Len(asks)
    BY <1>2
  <2> QED BY <2>1, FirstIs
<1>5. m.bids = bids /\ m.asks = asks /\ new.bids = Put(old.bids, read.bids) /\ new.asks = Put(old.asks, read.asks)
  OBVIOUS
<1>6. (\E r, s : ReadsBoth(read, bids, asks, r, s)) \/ (\E r : ReadsOne(read, bids, asks, r))
  BY ParseIs
<1>7. Len(bids) >= DEPTH /\ Len(asks) >= DEPTH /\ Plain(bids) /\ Plain(asks) =>
        FastParse(DepthText(m)) = [bids |-> First(bids, DEPTH), asks |-> First(asks, DEPTH)]
  BY FastParseIs
<1>8. Whole(m) <=> Len(bids) >= DEPTH /\ Len(asks) >= DEPTH /\ Plain(bids) /\ Plain(asks)
  BY DEF Whole
<1>9. new = [bids |-> new.bids, asks |-> new.asks]
  OBVIOUS
<1>10. new.bids \in BookSides /\ new.asks \in BookSides => new \in Books
  BY DEF Books
<1> DEFINE M == [bids |-> bids, asks |-> asks]
<1>11. m = M
  OBVIOUS
<1> HIDE DEF m, read, new
<1>12. ASSUME NEW r, NEW s, ReadsBoth(read, bids, asks, r, s)
       PROVE  new \in Books /\ WrittenOver(m, old, new, read.ok) /\ (read.ok => FastParse(DepthText(m)) = new)
  <2>1. /\ r \in 0 .. DEPTH /\ r <= Len(bids) /\ s \in 0 .. DEPTH /\ s <= Len(asks)
        /\ read = [bids |-> First(bids, r), asks |-> First(asks, s), ok |-> (s = DEPTH)]
        /\ (r = DEPTH) <=> (Len(bids) >= DEPTH /\ Plain(bids))
        /\ (r # DEPTH) => (s = 0)
        /\ (r = DEPTH) => ((s = DEPTH) <=> (Len(asks) >= DEPTH /\ Plain(asks)))
    BY <1>12, Zenon DEF ReadsBoth
  <2>2. /\ new.bids \in BookSides
        /\ \A i \in 1 .. DEPTH : new.bids[i] = IF i <= r THEN Level(bids[i]) ELSE old.bids[i]
    <3>1. new.bids = Put(old.bids, First(bids, r))
      BY <1>5, <2>1
    <3> QED BY <1>1, <2>1, <3>1, PutIs
  <2>3. /\ new.asks \in BookSides
        /\ \A i \in 1 .. DEPTH : new.asks[i] = IF i <= s THEN Level(asks[i]) ELSE old.asks[i]
    <3>1. new.asks = Put(old.asks, First(asks, s))
      BY <1>5, <2>1
    <3> QED BY <1>1, <2>1, <3>1, PutIs
  <2>4. new \in Books
    BY <1>10, <2>2, <2>3
  <2>5. read.ok = (s = DEPTH)
    BY <2>1
  <2>6. read.ok <=> Whole(m)
    <3>1. s = DEPTH => r = DEPTH
      BY <1>1, <2>1
    <3>2. (s = DEPTH) <=> Whole(m)
      BY <1>8, <2>1, <3>1, Zenon
    <3> QED BY <2>5, <3>2, Zenon
  <2>7. CASE s = DEPTH
    <3>1. r = DEPTH /\ Whole(m) /\ Most(bids) = DEPTH /\ Most(asks) = DEPTH
      <4>1. r = DEPTH
        BY <1>1, <2>1, <2>7
      <4>2. Whole(m)
        BY <2>5, <2>6, <2>7, Zenon
      <4>3. Len(bids) >= DEPTH /\ Len(asks) >= DEPTH
        BY <1>8, <4>2, Zenon
      <4>4. Most(bids) = DEPTH /\ Most(asks) = DEPTH
        BY <1>1, <4>3 DEF Most
      <4> QED BY <4>1, <4>2, <4>4
    <3>2. new.bids = First(bids, DEPTH)
      <4>1. \A i \in 1 .. DEPTH : new.bids[i] = Level(bids[i])
        BY <1>1, <2>2, <3>1
      <4>2. new.bids = [i \in 1 .. DEPTH |-> Level(bids[i])]
        BY <2>2, <4>1 DEF BookSides
      <4> QED BY <4>2 DEF First
    <3>3. new.asks = First(asks, DEPTH)
      <4>1. \A i \in 1 .. DEPTH : new.asks[i] = Level(asks[i])
        BY <1>1, <2>3, <2>7
      <4>2. new.asks = [i \in 1 .. DEPTH |-> Level(asks[i])]
        BY <2>3, <4>1 DEF BookSides
      <4> QED BY <4>2 DEF First
    <3>4. WrittenOver(m, old, new, read.ok)
      <4>1. new.bids = Says(m.bids) /\ new.asks = Says(m.asks)
        BY <1>2, <1>5, <3>1, <3>2, <3>3
      <4> QED BY <2>5, <2>6, <2>7, <4>1, Zenon DEF WrittenOver
    <3>5. FastParse(DepthText(m)) = new
      BY <1>7, <1>8, <1>9, <3>1, <3>2, <3>3, Zenon
    <3> QED BY <2>4, <3>4, <3>5
  <2>8. CASE s # DEPTH
    <3> DEFINE first == First(bids, Most(bids))
               second == First(asks, Most(asks))
    <3>1. r <= Len(first) /\ s <= Len(second) /\ Len(first) <= DEPTH
      BY <1>1, <1>2, <1>3, <1>4, <2>1
    <3>2. \A i \in 1 .. DEPTH : new.bids[i] = IF i <= r THEN first[i] ELSE old.bids[i]
      <4>1. ASSUME NEW i \in 1 .. DEPTH, i <= r PROVE first[i] = Level(bids[i])
        <5>1. i \in 1 .. Most(bids)
          BY <1>1, <1>2, <1>3, <2>1, <3>1, <4>1
        <5> QED BY <1>3, <5>1
      <4> HIDE DEF first
      <4> QED BY <2>2, <4>1
    <3>3. \A i \in 1 .. DEPTH : new.asks[i] = IF i <= s THEN second[i] ELSE old.asks[i]
      <4>1. ASSUME NEW i \in 1 .. DEPTH, i <= s PROVE second[i] = Level(asks[i])
        <5>1. i \in 1 .. Most(asks)
          BY <1>1, <1>2, <1>4, <2>1, <3>1, <4>1
        <5> QED BY <1>4, <5>1
      <4> HIDE DEF second
      <4> QED BY <2>3, <4>1
    <3>4. Says(bids) \o Says(asks) = first \o second /\ first \in Seq(Amounts) /\ second \in Seq(Amounts)
      BY <1>2, <1>3, <1>4
    <3> HIDE DEF first, second
    <3>5. PartWritten(m, old, new)
      <4>1. /\ r \in 0 .. DEPTH /\ s \in 0 .. DEPTH /\ s # DEPTH /\ ((r # DEPTH) => (s = 0))
        BY <2>1, <2>8, Zenon
      <4>2. PartWritten(M, old, new)
        BY <2>4, <3>1, <3>2, <3>3, <3>4, <4>1, PartIs
      <4> QED BY <1>11, <4>2, Zenon
    <3>6. ~read.ok
      BY <2>5, <2>8
    <3>7. WrittenOver(m, old, new, read.ok)
      BY <2>6, <3>5, <3>6, Zenon DEF WrittenOver
    <3> QED BY <2>4, <3>6, <3>7
  <2> QED BY <2>7, <2>8
<1>13. ASSUME NEW r, ReadsOne(read, bids, asks, r)
       PROVE  new \in Books /\ WrittenOver(m, old, new, read.ok) /\ (read.ok => FastParse(DepthText(m)) = new)
  <2>1. /\ bids = <<>> /\ r \in 0 .. DEPTH /\ r <= Len(asks)
        /\ read = [bids |-> First(asks, r), asks |-> <<>>, ok |-> FALSE]
    BY <1>13, Zenon DEF ReadsOne
  <2>2. /\ new.bids \in BookSides
        /\ \A i \in 1 .. DEPTH : new.bids[i] = IF i <= r THEN Level(asks[i]) ELSE old.bids[i]
    <3>1. new.bids = Put(old.bids, First(asks, r))
      BY <1>5, <2>1
    <3> QED BY <1>1, <2>1, <3>1, PutIs
  <2>3. /\ new.asks \in BookSides
        /\ \A i \in 1 .. DEPTH : new.asks[i] = old.asks[i]
    <3>1. new.asks = Put(old.asks, First(asks, 0))
      BY <1>5, <2>1 DEF First
    <3>2. 0 \in 0 .. DEPTH /\ 0 <= Len(asks)
      BY <1>1
    <3>3. /\ new.asks \in BookSides
          /\ \A i \in 1 .. DEPTH : new.asks[i] = IF i <= 0 THEN Level(asks[i]) ELSE old.asks[i]
      BY <1>1, <3>1, <3>2, PutIs
    <3>4. \A i \in 1 .. DEPTH : ~(i <= 0)
      BY <1>1
    <3> QED BY <3>3, <3>4
  <2>4. new \in Books
    BY <1>10, <2>2, <2>3
  <2>5. read.ok = FALSE /\ ~Whole(m)
    BY <1>1, <1>8, <2>1
  <2> DEFINE first == First(asks, Most(asks))
             second == <<>>
  <2>6. r <= Len(first) /\ 0 <= Len(second) /\ Len(first) <= DEPTH
    BY <1>1, <1>2, <1>4, <2>1
  <2>7. \A i \in 1 .. DEPTH : new.bids[i] = IF i <= r THEN first[i] ELSE old.bids[i]
    <3>1. ASSUME NEW i \in 1 .. DEPTH, i <= r PROVE first[i] = Level(asks[i])
      <4>1. i \in 1 .. Most(asks)
        BY <1>1, <1>2, <1>4, <2>1, <2>6, <3>1
      <4> QED BY <1>4, <4>1
    <3> HIDE DEF first
    <3> QED BY <2>2, <3>1
  <2>8. \A i \in 1 .. DEPTH : new.asks[i] = IF i <= 0 THEN second[i] ELSE old.asks[i]
    <3>1. \A i \in 1 .. DEPTH : ~(i <= 0)
      BY <1>1
    <3> QED BY <2>3, <3>1
  <2>9. Says(bids) \o Says(asks) = first \o second /\ first \in Seq(Amounts) /\ second \in Seq(Amounts)
    <3>1. Says(asks) = first /\ first \in Seq(Amounts)
      BY <1>2, <1>4
    <3>2. Says(bids) = <<>>
      <4>1. Most(bids) = 0
        BY <1>1, <2>1 DEF Most
      <4> QED BY <1>2, <4>1 DEF First
    <3> HIDE DEF first
    <3>3. <<>> \o first = first /\ first \o <<>> = first
      BY <3>1, ConcatEmptySeq
    <3> QED BY <3>1, <3>2, <3>3
  <2>10. 0 \in 0 .. DEPTH /\ 0 # DEPTH
    BY <1>1
  <2> HIDE DEF first, second
  <2>11. PartWritten(m, old, new)
    <3>1. PICK s : s = 0
      OBVIOUS
    <3>2. /\ r \in 0 .. DEPTH /\ s \in 0 .. DEPTH /\ s # DEPTH /\ ((r # DEPTH) => (s = 0))
          /\ s <= Len(second)
          /\ \A i \in 1 .. DEPTH : new.asks[i] = IF i <= s THEN second[i] ELSE old.asks[i]
      BY <2>1, <2>6, <2>8, <2>10, <3>1, Zenon
    <3>3. PartWritten(M, old, new)
      BY <2>4, <2>6, <2>7, <2>9, <3>2, PartIs, ZenonT(40)
    <3> QED BY <1>11, <3>3, Zenon
  <2>12. WrittenOver(m, old, new, read.ok)
    BY <2>5, <2>11, Zenon DEF WrittenOver
  <2> QED BY <2>4, <2>5, <2>12
<1> QED BY <1>6, <1>12, <1>13 DEF m, read, new

-----------------------------------------------------------------------------
(* The invariant *)
LEMMA BookInvInit == BookInit => BookInv
<1> SUFFICES ASSUME BookInit PROVE BookInv
  OBVIOUS
<1>1. DEPTH \in Nat /\ DEPTH >= 1
  BY OrderBookAssumption
<1>2. /\ book = EmptyBook /\ before = EmptyBook /\ accepted = FALSE
      /\ message = [bids |-> <<>>, asks |-> <<>>]
  BY DEF BookInit
<1>3. EmptyBook \in Books
  BY <1>1 DEF EmptyBook, NoLevel, Books, BookSides, Amounts
<1>4. /\ message.bids = <<>> /\ message.asks = <<>> /\ <<>> \in Seq(Levels)
      /\ message = [bids |-> message.bids, asks |-> message.asks]
  BY <1>2
<1>5. ~Whole(message)
  BY <1>1, <1>4 DEF Whole
<1>6. PartWritten(message, before, book)
  <2>1. /\ Len(Says(message.bids) \o Says(message.asks)) \in Nat
        /\ Len(Says(message.bids) \o Says(message.asks)) >= 0
    <3>1. Says(<<>>) = <<>>
      BY <1>1 DEF Says
    <3> QED BY <1>4, <3>1
  <2>2. 0 \in 0 .. 2 * DEPTH - 1 /\ 0 <= Len(Says(message.bids) \o Says(message.asks))
        /\ \A i \in 1 .. 2 * DEPTH : ~(i <= 0)
    BY <1>1, <2>1
  <2>3. \A i \in 1 .. 2 * DEPTH :
          (book.bids \o book.asks)[i] =
             IF i <= 0 THEN (Says(message.bids) \o Says(message.asks))[i]
             ELSE (before.bids \o before.asks)[i]
    BY <1>2, <2>2, Zenon
  <2> QED BY <2>2, <2>3, Zenon DEF PartWritten
<1>7. WrittenInOrder
  BY <1>2, <1>5, <1>6, Zenon DEF WrittenInOrder, PartWritten
<1>8. SameBook
  BY <1>2 DEF SameBook
<1>9. message \in [bids : Seq(Levels), asks : Seq(Levels)]
  BY <1>4
<1> QED BY <1>2, <1>3, <1>7, <1>8, <1>9 DEF BookInv

LEMMA BookInvStep ==
  ASSUME BookInv, [DepthUpdate]_bookVars
  PROVE  BookInv'
<1>1. CASE UNCHANGED bookVars
  <2>1. /\ book' = book /\ fast' = fast /\ before' = before
        /\ message' = message /\ accepted' = accepted
    BY <1>1 DEF bookVars
  <2> QED BY <2>1 DEF BookInv, WrittenInOrder, SameBook
<1>2. CASE DepthUpdate
  <2>1. PICK m \in Messages :
          /\ message' = m /\ before' = book /\ accepted' = Parse(DepthText(m)).ok
          /\ book' = [bids |-> Put(book.bids, Parse(DepthText(m)).bids),
                      asks |-> Put(book.asks, Parse(DepthText(m)).asks)]
          /\ fast' = FastParse(DepthText(m))
    <3>1. PICK r \in Readings :
            /\ message' = r.message /\ before' = book /\ accepted' = r.read.ok
            /\ book' = [bids |-> Put(book.bids, r.read.bids), asks |-> Put(book.asks, r.read.asks)]
            /\ fast' = r.fast
      BY <1>2 DEF DepthUpdate
    <3>2. PICK m \in Messages :
            r = [message |-> m, read |-> Parse(DepthText(m)), fast |-> FastParse(DepthText(m))]
      BY DEF Readings
    <3>3. r.message = m /\ r.read = Parse(DepthText(m)) /\ r.fast = FastParse(DepthText(m))
      BY <3>2
    <3> QED BY <3>1, <3>3, Zenon
  <2>2. m \in [bids : Seq(Levels), asks : Seq(Levels)]
    BY OrderBookAssumption
  <2>3. m.bids \in Seq(Levels) /\ m.asks \in Seq(Levels) /\ m = [bids |-> m.bids, asks |-> m.asks]
    BY <2>2
  <2> DEFINE read == Parse(DepthText(m))
             new == [bids |-> Put(book.bids, read.bids), asks |-> Put(book.asks, read.asks)]
  <2>4. book \in Books
    BY DEF BookInv
  <2>5. /\ new \in Books
        /\ WrittenOver(m, book, new, read.ok)
        /\ read.ok => FastParse(DepthText(m)) = new
    BY <2>3, <2>4, PutRead
  <2>6. message' = m /\ before' = book /\ accepted' = read.ok /\ book' = new /\ fast' = FastParse(DepthText(m))
    BY <2>1
  <2> HIDE DEF read, new
  <2>7. WrittenOver(message, before, book, accepted)'
    BY <2>5, <2>6, Zenon DEF WrittenOver, PartWritten
  <2>8. WrittenInOrder'
    BY <2>7, Zenon DEF WrittenOver, PartWritten, WrittenInOrder
  <2>9. SameBook'
    BY <2>5, <2>6, Zenon DEF SameBook
  <2>10. book' \in Books /\ before' \in Books /\ message' \in [bids : Seq(Levels), asks : Seq(Levels)]
    BY <2>2, <2>4, <2>5, <2>6, Zenon
  <2> QED BY <2>8, <2>9, <2>10 DEF BookInv
<1> QED BY <1>1, <1>2

LEMMA BookInvariance == BookSpec => []BookInv
<1>1. BookInv /\ [DepthUpdate]_bookVars => BookInv'
  BY BookInvStep
<1> QED BY BookInvInit, <1>1, PTL DEF BookSpec

(* A depth message is accepted exactly when it gives the whole book, in    *)
(* numerals that read, and then it is the book.  One that is refused has   *)
(* replaced the first levels, bids before asks, as far as it read, and     *)
(* left the levels behind them as they were: for books of every depth and  *)
(* messages with any number of levels (json_orderbook_2.rs:86-147).        *)
THEOREM BooksInOrder == BookSpec => []WrittenInOrder
<1>1. BookInv => WrittenInOrder
  BY DEF BookInv
<1> QED BY BookInvariance, <1>1, PTL

(* On every message that the parser that checks accepts, the one that does *)
(* not check reads the same book (json_orderbook.rs:59-101).               *)
THEOREM BooksAgree == BookSpec => []SameBook
<1>1. BookInv => SameBook
  BY DEF BookInv
<1> QED BY BookInvariance, <1>1, PTL
=============================================================================
