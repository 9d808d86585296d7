---------------------------- MODULE OrderClient ----------------------------
(***************************************************************************)
(* BinanceWSClient of binance_client.rs and the exchange at the other end  *)
(* of its connection.  Each call of the client writes one request and then *)
(* reads one message; if that is a text it is the answer, whatever request *)
(* it answers.  Nothing is tried again and the connection is never         *)
(* replaced.                                                               *)
(*                                                                         *)
(* The WebSocket below is reduced to what send and read return (module     *)
(* WebSocket has the rest): send fails once a close frame has been read or *)
(* the stream has ended, and if the connection is reset; read returns the  *)
(* messages in the order they arrive and then the end or the reset.        *)
(***************************************************************************)
EXTENDS Integers, Sequences

CONSTANTS
  Requests,      \* what the user of the client may ask for
  MaxPosted      \* bound: messages the exchange sends unasked for

Logon == [method |-> "session.logon", of |-> 0]

ASSUME OrderAssumption ==
  /\ Requests \subseteq [method : {"order.place", "order.cancel", "account.status"}, of : Nat]
  /\ MaxPosted \in Nat

(* What read makes of what the exchange sends: a text that is JSON and     *)
(* answers the request number `re', a text that is no JSON, a ping or      *)
(* other message, a close, a frame that is refused.                        *)
Kinds == {"answer", "garbage", "other", "close", "bad"}
Message == [kind : Kinds, re : Nat]
Unasked(k) == [kind |-> k, re |-> 0]

(* What a call came to: the number its request was written under and that  *)
(* of the message it read (0 if none), and the request that was answered.  *)
Ends == {"ok", "unparsed", "not_text", "refused", "send_error", "read_error"}
Outcome == [got : Ends, place : Nat, message : Nat, answer : Nat]

VARIABLES
  client,     \* where the client's thread is
  socket,     \* WebSocketState, as far as it matters here
  link,       \* the connection: "up", "shut" by the exchange, or "reset"
  sent,       \* history: the requests written
  posted,     \* history: the messages the exchange has got through
  reads,      \* how many of them the client has read
  calls       \* history: what the calls came to

clientVars == <<client, socket, link, sent, posted, reads, calls>>

Places == {"new", "logging_in", "idle", "reading", "gone"}
Reading == client \in {"logging_in", "reading"}

ClientTypeOK ==
  /\ client \in Places
  /\ socket \in {"active", "closing", "terminated"}
  /\ link \in {"up", "shut", "reset"}
  /\ sent \in Seq(Requests \cup {Logon})
  /\ posted \in Seq(Message)
  /\ reads \in 0 .. Len(posted)
  /\ calls \in Seq(Outcome)

ClientInit ==
  /\ client = "new"
  /\ socket = "active"
  /\ link = "up"
  /\ sent = << >>
  /\ posted = << >>
  /\ reads = 0
  /\ calls = << >>

-----------------------------------------------------------------------------
(* The call ends; authenticate that fails takes the client with it. *)
Returns(outcome, well) ==
  /\ calls' = Append(calls, outcome)
  /\ client' = IF client \in {"new", "logging_in"} /\ ~well THEN "gone" ELSE "idle"

(* An outcome without an answer: what it got, with the m-th message. *)
Without(got, place, m) == [got |-> got, place |-> place, message |-> m, answer |-> 0]

(* send fails: SendAfterClosing or AlreadyClosed, or an error of the       *)
(* stream.  There is no read.                                              *)
Unwritten ==
  /\ socket # "active" \/ link = "reset"
  /\ Returns(Without(IF socket # "active" THEN "refused" ELSE "send_error", 0, 0), FALSE)
  /\ UNCHANGED <<socket, link, sent, posted, reads>>

(* send succeeds, and the thread goes on to read. *)
Written(r) ==
  /\ socket = "active" /\ link # "reset"
  /\ sent' = Append(sent, r)
  /\ client' = IF client = "new" THEN "logging_in" ELSE "reading"
  /\ UNCHANGED <<socket, link, posted, reads, calls>>

(* connect, in BinanceWSClient::new, has failed. *)
ConnectFails ==
  /\ client = "new"
  /\ client' = "gone"
  /\ UNCHANGED <<socket, link, sent, posted, reads, calls>>

Authenticate == client = "new" /\ (Written(Logon) \/ Unwritten)

(* place_order, cancel_order and acc_status differ in what they ask for. *)
Call(r) == client = "idle" /\ (Written(r) \/ Unwritten)

(* close: nobody calls it. *)
CloseClient ==
  /\ client = "idle"
  /\ client' = "gone"
  /\ UNCHANGED <<socket, link, sent, posted, reads, calls>>

-----------------------------------------------------------------------------
(* The read that ends each call *)

Next1 == posted[reads + 1]
Arrived == Reading /\ reads < Len(posted)

(* Mutant: the message is looked at and left where it is. *)
MutTakeAnswer ==
  /\ Arrived /\ Next1.kind = "answer"
  /\ \E well \in BOOLEAN :
       Returns([got |-> "ok", place |-> Len(sent), message |-> reads + 1,
                answer |-> Next1.re], client = "reading" \/ well)
  /\ UNCHANGED <<socket, link, sent, posted, reads>>

(* A text that is JSON is the answer, and its status matters to            *)
(* authenticate only.                                                      *)
TakeAnswer ==
  /\ Arrived /\ Next1.kind = "answer"
  /\ reads' = reads + 1
  /\ \E well \in BOOLEAN :
       Returns([got |-> "ok", place |-> Len(sent), message |-> reads + 1,
                answer |-> Next1.re], client = "reading" \/ well)
  /\ UNCHANGED <<socket, link, sent, posted>>

(* Anything else is an error, after which the connection is used as before *)
(* unless it was a close.                                                  *)
TakeOther ==
  /\ Arrived /\ Next1.kind # "answer"
  /\ reads' = reads + 1
  /\ Returns(Without(CASE Next1.kind = "garbage" -> "unparsed"
                       [] Next1.kind = "bad" -> "read_error"
                       [] OTHER -> "not_text", Len(sent), reads + 1), FALSE)
  /\ socket' = IF Next1.kind = "close" THEN "closing" ELSE socket
  /\ UNCHANGED <<link, sent, posted>>

(* Mutant: the read gives up after a while. *)
MutReadFails ==
  /\ Reading /\ reads = Len(posted)
  /\ Returns(Without("read_error", Len(sent), 0), FALSE)
  /\ socket' = IF link = "shut" THEN "terminated" ELSE socket
  /\ UNCHANGED <<link, sent, posted, reads>>

(* Mutant: the end of the stream leaves the socket as it is. *)
MutReadFailsOpen ==
  /\ Reading /\ reads = Len(posted) /\ link # "up"
  /\ Returns(Without("read_error", Len(sent), 0), FALSE)
  /\ UNCHANGED <<socket, link, sent, posted, reads>>

(* There is nothing more to read.  The end of the stream terminates the    *)
(* socket, a reset leaves it as it is.                                     *)
ReadFails ==
  /\ Reading /\ reads = Len(posted) /\ link # "up"
  /\ Returns(Without("read_error", Len(sent), 0), FALSE)
  /\ socket' = IF link = "shut" THEN "terminated" ELSE socket
  /\ UNCHANGED <<link, sent, posted, reads>>

-----------------------------------------------------------------------------
(* The exchange answers each request at most once, in any order, and may   *)
(* send anything else in between, a close last.                            *)

Unanswered(i) == \A k \in DOMAIN posted : posted[k].kind = "answer" => posted[k].re # i

MayPost ==
  /\ link = "up"
  /\ \A k \in DOMAIN posted : posted[k].kind # "close"

Post(m) ==
  /\ MayPost
  /\ posted' = Append(posted, m)
  /\ UNCHANGED <<client, socket, link, sent, reads, calls>>

Answer == \E i \in DOMAIN sent : Unanswered(i) /\ Post([kind |-> "answer", re |-> i])

PostOther ==
  /\ Len(posted) < MaxPosted
  /\ \E k \in Kinds \ {"answer"} : Post(Unasked(k))

Shut ==
  /\ link = "up"
  /\ link' = "shut"
  /\ UNCHANGED <<client, socket, sent, posted, reads, calls>>

(* Of the messages under way some may never arrive. *)
Reset ==
  /\ link # "reset"
  /\ link' = "reset"
  /\ \E n \in reads .. Len(posted) : posted' = SubSeq(posted, 1, n)
  /\ UNCHANGED <<client, socket, sent, reads, calls>>

ClientRead == TakeAnswer \/ TakeOther \/ ReadFails
Exchange == Answer \/ PostOther \/ Shut \/ Reset

ClientNext ==
  \/ ConnectFails \/ Authenticate \/ (\E r \in Requests : Call(r)) \/ CloseClient
  \/ ClientRead
  \/ Exchange

ClientSpec == ClientInit /\ [][ClientNext]_clientVars

-----------------------------------------------------------------------------
(* The n-th request that is written reads the n-th message, whatever it    *)
(* is: a client that has read a ping in place of an answer never catches   *)
(* up (binance_client.rs:166-175).                                         *)
InStep ==
  \A i \in DOMAIN calls :
    calls[i].message # 0 => calls[i].message = calls[i].place

(* As long as nothing but answers has been read, each call that succeeds   *)
(* returns the answer to its own request, even of an exchange that does    *)
(* not answer in order.                                                    *)
OwnAnswer ==
  \A i \in DOMAIN calls :
    /\ calls[i].got = "ok"
    /\ \A k \in 1 .. calls[i].message : posted[k].kind = "answer"
    => calls[i].answer = calls[i].place

(* No answer is returned by two calls, or by a call made before the        *)
(* request it answers.                                                     *)
AnsweredOnce ==
  \A i, j \in DOMAIN calls :
    calls[i].got = "ok" =>
      /\ calls[i].answer \in 1 .. calls[i].place
      /\ i # j /\ calls[j].got = "ok" => calls[i].answer # calls[j].answer

(* A request that was written and for which no message could be read, so   *)
(* that the order may or may not have been placed, is the last one         *)
(* written: no call after it gets that far.  (A request whose call read a  *)
(* message in place of its answer is not one of these: the answer is not   *)
(* lost, it comes to a later call.)                                        *)
OneFateUnknown ==
  \A i \in DOMAIN calls :
    calls[i].place # 0 /\ calls[i].message = 0 => calls[i].place = Len(sent)

-----------------------------------------------------------------------------
(* Why: the inductive invariant, in parts.                                 *)

(* Requests written and messages read go together; where they do not, no   *)
(* request can be written any more.                                        *)
Pace ==
  /\ Reading => Len(sent) = reads + 1
  /\ Len(sent) <= reads + 1
  /\ ~Reading /\ socket = "active" /\ link # "reset" => Len(sent) = reads

(* Each answer is to a request that was written, and they are different.   *)
Answers ==
  /\ \A k \in DOMAIN posted :
       posted[k].kind = "answer" => posted[k].re \in 1 .. Len(sent)
  /\ \A j, k \in DOMAIN posted :
       posted[j].kind = "answer" /\ posted[k].kind = "answer" /\ j # k
       => posted[j].re # posted[k].re

(* Nothing can be answered before it was asked: without anything unasked   *)
(* for in between, the k-th message answers the k-th request.              *)
InTurn ==
  \A k \in DOMAIN posted :
    (\A j \in 1 .. k : posted[j].kind = "answer") => posted[k].re = k

(* What a call came to. *)
Settled(c) ==
  /\ c.place \in 0 .. Len(sent)
  /\ c.message \in 0 .. reads
  /\ c.message # 0 => c.message = c.place
  /\ c.got = "ok" =>
       /\ c.message # 0
       /\ posted[c.message].kind = "answer"
       /\ c.answer = posted[c.message].re
       /\ c.answer \in 1 .. c.place
  /\ c.place # 0 /\ c.message = 0 =>
       /\ c.place = Len(sent)
       /\ ~Reading
       /\ socket # "active" \/ link = "reset"

(* A message is read by one call. *)
Distinct ==
  \A i, j \in DOMAIN calls :
    i # j /\ calls[i].message # 0 => calls[i].message # calls[j].message

CallsInv == (\A i \in DOMAIN calls : Settled(calls[i])) /\ Distinct

ClientInv == ClientTypeOK /\ Pace /\ Answers /\ InTurn /\ CallsInv
=============================================================================
