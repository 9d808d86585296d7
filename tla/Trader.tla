------------------------------- MODULE Trader -------------------------------
(***************************************************************************)
(* The program: main of main.rs (main_2.rs has the same loop).  It logs on *)
(* to the exchange, starts the threads that feed the channels (module Feed *)
(* has them), and then visits the channels in turn for ever.  From each it *)
(* takes one message at most; for one from "book" it places an order and   *)
(* waits for what the order client (OrderClient) makes of it.              *)
(*                                                                         *)
(* A message that the parser of its channel unwraps in vain, such as a     *)
(* book with an empty side, is not `readable': it ends the program.        *)
(***************************************************************************)
EXTENDS OrderClient

CONSTANT
  Feeds          \* the threads: the channel each feeds, and as a bound the
                 \* most messages it sends

Channels == {"user", "trades", "ticker", "book", "other"}

OrderFor(n) == [method |-> "order.place", of |-> n]

ASSUME TraderAssumption ==
  /\ Feeds \subseteq [name : Nat, to : Channels, most : Nat]
  /\ \A f \in Feeds : \A n \in 1 .. f.most : OrderFor(n) \in Requests
  /\ \A f, g \in Feeds : f.to = "book" /\ g.to = "book" => f = g

VARIABLES
  at,        \* the channel the loop is at
  queue,     \* what is in each channel
  made,      \* how many messages each thread has sent
  taken      \* how many messages were taken from each channel

mainVars == <<at, queue, made, taken>>
vars == <<clientVars, mainVars>>

Update == [feed : Feeds, n : Nat, readable : BOOLEAN]

TypeOK ==
  /\ ClientTypeOK
  /\ at \in {"start", "ordering", "stopped"} \cup Channels
  /\ queue \in [Channels -> Seq(Update)]
  /\ made \in [Feeds -> Nat]
  /\ taken \in [Channels -> Nat]

Init ==
  /\ ClientInit
  /\ at = "start"
  /\ queue = [c \in Channels |-> << >>]
  /\ made = [f \in Feeds |-> 0]
  /\ taken = [c \in Channels |-> 0]

-----------------------------------------------------------------------------
Started == at \notin {"start", "stopped"}

(* tx.send: user stream and trades are never parsed. *)
FeedSends(f) ==
  /\ Started
  /\ made[f] < f.most
  /\ made' = [made EXCEPT ![f] = @ + 1]
  /\ \E readable \in IF f.to \in {"user", "trades"} THEN {TRUE} ELSE BOOLEAN :
       queue' = [queue EXCEPT ![f.to] =
                   Append(@, [feed |-> f, n |-> made[f] + 1, readable |-> readable])]
  /\ UNCHANGED <<clientVars, at, taken>>

(* BinanceWSClient::new, and what main makes of it. *)
LogOn ==
  /\ at = "start"
  /\ ConnectFails \/ Authenticate
  /\ UNCHANGED mainVars

StartThreads ==
  /\ at = "start" /\ client = "idle"
  /\ at' = "user"
  /\ UNCHANGED <<clientVars, queue, made, taken>>

MainReturns ==
  /\ at = "start" /\ client = "gone"
  /\ at' = "stopped"
  /\ UNCHANGED <<clientVars, queue, made, taken>>

(* Mutant: the loop waits at each channel for a message. *)
MutEmpty(c, next) == FALSE /\ UNCHANGED vars

(* try_recv finds nothing. *)
Empty(c, next) ==
  /\ at = c /\ queue[c] = << >>
  /\ at' = next
  /\ UNCHANGED <<clientVars, queue, made, taken>>

(* Mutant: all that has piled up is passed over but the newest. *)
MutTake(c) ==
  /\ at = c /\ queue[c] # << >>
  /\ queue' = [queue EXCEPT ![c] = << >>]
  /\ taken' = [taken EXCEPT ![c] = queue[c][Len(queue[c])].n]
  /\ UNCHANGED made

Take(c) ==
  /\ at = c /\ queue[c] # << >>
  /\ queue' = [queue EXCEPT ![c] = Tail(@)]
  /\ taken' = [taken EXCEPT ![c] = @ + 1]
  /\ UNCHANGED made

(* What user stream and trades bring is taken and forgotten. *)
Discard(c, next) ==
  /\ Take(c)
  /\ at' = next
  /\ UNCHANGED clientVars

(* process_bookTicker or process_bid_ask_jsonic, for its own sake. *)
Look(c, next) ==
  /\ Take(c)
  /\ at' = IF Head(queue[c]).readable THEN next ELSE "stopped"
  /\ UNCHANGED clientVars

(* process_market_data_and_orders.  Its result is ignored. *)
PlaceOrder ==
  /\ Take("book")
  /\ IF Head(queue["book"]).readable
     THEN /\ Call(OrderFor(Head(queue["book"]).n))
          /\ at' = "ordering"
     ELSE at' = "stopped" /\ UNCHANGED clientVars

Ordered ==
  /\ at = "ordering" /\ client = "idle"
  /\ at' = "other"
  /\ UNCHANGED <<clientVars, queue, made, taken>>

InCall == ClientRead /\ UNCHANGED mainVars

Turn ==
  \/ Empty("user", "trades") \/ Discard("user", "trades")
  \/ Empty("trades", "ticker") \/ Discard("trades", "ticker")
  \/ Empty("ticker", "book") \/ Look("ticker", "book")
  \/ Empty("book", "other") \/ PlaceOrder \/ Ordered
  \/ Empty("other", "user") \/ Look("other", "user")

Main == LogOn \/ StartThreads \/ MainReturns \/ Turn \/ InCall

ExchangeActs == Exchange /\ at # "stopped" /\ UNCHANGED mainVars

Next == Main \/ (\E f \in Feeds : FeedSends(f)) \/ ExchangeActs

(* The main thread runs; feeds and exchange need do nothing. *)
Spec == Init /\ [][Next]_vars /\ WF_vars(Main)

-----------------------------------------------------------------------------
(* Every book update that is taken gives one order, in the order of the    *)
(* updates and none left out, until the client writes no more; and the one *)
(* whose order is under way is the last that was taken.                    *)
OneOrderPerUpdate ==
  /\ \A i \in 2 .. Len(sent) : sent[i] = OrderFor(i - 1)
  /\ Len(sent) <= taken["book"] + 1
  /\ Reading /\ at = "ordering" => Len(sent) = taken["book"] + 1

(* The order of taking: no channel keeps the loop from another, so in the  *)
(* end everything has been taken, unless the program has stopped or an     *)
(* order waits for the exchange (main.rs:97-129).                          *)
Waiting == Reading /\ reads = Len(posted)
Drained == \A c \in Channels : queue[c] = << >>
AllTaken == <>[](Drained \/ Waiting \/ at = "stopped")

-----------------------------------------------------------------------------
(* Why OneOrderPerUpdate holds: the inductive invariant, in parts.         *)

(* The order client is busy only while the loop waits for it. *)
Attention ==
  /\ at = "start" => /\ taken["book"] = 0
                     /\ client \in {"new", "logging_in", "idle", "gone"}
                     /\ client = "new" => sent = << >>
                     /\ client # "new" => Len(sent) <= 1
                     /\ client \in {"logging_in", "idle"} => Len(sent) = 1
  /\ at = "ordering" => client \in {"reading", "idle"}
  /\ at \in Channels => client = "idle"
  /\ at = "stopped" => ~Reading

(* What waits in the channel of the book follows what was taken. *)
BookQueue ==
  /\ \A j \in DOMAIN queue["book"] : queue["book"][j].n = taken["book"] + j
  /\ \A f \in Feeds : f.to = "book" => made[f] = taken["book"] + Len(queue["book"])
  /\ \A j \in DOMAIN queue["book"] : OrderFor(queue["book"][j].n) \in Requests

(* A client that can still write has written an order for all there was.   *)
UpToDate ==
  Started /\ socket = "active" /\ link # "reset" => Len(sent) = taken["book"] + 1

TraderInv ==
  TypeOK /\ ClientInv /\ Attention /\ BookQueue /\ UpToDate /\ OneOrderPerUpdate
=============================================================================
