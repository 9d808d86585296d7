------------------------------ MODULE MCTrader ------------------------------
(* Instances of Trader: which threads there are. *)
EXTENDS Trader

(* Two threads share the channel of the trades, as three do in main.  User *)
(* stream and trades are treated alike, and so are the ticker and the      *)
(* other book: one of each pair is enough.                                 *)
SomeFeeds ==
  {[name |-> 1, to |-> "trades", most |-> 1], [name |-> 2, to |-> "trades", most |-> 1],
   [name |-> 3, to |-> "ticker", most |-> 1], [name |-> 4, to |-> "book", most |-> 2]}

Orders == {OrderFor(n) : n \in 1 .. 2}
=============================================================================
