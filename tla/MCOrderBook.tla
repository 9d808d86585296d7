---------------------------- MODULE MCOrderBook ----------------------------
(***************************************************************************)
(* Depth messages of two rounds, for OrderBook: each side has none to one  *)
(* more than DEPTH levels (in the second round to DEPTH), and at most one  *)
(* numeral of it is not plain: it is too long in the first round and has   *)
(* no point in the second.  All the numbers are different.                 *)
(***************************************************************************)
EXTENDS OrderBook

Sides(base, most, kind) ==
  UNION {{[i \in 1 .. n |->
             [price |-> Numeral(IF odd = 2 * i - 1 THEN kind ELSE "plain", base + 2 * i - 1),
              quantity |-> Numeral(IF odd = 2 * i THEN kind ELSE "plain", base + 2 * i)]] :
            odd \in 0 .. 2 * n} : n \in 0 .. most}

Round(base, most, kind) ==
  [bids : Sides(base, most, kind), asks : Sides(base + 50, most, kind)]

MCMessages == Round(100, DEPTH + 1, "long") \union Round(200, DEPTH, "whole")
=============================================================================
