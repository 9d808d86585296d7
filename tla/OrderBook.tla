----------------------------- MODULE OrderBook -----------------------------
(***************************************************************************)
(* The two parsers of depth messages, which keep one order book up to      *)
(* date: parse_orderbook of json_orderbook_2.rs checks what it reads and   *)
(* gives up where it does not like it; that of json_orderbook.rs, which    *)
(* main_4.rs uses, does not check.  Both are given each message here,      *)
(* with the same book.                                                     *)
(*                                                                         *)
(* A message is a sequence of tokens, a numeral with its quotes and a      *)
(* member's name with its colon one each; both parsers step over whole     *)
(* tokens as long as they read what they expect.                           *)
(***************************************************************************)
EXTENDS Integers, SequencesExt

CONSTANTS
  DEPTH,      \* the number of levels of each side of the book
  Messages    \* records: bids and asks, sequences of levels of numerals

(* A numeral that reads as a number is plain; others have no point, or     *)
(* nine decimals and more.                                                 *)
Numerals == [kind : {"plain", "long", "whole"}, value : Nat]
Levels == [price : Numerals, quantity : Numerals]

ASSUME OrderBookAssumption ==
  /\ DEPTH \in Nat \ {0}
  /\ Messages \subseteq [bids : Seq(Levels), asks : Seq(Levels)]

VARIABLES
  book,       \* OrderBook, as kept by the parser that checks
  fast,       \* what the other one would have made of the last message
  before,     \* history: the book that the last message met
  message,    \* history: the last message
  accepted    \* Some(()) was returned for it

bookVars == <<book, fast, before, message, accepted>>

-----------------------------------------------------------------------------
(* Messages *)
Numeral(kind, value) == [kind |-> kind, value |-> value]
Token(kind) == [kind |-> kind, value |-> 0]
Open == Token("open")
Close == Token("close")
Comma == Token("comma")
Name == Token("name")
Brace == Token("brace")

LevelText(l) == <<Open, l.price, Comma, l.quantity, Close>>

(* Levels with a comma between two *)
Span(levels) == IF levels = <<>> THEN 0 ELSE 6 * Len(levels) - 1

LevelsText(levels) ==
  [k \in 1 .. Span(levels) |->
     IF k % 6 = 0 THEN Comma ELSE LevelText(levels[k \div 6 + 1])[k % 6]]

SideText(levels) == <<Name, Open>> \o LevelsText(levels) \o <<Close>>

DepthText(m) ==
  <<Brace>> \o SideText(m.bids) \o <<Comma>> \o SideText(m.asks) \o <<Brace>>

(* At least so many bytes are behind position p. *)
Left(t, p) ==
  Len(t) - p + 4 * Cardinality({q \in p + 1 .. Len(t) : t[q].kind \in {"name", "plain", "long", "whole"}})

-----------------------------------------------------------------------------
(* Both parsers *)
Onwards(t, p) == p .. Max({p, Len(t) + 1})

(* Forward to the next [[, as long as enough bytes are left.               *)
Skip(t, p, enough) ==
  Min({q \in Onwards(t, p) : Left(t, q) < enough \/ (t[q] = Open /\ t[q + 1] = Open)})

(* The last position but one is as far as [[ is looked for. *)
Found(t, p) == p < Len(t)

(* Past brackets, to the first digit *)
Digit(t, p) == Min({q \in Onwards(t, p) : q > Len(t) \/ t[q] # Open})

Nowhere == 0
NoLevel == [price |-> 0, quantity |-> 0]
EmptyBook == [bids |-> [i \in 1 .. DEPTH |-> NoLevel], asks |-> [i \in 1 .. DEPTH |-> NoLevel]]

(* The first levels of a side are replaced. *)
Put(side, levels) == [i \in 1 .. DEPTH |-> IF i <= Len(levels) THEN levels[i] ELSE side[i]]

-----------------------------------------------------------------------------
(* Mutant: whatever is there is taken for a number. *)
MutNumberEnd(t, p) ==
  LET q == Digit(t, p) IN IF q <= Len(t) THEN q + 1 ELSE Nowhere

(* The parser that checks.  parse_number_fast: the position behind the     *)
(* numeral, or Nowhere.                                                    *)
NumberEnd(t, p) ==
  LET q == Digit(t, p) IN
    IF q <= Len(t) /\ t[q].kind = "plain" THEN q + 1 ELSE Nowhere

(* [price,quantity], and where the next one should start *)
ReadLevel(t, p) ==
  LET price == NumberEnd(t, p + 1)
      quantity == IF price = Nowhere THEN Nowhere ELSE NumberEnd(t, price + 1)
  IN IF quantity = Nowhere
     THEN [at |-> Nowhere, level |-> NoLevel]
     ELSE [at |-> quantity + 2,
           level |-> [price |-> t[price - 1].value, quantity |-> t[quantity - 1].value]]

(* One more level, unless there was one that did not read *)
ReadAnother(t, sofar) ==
  LET next == IF sofar.at = Nowhere THEN [at |-> Nowhere] ELSE ReadLevel(t, sofar.at)
  IN IF next.at = Nowhere THEN [at |-> Nowhere, levels |-> sofar.levels]
     ELSE [at |-> next.at, levels |-> Append(sofar.levels, next.level)]

(* The levels that one side gets, up to the first that does not read *)
ReadSide(t, p) ==
  LET side[n \in 0 .. DEPTH] ==
        IF n = 0 THEN [at |-> p, levels |-> <<>>] ELSE ReadAnother(t, side[n - 1])
  IN side[DEPTH]

(* parse_orderbook: what it read of both sides, and whether it got through *)
Parse(t) ==
  LET nothing == [at |-> Nowhere, levels |-> <<>>]
      start == Skip(t, 1, 1)
      bids == IF Found(t, start) THEN ReadSide(t, start + 1) ELSE nothing
      turn == Skip(t, bids.at, 1)
      asks == IF bids.at # Nowhere /\ Found(t, turn) THEN ReadSide(t, turn + 1) ELSE nothing
  IN [bids |-> bids.levels, asks |-> asks.levels, ok |-> asks.at # Nowhere]

-----------------------------------------------------------------------------
(* The parser that does not check.  What it makes of anything but a plain  *)
(* numeral, or reads behind the end, is not specified.                     *)
Unspecified == -1

FastNumber(t, p) ==
  LET q == Digit(t, p) IN
    [at |-> q + 1,
     value |-> IF q <= Len(t) /\ t[q].kind = "plain" THEN t[q].value ELSE Unspecified]

FastLevel(t, p) ==
  LET price == FastNumber(t, p + 1)
      quantity == FastNumber(t, price.at + 1)
  IN [at |-> quantity.at + 2,
      level |-> [price |-> price.value, quantity |-> quantity.value]]

FastAnother(t, sofar) ==
  LET next == FastLevel(t, sofar.at)
  IN [at |-> next.at, levels |-> Append(sofar.levels, next.level)]

FastSide(t, p) ==
  LET side[n \in 0 .. DEPTH] ==
        IF n = 0 THEN [at |-> p, levels |-> <<>>] ELSE FastAnother(t, side[n - 1])
  IN side[DEPTH]

(* Mutant: the asks are not looked for behind the bids that are read. *)
MutFastParse(t) ==
  LET bids == FastSide(t, Skip(t, 1, 8) + 1)
      asks == FastSide(t, bids.at + 1)
  IN [bids |-> bids.levels, asks |-> asks.levels]

FastParse(t) ==
  LET bids == FastSide(t, Skip(t, 1, 8) + 1)
      asks == FastSide(t, Skip(t, bids.at, 8) + 1)
  IN [bids |-> bids.levels, asks |-> asks.levels]

-----------------------------------------------------------------------------
BookInit ==
  /\ book = EmptyBook /\ fast = EmptyBook /\ before = EmptyBook
  /\ message = [bids |-> <<>>, asks |-> <<>>]
  /\ accepted = FALSE

(* What each message comes to *)
Readings ==
  {[message |-> m, read |-> Parse(DepthText(m)), fast |-> FastParse(DepthText(m))] : m \in Messages}

(* One message of the stream *)
DepthUpdate ==
  \E r \in Readings :
    /\ message' = r.message
    /\ before' = book
    /\ book' = [bids |-> Put(book.bids, r.read.bids), asks |-> Put(book.asks, r.read.asks)]
    /\ accepted' = r.read.ok
    /\ fast' = r.fast

BookSpec == BookInit /\ [][DepthUpdate]_bookVars

-----------------------------------------------------------------------------
(* What a message says *)
Level(l) == [price |-> l.price.value, quantity |-> l.quantity.value]

Says(levels) == [i \in 1 .. IF Len(levels) < DEPTH THEN Len(levels) ELSE DEPTH |-> Level(levels[i])]

Plain(levels) ==
  \A i \in DOMAIN levels : i <= DEPTH => levels[i].price.kind = "plain" /\ levels[i].quantity.kind = "plain"

Whole(m) ==
  /\ Len(m.bids) >= DEPTH /\ Len(m.asks) >= DEPTH
  /\ Plain(m.bids) /\ Plain(m.asks)

(* The messages accepted are those that give the whole book, and they      *)
(* leave it so.  One that is refused has replaced the first levels, bids   *)
(* before asks, and left the others: a book of two messages, in which the  *)
(* bids may be the asks of a message without bids                          *)
(* (json_orderbook_2.rs:86-147).                                           *)
WrittenInOrder ==
  LET says == Says(message.bids) \o Says(message.asks)
      now == book.bids \o book.asks
      then == before.bids \o before.asks
  IN /\ accepted <=> Whole(message)
     /\ accepted => now = says
     /\ ~accepted => \E n \in 0 .. 2 * DEPTH - 1 :
                       /\ n <= Len(says)
                       /\ \A i \in 1 .. 2 * DEPTH : now[i] = IF i <= n THEN says[i] ELSE then[i]

(* On every message that the parser that checks accepts the other one      *)
(* reads the same book (json_orderbook.rs:59-101).                         *)
SameBook == accepted => fast = book

-----------------------------------------------------------------------------
(* Why they hold: the inductive invariant.  Whatever was read, the book    *)
(* has DEPTH levels on each side.                                          *)
Amounts == [price : Nat, quantity : Nat]
BookSides == [1 .. DEPTH -> Amounts]
Books == [bids : BookSides, asks : BookSides]

BookInv ==
  /\ book \in Books /\ before \in Books
  /\ message \in [bids : Seq(Levels), asks : Seq(Levels)]
  /\ WrittenInOrder
  /\ SameBook
=============================================================================
