---------------------------- MODULE MessageText ----------------------------
(***************************************************************************)
(* A text message in the making: IncompleteMessage and StringCollector of  *)
(* message.rs, as read_message_frame fills them from a text frame and the  *)
(* continue frames behind it.  A fragment may end within a character.      *)
(*                                                                         *)
(* Text is a sequence of bytes: the first byte of a character of two bytes *)
(* or of three, the next byte of one, a byte that is in none.  Characters  *)
(* of one byte come as runs, short or long, and count as one here except   *)
(* for the size.                                                           *)
(***************************************************************************)
EXTENDS Integers, SequencesExt

CONSTANTS
  ShortRun, LongRun,   \* the lengths of the runs
  MaxSize              \* max_message_size

ASSUME MessageTextAssumption == {ShortRun, LongRun, MaxSize} \subseteq Nat \ {0}

Text == {"short", "long", "lead2", "lead3", "next", "wrong"}

Characters ==
  {<<"short">>, <<"long">>, <<"lead2", "next">>, <<"lead3", "next", "next">>}

Weight(b) == CASE b = "short" -> ShortRun [] b = "long" -> LongRun [] OTHER -> 1

Size(text) ==
  LET size[k \in 0 .. Len(text)] == IF k = 0 THEN 0 ELSE size[k - 1] + Weight(text[k])
  IN size[Len(text)]

VARIABLES
  incomplete,    \* WebSocketContext.incomplete: whether there is one, and its
                 \* StringCollector: the string, and the bytes of a character
  read,          \* what read returned for the last frame
  said,          \* history: the bytes of the fragments since the message began
  refused        \* history: none of them was refused, the last one was the
                 \* first to be, or there is more behind it

textVars == <<incomplete, read, said, refused>>

NoMessage == [open |-> FALSE, data |-> <<>>, part |-> <<>>]
NewMessage == [open |-> TRUE, data |-> <<>>, part |-> <<>>]

TextInit ==
  /\ incomplete = NoMessage
  /\ read = [err |-> "Ok", text |-> <<>>, done |-> FALSE]
  /\ said = <<>>
  /\ refused = "none"

-----------------------------------------------------------------------------
(* Whether some text is a sequence of characters: it can be cut so that    *)
(* there is one in front of each cut.                                      *)
WellFormed(text) ==
  \E cuts \in SUBSET (0 .. Len(text)) :
    /\ {0, Len(text)} \subseteq cuts
    /\ \A k \in cuts \ {0} : \E c \in Characters :
         k - Len(c) \in cuts /\ SubSeq(text, k - Len(c) + 1, k) = c

(* Nothing, or the beginning of a character *)
Begins(text) == \E c \in Characters : Len(text) < Len(c) /\ IsPrefix(text, c)

(* utf8::decode: the characters at the beginning, and what is behind them. *)
ValidLen(text) == Max({k \in 0 .. Len(text) : WellFormed(SubSeq(text, 1, k))})
Valid(text) == SubSeq(text, 1, ValidLen(text))
Behind(text) == SubSeq(text, ValidLen(text) + 1, Len(text))

(* extend without an incomplete character *)
Push(data, input) ==
  IF Begins(Behind(input))
  THEN [err |-> "Ok", data |-> data \o Valid(input), part |-> Behind(input)]
  ELSE [err |-> "Utf8", data |-> data \o Valid(input), part |-> <<>>]

(* Mutant: the bytes left over from the last fragment are forgotten. *)
MutExtend(m, tail) == Push(m.data, tail)

(* StringCollector::extend: try_complete fills a buffer of four bytes.     *)
Extend(m, tail) ==
  LET buffer == m.part \o SubSeq(tail, 1, Min({4 - Len(m.part), Len(tail)}))
  IN IF m.part = <<>> THEN Push(m.data, tail)
     ELSE IF Valid(buffer) # <<>>
     THEN Push(m.data \o Valid(buffer),
               SubSeq(tail, ValidLen(buffer) - Len(m.part) + 1, Len(tail)))
     ELSE IF Begins(buffer)
     THEN [err |-> "Ok", data |-> m.data, part |-> buffer]
     ELSE [err |-> "Utf8", data |-> m.data, part |-> <<>>]

(* Mutant: the bytes of a character that is not complete are not counted. *)
MutTooLong(m, tail) == Size(m.data) + Size(tail) > MaxSize

(* IncompleteMessage::extend, the limit *)
TooLong(m, tail) == Size(m.data) + Size(m.part) + Size(tail) > MaxSize

(* IncompleteMessage::extend *)
Extended(m, tail) ==
  IF TooLong(m, tail)
  THEN [err |-> "Capacity", data |-> m.data, part |-> m.part]
  ELSE Extend(m, tail)

Answer(err, text, done) == read' = [err |-> err, text |-> text, done |-> done]

(* A frame of text, or one that continues it (read_message_frame).  If it  *)
(* is refused a message that had begun goes on, with what was taken of it. *)
ReceiveText(opcode, fin, payload) ==
  IF (opcode = "continue") # incomplete.open
  THEN /\ Answer("Protocol", <<>>, FALSE)
       /\ UNCHANGED <<incomplete, said, refused>>
  ELSE
    LET m == IF incomplete.open THEN incomplete ELSE NewMessage
        e == Extended(m, payload)
    IN
      /\ IF incomplete.open /\ refused # "none"
         THEN refused' = "more" /\ said' = <<>>
         ELSE /\ refused' = IF e.err = "Ok" THEN "none" ELSE "first"
              /\ said' = IF incomplete.open THEN said \o payload ELSE payload
      /\ IF e.err # "Ok"
         THEN /\ Answer(e.err, <<>>, FALSE)
              /\ incomplete' = IF incomplete.open
                               THEN [open |-> TRUE, data |-> e.data, part |-> e.part]
                               ELSE NoMessage
         ELSE IF ~fin
         THEN /\ Answer("Ok", <<>>, FALSE)
              /\ incomplete' = [open |-> TRUE, data |-> e.data, part |-> e.part]
         ELSE /\ incomplete' = NoMessage
              /\ IF e.part = <<>> THEN Answer("Ok", e.data, TRUE)
                                  ELSE Answer("Utf8", <<>>, FALSE)

-----------------------------------------------------------------------------
(* However a message is cut into fragments, within characters too, what is *)
(* handed over is its text, well-formed and not too long; well-formed even *)
(* if a fragment of it was refused, when it may have a hole there          *)
(* (message.rs:18-74).                                                     *)
TextWhole ==
  read.done =>
    /\ WellFormed(read.text) /\ Size(read.text) <= MaxSize
    /\ refused = "none" => read.text = said

(* A text that cannot become well-formed, whatever follows                 *)
Hopeless(text) == ~Begins(Behind(text))

(* A fragment is refused as soon as the text cannot become well-formed or  *)
(* is too long, and not before; the last one also if a character is not    *)
(* complete (message.rs:29-73, 112-134).                                   *)
RefusedRightly ==
  /\ refused = "first" =>
       /\ read.err = "Utf8" => Hopeless(said)
       /\ read.err = "Capacity" => Size(said) > MaxSize
  /\ refused = "none" =>
       /\ ~Hopeless(said) /\ Size(said) <= MaxSize
       /\ read.err = "Utf8" => ~WellFormed(said)
=============================================================================
