----------------------------- MODULE UserStream -----------------------------
(***************************************************************************)
(* The user data stream, user_stream.rs: a thread asks the exchange for a  *)
(* listen key, opens the stream of that key, reads from it with a timeout  *)
(* and between two reads, if it is time, asks for the key to be kept       *)
(* alive.  Whatever fails ends the connection; after a pause there is a    *)
(* new key and a new connection.                                           *)
(*                                                                         *)
(* Time is counted in ticks.  What the thread knows of it is the system    *)
(* clock, which may be set; the exchange counts how old the key is.        *)
(***************************************************************************)
EXTENDS Integers

CONSTANTS
  PingInterval,     \* PING_INTERVAL, as the other times in ticks
  ReadTimeout,      \* the timeout of the stream
  Pause,            \* the sleep of run_binance_user_data_stream
  HttpTime,         \* the longest that an HTTP request takes
  ConnectTime,      \* the longest that connect takes
  ReadTime,         \* the longest that read takes, if its message arrives in pieces
  MaxBack           \* the most that the clock is set back between two keep-alives

ASSUME UserStreamAssumption ==
  /\ PingInterval \in Nat \ {0}
  /\ ReadTimeout \in Nat /\ Pause \in Nat /\ HttpTime \in Nat
  /\ ConnectTime \in Nat /\ ReadTime \in Nat /\ MaxBack \in Nat

VARIABLES
  at,         \* where the thread is, and the request it waits for
  spent,      \* how long it has been there
  quiet,      \* how long the read has seen no bytes
  elapsed,    \* now - last_ping, by the system clock
  since,      \* history: what has really passed since last_ping was set
  back,       \* history: what the clock was set back since
  age,        \* how long the exchange has not heard of the key
  kept        \* history: what the exchange made of the last keep-alive

clock == <<elapsed, since, back>>
vars == <<at, spent, quiet, clock, age, kept>>

(* "issued" and "pinged": the exchange has dealt with the request that was *)
(* "asking" or "pinging", its answer is still to come.                     *)
Places ==
  {"asking", "issued", "connecting", "top", "pinging", "pinged", "reading", "sleeping"}

(* How long the thread may be at each place; the rest takes no time. *)
Limit ==
  [p \in Places |->
     CASE p \in {"asking", "issued", "pinging", "pinged"} -> HttpTime
       [] p = "connecting" -> ConnectTime
       [] p = "reading" -> ReadTime
       [] p = "sleeping" -> Pause
       [] OTHER -> 0]

(* From a key's first mention to the last moment of the request that keeps *)
(* it alive; nothing older is counted.                                     *)
MaxAge == HttpTime + ConnectTime + PingInterval + MaxBack + ReadTime + HttpTime

InUse == at \in {"top", "pinging", "pinged", "reading"}
Keyed == at \notin {"asking", "sleeping"}

TypeOK ==
  /\ at \in Places
  /\ spent \in 0 .. Limit[at]
  /\ quiet \in 0 .. ReadTimeout
  /\ elapsed \in Int
  /\ since \in Nat
  /\ back \in 0 .. MaxBack
  /\ age \in 0 .. MaxAge + 1
  /\ kept \in {"done", "refused"}

Init ==
  /\ at = "asking"
  /\ spent = 0 /\ quiet = 0
  /\ elapsed = 0 /\ since = 0 /\ back = 0
  /\ age = 0
  /\ kept = "done"

-----------------------------------------------------------------------------
GoTo(p) == at' = p /\ spent' = 0 /\ quiet' = 0

(* last_ping = SystemTime::now() *)
SetLastPing == elapsed' = 0 /\ since' = 0 /\ back' = 0

(* The connection goes, and its key with it. *)
GiveUp ==
  /\ GoTo("sleeping")
  /\ SetLastPing
  /\ age' = 0
  /\ kept' = "done"

Wake ==
  /\ at = "sleeping" /\ spent = Pause
  /\ GoTo("asking")
  /\ UNCHANGED <<clock, age, kept>>

(* get_listen_key: the exchange issues a key, and its answer arrives. *)
KeyIssued ==
  /\ at = "asking"
  /\ at' = "issued"
  /\ age' = 0
  /\ UNCHANGED <<spent, quiet, clock, kept>>

KeyArrives ==
  /\ at = "issued"
  /\ GoTo("connecting")
  /\ UNCHANGED <<clock, age, kept>>

(* connect, the end of new *)
Connected ==
  /\ at = "connecting"
  /\ GoTo("top")
  /\ SetLastPing
  /\ UNCHANGED <<age, kept>>

(* Mutant: a stream that cannot be made ends the thread, which then        *)
(* sleeps for ever.                                                        *)
MutNewFails ==
  /\ at \in {"asking", "issued", "connecting"}
  /\ at' = "sleeping" /\ spent' = Pause + 1
  /\ UNCHANGED <<quiet, clock, age, kept>>

NewFails == at \in {"asking", "issued", "connecting"} /\ GiveUp

-----------------------------------------------------------------------------
(* handle_stream *)

(* duration_since fails if the clock was set back behind last_ping. *)
ClockWentBack == at = "top" /\ elapsed < 0 /\ GiveUp

TimeToPing ==
  /\ at = "top" /\ elapsed >= PingInterval
  /\ GoTo("pinging")
  /\ UNCHANGED <<clock, age, kept>>

(* ping_listen_key: the exchange does as it is told, or not. *)
KeyRenewed ==
  /\ at = "pinging"
  /\ at' = "pinged"
  /\ \/ age' = 0 /\ kept' = "done"
     \/ kept' = "refused" /\ UNCHANGED age
  /\ UNCHANGED <<spent, quiet, clock>>

PingFails == at \in {"pinging", "pinged"} /\ GiveUp

(* Whatever the status of the answer, and straight on to the read. *)
Pinged ==
  /\ at = "pinged"
  /\ GoTo("reading")
  /\ SetLastPing
  /\ UNCHANGED <<age, kept>>

NotYet ==
  /\ at = "top" /\ 0 <= elapsed /\ elapsed < PingInterval
  /\ GoTo("reading")
  /\ UNCHANGED <<clock, age, kept>>

(* Mutant: as long as there are messages there are only reads. *)
MutMessage ==
  /\ at = "reading"
  /\ GoTo("reading")
  /\ UNCHANGED <<clock, age, kept>>

(* A text, passed on; a ping, answered; anything else but a close. *)
Message ==
  /\ at = "reading"
  /\ GoTo("top")
  /\ UNCHANGED <<clock, age, kept>>

(* Some bytes, not yet a message. *)
Piece ==
  /\ at = "reading" /\ quiet > 0
  /\ quiet' = 0
  /\ UNCHANGED <<at, spent, clock, age, kept>>

(* WouldBlock *)
TimesOut ==
  /\ at = "reading" /\ quiet = ReadTimeout
  /\ GoTo("top")
  /\ UNCHANGED <<clock, age, kept>>

(* A close, whose reply is not waited for; an error of the stream; a       *)
(* channel whose receiver is gone.                                         *)
StreamEnds == at = "reading" /\ GiveUp

-----------------------------------------------------------------------------
Tick ==
  /\ spent < Limit[at]
  /\ at = "reading" => quiet < ReadTimeout
  /\ spent' = spent + 1
  /\ quiet' = IF at = "reading" THEN quiet + 1 ELSE quiet
  /\ IF Keyed /\ age <= MaxAge THEN age' = age + 1 ELSE UNCHANGED age
  /\ IF at \in {"pinging", "pinged", "reading"}
     THEN elapsed' = elapsed + 1 /\ since' = since + 1
     ELSE UNCHANGED <<elapsed, since>>
  /\ UNCHANGED <<at, back, kept>>

(* The system clock is set.  Forward beyond the interval makes no          *)
(* difference.                                                             *)
SetClock ==
  /\ InUse
  /\ \/ /\ elapsed < PingInterval
        /\ elapsed' = PingInterval
        /\ UNCHANGED back
     \/ \E d \in 1 .. MaxBack - back : elapsed' = elapsed - d /\ back' = back + d
  /\ UNCHANGED <<at, spent, quiet, since, age, kept>>

(* What the thread does by itself, once it can. *)
Thread == Wake \/ ClockWentBack \/ TimeToPing \/ NotYet \/ TimesOut

Next ==
  \/ Wake \/ KeyIssued \/ KeyArrives \/ Connected \/ NewFails
  \/ ClockWentBack \/ TimeToPing \/ KeyRenewed \/ PingFails \/ Pinged
  \/ NotYet \/ Message \/ Piece \/ TimesOut \/ StreamEnds
  \/ Tick \/ SetClock

Spec == Init /\ [][Next]_vars

(* A read and a keep-alive return, one way or another: neither lasts       *)
(* longer than ReadTime or HttpTime.                                       *)
ReadReturns == Message \/ TimesOut \/ StreamEnds
PingReturns == KeyRenewed \/ Pinged \/ PingFails

(* Time passes and the thread goes on; requests for keys and connections   *)
(* that are tried again and again succeed in the end.                      *)
FairSpec ==
  /\ Spec /\ WF_vars(Thread) /\ WF_vars(Tick) /\ WF_vars(NewFails)
  /\ WF_vars(ReadReturns) /\ WF_vars(PingReturns)
  /\ SF_vars(KeyIssued) /\ SF_vars(KeyArrives) /\ SF_vars(Connected)

-----------------------------------------------------------------------------
(* As long as keep-alives do what they should, the key is never older than *)
(* MaxAge: however many messages arrive in whatever pieces, however long   *)
(* requests take, wherever the clock is set.  The exchange's limit is an   *)
(* hour, PING_INTERVAL half a minute.  If one was refused the thread does  *)
(* not know (user_stream.rs:56-67).                                        *)
KeyFresh == Keyed /\ kept = "done" => age <= MaxAge

(* Wherever the thread is, in a read or a request or on its way out of     *)
(* handle_stream by any of its exits, it comes back to the top of that     *)
(* loop: with the stream it had, or, if that has ended, with a new one.    *)
Reconnects == []<>(at = "top")

-----------------------------------------------------------------------------
(* Why KeyFresh holds: the inductive invariant, in parts.                  *)

(* When last_ping was set the key was at most Lag old. *)
Lag == HttpTime + ConnectTime
(* What the thread believes has passed is not much less than what has. *)
ClockInv == InUse => since <= elapsed + back

(* How long ago last_ping was set. *)
SinceInv ==
  /\ at = "reading" => since <= PingInterval + MaxBack + spent
  /\ at = "top" => since <= PingInterval + MaxBack + ReadTime
  /\ at \in {"pinging", "pinged"} => since <= PingInterval + MaxBack + ReadTime + spent

AgeInv ==
  /\ at = "issued" => age <= spent
  /\ at = "connecting" => age <= HttpTime + spent
  /\ at = "pinged" /\ kept = "done" => age <= spent
  /\ InUse /\ kept = "done" => age <= Lag + since

StreamInv == TypeOK /\ ClockInv /\ SinceInv /\ AgeInv
=============================================================================
