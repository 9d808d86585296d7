--------------------------- MODULE UserStreamProof ---------------------------
(***************************************************************************)
(* Proofs about UserStream, for all times, timeouts and clocks.            *)
(***************************************************************************)
EXTENDS UserStream, TLAPS

USE UserStreamAssumption DEF Places, Lag, InUse, clock

(* The limits are natural numbers, and what they are. *)
LEMMA Limits ==
  /\ \A p \in Places : Limit[p] \in Nat
  /\ Limit["asking"] = HttpTime /\ Limit["issued"] = HttpTime
  /\ Limit["pinging"] = HttpTime /\ Limit["pinged"] = HttpTime
  /\ Limit["connecting"] = ConnectTime /\ Limit["reading"] = ReadTime
  /\ Limit["sleeping"] = Pause /\ Limit["top"] = 0
  /\ MaxAge \in Nat
  BY DEF Limit, MaxAge

LEMMA UserStreamInit == Init => StreamInv
<1> SUFFICES ASSUME Init PROVE StreamInv
  OBVIOUS
<1>1. TypeOK
  <2>1. at \in Places /\ Limit[at] = HttpTime
    BY Limits DEF Init
  <2>2. spent \in 0 .. Limit[at]
    BY <2>1 DEF Init
  <2>3. age \in 0 .. MaxAge + 1
    BY Limits DEF Init
  <2>4. QED
    BY <2>1, <2>2, <2>3 DEF Init, TypeOK
<1>2. ClockInv /\ SinceInv /\ AgeInv
  BY DEF Init, ClockInv, SinceInv, AgeInv
<1>3. QED
  BY <1>1, <1>2 DEF StreamInv

-----------------------------------------------------------------------------
(* Up to the first read *)
LEMMA GiveUpInv == StreamInv /\ GiveUp => StreamInv'
  BY Limits DEF GiveUp, GoTo, SetLastPing, StreamInv, TypeOK, ClockInv, SinceInv, AgeInv

LEMMA StartInv == StreamInv /\ (Wake \/ KeyIssued \/ KeyArrives \/ Connected) => StreamInv'
<1> SUFFICES ASSUME StreamInv, Wake \/ KeyIssued \/ KeyArrives \/ Connected PROVE StreamInv'
  OBVIOUS
<1>1. CASE Wake
  BY <1>1, Limits DEF Wake, GoTo, StreamInv, TypeOK, ClockInv, SinceInv, AgeInv
<1>2. CASE KeyIssued
  BY <1>2, Limits DEF KeyIssued, StreamInv, TypeOK, ClockInv, SinceInv, AgeInv
<1>3. CASE KeyArrives
  BY <1>3, Limits DEF KeyArrives, GoTo, StreamInv, TypeOK, ClockInv, SinceInv, AgeInv
<1>4. CASE Connected
  BY <1>4, Limits DEF Connected, GoTo, SetLastPing, StreamInv, TypeOK, ClockInv, SinceInv, AgeInv
<1>5. QED
  BY <1>1, <1>2, <1>3, <1>4

-----------------------------------------------------------------------------
(* The loop of handle_stream *)
LEMMA RenewInv == StreamInv /\ (TimeToPing \/ KeyRenewed \/ Pinged) => StreamInv'
<1> SUFFICES ASSUME StreamInv, TimeToPing \/ KeyRenewed \/ Pinged PROVE StreamInv'
  OBVIOUS
<1>1. CASE TimeToPing
  BY <1>1, Limits DEF TimeToPing, GoTo, StreamInv, TypeOK, ClockInv, SinceInv, AgeInv
<1>2. CASE KeyRenewed
  BY <1>2, Limits DEF KeyRenewed, StreamInv, TypeOK, ClockInv, SinceInv, AgeInv
<1>3. CASE Pinged
  BY <1>3, Limits DEF Pinged, GoTo, SetLastPing, StreamInv, TypeOK, ClockInv, SinceInv, AgeInv
<1>4. QED
  BY <1>1, <1>2, <1>3

(* A read begins only before the time for the next keep-alive, by a clock  *)
(* that is at most MaxBack behind.                                         *)
LEMMA ReadInv == StreamInv /\ (NotYet \/ Message \/ Piece \/ TimesOut) => StreamInv'
<1> SUFFICES ASSUME StreamInv, NotYet \/ Message \/ Piece \/ TimesOut PROVE StreamInv'
  OBVIOUS
<1>1. CASE NotYet
  BY <1>1, Limits DEF NotYet, GoTo, StreamInv, TypeOK, ClockInv, SinceInv, AgeInv
<1>2. CASE Message \/ TimesOut
  BY <1>2, Limits DEF Message, TimesOut, GoTo, StreamInv, TypeOK, ClockInv, SinceInv, AgeInv
<1>3. CASE Piece
  BY <1>3, Limits DEF Piece, StreamInv, TypeOK, ClockInv, SinceInv, AgeInv
<1>4. QED
  BY <1>1, <1>2, <1>3

-----------------------------------------------------------------------------
(* Time *)
LEMMA TickInv == StreamInv /\ Tick => StreamInv'
<1> SUFFICES ASSUME StreamInv, Tick PROVE StreamInv'
  OBVIOUS
<1>1. /\ at \in Places /\ spent \in Nat /\ spent + 1 <= Limit[at] /\ Limit[at] \in Nat
      /\ spent' = spent + 1 /\ UNCHANGED <<at, back, kept>>
  BY Limits DEF Tick, StreamInv, TypeOK
<1>2. TypeOK'
  BY <1>1, Limits DEF Tick, StreamInv, TypeOK
<1>3. ClockInv'
  BY Limits DEF Tick, StreamInv, TypeOK, ClockInv
<1>4. SinceInv'
  BY <1>1, Limits DEF Tick, StreamInv, TypeOK, SinceInv
<1>5. AgeInv'
  BY <1>1, Limits DEF Tick, Keyed, StreamInv, TypeOK, AgeInv
<1>6. QED
  BY <1>2, <1>3, <1>4, <1>5 DEF StreamInv

LEMMA SetClockInv == StreamInv /\ SetClock => StreamInv'
  BY Limits DEF SetClock, StreamInv, TypeOK, ClockInv, SinceInv, AgeInv

LEMMA UserStreamNext == StreamInv /\ [Next]_vars => StreamInv'
<1> SUFFICES ASSUME StreamInv, [Next]_vars PROVE StreamInv'
  OBVIOUS
<1>1. CASE UNCHANGED vars
  BY <1>1, Limits DEF vars, StreamInv, TypeOK, ClockInv, SinceInv, AgeInv
<1>2. CASE NewFails \/ ClockWentBack \/ PingFails \/ StreamEnds
  BY <1>2, GiveUpInv DEF NewFails, ClockWentBack, PingFails, StreamEnds
<1>3. QED
  BY <1>1, <1>2, StartInv, RenewInv, ReadInv, TickInv, SetClockInv DEF Next

(* Where the key's age and the clock stand, in every state. *)
THEOREM StreamInvariance == Spec => []StreamInv
  BY UserStreamInit, UserStreamNext, PTL DEF Spec

LEMMA FreshByInv == StreamInv => KeyFresh
  BY Limits DEF StreamInv, TypeOK, SinceInv, AgeInv, Keyed, MaxAge, KeyFresh

(* The key is kept alive in time, unless the exchange refuses to.          *)
THEOREM KeptAlive == Spec => []KeyFresh
  BY StreamInvariance, FreshByInv, PTL
=============================================================================
