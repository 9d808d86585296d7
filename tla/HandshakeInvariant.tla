------------------------- MODULE HandshakeInvariant -------------------------
(***************************************************************************)
(* The inductive invariant of Handshake: what the buffer and the counters  *)
(* hold in each stage, for a client and a server.                          *)
(***************************************************************************)
EXTENDS Handshake

(* A buffer of which nothing has been consumed, with the first n bytes. *)
Holding(n) == FromPartiallyRead(FirstBytes(n))

Going == pc \in {"running", "interrupted"}

(* A call that goes on, or has ended well, has no error to return; nothing *)
(* arrives before the peer has sent it.                                    *)
CallInv ==
  /\ pc # "failed" => result = "None"
  /\ answer = "none" => total = 0

(* Until it ends, a handshake has read nothing before it reads, and all it *)
(* has read is in the buffer afterwards: not yet a whole message, unless   *)
(* it is one that does not parse.                                          *)
ReadingInv ==
  /\ Going /\ stage # "reading" => received = 0
  /\ Going /\ stage = "reading" =>
       /\ buf = Holding(received)
       /\ bytes = received /\ packets <= received
       /\ received >= InLen => answer = "bad"

(* A connection starts with what into_vec made of the buffer: the whole    *)
(* response if nothing came behind it.                                     *)
DoneInv ==
  pc = "done" =>
    /\ buf.read_cursor = 0 /\ buf.write_cursor = buf.end
    /\ received = InLen => buf = Holding(InLen)

HandInv == TypeOK /\ CallInv /\ ReadingInv /\ DoneInv /\ Handover /\ FailsForCause
=============================================================================
