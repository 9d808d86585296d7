---------------------------- MODULE FrameStream ----------------------------
(***************************************************************************)
(* What a reader of WebSocket frames promises to the connection above it:  *)
(* the frames the peer sent come out one by one, in the order they were    *)
(* sent, none lost, none twice, each with its own payload, byte for byte.  *)
(***************************************************************************)
EXTENDS Integers, Sequences

CONSTANT Frame,             \* the frames a peer may send
         PayloadOf(_)       \* the payload a frame carries

VARIABLES frames,           \* the frames sent so far
          delivered         \* the payloads handed over so far

svars == <<frames, delivered>>

Init == frames = << >> /\ delivered = << >>

(* The peer sends one more frame, any member of Frame (a set that need not *)
(* be finite, so the frame is taken from the next state, not enumerated).  *)
Send ==
  /\ Len(frames') = Len(frames) + 1
  /\ frames'[Len(frames')] \in Frame
  /\ frames' = Append(frames, frames'[Len(frames')])
  /\ UNCHANGED delivered

Deliver ==
  /\ Len(delivered) < Len(frames)
  /\ delivered' = Append(delivered, PayloadOf(frames[Len(delivered) + 1]))
  /\ UNCHANGED frames

Next == Send \/ Deliver

Spec == Init /\ [][Next]_svars
=============================================================================
