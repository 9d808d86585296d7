------------------------------ MODULE Handshake ------------------------------
(***************************************************************************)
(* The opening handshake: MidHandshake::handshake and its rounds           *)
(* (Kyrptonite/src/handshake/mod.rs, machine.rs) for a client and for a    *)
(* server, the redirects of connect_with_config (client.rs), and the step  *)
(* over the buffer that the applications take when they have a connection  *)
(* (binance_data.rs:22-23, binance_client.rs:63-64).                       *)
(* "connect" makes its own stream, which blocks, and follows redirects;    *)
(* "client" and "accept" take any stream, which may return WouldBlock.     *)
(*                                                                         *)
(* Bytes of the peer are positions, as in FrameReader: 1 .. InLen are its  *)
(* HTTP message, those behind are frames or the body of a refusal.  What   *)
(* we send is a number of bytes.                                           *)
(***************************************************************************)
EXTENDS ReadBuffer

CONSTANTS
  Entries,           \* functions called: "connect", "client", "accept"
  OutLen,            \* bytes of our HTTP message
  InLen,             \* bytes of the peer's
  MaxBehind,         \* bound: bytes the peer sends behind it
  Answers,           \* what the peer's message may be
  MaxRead,           \* most bytes one call of stream.read returns
  MaxBytes,          \* the limits of AttackCheck
  MaxPackets,
  MinPacketSize,
  PacketCheckThreshold,
  MaxRedirects       \* 3 for connect

(* "accept" is a message as it should be; "bad" one that does not parse;   *)
(* "mismatch" one that parses and whose headers are refused; "refuse" an   *)
(* HTTP error, of the server or of its callback; "redirect" is one too,    *)
(* and for a server a callback that refuses with a status of success.      *)
AllAnswers == {"accept", "bad", "mismatch", "refuse", "redirect"}

ASSUME HandshakeAssumption ==
  /\ Entries \subseteq {"connect", "client", "accept"}
  /\ {OutLen, InLen, MaxRead} \subseteq Nat \ {0}
  /\ {MaxBehind, MaxBytes, MaxPackets, MinPacketSize, PacketCheckThreshold, MaxRedirects}
       \subseteq Nat
  /\ InLen + MaxBehind < ChunkSize
  /\ Answers \subseteq AllAnswers

VARIABLES
  entry,         \* the function called
  pc,            \* where handshake is
  result,        \* the error it has returned
  stage,         \* HandshakeState
  left,          \* bytes of the Cursor of Writing still to be written
  buf,           \* the ReadBuffer of Reading, then that of the frame reader
  packets,       \* AttackCheck.number_of_packets
  bytes,         \* AttackCheck.number_of_bytes
  rejects,       \* ServerHandshake.error_response is set
  attempt,       \* attempt of connect_with_config
  answer,        \* what the peer's message is, "none" before it is sent
  total,         \* bytes the peer sends in all
  arrived,       \* bytes of them that have arrived
  peer_open,
  received       \* bytes read of them

machine == <<stage, left, buf, packets, bytes, rejects>>
peer == <<answer, total, arrived, peer_open>>
vars == <<entry, pc, result, machine, attempt, peer, received>>

(* "running" in handshake, "interrupted" returned Interrupted, "done" has  *)
(* returned a connection, "ready" the application has stepped over what is *)
(* in its buffer, "failed" returned an error.                              *)
Locations == {"running", "interrupted", "done", "ready", "failed", "panicked"}

Errors == {"None", "Io", "HandshakeIncomplete", "AttackAttempt", "Protocol", "Http",
           "JunkAfterRequest", "UnableToConnect"}

TypeOK ==
  /\ entry \in Entries
  /\ pc \in Locations /\ result \in Errors
  /\ stage \in {"writing", "flushing", "reading"}
  /\ left \in 0 .. OutLen
  /\ buf \in Buffer
  /\ packets \in Nat /\ bytes \in Nat
  /\ rejects \in BOOLEAN
  /\ attempt \in 0 .. MaxRedirects
  /\ answer \in AllAnswers \cup {"none"}
  /\ total \in 0 .. InLen + MaxBehind
  /\ arrived \in 0 .. total
  /\ peer_open \in BOOLEAN
  /\ received \in 0 .. arrived

NewBuffer == FromPartiallyRead(<< >>)

IsClient == entry # "accept"
NonBlocking == entry # "connect"

Init ==
  /\ entry \in Entries
  /\ pc = "running" /\ result = "None"
  /\ stage = IF IsClient THEN "writing" ELSE "reading"
  /\ left = OutLen
  /\ buf = NewBuffer /\ packets = 0 /\ bytes = 0
  /\ rejects = FALSE
  /\ attempt = 0
  /\ answer = "none" /\ total = 0 /\ arrived = 0 /\ peer_open = TRUE
  /\ received = 0

-----------------------------------------------------------------------------
(* The peer *)

(* A server answers a whole request; a client speaks first. *)
PeerSends ==
  /\ answer = "none" /\ peer_open
  /\ IsClient => left = 0
  /\ answer' \in Answers
  /\ total' \in InLen .. InLen + MaxBehind
  /\ UNCHANGED <<entry, pc, result, machine, attempt, arrived, peer_open, received>>

Arrive ==
  /\ arrived < total
  /\ arrived' \in arrived + 1 .. total
  /\ UNCHANGED <<entry, pc, result, machine, attempt, answer, total, peer_open, received>>

(* The stream ends; what has not arrived never will. *)
PeerCloses ==
  /\ peer_open
  /\ peer_open' = FALSE
  /\ total' = arrived
  /\ UNCHANGED <<entry, pc, result, machine, attempt, answer, arrived, received>>

-----------------------------------------------------------------------------
(* Rounds *)

Running == pc = "running"
Fail(e) == pc' = "failed" /\ result' = e
Interrupt == pc' = "interrupted" /\ UNCHANGED result

WriteRound ==
  /\ Running /\ stage = "writing"
  /\ \E n \in 1 .. left :
       /\ left' = left - n
       /\ stage' = IF n = left THEN "flushing" ELSE "writing"
  /\ UNCHANGED <<entry, pc, result, buf, packets, bytes, rejects, attempt, peer, received>>

(* Any read or write may fail once the peer has gone. *)
IoFails ==
  /\ Running
  /\ ~peer_open
  /\ Fail("Io")
  /\ UNCHANGED <<entry, machine, attempt, peer, received>>

(* Reading starts with a buffer and counters of its own. *)
StartRead == stage' = "reading" /\ buf' = NewBuffer /\ packets' = 0 /\ bytes' = 0

(* The end of the writing stage: a client goes on to read the response, a  *)
(* server is done, or returns the error it has told the client.            *)
FlushRound ==
  /\ Running /\ stage = "flushing"
  /\ IF IsClient
     THEN StartRead /\ UNCHANGED <<pc, result, rejects>>
     ELSE /\ IF rejects THEN Fail("Http") ELSE pc' = "done" /\ UNCHANGED result
          /\ rejects' = FALSE
          /\ buf' = NewBuffer
          /\ UNCHANGED <<stage, packets, bytes>>
  /\ UNCHANGED <<entry, left, attempt, peer, received>>

WriteBlocks ==
  /\ Running /\ stage \in {"writing", "flushing"}
  /\ NonBlocking
  /\ Interrupt
  /\ UNCHANGED <<entry, machine, attempt, peer, received>>

(* check_incoming_packet_size, p packets of b bytes in all having come. *)
AttackAttempt(p, b) ==
  \/ b > MaxBytes
  \/ p > MaxPackets
  \/ p > PacketCheckThreshold /\ p * MinPacketSize > b

(* What of b is left to the frame reader when the message is taken out.    *)
TailOf(b) == IntoVec(TakeRef(b, InLen))

(* ClientHandshake::stage_finished: verify_response *)
ResponseRead(b) ==
  IF answer = "accept"
  THEN pc' = "done" /\ buf' = FromPartiallyRead(TailOf(b)) /\ UNCHANGED <<result, stage, rejects>>
  ELSE /\ Fail(IF answer = "mismatch" THEN "Protocol" ELSE "Http")
       /\ buf' = b /\ UNCHANGED <<stage, rejects>>

(* ServerHandshake::stage_finished: a callback may refuse the client, and  *)
(* is told so in a response. *)
RequestRead(b) ==
  /\ buf' = b
  /\ IF TailOf(b) # << >>
     THEN Fail("JunkAfterRequest") /\ UNCHANGED <<stage, rejects>>
     ELSE IF answer \in {"mismatch", "redirect"}
     THEN Fail("Protocol") /\ UNCHANGED <<stage, rejects>>
     ELSE /\ rejects' = (answer = "refuse")
          /\ stage' = "writing"
          /\ UNCHANGED <<pc, result>>

(* Mutant: one byte too many is asked for. *)
MutComplete(b) == Remaining(b) > InLen

(* try_parse: the message is parsed from its start each time. *)
Complete(b) == Remaining(b) >= InLen

(* A read that returns something.  A bad message is refused at any read. *)
ReadRound ==
  /\ Running /\ stage = "reading"
  /\ \E n \in 1 .. MaxRead :
       /\ n <= arrived - received
       /\ received' = received + n
       /\ packets' = packets + 1 /\ bytes' = bytes + n
       /\ LET b == ReadFirst(buf, n, received + 1)
              keep == buf' = b /\ UNCHANGED <<stage, rejects>>
          IN  IF AttackAttempt(packets + 1, bytes + n)
              THEN Fail("AttackAttempt") /\ keep
              ELSE \/ answer = "bad" /\ Fail("Protocol") /\ keep
                   \/ ~Complete(b) /\ UNCHANGED <<pc, result>> /\ keep
                   \/ /\ Complete(b) /\ answer # "bad"
                      /\ IF IsClient THEN ResponseRead(b) ELSE RequestRead(b)
  /\ UNCHANGED <<entry, left, attempt, peer>>

(* The stream has ended: the read returns 0.  With nothing in the buffer   *)
(* read_from takes that for a wrap, and panics after its second read.      *)
ReadEnd ==
  /\ Running /\ stage = "reading"
  /\ ~peer_open /\ received = arrived
  /\ LET b == ReadFirst(buf, 0, received + 1)
     IN  IF Wrapped(b) /\ ReadAgainPanics(MigrateTail(b), 0)
         THEN pc' = "panicked" /\ UNCHANGED result
         ELSE Fail("HandshakeIncomplete")
  /\ UNCHANGED <<entry, machine, attempt, peer, received>>

(* Mutant: what has been read is forgotten. *)
MutReadBlocks ==
  /\ Running /\ stage = "reading"
  /\ NonBlocking
  /\ peer_open /\ received = arrived
  /\ Interrupt
  /\ StartRead
  /\ UNCHANGED <<entry, left, rejects, attempt, peer, received>>

ReadBlocks ==
  /\ Running /\ stage = "reading"
  /\ NonBlocking
  /\ peer_open /\ received = arrived
  /\ Interrupt
  /\ UNCHANGED <<entry, machine, attempt, peer, received>>

(* The caller calls MidHandshake::handshake again. *)
Resume ==
  /\ pc = "interrupted"
  /\ pc' = "running"
  /\ UNCHANGED <<entry, result, machine, attempt, peer, received>>

-----------------------------------------------------------------------------
(* connect_with_config, which is for blocking streams: a redirect is       *)
(* followed with a connection, a request and a machine of its own.         *)
FollowRedirect ==
  /\ entry = "connect"
  /\ pc = "failed" /\ result = "Http" /\ answer = "redirect"
  /\ attempt < MaxRedirects
  /\ attempt' = attempt + 1
  /\ \/ pc' = "running" /\ result' = "None"
     \/ Fail("UnableToConnect")
  /\ stage' = "writing" /\ left' = OutLen
  /\ buf' = NewBuffer /\ packets' = 0 /\ bytes' = 0
  /\ answer' = "none" /\ total' = 0 /\ arrived' = 0 /\ peer_open' = TRUE
  /\ received' = 0
  /\ UNCHANGED <<entry, rejects>>

(* Mutant: the application goes on with the buffer as it is. *)
MutStepOver ==
  /\ IsClient /\ pc = "done"
  /\ pc' = "ready"
  /\ UNCHANGED <<entry, result, machine, attempt, peer, received>>

(* The application takes write_cursor bytes, to be rid of the response.    *)
StepOver ==
  /\ IsClient /\ pc = "done"
  /\ IF TakeRefPanics(buf, buf.write_cursor)
     THEN pc' = "panicked" /\ UNCHANGED buf
     ELSE pc' = "ready" /\ buf' = TakeRef(buf, buf.write_cursor)
  /\ UNCHANGED <<entry, result, stage, left, packets, bytes, rejects, attempt, peer, received>>

Machine ==
  \/ WriteRound \/ IoFails \/ WriteBlocks \/ FlushRound
  \/ ReadRound \/ ReadEnd \/ ReadBlocks
  \/ Resume \/ FollowRedirect \/ StepOver

Next == PeerSends \/ Arrive \/ PeerCloses \/ Machine

Spec == Init /\ [][Next]_vars

(* The caller resumes an interrupted handshake, a stream that would block  *)
(* can be written to in the end, and the network delivers.  The peer need  *)
(* not send anything.                                                      *)
FairSpec ==
  /\ Spec
  /\ WF_vars(Machine) /\ WF_vars(Arrive)
  /\ SF_vars(WriteRound) /\ SF_vars(FlushRound)

-----------------------------------------------------------------------------
(* An interrupted handshake resumes with all it had: every byte read is in *)
(* the buffer, in its place and unread, and has been counted.              *)
NothingMislaid ==
  stage = "reading" /\ pc \in {"running", "interrupted"} =>
    /\ bytes = received /\ packets <= received
    /\ buf.read_cursor = 0 /\ Remaining(buf) = received
    /\ Taken(buf, received) = FirstBytes(received)

(* When an application has connected, its frame reader is where            *)
(* FrameReader starts: behind the response, which is what it holds.  That  *)
(* is so only if nothing else came with the end of the response; what did  *)
(* is stepped over too, but never part of it, so that the reader is at     *)
(* the next byte that arrives.                                             *)
Handover ==
  pc = "ready" =>
    /\ received = InLen =>
         buf = [FromPartiallyRead(FirstBytes(InLen)) EXCEPT !.read_cursor = InLen]
    /\ buf.read_cursor = buf.write_cursor /\ buf.write_cursor = buf.end

(* Once the peer has answered or gone, the handshake comes to an end.      *)
HandshakeEnds ==
  (answer # "none" \/ ~peer_open) ~> pc \notin {"running", "interrupted"}

(* A handshake fails for a cause.  It panics only if the stream ends       *)
(* before its first byte (buffer.rs:151-161), and reports an end later     *)
(* only if the message was not complete; and no server gets past a whole   *)
(* request, since into_vec returns it as the junk behind it                *)
(* (buffer.rs:100, handshake/server.rs:239-241).                           *)
FailsForCause ==
  /\ pc = "panicked" => ~peer_open /\ received = 0
  /\ result = "HandshakeIncomplete" =>
       ~peer_open /\ received > 0 /\ (received < InLen \/ answer = "bad")
  /\ result = "JunkAfterRequest" => ~IsClient /\ received >= InLen
  /\ ~IsClient => stage = "reading" /\ pc # "done"
=============================================================================
