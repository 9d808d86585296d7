--------------------------- MODULE CloseHandshake ---------------------------
(***************************************************************************)
(* A client and a server, both WebSocket endpoints of this library, at the *)
(* two ends of one connection.  Each side has a thread whose user reads    *)
(* again and again, writes a message or closes between two reads, and lets *)
(* go of the connection when a call says it is closed.  The connection     *)
(* itself does not fail, but an end that is let go of with frames still    *)
(* unread resets it.                                                       *)
(* Reads and writes block.  Messages are binary and have a payload (a      *)
(* server does not unmask what it receives, so it would refuse text).      *)
(***************************************************************************)
EXTENDS Integers, Sequences

CONSTANTS
  WriteLen,        \* out_buffer_write_len of both
  Closes,          \* payloads of the close frames the users ask for
  ServerFlushes,   \* TRUE if the server's user calls flush after each read
  MaxWrites        \* bound: messages each user writes

ASSUME HandshakeAssumption ==
  /\ WriteLen \in Nat
  /\ Closes \subseteq {"empty", "bare"}
  /\ ServerFlushes \in BOOLEAN
  /\ MaxWrites \in Nat

VARIABLES
  c_state, c_out, c_unflushed, c_incomplete, c_pc, c_result, c_handed, c_writes,
  s_state, s_out, s_unflushed, s_incomplete, s_pc, s_result, s_handed, s_writes,
  s_owes,      \* the server's user has yet to flush after its last read
  to_server,   \* frames the client has written and the server not yet read
  to_client,
  c_reset,     \* the client let go with frames unread
  s_reset,
  nonblocking  \* of either stream: FALSE

client == <<c_state, c_out, c_unflushed, c_incomplete, c_pc, c_result, c_handed, c_writes>>
server == <<s_state, s_out, s_unflushed, s_incomplete, s_pc, s_result, s_handed, s_writes, s_owes>>
resets == <<c_reset, s_reset>>
vars == <<client, server, to_server, to_client, resets, nonblocking>>

C == INSTANCE WebSocket WITH
       Role <- "Client", MaxMessage <- 1,
       state <- c_state, out_buffer <- c_out, unflushed_additional <- c_unflushed,
       incomplete <- c_incomplete, pc <- c_pc, result <- c_result, handed <- c_handed,
       inbox <- to_client, outgoing <- to_server,
       peer_open <- s_pc # "dropped", broken <- s_reset

S == INSTANCE WebSocket WITH
       Role <- "Server", MaxMessage <- 1,
       state <- s_state, out_buffer <- s_out, unflushed_additional <- s_unflushed,
       incomplete <- s_incomplete, pc <- s_pc, result <- s_result, handed <- s_handed,
       inbox <- to_server, outgoing <- to_client,
       peer_open <- c_pc # "dropped", broken <- c_reset

Init ==
  /\ C!EndpointInit
  /\ S!EndpointInit
  /\ c_writes = 0
  /\ s_writes = 0
  /\ s_owes = FALSE
  /\ to_server = << >>
  /\ to_client = << >>
  /\ c_reset = FALSE
  /\ s_reset = FALSE
  /\ nonblocking = FALSE

(* What a user writes: a message or a ping. *)
Written == {"data", "ping"}

ClientWrites ==
  /\ UNCHANGED <<server, resets>>
  /\ C!IsActive /\ c_writes < MaxWrites
  /\ c_writes' = c_writes + 1
  /\ \E op \in Written : C!Write(op, c_writes + 1)

ClientCloses ==
  /\ UNCHANGED <<server, resets, c_writes>>
  /\ C!IsActive /\ \E b \in Closes : C!CloseCall(b)

(* The user's loop: read until the connection is closed, then let go. *)
ClientReads ==
  /\ UNCHANGED <<server, s_reset, c_writes>>
  /\ \/ c_result # "Closed" /\ C!Read /\ UNCHANGED c_reset
     \/ C!ReadStep /\ UNCHANGED c_reset
     \/ C!Drop /\ c_reset' = (to_client # << >>)

ServerWrites ==
  /\ UNCHANGED <<client, resets, s_owes>>
  /\ S!IsActive /\ s_writes < MaxWrites
  /\ s_writes' = s_writes + 1
  /\ \E op \in Written : S!Write(op, s_writes + 1)

ServerCloses ==
  /\ UNCHANGED <<client, resets, s_writes, s_owes>>
  /\ S!IsActive /\ \E b \in Closes : S!CloseCall(b)

ServerReads ==
  /\ UNCHANGED <<client, c_reset, s_writes>>
  /\ \/ /\ s_result # "Closed" /\ ~s_owes /\ S!Read
        /\ s_owes' = ServerFlushes
        /\ UNCHANGED s_reset
     \/ S!ReadStep /\ UNCHANGED <<s_owes, s_reset>>
     \/ S!Drop /\ UNCHANGED s_owes /\ s_reset' = (to_server # << >>)

ServerFlush ==
  /\ UNCHANGED <<client, c_reset, s_writes>>
  /\ s_owes /\ s_result # "Closed" /\ S!Flush
  /\ s_owes' = FALSE
  /\ UNCHANGED s_reset

ClientThread == ClientReads
ServerThread == ServerReads \/ ServerFlush

Next == \/ ClientWrites \/ ClientCloses \/ ClientThread
        \/ ServerWrites \/ ServerCloses \/ ServerThread

Spec == Init /\ [][Next]_vars

(* The threads go on; nobody has to close, or to write. *)
FairSpec == Spec /\ WF_vars(ClientThread) /\ WF_vars(ServerThread)

-----------------------------------------------------------------------------
IsClose(f) == f.op = "close"

(* The two users have no close frame but that of the other end, whose id   *)
(* is 0; messages and pings have ids from 1.                               *)
HeardClose(handed) == \E i \in DOMAIN handed : handed[i] = <<0>>

saidEnds == {e \in {"Client", "Server"} :
               IF e = "Client" THEN c_state # "Active" ELSE s_state # "Active"}
heardEnds == {e \in {"Client", "Server"} :
                HeardClose(IF e = "Client" THEN c_handed ELSE s_handed)}
doneEnds == {e \in {"Client", "Server"} :
               (IF e = "Client" THEN c_result ELSE s_result) = "Closed"}

Promise == INSTANCE ClosePromise WITH
             said <- saidEnds, heard <- heardEnds, done <- doneEnds

(* The two endpoints, each working with what the other has really written, *)
(* keep the promise: nobody is told the connection is closed before both   *)
(* close frames have arrived, the client not before the server is done.    *)
PromiseKept == Promise!Spec

(* A close with a code, started by either side, is finished on both, even  *)
(* if both start one at the same time: both users are told and both let go *)
(* (mod.rs:267-276).                                                       *)
Finishes ==
  (c_state # "Active" \/ s_state # "Active") ~> (c_pc = "dropped" /\ s_pc = "dropped")

(* Nobody runs into an error in an orderly close: the peer's frames that   *)
(* were under way when we closed are read, and there are none after its    *)
(* close frame.                                                            *)
OrderlyClose == {c_result, s_result} \subseteq {"Ok", "Closed"}

(* "When the close handshake is finished (we have both sent and received a *)
(* close message), read or flush will return ConnectionClosed if this      *)
(* endpoint is the server" (mod.rs:270-272).                               *)
ServerToldWhenFinished ==
  (HeardClose(s_handed) /\ \E i \in DOMAIN to_client : IsClose(to_client[i]))
    ~> s_result = "Closed"
=============================================================================
