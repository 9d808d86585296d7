---------------------------- MODULE ClosePromise ----------------------------
(***************************************************************************)
(* What the close handshake of a connection promises, as the comments of   *)
(* Kyrptonite/src/protocol/mod.rs (262-276) and error.rs (16-26) put it:   *)
(* an endpoint is told that the connection is closed only when it has both *)
(* said and heard that it ends, and the client only when the server is     *)
(* done with it.                                                           *)
(***************************************************************************)
Ends == {"Client", "Server"}
Other(e) == CHOOSE o \in Ends : o # e

VARIABLES
  said,      \* ends that have queued a close frame
  heard,     \* ends whose user was handed the other's close frame
  done       \* ends that were told ConnectionClosed

Init == said = {} /\ heard = {} /\ done = {}

Say(e) ==
  /\ e \notin said
  /\ said' = said \cup {e}
  /\ UNCHANGED <<heard, done>>

(* Hearing it without having said it is answered at once. *)
Hear(e) ==
  /\ Other(e) \in said
  /\ e \notin heard
  /\ heard' = heard \cup {e}
  /\ said' = said \cup {e}
  /\ UNCHANGED done

End(e) ==
  /\ e \in said \cap heard
  /\ e \notin done
  /\ e = "Client" => "Server" \in done
  /\ done' = done \cup {e}
  /\ UNCHANGED <<said, heard>>

Next == \E e \in Ends : Say(e) \/ Hear(e) \/ End(e)

Spec == Init /\ [][Next]_<<said, heard, done>>
=============================================================================
