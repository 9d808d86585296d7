--------------------------- MODULE MCFrameReader ---------------------------
(***************************************************************************)
(* Small instances of FrameReader.                                         *)
(***************************************************************************)
EXTENDS FrameReaderInvariant

Plain(ext, len) == [kind |-> "start", ext |-> ext, mask |-> FALSE, len |-> len]

(* Both short header forms; the first makes a frame too short to be parsed *)
(* by itself.                                                              *)
PlainShapes == {Plain(0, 1), Plain(2, 4)}

ContinuedShapes == {Plain(0, 2), [Plain(0, 2) EXCEPT !.kind = "continue"]}

(* Within the limits, were it not for the retries: the longer payload may  *)
(* end just in front of the end of the buffer.                             *)
RetryShapes == {Plain(0, 5), Plain(0, 12)}

(* Every kind of frame at once, an empty one among them. *)
AllShapes == {Plain(0, 2), Plain(2, 5), Plain(8, 2), Plain(0, 0), Plain(0, 6),
              [Plain(0, 2) EXCEPT !.mask = TRUE],
              [Plain(0, 4) EXCEPT !.kind = "continue"],
              [Plain(0, 2) EXCEPT !.kind = "reserved"]}
=============================================================================
