------------------------------ MODULE MCWire ------------------------------
(***************************************************************************)
(* Every payload of up to two bytes or runs, and every code at an end of *)
(* a range of CloseCode, for Wire.                                         *)
(***************************************************************************)
EXTENDS Wire

MCPayloads == UNION {[1 .. n -> Text] : n \in 1 .. 2}

MCCodes == {0, 1, 999} \union 1000 .. 1016 \union {2999, 3000, 3999, 4000, 4999, 5000, 65535}
=============================================================================
