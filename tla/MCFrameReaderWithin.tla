------------------------ MODULE MCFrameReaderWithin ------------------------
(***************************************************************************)
(* Instances within the limits for which the reader's promise is proved.   *)
(***************************************************************************)
EXTENDS MCFrameReader

ASSUME InstanceWithinLimits == WithinLimits
=============================================================================
