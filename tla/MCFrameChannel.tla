--------------------------- MODULE MCFrameChannel ---------------------------
(* Small instances of FrameChannel for TLC.                                *)
EXTENDS FrameChannel

CONSTANTS p, q
=============================================================================
