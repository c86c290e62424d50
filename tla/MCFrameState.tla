---------------------------- MODULE MCFrameState ----------------------------
(* A small instance of FrameState for TLC.                                 *)
EXTENDS FrameState

CONSTANTS one, two
=============================================================================
