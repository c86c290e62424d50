--------------------------- MODULE MCWarmSession ---------------------------
(* A small instance of WarmSession for TLC.                                *)
EXTENDS WarmSession

CONSTANTS c1, c2, c3
=============================================================================
