---------------------------- MODULE MCServedFrame ----------------------------
(* A small instance of ServedFrame for TLC; a clock tick is 45 s.           *)
EXTENDS ServedFrame
=============================================================================
