---------------------------- MODULE MCInterlude ----------------------------
(* A small instance of Interlude for TLC.                                  *)
EXTENDS Interlude

CONSTANTS r1, i1, i2

(* One that may fail to answer, two that always do.                        *)
MCFrames == {[time |-> 300, shuffle |-> TRUE, asleep |-> TRUE],
             [time |-> 300, shuffle |-> TRUE, asleep |-> FALSE],
             [time |-> 60, shuffle |-> FALSE, asleep |-> FALSE]}
=============================================================================
