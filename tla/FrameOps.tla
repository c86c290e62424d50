------------------------------ MODULE FrameOps ------------------------------
(***************************************************************************)
(* What a session pool promises the callers of one frame, whatever the     *)
(* connection goes through: operations reach the frame one after the other *)
(* and in the order in which they were accepted, each at most twice, and   *)
(* none after its caller was answered.                                     *)
(***************************************************************************)
EXTENDS Naturals, Sequences

CONSTANT Caller     \* each asks for one operation

VARIABLES
  op,      \* caller -> how far its operation is
  runs,    \* caller -> how often the frame has executed it
  line     \* the accepted operations, in their order

vars == <<op, runs, line>>

Init ==
  /\ op = [c \in Caller |-> "idle"]
  /\ runs = [c \in Caller |-> 0]
  /\ line = <<>>

Accept(c) ==
  /\ op[c] = "idle"
  /\ op' = [op EXCEPT ![c] = "held"]
  /\ line' = Append(line, c)
  /\ UNCHANGED runs

(* At once, or while the operation waits; it has not reached the frame.    *)
Refuse(c) ==
  /\ op[c] \in {"idle", "held"} /\ runs[c] = 0
  /\ op' = [op EXCEPT ![c] = "unavailable"]
  /\ UNCHANGED <<runs, line>>

(* The frame executes an operation that is held, or whose caller no longer *)
(* waits for it.                                                           *)
Runs(c) ==
  /\ op[c] \in {"held", "gaveUp"} /\ runs[c] < 2
  /\ \E i \in DOMAIN line : line[i] = c /\ \A k \in i + 1 .. Len(line) : runs[line[k]] = 0
  /\ runs' = [runs EXCEPT ![c] = @ + 1]

RunsUnseen(c) == Runs(c) /\ UNCHANGED <<op, line>>

(* A success comes with the execution that it reports; a failure may come  *)
(* with one, and says nothing of those before.                             *)
Answer(c, how) ==
  /\ op[c] = "held"
  /\ op' = [op EXCEPT ![c] = how]
  /\ Runs(c) \/ (how # "done" /\ UNCHANGED runs)
  /\ UNCHANGED line

GiveUp(c) == Answer(c, "gaveUp")

Next == \E c \in Caller :
  \/ Accept(c) \/ Refuse(c) \/ RunsUnseen(c) \/ GiveUp(c)
  \/ \E how \in {"done", "failed"} : Answer(c, how)

Spec == Init /\ [][Next]_vars
=============================================================================
