------------------------ MODULE WarmSession_proofs ------------------------
(***************************************************************************)
(* Proofs about WarmSession, for any callers: it implements FrameOps, and  *)
(* an operation reported as unavailable never ran.                         *)
(*                                                                         *)
(* The inductive invariant relates the keeper's own state to the line of   *)
(* all operations ever queued: the queue is the end of the line, the       *)
(* operation in hand comes right before it, and nothing from there on has  *)
(* been executed more often than the thread's place says.                  *)
(***************************************************************************)
EXTENDS WarmSession, TLAPS

Hand == {"running", "reopening", "rerunning"}
Past == Len(line) - Len(jobs)

(* The queue is the end of the line.                                       *)
QueueIsTail ==
  Len(jobs) <= Len(line) /\ \A i \in 1 .. Len(jobs) : jobs[i] = line[Past + i]

(* An operation is queued once, and only when its caller has asked.        *)
LineOfAsked ==
  /\ \A i, k \in DOMAIN line : line[i] = line[k] => i = k
  /\ \A i \in DOMAIN line : op[line[i]] \notin {"idle", "found"}

(* What waits in the queue has not been executed.                          *)
QueueNotRun ==
  \A i \in DOMAIN line : i > Past => runs[line[i]] = 0 /\ op[line[i]] \in {"queued", "gaveUp"}

(* The operation in hand is the last that has left the queue.              *)
InHand(c) ==
  /\ job = {c} /\ Past > 0 /\ line[Past] = c
  /\ op[c] \in {"queued", "gaveUp"}
  /\ runs[c] <= (IF at = "running" THEN 0 ELSE 1)
JobInHand == IF at \in Hand THEN \E c \in Caller : InHand(c) ELSE job = {}

NotRun == \A c \in Caller : op[c] \in {"idle", "found", "unavailable"} => runs[c] = 0

IInv == TypeOK /\ QueueIsTail /\ LineOfAsked /\ QueueNotRun /\ JobInHand /\ NotRun

-----------------------------------------------------------------------------
LEMMA InitLemma == Init => IInv
<1> SUFFICES ASSUME Init PROVE IInv
  OBVIOUS
<1>1. TypeOK
  <2>1. jobs \in Seq(Caller) /\ line \in Seq(Caller)
    BY DEF Init
  <2>2. op \in [Caller -> {"idle", "found", "queued"} \cup Settled] /\ runs \in [Caller -> Nat]
    BY DEF Init
  <2>3. job \in SUBSET Caller /\ status \in {"connecting", "live", "offline"} /\ stop \in BOOLEAN
    BY DEF Init
  <2>4. at = "dead"
    BY DEF Init
  <2>5. QED
    BY <2>1, <2>2, <2>3, <2>4 DEF TypeOK
<1>2. Len(jobs) = 0 /\ Len(line) = 0 /\ DOMAIN line = {}
  BY DEF Init
<1>3. QueueIsTail /\ LineOfAsked /\ QueueNotRun
  BY <1>2 DEF QueueIsTail, LineOfAsked, QueueNotRun, Past
<1>4. JobInHand /\ NotRun
  BY DEF Init, JobInHand, Hand, NotRun
<1>5. QED
  BY <1>1, <1>3, <1>4 DEF IInv

(* The first of the queue, and what is left when it is taken.              *)
LEMMA PopLemma ==
  ASSUME IInv, jobs # <<>>
  PROVE  /\ Past \in Nat /\ Past + 1 \in DOMAIN line
         /\ Head(jobs) = line[Past + 1] /\ Head(jobs) \in Caller
         /\ runs[Head(jobs)] = 0 /\ op[Head(jobs)] \in {"queued", "gaveUp"}
         /\ Tail(jobs) \in Seq(Caller) /\ Len(Tail(jobs)) = Len(jobs) - 1
         /\ Len(Tail(jobs)) <= Len(line)
         /\ Len(line) - Len(Tail(jobs)) = Past + 1
         /\ \A i \in 1 .. Len(Tail(jobs)) : Tail(jobs)[i] = line[Past + 1 + i]
<1>1. jobs \in Seq(Caller) /\ line \in Seq(Caller) /\ Len(jobs) \in Nat \ {0}
      /\ Len(line) \in Nat /\ Len(jobs) <= Len(line)
  BY DEF IInv, TypeOK, QueueIsTail
<1>2. Past \in Nat /\ Past + 1 \in DOMAIN line /\ Past + 1 > Past
  BY <1>1 DEF Past
<1>3. Head(jobs) = line[Past + 1] /\ Head(jobs) \in Caller
  <2>1. 1 \in 1 .. Len(jobs) /\ Head(jobs) = jobs[1] /\ jobs[1] \in Caller
    BY <1>1
  <2>2. QED
    BY <2>1 DEF IInv, QueueIsTail
<1>4. runs[Head(jobs)] = 0 /\ op[Head(jobs)] \in {"queued", "gaveUp"}
  BY <1>2, <1>3 DEF IInv, QueueNotRun
<1>5. Tail(jobs) \in Seq(Caller) /\ Len(Tail(jobs)) = Len(jobs) - 1
  BY <1>1
<1>6. Len(line) - Len(Tail(jobs)) = Past + 1
  BY <1>1, <1>5 DEF Past
<1>7. ASSUME NEW i \in 1 .. Len(Tail(jobs)) PROVE Tail(jobs)[i] = line[Past + 1 + i]
  <2>1. i + 1 \in 1 .. Len(jobs) /\ Tail(jobs)[i] = jobs[i + 1]
    BY <1>1, <1>5
  <2>2. jobs[i + 1] = line[Past + (i + 1)]
    BY <2>1 DEF IInv, QueueIsTail
  <2>3. QED
    BY <1>2, <2>1, <2>2
<1>8. QED
  BY <1>1, <1>2, <1>3, <1>4, <1>5, <1>6, <1>7

LEMMA NextLemma == IInv /\ [Next]_vars => IInv'
<1> USE DEF IInv, TypeOK, QueueIsTail, LineOfAsked, QueueNotRun, JobInHand, NotRun, Hand, Past,
            InHand, Settled
<1> SUFFICES ASSUME IInv, [Next]_vars PROVE IInv'
  OBVIOUS
<1>1. CASE Continue
  BY <1>1 DEF Continue
<1>2. CASE NoticeStop
  BY <1>2 DEF NoticeStop
<1>3. CASE Connect
  BY <1>3 DEF Connect
<1>4. CASE OpenOk
  BY <1>4 DEF OpenOk
<1>5. CASE OpenFails
  BY <1>5 DEF OpenFails
<1>6. CASE FailQueued
  <2>1. CASE jobs # <<>>
    <3>1. jobs' = Tail(jobs) /\ line' = line /\ Past' = Past + 1
      BY <1>6, <2>1, PopLemma DEF FailQueued, Past
    <3>2. TypeOK'
      BY <1>6, <2>1, PopLemma DEF FailQueued, Settle
    <3>3. QueueIsTail'
      BY <2>1, <3>1, PopLemma DEF QueueIsTail
    <3>4. LineOfAsked' /\ QueueNotRun'
      BY <1>6, <2>1, <3>1, PopLemma DEF FailQueued, Settle
    <3>5. JobInHand' /\ NotRun'
      BY <1>6, <2>1, <3>1, PopLemma DEF FailQueued, Settle
    <3>6. QED
      BY <3>2, <3>3, <3>4, <3>5
  <2>2. CASE jobs = <<>>
    BY <1>6, <2>2 DEF FailQueued, Settle
  <2>3. QED
    BY <2>1, <2>2
<1>7. CASE QueueEmpty
  BY <1>7 DEF QueueEmpty
<1>8. CASE Retry
  BY <1>8 DEF Retry
<1>9. CASE Take
  <2>1. CASE jobs # <<>>
    <3>1. jobs' = Tail(jobs) /\ line' = line /\ Past' = Past + 1
      BY <1>9, <2>1, PopLemma DEF Take, Past
    <3>2. TypeOK'
      BY <1>9, <2>1, PopLemma DEF Take
    <3>3. QueueIsTail'
      BY <2>1, <3>1, PopLemma DEF QueueIsTail
    <3>4. LineOfAsked' /\ QueueNotRun'
      BY <1>9, <2>1, <3>1, PopLemma DEF Take
    <3>5. JobInHand' /\ NotRun'
      BY <1>9, <2>1, <3>1, PopLemma DEF Take
    <3>6. QED
      BY <3>2, <3>3, <3>4, <3>5
  <2>2. CASE jobs = <<>>
    BY <1>9, <2>2 DEF Take
  <2>3. QED
    BY <2>1, <2>2
<1>10. CASE TakeNothing
  BY <1>10 DEF TakeNothing
<1>11. CASE Quiet
  BY <1>11 DEF Quiet
<1>12. CASE RunOk
  BY <1>12 DEF RunOk, Settle, HasRun
<1>13. CASE RunRaises
  BY <1>13 DEF RunRaises, Settle, MayHaveRun, HasRun
<1>14. CASE RunTimesOut
  BY <1>14 DEF RunTimesOut, Settle, MayHaveRun, HasRun
<1>15. CASE HungUp
  BY <1>15 DEF HungUp, MayHaveRun, HasRun
<1>16. CASE ReopenOk
  BY <1>16 DEF ReopenOk
<1>17. CASE ReopenFails
  BY <1>17 DEF ReopenFails, Settle
<1>18. CASE RerunFails
  <2>1. PICK c \in Caller : InHand(c)
    BY <1>18 DEF RerunFails
  <2>2. TypeOK'
    <3>1. runs' \in [Caller -> Nat]
      <4>1. HasRun => runs' \in [Caller -> Nat]
        BY DEF HasRun
      <4>2. HasRun \/ UNCHANGED runs
        BY <1>18 DEF RerunFails, MayHaveRun
      <4>3. QED
        BY <4>1, <4>2
    <3>2. op' \in [Caller -> {"idle", "found", "queued"} \cup Settled]
      BY <1>18, <2>1 DEF RerunFails, Settle
    <3>3. QED
      BY <1>18, <3>1, <3>2 DEF RerunFails, Settle
  <2>3. QueueIsTail' /\ LineOfAsked'
    BY <1>18, <2>1 DEF RerunFails, Settle, MayHaveRun, HasRun
  <2>4. QueueNotRun' /\ JobInHand' /\ NotRun'
    BY <1>18, <2>1 DEF RerunFails, Settle, MayHaveRun, HasRun
  <2>5. QED
    BY <2>2, <2>3, <2>4
<1>19. CASE OpenGarbled
  BY <1>19 DEF OpenGarbled
<1>20. CASE SettleRaces
  <2>1. PICK c \in Caller : InHand(c)
    BY <1>20 DEF SettleRaces
  <2>2. TypeOK'
    <3>1. runs' \in [Caller -> Nat]
      <4>1. HasRun => runs' \in [Caller -> Nat]
        BY DEF HasRun
      <4>2. HasRun \/ UNCHANGED runs
        BY <1>20 DEF SettleRaces, MayHaveRun
      <4>3. QED
        BY <4>1, <4>2
    <3>2. op' \in [Caller -> {"idle", "found", "queued"} \cup Settled]
      BY <1>20, <2>1 DEF SettleRaces
    <3>3. QED
      BY <1>20, <3>1, <3>2 DEF SettleRaces
  <2>3. QueueIsTail' /\ LineOfAsked'
    BY <1>20, <2>1 DEF SettleRaces, MayHaveRun, HasRun
  <2>4. QueueNotRun' /\ JobInHand' /\ NotRun'
    BY <1>20, <2>1 DEF SettleRaces, MayHaveRun, HasRun
  <2>5. QED
    BY <2>2, <2>3, <2>4
<1>21. CASE FailRaces
  BY <1>21 DEF FailRaces
<1>22. CASE Leave
  <2>1. CASE jobs # <<>>
    <3>1. /\ at = "leaving" /\ at' = at /\ UNCHANGED <<runs, job, status, stop, line>>
          /\ op' = [d \in Caller |-> IF d = Head(jobs) /\ op[d] = "queued" THEN "unavailable" ELSE op[d]]
          /\ jobs' = Tail(jobs)
      BY <1>22, <2>1 DEF Leave, Settle
    <3>2. jobs' = Tail(jobs) /\ line' = line /\ Past' = Past + 1
      BY <2>1, <3>1, PopLemma
    <3>3. TypeOK'
      BY <2>1, <3>1, PopLemma
    <3>4. QueueIsTail'
      BY <2>1, <3>2, PopLemma DEF QueueIsTail
    <3>5. LineOfAsked' /\ QueueNotRun'
      BY <2>1, <3>2, <3>1, PopLemma
    <3>6. JobInHand' /\ NotRun'
      BY <2>1, <3>2, <3>1, PopLemma
    <3>7. QED
      BY <3>3, <3>4, <3>5, <3>6
  <2>2. CASE jobs = <<>>
    BY <1>22, <2>2 DEF Leave, Settle
  <2>3. QED
    BY <2>1, <2>2
<1>23. CASE Die
  BY <1>23 DEF Die
<1>24. ASSUME NEW c \in Caller, FindKeeper(c) PROVE IInv'
  BY <1>24 DEF FindKeeper, Asks
<1>25. ASSUME NEW c \in Caller, StartKeeper(c) PROVE IInv'
  BY <1>25 DEF StartKeeper, Asks, NewKeeper
<1>26. ASSUME NEW c \in Caller, Submit(c) PROVE IInv'
  <2>1. CASE op' = [op EXCEPT ![c] = "queued"] /\ jobs' = Append(jobs, c) /\ line' = Append(line, c)
    <3>1. /\ Len(jobs') = Len(jobs) + 1 /\ Len(line') = Len(line) + 1 /\ Past' = Past
          /\ \A i \in 1 .. Len(jobs) : jobs'[i] = jobs[i]
          /\ jobs'[Len(jobs) + 1] = c
          /\ \A i \in 1 .. Len(line) : line'[i] = line[i]
          /\ line'[Len(line) + 1] = c
          /\ DOMAIN line' = 1 .. Len(line) + 1 /\ DOMAIN line = 1 .. Len(line)
      BY <2>1
    <3>2. TypeOK'
      BY <1>26, <2>1 DEF Submit
    <3>3. QueueIsTail'
      <4>1. ASSUME NEW i \in 1 .. Len(jobs) + 1 PROVE jobs'[i] = line'[Past + i]
        <5>1. CASE i = Len(jobs) + 1
          BY <3>1, <5>1, Len(jobs) \in Nat, Len(line) \in Nat
        <5>2. CASE i \in 1 .. Len(jobs)
          BY <3>1, <5>2, Len(jobs) \in Nat, Len(line) \in Nat, Past + i \in 1 .. Len(line)
        <5>3. QED
          BY <5>1, <5>2, Len(jobs) \in Nat
      <4>2. QED
        BY <3>1, <4>1, Len(jobs) \in Nat, Len(line) \in Nat
    <3>4. LineOfAsked'
      BY <1>26, <2>1, <3>1, Len(line) \in Nat DEF Submit
    <3>5. QueueNotRun'
      BY <1>26, <2>1, <3>1, Len(jobs) \in Nat, Len(line) \in Nat DEF Submit
    <3>6. JobInHand' /\ NotRun'
      BY <1>26, <2>1, <3>1, Len(jobs) \in Nat, Len(line) \in Nat DEF Submit
    <3>7. QED
      BY <3>2, <3>3, <3>4, <3>5, <3>6
  <2>2. CASE op' = [op EXCEPT ![c] = "unavailable"] /\ UNCHANGED <<jobs, line>>
    BY <1>26, <2>2 DEF Submit
  <2>3. QED
    BY <1>26, <2>1, <2>2 DEF Submit
<1>27. ASSUME NEW c \in Caller, GiveUp(c) PROVE IInv'
  BY <1>27 DEF GiveUp
<1>28. CASE Close
  BY <1>28 DEF Close
<1>29. CASE UNCHANGED vars
  BY <1>29 DEF vars
<1>30. QED
  BY <1>1, <1>2, <1>3, <1>4, <1>5, <1>6, <1>7, <1>8, <1>9, <1>10, <1>11, <1>12, <1>13,
     <1>14, <1>15, <1>16, <1>17, <1>18, <1>19, <1>20, <1>21, <1>22, <1>23, <1>24, <1>25,
     <1>26, <1>27, <1>28, <1>29
  DEF Next, Keep, Ask

-----------------------------------------------------------------------------
(* How the steps look to a caller.                                         *)

(* The operation in hand is run once more: the frame may do so, for nothing *)
(* that was queued after it has run.                                       *)
LEMMA RunsLemma ==
  ASSUME IInv, NEW c \in Caller, InHand(c), HasRun
  PROVE  Ops!Runs(c)
<1>1. Past \in DOMAIN line /\ line[Past] = c
  BY DEF IInv, TypeOK, QueueIsTail, InHand, Past
<1>2. \A k \in Past + 1 .. Len(line) : runs[line[k]] = 0
  BY <1>1 DEF IInv, TypeOK, QueueNotRun
<1>3. Seen[c] \in {"held", "gaveUp"}
  BY DEF Seen, InHand
<1>4. runs[c] < 2 /\ runs[c] \in Nat
  BY DEF IInv, TypeOK, InHand
<1>5. runs' = [runs EXCEPT ![c] = @ + 1]
  BY DEF HasRun, InHand, IInv, TypeOK
<1>6. QED
  BY <1>1, <1>2, <1>3, <1>4, <1>5 DEF Ops!Runs

(* Settling the operation of one caller answers that caller, or nobody.    *)
LEMMA SettleLemma ==
  ASSUME TypeOK, NEW c \in Caller, NEW how \in Settled, Settle({c}, how)
  PROVE  \/ Seen[c] = "held" /\ Seen' = [Seen EXCEPT ![c] = how]
         \/ Seen[c] # "held" /\ Seen' = Seen
<1>1. CASE op[c] = "queued"
  <2>1. op' = [op EXCEPT ![c] = how]
    BY <1>1 DEF TypeOK, Settle
  <2>2. QED
    BY <1>1, <2>1 DEF Seen, TypeOK, Settled
<1>2. CASE op[c] # "queued"
  <2>1. op' = op
    BY <1>2 DEF TypeOK, Settle
  <2>2. QED
    BY <1>2, <2>1 DEF Seen, TypeOK, Settled
<1>3. QED
  BY <1>1, <1>2

(* The operation in hand may have run, and is then answered with how.       *)
LEMMA AnswerLemma ==
  ASSUME IInv, NEW c \in Caller, InHand(c), NEW how \in {"done", "failed", "gaveUp"},
         Settle({c}, how), line' = line,
         HasRun \/ (how # "done" /\ UNCHANGED runs)
  PROVE  [Ops!Next]_Ops!vars
<1>1. HasRun => Ops!Runs(c)
  BY RunsLemma
<1>2. CASE Seen[c] = "held" /\ Seen' = [Seen EXCEPT ![c] = how]
  BY <1>1, <1>2 DEF Ops!Next, Ops!Answer, Ops!GiveUp
<1>3. CASE Seen' = Seen
  BY <1>1, <1>3 DEF Ops!Next, Ops!RunsUnseen, Ops!vars
<1>4. QED
  BY <1>2, <1>3, SettleLemma DEF IInv, Settled

(* An operation that has not run is refused, or its caller has left.       *)
LEMMA RefuseLemma ==
  ASSUME IInv, NEW c \in Caller, runs[c] = 0, Settle({c}, "unavailable"),
         UNCHANGED <<runs, line>>
  PROVE  [Ops!Next]_Ops!vars
<1>1. CASE Seen[c] = "held" /\ Seen' = [Seen EXCEPT ![c] = "unavailable"]
  BY <1>1 DEF Ops!Next, Ops!Refuse
<1>2. CASE Seen' = Seen
  BY <1>2 DEF Ops!vars
<1>3. QED
  BY <1>1, <1>2, SettleLemma DEF IInv, Settled

(* Every step of the pool is a step that callers may see, or none.         *)
LEMMA StepLemma == IInv /\ [Next]_vars => [Ops!Next]_Ops!vars
<1> SUFFICES ASSUME IInv, [Next]_vars PROVE [Ops!Next]_Ops!vars
  OBVIOUS
<1>1. ASSUME UNCHANGED <<op, runs, line>> PROVE [Ops!Next]_Ops!vars
  BY <1>1 DEF Ops!vars, Seen
<1>2. CASE Continue \/ NoticeStop \/ Connect \/ OpenOk \/ OpenFails \/ QueueEmpty \/ Retry
  BY <1>1, <1>2 DEF Continue, NoticeStop, Connect, OpenOk, OpenFails, QueueEmpty, Retry
<1>3. CASE Take \/ TakeNothing \/ Quiet \/ ReopenOk \/ OpenGarbled \/ Die \/ Close
  BY <1>1, <1>3 DEF Take, TakeNothing, Quiet, ReopenOk, OpenGarbled, Die, Close
<1>4. ASSUME at \in Hand, NEW how \in {"done", "failed"}, Settle(job, how), line' = line,
             HasRun \/ (how # "done" /\ UNCHANGED runs)
      PROVE  [Ops!Next]_Ops!vars
  <2>1. PICK c \in Caller : InHand(c)
    BY <1>4 DEF IInv, JobInHand
  <2>2. Settle({c}, how)
    BY <1>4, <2>1 DEF InHand
  <2>3. QED
    BY <1>4, <2>1, <2>2, AnswerLemma
<1>5. CASE RunOk
  BY <1>4, <1>5 DEF RunOk, Hand
<1>6. CASE RunRaises \/ RunTimesOut \/ RerunFails
  BY <1>4, <1>6 DEF RunRaises, RunTimesOut, RerunFails, MayHaveRun, Hand
<1>7. CASE ReopenFails
  BY <1>4, <1>7 DEF ReopenFails, Hand
<1>8. CASE HungUp
  <2>1. PICK c \in Caller : InHand(c)
    BY <1>8 DEF HungUp, Hand, IInv, JobInHand
  <2>2. CASE HasRun
    <3>1. Ops!Runs(c)
      BY <2>1, <2>2, RunsLemma
    <3>2. Seen' = Seen /\ line' = line
      BY <1>8 DEF HungUp, Seen
    <3>3. QED
      BY <3>1, <3>2 DEF Ops!Next, Ops!RunsUnseen
  <2>3. CASE UNCHANGED runs
    BY <1>1, <1>8, <2>3 DEF HungUp
  <2>4. QED
    BY <1>8, <2>2, <2>3 DEF HungUp, MayHaveRun
<1>9. CASE SettleRaces
  <2>1. PICK c \in Caller : InHand(c)
    BY <1>9 DEF SettleRaces, Hand, IInv, JobInHand
  <2>2. op[c] = "queued" /\ op' = [op EXCEPT ![c] = "gaveUp"]
    BY <1>9, <2>1 DEF SettleRaces, InHand
  <2>3. Settle({c}, "gaveUp")
    BY <2>2 DEF Settle, IInv, TypeOK
  <2>4. QED
    BY <1>9, <2>1, <2>3, AnswerLemma DEF SettleRaces, MayHaveRun
<1>10. ASSUME NEW c \in Caller, GiveUp(c) PROVE [Ops!Next]_Ops!vars
  <2>1. Seen[c] = "held" /\ Seen' = [Seen EXCEPT ![c] = "gaveUp"] /\ UNCHANGED <<runs, line>>
    BY <1>10 DEF GiveUp, Seen, IInv, TypeOK
  <2>2. QED
    BY <2>1 DEF Ops!Next, Ops!GiveUp, Ops!Answer
<1>11. CASE FailRaces
  <2>1. Head(jobs) \in Caller
    BY <1>11, PopLemma DEF FailRaces
  <2>2. /\ Seen[Head(jobs)] = "held" /\ Seen' = [Seen EXCEPT ![Head(jobs)] = "gaveUp"]
        /\ UNCHANGED <<runs, line>>
    BY <1>11, <2>1 DEF FailRaces, Seen, IInv, TypeOK
  <2>3. QED
    BY <2>1, <2>2 DEF Ops!Next, Ops!GiveUp, Ops!Answer
<1>12. CASE FailQueued
  BY <1>12, PopLemma, RefuseLemma DEF FailQueued
<1>13. CASE Leave
  <2>1. CASE jobs # <<>>
    BY <1>13, <2>1, PopLemma, RefuseLemma DEF Leave
  <2>2. CASE jobs = <<>>
    BY <1>1, <1>13, <2>2 DEF Leave
  <2>3. QED
    BY <2>1, <2>2
<1>14. ASSUME NEW c \in Caller, FindKeeper(c) PROVE [Ops!Next]_Ops!vars
  <2>1. Seen[c] = "idle" /\ runs[c] = 0 /\ UNCHANGED <<runs, line>>
    BY <1>14 DEF FindKeeper, Asks, Seen, IInv, NotRun
  <2>2. Seen' = Seen \/ Seen' = [Seen EXCEPT ![c] = "unavailable"]
    BY <1>14 DEF FindKeeper, Asks, Seen, IInv, TypeOK
  <2>3. QED
    BY <2>1, <2>2 DEF Ops!Next, Ops!Refuse, Ops!vars
<1>15. ASSUME NEW c \in Caller, StartKeeper(c) PROVE [Ops!Next]_Ops!vars
  <2>1. Seen' = Seen /\ UNCHANGED <<runs, line>>
    BY <1>15 DEF StartKeeper, Asks, Seen, IInv, TypeOK
  <2>2. QED
    BY <2>1 DEF Ops!vars
<1>16. ASSUME NEW c \in Caller, Submit(c) PROVE [Ops!Next]_Ops!vars
  <2>1. Seen[c] = "idle" /\ runs[c] = 0 /\ UNCHANGED runs
    BY <1>16 DEF Submit, Seen, IInv, NotRun
  <2>2. \/ Seen' = [Seen EXCEPT ![c] = "held"] /\ line' = Append(line, c)
        \/ Seen' = [Seen EXCEPT ![c] = "unavailable"] /\ line' = line
    BY <1>16 DEF Submit, Seen, IInv, TypeOK
  <2>3. QED
    BY <2>1, <2>2 DEF Ops!Next, Ops!Accept, Ops!Refuse
<1>17. CASE UNCHANGED vars
  BY <1>1, <1>17 DEF vars
<1>18. QED
  BY <1>2, <1>3, <1>5, <1>6, <1>7, <1>8, <1>9, <1>10, <1>11, <1>12, <1>13, <1>14, <1>15,
     <1>16, <1>17
  DEF Next, Keep, Ask

-----------------------------------------------------------------------------
(* The queue, the operation in hand and the line of all that was ever      *)
(* queued belong together, whatever the connection goes through.           *)
THEOREM Inductive == Spec => []IInv
BY InitLemma, NextLemma, PTL DEF Spec

(* A caller that is told the frame is unavailable may ask elsewhere: its   *)
(* operation has not been executed.                                        *)
THEOREM UnavailableHolds == Spec => []UnavailableNeverRan
<1>1. IInv => UnavailableNeverRan
  BY DEF IInv, NotRun, UnavailableNeverRan
<1>2. QED
  BY <1>1, Inductive, PTL

(* The keeper implements the promise to its callers: hang-ups, the retry,  *)
(* releases, a thread that ends with an exception and its replacement are  *)
(* never seen as an operation out of turn, a third run, or a run after the *)
(* answer.                                                                 *)
THEOREM Implements == Spec => OneAtATime
<1>1. Init => Ops!Init
  BY DEF Init, Ops!Init, Seen
<1>2. QED
  BY <1>1, Inductive, StepLemma, PTL DEF Spec, OneAtATime, Ops!Spec
=============================================================================
