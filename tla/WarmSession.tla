---------------------------- MODULE WarmSession ----------------------------
(***************************************************************************)
(* The kept-warm control session to ONE frame: callers on the event loop   *)
(* hand operations to a keeper, a thread that owns the only connection,    *)
(* runs the operations in order and reconnects when the frame hangs up,    *)
(* which it does routinely.                                                *)
(*                                                                         *)
(* The loop and the thread run at the same time.  A caller finds the       *)
(* keeper, then queues its operation, without letting another caller in;   *)
(* the thread may take any number of steps in between.                     *)
(***************************************************************************)
EXTENDS Naturals, Sequences

CONSTANTS
  Caller,     \* each asks for one operation
  Quick,      \* the callers that are UI reads, with a short budget
  Releases,   \* frame_warm_idle_ttl > 0: an idle session is released
  MayClose    \* may the pool be closed while it is in use?

ASSUME CallerAssumption ==
  /\ Quick \subseteq Caller
  /\ {Releases, MayClose} \subseteq BOOLEAN

VARIABLES
  op,       \* caller -> how far its operation is
  runs,     \* caller -> how often the frame has executed it
  at,       \* where the keeper's thread is
  job,      \* the operation being run: a set of at most one caller
  jobs,     \* the keeper's queue
  status,   \* what the keeper tells about the frame
  stop,     \* the keeper has been told to stop
  line      \* the operations ever queued, in their order

vars == <<op, runs, at, job, jobs, status, stop, line>>

Settled == {"done", "failed", "unavailable", "gaveUp"}

TypeOK ==
  /\ op \in [Caller -> {"idle", "found", "queued"} \cup Settled]
  /\ runs \in [Caller -> Nat]
  /\ at \in {"opening", "connecting", "claiming", "offline", "pausing", "idle",
             "taking", "quiet", "running", "reopening", "rerunning", "leaving",
             "ended", "dead"}
  /\ job \in SUBSET Caller
  /\ jobs \in Seq(Caller)
  /\ status \in {"connecting", "live", "offline"}
  /\ stop \in BOOLEAN
  /\ line \in Seq(Caller)

Init ==
  /\ op = [c \in Caller |-> "idle"]
  /\ runs = [c \in Caller |-> 0]
  /\ at = "dead"                              \* never started
  /\ job = {} /\ jobs = <<>>
  /\ status = "connecting"
  /\ stop = FALSE
  /\ line = <<>>

(* A caller that gave up has cancelled its future: it is settled for good. *)
Settle(C, how) ==
  op' = [c \in Caller |-> IF c \in C /\ op[c] = "queued" THEN how ELSE op[c]]

(* The frame may execute an operation whose reply we never see.            *)
HasRun == runs' = [c \in Caller |-> IF c \in job THEN runs[c] + 1 ELSE runs[c]]
MayHaveRun == HasRun \/ UNCHANGED runs

-----------------------------------------------------------------------------
(* The event loop.                                                         *)

Asks(c) == op[c] = "idle" /\ (\A d \in Caller : op[d] # "found") /\ ~stop

FindKeeper(c) ==
  /\ Asks(c) /\ at # "dead"
  /\ op' = [op EXCEPT ![c] = IF c \in Quick /\ status = "offline"
                             THEN "unavailable" ELSE "found"]
  /\ UNCHANGED <<runs, at, job, jobs, status, stop, line>>

NewKeeper == at' = "opening" /\ jobs' = <<>> /\ job' = {} /\ status' = "connecting"

(* A keeper whose thread has ended is replaced by a new one.               *)
StartKeeper(c) ==
  /\ Asks(c) /\ at = "dead"
  /\ op' = [op EXCEPT ![c] = "found"]
  /\ NewKeeper
  /\ UNCHANGED <<runs, stop, line>>

Submit(c) ==
  /\ op[c] = "found"
  /\ \/ /\ op' = [op EXCEPT ![c] = "queued"]
        /\ jobs' = Append(jobs, c) /\ line' = Append(line, c)
     \/ stop /\ op' = [op EXCEPT ![c] = "unavailable"] /\ UNCHANGED <<jobs, line>>
  /\ UNCHANGED <<runs, at, job, status, stop>>

(* A quick read's budget is spent, which it reports as unavailable too, or  *)
(* the task that waits is cancelled.  Either cancels the future.           *)
GiveUp(c) ==
  /\ op[c] = "queued"
  /\ op' = [op EXCEPT ![c] = "gaveUp"]
  /\ UNCHANGED <<runs, at, job, jobs, status, stop, line>>

Close ==
  /\ MayClose /\ at # "dead"
  /\ stop' = TRUE
  /\ UNCHANGED <<op, runs, at, job, jobs, status, line>>

-----------------------------------------------------------------------------
(* The keeper's thread.                                                    *)

(* Between two operations, and before it connects, the thread looks        *)
(* whether it has been told to stop.                                       *)
Continue ==
  /\ ~stop
  /\ \/ at = "opening" /\ at' = "connecting"
     \/ at = "idle" /\ at' = "taking"
  /\ UNCHANGED <<op, runs, job, jobs, status, stop, line>>

NoticeStop ==
  /\ stop /\ at \in {"opening", "idle"}
  /\ at' = "leaving"
  /\ UNCHANGED <<op, runs, job, jobs, status, stop, line>>

Connect ==
  /\ at = "connecting"
  /\ at' = "claiming" /\ status' = "connecting"
  /\ UNCHANGED <<op, runs, job, jobs, stop, line>>

(* The frame has answered one read: its service tick is ours.              *)
OpenOk ==
  /\ at = "claiming"
  /\ at' = "idle" /\ status' = "live"
  /\ UNCHANGED <<op, runs, job, jobs, stop, line>>

(* Variant: the callers wait for the frame to come back.                   *)
OpenFailsKeepsQueue ==
  /\ at \in {"connecting", "claiming"}
  /\ at' = "pausing" /\ status' = "offline"
  /\ UNCHANGED <<op, runs, job, jobs, stop, line>>

OpenFails ==
  /\ at \in {"connecting", "claiming"}
  /\ at' = "offline" /\ status' = "offline"
  /\ UNCHANGED <<op, runs, job, jobs, stop, line>>

(* While the frame is unreachable, whatever is queued fails at once.       *)
FailQueued ==
  /\ at = "offline" /\ jobs # <<>>
  /\ Settle({Head(jobs)}, "unavailable")
  /\ jobs' = Tail(jobs)
  /\ UNCHANGED <<runs, at, job, status, stop, line>>

QueueEmpty ==
  /\ at = "offline" /\ jobs = <<>>
  /\ at' = "pausing"
  /\ UNCHANGED <<op, runs, job, jobs, status, stop, line>>

Retry ==
  /\ at = "pausing"
  /\ at' = "opening"
  /\ UNCHANGED <<op, runs, job, jobs, status, stop, line>>

(* An operation that was given up in the queue costs no round trip.        *)
Take ==
  /\ at = "taking" /\ jobs # <<>>
  /\ jobs' = Tail(jobs)
  /\ IF op[Head(jobs)] = "gaveUp"
     THEN at' = "quiet" /\ UNCHANGED job
     ELSE at' = "running" /\ job' = {Head(jobs)}
  /\ UNCHANGED <<op, runs, status, stop, line>>

TakeNothing ==
  /\ at = "taking" /\ jobs = <<>>
  /\ at' = "quiet"
  /\ UNCHANGED <<op, runs, job, jobs, status, stop, line>>

(* Nothing to do: reopen at once if the frame hung up, release the session *)
(* if it idled too long, else look at the queue again.                     *)
Quiet ==
  /\ at = "quiet"
  /\ \/ at' = "opening"
     \/ Releases /\ at' = "leaving"
     \/ at' = "idle"
  /\ UNCHANGED <<op, runs, job, jobs, status, stop, line>>

RunOk ==
  /\ at \in {"running", "rerunning"}
  /\ HasRun
  /\ Settle(job, "done")
  /\ at' = "idle" /\ job' = {}
  /\ UNCHANGED <<jobs, status, stop, line>>

(* The operation itself fails: on the first session, which stays.          *)
RunRaises ==
  /\ at = "running"
  /\ MayHaveRun
  /\ Settle(job, "failed")
  /\ at' = "idle" /\ job' = {}
  /\ UNCHANGED <<jobs, status, stop, line>>

(* No answer: the frame may have acted, so the operation is not repeated.  *)
RunTimesOut ==
  /\ at = "running"
  /\ MayHaveRun
  /\ Settle(job, "failed")
  /\ at' = "opening" /\ job' = {} /\ status' = "connecting"
  /\ UNCHANGED <<jobs, stop, line>>

(* The frame hung up in the middle: once more, on a fresh session.         *)
HungUp ==
  /\ at = "running"
  /\ MayHaveRun
  /\ at' = "reopening"
  /\ UNCHANGED <<op, job, jobs, status, stop, line>>

ReopenOk ==
  /\ at = "reopening"
  /\ at' = "rerunning" /\ status' = "live"
  /\ UNCHANGED <<op, runs, job, jobs, stop, line>>

(* Variant: the operation goes back into the queue.                        *)
ReopenFailsRequeues ==
  /\ at = "reopening"
  /\ jobs' = jobs \o <<CHOOSE c \in job : TRUE>>
  /\ at' = "opening" /\ job' = {} /\ status' = "offline"
  /\ UNCHANGED <<op, runs, stop, line>>

ReopenFails ==
  /\ at = "reopening"
  /\ Settle(job, "failed")
  /\ at' = "opening" /\ job' = {} /\ status' = "offline"
  /\ UNCHANGED <<runs, jobs, stop, line>>

(* Variant: a second hang-up is retried like the first.                    *)
RerunFailsAgain ==
  /\ at = "rerunning"
  /\ MayHaveRun
  /\ at' = "reopening"
  /\ UNCHANGED <<op, job, jobs, status, stop, line>>

(* One retry only.                                                         *)
RerunFails ==
  /\ at = "rerunning"
  /\ MayHaveRun
  /\ Settle(job, "failed")
  /\ at' = "opening" /\ job' = {}
  /\ UNCHANGED <<jobs, status, stop, line>>

(* Any other error in the claiming read ends the thread; an operation that *)
(* waits for the fresh session is then not answered at all.                *)
OpenGarbled ==
  /\ at \in {"claiming", "reopening"}
  /\ at' = "leaving" /\ job' = {}
  /\ UNCHANGED <<op, runs, jobs, status, stop, line>>

(* Between the look at a future and its settling the caller may give it    *)
(* up.  A result that comes too late is like any other failure of the      *)
(* operation; an error that comes too late ends the thread.                *)
SettleRaces ==
  /\ at \in {"running", "reopening", "rerunning"}
  /\ \E c \in job : op[c] = "queued" /\ op' = [op EXCEPT ![c] = "gaveUp"]
  /\ MayHaveRun /\ (at = "reopening" => UNCHANGED runs)
  /\ at' = "leaving" /\ job' = {}
  /\ UNCHANGED <<jobs, status, stop, line>>

FailRaces ==
  /\ at \in {"offline", "leaving"} /\ jobs # <<>> /\ op[Head(jobs)] = "queued"
  /\ op' = [op EXCEPT ![Head(jobs)] = "gaveUp"]
  /\ jobs' = Tail(jobs)
  /\ at' = IF at = "offline" THEN "leaving" ELSE "ended"
  /\ UNCHANGED <<runs, job, status, stop, line>>

(* The session is closed and what is still queued fails...                 *)
Leave ==
  /\ at = "leaving"
  /\ IF jobs # <<>>
     THEN Settle({Head(jobs)}, "unavailable") /\ jobs' = Tail(jobs) /\ UNCHANGED at
     ELSE at' = "ended" /\ UNCHANGED <<op, jobs>>
  /\ UNCHANGED <<runs, job, status, stop, line>>

(* ...and only then is the thread no longer alive.                         *)
Die ==
  /\ at = "ended"
  /\ at' = "dead"
  /\ UNCHANGED <<op, runs, job, jobs, status, stop, line>>

-----------------------------------------------------------------------------
Ask(c) == FindKeeper(c) \/ StartKeeper(c) \/ Submit(c)

Keep ==
  \/ Continue
  \/ NoticeStop
  \/ Connect
  \/ OpenOk
  \/ OpenFails
  \/ FailQueued
  \/ QueueEmpty
  \/ Retry
  \/ Take
  \/ TakeNothing
  \/ Quiet
  \/ RunOk
  \/ RunRaises
  \/ RunTimesOut
  \/ HungUp
  \/ ReopenOk
  \/ ReopenFails
  \/ RerunFails
  \/ OpenGarbled
  \/ SettleRaces
  \/ FailRaces
  \/ Leave
  \/ Die

Next ==
  \/ Keep
  \/ \E c \in Caller : Ask(c) \/ GiveUp(c)
  \/ Close

Spec == Init /\ [][Next]_vars

(* The thread runs on, the loop too; a connection attempt and an operation *)
(* end, in a timeout if need be.  Nothing makes a caller give up.           *)
Fairness == WF_vars(Keep) /\ \A c \in Caller : WF_vars(Submit(c))

FairSpec == Spec /\ Fairness

-----------------------------------------------------------------------------
(* Properties.                                                             *)

(* A caller whom the keeper tells that the frame is not available may      *)
(* safely ask again, at another address: its operation has not been        *)
(* executed.  (A quick read that runs out of its own budget is "gaveUp".)  *)
UnavailableNeverRan == \A c \in Caller : op[c] = "unavailable" => runs[c] = 0

(* The hang-ups, timeouts and retries of the connection stay hidden from   *)
(* the callers: a caller between finding the keeper and queueing has not   *)
(* asked yet, and the queue is the keeper's own affair.                    *)
Seen == [c \in Caller |-> IF op[c] = "found" THEN "idle"
                          ELSE IF op[c] = "queued" THEN "held" ELSE op[c]]
Ops == INSTANCE FrameOps WITH op <- Seen
OneAtATime == Ops!Spec

(* Every operation that the thread holds is answered, unless the thread    *)
(* ends: no caller waits for ever on a thread that lives.                  *)
Held(c) ==
  /\ op[c] = "queued" /\ at \notin {"ended", "dead"}
  /\ c \in job \/ \E i \in DOMAIN jobs : jobs[i] = c
EveryQueuedAnswered ==
  \A c \in Caller : Held(c) ~> (op[c] \in Settled \/ at = "ended")
=============================================================================
