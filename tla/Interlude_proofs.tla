------------------------- MODULE Interlude_proofs -------------------------
(***************************************************************************)
(* Proofs about Interlude, for any images, times, buffers' contents and    *)
(* number of hand-backs at once, with or without crashes, for frames that  *)
(* answer and for frames that fail to. ~Hasty is what the theorems assume: *)
(* no request arrives while a hand-back is under way. Without it the code  *)
(* breaks RestoreKnown itself: a release works on the row it read, and its *)
(* last save takes a newer engagement's restore data away.                 *)
(*                                                                         *)
(* None of the four properties is inductive. What makes them so is an      *)
(* agreement between the durable row and the copies of it that the tasks   *)
(* carry: the conductor's copy is the row in all that matters (InStep),    *)
(* every task that hands back carries the user's own settings              *)
(* (HandingBack), and tasks that hand back run alone (Alone), so no stale  *)
(* copy is ever saved over a newer row. On a frame that answers, an        *)
(* engaged row is at any time being conducted, restored or released        *)
(* (ReleaseRuns), and a hand-back that has come to its last buffer has     *)
(* cleaned the first (Cleaned), which is why nothing is left on the frame. *)
(*                                                                         *)
(* The types of line and streak are left out of Typed: no property depends *)
(* on them, and what the device does depends on task alone.                *)
(***************************************************************************)
EXTENDS Interlude, TLAPS

(* Where a task is that hands the frame back.                              *)
Standing == {"time", "shuffle", "look", "show", "eraseA", "eraseB"}

(* The types, as far as the proofs need them.                              *)
Typed ==
  /\ row \in Row
  /\ frame \in [time : Time \cup {Parked}, shuffle : BOOLEAN,
                screen : Slot \cup {"photo"}, file : [Slot -> Image \cup {None}]]
  /\ own \in [time : Time, shuffle : BOOLEAN]
  /\ asleep \in BOOLEAN /\ image \in Image \cup {None}
  /\ service \in {"down", "recovering", "up", "stopping"}
  /\ task \in [Tasks -> [at : Place, row : Row]]
  /\ cycle \in [data : Image \cup {None}, left : Int,
                read : [time : Time \cup {Parked}, shuffle : BOOLEAN]]

(* Row r has the user's own settings.                                      *)
Matches(r) == r.time = own.time /\ r.shuffle = own.shuffle

(* The row knows what the user had, or the frame still has it.             *)
RowTells ==
  IF row.engaged THEN Matches(row) ELSE AsTheUserHadIt /\ row.slot = None

(* Shuffle is only ever on when the user had it on.                        *)
ShuffleIsTheirs == frame.shuffle => own.shuffle

(* Two rows that agree in all but what the user sets.                      *)
SameBut(r, q) ==
  /\ r.engaged = q.engaged /\ r.time = q.time /\ r.shuffle = q.shuffle
  /\ r.slot = q.slot /\ r.hash = q.hash

(* The conductor's copy of the row agrees with the row, and says whether   *)
(* the frame is engaged.                                                   *)
InStep ==
  /\ task[C].at \notin {"none", "ready"} => SameBut(mine, row)
  /\ task[C].at \in {"config", "engage"} => ~mine.engaged
  /\ At(C, "engage") => Matches(cycle.read)
  /\ task[C].at \in {"park", "unshuffle", "photo", "upload", "dwell", "slot"} => mine.engaged
  /\ At(C, "slot") => mine.slot # None

(* Who hands back knows the user's own settings, and has put back those it *)
(* is past.                                                                *)
HandingBack ==
  \A t \in Tasks :
    /\ t # C => task[t].at \in Standing \cup {"none"}
    /\ task[t].at \in Standing => task[t].row.engaged /\ Matches(task[t].row)
    /\ At(t, "shuffle") => task[t].row.shuffle /\ frame.time = own.time
    /\ task[t].at \in {"look", "show", "eraseA", "eraseB"} => AsTheUserHadIt

(* Recovery and shutdown run without a conductor; so does a release, and   *)
(* nobody has enabled the interlude again while one is under way.          *)
Alone ==
  /\ service # "up" => At(C, "none")
  /\ service = "recovering" => ~At("restore", "none")
  /\ ~At("restore", "none") => service \in {"recovering", "stopping"}
  /\ \A t \in Release : ~At(t, "none") =>
       /\ At(C, "none") /\ service # "recovering"
       /\ service = "up" => ~row.enabled /\ ~task[t].row.enabled

(* First part: enough for RestoreKnown.                                    *)
Known == Typed /\ RowTells /\ ShuffleIsTheirs /\ InStep /\ HandingBack /\ Alone

-----------------------------------------------------------------------------
(* Places of the conductor at which an engaged frame is parked.            *)
Conducting == {"ready", "load", "panel", "photo", "upload", "dwell", "slot"}

(* A cycle that passed its vote holds an image.                            *)
HasImage ==
  task[C].at \in {"panel", "config", "engage", "park", "unshuffle", "photo", "upload", "dwell"}
    => cycle.data # None

(* The buffer that is on screen exists.                                    *)
ShownHeld == frame.screen \in Slot => frame.file[frame.screen] # None

(* An engaged frame is parked while it is conducted.                       *)
ParkedWhile ==
  /\ row.engaged /\ task[C].at \in Conducting => frame.time = Parked /\ ~frame.shuffle
  /\ At(C, "unshuffle") => frame.time = Parked

(* An engaged row without a conductor is being released.                   *)
ReleaseRuns ==
  service = "up" /\ At(C, "none") /\ row.engaged => \E t \in Release : ~At(t, "none")

(* The buffer that the row names holds what the row says.                  *)
SlotKept ==
  task[C].at \in Conducting \cup {"park", "unshuffle"} /\ row.slot # None
    => frame.file[row.slot] = row.hash

(* The first buffer is off the frame when the second comes up.             *)
Cleaned ==
  \A t \in Tasks : At(t, "eraseB") => frame.file["a"] = None

(* Second part: frames that answer.                                        *)
Answering == ~asleep => ParkedWhile /\ ReleaseRuns /\ SlotKept /\ Cleaned /\ NoTrace

(* The inductive invariant.                                                *)
IInv == Known /\ HasImage /\ ShownHeld /\ Answering

-----------------------------------------------------------------------------
(* The device's state.                                                     *)
FrameType ==
  [time : Time \cup {Parked}, shuffle : BOOLEAN,
   screen : Slot \cup {"photo"}, file : [Slot -> Image \cup {None}]]

(* Erasing a buffer leaves all else alone, but for the screen that shows   *)
(* it.                                                                     *)
LEMMA WithoutLemma ==
  ASSUME frame \in FrameType, NEW s \in Slot
  PROVE  /\ Without(s) \in FrameType
         /\ Without(s).time = frame.time /\ Without(s).shuffle = frame.shuffle
         /\ Without(s).file = [frame.file EXCEPT ![s] = None]
         /\ Without(s).screen = IF frame.screen = s THEN "photo" ELSE frame.screen
<1> DEFINE f == [frame EXCEPT !.file[s] = None]
<1>1. f \in FrameType /\ f.time = frame.time /\ f.shuffle = frame.shuffle
      /\ f.file = [frame.file EXCEPT ![s] = None] /\ f.screen = frame.screen
  BY DEF FrameType
<1>2. Without(s) = [f EXCEPT !.screen = IF frame.screen = s THEN "photo" ELSE frame.screen]
  BY DEF Without
<1> HIDE DEF f
<1>3. QED
  BY <1>1, <1>2 DEF FrameType

(* What an operation does to the device, field by field.                   *)
EffectFacts(t) ==
  /\ Effect(t) \in FrameType
  /\ Effect(t).time = IF At(t, "time") THEN task[t].row.time
                      ELSE IF At(t, "park") THEN Parked ELSE frame.time
  /\ Effect(t).shuffle = IF At(t, "shuffle") THEN TRUE
                         ELSE IF At(t, "unshuffle") THEN FALSE ELSE frame.shuffle
  /\ Effect(t).file = IF At(t, "eraseA") THEN [frame.file EXCEPT !["a"] = None]
                      ELSE IF At(t, "eraseB") THEN [frame.file EXCEPT !["b"] = None]
                      ELSE IF At(t, "upload")
                      THEN [frame.file EXCEPT ![Target(task[t].row)] = cycle.data]
                      ELSE frame.file
  /\ Effect(t).screen =
       IF At(t, "eraseA") THEN IF frame.screen = "a" THEN "photo" ELSE frame.screen
       ELSE IF At(t, "eraseB") THEN IF frame.screen = "b" THEN "photo" ELSE frame.screen
       ELSE IF At(t, "show") \/ At(t, "photo") THEN "photo"
       ELSE IF At(t, "slot") /\ frame.file[task[t].row.slot] # None THEN task[t].row.slot
       ELSE frame.screen

(* Effect does that.                                                       *)
LEMMA EffectLemma ==
  ASSUME Typed, InStep, NEW t \in Tasks, At(t, "slot") => task[t].row.slot # None
  PROVE  EffectFacts(t)
<1> USE DEF Typed, FrameType, At, Row, EffectFacts
<1>1. frame \in FrameType /\ task[t].row \in Row
  OBVIOUS
<1>2. CASE At(t, "time")
  <2>1. Effect(t) = [frame EXCEPT !.time = task[t].row.time]
    BY <1>2, Zenon DEF Effect
  <2>2. QED
    BY <1>1, <1>2, <2>1 DEF Slot, Target
<1>3. CASE At(t, "shuffle")
  <2>1. Effect(t) = [frame EXCEPT !.shuffle = TRUE]
    BY <1>3, Zenon DEF Effect
  <2>2. QED
    BY <1>1, <1>3, <2>1 DEF Slot, Target
<1>4. CASE At(t, "show")
  <2>1. Effect(t) = [frame EXCEPT !.screen = "photo"]
    BY <1>4, Zenon DEF Effect
  <2>2. QED
    BY <1>1, <1>4, <2>1 DEF Slot, Target
<1>5. CASE At(t, "eraseA")
  <2>1. Effect(t) = Without("a")
    BY <1>5, Zenon DEF Effect
  <2>2. QED
    BY <1>1, <1>5, <2>1, WithoutLemma DEF Slot
<1>6. CASE At(t, "eraseB")
  <2>1. Effect(t) = Without("b")
    BY <1>6, Zenon DEF Effect
  <2>2. QED
    BY <1>1, <1>6, <2>1, WithoutLemma DEF Slot
<1>7. CASE At(t, "park")
  <2>1. Effect(t) = [frame EXCEPT !.time = Parked]
    BY <1>7, Zenon DEF Effect
  <2>2. QED
    BY <1>1, <1>7, <2>1 DEF Slot, Target
<1>8. CASE At(t, "unshuffle")
  <2>1. Effect(t) = [frame EXCEPT !.shuffle = FALSE]
    BY <1>8, Zenon DEF Effect
  <2>2. QED
    BY <1>1, <1>8, <2>1 DEF Slot, Target
<1>9. CASE At(t, "photo")
  <2>1. Effect(t) = [frame EXCEPT !.screen = "photo"]
    BY <1>9, Zenon DEF Effect
  <2>2. QED
    BY <1>1, <1>9, <2>1 DEF Slot, Target
<1>10. CASE At(t, "upload")
  <2>1. Effect(t) = [frame EXCEPT !.file[Target(task[t].row)] = cycle.data]
    BY <1>10, Zenon DEF Effect
  <2>2. QED
    BY <1>1, <1>10, <2>1 DEF Slot, Target
<1>11. CASE At(t, "slot")
  <2>1. Effect(t) = [frame EXCEPT !.screen = IF frame.file[task[t].row.slot] # None
                                          THEN task[t].row.slot ELSE @]
    BY <1>11, Zenon DEF Effect
  <2>2. QED
    BY <1>1, <1>11, <2>1 DEF Slot, Target
<1>12. CASE task[t].at \notin {"time", "shuffle", "show", "eraseA", "eraseB", "park",
                               "unshuffle", "photo", "upload", "slot"}
  <2>1. Effect(t) = frame
    BY <1>12, Zenon DEF Effect
  <2>2. QED
    BY <1>1, <1>12, <2>1
<1>13. QED
  BY <1>2, <1>3, <1>4, <1>5, <1>6, <1>7, <1>8, <1>9, <1>10, <1>11, <1>12

-----------------------------------------------------------------------------
(* The conductor, recovery and the releases are different tasks.           *)
LEMMA TasksLemma == C \in Tasks /\ "restore" \in Tasks /\ Release \subseteq Tasks /\ "restore" # C
                    /\ C \notin Release /\ "restore" \notin Release
BY NameAssumption DEF Tasks, C

(* A fresh row is a row, neither engaged nor with a buffer.                *)
LEMMA FreshLemma == Fresh \in Row /\ Fresh.slot = None /\ ~Fresh.engaged
BY ChoiceAssumption, TimeAssumption DEF Fresh, Row, Slot

(* A task that shows the slot knows which buffer it is.                    *)
LEMMA EffectKnownLemma ==
  ASSUME Known, NEW t \in Tasks
  PROVE At(t, "slot") => task[t].row.slot # None
BY DEF Known, HandingBack, InStep, Standing, At, mine

(* The tasks.                                                              *)
TaskType == [Tasks -> [at : Place, row : Row]]

(* Task t is at p with row r now, and no other task has moved.             *)
Moved(t, p, r) ==
  /\ task' \in TaskType
  /\ task'[t].at = p /\ task'[t].row = r
  /\ \A u \in Tasks \ {t} : task'[u] = task[u]

(* GotoWith moves one task.                                                *)
LEMMA GotoLemma ==
  ASSUME task \in TaskType, NEW t \in Tasks, NEW p \in Place, NEW r \in Row, GotoWith(t, p, r)
  PROVE  Moved(t, p, r)
BY DEF GotoWith, Moved, TaskType

(* So does Ends: the conductor back to its poll, others nowhere.           *)
LEMMA EndsLemma ==
  ASSUME task \in TaskType, NEW t \in Tasks, Ends(t)
  PROVE  Moved(t, IF t = C THEN "ready" ELSE "none", Fresh)
<1>1. Ready \in [at : Place, row : Row] /\ Idle \in [at : Place, row : Row]
  BY FreshLemma DEF Ready, Idle, Place
<1>2. QED
  BY <1>1 DEF Ends, Moved, TaskType, Ready, Idle, C

(* The service goes on when recovery or shutdown is over.                  *)
ServiceFollows(t, p) ==
  service' = IF t = "restore" /\ p = "none"
             THEN IF service = "recovering" THEN "up" ELSE "down" ELSE service

(* Where task t may go next.                                               *)
GoesTo(t, p, r) ==
  /\ t # C => p \in Standing \cup {"none"}
  /\ t = C => p # "none"
  /\ p \in Standing => r.engaged /\ Matches(r)
  /\ p = "shuffle" => r.shuffle /\ frame'.time = own.time
  /\ p \in {"look", "show", "eraseA", "eraseB"} => AsTheUserHadIt'
  /\ p # "none" /\ t # C => r = task[t].row

(* Settings of the user that are back in force stay so.                    *)
FrameKept ==
  /\ frame.time = own.time => frame'.time = own.time
  /\ AsTheUserHadIt => AsTheUserHadIt'

(* A task that goes where it may go, leaving the device and the row in     *)
(* order, preserves all of Known: each action establishes the hypotheses.  *)
LEMMA TaskStepLemma ==
  ASSUME Known, NEW t \in Tasks, ~At(t, "none"), NEW p, NEW r, Moved(t, p, r),
         GoesTo(t, p, r), ServiceFollows(t, p), t = C \/ FrameKept,
         t = C \/ row'.enabled \in {row.enabled, task[t].row.enabled},
         Typed', RowTells', ShuffleIsTheirs', UNCHANGED own,
         t = C => InStep'
  PROVE  Known'
<1> USE TasksLemma DEF Known, At
<1>1. \A u \in Tasks \ {t} : task'[u] = task[u]
  BY DEF Moved
<1>2. task'[t].at = p /\ task'[t].row = r
  BY DEF Moved
<1>3. t = C => \A u \in Tasks \ {C} : task[u].at = "none"
  BY DEF Alone, Tasks, C
<1>4. t # C => task[C].at = "none"
  BY DEF Alone, Tasks, C
<1>5. InStep'
  BY <1>1, <1>4 DEF InStep, mine
<1>6. HandingBack'
  <2> SUFFICES ASSUME NEW u \in Tasks
               PROVE (/\ u # C => task[u].at \in Standing \cup {"none"}
                      /\ task[u].at \in Standing => task[u].row.engaged /\ Matches(task[u].row)
                      /\ At(u, "shuffle") => task[u].row.shuffle /\ frame.time = own.time
                      /\ task[u].at \in {"look", "show", "eraseA", "eraseB"} => AsTheUserHadIt)'
    BY DEF HandingBack
  <2>1. CASE u = t
    BY <1>2, <2>1 DEF GoesTo, Matches
  <2>2. CASE u # t /\ t # C
    BY <1>1, <2>2 DEF HandingBack, Matches, FrameKept
  <2>3. CASE u # t /\ t = C
    BY <1>1, <1>3, <2>3 DEF Standing
  <2>4. QED
    BY <2>1, <2>2, <2>3
<1>7. Alone'
  <2>1. CASE t = C
    BY <1>1, <1>2, <1>3, <2>1 DEF Alone, ServiceFollows, GoesTo
  <2>2. CASE t = "restore"
    BY <1>1, <1>2, <1>4, <2>2 DEF Alone, ServiceFollows
  <2>3. CASE t \in Release
    <3>1. t # C /\ t # "restore" /\ service' = service
      BY <2>3 DEF ServiceFollows
    <3>2. service # "recovering" /\ (service = "up" => ~row'.enabled /\ ~task[t].row.enabled)
      BY <2>3, <3>1 DEF Alone
    <3>3. task'[C] = task[C] /\ task'["restore"] = task["restore"] /\ At(C, "none")
      BY <1>1, <1>4, <3>1
    <3>4. \A u \in Release : ~At(u, "none")' =>
            (service = "up" => ~row'.enabled /\ ~task'[u].row.enabled)
      <4> SUFFICES ASSUME NEW u \in Release, ~At(u, "none")', service = "up"
                   PROVE  ~row'.enabled /\ ~task'[u].row.enabled
        OBVIOUS
      <4>1. CASE u = t
        BY <1>2, <3>1, <3>2, <4>1 DEF GoesTo
      <4>2. CASE u # t
        BY <1>1, <3>2, <4>2 DEF Alone
      <4>3. QED
        BY <4>1, <4>2
    <3>5. QED
      BY <3>1, <3>2, <3>3, <3>4 DEF Alone
  <2>4. QED
    BY <2>1, <2>2, <2>3 DEF Tasks, C
<1>8. QED
  BY <1>5, <1>6, <1>7

(* Where a task is when its work is over.                                  *)
EndOf(t) == IF t = C THEN "ready" ELSE "none"

(* The conductor's locals.                                                 *)
CycleType ==
  [data : Image \cup {None}, left : Int, read : [time : Time \cup {Parked}, shuffle : BOOLEAN]]

(* The conductor's locals when it has no cycle.                            *)
LEMMA NoCycleLemma == NoCycle \in CycleType
BY TimeAssumption DEF NoCycle, CycleType

(* A step of a task that stands down: on to the next place, or to the end  *)
(* with the row as it was or not engaged any more.                         *)
(* Known survives a step of a hand-back: on to the next operation, given   *)
(* up, or ended with the row no longer engaged.                            *)
LEMMA StandingStepLemma ==
  ASSUME Known, NEW t \in Tasks, task[t].at \in Standing, NEW p, NEW r, Moved(t, p, r),
         \/ p \in Standing /\ r = task[t].row /\ row' = row
         \/ p = EndOf(t) /\ r = Fresh /\ row' = row
         \/ /\ p = EndOf(t) /\ r = Fresh
            /\ row' \in Row /\ ~row'.engaged /\ row'.slot = None /\ AsTheUserHadIt'
            /\ row'.enabled = task[t].row.enabled,
         p = "shuffle" => task[t].row.shuffle /\ frame'.time = own.time,
         p \in {"look", "show", "eraseA", "eraseB"} => AsTheUserHadIt',
         frame' \in FrameType, FrameKept, ShuffleIsTheirs',
         ServiceFollows(t, p), cycle' \in {cycle, NoCycle},
         UNCHANGED <<own, asleep, image>>
  PROVE  Known'
<1>1. GoesTo(t, p, r)
  <2>1. task[t].row.engaged /\ Matches(task[t].row)
    BY DEF Known, HandingBack
  <2>2. EndOf(t) \notin Standing /\ EndOf(t) \notin {"shuffle", "look", "show", "eraseA", "eraseB"}
    BY DEF EndOf, Standing
  <2>3. "none" \notin Standing /\ (t # C => EndOf(t) = "none") /\ (t = C => EndOf(t) = "ready")
    BY DEF EndOf, Standing
  <2>4. QED
    BY <2>1, <2>2, <2>3 DEF GoesTo
<1>2. Typed'
  BY NoCycleLemma
     DEF Known, Typed, Moved, TaskType, FrameType, CycleType, ServiceFollows
<1>3. RowTells'
  BY DEF Known, RowTells, FrameKept, Matches
<1>4. t = C => InStep'
  <2> SUFFICES ASSUME t = C PROVE InStep'
    OBVIOUS
  <2>1. SameBut(mine, row)
    BY DEF Known, InStep, Standing
  <2>2. task'[C].at = p /\ task'[C].row = r
    BY DEF Moved
  <2>3. CASE p \in Standing
    BY <2>1, <2>2, <2>3 DEF InStep, Standing, mine, SameBut, EndOf, At
  <2>4. CASE p = EndOf(C)
    BY <2>2, <2>4 DEF InStep, mine, EndOf, At
  <2>5. QED
    BY <2>3, <2>4
<1>5. ~At(t, "none")
  BY DEF At, Standing
<1>6. t = C \/ row'.enabled \in {row.enabled, task[t].row.enabled}
  OBVIOUS
<1>7. QED
  BY <1>1, <1>2, <1>3, <1>4, <1>5, <1>6, TaskStepLemma DEF Known

(* Each step of a stand-down.                                              *)
(* Every action of a hand-back is such a step.                             *)
LEMMA StandLemma ==
  ASSUME Known, NEW t \in Tasks, Standdown(t)
  PROVE  Known'
<1> DEFINE Same == frame' \in FrameType /\ frame'.time = frame.time /\ frame'.shuffle = frame.shuffle
           Else == UNCHANGED <<own, asleep, image>> /\ cycle' \in {cycle, NoCycle}
           Mine == task[t].row.engaged /\ Matches(task[t].row)
<1>1. EffectFacts(t)
  BY EffectLemma, EffectKnownLemma DEF Known
<1>2. frame \in FrameType /\ own.shuffle \in BOOLEAN
  BY DEF Known, Typed, FrameType
<1>3. task[t].row \in Row /\ task \in TaskType
  BY DEF Known, Typed, TaskType
<1>4. {"shuffle", "look", "show", "eraseA", "eraseB"} \subseteq Place \cap Standing
  BY DEF Place, Awaiting, Standing
<1>5. task[t].at \in Standing => Mine
  BY DEF Known, HandingBack
<1>6. (Same => FrameKept /\ ShuffleIsTheirs') \/ own' # own
  BY DEF Known, FrameKept, AsTheUserHadIt, ShuffleIsTheirs
<1>7. CASE RestoreTime(t)
  <2> DEFINE p == IF task[t].row.shuffle THEN "shuffle" ELSE "look"
  <2>1. Moved(t, p, task[t].row) /\ p \in Standing /\ At(t, "time")
    BY <1>3, <1>4, <1>7, GotoLemma DEF RestoreTime, Goto, AtDevice
  <2>2. Else /\ row' = row /\ ServiceFollows(t, p)
    BY <1>4, <1>7 DEF RestoreTime, env, ServiceFollows, Standing
  <2>3. frame' \in FrameType /\ frame'.time = own.time /\ frame'.shuffle = frame.shuffle
    BY <1>1, <1>2, <1>5, <1>7, <2>1 DEF RestoreTime, EffectFacts, At, Standing, Matches
  <2>4. FrameKept /\ ShuffleIsTheirs'
    BY <1>2, <1>5, <1>6, <2>1, <2>2, <2>3
       DEF FrameKept, AsTheUserHadIt, ShuffleIsTheirs, Known, At, Standing, Matches
  <2>5. /\ p = "shuffle" => task[t].row.shuffle /\ frame'.time = own.time
        /\ p \in {"look", "show", "eraseA", "eraseB"} => AsTheUserHadIt'
    BY <1>2, <1>5, <2>1, <2>2, <2>3
       DEF Known, HandingBack, At, AsTheUserHadIt, Matches, Standing, ShuffleIsTheirs,
           FrameType
  <2>6. QED
    BY <2>1, <2>2, <2>3, <2>4, <2>5, StandingStepLemma DEF At, Standing
<1>8. CASE RestoreShuffle(t)
  <2> DEFINE p == "look"
  <2>1. Moved(t, p, task[t].row) /\ p \in Standing /\ At(t, "shuffle")
    BY <1>3, <1>4, <1>8, GotoLemma DEF RestoreShuffle, Goto, AtDevice
  <2>2. Else /\ row' = row /\ ServiceFollows(t, p)
    BY <1>4, <1>8 DEF RestoreShuffle, env, ServiceFollows, Standing
  <2>3. frame' \in FrameType /\ frame'.time = frame.time /\ frame'.shuffle /\ own.shuffle
    BY <1>1, <1>2, <1>5, <1>8, <2>1
       DEF RestoreShuffle, EffectFacts, At, Standing, Matches, Known, HandingBack
  <2>4. FrameKept /\ ShuffleIsTheirs'
    BY <1>2, <1>5, <1>6, <2>1, <2>2, <2>3
       DEF FrameKept, AsTheUserHadIt, ShuffleIsTheirs, Known, At, Standing, Matches
  <2>5. AsTheUserHadIt'
    BY <1>2, <1>5, <2>1, <2>2, <2>3
       DEF Known, HandingBack, At, AsTheUserHadIt, Matches, Standing, ShuffleIsTheirs,
           FrameType
  <2>6. QED
    BY <2>1, <2>2, <2>3, <2>4, <2>5, StandingStepLemma DEF At, Standing
<1>9. CASE Look(t)
  <2> DEFINE p == IF frame.screen \in Slot THEN "show" ELSE "eraseA"
  <2>1. Moved(t, p, task[t].row) /\ p \in Standing /\ At(t, "look")
    BY <1>3, <1>4, <1>9, GotoLemma DEF Look, Goto, AtDevice
  <2>2. Else /\ row' = row /\ ServiceFollows(t, p)
    BY <1>4, <1>9 DEF Look, env, ServiceFollows, Standing
  <2>3. Same
    BY <1>1, <1>2, <1>5, <1>9, <2>1 DEF Look, EffectFacts, At, Standing, Matches
  <2>4. FrameKept /\ ShuffleIsTheirs'
    BY <1>2, <1>5, <1>6, <2>1, <2>2, <2>3
       DEF FrameKept, AsTheUserHadIt, ShuffleIsTheirs, Known, At, Standing, Matches
  <2>5. AsTheUserHadIt'
    BY <1>2, <1>5, <2>1, <2>2, <2>3
       DEF Known, HandingBack, At, AsTheUserHadIt, Matches, Standing, ShuffleIsTheirs,
           FrameType
  <2>6. QED
    BY <2>1, <2>2, <2>3, <2>4, <2>5, StandingStepLemma DEF At, Standing
<1>10. CASE ShowPhoto(t)
  <2> DEFINE p == "eraseA"
  <2>1. Moved(t, p, task[t].row) /\ p \in Standing /\ At(t, "show")
    BY <1>3, <1>4, <1>10, GotoLemma DEF ShowPhoto, Goto, AtDevice
  <2>2. Else /\ row' = row /\ ServiceFollows(t, p)
    BY <1>4, <1>10 DEF ShowPhoto, env, ServiceFollows, Standing
  <2>3. Same
    BY <1>1, <1>2, <1>5, <1>10, <2>1 DEF ShowPhoto, EffectFacts, At, Standing, Matches
  <2>4. FrameKept /\ ShuffleIsTheirs'
    BY <1>2, <1>5, <1>6, <2>1, <2>2, <2>3
       DEF FrameKept, AsTheUserHadIt, ShuffleIsTheirs, Known, At, Standing, Matches
  <2>5. AsTheUserHadIt'
    BY <1>2, <1>5, <2>1, <2>2, <2>3
       DEF Known, HandingBack, At, AsTheUserHadIt, Matches, Standing, ShuffleIsTheirs,
           FrameType
  <2>6. QED
    BY <2>1, <2>2, <2>3, <2>4, <2>5, StandingStepLemma DEF At, Standing
<1>11. CASE EraseA(t)
  <2> DEFINE p == "eraseB"
  <2>1. Moved(t, p, task[t].row) /\ p \in Standing /\ At(t, "eraseA")
    BY <1>3, <1>4, <1>11, GotoLemma DEF EraseA, Goto, AtDevice
  <2>2. Else /\ row' = row /\ ServiceFollows(t, p)
    BY <1>4, <1>11 DEF EraseA, env, ServiceFollows, Standing
  <2>3. Same
    BY <1>1, <1>2, <1>5, <1>11, <2>1 DEF EraseA, EffectFacts, At, Standing, Matches
  <2>4. FrameKept /\ ShuffleIsTheirs'
    BY <1>2, <1>5, <1>6, <2>1, <2>2, <2>3
       DEF FrameKept, AsTheUserHadIt, ShuffleIsTheirs, Known, At, Standing, Matches
  <2>5. AsTheUserHadIt'
    BY <1>2, <1>5, <2>1, <2>2, <2>3
       DEF Known, HandingBack, At, AsTheUserHadIt, Matches, Standing, ShuffleIsTheirs,
           FrameType
  <2>6. QED
    BY <2>1, <2>2, <2>3, <2>4, <2>5, StandingStepLemma DEF At, Standing
<1>12. CASE EraseB(t)
  <2>1. Moved(t, EndOf(t), Fresh) /\ At(t, "eraseB")
    BY <1>3, <1>12, EndsLemma DEF EraseB, EndOf, AtDevice
  <2>2. Same
    BY <1>1, <1>2, <1>12, <2>1 DEF EraseB, EffectFacts, At
  <2>3. /\ row' \in Row /\ ~row'.engaged /\ row'.slot = None
        /\ row'.enabled = task[t].row.enabled
    BY <1>3, <1>12 DEF EraseB, Save, Row
  <2>4. Else /\ ServiceFollows(t, EndOf(t))
    BY <1>12, TasksLemma DEF EraseB, Ends, ServiceFollows, EndOf, env
  <2>5. FrameKept /\ ShuffleIsTheirs' /\ AsTheUserHadIt'
    BY <1>6, <2>1, <2>2, <2>4 DEF Known, HandingBack, At, FrameKept
  <2>6. EndOf(t) \notin {"shuffle", "look", "show", "eraseA", "eraseB"}
    BY DEF EndOf
  <2>7. QED
    BY <2>1, <2>2, <2>3, <2>4, <2>5, <2>6, StandingStepLemma DEF At, Standing
<1>13. CASE StandDownFails(t)
  <2>1. frame' \in {frame, Effect(t)} /\ row' = row /\ UNCHANGED <<own, asleep, image>>
    BY <1>13 DEF StandDownFails, Executed, env
  <2>2. CASE (At(t, "time") \/ At(t, "shuffle")) /\ Ends(t)
    <3>1. Moved(t, EndOf(t), Fresh)
      BY <1>3, <2>2, EndsLemma DEF EndOf
    <3>2. Else /\ ServiceFollows(t, EndOf(t))
      BY <2>1, <2>2, TasksLemma DEF Ends, ServiceFollows, EndOf
    <3>3. /\ frame' \in FrameType /\ frame'.time \in {frame.time, own.time}
          /\ frame'.shuffle \in {frame.shuffle, own.shuffle}
      BY <1>1, <1>2, <1>5, <2>1, <2>2
         DEF EffectFacts, At, Standing, Matches, Known, HandingBack
    <3>4. FrameKept /\ ShuffleIsTheirs'
      BY <1>2, <2>1, <3>3 DEF FrameKept, AsTheUserHadIt, ShuffleIsTheirs, Known
    <3>5. EndOf(t) \notin {"shuffle", "look", "show", "eraseA", "eraseB"}
      BY DEF EndOf
    <3>6. QED
      BY <2>1, <2>2, <3>1, <3>2, <3>3, <3>4, <3>5, StandingStepLemma DEF At, Standing
  <2>3. CASE /\ At(t, "look") \/ At(t, "show")
             /\ Goto(t, "eraseA") /\ UNCHANGED <<service, cycle>>
    <3>1. Moved(t, "eraseA", task[t].row)
      BY <1>3, <1>4, <2>3, GotoLemma DEF Goto
    <3>2. Same
      BY <1>1, <1>2, <2>1, <2>3 DEF EffectFacts, At
    <3>3. FrameKept /\ ShuffleIsTheirs' /\ AsTheUserHadIt'
      BY <1>6, <2>1, <2>3, <3>2 DEF FrameKept, Known, HandingBack, At
    <3>4. ServiceFollows(t, "eraseA")
      BY <2>3 DEF ServiceFollows
    <3>5. QED
      BY <1>4, <2>1, <2>3, <3>1, <3>2, <3>3, <3>4, StandingStepLemma DEF At, Standing
  <2>4. QED
    BY <1>13, <2>2, <2>3 DEF StandDownFails, AtDevice
<1>14. QED
  BY <1>7, <1>8, <1>9, <1>10, <1>11, <1>12, <1>13 DEF Standdown
-----------------------------------------------------------------------------
(* The conductor's steps.                                                  *)

(* Known survives a step of the conductor that keeps its copy of the row   *)
(* in step.                                                                *)
LEMMA ConductorStepLemma ==
  ASSUME Known, ~At(C, "none"), NEW p \in Place \ {"none"}, NEW r \in Row, Moved(C, p, r),
         p \in Standing => p = "time" /\ r.engaged /\ Matches(r),
         row' \in Row, frame' \in FrameType, cycle' \in CycleType,
         RowTells', ShuffleIsTheirs', InStep',
         UNCHANGED <<own, asleep, image, service>>
  PROVE  Known'
<1>1. GoesTo(C, p, r)
  BY DEF GoesTo, Standing
<1>2. ServiceFollows(C, p)
  BY TasksLemma DEF ServiceFollows
<1>3. Typed'
  BY DEF Known, Typed, Moved, TaskType, FrameType, CycleType
<1>4. QED
  BY <1>1, <1>2, <1>3, TasksLemma, TaskStepLemma

(* A conductor without a cycle is in step.                                 *)
LEMMA ConductorEndsLemma ==
  ASSUME Known, ~At(C, "none"), Ends(C)
  PROVE  /\ Moved(C, "ready", Fresh) /\ cycle' \in CycleType /\ service' = service
         /\ InStep'
<1>1. Moved(C, "ready", Fresh)
  BY EndsLemma, TasksLemma DEF Known, Typed, TaskType
<1>2. cycle' = NoCycle /\ service' = service
  BY TasksLemma DEF Ends, C
<1>3. InStep'
  BY <1>1 DEF Moved, InStep, At
<1>4. QED
  BY <1>1, <1>2, <1>3, NoCycleLemma

(* A conductor may always hand its frame back.                             *)
LEMMA StandDownLemma ==
  ASSUME Known, ~At(C, "none"), NEW r \in Row, SameBut(r, row), StandDown(C, r),
         UNCHANGED <<frame, own, asleep, image>>
  PROVE  Known'
<1>1. /\ frame \in FrameType /\ cycle \in CycleType /\ row \in Row /\ task \in TaskType
      /\ {"time", "ready"} \subseteq Place \ {"none"}
  BY DEF Known, Typed, FrameType, CycleType, TaskType, Place, Awaiting
<1>2. CASE r.engaged
  <2>1. GotoWith(C, "time", r) /\ UNCHANGED <<row, service, cycle>>
    BY <1>2 DEF StandDown
  <2>2. Moved(C, "time", r)
    BY <1>1, <2>1, TasksLemma, GotoLemma
  <2>3. Matches(r)
    BY <1>2 DEF Known, RowTells, SameBut, Matches
  <2>4. RowTells' /\ ShuffleIsTheirs'
    BY <2>1 DEF Known, RowTells, ShuffleIsTheirs, AsTheUserHadIt, Matches
  <2>5. InStep'
    BY <2>1, <2>2 DEF Moved, InStep, At, mine, SameBut
  <2>6. QED
    BY <1>1, <1>2, <2>1, <2>2, <2>3, <2>4, <2>5, ConductorStepLemma
<1>3. CASE ~r.engaged
  <2>1. row' \in {row, r} /\ Ends(C)
    BY <1>3 DEF StandDown
  <2>2. RowTells' /\ ShuffleIsTheirs'
    BY <1>3, <2>1 DEF Known, RowTells, ShuffleIsTheirs, AsTheUserHadIt, Matches, SameBut
  <2>3. "ready" \notin Standing
    BY DEF Standing
  <2>4. QED
    BY <1>1, <2>1, <2>2, <2>3, FreshLemma, ConductorEndsLemma, ConductorStepLemma
<1>4. QED
  BY <1>2, <1>3

(* Every action of the conductor preserves Known.                          *)
LEMMA ConductLemma ==
  ASSUME Known, Conduct
  PROVE  Known'
<1>1. EffectFacts(C)
  BY EffectLemma, EffectKnownLemma, TasksLemma DEF Known
<1>2. /\ frame \in FrameType /\ cycle \in CycleType /\ row \in Row /\ task \in TaskType
      /\ own \in [time : Time, shuffle : BOOLEAN] /\ mine \in Row /\ C \in Tasks
  BY TasksLemma DEF Known, Typed, FrameType, CycleType, TaskType, mine
<1>3. {"time", "ready", "load", "panel", "config", "engage", "park", "unshuffle", "photo",
       "upload", "dwell", "slot"} \subseteq Place \ {"none"}
  BY DEF Place, Awaiting
<1>4. {"ready", "load", "panel", "config", "engage", "park", "unshuffle", "photo",
       "upload", "dwell", "slot"} \cap Standing = {}
  BY DEF Standing
<1>5. SameBut(row, row)
  BY DEF SameBut
<1>6. (row' = row /\ frame'.time = frame.time /\ frame'.shuffle = frame.shuffle /\ own' = own)
      => RowTells' /\ ShuffleIsTheirs'
  BY DEF Known, RowTells, ShuffleIsTheirs, AsTheUserHadIt, Matches
<1>7. /\ task[C].at \notin {"none", "ready"} => SameBut(mine, row)
      /\ task[C].at \in {"config", "engage"} => ~mine.engaged
      /\ At(C, "engage") => Matches(cycle.read)
      /\ task[C].at \in {"park", "unshuffle", "photo", "upload", "dwell", "slot"} => mine.engaged
      /\ At(C, "slot") => mine.slot # None
  BY DEF Known, InStep
<1> DEFINE Same == frame' \in FrameType /\ frame'.time = frame.time /\ frame'.shuffle = frame.shuffle
           Else == UNCHANGED <<own, asleep, image, service>>
<1>8. CASE Poll
  <2>1. At(C, "ready") /\ UNCHANGED <<frame, own, asleep, image>>
    BY <1>8 DEF Poll, env
  <2>2. CASE row.enabled
    <3>1. GotoWith(C, "load", row) /\ UNCHANGED <<row, service, cycle>>
      BY <1>8, <2>2 DEF Poll
    <3>2. Moved(C, "load", row)
      BY <1>2, <1>3, <3>1, GotoLemma
    <3>3. InStep'
      BY <3>1, <3>2 DEF Moved, InStep, At, mine, SameBut
    <3>4. QED
      BY <1>2, <1>3, <1>4, <1>6, <2>1, <3>1, <3>2, <3>3, ConductorStepLemma DEF At
  <2>3. CASE ~row.enabled
    BY <1>2, <1>5, <1>8, <2>1, <2>3, StandDownLemma DEF Poll, At
  <2>4. QED
    BY <2>2, <2>3
<1>9. CASE Load
  <2>1. At(C, "load") /\ UNCHANGED <<frame, own, asleep, image>>
    BY <1>9 DEF Load, env
  <2>2. PICK data \in Loaded :
          \/ StandDown(C, mine)
          \/ Ends(C) /\ UNCHANGED row
          \/ Goto(C, "panel") /\ cycle' = [cycle EXCEPT !.data = data] /\ UNCHANGED <<row, service>>
    BY <1>9 DEF Load
  <2>3. CASE StandDown(C, mine)
    BY <1>2, <1>7, <2>1, <2>3, StandDownLemma DEF At
  <2>4. CASE Ends(C) /\ UNCHANGED row
    BY <1>2, <1>3, <1>4, <1>6, <2>1, <2>4, FreshLemma, ConductorEndsLemma,
       ConductorStepLemma
       DEF At
  <2>5. CASE Goto(C, "panel") /\ cycle' = [cycle EXCEPT !.data = data] /\ UNCHANGED <<row, service>>
    <3>1. Moved(C, "panel", mine)
      BY <1>2, <1>3, <2>5, GotoLemma DEF Goto, mine
    <3>2. cycle' \in CycleType
      BY <1>2, <2>5 DEF CycleType, Loaded, Known, Typed
    <3>3. InStep'
      BY <1>7, <2>1, <2>5, <3>1 DEF Moved, InStep, At, mine, SameBut
    <3>4. QED
      BY <1>2, <1>3, <1>4, <1>6, <2>1, <2>5, <3>1, <3>2, <3>3, ConductorStepLemma DEF At
  <2>6. QED
    BY <2>2, <2>3, <2>4, <2>5
<1>10. CASE Panel
  <2>1. At(C, "panel") /\ UNCHANGED <<frame, own, asleep, image>>
    BY <1>10 DEF Panel, env, AtDevice
  <2>2. CASE StandDown(C, mine)
    BY <1>2, <1>7, <2>1, <2>2, StandDownLemma DEF At
  <2>3. CASE /\ Goto(C, IF mine.engaged THEN "photo" ELSE "config")
             /\ cycle' = [cycle EXCEPT !.left = mine.every] /\ UNCHANGED <<row, service>>
    <3> DEFINE p == IF mine.engaged THEN "photo" ELSE "config"
    <3>1. Moved(C, p, mine)
      BY <1>2, <1>3, <2>3, GotoLemma DEF Goto, mine
    <3>2. cycle' \in CycleType
      BY <1>2, <2>3, ChoiceAssumption DEF CycleType, Row
    <3>3. InStep'
      BY <1>7, <2>1, <2>3, <3>1 DEF Moved, InStep, At, mine, SameBut
    <3>4. QED
      BY <1>2, <1>3, <1>4, <1>6, <2>1, <2>3, <3>1, <3>2, <3>3, ConductorStepLemma DEF At
  <2>4. QED
    BY <1>10, <2>2, <2>3 DEF Panel
<1>11. CASE ReadConfig
  <2> DEFINE p == "engage"
  <2>1. /\ p \in Place \ ({"none"} \cup Standing) /\ At(C, "config") /\ Else
    BY <1>3, <1>4, <1>11 DEF ReadConfig, AtDevice, env
  <2>2. /\ Same /\ row' = row
        /\ cycle' \in CycleType /\ cycle'.read.time = frame.time /\ cycle'.read.shuffle = frame.shuffle
    BY <1>1, <1>2, <1>7, <1>11, <2>1
       DEF ReadConfig, EffectFacts, At, Save, Executed, AtDevice, CycleType, FrameType
  <2>3. Moved(C, p, mine)
    BY <1>2, <1>11, <2>1, <2>2, GotoLemma DEF ReadConfig, Goto, mine
  <2>4. RowTells' /\ ShuffleIsTheirs'
    BY <1>2, <1>6, <1>7, <2>1, <2>2
       DEF Known, RowTells, ShuffleIsTheirs, AsTheUserHadIt, Matches, At, SameBut
  <2>5. InStep'
    BY <1>2, <1>6, <1>7, <2>1, <2>2, <2>3
       DEF Moved, InStep, At, mine, SameBut, Matches, Known, RowTells, AsTheUserHadIt
  <2>6. QED
    BY <1>2, <2>1, <2>2, <2>3, <2>4, <2>5, ConductorStepLemma DEF At
<1>12. CASE Engage
  <2> DEFINE p == "park"
  <2>1. /\ p \in Place \ ({"none"} \cup Standing) /\ At(C, "engage") /\ Else
    BY <1>3, <1>4, <1>12 DEF Engage, AtDevice, env
  <2>2. /\ Same /\ row' \in Row /\ row'.engaged /\ Matches(row')
        /\ cycle' = cycle
    <3>1. Matches(cycle.read)
      BY <1>7, <2>1
    <3>2. (IF ParkIsNever /\ cycle.read.time = Parked THEN Default ELSE cycle.read.time) = own.time
      BY <1>2, <3>1, TimeAssumption DEF Matches
    <3>3. row' = [mine EXCEPT !.engaged = TRUE, !.shuffle = own.shuffle, !.time = own.time]
      BY <1>12, <3>1, <3>2 DEF Engage, Save, Matches
    <3>4. Same /\ cycle' = cycle
      BY <1>2, <1>12 DEF Engage, env
    <3>5. QED
      BY <1>2, <3>3, <3>4 DEF Row, Matches
  <2>3. Moved(C, p, row')
    BY <1>2, <1>12, <2>1, <2>2, GotoLemma DEF Engage, Goto, mine
  <2>4. RowTells' /\ ShuffleIsTheirs'
    BY <1>2, <1>6, <1>7, <2>1, <2>2
       DEF Known, RowTells, ShuffleIsTheirs, AsTheUserHadIt, Matches, At, SameBut
  <2>5. InStep'
    BY <1>2, <1>6, <1>7, <2>1, <2>2, <2>3
       DEF Moved, InStep, At, mine, SameBut, Matches, Known, RowTells, AsTheUserHadIt
  <2>6. QED
    BY <1>2, <2>1, <2>2, <2>3, <2>4, <2>5, ConductorStepLemma DEF At
<1>13. CASE Park
  <2> DEFINE p == IF mine.shuffle THEN "unshuffle" ELSE "photo"
  <2>1. /\ p \in Place \ ({"none"} \cup Standing) /\ At(C, "park") /\ Else
    BY <1>3, <1>4, <1>13 DEF Park, AtDevice, env
  <2>2. /\ frame' \in FrameType /\ frame'.shuffle = frame.shuffle /\ row' = row
        /\ cycle' = cycle
    BY <1>1, <1>2, <1>7, <1>13, <2>1 DEF Park, EffectFacts, At, Save, Executed, AtDevice
  <2>3. Moved(C, p, mine)
    BY <1>2, <1>13, <2>1, <2>2, GotoLemma DEF Park, Goto, mine
  <2>4. RowTells' /\ ShuffleIsTheirs'
    BY <1>2, <1>6, <1>7, <2>1, <2>2
       DEF Known, RowTells, ShuffleIsTheirs, AsTheUserHadIt, Matches, At, SameBut
  <2>5. InStep'
    BY <1>2, <1>6, <1>7, <2>1, <2>2, <2>3
       DEF Moved, InStep, At, mine, SameBut, Matches, Known, RowTells, AsTheUserHadIt
  <2>6. QED
    BY <1>2, <2>1, <2>2, <2>3, <2>4, <2>5, ConductorStepLemma DEF At
<1>14. CASE Unshuffle
  <2> DEFINE p == "photo"
  <2>1. /\ p \in Place \ ({"none"} \cup Standing) /\ At(C, "unshuffle") /\ Else
    BY <1>3, <1>4, <1>14 DEF Unshuffle, AtDevice, env
  <2>2. /\ frame' \in FrameType /\ ~frame'.shuffle /\ row' = row
        /\ cycle' = cycle
    BY <1>1, <1>2, <1>7, <1>14, <2>1
       DEF Unshuffle, EffectFacts, At, Save, Executed, AtDevice
  <2>3. Moved(C, p, mine)
    BY <1>2, <1>14, <2>1, <2>2, GotoLemma DEF Unshuffle, Goto, mine
  <2>4. RowTells' /\ ShuffleIsTheirs'
    BY <1>2, <1>6, <1>7, <2>1, <2>2
       DEF Known, RowTells, ShuffleIsTheirs, AsTheUserHadIt, Matches, At, SameBut
  <2>5. InStep'
    BY <1>2, <1>6, <1>7, <2>1, <2>2, <2>3
       DEF Moved, InStep, At, mine, SameBut, Matches, Known, RowTells, AsTheUserHadIt
  <2>6. QED
    BY <1>2, <2>1, <2>2, <2>3, <2>4, <2>5, ConductorStepLemma DEF At
<1>15. CASE Photo
  <2> DEFINE p == IF mine.slot # None /\ mine.hash = cycle.data THEN "dwell" ELSE "upload"
  <2>1. /\ p \in Place \ ({"none"} \cup Standing) /\ At(C, "photo") /\ Else
    BY <1>3, <1>4, <1>15 DEF Photo, AtDevice, env
  <2>2. /\ Same /\ row' = mine
        /\ cycle' \in CycleType
    BY <1>1, <1>2, <1>7, <1>15, <2>1
       DEF Photo, EffectFacts, At, Save, Executed, AtDevice, CycleType
  <2>3. Moved(C, p, mine)
    BY <1>2, <1>15, <2>1, <2>2, GotoLemma DEF Photo, Goto, mine
  <2>4. RowTells' /\ ShuffleIsTheirs'
    BY <1>2, <1>6, <1>7, <2>1, <2>2
       DEF Known, RowTells, ShuffleIsTheirs, AsTheUserHadIt, Matches, At, SameBut
  <2>5. InStep'
    BY <1>2, <1>6, <1>7, <2>1, <2>2, <2>3
       DEF Moved, InStep, At, mine, SameBut, Matches, Known, RowTells, AsTheUserHadIt
  <2>6. QED
    BY <1>2, <2>1, <2>2, <2>3, <2>4, <2>5, ConductorStepLemma DEF At
<1>16. CASE Upload
  <2> DEFINE p == "dwell"
  <2>1. /\ p \in Place \ ({"none"} \cup Standing) /\ At(C, "upload") /\ Else
    BY <1>3, <1>4, <1>16 DEF Upload, AtDevice, env
  <2>2. /\ Same /\ row' \in Row /\ row'.engaged /\ Matches(row')
        /\ cycle' = cycle
    BY <1>1, <1>2, <1>7, <1>16, <2>1
       DEF Upload, EffectFacts, At, Save, Executed, AtDevice, Row, CycleType, Matches,
           Target, Slot, SameBut, Known, RowTells
  <2>3. Moved(C, p, row')
    BY <1>2, <1>16, <2>1, <2>2, GotoLemma DEF Upload, Goto, mine
  <2>4. RowTells' /\ ShuffleIsTheirs'
    BY <1>2, <1>6, <1>7, <2>1, <2>2
       DEF Known, RowTells, ShuffleIsTheirs, AsTheUserHadIt, Matches, At, SameBut
  <2>5. InStep'
    BY <1>2, <1>6, <1>7, <2>1, <2>2, <2>3
       DEF Moved, InStep, At, mine, SameBut, Matches, Known, RowTells, AsTheUserHadIt
  <2>6. QED
    BY <1>2, <2>1, <2>2, <2>3, <2>4, <2>5, ConductorStepLemma DEF At
<1>17. CASE UploadFails
  <2> DEFINE p == "dwell"
  <2>1. /\ p \in Place \ ({"none"} \cup Standing) /\ At(C, "upload") /\ Else
    BY <1>3, <1>4, <1>17 DEF UploadFails, AtDevice, env
  <2>2. /\ Same /\ row' = row
        /\ cycle' = cycle
    BY <1>1, <1>2, <1>7, <1>17, <2>1
       DEF UploadFails, EffectFacts, At, Save, Executed, AtDevice
  <2>3. Moved(C, p, mine)
    BY <1>2, <1>17, <2>1, <2>2, GotoLemma DEF UploadFails, Goto, mine
  <2>4. RowTells' /\ ShuffleIsTheirs'
    BY <1>2, <1>6, <1>7, <2>1, <2>2
       DEF Known, RowTells, ShuffleIsTheirs, AsTheUserHadIt, Matches, At, SameBut
  <2>5. InStep'
    BY <1>2, <1>6, <1>7, <2>1, <2>2, <2>3
       DEF Moved, InStep, At, mine, SameBut, Matches, Known, RowTells, AsTheUserHadIt
  <2>6. QED
    BY <1>2, <2>1, <2>2, <2>3, <2>4, <2>5, ConductorStepLemma DEF At
<1>18. CASE Dwell
  <2>1. At(C, "dwell") /\ UNCHANGED <<row, frame, own, asleep, image>>
    BY <1>18 DEF Dwell, env
  <2>2. ASSUME NEW p \in {"photo", "slot"}, Goto(C, p), p = "slot" => mine.slot # None,
               UNCHANGED <<service, cycle>>
        PROVE  Known'
    <3>1. Moved(C, p, mine)
      BY <1>2, <1>3, <2>2, GotoLemma DEF Goto, mine
    <3>2. InStep'
      BY <1>7, <2>1, <2>2, <3>1 DEF Moved, InStep, At, mine, SameBut
    <3>3. QED
      BY <1>2, <1>3, <1>4, <1>6, <2>1, <2>2, <3>1, <3>2, ConductorStepLemma DEF At
  <2>3. CASE Ends(C)
    BY <1>2, <1>3, <1>4, <1>6, <2>1, <2>3, FreshLemma, ConductorEndsLemma,
       ConductorStepLemma
       DEF At
  <2>4. QED
    BY <1>18, <2>2, <2>3 DEF Dwell
<1>19. CASE ShowSlot
  <2>1. /\ At(C, "slot") /\ Ends(C) /\ UNCHANGED <<row, own, asleep, image>>
    BY <1>19 DEF ShowSlot, env, AtDevice
  <2>2. Same
    BY <1>1, <1>19, <2>1 DEF ShowSlot, EffectFacts, At
  <2>3. QED
    BY <1>2, <1>3, <1>4, <1>6, <2>1, <2>2, FreshLemma, ConductorEndsLemma,
       ConductorStepLemma
       DEF At
<1>20. CASE CycleFails
  <2>1. /\ task[C].at \in {"panel", "config", "park", "unshuffle", "photo", "slot"}
        /\ Ends(C) /\ UNCHANGED <<row, own, asleep, image>> /\ frame' \in {frame, Effect(C)}
    BY <1>20 DEF CycleFails, env, AtDevice, At, Executed
  <2>2. frame' \in FrameType /\ (frame'.shuffle => frame.shuffle)
    BY <1>1, <1>2, <2>1 DEF EffectFacts, At
  <2>3. row.engaged \/ Same
    <3>1. CASE task[C].at = "panel" \/ task[C].at = "config"
      <4>1. Effect(C).time = frame.time /\ Effect(C).shuffle = frame.shuffle
        BY <1>1, <3>1 DEF EffectFacts, At
      <4>2. QED
        BY <2>1, <2>2, <4>1
    <3>2. CASE task[C].at \in {"park", "unshuffle", "photo", "slot"}
      BY <1>2, <1>7, <3>2 DEF SameBut, Row
    <3>3. QED
      BY <2>1, <3>1, <3>2
  <2>4. RowTells' /\ ShuffleIsTheirs'
    BY <1>6, <2>1, <2>2, <2>3 DEF Known, RowTells, ShuffleIsTheirs, Matches
  <2>5. QED
    BY <1>2, <1>3, <1>4, <2>1, <2>2, <2>4, FreshLemma, ConductorEndsLemma,
       ConductorStepLemma
       DEF At
<1>21. QED
  BY <1>8, <1>9, <1>10, <1>11, <1>12, <1>13, <1>14, <1>15, <1>16, <1>17, <1>18, <1>19, <1>20
     DEF Conduct
-----------------------------------------------------------------------------
(* The service.                                                            *)

(* An operation that a cancelled or dead task leaves behind never turns on *)
(* a shuffle that is not the user's, and undoes the user's settings only   *)
(* when the conductor asked for it under an engaged row.                   *)
LEMMA EffectMildLemma ==
  ASSUME Known, NEW t \in Tasks, NEW f \in Executed(t)
  PROVE  /\ f \in FrameType
         /\ f.shuffle => own.shuffle
         /\ At(t, "none") => f = frame
         /\ row.engaged \/ t # C \/ (f.time = frame.time /\ f.shuffle = frame.shuffle)
         /\ t # C => /\ frame.time = own.time => f.time = own.time
                     /\ AsTheUserHadIt => f.time = own.time /\ f.shuffle = own.shuffle
<1>1. EffectFacts(t) /\ frame \in FrameType /\ own.shuffle \in BOOLEAN /\ row \in Row /\ mine \in Row
  BY EffectLemma, EffectKnownLemma, TasksLemma DEF Known, Typed, FrameType, mine
<1>2. f = frame \/ f = Effect(t)
  BY DEF Executed
<1>3. At(t, "none") => Effect(t) = frame
  <2>1. SUFFICES ASSUME task[t].at = "none" PROVE Effect(t) = frame
    BY DEF At
  <2>2. QED
    BY <2>1, Zenon DEF Effect, At
<1>4. task[t].at \in Standing => Matches(task[t].row)
  BY DEF Known, HandingBack
<1>5. At(t, "shuffle") => task[t].row.shuffle
  BY DEF Known, HandingBack
<1>6. Effect(t).shuffle => own.shuffle
  BY <1>1, <1>4, <1>5 DEF EffectFacts, Known, ShuffleIsTheirs, Matches, At, Standing
<1>7. t = C => row.engaged \/ (Effect(t).time = frame.time /\ Effect(t).shuffle = frame.shuffle)
  <2>1. SUFFICES ASSUME t = C, ~row.engaged
                 PROVE  Effect(t).time = frame.time /\ Effect(t).shuffle = frame.shuffle
    OBVIOUS
  <2>2. task[C].at \notin {"time", "shuffle", "park", "unshuffle"}
    BY <1>1, <2>1 DEF Known, InStep, SameBut, Row, HandingBack, Standing, mine
  <2>3. QED
    BY <1>1, <2>1, <2>2 DEF EffectFacts, At
<1>8. t # C => task[t].at \in Standing \cup {"none"}
  BY DEF Known, HandingBack
<1>9. t # C => /\ frame.time = own.time => Effect(t).time = own.time
               /\ AsTheUserHadIt => Effect(t).time = own.time /\ Effect(t).shuffle = own.shuffle
  BY <1>1, <1>3, <1>4, <1>5, <1>8 DEF EffectFacts, At, Standing, Matches, AsTheUserHadIt
<1>10. QED
  <2>1. f \in FrameType
    BY <1>1, <1>2 DEF EffectFacts
  <2>2. (f.shuffle => own.shuffle) /\ (At(t, "none") => f = frame)
    BY <1>2, <1>3, <1>6 DEF Known, ShuffleIsTheirs
  <2>3. row.engaged \/ t # C \/ (f.time = frame.time /\ f.shuffle = frame.shuffle)
    BY <1>2, <1>7
  <2>4. t # C => /\ frame.time = own.time => f.time = own.time
                 /\ AsTheUserHadIt => f.time = own.time /\ f.shuffle = own.shuffle
    BY <1>2, <1>9 DEF AsTheUserHadIt
  <2>5. QED
    BY <2>1, <2>2, <2>3, <2>4

(* Starting a conductor, or cancelling one for a release, preserves Known. *)
LEMMA SyncLemma ==
  ASSUME Known, service = "up", row' \in Row, SameBut(row', row), Sync(row'),
         row'.enabled = row.enabled \/ \A t \in Release : At(t, "none"),
         image' \in Image \cup {None},
         UNCHANGED <<own, asleep, service>>
  PROVE  Known'
<1>1. /\ frame \in FrameType /\ cycle \in CycleType /\ row \in Row /\ task \in TaskType
      /\ Ready \in [at : Place, row : Row] /\ Idle \in [at : Place, row : Row]
      /\ [at |-> "time", row |-> row'] \in [at : Place, row : Row]
  BY FreshLemma
     DEF Known, Typed, FrameType, CycleType, TaskType, Place, Awaiting, Ready, Idle
<1>2. At("restore", "none")
  BY DEF Known, Alone
<1>3. task' \in Synced(row')
  BY DEF Sync
<1>4. CASE row'.enabled /\ At(C, "none")
  <2>1. task' = [task EXCEPT ![C] = Ready] /\ UNCHANGED <<frame, cycle>>
    BY <1>4 DEF Sync, Synced, Cancelled
  <2>2. task' \in TaskType /\ At(C, "ready")' /\ \A u \in Tasks \ {C} : task'[u] = task[u]
    BY <1>1, <2>1, TasksLemma DEF TaskType, At, Ready
  <2>3. \A u \in Release : At(u, "none")
    BY <1>4 DEF Known, Alone
  <2>4. Typed'
    BY <2>1, <2>2 DEF Known, Typed, TaskType
  <2>5. RowTells' /\ ShuffleIsTheirs'
    BY <2>1 DEF Known, RowTells, ShuffleIsTheirs, AsTheUserHadIt, Matches, SameBut
  <2>6. InStep'
    BY <2>2 DEF InStep, At
  <2>7. HandingBack'
    BY <1>2, <2>2, <2>3, TasksLemma DEF HandingBack, At, Standing, Tasks, C
  <2>8. Alone'
    BY <1>2, <2>2, <2>3, TasksLemma DEF Alone, At
  <2>9. QED
    BY <2>4, <2>5, <2>6, <2>7, <2>8 DEF Known
<1>5. CASE Cancelled(row'.enabled)
  <2>1. PICK t \in Release :
          /\ At(t, "none")
          /\ task' = [task EXCEPT ![C] = Idle,
                        ![t] = IF row'.engaged THEN [at |-> "time", row |-> row'] ELSE Idle]
    BY <1>3, <1>5 DEF Synced, Cancelled
  <2>2. frame' \in Executed(C) /\ cycle' = NoCycle
    BY <1>5 DEF Sync
  <2>3. /\ task' \in TaskType /\ At(C, "none")' /\ \A u \in Tasks \ {C, t} : task'[u] = task[u]
        /\ task'[t] = IF row'.engaged THEN [at |-> "time", row |-> row'] ELSE Idle
    BY <1>1, <2>1, TasksLemma DEF TaskType, At, Idle
  <2>4. ~At(C, "none") /\ ~row'.enabled /\ \A u \in Release : At(u, "none")
    BY <1>5 DEF Cancelled, Known, Alone
  <2>5. /\ frame' \in FrameType /\ (frame'.shuffle => own.shuffle)
        /\ row.engaged \/ (frame'.time = frame.time /\ frame'.shuffle = frame.shuffle)
    BY <2>2, EffectMildLemma, TasksLemma
  <2>6. Typed'
    BY <2>2, <2>3, <2>5, NoCycleLemma DEF Known, Typed, TaskType, FrameType, CycleType
  <2>7. RowTells' /\ ShuffleIsTheirs'
    BY <2>5 DEF Known, RowTells, ShuffleIsTheirs, AsTheUserHadIt, Matches, SameBut
  <2>8. InStep'
    BY <2>3 DEF InStep, At
  <2>9. HandingBack'
    <3>1. row'.engaged => Matches(row)'
      BY <2>7 DEF RowTells
    <3>2. \A u \in Tasks \ {t} : task'[u].at = "none"
      BY <1>2, <2>3, <2>4, TasksLemma DEF At, Tasks, C
    <3>3. \/ row'.engaged /\ task'[t].at = "time" /\ task'[t].row = row'
          \/ task'[t].at = "none"
      BY <2>3 DEF Idle
    <3>4. QED
      BY <3>1, <3>2, <3>3, TasksLemma DEF HandingBack, At, Standing, Matches
  <2>10. Alone'
    <3>1. At("restore", "none")'
      BY <1>2, <2>3, TasksLemma DEF At
    <3>2. \A u \in Release : ~At(u, "none")' => ~task'[u].row.enabled
      BY <2>3, <2>4, TasksLemma DEF At, Idle
    <3>3. QED
      BY <2>3, <2>4, <3>1, <3>2 DEF Alone
  <2>11. QED
    BY <2>6, <2>7, <2>8, <2>9, <2>10 DEF Known
<1>6. CASE ~(row'.enabled /\ At(C, "none")) /\ ~Cancelled(row'.enabled)
  <2>1. UNCHANGED <<task, frame, cycle>>
    BY <1>3, <1>6 DEF Sync, Synced
  <2>2. Typed'
    BY <2>1 DEF Known, Typed
  <2>3. RowTells' /\ ShuffleIsTheirs'
    BY <2>1 DEF Known, RowTells, ShuffleIsTheirs, AsTheUserHadIt, Matches, SameBut
  <2>4. InStep'
    BY <2>1 DEF Known, InStep, SameBut, mine, At, Matches
  <2>5. HandingBack'
    BY <2>1 DEF Known, HandingBack, At, Matches, AsTheUserHadIt
  <2>6. Alone'
    BY <2>1 DEF Known, Alone, At
  <2>7. QED
    BY <2>2, <2>3, <2>4, <2>5, <2>6 DEF Known
<1>7. QED
  BY <1>4, <1>5, <1>6

(* So do the supervisor and requests, where no hand-back is disturbed by a *)
(* request.                                                                *)
LEMMA ServiceLemma ==
  ASSUME ~Hasty, Known, Supervise \/ Request
  PROVE  Known'
<1>1. row \in Row /\ SameBut(row, row) /\ image \in Image \cup {None}
  BY DEF Known, Typed, SameBut
<1>2. CASE Supervise
  BY <1>1, <1>2, SyncLemma DEF Supervise, env
<1>3. ASSUME Serving, Calm
      PROVE  service = "up" /\ \A t \in Release : At(t, "none")
  BY <1>3 DEF Serving, Calm, Known, Alone
<1>4. ASSUME NEW e \in Enables, NEW n \in Every, SetInterlude(e, n)
      PROVE  Known'
  <2>1. row' = [row EXCEPT !.enabled = e, !.every = n] /\ Sync(row') /\ e \in BOOLEAN
    BY <1>4, ChoiceAssumption DEF SetInterlude, Save
  <2>2. row' \in Row /\ SameBut(row', row)
    BY <1>1, <2>1 DEF Row, SameBut
  <2>3. QED
    BY <1>1, <1>3, <1>4, <2>1, <2>2, SyncLemma DEF SetInterlude
<1>5. ASSUME NEW i \in Published \cup {None}, PutImage(i)
      PROVE  Known'
  <2>1. i \in Image \cup {None}
    BY ChoiceAssumption DEF Published
  <2>2. row' = row /\ Sync(row')
    BY <1>5 DEF PutImage
  <2>3. QED
    BY <1>1, <1>3, <1>5, <2>1, <2>2, SyncLemma DEF PutImage
<1>6. QED
  BY <1>2, <1>4, <1>5 DEF Request

(* So do the producer, the panel and the frame's own slideshow.            *)
LEMMA WorldLemma ==
  ASSUME Known, World
  PROVE  Known'
<1>1. UNCHANGED <<row, own, asleep, service, task, cycle>>
  BY DEF World, WriteImage, SwitchPanel, Advance, env
<1>2. image' \in Image \cup {None}
  BY ChoiceAssumption
     DEF World, WriteImage, SwitchPanel, Advance, env, Published, Known, Typed
<1>3. frame' \in FrameType /\ frame'.time = frame.time /\ frame'.shuffle = frame.shuffle
  BY DEF World, WriteImage, SwitchPanel, Advance, Known, Typed, FrameType
<1>4. QED
  BY <1>1, <1>2, <1>3
     DEF Known, Typed, RowTells, ShuffleIsTheirs, InStep, HandingBack, Alone,
     FrameType, AsTheUserHadIt, Matches, SameBut, mine, At

(* So do a clean stop, a crash at any point, and a start.                  *)
LEMMA ProcessLemma ==
  ASSUME Known, Stop \/ Crash \/ Start
  PROVE  Known'
<1>1. /\ frame \in FrameType /\ cycle \in CycleType /\ row \in Row /\ task \in TaskType
      /\ Idle \in [at : Place, row : Row] /\ [at |-> "time", row |-> row] \in [at : Place, row : Row]
  BY FreshLemma DEF Known, Typed, FrameType, CycleType, TaskType, Place, Awaiting, Idle
<1>2. UNCHANGED <<row, own, asleep, image>> /\ cycle' \in {cycle, NoCycle}
  BY DEF Stop, Crash, Start, env
<1>3. ASSUME frame' \in FrameType, ShuffleIsTheirs', task' \in TaskType,
             service' \in {"down", "recovering", "up", "stopping"},
             row.engaged \/ (AsTheUserHadIt => AsTheUserHadIt'),
             At(C, "none")', HandingBack', Alone'
      PROVE  Known'
  <2>1. Typed'
    BY <1>2, <1>3, NoCycleLemma DEF Known, Typed, FrameType, TaskType, CycleType
  <2>2. RowTells'
    BY <1>2, <1>3 DEF Known, RowTells, Matches
  <2>3. InStep'
    BY <1>3 DEF InStep, At
  <2>4. QED
    BY <1>3, <2>1, <2>2, <2>3 DEF Known
<1>4. row.engaged => Matches(row)
  BY DEF Known, RowTells
<1>5. CASE Stop
  <2> DEFINE again == IF row.engaged THEN [at |-> "time", row |-> row] ELSE Idle
  <2>1. /\ task' \in TaskType /\ At(C, "none")' /\ task'["restore"] = again
        /\ \A u \in Release : task'[u] = task[u]
    BY <1>1, <1>5, TasksLemma DEF Stop, TaskType, At, Idle
  <2>2. frame' \in Executed(C) \cup Executed("restore") /\ service' = IF row.engaged THEN "stopping" ELSE "down"
    BY <1>5 DEF Stop
  <2>3. /\ frame' \in FrameType /\ ShuffleIsTheirs'
        /\ row.engaged \/ (AsTheUserHadIt => AsTheUserHadIt')
    BY <1>2, <2>2, EffectMildLemma, TasksLemma DEF ShuffleIsTheirs, AsTheUserHadIt
  <2>4. (\E u \in Release : ~At(u, "none")) => FrameKept
    BY <1>2, <2>2, EffectMildLemma, TasksLemma
       DEF Known, Alone, FrameKept, AsTheUserHadIt
  <2>5. HandingBack'
    <3>1. task'[C].at = "none" /\ (task'["restore"].at = "none" \/
            (task'["restore"].at = "time" /\ task'["restore"].row = row /\ row.engaged))
      BY <2>1 DEF At, Idle
    <3>2. ASSUME NEW u \in Release
          PROVE (/\ task[u].at \in Standing \cup {"none"}
                 /\ task[u].at \in Standing => task[u].row.engaged /\ Matches(task[u].row)
                 /\ At(u, "shuffle") => task[u].row.shuffle /\ frame.time = own.time
                 /\ task[u].at \in {"look", "show", "eraseA", "eraseB"} => AsTheUserHadIt)'
      BY <1>2, <2>1, <2>4, TasksLemma DEF Known, HandingBack, At, FrameKept, Matches
    <3>3. QED
      BY <1>2, <1>4, <3>1, <3>2, TasksLemma
         DEF HandingBack, Tasks, C, At, Standing, Matches
  <2>6. Alone'
    BY <1>1, <2>1, <2>2 DEF Alone, At, Idle
  <2>7. QED
    BY <1>3, <2>1, <2>2, <2>3, <2>5, <2>6
<1>6. CASE Crash
  <2>1. task' \in TaskType /\ \A u \in Tasks : task'[u].at = "none"
    BY <1>1, <1>6 DEF Crash, TaskType, Idle
  <2>2. PICK t \in Tasks : frame' \in Executed(t)
    BY <1>6 DEF Crash
  <2>3. /\ frame' \in FrameType /\ ShuffleIsTheirs'
        /\ row.engaged \/ (AsTheUserHadIt => AsTheUserHadIt')
    BY <1>2, <2>2, EffectMildLemma DEF ShuffleIsTheirs, AsTheUserHadIt
  <2>4. service' = "down"
    BY <1>6 DEF Crash
  <2>5. HandingBack' /\ Alone' /\ At(C, "none")'
    BY <2>1, <2>4, TasksLemma DEF HandingBack, Alone, At, Standing
  <2>6. QED
    BY <1>3, <2>1, <2>3, <2>4, <2>5
<1>7. CASE Start
  <2>1. /\ task' \in TaskType
        /\ \A u \in Tasks : task'[u] = IF u = "restore" /\ row.engaged
                                       THEN [at |-> "time", row |-> row] ELSE Idle
    BY <1>1, <1>7 DEF Start, TaskType
  <2>2. frame' = frame /\ service' = IF row.engaged THEN "recovering" ELSE "up"
    BY <1>7 DEF Start
  <2>3. /\ frame' \in FrameType /\ ShuffleIsTheirs' /\ (AsTheUserHadIt => AsTheUserHadIt')
    BY <1>1, <1>2, <2>2 DEF ShuffleIsTheirs, AsTheUserHadIt, Known
  <2>4. \A u \in Tasks : \/ task'[u].at = "none" /\ (u = "restore" => ~row.engaged)
                         \/ u = "restore" /\ row.engaged /\ task'[u].at = "time" /\ task'[u].row = row
    BY <2>1 DEF Idle
  <2>5. At(C, "none")' /\ HandingBack'
    BY <1>2, <1>4, <2>4, TasksLemma DEF HandingBack, At, Standing, Matches
  <2>6. Alone'
    BY <2>2, <2>4, TasksLemma DEF Alone, At
  <2>7. QED
    BY <1>3, <2>1, <2>2, <2>3, <2>5, <2>6
<1>8. QED
  BY <1>5, <1>6, <1>7

(* Known holds at first.                                                   *)
LEMMA KnownInitLemma == Init => Known
<1> SUFFICES ASSUME Init PROVE Known
  OBVIOUS
<1>1. \A t \in Tasks : task[t] = Idle
  BY DEF Init
<1>2. own \in [time : Time, shuffle : BOOLEAN] /\ asleep \in BOOLEAN
  BY ChoiceAssumption DEF Init
<1>3. Typed
  BY <1>2, FreshLemma, NoCycleLemma DEF Init, Typed, Idle, Place, CycleType, Slot
<1>4. RowTells /\ ShuffleIsTheirs
  BY FreshLemma DEF Init, RowTells, ShuffleIsTheirs, AsTheUserHadIt
<1>5. InStep /\ HandingBack /\ Alone
  BY <1>1, TasksLemma DEF Init, InStep, HandingBack, Alone, Idle, At, Standing
<1>6. QED
  BY <1>3, <1>4, <1>5 DEF Known

(* Known is inductive.                                                     *)
LEMMA KnownNextLemma == ~Hasty /\ Known /\ [Next]_vars => Known'
<1> SUFFICES ASSUME ~Hasty, Known, [Next]_vars PROVE Known'
  OBVIOUS
<1>1. CASE UNCHANGED vars
  BY <1>1 DEF vars, Known, Typed, RowTells, ShuffleIsTheirs, InStep, HandingBack, Alone,
     AsTheUserHadIt, Matches, SameBut, mine, At
<1>2. CASE Next
  BY <1>2, ConductLemma, StandLemma, ServiceLemma, WorldLemma, ProcessLemma DEF Next
<1>3. QED
  BY <1>1, <1>2

(* A frame whose slide time or shuffle Slyde has changed is never without  *)
(* the durable row that says how to put them back: at no await of any      *)
(* task, after no crash, and whatever operation a cancelled task left with *)
(* the device.                                                             *)
THEOREM RestoreKnownHolds == ASSUME ~Hasty PROVE Spec => []RestoreKnown
<1>1. Known => RestoreKnown
  BY DEF Known, RowTells, RestoreKnown, Matches
<1>2. ~Hasty
  OBVIOUS
<1>3. Known /\ [Next]_vars => Known'
  BY <1>2, KnownNextLemma
<1>4. QED
  BY <1>1, <1>3, KnownInitLemma, PTL DEF Spec
-----------------------------------------------------------------------------
(* A frame that answers.                                                   *)

(* What IInv adds to Known.                                                *)
Rest == HasImage /\ ShownHeld /\ Answering

(* No operation shows a buffer that does not exist.                        *)
LEMMA ShownLemma ==
  ASSUME Known, HasImage, ShownHeld, NEW t \in Tasks, frame' \in {frame, Effect(t)}
  PROVE  ShownHeld'
<1>1. EffectFacts(t) /\ frame \in FrameType /\ frame' \in FrameType
  BY EffectLemma, EffectKnownLemma DEF Known, Typed, FrameType, EffectFacts
<1>2. At(t, "upload") => cycle.data # None /\ Target(task[t].row) \in Slot
  BY DEF Known, HandingBack, HasImage, At, Standing, Target, Slot
<1>3. None \notin Slot /\ "photo" \notin Slot
  BY NameAssumption DEF Slot
<1>4. SUFFICES ASSUME frame'.screen \in Slot PROVE frame'.file[frame'.screen] # None
  BY DEF ShownHeld
<1>5. CASE frame' = frame
  BY <1>4, <1>5 DEF ShownHeld
<1>6. CASE frame' = Effect(t)
  <2>1. CASE At(t, "upload")
    BY <1>1, <1>2, <1>4, <1>6, <2>1 DEF EffectFacts, FrameType, ShownHeld, At
  <2>2. CASE At(t, "eraseA") \/ At(t, "eraseB")
    BY <1>1, <1>3, <1>4, <1>6, <2>2 DEF EffectFacts, FrameType, ShownHeld, At
  <2>3. CASE ~At(t, "upload") /\ ~At(t, "eraseA") /\ ~At(t, "eraseB")
    BY <1>1, <1>3, <1>4, <1>6, <2>3 DEF EffectFacts, FrameType, ShownHeld, At
  <2>4. QED
    BY <2>1, <2>2, <2>3
<1>7. QED
  BY <1>5, <1>6

(* Every action of a hand-back preserves the rest.                         *)
LEMMA StandRestLemma ==
  ASSUME Known, Rest, NEW t \in Tasks, Standdown(t), Known'
  PROVE  Rest'
<1>1. EffectFacts(t)
  BY EffectLemma, EffectKnownLemma DEF Known
<1>2. /\ frame' \in {frame, Effect(t)} /\ asleep' = asleep
      /\ task[t].at \in Standing
  BY
     DEF Standdown, RestoreTime, RestoreShuffle, Look, ShowPhoto, EraseA, EraseB,
         StandDownFails,
     Executed, env, AtDevice, At, Standing
<1>3. PICK p, r : Moved(t, p, r) /\ p \in Standing \cup {EndOf(t)}
  <2>1. ASSUME Ends(t) PROVE \E p, r : Moved(t, p, r) /\ p \in Standing \cup {EndOf(t)}
    BY <2>1, EndsLemma DEF EndOf, Known, Typed, TaskType
  <2>2. ASSUME NEW p \in Standing, Goto(t, p)
        PROVE  \E q, r : Moved(t, q, r) /\ q \in Standing \cup {EndOf(t)}
    <3>1. Moved(t, p, task[t].row)
      BY <2>2, GotoLemma DEF Goto, Known, Typed, TaskType, Standing, Place, Awaiting
    <3>2. QED
      BY <3>1
  <2>3. Ends(t) \/ \E p \in Standing : Goto(t, p)
    BY
       DEF Standdown, RestoreTime, RestoreShuffle, Look, ShowPhoto, EraseA, EraseB,
           StandDownFails,
       Standing
  <2>4. QED
    BY <2>1, <2>2, <2>3
<1>4. /\ task'[t].at = p /\ \A u \in Tasks \ {t} : task'[u] = task[u]
      /\ t # C => task[C].at = "none" /\ task'[C].at = "none"
      /\ t = C => \A u \in Tasks \ {C} : task'[u].at = "none"
      /\ t = C => task'[C].at \in Standing \cup {"ready"}
      /\ t # C => p \in Standing \cup {"none"}
  BY <1>2, <1>3, TasksLemma DEF Moved, EndOf, Known, Alone, At, Tasks, C, Standing
<1>5. HasImage'
  BY <1>4 DEF HasImage, Standing
<1>6. ShownHeld'
  BY <1>2, ShownLemma DEF Rest
<1>7. Answering'
  <2> SUFFICES ASSUME ~asleep
               PROVE  (ParkedWhile /\ ReleaseRuns /\ SlotKept /\ Cleaned /\ NoTrace)'
    BY <1>2 DEF Answering
  <2>1. ParkedWhile /\ ReleaseRuns /\ SlotKept /\ Cleaned /\ NoTrace
    BY DEF Rest, Answering
  <2>2. \/ /\ Goto(t, task'[t].at) /\ task'[t].at \in Standing /\ row' = row /\ service' = service
           /\ task'[t].at = "eraseB" => At(t, "eraseA") /\ frame' = Effect(t)
        \/ At(t, "eraseB") /\ frame' = Effect(t) /\ ~row'.engaged /\ Ends(t) /\ row'.slot = None
    <3>1. CASE EraseB(t)
      BY <3>1 DEF EraseB, Save, AtDevice, Known, Typed, Row
    <3>2. ASSUME NEW q \in Standing, Goto(t, q), UNCHANGED <<row, service>>,
                 q = "eraseB" => At(t, "eraseA") /\ frame' = Effect(t)
          PROVE  /\ Goto(t, task'[t].at) /\ task'[t].at \in Standing /\ row' = row /\ service' = service
                 /\ task'[t].at = "eraseB" => At(t, "eraseA") /\ frame' = Effect(t)
      <4>1. Moved(t, q, task[t].row)
        BY <3>2, GotoLemma DEF Goto, Known, Typed, TaskType, Standing, Place, Awaiting
      <4>2. QED
        BY <3>2, <4>1 DEF Moved
    <3>3. CASE EraseA(t)
      BY <3>2, <3>3 DEF EraseA, AtDevice, Standing
    <3>4. CASE RestoreTime(t) \/ RestoreShuffle(t) \/ Look(t) \/ ShowPhoto(t)
      BY <3>2, <3>4 DEF RestoreTime, RestoreShuffle, Look, ShowPhoto, Standing
    <3>5. ~StandDownFails(t)
      BY DEF StandDownFails
    <3>6. QED
      BY <3>1, <3>3, <3>4, <3>5 DEF Standdown
  <2>3. ParkedWhile' /\ SlotKept'
    BY <1>4, <2>2 DEF ParkedWhile, SlotKept, Conducting, Standing, At
  <2>4. ReleaseRuns'
    <3> SUFFICES ASSUME service' = "up", At(C, "none")', row'.engaged
                 PROVE  \E u \in Release : ~At(u, "none")'
      BY DEF ReleaseRuns
    <3>1. /\ row' = row /\ service = "up" /\ task'[t].at \in Standing
      BY <2>2
    <3>2. t # C
      BY <1>4, <3>1 DEF At, Standing
    <3>3. t # "restore"
      BY <1>2, <3>1 DEF Known, Alone, At, Standing
    <3>4. QED
      BY <3>1, <3>2, <3>3 DEF Tasks, C, At, Standing
  <2>5. frame \in FrameType /\ frame'.file["a"] \in {frame.file["a"], None} /\ frame'.file["b"] \in {frame.file["b"], None}
    BY <1>1, <1>2 DEF EffectFacts, At, Standing, FrameType, Slot, Known, Typed
  <2>6. Cleaned'
    <3> SUFFICES ASSUME NEW u \in Tasks, task'[u].at = "eraseB" PROVE frame'.file["a"] = None
      BY DEF Cleaned, At
    <3>1. CASE u = t
      <4>1. At(t, "eraseA") /\ frame' = Effect(t)
        <5>1. Ends(t) => task'[t].at # "eraseB"
          BY EndsLemma DEF Moved, Known, Typed, TaskType
        <5>2. QED
          BY <2>2, <3>1, <5>1
      <4>2. QED
        BY <1>1, <2>5, <4>1 DEF EffectFacts, FrameType, Slot, At
    <3>2. CASE u # t
      BY <1>4, <2>1, <2>5, <3>2 DEF Cleaned, At
    <3>3. QED
      BY <3>1, <3>2
  <2>7. NoTrace'
    <3> SUFFICES ASSUME ~row'.engaged
                 PROVE  frame'.screen = "photo" /\ \A s \in Slot : frame'.file[s] = None
      BY <1>2 DEF NoTrace
    <3>1. frame'.file["a"] = None /\ frame'.file["b"] = None
      <4>1. CASE row' = row
        BY <2>1, <2>5, <4>1 DEF NoTrace, Slot
      <4>2. CASE At(t, "eraseB") /\ frame' = Effect(t)
        BY <1>1, <2>1, <2>5, <4>2 DEF Cleaned, EffectFacts, FrameType, Slot, At
      <4>3. QED
        BY <2>2, <4>1, <4>2
    <3>2. frame'.screen \in Slot \cup {"photo"}
      BY DEF Known, Typed
    <3>3. QED
      BY <1>6, <3>1, <3>2 DEF ShownHeld, Slot
  <2>8. QED
    BY <2>3, <2>4, <2>6, <2>7
<1>8. QED
  BY <1>5, <1>6, <1>7 DEF Rest

(* The rest survives a step of the conductor that keeps a frame that       *)
(* answers parked, its slot as the row says, and its buffers off once it   *)
(* is no longer engaged.                                                   *)
LEMMA ConductorRestLemma ==
  ASSUME Known, Rest, Known', ~At(C, "none"), NEW p, NEW r, Moved(C, p, r),
         p \notin {"none", "eraseB"}, frame' \in {frame, Effect(C)}, HasImage',
         UNCHANGED <<own, asleep, service>>,
         ~asleep => ParkedWhile' /\ SlotKept' /\ NoTrace'
  PROVE  Rest'
<1>1. ShownHeld'
  BY ShownLemma, TasksLemma DEF Rest
<1>2. \A u \in Tasks : task'[u].at # "eraseB"
  BY TasksLemma DEF Moved, Known, Alone, At, Tasks, C
<1>3. Cleaned'
  BY <1>2 DEF Cleaned, At
<1>4. ReleaseRuns'
  BY DEF ReleaseRuns, Moved, At
<1>5. Answering'
  BY <1>3, <1>4 DEF Answering
<1>6. QED
  BY <1>1, <1>5 DEF Rest

(* Every action of the conductor does.                                     *)
LEMMA ConductRestLemma ==
  ASSUME Known, Rest, Conduct, Known'
  PROVE  Rest'
<1>1. EffectFacts(C)
  BY EffectLemma, EffectKnownLemma, TasksLemma DEF Known
<1>2. /\ frame \in FrameType /\ cycle \in CycleType /\ row \in Row /\ task \in TaskType
      /\ frame' \in FrameType /\ row' \in Row /\ mine \in Row /\ C \in Tasks
  BY TasksLemma DEF Known, Typed, FrameType, CycleType, TaskType, mine
<1>3. {"time", "ready", "load", "panel", "config", "engage", "park", "unshuffle", "photo",
       "upload", "dwell", "slot"} \subseteq Place
  BY DEF Place, Awaiting
<1>4. /\ task[C].at \notin {"none", "ready"} => SameBut(mine, row)
      /\ task[C].at \in {"config", "engage"} => ~mine.engaged
      /\ task[C].at \in {"park", "unshuffle", "photo", "upload", "dwell", "slot"} => mine.engaged
      /\ At(C, "slot") => mine.slot # None
  BY DEF Known, InStep
<1>5. /\ HasImage
      /\ ~asleep => ParkedWhile /\ SlotKept /\ NoTrace
  BY DEF Rest, Answering
<1>6. row.engaged \/ row.slot = None
  BY DEF Known, RowTells
<1>7. Ends(C) => Moved(C, "ready", Fresh)
  BY <1>2, EndsLemma
<1>8. ASSUME Ends(C), ~At(C, "none"), UNCHANGED <<own, asleep>>,
             frame' = frame \/ (asleep /\ frame' = Effect(C)),
             row' = row \/ (~row.engaged /\ ~row'.engaged),
             ~asleep /\ row.engaged => task[C].at \in Conducting
      PROVE  Rest'
  <2>1. Moved(C, "ready", Fresh) /\ service' = service
    BY <1>7, <1>8, TasksLemma DEF Ends, C
  <2>2. HasImage'
    BY <2>1 DEF Moved, HasImage
  <2>3. row'.engaged \/ row'.slot = None
    BY DEF Known, RowTells
  <2>4. ~asleep => ParkedWhile' /\ SlotKept' /\ NoTrace'
    BY <1>5, <1>8, <2>1, <2>3 DEF Moved, ParkedWhile, SlotKept, NoTrace, Conducting, At
  <2>5. QED
    BY <1>8, <2>1, <2>2, <2>4, ConductorRestLemma
<1>9. ASSUME NEW r \in Row, SameBut(r, row), StandDown(C, r), task[C].at \in {"ready", "load", "panel"},
             UNCHANGED <<frame, own, asleep>>
      PROVE  Rest'
  <2>1. CASE r.engaged
    <3>1. GotoWith(C, "time", r) /\ UNCHANGED <<row, service, cycle>>
      BY <1>9, <2>1 DEF StandDown
    <3>2. Moved(C, "time", r)
      BY <1>2, <1>3, <3>1, GotoLemma
    <3>3. HasImage' /\ (~asleep => ParkedWhile' /\ SlotKept' /\ NoTrace')
      BY <1>5, <1>9, <3>1, <3>2
         DEF Moved, HasImage, ParkedWhile, SlotKept, NoTrace, Conducting, At
    <3>4. QED
      BY <1>9, <3>1, <3>2, <3>3, ConductorRestLemma DEF At
  <2>2. CASE ~r.engaged
    <3>1. row' \in {row, r} /\ Ends(C)
      BY <1>9, <2>2 DEF StandDown
    <3>2. QED
      BY <1>2, <1>8, <1>9, <2>2, <3>1 DEF SameBut, Row, At, Conducting
  <2>3. QED
    BY <2>1, <2>2
<1>10. CASE Poll
  <2>1. At(C, "ready") /\ UNCHANGED <<frame, own, asleep>> /\ SameBut(row, row)
    BY <1>10 DEF Poll, env, SameBut
  <2>2. CASE row.enabled
    <3>1. GotoWith(C, "load", row) /\ UNCHANGED <<row, service, cycle>>
      BY <1>10, <2>2 DEF Poll
    <3>2. Moved(C, "load", row)
      BY <1>2, <1>3, <3>1, GotoLemma
    <3>3. HasImage' /\ (~asleep => ParkedWhile' /\ SlotKept' /\ NoTrace')
      BY <1>5, <2>1, <3>1, <3>2
         DEF Moved, HasImage, ParkedWhile, SlotKept, NoTrace, Conducting, At
    <3>4. QED
      BY <2>1, <3>1, <3>2, <3>3, ConductorRestLemma DEF At
  <2>3. CASE ~row.enabled
    BY <1>2, <1>9, <1>10, <2>1, <2>3 DEF Poll, At
  <2>4. QED
    BY <2>2, <2>3
<1>11. CASE Load
  <2>1. At(C, "load") /\ UNCHANGED <<frame, own, asleep>>
    BY <1>11 DEF Load, env
  <2>2. PICK data \in Loaded :
          \/ StandDown(C, mine)
          \/ Ends(C) /\ UNCHANGED row
          \/ /\ Goto(C, "panel") /\ data # None
             /\ cycle' = [cycle EXCEPT !.data = data] /\ UNCHANGED <<row, service>>
    BY <1>11 DEF Load
  <2>3. CASE StandDown(C, mine)
    BY <1>2, <1>4, <1>9, <2>1, <2>3 DEF At
  <2>4. CASE Ends(C) /\ UNCHANGED row
    BY <1>8, <2>1, <2>4 DEF At, Conducting
  <2>5. CASE /\ Goto(C, "panel") /\ data # None
             /\ cycle' = [cycle EXCEPT !.data = data] /\ UNCHANGED <<row, service>>
    <3>1. Moved(C, "panel", mine)
      BY <1>2, <1>3, <2>5, GotoLemma DEF Goto, mine
    <3>2. cycle'.data = data
      BY <1>2, <2>5 DEF CycleType
    <3>3. HasImage' /\ (~asleep => ParkedWhile' /\ SlotKept' /\ NoTrace')
      BY <1>5, <2>1, <2>5, <3>1, <3>2
         DEF Moved, HasImage, ParkedWhile, SlotKept, NoTrace, Conducting, At
    <3>4. QED
      BY <2>1, <2>5, <3>1, <3>3, ConductorRestLemma DEF At
  <2>6. QED
    BY <2>2, <2>3, <2>4, <2>5
<1>12. CASE Panel
  <2>1. At(C, "panel") /\ UNCHANGED <<frame, own, asleep>>
    BY <1>12 DEF Panel, env, AtDevice
  <2>2. CASE StandDown(C, mine)
    BY <1>2, <1>4, <1>9, <2>1, <2>2 DEF At
  <2>3. CASE /\ Goto(C, IF mine.engaged THEN "photo" ELSE "config")
             /\ cycle' = [cycle EXCEPT !.left = mine.every] /\ UNCHANGED <<row, service>>
    <3>1. Moved(C, IF mine.engaged THEN "photo" ELSE "config", mine)
      BY <1>2, <1>3, <2>3, GotoLemma DEF Goto, mine
    <3>2. cycle'.data = cycle.data
      BY <1>2, <2>3 DEF CycleType
    <3>3. HasImage' /\ (~asleep => ParkedWhile' /\ SlotKept' /\ NoTrace')
      BY <1>5, <2>1, <2>3, <3>1, <3>2
         DEF Moved, HasImage, ParkedWhile, SlotKept, NoTrace, Conducting, At
    <3>4. QED
      BY <2>1, <2>3, <3>1, <3>3, ConductorRestLemma DEF At
  <2>4. QED
    BY <1>12, <2>2, <2>3 DEF Panel
<1>13. CASE ReadConfig
  <2> DEFINE p == "engage"
  <2>1. At(C, "config") /\ UNCHANGED <<own, asleep, service>> /\ frame' \in {frame, Effect(C)}
    BY <1>13 DEF ReadConfig, AtDevice, env, Executed
  <2>2. row' = row /\ frame' = frame /\ cycle'.data = cycle.data
    BY <1>1, <1>2, <1>4, <1>6, <1>13, <2>1
       DEF ReadConfig, Save, At, EffectFacts, SameBut, CycleType
  <2>3. Moved(C, p, mine)
    BY <1>2, <1>3, <1>13, GotoLemma DEF ReadConfig, Goto, mine
  <2>4. HasImage'
    BY <1>5, <2>1, <2>2, <2>3 DEF Moved, HasImage, At
  <2>5. ~asleep => ParkedWhile' /\ SlotKept' /\ NoTrace'
    BY <1>2, <1>4, <1>5, <1>6, <2>1, <2>2, <2>3
       DEF Moved, ParkedWhile, SlotKept, NoTrace, Conducting, At, SameBut, Row,
           FrameType
  <2>6. QED
    BY <2>1, <2>3, <2>4, <2>5, ConductorRestLemma DEF At
<1>14. CASE Engage
  <2> DEFINE p == "park"
  <2>1. At(C, "engage") /\ UNCHANGED <<own, asleep, service>> /\ frame' \in {frame, Effect(C)}
    BY <1>14 DEF Engage, AtDevice, env, Executed
  <2>2. /\ row'.engaged /\ row'.slot = mine.slot /\ mine.slot = row.slot /\ ~row.engaged
        /\ frame' = frame /\ cycle' = cycle
    BY <1>1, <1>2, <1>4, <1>6, <1>14, <2>1
       DEF Engage, Save, At, EffectFacts, SameBut, Row
  <2>3. Moved(C, p, row')
    BY <1>2, <1>3, <1>14, GotoLemma DEF Engage, Goto, mine
  <2>4. HasImage'
    BY <1>5, <2>1, <2>2, <2>3 DEF Moved, HasImage, At
  <2>5. ~asleep => ParkedWhile' /\ SlotKept' /\ NoTrace'
    BY <1>2, <1>4, <1>5, <1>6, <2>1, <2>2, <2>3
       DEF Moved, ParkedWhile, SlotKept, NoTrace, Conducting, At, SameBut, Row,
           FrameType
  <2>6. QED
    BY <2>1, <2>3, <2>4, <2>5, ConductorRestLemma DEF At
<1>15. CASE Park
  <2> DEFINE p == IF mine.shuffle THEN "unshuffle" ELSE "photo"
  <2>1. At(C, "park") /\ UNCHANGED <<own, asleep, service>> /\ frame' \in {frame, Effect(C)}
    BY <1>15 DEF Park, AtDevice, env, Executed
  <2>2. /\ row' = row /\ row.engaged /\ cycle' = cycle /\ frame'.time = Parked
        /\ frame'.file = frame.file /\ (frame'.shuffle => mine.shuffle)
    BY <1>1, <1>2, <1>4, <1>6, <1>15, <2>1
       DEF Park, Save, At, EffectFacts, SameBut, Row, Known, RowTells,
           ShuffleIsTheirs, Matches
  <2>3. Moved(C, p, mine)
    BY <1>2, <1>3, <1>15, GotoLemma DEF Park, Goto, mine
  <2>4. HasImage'
    BY <1>5, <2>1, <2>2, <2>3 DEF Moved, HasImage, At
  <2>5. ~asleep => ParkedWhile' /\ SlotKept' /\ NoTrace'
    BY <1>2, <1>4, <1>5, <1>6, <2>1, <2>2, <2>3
       DEF Moved, ParkedWhile, SlotKept, NoTrace, Conducting, At, SameBut, Row,
           FrameType
  <2>6. QED
    BY <2>1, <2>3, <2>4, <2>5, ConductorRestLemma DEF At
<1>16. CASE Unshuffle
  <2> DEFINE p == "photo"
  <2>1. At(C, "unshuffle") /\ UNCHANGED <<own, asleep, service>> /\ frame' \in {frame, Effect(C)}
    BY <1>16 DEF Unshuffle, AtDevice, env, Executed
  <2>2. /\ row' = row /\ row.engaged /\ cycle' = cycle /\ frame'.time = frame.time
        /\ frame'.file = frame.file /\ ~frame'.shuffle
    BY <1>1, <1>2, <1>4, <1>6, <1>16, <2>1
       DEF Unshuffle, Save, At, EffectFacts, SameBut, Row
  <2>3. Moved(C, p, mine)
    BY <1>2, <1>3, <1>16, GotoLemma DEF Unshuffle, Goto, mine
  <2>4. HasImage'
    BY <1>5, <2>1, <2>2, <2>3 DEF Moved, HasImage, At
  <2>5. ~asleep => ParkedWhile' /\ SlotKept' /\ NoTrace'
    BY <1>2, <1>4, <1>5, <1>6, <2>1, <2>2, <2>3
       DEF Moved, ParkedWhile, SlotKept, NoTrace, Conducting, At, SameBut, Row,
           FrameType
  <2>6. QED
    BY <2>1, <2>3, <2>4, <2>5, ConductorRestLemma DEF At
<1>17. CASE Photo
  <2> DEFINE p == IF mine.slot # None /\ mine.hash = cycle.data THEN "dwell" ELSE "upload"
  <2>1. At(C, "photo") /\ UNCHANGED <<own, asleep, service>> /\ frame' \in {frame, Effect(C)}
    BY <1>17 DEF Photo, AtDevice, env, Executed
  <2>2. /\ row' = mine /\ mine.engaged /\ row.engaged /\ cycle'.data = cycle.data
        /\ mine.slot = row.slot /\ mine.hash = row.hash
        /\ frame'.time = frame.time /\ frame'.file = frame.file /\ frame'.shuffle = frame.shuffle
    BY <1>1, <1>2, <1>4, <1>6, <1>17, <2>1
       DEF Photo, Save, At, EffectFacts, SameBut, Row, CycleType
  <2>3. Moved(C, p, mine)
    BY <1>2, <1>3, <1>17, GotoLemma DEF Photo, Goto, mine
  <2>4. HasImage'
    BY <1>5, <2>1, <2>2, <2>3 DEF Moved, HasImage, At
  <2>5. ~asleep => ParkedWhile' /\ SlotKept' /\ NoTrace'
    BY <1>2, <1>4, <1>5, <1>6, <2>1, <2>2, <2>3
       DEF Moved, ParkedWhile, SlotKept, NoTrace, Conducting, At, SameBut, Row,
           FrameType
  <2>6. QED
    BY <2>1, <2>3, <2>4, <2>5, ConductorRestLemma DEF At
<1>18. CASE Upload
  <2> DEFINE p == "dwell"
  <2>1. At(C, "upload") /\ UNCHANGED <<own, asleep, service>> /\ frame' \in {frame, Effect(C)}
    BY <1>18 DEF Upload, AtDevice, env, Executed
  <2>2. /\ row'.slot = Target(mine) /\ row'.hash = cycle.data /\ row'.engaged /\ row.engaged
        /\ cycle' = cycle /\ Target(mine) \in Slot
        /\ frame'.time = frame.time /\ frame'.shuffle = frame.shuffle
        /\ frame'.file = [frame.file EXCEPT ![Target(mine)] = cycle.data]
    BY <1>1, <1>2, <1>4, <1>6, <1>18, <2>1
       DEF Upload, Save, At, EffectFacts, SameBut, Row, Target, Slot, mine
  <2>3. Moved(C, p, row')
    BY <1>2, <1>3, <1>18, GotoLemma DEF Upload, Goto, mine
  <2>4. HasImage'
    BY <1>5, <2>1, <2>2, <2>3 DEF Moved, HasImage, At
  <2>5. ~asleep => ParkedWhile' /\ SlotKept' /\ NoTrace'
    BY <1>2, <1>4, <1>5, <1>6, <2>1, <2>2, <2>3
       DEF Moved, ParkedWhile, SlotKept, NoTrace, Conducting, At, SameBut, Row,
           FrameType
  <2>6. QED
    BY <2>1, <2>3, <2>4, <2>5, ConductorRestLemma DEF At
<1>19. CASE UploadFails
  <2>1. At(C, "upload") /\ UNCHANGED <<own, asleep, service, cycle>> /\ asleep /\ frame' \in {frame, Effect(C)}
    BY <1>19 DEF UploadFails, AtDevice, env, Executed
  <2>2. Moved(C, "dwell", mine)
    BY <1>2, <1>3, <1>19, GotoLemma DEF UploadFails, Goto, mine
  <2>3. HasImage'
    BY <1>5, <2>1, <2>2 DEF Moved, HasImage, At
  <2>4. QED
    BY <2>1, <2>2, <2>3, ConductorRestLemma DEF At
<1>20. CASE Dwell
  <2>1. At(C, "dwell") /\ UNCHANGED <<row, frame, own, asleep>>
    BY <1>20 DEF Dwell, env
  <2>2. ASSUME NEW p \in {"photo", "slot"}, Goto(C, p), UNCHANGED <<service, cycle>>
        PROVE  Rest'
    <3>1. Moved(C, p, mine)
      BY <1>2, <1>3, <2>2, GotoLemma DEF Goto, mine
    <3>2. HasImage' /\ (~asleep => ParkedWhile' /\ SlotKept' /\ NoTrace')
      BY <1>5, <2>1, <2>2, <3>1
         DEF Moved, HasImage, ParkedWhile, SlotKept, NoTrace, Conducting, At
    <3>3. QED
      BY <2>1, <2>2, <3>1, <3>2, ConductorRestLemma DEF At
  <2>3. CASE Ends(C)
    BY <1>8, <2>1, <2>3 DEF At, Conducting
  <2>4. QED
    BY <1>20, <2>2, <2>3 DEF Dwell
<1>21. CASE ShowSlot
  <2>1. At(C, "slot") /\ Ends(C) /\ UNCHANGED <<row, own, asleep, service>> /\ frame' = Effect(C)
    BY <1>21, TasksLemma DEF ShowSlot, env, AtDevice, Ends, C
  <2>2. frame'.file = frame.file /\ frame'.time = frame.time /\ frame'.shuffle = frame.shuffle
    BY <1>1, <2>1 DEF EffectFacts, At
  <2>3. row.engaged
    BY <1>2, <1>4, <2>1 DEF SameBut, At, Row
  <2>4. HasImage'
    BY <1>7, <2>1 DEF Moved, HasImage
  <2>5. ~asleep => ParkedWhile' /\ SlotKept' /\ NoTrace'
    BY <1>5, <1>7, <2>1, <2>2, <2>3
       DEF Moved, ParkedWhile, SlotKept, NoTrace, Conducting, At
  <2>6. QED
    BY <1>7, <2>1, <2>4, <2>5, ConductorRestLemma DEF At
<1>22. CASE CycleFails
  <2>1. /\ ~At(C, "none") /\ asleep /\ Ends(C) /\ UNCHANGED <<row, own, asleep>>
        /\ frame' \in {frame, Effect(C)}
    BY <1>22 DEF CycleFails, env, AtDevice, At, Executed
  <2>2. QED
    BY <1>8, <2>1
<1>23. QED
  BY <1>10, <1>11, <1>12, <1>13, <1>14, <1>15, <1>16, <1>17, <1>18, <1>19, <1>20, <1>21,
     <1>22
     DEF Conduct

(* What an operation that was cut short may leave on the frame.            *)
(* An operation left behind by a task puts nothing on a frame that has     *)
(* been handed back.                                                       *)
LEMMA LeftoverLemma ==
  ASSUME Known, NEW t \in Tasks, NEW f \in Executed(t)
  PROVE  /\ t # C => f.file["a"] \in {frame.file["a"], None}
         /\ ~row.engaged /\ frame.screen = "photo" /\ (\A s \in Slot : frame.file[s] = None)
            => f.screen = "photo" /\ \A s \in Slot : f.file[s] = None
<1>1. EffectFacts(t) /\ frame \in FrameType /\ row \in Row /\ mine \in Row
  BY EffectLemma, EffectKnownLemma, TasksLemma DEF Known, Typed, FrameType, mine
<1>2. f = frame \/ f = Effect(t)
  BY DEF Executed
<1>3. t # C => task[t].at \in Standing \cup {"none"}
  BY DEF Known, HandingBack
<1>4. ~row.engaged => task[C].at \notin Standing \cup {"photo", "upload", "slot"}
  <2>1. SUFFICES ASSUME ~row.engaged, task[C].at \in Standing \cup {"photo", "upload", "slot"} PROVE FALSE
    OBVIOUS
  <2>2. SameBut(mine, row)
    BY <2>1 DEF Known, InStep, Standing
  <2>3. mine.engaged
    BY <2>1, TasksLemma DEF Known, InStep, HandingBack, mine
  <2>4. QED
    BY <1>1, <2>1, <2>2, <2>3 DEF SameBut, Row
<1>5. t # C => Effect(t).file["a"] \in {frame.file["a"], None}
  BY <1>1, <1>3 DEF EffectFacts, FrameType, Slot, At, Standing
<1>6. ASSUME ~row.engaged, frame.screen = "photo", \A s \in Slot : frame.file[s] = None
      PROVE  Effect(t).screen = "photo" /\ \A s \in Slot : Effect(t).file[s] = None
  <2>1. ~At(t, "upload") /\ ~At(t, "slot")
    BY <1>3, <1>4, <1>6 DEF At, Standing
  <2>2. Effect(t).screen = "photo"
    BY <1>1, <1>6, <2>1 DEF EffectFacts, Slot
  <2>3. \A s \in Slot : Effect(t).file[s] = None
    BY <1>1, <1>6, <2>1 DEF EffectFacts, FrameType, Slot
  <2>4. QED
    BY <2>2, <2>3
<1>7. QED
  BY <1>2, <1>5, <1>6

(* The rest survives a step after which there is no conductor.             *)
LEMMA IdleRestLemma ==
  ASSUME Known, Rest, Known', At(C, "none")', asleep' = asleep, row'.engaged = row.engaged,
         NEW t \in Tasks, frame' \in Executed(t),
         ReleaseRuns' \/ asleep,
         \A u \in Tasks : At(u, "eraseB")' => At(u, "eraseB") /\ (t # C \/ At(C, "none"))
  PROVE  Rest'
<1>1. HasImage' /\ ParkedWhile' /\ SlotKept'
  BY DEF HasImage, ParkedWhile, SlotKept, Conducting, At
<1>2. frame' \in {frame, Effect(t)}
  BY DEF Executed
<1>3. ShownHeld'
  BY <1>2, ShownLemma DEF Rest
<1>4. ASSUME ~asleep PROVE Cleaned' /\ NoTrace'
  <2>1. Cleaned /\ NoTrace
    BY <1>4 DEF Rest, Answering
  <2>2. ASSUME NEW u \in Tasks, At(u, "eraseB")' PROVE frame'.file["a"] = None
    <3>1. At(u, "eraseB") /\ (t # C \/ At(C, "none"))
      BY <2>2
    <3>2. frame'.file["a"] \in {frame.file["a"], None}
      BY <3>1, LeftoverLemma, EffectMildLemma
    <3>3. QED
      BY <2>1, <3>1, <3>2 DEF Cleaned
  <2>3. NoTrace'
    BY <1>4, <2>1, LeftoverLemma DEF NoTrace
  <2>4. QED
    BY <2>2, <2>3 DEF Cleaned
<1>5. QED
  BY <1>1, <1>3, <1>4 DEF Rest, Answering

(* Starting or cancelling a conductor preserves the rest.                  *)
LEMMA SyncRestLemma ==
  ASSUME Known, Rest, Known', service = "up", row' \in Row, SameBut(row', row), Sync(row'),
         row'.enabled = row.enabled \/ \A t \in Release : At(t, "none"),
         UNCHANGED <<own, asleep, service>>
  PROVE  Rest'
<1>1. task \in TaskType /\ row \in Row
  BY DEF Known, Typed, TaskType
<1>2. At("restore", "none")
  BY DEF Known, Alone
<1>3. task' \in Synced(row')
  BY DEF Sync
<1>4. CASE row'.enabled /\ At(C, "none")
  <2>1. task' = [task EXCEPT ![C] = Ready] /\ UNCHANGED <<frame, cycle>>
    BY <1>4 DEF Sync, Synced, Cancelled
  <2>2. At(C, "ready")' /\ \A u \in Tasks \ {C} : task'[u] = task[u]
    BY <1>1, <2>1, TasksLemma DEF TaskType, At, Ready
  <2>3. \A u \in Release : At(u, "none")
    BY <1>4 DEF Known, Alone
  <2>4. HasImage' /\ ShownHeld'
    BY <2>1, <2>2 DEF Rest, HasImage, ShownHeld, At
  <2>5. ASSUME ~asleep
        PROVE  (ParkedWhile /\ ReleaseRuns /\ SlotKept /\ Cleaned /\ NoTrace)'
    <3>1. ParkedWhile /\ ReleaseRuns /\ SlotKept /\ Cleaned /\ NoTrace
      BY <2>5 DEF Rest, Answering
    <3>2. ~row.engaged /\ ~row'.engaged /\ row'.slot = None
      BY <1>4, <2>3, <3>1 DEF ReleaseRuns, SameBut, Known, RowTells, Row
    <3>3. Cleaned'
      BY <2>1, <2>2, <3>1 DEF Cleaned, At
    <3>4. NoTrace'
      BY <2>1, <3>1, <3>2 DEF NoTrace
    <3>5. QED
      BY <2>2, <3>2, <3>3, <3>4 DEF ParkedWhile, ReleaseRuns, SlotKept, At
  <2>6. QED
    BY <2>4, <2>5 DEF Rest, Answering
<1>5. CASE Cancelled(row'.enabled)
  <2>1. PICK t \in Release :
          /\ At(t, "none")
          /\ task' = [task EXCEPT ![C] = Idle,
                        ![t] = IF row'.engaged THEN [at |-> "time", row |-> row'] ELSE Idle]
    BY <1>3, <1>5 DEF Synced, Cancelled
  <2>2. frame' \in Executed(C)
    BY <1>5 DEF Sync
  <2>3. /\ At(C, "none")' /\ \A u \in Tasks \ {C, t} : task'[u] = task[u]
        /\ task'[t] = IF row'.engaged THEN [at |-> "time", row |-> row'] ELSE Idle
    BY <1>1, <2>1, TasksLemma DEF TaskType, At, Idle
  <2>4. \A u \in Release : At(u, "none")
    BY <1>5 DEF Cancelled, Known, Alone
  <2>5. \A u \in Tasks : ~At(u, "eraseB")'
    BY <1>2, <2>3, <2>4, TasksLemma DEF At, Idle, Tasks, C
  <2>6. ReleaseRuns'
    BY <2>3 DEF ReleaseRuns, At
  <2>7. row'.engaged = row.engaged
    BY DEF SameBut
  <2>8. QED
    BY <2>2, <2>3, <2>5, <2>6, <2>7, TasksLemma, IdleRestLemma
<1>6. CASE ~(row'.enabled /\ At(C, "none")) /\ ~Cancelled(row'.enabled)
  <2>1. UNCHANGED <<task, frame, cycle>>
    BY <1>3, <1>6 DEF Sync, Synced
  <2>2. QED
    BY <2>1
       DEF Rest, HasImage, ShownHeld, Answering, ParkedWhile, ReleaseRuns, SlotKept,
           Cleaned,
       NoTrace, SameBut, At
<1>7. QED
  BY <1>4, <1>5, <1>6

(* So do all the remaining actions.                                        *)
LEMMA OthersRestLemma ==
  ASSUME ~Hasty, Known, Rest, Supervise \/ Request \/ World \/ Stop \/ Crash \/ Start, Known'
  PROVE  Rest'
<1>1. row \in Row /\ SameBut(row, row) /\ row' \in Row
  BY DEF Known, Typed, SameBut
<1>2. CASE Supervise
  BY <1>1, <1>2, SyncRestLemma DEF Supervise, env
<1>3. CASE Request
  <2>1. Serving /\ Calm /\ UNCHANGED <<own, asleep, service>> /\ Sync(row') /\ SameBut(row', row)
    BY <1>1, <1>3 DEF Request, SetInterlude, PutImage, Save, Row, SameBut
  <2>2. service = "up" /\ \A t \in Release : At(t, "none")
    BY <2>1 DEF Serving, Calm, Known, Alone
  <2>3. QED
    BY <1>1, <2>1, <2>2, SyncRestLemma
<1>4. CASE World
  <2>1. UNCHANGED <<row, asleep, service, task, cycle>>
    BY <1>4 DEF World, WriteImage, SwitchPanel, Advance, env
  <2>2. /\ frame'.time = frame.time /\ frame'.shuffle = frame.shuffle /\ frame'.file = frame.file
        /\ \/ frame' = frame
           \/ frame'.screen \in {"photo"} \cup {u \in Slot : frame.file[u] # None}
    BY <1>4 DEF World, WriteImage, SwitchPanel, Advance, Known, Typed
  <2>3. "photo" \notin Slot
    BY DEF Slot
  <2>4. HasImage' /\ ShownHeld'
    BY <2>1, <2>2, <2>3 DEF Rest, HasImage, ShownHeld
  <2>5. Answering'
    BY <2>1, <2>2
       DEF Rest, Answering, ParkedWhile, ReleaseRuns, SlotKept, Cleaned, NoTrace, At,
           mine
  <2>6. QED
    BY <2>4, <2>5 DEF Rest
<1>5. CASE Stop
  <2>1. PICK t \in {C, "restore"} : frame' \in Executed(t)
    BY <1>5 DEF Stop
  <2>2. UNCHANGED <<row, asleep>> /\ service' # "up"
    BY <1>5 DEF Stop, env
  <2>3. task' = [task EXCEPT ![C] = Idle, !["restore"] = IF row.engaged THEN [at |-> "time", row |-> row]
                                                       ELSE Idle]
    BY <1>5 DEF Stop
  <2>4. /\ task'[C] = Idle /\ task'["restore"].at \in {"time", "none"}
        /\ \A u \in Tasks \ {C, "restore"} : task'[u] = task[u]
    BY <2>3, TasksLemma DEF Idle, Known, Typed
  <2>5. \A u \in Tasks : At(u, "eraseB")' => At(u, "eraseB") /\ At(C, "none")
    BY <2>4, TasksLemma DEF At, Idle, Known, Alone, Tasks, C
  <2>6. ReleaseRuns'
    BY <2>2 DEF ReleaseRuns
  <2>7. At(C, "none")'
    BY <2>4 DEF At, Idle
  <2>8. QED
    BY <2>1, <2>2, <2>5, <2>6, <2>7, TasksLemma, IdleRestLemma
<1>6. CASE Crash
  <2>1. PICK t \in Tasks : frame' \in Executed(t)
    BY <1>6 DEF Crash
  <2>2. UNCHANGED <<row, asleep>> /\ service' = "down" /\ \A u \in Tasks : task'[u] = Idle
    BY <1>6 DEF Crash, env
  <2>3. At(C, "none")' /\ ReleaseRuns' /\ \A u \in Tasks : ~At(u, "eraseB")'
    BY <2>2, TasksLemma DEF ReleaseRuns, At, Idle
  <2>4. QED
    BY <2>1, <2>2, <2>3, IdleRestLemma
<1>7. CASE Start
  <2>1. UNCHANGED <<row, asleep, frame>> /\ service' = IF row.engaged THEN "recovering" ELSE "up"
    BY <1>7 DEF Start, env
  <2>2. \A u \in Tasks : task'[u] = IF u = "restore" /\ row.engaged
                                    THEN [at |-> "time", row |-> row] ELSE Idle
    BY <1>7 DEF Start
  <2>3. At(C, "none")' /\ ReleaseRuns' /\ \A u \in Tasks : ~At(u, "eraseB")'
    BY <2>1, <2>2, TasksLemma DEF ReleaseRuns, At, Idle
  <2>4. frame' \in Executed(C)
    BY <2>1 DEF Executed
  <2>5. QED
    BY <2>1, <2>3, <2>4, TasksLemma, IdleRestLemma
<1>8. QED
  BY <1>2, <1>3, <1>4, <1>5, <1>6, <1>7

(* The rest holds at first.                                                *)
LEMMA RestInitLemma == Init => Rest
<1> SUFFICES ASSUME Init PROVE Rest
  OBVIOUS
<1>1. /\ \A t \in Tasks : task[t].at = "none"
      /\ ~row.engaged /\ frame.screen = "photo" /\ \A s \in Slot : frame.file[s] = None
  BY FreshLemma DEF Init, Idle
<1>2. "photo" \notin Slot
  BY DEF Slot
<1>3. QED
  BY <1>1, <1>2, TasksLemma
     DEF Rest, HasImage, ShownHeld, Answering, ParkedWhile, ReleaseRuns,
     SlotKept, Cleaned, NoTrace, Conducting, At

(* IInv is inductive.                                                      *)
LEMMA RestNextLemma == ~Hasty /\ IInv /\ [Next]_vars => IInv'
<1> SUFFICES ASSUME ~Hasty, Known, Rest, [Next]_vars PROVE Known' /\ Rest'
  BY DEF IInv, Rest
<1>1. Known'
  BY KnownNextLemma
<1>2. CASE UNCHANGED vars
  <2>1. UNCHANGED <<row, frame, asleep, service, task, cycle>>
    BY <1>2 DEF vars
  <2>2. HasImage' /\ ShownHeld'
    BY <2>1 DEF Rest, HasImage, ShownHeld
  <2>3. ParkedWhile' = ParkedWhile /\ ReleaseRuns' = ReleaseRuns
    BY <2>1 DEF ParkedWhile, ReleaseRuns, At
  <2>4. SlotKept' = SlotKept /\ Cleaned' = Cleaned /\ NoTrace' = NoTrace
    BY <2>1 DEF SlotKept, Cleaned, NoTrace, At, mine
  <2>5. Answering'
    BY <2>1, <2>3, <2>4 DEF Rest, Answering
  <2>6. QED
    BY <1>1, <2>2, <2>5 DEF Rest
<1>3. CASE Next
  BY <1>1, <1>3, ConductRestLemma, StandRestLemma, OthersRestLemma DEF Next
<1>4. QED
  BY <1>1, <1>2, <1>3

(* The inductive invariant holds: the row and the tasks' copies of it      *)
(* agree, and a frame that answers is parked while it is conducted, clean  *)
(* once it is handed back.                                                 *)
THEOREM Inductive == ASSUME ~Hasty PROVE Spec => []IInv
<1>1. Init => IInv
  BY KnownInitLemma, RestInitLemma DEF IInv, Rest
<1>2. ~Hasty
  OBVIOUS
<1>3. IInv /\ [Next]_vars => IInv'
  BY <1>2, RestNextLemma
<1>4. QED
  BY <1>1, <1>3, PTL DEF Spec

(* When the conductor shows an interlude on a frame that answers, the      *)
(* frame's own timer is parked and its shuffle is off.                     *)
THEOREM ConductsParkedHolds == ASSUME ~Hasty PROVE Spec => []ConductsParked
<1>1. IInv => ConductsParked
  <2> SUFFICES ASSUME IInv, ~asleep, At(C, "slot") PROVE frame.time = Parked /\ ~frame.shuffle
    BY DEF ConductsParked
  <2>1. mine.engaged /\ SameBut(mine, row) /\ mine \in Row /\ row \in Row
    BY TasksLemma DEF IInv, Known, InStep, At, Typed, mine
  <2>2. row.engaged
    BY <2>1 DEF SameBut, Row
  <2>3. QED
    BY <2>2 DEF IInv, Answering, ParkedWhile, Conducting, At
<1>2. QED
  BY <1>1, Inductive, PTL

(* On a frame that answers, the buffer shown in the slot holds what the    *)
(* row says it holds, so skipping the upload of unchanged bytes is right.  *)
THEOREM SlotHoldsImageHolds == ASSUME ~Hasty PROVE Spec => []SlotHoldsImage
<1>1. IInv => SlotHoldsImage
  BY
     DEF IInv, Known, InStep, SameBut, Answering, SlotKept, Conducting, At,
         SlotHoldsImage
<1>2. QED
  BY <1>1, Inductive, PTL

(* A frame that answers and is not engaged has no buffer of ours on it and *)
(* none on screen, whatever upload or hand-back a crash or a cancellation  *)
(* has cut short.                                                          *)
THEOREM NoTraceHolds == ASSUME ~Hasty PROVE Spec => []NoTrace
<1>1. IInv => NoTrace
  BY DEF IInv, Answering, NoTrace
<1>2. QED
  BY <1>1, Inductive, PTL
=============================================================================
