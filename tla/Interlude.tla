----------------------------- MODULE Interlude -----------------------------
(***************************************************************************)
(* The interlude of ONE frame: a conductor task that parks the frame's own *)
(* slide timer and shows photos and interlude images in turn, the service  *)
(* that starts it, cancels it and hands the frame back, the durable row    *)
(* they share, and the settings and files on the device.                   *)
(*                                                                         *)
(* The tasks run on one event loop and interleave at their awaits: each    *)
(* action below is the code from one device reply to the next await.  A    *)
(* task works on the row it read when it began and saves all of it.        *)
(* Photos, cursor and rotation are one "photo"; times have no length.      *)
(***************************************************************************)
EXTENDS Integers, Sequences

CONSTANTS
  Time,        \* slide times a user may choose
  Default,     \* 60 s: assumed when nothing better is known
  Parked,      \* the slide time set while conducting
  ParkIsNever, \* INTERLUDE_PARK_SECONDS is "never", which engaging recognises
  Image,       \* what the producer may publish
  Fewer,       \* bounds it for a frame that may fail to answer
  Every,       \* choices of every_n_photos
  Enables,     \* what users save as "enabled": a subset of BOOLEAN
  Release,     \* bounds the hand-backs that may run at once
  Flap,        \* polls that must agree on an image being there or not
  Hasty,       \* may requests arrive while a hand-back is under way?
  Frames,      \* the frames considered: the user's settings, and whether
               \* the frame may fail to answer
  MayCrash,    \* may the hub's process die in this instance?
  None

ASSUME TimeAssumption == Default \in Time /\ Parked \notin Time
ASSUME ChoiceAssumption ==
  /\ Every \subseteq Nat \ {0} /\ Every # {}
  /\ Enables \subseteq BOOLEAN
  /\ Frames \subseteq [time : Time, shuffle : BOOLEAN, asleep : BOOLEAN]
  /\ Flap \in Nat \ {0} /\ Fewer \subseteq Image
  /\ {ParkIsNever, Hasty, MayCrash} \subseteq BOOLEAN
ASSUME NameAssumption ==
  /\ {"conductor", "restore"} \cap Release = {}
  /\ None \notin Image \cup {"a", "b"}

VARIABLES
  row,      \* the frame_interlude row: settings, restore data, buffer
  frame,    \* the device: slide timer, shuffle, what is on screen, buffers
  own,      \* how the user had slide time and shuffle set
  asleep,   \* may this frame fail to answer? (never changes)
  image,    \* what the producer has published, or None
  showable, \* panel on, no night mode, and photos delivered
  service,  \* the supervisor: down, recovering, up or stopping
  task,     \* task -> where it is, and the row it works on
  line,     \* tasks whose operation the device has yet to execute, oldest first
  cycle,    \* the conductor's locals: image, photos to go, config read
  streak    \* consecutive polls with (> 0) or without (< 0) an image

vars == <<row, frame, own, asleep, image, showable, service, task, line, cycle,
          streak>>
env == <<own, asleep, image, showable>>

Slot == {"a", "b"}
Tasks == {"conductor", "restore"} \cup Release

Row == [enabled : BOOLEAN, every : Every, engaged : BOOLEAN,
        time : Time \cup {Parked}, shuffle : BOOLEAN,
        slot : Slot \cup {None}, hash : Image \cup {None}]

(* Where a task awaits the device: standing down, or in the conductor's    *)
(* cycle; and the places where it awaits something else.                   *)
Awaiting == {"time", "shuffle", "look", "show", "eraseA", "eraseB"} \cup
            {"panel", "config", "park", "unshuffle", "photo", "upload", "slot"}
Place == Awaiting \cup {"none", "ready", "load", "engage", "dwell"}

TypeOK ==
  /\ row \in Row
  /\ frame \in [time : Time \cup {Parked}, shuffle : BOOLEAN,
                screen : Slot \cup {"photo"}, file : [Slot -> Image \cup {None}]]
  /\ own \in [time : Time, shuffle : BOOLEAN]
  /\ asleep \in BOOLEAN /\ image \in Image \cup {None}
  /\ showable \in BOOLEAN
  /\ service \in {"down", "recovering", "up", "stopping"}
  /\ task \in [Tasks -> [at : Place, row : Row]]
  /\ line \in Seq(Tasks)
  /\ cycle \in [data : Image \cup {None}, left : Nat,
                read : [time : Time \cup {Parked}, shuffle : BOOLEAN]]
  /\ streak \in -Flap .. Flap

Fresh == [enabled |-> FALSE, every |-> CHOOSE n \in Every : TRUE, engaged |-> FALSE,
          time |-> Default, shuffle |-> FALSE, slot |-> None, hash |-> None]
Idle == [at |-> "none", row |-> Fresh]
Ready == [at |-> "ready", row |-> Fresh]
NoCycle == [data |-> None, left |-> 0, read |-> [time |-> Default, shuffle |-> FALSE]]

(* A frame that never had an interlude, with the user's own settings.      *)
Init ==
  /\ row = Fresh
  /\ \E f \in Frames :
       own = [time |-> f.time, shuffle |-> f.shuffle] /\ asleep = f.asleep
  /\ frame = [time |-> own.time, shuffle |-> own.shuffle, screen |-> "photo",
              file |-> [s \in Slot |-> None]]
  /\ image = None
  /\ showable = TRUE
  /\ service = "up"
  /\ task = [t \in Tasks |-> Idle]
  /\ line = <<>>
  /\ cycle = NoCycle
  /\ streak = 0

-----------------------------------------------------------------------------
(* Tasks.                                                                  *)

At(t, p) == task[t].at = p
Others(t) == SelectSeq(line, LAMBDA u : u # t)

(* Every save writes the whole row.                                        *)
Save(r) == row' = r

GotoWith(t, p, r) ==
  /\ task' = [task EXCEPT ![t] = [at |-> p, row |-> r]]
  /\ line' = IF p \in Awaiting THEN Append(Others(t), t) ELSE Others(t)
Goto(t, p) == GotoWith(t, p, task[t].row)

(* One connection: the device executes the operations in order.            *)
AtDevice(t, p) == At(t, p) /\ line # <<>> /\ Head(line) = t

(* The end of a task's work: the conductor waits for its next poll, the    *)
(* others are over, and the service goes on from recovery or shutdown.     *)
Ends(t) ==
  /\ task' = [task EXCEPT ![t] = IF t = "conductor" THEN Ready ELSE Idle]
  /\ line' = Others(t)
  /\ service' = IF t # "restore" THEN service
                ELSE IF service = "recovering" THEN "up" ELSE "down"
  /\ cycle' = IF t = "conductor" THEN NoCycle ELSE cycle

(* What the device does when it executes the operation task t awaits.      *)
Target(r) == IF r.slot = "a" THEN "b" ELSE "a"
Without(s) == [frame EXCEPT !.file[s] = None,
                            !.screen = IF @ = s THEN "photo" ELSE @]
Effect(t) ==
  LET r == task[t].row IN
  CASE At(t, "time") -> [frame EXCEPT !.time = r.time]
    [] At(t, "shuffle") -> [frame EXCEPT !.shuffle = TRUE]
    [] At(t, "show") -> [frame EXCEPT !.screen = "photo"]
    [] At(t, "eraseA") -> Without("a")
    [] At(t, "eraseB") -> Without("b")
    [] At(t, "park") -> [frame EXCEPT !.time = Parked]
    [] At(t, "unshuffle") -> [frame EXCEPT !.shuffle = FALSE]
    [] At(t, "photo") -> [frame EXCEPT !.screen = "photo"]
    [] At(t, "upload") -> [frame EXCEPT !.file[Target(r)] = cycle.data]
    [] At(t, "slot") -> [frame EXCEPT !.screen = IF frame.file[r.slot] # None
                                                 THEN r.slot ELSE @]
    [] OTHER -> frame

(* No reply came; the operation may have been executed all the same.       *)
Executed(t) == IF line # <<>> /\ Head(line) = t THEN {frame, Effect(t)} ELSE {frame}

(* Stand-down by task t of the row r it read earlier.  When r is not       *)
(* engaged, only its state and detail change, but all of r is saved.       *)
StandDown(t, r) ==
  IF r.engaged
  THEN GotoWith(t, "time", r) /\ UNCHANGED <<row, service, cycle>>
  ELSE row' \in {row, r} /\ Ends(t)

RestoreTime(t) ==
  /\ AtDevice(t, "time")
  /\ frame' = Effect(t)
  /\ Goto(t, IF task[t].row.shuffle THEN "shuffle" ELSE "look")
  /\ UNCHANGED <<row, env, service, cycle, streak>>

RestoreShuffle(t) ==
  /\ AtDevice(t, "shuffle")
  /\ frame' = Effect(t)
  /\ Goto(t, "look")
  /\ UNCHANGED <<row, env, service, cycle, streak>>

Look(t) ==
  /\ AtDevice(t, "look")
  /\ Goto(t, IF frame.screen \in Slot THEN "show" ELSE "eraseA")
  /\ UNCHANGED <<row, frame, env, service, cycle, streak>>

ShowPhoto(t) ==
  /\ AtDevice(t, "show")
  /\ frame' = Effect(t)
  /\ Goto(t, "eraseA")
  /\ UNCHANGED <<row, env, service, cycle, streak>>

(* Variant: only the buffer that is in use is taken off the frame.         *)
EraseAInUse(t) ==
  /\ AtDevice(t, "eraseA")
  /\ frame' = IF task[t].row.slot = "a" THEN Effect(t) ELSE frame
  /\ Goto(t, "eraseB")
  /\ UNCHANGED <<row, env, service, cycle, streak>>

EraseA(t) ==
  /\ AtDevice(t, "eraseA")
  /\ frame' = Effect(t) \/ (asleep /\ UNCHANGED frame)
  /\ Goto(t, "eraseB")
  /\ UNCHANGED <<row, env, service, cycle, streak>>

(* Variant: the row forgets that it is engaged but not what the slot held. *)
EraseBKeepsSlot(t) ==
  /\ AtDevice(t, "eraseB")
  /\ frame' = Effect(t) \/ (asleep /\ UNCHANGED frame)
  /\ Save([task[t].row EXCEPT !.engaged = FALSE])
  /\ Ends(t)
  /\ UNCHANGED <<env, streak>>

(* Last, the whole row is saved as this task knew it, now not engaged.     *)
EraseB(t) ==
  /\ AtDevice(t, "eraseB")
  /\ frame' = Effect(t) \/ (asleep /\ UNCHANGED frame)
  /\ Save([task[t].row EXCEPT !.engaged = FALSE, !.slot = None, !.hash = None])
  /\ Ends(t)
  /\ UNCHANGED <<env, streak>>

(* Variant: whatever fails, the row is no longer engaged.                  *)
StandDownGivesUp(t) ==
  /\ asleep
  /\ \E p \in {"time", "shuffle", "look", "show"} : AtDevice(t, p)
  /\ Ends(t)
  /\ frame' \in Executed(t)
  /\ Save([task[t].row EXCEPT !.engaged = FALSE])
  /\ UNCHANGED <<env, streak>>

(* Putting a photo back is optional; slide time and shuffle are not.       *)
StandDownFails(t) ==
  /\ asleep
  /\ \/ (AtDevice(t, "time") \/ AtDevice(t, "shuffle")) /\ Ends(t)
     \/ (AtDevice(t, "look") \/ AtDevice(t, "show")) /\ Goto(t, "eraseA")
        /\ UNCHANGED <<service, cycle>>
  /\ frame' \in Executed(t)
  /\ UNCHANGED <<row, env, streak>>

-----------------------------------------------------------------------------
(* The conductor's cycle.                                                  *)

C == "conductor"
mine == task[C].row

Poll ==
  /\ At(C, "ready")
  /\ IF row.enabled
     THEN GotoWith(C, "load", row) /\ UNCHANGED <<row, service, cycle>>
     ELSE StandDown(C, row)
  /\ UNCHANGED <<frame, env, streak>>

(* Variant: polls without an image are not added up.                       *)
CountedOnce(present) ==
  IF ~present THEN -1
  ELSE IF streak <= 0 THEN 1 ELSE IF streak < Flap THEN streak + 1 ELSE Flap

(* Counted up to the threshold, beyond which nothing depends on it.        *)
Counted(present) ==
  IF present THEN IF streak <= 0 THEN 1 ELSE IF streak < Flap THEN streak + 1 ELSE Flap
             ELSE IF streak >= 0 THEN -1 ELSE IF streak > -Flap THEN streak - 1 ELSE -Flap

(* An image that is being rewritten, or a producer that does not answer,   *)
(* counts as absent.                                                       *)
Loaded == {image, None}

Load ==
  /\ At(C, "load")
  /\ \E data \in Loaded :
       /\ streak' = Counted(data # None)
       /\ IF streak' = -Flap \/ (streak' # Flap /\ ~mine.engaged)
          THEN StandDown(C, mine)
          ELSE IF data = None
          THEN Ends(C) /\ UNCHANGED row
          ELSE /\ Goto(C, "panel")
               /\ cycle' = [cycle EXCEPT !.data = data]
               /\ UNCHANGED <<row, service>>
  /\ UNCHANGED <<frame, env>>

Panel ==
  /\ AtDevice(C, "panel")
  /\ \/ ~showable /\ StandDown(C, mine)
     \/ /\ showable
        /\ Goto(C, IF mine.engaged THEN "photo" ELSE "config")
        /\ cycle' = [cycle EXCEPT !.left = mine.every]
        /\ UNCHANGED <<row, service>>
  /\ UNCHANGED <<frame, env, streak>>

ReadConfig ==
  /\ AtDevice(C, "config")
  /\ cycle' = [cycle EXCEPT !.read = [time |-> frame.time, shuffle |-> frame.shuffle]]
  /\ Goto(C, "engage")
  /\ UNCHANGED <<row, frame, env, service, streak>>

(* Engaged is saved before the frame is touched.                           *)
Engage ==
  /\ At(C, "engage")
  /\ Save([mine EXCEPT !.engaged = TRUE, !.shuffle = cycle.read.shuffle,
                       !.time = IF ParkIsNever /\ cycle.read.time = Parked
                                THEN Default ELSE cycle.read.time])
  /\ GotoWith(C, "park", row')
  /\ UNCHANGED <<frame, env, service, cycle, streak>>

(* Variant: the frame's own shuffle is left on.                            *)
ParkOnly ==
  /\ AtDevice(C, "park")
  /\ frame' = Effect(C)
  /\ Goto(C, "photo")
  /\ UNCHANGED <<row, env, service, cycle, streak>>

Park ==
  /\ AtDevice(C, "park")
  /\ frame' = Effect(C)
  /\ Goto(C, IF mine.shuffle THEN "unshuffle" ELSE "photo")
  /\ UNCHANGED <<row, env, service, cycle, streak>>

Unshuffle ==
  /\ AtDevice(C, "unshuffle")
  /\ frame' = Effect(C)
  /\ Goto(C, "photo")
  /\ UNCHANGED <<row, env, service, cycle, streak>>

(* The photo is on screen: it is noted as last_photo, saving the whole row *)
(* as it was when the cycle began.                                         *)
Photo ==
  /\ AtDevice(C, "photo")
  /\ frame' = Effect(C)
  /\ Save(mine)
  /\ cycle' = [cycle EXCEPT !.left = @ - 1]
  /\ Goto(C, IF mine.slot # None /\ mine.hash = cycle.data THEN "dwell" ELSE "upload")
  /\ UNCHANGED <<env, service, streak>>

Upload ==
  /\ AtDevice(C, "upload")
  /\ frame' = Effect(C)
  /\ Save([mine EXCEPT !.slot = Target(mine), !.hash = cycle.data])
  /\ GotoWith(C, "dwell", row')
  /\ UNCHANGED <<env, service, cycle, streak>>

(* Suppressed: the frame keeps the interlude it has.                       *)
UploadFails ==
  /\ asleep /\ AtDevice(C, "upload")
  /\ frame' \in Executed(C)
  /\ Goto(C, "dwell")
  /\ UNCHANGED <<row, env, service, cycle, streak>>

Dwell ==
  /\ At(C, "dwell")
  /\ \/ cycle.left > 0 /\ Goto(C, "photo") /\ UNCHANGED <<service, cycle>>
     \/ cycle.left = 0 /\ mine.slot # None /\ Goto(C, "slot")
        /\ UNCHANGED <<service, cycle>>
     \/ cycle.left = 0 /\ mine.slot = None /\ Ends(C)
  /\ UNCHANGED <<row, frame, env, streak>>

ShowSlot ==
  /\ AtDevice(C, "slot")
  /\ frame' = Effect(C)
  /\ Ends(C)
  /\ UNCHANGED <<row, env, streak>>

(* The frame does not answer: the cycle is given up, the row kept.         *)
CycleFails ==
  /\ asleep
  /\ \E p \in {"panel", "config", "park", "unshuffle", "photo", "slot"} : AtDevice(C, p)
  /\ frame' \in Executed(C)
  /\ Ends(C)
  /\ UNCHANGED <<row, env, streak>>

-----------------------------------------------------------------------------
(* The service, requests, and the world.                                   *)

Cancelled(enabled) == ~enabled /\ ~At(C, "none")

(* _sync_tasks: a conductor exactly for an enabled row r.  One that is     *)
(* cancelled is replaced by a release, which starts from the row at once.  *)
Synced(r) ==
  IF r.enabled /\ At(C, "none") THEN {[task EXCEPT ![C] = Ready]}
  ELSE IF Cancelled(r.enabled)
  THEN {[task EXCEPT ![C] = Idle,
                     ![t] = IF r.engaged THEN [at |-> "time", row |-> r] ELSE Idle] :
          t \in {u \in Release : At(u, "none")}}
  ELSE {task}

(* A cancelled operation may be executed all the same.                     *)
Sync(r) ==
  /\ task' \in Synced(r)
  /\ line' = LET kept == IF Cancelled(r.enabled) THEN Others(C) ELSE line
                 new == {t \in Release : At(t, "none") /\ task'[t].at # "none"}
             IN  IF new = {} THEN kept ELSE Append(kept, CHOOSE t \in new : TRUE)
  /\ IF Cancelled(r.enabled)
     THEN frame' \in Executed(C) /\ cycle' = NoCycle
     ELSE UNCHANGED <<frame, cycle>>

Supervise ==
  /\ service = "up"
  /\ Sync(row)
  /\ task' # task
  /\ UNCHANGED <<row, env, service, streak>>

Serving == service \in {"recovering", "up"}
Calm == Hasty \/ \A t \in Release \cup {"restore"} : At(t, "none")

(* PUT interlude.                                                          *)
SetInterlude(enabled, every) ==
  /\ Serving /\ Calm
  /\ Save([row EXCEPT !.enabled = enabled, !.every = every])
  /\ Sync(row')
  /\ UNCHANGED <<own, asleep, image, showable, service, streak>>

(* What may be published in this instance.                                *)
Published == IF asleep THEN Fewer ELSE Image

(* PUT or DELETE interlude/image, and a producer that writes the file.     *)
PutImage(i) ==
  /\ Serving /\ Calm
  /\ image' = i
  /\ Sync(row)
  /\ UNCHANGED <<row, own, asleep, showable, service, streak>>

WriteImage(i) ==
  /\ image' = i
  /\ UNCHANGED <<row, frame, own, asleep, showable, service, task, line, cycle,
                  streak>>

SwitchPanel ==
  /\ showable' = ~showable
  /\ UNCHANGED <<row, frame, own, asleep, image, service, task, line, cycle,
                  streak>>

(* A finite park runs out when nobody conducts; a frame that is not parked *)
(* moves on at any time.  Buffers are in the album it moves through.       *)
Advance ==
  /\ frame.time # Parked \/ (~ParkIsNever /\ At(C, "none"))
  /\ \E s \in {"photo"} \cup {u \in Slot : frame.file[u] # None} :
       frame' = [frame EXCEPT !.screen = s]
  /\ UNCHANGED <<row, env, service, task, line, cycle, streak>>

(* A clean shutdown: tasks are cancelled, then an engaged row stood down.  *)
Stop ==
  /\ Serving
  /\ frame' \in Executed(C) \cup Executed("restore")
  /\ task' = [task EXCEPT ![C] = Idle,
                          !["restore"] = IF row.engaged THEN [at |-> "time", row |-> row]
                                         ELSE Idle]
  /\ line' = LET rest == SelectSeq(line, LAMBDA t : t \in Release)
             IN  IF row.engaged THEN Append(rest, "restore") ELSE rest
  /\ service' = IF row.engaged THEN "stopping" ELSE "down"
  /\ cycle' = NoCycle
  /\ UNCHANGED <<row, env, streak>>

Crash ==
  /\ MayCrash
  /\ service # "down"
  /\ frame' \in UNION {Executed(t) : t \in Tasks}
  /\ task' = [t \in Tasks |-> Idle]
  /\ line' = <<>>
  /\ service' = "down"
  /\ cycle' = NoCycle
  /\ UNCHANGED <<row, env, streak>>

(* A new process first restores a frame that was left engaged.             *)
Start ==
  /\ service = "down"
  /\ task' = [t \in Tasks |-> IF t = "restore" /\ row.engaged
                              THEN [at |-> "time", row |-> row] ELSE Idle]
  /\ line' = IF row.engaged THEN <<"restore">> ELSE <<>>
  /\ service' = IF row.engaged THEN "recovering" ELSE "up"
  /\ streak' = 0
  /\ UNCHANGED <<row, frame, env, cycle>>

-----------------------------------------------------------------------------
Standdown(t) ==
  \/ RestoreTime(t)
  \/ RestoreShuffle(t)
  \/ Look(t)
  \/ ShowPhoto(t)
  \/ EraseA(t)
  \/ EraseB(t)
  \/ StandDownFails(t)

Conduct ==
  \/ Poll
  \/ Load
  \/ Panel
  \/ ReadConfig
  \/ Engage
  \/ Park
  \/ Unshuffle
  \/ Photo
  \/ Upload
  \/ UploadFails
  \/ Dwell
  \/ ShowSlot
  \/ CycleFails

Request ==
  \/ \E e \in Enables, n \in Every : SetInterlude(e, n)
  \/ \E i \in Published \cup {None} : PutImage(i)

World ==
  \/ \E i \in Published \cup {None} : WriteImage(i)
  \/ SwitchPanel
  \/ Advance

Next ==
  \/ Conduct
  \/ \E t \in Tasks : Standdown(t)
  \/ Supervise
  \/ Request
  \/ World
  \/ Stop
  \/ Crash
  \/ Start

Spec == Init /\ [][Next]_vars

(* The loop runs every task on, the supervisor polls, a dead hub is        *)
(* restarted, and a frame that is asked again and again answers some time. *)
Fairness ==
  /\ WF_vars(Conduct)
  /\ WF_vars(Supervise)
  /\ WF_vars(Start)
  /\ \A t \in Tasks :
       /\ WF_vars(Standdown(t))
       /\ SF_vars(RestoreTime(t))
       /\ SF_vars(RestoreShuffle(t))

FairSpec == Spec /\ Fairness

-----------------------------------------------------------------------------
(* Properties.                                                             *)

AsTheUserHadIt == frame.time = own.time /\ frame.shuffle = own.shuffle

(* A frame whose slide time or shuffle Slyde has changed is never without  *)
(* the durable row that says how to put them back, a crash at any point    *)
(* included.                                                               *)
RestoreKnown ==
  ~AsTheUserHadIt => row.engaged /\ row.time = own.time /\ row.shuffle = own.shuffle

(* While engaged, Slyde owns the slideshow: when the conductor shows an    *)
(* interlude, the frame's own timer is parked and its shuffle is off.      *)
ConductsParked == ~asleep /\ At(C, "slot") => frame.time = Parked /\ ~frame.shuffle

(* Handed back, a frame that answers keeps no trace of the interlude: no   *)
(* buffer is left on it or shown, whatever upload was cut short.           *)
NoTrace ==
  ~asleep /\ ~row.engaged => frame.screen = "photo" /\ \A s \in Slot : frame.file[s] = None

(* What the frame is told to show in the slot is what the row says the     *)
(* slot holds: unchanged bytes are not uploaded again, so nothing else     *)
(* would correct it.                                                       *)
SlotHoldsImage == ~asleep /\ At(C, "slot") => frame.file[mine.slot] = mine.hash

(* No image means normal operation: once the image is gone for good, the   *)
(* frame gets its own slide time and shuffle back.                         *)
HandedBack ==
  <>[](image = None /\ row.enabled /\ service = "up") => <>[]AsTheUserHadIt
=============================================================================
