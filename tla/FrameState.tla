----------------------------- MODULE FrameState -----------------------------
(***************************************************************************)
(* The emulated frame: its photos, albums and slideshow, and their copy on *)
(* disk.  Two threads change them, the one that handles the hub's requests *)
(* and the slideshow's.  The lock is held while memory changes and while a *)
(* snapshot is taken; the files are written without it.                    *)
(***************************************************************************)
EXTENDS FiniteSets, Integers, Sequences, SequencesExt

CONSTANTS Photo,
  Edits,     \* bound on the requests of the hub
  Crashes,   \* bound on the frame's restarts
  None

ASSUME StateAssumption == Edits \in Nat /\ Crashes \in Nat /\ None \notin Photo

VARIABLES
  mem,        \* the state in memory
  disk,       \* state.json, its temporary, and the photo files
  thread,     \* thread -> what it is doing
  confirmed,  \* photos whose upload was confirmed, and no removal asked for
  removed,    \* photos whose removal was confirmed, and no upload begun
  torn,       \* photos whose upload or removal a crash has cut short
  raced,      \* have two saves overlapped?
  edits, crashes

promise == <<confirmed, removed, torn>>
vars == <<mem, disk, thread, promise, raced, edits, crashes>>

Thread == {"control", "cycle"}
Album == {"Photos", "Folder"}
NoDuplicates == {s \in Seq(Photo) : IsInjective(s)}

State == [photos : SUBSET Photo, albums : [Album -> NoDuplicates \cup {None}],
          current : Album, shown : Photo \cup {None}, on : BOOLEAN, shuffle : BOOLEAN]

ASSUME NoneAssumption == None \notin State

(* files: what is done to the photo files after memory has changed.        *)
Files == [do : {"write", "delete"}, of : SUBSET Photo]

TypeOK ==
  /\ mem \in State
  /\ disk \in [state : State, tmp : State \cup {None}, files : SUBSET Photo]
  /\ thread \in [Thread -> [at : {"idle", "files", "snapshot", "tmp", "replace", "dead"},
                            files : Files, snap : State \cup {None}]]
  /\ confirmed \subseteq Photo /\ removed \subseteq Photo /\ torn \subseteq Photo
  /\ raced \in BOOLEAN /\ edits \in 0 .. Edits /\ crashes \in 0 .. Crashes

Factory == [photos |-> {}, albums |-> [a \in Album |-> IF a = "Photos" THEN <<>> ELSE None],
            current |-> "Photos", shown |-> None, on |-> TRUE, shuffle |-> FALSE]

Idle == [at |-> "idle", files |-> [do |-> "write", of |-> {}], snap |-> None]

Init ==
  /\ mem = Factory
  /\ disk = [state |-> Factory, tmp |-> None, files |-> {}]
  /\ thread = [t \in Thread |-> Idle]
  /\ confirmed = {} /\ removed = {} /\ torn = {} /\ raced = FALSE
  /\ edits = 0 /\ crashes = 0

-----------------------------------------------------------------------------
(* Changes in memory, each under the lock.                                 *)

FirstOf(s) == IF s \in {<<>>, None} THEN None ELSE Head(s)

(* The album that the slideshow goes through.                              *)
Names(m) == IF m.albums[m.current] # None THEN m.albums[m.current]
            ELSE IF m.albums["Photos"] # None THEN m.albums["Photos"] ELSE <<>>

Added(p) ==
  [mem EXCEPT !.photos = @ \cup {p},
              !.albums["Photos"] = IF @ = None THEN <<p>>
                                   ELSE IF p \in Range(@) THEN @ ELSE Append(@, p),
              !.shown = IF @ = None THEN p ELSE @]

RemovedImage(folder, p) == RemoveFirst(folder, p)

(* Variant: other albums go on listing it.                                 *)
WithoutListed(p) ==
  LET left == [mem EXCEPT !.photos = @ \ {p},
                 !.albums["Photos"] = IF @ = None THEN None ELSE RemovedImage(@, p)]
  IN [left EXCEPT !.shown = IF @ = p THEN FirstOf(left.albums[left.current]) ELSE @]

Without(p) ==
  LET left == [mem EXCEPT !.photos = @ \ {p},
                 !.albums = [a \in Album |-> IF @[a] = None THEN None
                                             ELSE RemovedImage(@[a], p)]]
  IN [left EXCEPT !.shown = IF @ = p THEN FirstOf(left.albums[left.current]) ELSE @]

(* Variant: the slideshow stops at the last photo.                         *)
AdvancedNoWrap(step) ==
  LET names == Names(mem)
      at == {i \in DOMAIN names : names[i] = mem.shown}
      next == IF at = {} THEN 1 ELSE (CHOOSE i \in at : TRUE) + step
  IN IF names = <<>> THEN {[mem EXCEPT !.shown = None]}
     ELSE {[mem EXCEPT !.shown = IF next \in DOMAIN names THEN names[next] ELSE @]}

(* The slideshow moves on, from an image that is not in the album to the   *)
(* first; with shuffle on to any other.                                    *)
Advanced(step) ==
  LET names == Names(mem)
      at == {i \in DOMAIN names : names[i] = mem.shown}
      next == IF at = {} THEN 1
              ELSE (((CHOOSE i \in at : TRUE) - 1 + step) % Len(names)) + 1
  IN IF names = <<>> THEN {[mem EXCEPT !.shown = None]}
     ELSE IF mem.shuffle /\ step = 1 /\ Len(names) > 1
     THEN {[mem EXCEPT !.shown = p] : p \in Range(names) \ {mem.shown}}
     ELSE {[mem EXCEPT !.shown = names[next]]}

Displayed == {[mem EXCEPT !.shown = p] : p \in mem.photos}

(* What a folder can become: None when there is none.                      *)
AddedAlbum(folder) == IF folder = None THEN <<>> ELSE folder
AddedImage(folder, p) ==
  IF p \in Range(AddedAlbum(folder)) THEN folder ELSE Append(AddedAlbum(folder), p)

(* The hub reads the albums, changes them and sends them back.             *)
AlbumChanges ==
  LET folder == mem.albums["Folder"]
      changed == {AddedAlbum(folder), None}
                 \cup {AddedImage(folder, p) : p \in mem.photos}
                 \cup {RemovedImage(folder, p) : p \in Range(AddedAlbum(folder))}
  IN {[mem EXCEPT !.albums["Folder"] = f] : f \in changed}

Selected ==
  {[mem EXCEPT !.current = a, !.shown = FirstOf(mem.albums[a])] :
     a \in {b \in Album : mem.albums[b] # None}}

Configured == {[mem EXCEPT !.on = b, !.shuffle = c] : b \in BOOLEAN, c \in BOOLEAN}

(* The orientation, on which nothing here depends, is saved all the same.  *)
Oriented == {mem}

SetupChanges == Selected \cup Configured \cup Oriented
FlowChanges == Advanced(1) \cup Advanced(-1) \cup Displayed

-----------------------------------------------------------------------------
(* The threads.                                                            *)

Busy(t, do, P) == [thread EXCEPT ![t] = [at |-> "files", files |-> [do |-> do, of |-> P],
                                        snap |-> None]]

Request == /\ thread["control"].at = "idle" /\ edits < Edits
           /\ edits' = edits + 1
           /\ UNCHANGED <<disk, torn, raced, crashes>>

Upload(p) ==
  /\ Request
  /\ mem' = Added(p)
  /\ thread' = Busy("control", "write", {p})
  /\ removed' = removed \ {p} /\ UNCHANGED confirmed

Delete(p) ==
  /\ Request
  /\ mem' = Without(p)
  /\ thread' = Busy("control", "delete", {p})
  /\ confirmed' = confirmed \ {p} /\ UNCHANGED removed

FactoryReset ==
  /\ Request
  /\ mem' = Factory
  /\ thread' = Busy("control", "delete", Photo)
  /\ confirmed' = {} /\ UNCHANGED removed

Other ==
  /\ Request
  /\ mem' \in AlbumChanges \cup SetupChanges \cup FlowChanges
  /\ thread' = Busy("control", "write", {})
  /\ UNCHANGED <<confirmed, removed>>

Tick ==
  /\ thread["cycle"].at = "idle" /\ mem.on
  /\ mem' \in Advanced(1)
  /\ thread' = Busy("cycle", "write", {})
  /\ UNCHANGED <<disk, promise, raced, edits, crashes>>

(* Variant: a removed photo's file is left where it is.                    *)
PhotoFilesKept(t) ==
  /\ thread[t].at = "files"
  /\ LET f == thread[t].files IN
     disk' = [disk EXCEPT !.files = IF f.do = "write" THEN @ \cup f.of ELSE @]
  /\ thread' = [thread EXCEPT ![t].at = "snapshot"]
  /\ UNCHANGED <<mem, promise, raced, edits, crashes>>

(* Variant: a request is answered as soon as the photo is on disk.         *)
PhotoFilesConfirmed(t) ==
  /\ thread[t].at = "files"
  /\ LET f == thread[t].files IN
     /\ disk' = [disk EXCEPT !.files = IF f.do = "write" THEN @ \cup f.of ELSE @ \ f.of]
     /\ confirmed' = IF f.do = "write" THEN confirmed \cup f.of ELSE confirmed
  /\ thread' = [thread EXCEPT ![t].at = "snapshot"]
  /\ UNCHANGED <<mem, removed, torn, raced, edits, crashes>>

PhotoFiles(t) ==
  /\ thread[t].at = "files"
  /\ LET f == thread[t].files IN
     disk' = [disk EXCEPT !.files = IF f.do = "write" THEN @ \cup f.of ELSE @ \ f.of]
  /\ thread' = [thread EXCEPT ![t].at = "snapshot"]
  /\ UNCHANGED <<mem, promise, raced, edits, crashes>>

Saving(t) == thread[t].at \in {"tmp", "replace"}

Snapshot(t) ==
  /\ thread[t].at = "snapshot"
  /\ thread' = [thread EXCEPT ![t].at = "tmp", ![t].snap = mem]
  /\ raced' = (raced \/ \E u \in Thread : Saving(u))
  /\ UNCHANGED <<mem, disk, promise, edits, crashes>>

WriteTmp(t) ==
  /\ thread[t].at = "tmp"
  /\ disk' = [disk EXCEPT !.tmp = thread[t].snap]
  /\ thread' = [thread EXCEPT ![t].at = "replace", ![t].snap = None]
  /\ UNCHANGED <<mem, promise, raced, edits, crashes>>

(* The temporary may have been moved by the other thread: an error, which  *)
(* ends the slideshow or the hub's session.  Else the request is answered. *)
Replace(t) ==
  /\ thread[t].at = "replace"
  /\ LET f == thread[t].files IN
     IF disk.tmp = None
     THEN /\ thread' = [thread EXCEPT ![t] = [Idle EXCEPT !.at = IF t = "cycle" THEN "dead" ELSE @]]
          /\ UNCHANGED <<disk, confirmed, removed>>
     ELSE /\ thread' = [thread EXCEPT ![t] = Idle]
          /\ disk' = [disk EXCEPT !.state = disk.tmp, !.tmp = None]
          /\ confirmed' = IF f.do = "write" THEN confirmed \cup f.of ELSE confirmed
          /\ removed' = IF f.do = "delete" THEN removed \cup f.of ELSE removed
  /\ UNCHANGED <<mem, torn, raced, edits, crashes>>

(* What a restart finds.                                                   *)
Loaded == [disk.state EXCEPT !.photos = @ \cap disk.files,
                             !.albums["Photos"] = IF @ = None THEN <<>> ELSE @]

Restart ==
  /\ crashes < Crashes /\ crashes' = crashes + 1
  /\ mem' = Loaded
  /\ thread' = [t \in Thread |-> Idle]
  /\ torn' = torn \cup thread["control"].files.of
  /\ UNCHANGED <<disk, confirmed, removed, raced, edits>>

-----------------------------------------------------------------------------
Step(t) == PhotoFiles(t) \/ Snapshot(t) \/ WriteTmp(t) \/ Replace(t)

Next ==
  \/ \E p \in Photo : Upload(p) \/ Delete(p)
  \/ FactoryReset \/ Other \/ Tick \/ Restart
  \/ \E t \in Thread : Step(t)

(* The threads run, and the slideshow's timer goes off.                    *)
FairSpec == Init /\ [][Next]_vars /\ WF_vars(Tick) /\ \A t \in Thread : WF_vars(Step(t))

-----------------------------------------------------------------------------
(* Properties.                                                             *)

(* A photo whose upload was confirmed is still there after a restart, as   *)
(* long as no two saves have overlapped: the later one to be written may   *)
(* be the older.                                                           *)
Survives == ~raced => confirmed \subseteq mem.photos

(* A photo whose removal was confirmed never comes back, whatever state a  *)
(* restart finds.                                                          *)
StaysRemoved == removed \cap mem.photos = {}

(* No album lists, and the screen does not show, a photo that the frame    *)
(* does not have, but for one whose upload or removal a crash cut short.    *)
Listed(m) == UNION {IF m.albums[a] = None THEN {} ELSE Range(m.albums[a]) : a \in Album}
NothingDangles == ~raced => Listed(mem) \cup {mem.shown} \subseteq mem.photos \cup torn \cup {None}

(* Every photo of the selected album is shown again and again, until the   *)
(* display is turned off, shuffle turned on, or two saves have overlapped: *)
(* that may end the slideshow.                                             *)
EveryPhotoShown ==
  \A p \in Photo : []<>(raced \/ ~mem.on \/ mem.shuffle \/ p \notin Range(Names(mem)) \/ mem.shown = p)
=============================================================================
