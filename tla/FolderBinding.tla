---------------------------- MODULE FolderBinding ----------------------------
(***************************************************************************)
(* Keep-in-sync for one frame: folders of its library bound to albums of   *)
(* the photo server, the jobs that users start, and the scheduler's cycle  *)
(* that reconciles every binding.                                          *)
(*                                                                         *)
(* A reconcile suspends while the album is listed.  What it then files     *)
(* comes from a listing, and from a binding, that may be out of date.  The *)
(* delivery that follows is Delivery's subject.                            *)
(***************************************************************************)
EXTENDS FiniteSets, Naturals, Sequences

CONSTANTS Album, Folder, Photo,
  Gone,      \* albums that the photo server cannot list
  Keep,      \* finished jobs that are kept for the UI to poll
  Jobs,      \* bound on the jobs started
  Edits,     \* bound on the other things users, and crashes, do
  None

ASSUME FolderAssumption ==
  /\ Gone \subseteq Album /\ Keep \in Nat \ {0} /\ Jobs \in Nat /\ Edits \in Nat
  /\ None \notin Folder

VARIABLES
  albums,    \* album -> the photos in it now
  bound,     \* album -> the folder it is bound to, or None
  rows,      \* photo -> its library row, or None
  job,       \* job id -> the job
  order,     \* the job ids that the manager still knows, the oldest lowest
  cycle,     \* the scheduler's cycle, or None between two cycles
  edits

vars == <<albums, bound, rows, job, order, cycle, edits>>

Row == [folder : Folder, source : {"sync", "immich"}]
ASSUME RowAssumption == None \notin Row     \* no row is not a row
Binding == Album \X Folder
Listing == SUBSET Photo
Phase == {"new", "asking", "listed", "draining", "done", "error"}

(* A job has the listing from the answer on; a cycle has the bindings as   *)
(* they were when it began, and one listing at a time.                     *)
Job == [what : {"bind", "once"}, on : Binding, phase : Phase, got : Listing]
Cycle == [left : SUBSET Binding, at : Binding \cup {None}, got : Listing]

TypeOK ==
  /\ albums \in [Album -> Listing] /\ bound \in [Album -> Folder \cup {None}]
  /\ rows \in [Photo -> Row \cup {None}]
  /\ job \in Seq(Job) /\ Len(job) <= Jobs
  /\ order \subseteq DOMAIN job
  /\ cycle \in Cycle \cup {None} /\ edits \in 0 .. Edits

Init ==
  /\ albums \in [Album -> Listing]
  /\ bound = [a \in Album |-> None] /\ rows = [p \in Photo |-> None]
  /\ job = <<>> /\ order = {} /\ cycle = None /\ edits = 0

-----------------------------------------------------------------------------
(* Variants: departed photos stay; every row of the folder goes, whatever *)
(* its source.                                                             *)
SyncedMerge(f, S) ==
  [p \in Photo |-> IF p \in S THEN [folder |-> f, source |-> "sync"] ELSE rows[p]]
SyncedWholeFolder(f, S) ==
  [p \in Photo |-> IF p \in S THEN [folder |-> f, source |-> "sync"]
                   ELSE IF rows[p] # None /\ rows[p].folder = f THEN None ELSE rows[p]]

(* The listing becomes the folder's sync set, taking over a photo that has *)
(* a row of another kind or in another folder.                             *)
Synced(f, S) ==
  [p \in Photo |-> IF p \in S THEN [folder |-> f, source |-> "sync"]
                   ELSE IF rows[p] = [folder |-> f, source |-> "sync"] THEN None
                   ELSE rows[p]]

Merged(f, S) ==
  [p \in Photo |-> IF p \in S THEN [folder |-> f, source |-> "immich"] ELSE rows[p]]

-----------------------------------------------------------------------------
(* Jobs.                                                                   *)

Running(j) == job[j].phase \notin {"done", "error"}

(* Variant: the oldest goes, running or not.                               *)
PrunedOldest(ids) ==
  IF Cardinality(ids) > Keep THEN {j \in ids : \E i \in ids : i < j} ELSE ids

(* Finished jobs are forgotten, oldest first, while there are too many.    *)
Pruned(ids) ==
  LET finished == {j \in ids : j \in DOMAIN job /\ ~Running(j)}
      excess == Cardinality(ids) - Keep
  IN ids \ {j \in finished : Cardinality({i \in finished : i <= j}) <= excess}

Start(what, a, f) ==
  /\ Len(job) < Jobs
  /\ job' = Append(job, [what |-> what, on |-> <<a, f>>, phase |-> "new", got |-> {}])
  /\ order' = Pruned(order \cup {Len(job) + 1})
  /\ UNCHANGED <<albums, bound, rows, cycle, edits>>

To(j, phase) == job' = [job EXCEPT ![j].phase = phase]

(* An album has one folder at a time.                                      *)
Subscribed(a, f) == [bound EXCEPT ![a] = f]

(* The job's task gets to run: a binding is there before it is reconciled. *)
Begin(j) ==
  /\ job[j].phase = "new"
  /\ To(j, "asking")
  /\ bound' = IF job[j].what = "bind"
              THEN Subscribed(job[j].on[1], job[j].on[2]) ELSE bound
  /\ UNCHANGED <<albums, rows, order, cycle, edits>>

Listed(j) ==
  /\ job[j].phase = "asking" /\ job[j].on[1] \notin Gone
  /\ job' = [job EXCEPT ![j].phase = "listed", ![j].got = albums[job[j].on[1]]]
  /\ UNCHANGED <<albums, bound, rows, order, cycle, edits>>

File(j) ==
  /\ job[j].phase = "listed"
  /\ job' = [job EXCEPT ![j].phase = "draining", ![j].got = {}]
  /\ LET f == job[j].on[2]  S == job[j].got IN
     rows' = IF job[j].what = "bind" THEN Synced(f, S) ELSE Merged(f, S)
  /\ UNCHANGED <<albums, bound, order, cycle, edits>>

Drained(j) ==
  /\ job[j].phase = "draining"
  /\ To(j, "done")
  /\ UNCHANGED <<albums, bound, rows, order, cycle, edits>>

(* The album could not be listed.  A binding stays for the next cycle.     *)
Failed(j) ==
  /\ job[j].phase = "asking"
  /\ To(j, "error")
  /\ UNCHANGED <<albums, bound, rows, order, cycle, edits>>

-----------------------------------------------------------------------------
(* The scheduler.                                                          *)

CycleBegin ==
  /\ cycle = None
  /\ cycle' = [left |-> {b \in Binding : bound[b[1]] = b[2]}, at |-> None, got |-> {}]
  /\ UNCHANGED <<albums, bound, rows, job, order, edits>>

(* The bindings are taken one after the other, in no particular order.     *)
CycleListed(b) ==
  /\ cycle # None /\ cycle.at = None /\ b \in cycle.left /\ b[1] \notin Gone
  /\ cycle' = [left |-> cycle.left \ {b}, at |-> b, got |-> albums[b[1]]]
  /\ UNCHANGED <<albums, bound, rows, job, order, edits>>

CycleFile ==
  /\ cycle # None /\ cycle.at # None
  /\ rows' = Synced(cycle.at[2], cycle.got)
  /\ cycle' = [cycle EXCEPT !.at = None, !.got = {}]
  /\ UNCHANGED <<albums, bound, job, order, edits>>

(* A binding that fails is counted, and the others get their turn.         *)
CycleFailed(b) ==
  /\ cycle # None /\ cycle.at = None /\ b \in cycle.left
  /\ cycle' = [cycle EXCEPT !.left = @ \ {b}]
  /\ UNCHANGED <<albums, bound, rows, job, order, edits>>

CycleEnd ==
  /\ cycle # None /\ cycle.at = None /\ cycle.left = {}
  /\ cycle' = None
  /\ UNCHANGED <<albums, bound, rows, job, order, edits>>

-----------------------------------------------------------------------------
(* Users, and the process.                                                 *)

Edit == edits < Edits /\ edits' = edits + 1

AlbumChanges(a, S) ==
  /\ Edit
  /\ albums' = [albums EXCEPT ![a] = S]
  /\ UNCHANGED <<bound, rows, job, order, cycle>>

Unbind(a) ==
  /\ Edit /\ bound[a] # None
  /\ bound' = [bound EXCEPT ![a] = None]
  /\ UNCHANGED <<albums, rows, job, order, cycle>>

(* A photo is curated by hand, or removed whatever brought it in.          *)
Curate(p, f) ==
  /\ Edit /\ rows[p] = None
  /\ rows' = [rows EXCEPT ![p] = [folder |-> f, source |-> "immich"]]
  /\ UNCHANGED <<albums, bound, job, order, cycle>>

Drop(p) ==
  /\ Edit /\ rows[p] # None
  /\ rows' = [rows EXCEPT ![p] = None]
  /\ UNCHANGED <<albums, bound, job, order, cycle>>

(* The frame is taken off the registry; a reconcile under way goes on.     *)
Deregister ==
  /\ Edit
  /\ bound' = [a \in Album |-> None] /\ rows' = [p \in Photo |-> None]
  /\ UNCHANGED <<albums, job, order, cycle>>

(* Jobs live as long as the process; the tables stay.                      *)
Crash ==
  /\ Edit
  /\ job' = [j \in DOMAIN job |-> [job[j] EXCEPT !.phase = IF Running(j) THEN "error" ELSE @,
                                                 !.got = {}]]
  /\ order' = {} /\ cycle' = None
  /\ UNCHANGED <<albums, bound, rows>>

-----------------------------------------------------------------------------
JobStep(j) == Begin(j) \/ Listed(j) \/ File(j) \/ Drained(j) \/ Failed(j)
CycleStep == CycleBegin \/ CycleFile \/ CycleEnd \/ \E b \in Binding : CycleListed(b) \/ CycleFailed(b)

Next ==
  \/ \E what \in {"bind", "once"}, b \in Binding : Start(what, b[1], b[2])
  \/ \E j \in DOMAIN job : JobStep(j)
  \/ CycleStep
  \/ \E a \in Album : Unbind(a) \/ \E S \in Listing : AlbumChanges(a, S)
  \/ \E p \in Photo : Drop(p) \/ \E f \in Folder : Curate(p, f)
  \/ Deregister \/ Crash

(* The event loop runs every task that is ready and the timer fires; the   *)
(* photo server, asked again and again, answers for an album that it has.  *)
Fairness ==
  /\ WF_vars(CycleStep)
  /\ \A b \in Binding : SF_vars(CycleListed(b))
  /\ \A j \in 1 .. Jobs : WF_vars(j \in DOMAIN job /\ JobStep(j))

FairSpec == Init /\ [][Next]_vars /\ Fairness

-----------------------------------------------------------------------------
(* Properties.                                                             *)

(* The UI that polls a job that is still running finds it.                 *)
RunningKnown == \A j \in DOMAIN job : Running(j) => j \in order

(* Syncing folders never takes a photo that was curated by hand out of the *)
(* library; it may turn it into a synced one, which then follows its album.*)
CuratedStays ==
  [][\A p \in Photo : rows[p] # None /\ rows[p].source = "immich" /\ rows'[p] = None
       => Drop(p) \/ Deregister]_vars

(* A binding in nobody's way: no other album feeds its folder or shares a  *)
(* photo with it.                                                          *)
Undisputed(a) ==
  /\ bound[a] # None /\ a \notin Gone
  /\ \A c \in Album \ {a} : bound[c] # None =>
       bound[c] # bound[a] /\ albums[c] \cap albums[a] = {}

Mirrors(a) ==
  \A p \in Photo : rows[p] = [folder |-> bound[a], source |-> "sync"] <=> p \in albums[a]

(* However listings, jobs, cycles, failures, crashes and the users' edits  *)
(* interleave, and whichever stale listing is filed last, once the users   *)
(* leave it alone every folder mirrors the album that it is bound to.      *)
Converges == \A a \in Album : <>[](Undisputed(a) => Mirrors(a))
=============================================================================
