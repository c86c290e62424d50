---------------------------- MODULE ImmichImport ----------------------------
(***************************************************************************)
(* A frame's own folders mirrored as albums of the photo server: by        *)
(* copying the photos off the frame ("import"), or by finding the          *)
(* originals that the server already has ("link", and "dry" to report      *)
(* only).  Every request starts a job of its own; jobs interleave at their *)
(* requests, and each request may fail, before or after it took effect.    *)
(***************************************************************************)
EXTENDS FiniteSets, Naturals, Sequences, SequencesExt

CONSTANTS Name,        \* the files of the frame
  Owned,               \* files that are Slyde's buffers, not photos
  Unreadable,          \* files that the frame never hands out
  Folder, Arranged,    \* the user's folders on the frame; what they hold at first
  Photos,              \* the frame's own album of everything
  All,                 \* the album of everything that Slyde makes
  Original, NameOf,    \* photos of the server before any import; their names
  Alike,               \* file -> what a search for its mangled name offers
  Jobs, Faults, Edits, \* bounds: requests by users, failures, changes
  None

ASSUME ImportAssumption ==
  /\ Owned \subseteq Name /\ Unreadable \subseteq Name
  /\ NameOf \in [Original -> Name] /\ Alike \in [Name -> SUBSET Original]
  /\ Arranged \in [Folder -> SUBSET Name] /\ Photos \notin Folder \cup {All}
  /\ Jobs \in Nat /\ Faults \in Nat /\ Edits \in Nat
  /\ None \notin Name \cup Original \cup Folder \cup {Photos, All}

VARIABLES
  device,    \* album of the frame -> the files in it
  once,      \* user folder -> every photo that it ever held
  manifest,  \* the last list of the frame's albums that was read, or None
  assets,    \* the server's photos: originals, and copies by their file name
  album,     \* the server's albums, in the order of their creation
  job,       \* the jobs of this process and of those before it
  overlap,   \* two jobs that make albums have run at the same time
  faults, edits

vars == <<device, once, manifest, assets, album, job, overlap, faults, edits>>
server == <<assets, album>>

Asset == Original \cup Name
Device == [Folder \cup {Photos} -> SUBSET Name]
Target == Folder \cup {All}
Ended == {"done", "error", "gone"}
Phase == {"new", "photos", "settle", "albums", "create", "add"} \cup Ended

Job == [mode : {"import", "link", "dry"}, phase : Phase,
        names : SUBSET Name, left : SUBSET Name, open : SUBSET Name,
        plan : [Target -> SUBSET Name],
        ids : [Name -> Asset \cup {None}], todo : SUBSET Target,
        to : Target \cup {None}, into : Nat, failed : BOOLEAN]

TypeOK ==
  /\ device \in Device /\ once \in [Folder -> SUBSET Name]
  /\ manifest \in Device \cup {None}
  /\ assets \in SUBSET Asset
  /\ album \in Seq([name : Target, members : SUBSET assets])
  /\ job \in Seq(Job) /\ Len(job) <= Jobs
  /\ \A j \in DOMAIN job : job[j].phase = "add" => job[j].into \in DOMAIN album
  /\ overlap \in BOOLEAN /\ faults \in 0 .. Faults /\ edits \in 0 .. Edits

Init ==
  /\ device = [a \in Folder \cup {Photos} |-> IF a = Photos THEN Name ELSE Arranged[a]]
  /\ once = [f \in Folder |-> device[f] \ Owned]
  /\ manifest = None /\ assets = Original /\ album = <<>> /\ job = <<>>
  /\ overlap = FALSE /\ faults = 0 /\ edits = 0

-----------------------------------------------------------------------------
(* What to import and where it goes.                                       *)

(* Variant: every folder is given all there is.                            *)
PlanFlat(d, names) == [t \in Target |-> names]

Everything(d) == UNION {d[a] : a \in DOMAIN d} \ Owned

(* A folder of the user that is itself called "All" takes the place of the *)
(* album of everything.                                                    *)
PlanAlbums(d, names) ==
  [t \in Target |-> IF t \in Folder /\ d[t] \ Owned # {} THEN d[t] \ Owned
                    ELSE IF t = All THEN names ELSE {}]

(* Files and folders have an order, that of the frame's list.              *)
First(S) == CHOOSE n \in S : TRUE

Running(j) == job[j].phase \notin Ended
Makes(j) == Running(j) /\ job[j].mode # "dry"

NewJob(mode) ==
  [mode |-> mode, phase |-> "new", names |-> {}, left |-> {}, open |-> {},
   plan |-> [t \in Target |-> {}], ids |-> [n \in Name |-> None], todo |-> {},
   to |-> None, into |-> 0, failed |-> FALSE]

Over(j, phase) == [NewJob(job[j].mode) EXCEPT !.phase = phase]

(* A request is answered at once, with a job in the background.            *)
Start(mode) ==
  /\ Len(job) < Jobs
  /\ job' = Append(job, NewJob(mode))
  /\ overlap' = (overlap \/ (mode # "dry" /\ \E j \in DOMAIN job : Makes(j)))
  /\ UNCHANGED <<device, once, manifest, assets, album, faults, edits>>

Fault == /\ faults < Faults /\ faults' = faults + 1
Sound == UNCHANGED faults

(* The job has a list of albums.                                           *)
Planned(j, d) ==
  job' = [job EXCEPT ![j].phase = "photos", ![j].names = Everything(d),
                     ![j].left = Everything(d), ![j].plan = PlanAlbums(d, Everything(d))]

SetManifest(d) == manifest' = d

(* The frame is asked for its list; if that fails the last list serves,    *)
(* and without one the job fails.                                          *)
ReadManifest(j) ==
  /\ job[j].phase = "new"
  /\ \/ Sound /\ SetManifest(device) /\ Planned(j, device)
     \/ Fault /\ manifest # None /\ UNCHANGED manifest /\ Planned(j, manifest)
     \/ Fault /\ manifest = None /\ UNCHANGED manifest
        /\ job' = [job EXCEPT ![j] = Over(j, "error")]
  /\ UNCHANGED <<device, once, assets, album, overlap, edits>>

-----------------------------------------------------------------------------
(* The photos, one after the other, in the order of the list.              *)

(* Variants: a photo that failed is tried again; a failure is not counted. *)
PhotoFailedStays(j, n) == [job EXCEPT ![j].failed = TRUE]
PhotoFailedQuietly(j, n) == [job EXCEPT ![j].left = @ \ {n}]

(* One photo that fails does not end the job.                              *)
PhotoFailed(j, n) == [job EXCEPT ![j].left = @ \ {n}, ![j].failed = TRUE]
PhotoDone(j, n, a) == [job EXCEPT ![j].left = @ \ {n}, ![j].ids[n] = a]

Given(n) == n \notin Unreadable /\ \E a \in DOMAIN device : n \in device[a]

(* Download, then upload.  The server knows bytes that it already has, so  *)
(* the copy of a file is one asset however often it is uploaded.           *)
CopyPhoto(j) ==
  /\ job[j].phase = "photos" /\ job[j].mode = "import" /\ job[j].left # {}
  /\ LET n == First(job[j].left) IN
       \/ Sound /\ Given(n) /\ assets' = assets \cup {n} /\ job' = PhotoDone(j, n, n)
       \/ Sound /\ ~Given(n) /\ UNCHANGED assets /\ job' = PhotoFailed(j, n)
       \/ Fault /\ Given(n) /\ assets' \in {assets, assets \cup {n}} /\ job' = PhotoFailed(j, n)
  /\ UNCHANGED <<device, once, manifest, album, overlap, edits>>

Filename(a) == IF a \in Original THEN NameOf[a] ELSE a
Found(n) == {a \in assets : Filename(a) = n}

(* The name decides when it is the name of one asset; no name and several  *)
(* leave the photo unlinked, which is not a failure.                       *)
LookUp(j) ==
  /\ job[j].phase = "photos" /\ job[j].mode # "import" /\ job[j].left # {}
  /\ LET n == First(job[j].left) IN
       \/ /\ Sound
          /\ job' = IF Cardinality(Found(n)) = 1
                    THEN PhotoDone(j, n, CHOOSE a \in Found(n) : TRUE)
                    ELSE [PhotoDone(j, n, None) EXCEPT ![j].open = @ \cup {n}]
       \/ Fault /\ job' = PhotoFailed(j, n)
  /\ UNCHANGED <<device, once, manifest, assets, album, overlap, edits>>

PastPhotos(j) ==
  IF job[j].mode = "dry" THEN [job EXCEPT ![j].phase = "done", ![j].open = {}]
  ELSE [job EXCEPT ![j].phase = "albums", ![j].open = {}, ![j].todo = Target]

(* When every photo has been looked at, what the names left open goes to   *)
(* the thumbnails if the request says so.  A dry run ends before the       *)
(* albums.                                                                 *)
PhotosEnd(j) ==
  /\ job[j].phase = "photos" /\ job[j].left = {}
  /\ \/ job' = PastPhotos(j)
     \/ /\ job[j].mode # "import"
        /\ job' = [job EXCEPT ![j].phase = "settle",
                              ![j].left = job[j].open]
  /\ UNCHANGED <<device, once, manifest, server, overlap, faults, edits>>

(* The assets of an ambiguous name, or those that a search for the stem of *)
(* the name offers, are compared with the frame's thumbnail: a clear       *)
(* winner or none.  A failure leaves the photo unlinked, uncounted.        *)
Offered(n) == Alike[n] \cap assets
Candidates(n) ==
  IF Cardinality(Found(n)) > 1 THEN Found(n) ELSE Found(n) \cup Offered(n)

Settle(j) ==
  /\ job[j].phase = "settle"
  /\ \/ /\ job[j].left # {}
        /\ LET n == First(job[j].left) IN
             \E a \in Candidates(n) \cup {None} : job' = PhotoDone(j, n, a)
     \/ job[j].left = {} /\ job' = PastPhotos(j)
  /\ UNCHANGED <<device, once, manifest, server, overlap, faults, edits>>

-----------------------------------------------------------------------------
(* The albums, one after the other: found by name or created, then filled. *)

Ids(j, t) == {job[j].ids[n] : n \in job[j].plan[t]} \ {None}
Called(t) == {i \in DOMAIN album : album[i].name = t}

AlbumDone(j) == [job EXCEPT ![j].phase = "albums", ![j].to = None, ![j].into = 0]
AlbumFailed(j) == [AlbumDone(j) EXCEPT ![j].failed = TRUE]

(* Variant: no look for an album of the name.                              *)
EnsureAlbumNew(j, t) == [job EXCEPT ![j].to = t, ![j].phase = "create"]

(* The first album of the name, or the decision to create one.             *)
EnsureAlbum(j, t) ==
  IF Called(t) = {} THEN [job EXCEPT ![j].to = t, ![j].phase = "create"]
  ELSE [job EXCEPT ![j].to = t, ![j].phase = "add",
                   ![j].into = CHOOSE i \in Called(t) : \A k \in Called(t) : i <= k]

ToAlbum(j, t) == job' = [EnsureAlbum(j, t) EXCEPT ![j].todo = @ \ {t}]

FindAlbum(j) ==
  /\ job[j].phase = "albums" /\ job[j].todo # {}
  /\ LET t == IF All \in job[j].todo THEN All ELSE First(job[j].todo) IN
       \/ Sound /\ Ids(j, t) # {} /\ ToAlbum(j, t)
       \/ Sound /\ Ids(j, t) = {} /\ job' = [job EXCEPT ![j].todo = @ \ {t}]
       \/ Fault /\ Ids(j, t) # {} /\ job' = [AlbumFailed(j) EXCEPT ![j].todo = @ \ {t}]
  /\ UNCHANGED <<device, once, manifest, server, overlap, edits>>

CreateAlbum(j) ==
  /\ job[j].phase = "create"
  /\ LET created == Append(album, [name |-> job[j].to, members |-> {}]) IN
       \/ /\ Sound /\ album' = created
          /\ job' = [job EXCEPT ![j].phase = "add", ![j].into = Len(created)]
       \/ Fault /\ album' \in {album, created} /\ job' = AlbumFailed(j)
  /\ UNCHANGED <<device, once, manifest, assets, overlap, edits>>

(* Batches: a failure may come after some of them.                         *)
AddAssets(j) ==
  /\ job[j].phase = "add"
  /\ LET i == job[j].into IN
       \/ /\ Sound /\ album' = [album EXCEPT ![i].members = @ \cup Ids(j, job[j].to)]
          /\ job' = AlbumDone(j)
       \/ /\ Fault /\ job' = AlbumFailed(j)
          /\ \E S \in SUBSET Ids(j, job[j].to) :
               album' = [album EXCEPT ![i].members = @ \cup S]
  /\ UNCHANGED <<device, once, manifest, assets, overlap, edits>>

Finish(j) ==
  /\ job[j].phase = "albums" /\ job[j].todo = {}
  /\ job' = [job EXCEPT ![j].phase = "done"]
  /\ UNCHANGED <<device, once, manifest, server, overlap, faults, edits>>

-----------------------------------------------------------------------------
(* Jobs live in memory; the last list of albums and the server's library   *)
(* outlive the process.                                                    *)
Crash ==
  /\ Fault
  /\ job' = [j \in DOMAIN job |-> IF Running(j) THEN Over(j, "gone") ELSE job[j]]
  /\ UNCHANGED <<device, once, manifest, server, overlap, edits>>

(* The user rearranges the frame: a file moves into or out of a folder, or *)
(* leaves the frame.                                                       *)
Rearrange ==
  /\ edits < Edits /\ edits' = edits + 1
  /\ \E n \in Everything(device) :
       \/ \E f \in Folder : device' = [device EXCEPT ![f] =
                                         IF n \in @ THEN @ \ {n} ELSE @ \cup {n}]
       \/ device' = [a \in DOMAIN device |-> device[a] \ {n}]
  /\ once' = [f \in Folder |-> once[f] \cup (device'[f] \ Owned)]
  /\ UNCHANGED <<manifest, server, job, overlap, faults>>

Work(j) ==
  \/ ReadManifest(j) \/ CopyPhoto(j) \/ LookUp(j) \/ PhotosEnd(j) \/ Settle(j)
  \/ FindAlbum(j) \/ CreateAlbum(j) \/ AddAssets(j) \/ Finish(j)

Next ==
  \/ \E mode \in {"import", "link", "dry"} : Start(mode)
  \/ \E j \in DOMAIN job : Work(j)
  \/ Crash \/ Rearrange

(* A job goes on: each of its requests is answered or times out.           *)
FairSpec == /\ Init /\ [][Next]_vars
            /\ \A j \in 1 .. Jobs : WF_vars(j \in DOMAIN job /\ Work(j))

-----------------------------------------------------------------------------
(* A repeated import does not grow a second album of a name, whatever      *)
(* became of the runs before it and of the answers they waited for.  Two   *)
(* jobs at once may: the look-up and the creation are two requests.        *)
OneAlbumPerName ==
  ~overlap => \A i, k \in DOMAIN album : album[i].name = album[k].name => i = k

(* An album holds only what belongs to photos that its folder has held: no *)
(* buffer of Slyde's, nothing of another folder, however stale the list    *)
(* and however the jobs interleave.  The album of everything is not such a *)
(* folder's, even when the user has a folder of its name.                  *)
Answers(n) == {n} \cup {a \in Original : NameOf[a] = n} \cup Alike[n]
MirrorsFolders ==
  \A i \in DOMAIN album : album[i].name \in Folder \ {All} =>
    album[i].members \subseteq UNION {Answers(n) : n \in once[album[i].name]}

(* A job that reports no failure has filed every photo that it matched     *)
(* into an album of each of its folders, and an import has matched all of  *)
(* them.                                                                   *)
CleanIsComplete ==
  \A j \in DOMAIN job : job[j].phase = "done" /\ ~job[j].failed =>
    /\ job[j].mode = "import" => \A n \in job[j].names : job[j].ids[n] # None
    /\ job[j].mode # "dry" =>
         \A t \in Target : Ids(j, t) # {} =>
           \E i \in Called(t) : Ids(j, t) \subseteq album[i].members

(* Every job ends, also past photos that the frame never hands out.        *)
EveryJobEnds ==
  \A j \in 1 .. Jobs : (j <= Len(job)) ~> (j <= Len(job) /\ job[j].phase \in Ended)

=============================================================================
