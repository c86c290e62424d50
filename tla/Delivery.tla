------------------------------ MODULE Delivery ------------------------------
(***************************************************************************)
(* Curation and guaranteed delivery for ONE frame: the library table, the  *)
(* durable delivery queue, the cache of prepared images and, for a frame   *)
(* on the LAN, the files the device holds.                                 *)
(*                                                                         *)
(* The hub is a single asyncio event loop, so a handler is atomic between  *)
(* two awaits.  A delivery awaits the Immich fetch and the push to the     *)
(* device; a photo ingest awaits the download, the preparation and the     *)
(* preview.  Every other request handler has no await after its first      *)
(* write, and is one action here.                                          *)
(***************************************************************************)
EXTENDS FiniteSets, Naturals

CONSTANTS
  Immich,      \* assets of the photo server
  Key,         \* dest names: the delivery keys, cache keys and file names
  Folder,      \* library folders bound to an Immich album
  Slug,        \* Slug[a]: the canonical dest name of an Immich asset
  Explicit,    \* Explicit[a]: the other dest names a client may ask for
  UploadKey,   \* photo ids minted for app uploads (id = dest name)
  ImportKey,   \* names of device files a frame import may pull
  Puttable,    \* the assets that clients list in a library PUT
  Listing,     \* the album contents Immich may answer with
  Bad,         \* assets whose bytes can never be fetched or prepared
  Served,      \* TRUE: the frame polls us.  FALSE: we push over the LAN
  MayCrash,    \* may the hub's process die in this instance?
  BatchLimit,  \* delivery rows per reconcile batch (100 in the code)
  None

(* A photo uploaded or imported has its dest name as its asset id.         *)
Asset == Immich \cup Key

ASSUME KeysAssumption ==
  /\ Slug \in [Immich -> Key]
  /\ Explicit \in [Immich -> SUBSET Key]
  /\ UploadKey \subseteq Key /\ ImportKey \subseteq Key
  /\ Puttable \subseteq Asset /\ Bad \subseteq Asset
  /\ Listing \subseteq SUBSET Immich
ASSUME DistinctAssumption ==
  /\ Immich \cap Key = {}
  /\ Folder \cap {"immich", "upload", "frame"} = {}
  /\ None \notin Asset
ASSUME ModeAssumption == Served \in BOOLEAN /\ MayCrash \in BOOLEAN
                         /\ BatchLimit \in Nat \ {0}

VARIABLES
  library,   \* asset -> its library_item row, or None
  queue,     \* key -> its delivery row, or None
  cache,     \* key -> whose prepared image is cached, or None
  uploads,   \* key -> whose original is kept locally, or None
  device,    \* key -> whose picture the device's file shows, or None
  batch,     \* key -> the row as reconcile read it, or None when done
  job,       \* the item reconcile is delivering, or None
  ingest,    \* the upload or import in progress, or None
  erasing    \* removed photos whose device file the client still has to erase

vars == <<library, queue, cache, uploads, device, batch, job, ingest, erasing>>

(* source = a folder stands for source 'sync' bound to that folder.        *)
LibraryRow == [dest : Key, source : {"immich", "upload", "frame"} \cup Folder]
QueueRow == [payload : Asset, state : {"pending", "delivered", "failed"},
             due : BOOLEAN]
(* Row ids are AUTOINCREMENT: an id read into a batch names the row until  *)
(* the row is deleted and nothing afterwards.  live says it still does.    *)
Snapshot == [payload : Asset, live : BOOLEAN]
Job == [key : Key, phase : {"fetch", "push", "landed"}, image : Asset \cup {None}]
Ingest == [key : Key, source : {"upload", "frame"}, image : Asset,
           phase : {"download", "prepare", "preview"}]

(* None is no record: "no row" and "a row" cannot be confused.             *)
ASSUME NoneAssumption == None \notin Snapshot \cup QueueRow \cup LibraryRow

TypeOK ==
  /\ library \in [Asset -> LibraryRow \cup {None}]
  /\ queue \in [Key -> QueueRow \cup {None}]
  /\ cache \in [Key -> Asset \cup {None}]
  /\ uploads \in [Key -> Asset \cup {None}]
  /\ device \in [Key -> Asset \cup {None}]
  /\ batch \in [Key -> Snapshot \cup {None}]
  /\ job \in Job \cup {None}
  /\ ingest \in Ingest \cup {None}
  /\ erasing \subseteq Key

Empty(S) == [x \in S |-> None]

(* A frame just registered; a device may already hold pictures of its own, *)
(* under names that Slyde never made up.                                   *)
Init ==
  /\ library = Empty(Asset)
  /\ queue = Empty(Key)
  /\ cache = Empty(Key)
  /\ uploads = Empty(Key)
  /\ device \in {[k \in Key |-> IF k \in D THEN k ELSE None] :
                   D \in SUBSET (IF Served THEN {}
                               ELSE ImportKey \ {Slug[a] : a \in Immich})}
  /\ batch = Empty(Key)
  /\ job = None
  /\ ingest = None
  /\ erasing = {}

-----------------------------------------------------------------------------
(* Helpers of the store and of the library.                                *)

Items(lib) == {a \in Asset : lib[a] # None}
DestsOf(lib) == {lib[a].dest : a \in Items(lib)}

Queued(a) == [payload |-> a, state |-> "pending", due |-> TRUE]

(* Evicting a key drops its cached image and its delivery row.             *)
Without(f, K) == [k \in Key |-> IF k \in K THEN None ELSE f[k]]
Orphaned(b, K) ==
  [k \in Key |-> IF k \in K /\ b[k] # None THEN [b[k] EXCEPT !.live = FALSE]
                 ELSE b[k]]

OnFrame(q, k, a) == q[k] # None /\ q[k].state = "delivered" /\ q[k].payload = a

(* Variants, as a plausible slip would write them: forgetting what is on   *)
(* the frame already; queueing only keys that have no row yet.             *)
WantedAll(lib, q) == Items(lib)
WantedNewKeys(lib, q) == {a \in Items(lib) : q[lib[a].dest] = None}

(* The library items enqueue_desired (re-)queues: all that are not already *)
(* delivered with the same asset, pending and failed rows included.        *)
Wanted(lib, q) == {a \in Items(lib) : ~OnFrame(q, lib[a].dest, a)}

(* Items that share a dest overwrite each other; the last one stays.       *)
LastWriters(lib, W) ==
  {L \in SUBSET W :
     \A a \in W : \E b \in L : /\ lib[b].dest = lib[a].dest
                               /\ \A c \in L : lib[c].dest = lib[a].dest => c = b}

EnqueueDesired(lib, q) ==
  {[k \in Key |-> IF \E a \in L : lib[a].dest = k
                  THEN Queued(CHOOSE a \in L : lib[a].dest = k) ELSE q[k]] :
     L \in LastWriters(lib, Wanted(lib, q))}

(* The image that delivering payload under key k must show.                *)
ImageOf(payload, k) ==
  IF payload \in Immich THEN payload
  ELSE IF uploads[k] # None THEN uploads[k] ELSE payload

-----------------------------------------------------------------------------
(* From one await to the next reconcile keeps the event loop: no request   *)
(* is handled between the end of an item and the start of the next one.    *)
LoopFree == job # None \/ batch = Empty(Key)

(* Curation: PUT library, DELETE library item, folder sync, add album.     *)

(* An explicit dest name wins, else the one the asset has, else the slug.  *)
Names(a) ==
  LET own == IF library[a] # None THEN library[a].dest
             ELSE IF a \in Immich THEN Slug[a] ELSE a
  IN  {own} \cup (IF a \in Immich THEN Explicit[a] ELSE {a})

Replaced(S, name) ==
  [a \in Asset |-> IF a \in S THEN [dest |-> name[a], source |-> "immich"]
                   ELSE IF library[a] # None /\ library[a].source # "immich"
                        THEN library[a] ELSE None]

Dropped(name) ==
  {library[a].dest : a \in {b \in Items(library) : library[b].source = "immich"}}
    \ {name[a] : a \in DOMAIN name}

(* A listed asset that is in the library under another source breaks the   *)
(* primary key: the transaction is rolled back, but the evictions stand.   *)
Conflicts(S) == \E a \in S : library[a] # None /\ library[a].source # "immich"

PutLibrary(S, name) ==
  /\ LoopFree
  /\ \A a \in S : name[a] \in Names(a)
  /\ ~Conflicts(S)
  /\ library' = Replaced(S, name)
  /\ cache' = Without(cache, Dropped(name))
  /\ batch' = Orphaned(batch, Dropped(name))
  /\ queue' \in EnqueueDesired(Replaced(S, name), Without(queue, Dropped(name)))
  /\ UNCHANGED <<uploads, device, job, ingest, erasing>>

PutRefused(S, name) ==
  /\ LoopFree
  /\ \A a \in S : name[a] \in Names(a)
  /\ Conflicts(S)
  /\ cache' = Without(cache, Dropped(name))
  /\ batch' = Orphaned(batch, Dropped(name))
  /\ queue' = Without(queue, Dropped(name))
  /\ UNCHANGED <<library, uploads, device, job, ingest, erasing>>

(* Every row with the asset's dest goes.  On a connected frame the client  *)
(* then asks, in a request of its own, for the device file to be deleted.  *)
RemoveItem(a) ==
  /\ LoopFree
  /\ library[a] # None
  /\ LET k == library[a].dest IN
       /\ library' = [b \in Asset |-> IF library[b] # None /\ library[b].dest = k
                                      THEN None ELSE library[b]]
       /\ cache' = Without(cache, {k})
       /\ queue' = Without(queue, {k})
       /\ batch' = Orphaned(batch, {k})
       /\ erasing' = IF Served THEN erasing ELSE erasing \cup {k}
  /\ UNCHANGED <<uploads, device, job, ingest>>

EraseOnDevice(k) ==
  /\ k \in erasing
  /\ erasing' = erasing \ {k}
  /\ \/ device' = [device EXCEPT ![k] = None]
     \/ UNCHANGED device                        \* asleep: best effort
  /\ UNCHANGED <<library, queue, cache, uploads, batch, job, ingest>>

(* The album listing S arrived: make it folder f's set, evict what left.   *)
Synced(f, S) ==
  [a \in Asset |-> IF a \in S THEN [dest |-> Slug[a], source |-> f]
                   ELSE IF library[a] # None /\ library[a].source = f
                        THEN None ELSE library[a]]

LeftFolder(f, S) ==
  {library[a].dest : a \in {b \in Items(library) : library[b].source = f}}
    \ {Slug[a] : a \in S}

(* Variant: the cached image goes, the delivery row stays.                 *)
FolderSyncKeepsRow(f, S) ==
  /\ LoopFree
  /\ library' = Synced(f, S)
  /\ cache' = Without(cache, LeftFolder(f, S))
  /\ batch' = batch
  /\ queue' \in EnqueueDesired(Synced(f, S), queue)
  /\ UNCHANGED <<uploads, device, job, ingest, erasing>>

FolderSync(f, S) ==
  /\ LoopFree
  /\ library' = Synced(f, S)
  /\ cache' = Without(cache, LeftFolder(f, S))
  /\ batch' = Orphaned(batch, LeftFolder(f, S))
  /\ queue' \in EnqueueDesired(Synced(f, S), Without(queue, LeftFolder(f, S)))
  /\ UNCHANGED <<uploads, device, job, ingest, erasing>>

AddAlbumOnce(S) ==
  LET merged == [a \in Asset |-> IF a \in S
                                 THEN [dest |-> Slug[a], source |-> "immich"]
                                 ELSE library[a]]
  IN /\ LoopFree
     /\ library' = merged
     /\ queue' \in EnqueueDesired(merged, queue)
     /\ UNCHANGED <<cache, uploads, device, batch, job, ingest, erasing>>

-----------------------------------------------------------------------------
(* Ingest: an app upload, or a frame import pulling a file off the device. *)

UploadBegin(k) ==
  /\ LoopFree
  /\ ingest = None
  /\ k \in UploadKey /\ uploads[k] = None
  /\ uploads' = [uploads EXCEPT ![k] = k]
  /\ ingest' = [key |-> k, source |-> "upload", image |-> k, phase |-> "prepare"]
  /\ UNCHANGED <<library, queue, cache, device, batch, job, erasing>>

ImportBegin(k) ==
  /\ LoopFree
  /\ ingest = None
  /\ k \in ImportKey /\ device[k] # None
  /\ k \notin DestsOf(library)                       \* 'already' is read here
  /\ ingest' = [key |-> k, source |-> "frame", image |-> device[k],
                phase |-> "download"]
  /\ UNCHANGED <<library, queue, cache, uploads, device, batch, job, erasing>>

(* The bytes are those the file has when the device answers.               *)
ImportDownloaded ==
  /\ LoopFree
  /\ ingest # None /\ ingest.phase = "download"
  /\ device[ingest.key] # None
  /\ uploads' = [uploads EXCEPT ![ingest.key] = device[ingest.key]]
  /\ ingest' = [ingest EXCEPT !.phase = "prepare", !.image = device[ingest.key]]
  /\ UNCHANGED <<library, queue, cache, device, batch, job, erasing>>

IngestPrepared ==
  /\ LoopFree
  /\ ingest # None /\ ingest.phase = "prepare"
  /\ ingest.image \notin Bad
  /\ cache' = [cache EXCEPT ![ingest.key] = ingest.image]
  /\ ingest' = [ingest EXCEPT !.phase = "preview"]
  /\ UNCHANGED <<library, queue, uploads, device, batch, job, erasing>>

(* Variant: an import is queued like an upload.                            *)
IngestJoinPending ==
  /\ LoopFree
  /\ ingest # None /\ ingest.phase = "preview"
  /\ library' = [library EXCEPT ![ingest.key] =
                   [dest |-> ingest.key, source |-> ingest.source]]
  /\ queue' = [queue EXCEPT ![ingest.key] = Queued(ingest.key)]
  /\ ingest' = None
  /\ UNCHANGED <<cache, uploads, device, batch, job, erasing>>

(* The photo joins the library and the queue; an import, which is on the   *)
(* frame already, is marked delivered with no await in between.            *)
IngestJoin ==
  /\ LoopFree
  /\ ingest # None /\ ingest.phase = "preview"
  /\ LET k == ingest.key IN
       /\ library' = [library EXCEPT ![k] = [dest |-> k, source |-> ingest.source]]
       /\ queue' = [queue EXCEPT ![k] =
                      [Queued(k) EXCEPT !.state = IF ingest.source = "frame"
                                                  THEN "delivered" ELSE "pending"]]
  /\ ingest' = None
  /\ UNCHANGED <<cache, uploads, device, batch, job, erasing>>

(* A failed download, an undecodable photo, a client that went away.       *)
IngestFails ==
  /\ LoopFree
  /\ ingest # None
  /\ ingest' = None
  /\ UNCHANGED <<library, queue, cache, uploads, device, batch, job, erasing>>

-----------------------------------------------------------------------------
(* Delivery: one batch of due rows at a time, one item after the other.    *)

Due == {k \in Key : queue[k] # None /\ queue[k].state = "pending" /\ queue[k].due}

BatchBegin ==
  /\ job = None /\ batch = Empty(Key)
  /\ \E K \in SUBSET Due :
       /\ K # {}
       /\ K = Due \/ Cardinality(K) = BatchLimit
       /\ Cardinality(K) <= BatchLimit
       /\ batch' = [k \in Key |-> IF k \in K
                                  THEN [payload |-> queue[k].payload, live |-> TRUE]
                                  ELSE None]
  /\ UNCHANGED <<library, queue, cache, uploads, device, job, ingest, erasing>>

(* Variants: a retry that is parked in a state no query selects, and a     *)
(* hiccup taken for a permanent failure.                                   *)
PostponedAway(k) ==
  IF batch[k].live THEN [queue EXCEPT ![k].state = "retrying"] ELSE queue
PostponedForGood(k) ==
  IF batch[k].live THEN [queue EXCEPT ![k].state = "failed"] ELSE queue

(* mark_delivered and reschedule_delivery name the row by its id.          *)
Marked(k) == IF batch[k].live THEN [queue EXCEPT ![k].state = "delivered"] ELSE queue
Postponed(k) == IF batch[k].live THEN [queue EXCEPT ![k].due = FALSE] ELSE queue

Finished(k) == batch' = [batch EXCEPT ![k] = None] /\ job' = None

(* Variant: the first cached image instead of the key's own.               *)
DeliverAnyCached(k) ==
  /\ job = None /\ batch[k] # None
  /\ cache[k] # None
  /\ IF Served
     THEN queue' = Marked(k) /\ Finished(k)
     ELSE /\ \E i \in Key : /\ cache[i] # None
                           /\ job' = [key |-> k, phase |-> "push", image |-> cache[i]]
          /\ UNCHANGED <<queue, batch>>
  /\ UNCHANGED <<library, cache, uploads, device, ingest, erasing>>

(* _deliver up to its first await: a cached image is used as it is, and a  *)
(* served frame then needs nothing more.                                   *)
DeliverCached(k) ==
  /\ job = None /\ batch[k] # None
  /\ cache[k] # None
  /\ IF Served
     THEN queue' = Marked(k) /\ Finished(k)
     ELSE /\ job' = [key |-> k, phase |-> "push", image |-> cache[k]]
          /\ UNCHANGED <<queue, batch>>
  /\ UNCHANGED <<library, cache, uploads, device, ingest, erasing>>

DeliverUncached(k) ==
  /\ job = None /\ batch[k] # None
  /\ cache[k] = None
  /\ job' = [key |-> k, phase |-> "fetch", image |-> uploads[k]]
  /\ UNCHANGED <<library, queue, cache, uploads, device, batch, ingest, erasing>>

(* The original, read locally before the await or from Immich, is ready.   *)
Source == IF job.image # None THEN job.image ELSE batch[job.key].payload

FetchOk ==
  /\ job # None /\ job.phase = "fetch"
  /\ Source \notin Bad
  /\ job.image # None \/ batch[job.key].payload \in Immich
  /\ cache' = [cache EXCEPT ![job.key] = Source]
  /\ IF Served
     THEN queue' = Marked(job.key) /\ Finished(job.key)
     ELSE job' = [job EXCEPT !.phase = "push", !.image = Source]
          /\ UNCHANGED <<queue, batch>>
  /\ UNCHANGED <<library, uploads, device, ingest, erasing>>

(* The device has the file; the loop learns of it when the await returns.  *)
PushLands ==
  /\ job # None /\ job.phase = "push"
  /\ device' = [device EXCEPT ![job.key] = job.image]
  /\ job' = [job EXCEPT !.phase = "landed"]
  /\ UNCHANGED <<library, queue, cache, uploads, batch, ingest, erasing>>

PushOk ==
  /\ job # None /\ job.phase = "landed"
  /\ queue' = Marked(job.key)
  /\ Finished(job.key)
  /\ UNCHANGED <<library, cache, uploads, device, ingest, erasing>>

(* Immich down, the frame offline, or bytes that do not decode: always a   *)
(* retry.  A push that failed may have reached the device all the same.    *)
DeliverFails ==
  /\ job # None
  /\ queue' = Postponed(job.key)
  /\ Finished(job.key)
  /\ UNCHANGED <<library, cache, uploads, device, ingest, erasing>>

(* The backoff of a postponed row has run out.                             *)
TimePasses(k) ==
  /\ queue[k] # None /\ queue[k].state = "pending" /\ ~queue[k].due
  /\ queue' = [queue EXCEPT ![k].due = TRUE]
  /\ UNCHANGED <<library, cache, uploads, device, batch, job, ingest, erasing>>

(* The process dies and restarts: the tables, the cache and the device are *)
(* durable, the tasks are gone.                                            *)
Crash ==
  /\ MayCrash
  /\ \/ batch # Empty(Key)
     \/ ingest # None
  /\ batch' = Empty(Key)
  /\ job' = None
  /\ ingest' = None
  /\ UNCHANGED <<library, queue, cache, uploads, device, erasing>>

-----------------------------------------------------------------------------
(* Clients list what Immich has and the items the library shows them.      *)
Listable == {a \in Puttable : a \in Immich \/ library[a] # None}

Curate ==
  \/ \E S \in SUBSET Listable : \E name \in [S -> Key] :
       PutLibrary(S, name) \/ PutRefused(S, name)
  \/ \E a \in Asset : RemoveItem(a)
  \/ \E f \in Folder, S \in Listing : FolderSync(f, S)
  \/ \E S \in Listing : AddAlbumOnce(S)

Ingesting ==
  \/ \E k \in Key : UploadBegin(k) \/ ImportBegin(k)
  \/ ImportDownloaded
  \/ IngestPrepared
  \/ IngestJoin
  \/ IngestFails

Deliver ==
  \/ BatchBegin
  \/ \E k \in Key : DeliverCached(k) \/ DeliverUncached(k)
  \/ FetchOk
  \/ PushOk
  \/ DeliverFails

Next ==
  \/ Deliver
  \/ Curate
  \/ Ingesting
  \/ PushLands
  \/ \E k \in Key : EraseOnDevice(k) \/ TimePasses(k)
  \/ Crash

Spec == Init /\ [][Next]_vars

(* The drain timer keeps firing and each key's turn comes again; a fetch   *)
(* or a push ends, in a timeout if need be; Immich and the frame are       *)
(* reachable again and again, and not only at moments when the process is  *)
(* about to die.  Nothing obliges a client to act.                         *)
Fairness ==
  /\ WF_vars(BatchBegin)
  /\ WF_vars(FetchOk \/ PushOk \/ DeliverFails)
  /\ \A k \in Key :
       /\ WF_vars(TimePasses(k))
       /\ SF_vars(DeliverCached(k))
       /\ SF_vars(DeliverUncached(k))
       /\ SF_vars(FetchOk /\ job.key = k)
       /\ SF_vars(PushLands /\ job.key = k)
       /\ SF_vars(PushOk /\ job.key = k)

FairSpec == Spec /\ Fairness

-----------------------------------------------------------------------------
(* Properties.                                                             *)

(* The poll is the delivery: a served frame's row says "delivered" only    *)
(* while its prepared image waits in the cache, whatever evictions,        *)
(* re-curations and restarts happened around the fetch.                    *)
ServedFromCache ==
  Served => \A k \in Key :
    queue[k] # None /\ queue[k].state = "delivered" => cache[k] # None

(* Does the queue know about the library item a (or the one that took over *)
(* its dest name)?                                                         *)
Tracked(a) ==
  /\ queue[library[a].dest] # None
  /\ LET p == queue[library[a].dest].payload IN
       library[p] # None /\ library[p].dest = library[a].dest

(* Every intended change is durably queued: an item that enters the        *)
(* library, or changes its dest name, source or folder there, has its      *)
(* delivery row in the very same step.                                     *)
EveryChangeQueued ==
  [][\A a \in Asset : library'[a] # None /\ library'[a] # library[a] => Tracked(a)']_vars

(* A push marks a row "delivered" only if the picture that landed is that  *)
(* row's own, never one that another request has replaced in the meantime. *)
LandsWhatItMarks ==
  [][\A k \in Key :
       /\ job # None /\ job.key = k /\ job.phase = "landed"
       /\ queue[k] # None /\ queue[k].state # "delivered"
       /\ queue'[k] # None /\ queue'[k].state = "delivered"
       => job.image = ImageOf(queue'[k].payload, k)]_vars

(* A PUT that runs into a photo of another source: its evictions stand.    *)
Refused == \E S \in SUBSET Listable : \E name \in [S -> Key] : PutRefused(S, name)

(* Only the delta is delivered: while a photo stays in the library under   *)
(* its name, no request but a refused PUT puts its delivered row back in   *)
(* the queue or takes it away.                                             *)
DeltaOnly ==
  [][\A a \in Asset :
       /\ library[a] # None /\ library'[a] # None
       /\ library'[a].dest = library[a].dest
       /\ OnFrame(queue, library[a].dest, a)
       => OnFrame(queue', library[a].dest, a) \/ Refused]_vars

(* A photo imported off the frame is there already: no batch ever picks it *)
(* up to push it back.                                                     *)
ImportedNotResent == \A k \in ImportKey : batch[k] = None

(* A photo that is curated under a name that has no delivery row.          *)
Curated(a, k) == library[a] # None /\ library[a].dest = k
Forgotten(a, k) == Curated(a, k) /\ queue[k] = None

(* Guaranteed delivery: a photo that stays curated under one name is in    *)
(* the end delivered, however often the frame was away, the hub restarted  *)
(* or another photo that can never be prepared was tried again.  The       *)
(* exception: a refused PUT evicts the rows of photos that stay curated,   *)
(* and they are not delivered before another request queues them again.    *)
(* Nothing else leaves a curated photo without its row.                    *)
DesiredDelivered ==
  /\ \A a \in Asset \ Bad, k \in Key :
       <>[](Curated(a, k) /\ ~Forgotten(a, k)) => <>[]OnFrame(queue, k, a)
  /\ [][\A a \in Asset, k \in Key :
          Forgotten(a, k)' => Forgotten(a, k) \/ Refused]_vars
=============================================================================
