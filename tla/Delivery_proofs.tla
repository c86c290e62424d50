-------------------------- MODULE Delivery_proofs --------------------------
(***************************************************************************)
(* Proofs about Delivery, for any assets, names, folders and batch limit,  *)
(* and for both kinds of frame.                                            *)
(*                                                                         *)
(* Neither TypeOK nor ServedFromCache is inductive.  A delivery works on a *)
(* snapshot of the queue while requests delete and re-create its rows, so  *)
(* the inductive invariant says what the snapshot still promises: a live   *)
(* id names a row that exists, and the item being delivered belongs to the *)
(* batch.  And it says why nothing but a fetch marks a served frame's row: *)
(* such a frame holds no files, is never pushed to or imported from.       *)
(*                                                                         *)
(* LandsWhatItMarks, DeltaOnly and ImportedNotResent hold as long as names *)
(* keep photos apart (DistinctNames).  Then every row, snapshot, cached    *)
(* image and device file under a name is of the photo that the name stands *)
(* for (Owned), so what a request replaces under a delivery in flight is   *)
(* replaced by the same picture.                                           *)
(*                                                                         *)
(* The last part is about FolderBinding, which models the folder sync and  *)
(* the merge into the same table more closely: RunningKnown, CuratedStays, *)
(* and that the two modules agree on what the table becomes.               *)
(***************************************************************************)
EXTENDS Delivery, SequenceTheorems, TLAPS

LiveRows ==
  \A k \in Key : batch[k] # None /\ batch[k].live => queue[k] \in QueueRow

JobInBatch == job # None => batch[job.key] \in Snapshot

OnlyPolled ==
  Served => /\ \A k \in Key : device[k] = None
            /\ job # None => job.phase = "fetch"
            /\ ingest # None => ingest.source = "upload"

IInv == TypeOK /\ LiveRows /\ JobInBatch /\ OnlyPolled /\ ServedFromCache

-----------------------------------------------------------------------------
(* Lemmas about the helpers.                                               *)

(* Queueing what is desired leaves a row as it was or makes it pending.    *)
LEMMA EnqueueDesiredLemma ==
  ASSUME NEW lib \in [Asset -> LibraryRow \cup {None}],
         NEW q \in [Key -> QueueRow \cup {None}],
         NEW r \in EnqueueDesired(lib, q)
  PROVE  /\ r \in [Key -> QueueRow \cup {None}]
         /\ \A k \in Key : r[k] = q[k] \/ \E a \in Asset : r[k] = Queued(a)
<1>1. PICK L \in LastWriters(lib, Wanted(lib, q)) :
        r = [k \in Key |-> IF \E a \in L : lib[a].dest = k
                           THEN Queued(CHOOSE a \in L : lib[a].dest = k) ELSE q[k]]
  BY DEF EnqueueDesired
<1>2. L \subseteq Asset
  BY DEF LastWriters, Wanted, Items
<1>3. \A k \in Key : r[k] = q[k] \/ \E a \in Asset : r[k] = Queued(a)
  <2>1. SUFFICES ASSUME NEW k \in Key, \E a \in L : lib[a].dest = k
                 PROVE  \E a \in Asset : r[k] = Queued(a)
    BY <1>1
  <2>2. (CHOOSE a \in L : lib[a].dest = k) \in L
    BY <2>1
  <2>3. r[k] = Queued(CHOOSE a \in L : lib[a].dest = k)
    BY <1>1, <2>1
  <2>4. QED
    BY <1>2, <2>2, <2>3
<1>4. \A a \in Asset : Queued(a) \in QueueRow
  BY DEF Queued, QueueRow
<1>5. r \in [Key -> QueueRow \cup {None}]
  <2>1. \A k \in Key : r[k] \in QueueRow \cup {None}
    BY <1>3, <1>4
  <2>2. QED
    BY <1>1, <2>1
<1>6. QED
  BY <1>3, <1>5

LEMMA QueuedLemma ==
  ASSUME NEW a \in Asset
  PROVE  Queued(a) \in QueueRow /\ Queued(a).state = "pending"
BY DEF Queued, QueueRow

(* An orphaned id is not live; the others keep their rows.                 *)
LEMMA OrphanedLemma ==
  ASSUME NEW b \in [Key -> Snapshot \cup {None}], NEW K \in SUBSET Key
  PROVE  /\ Orphaned(b, K) \in [Key -> Snapshot \cup {None}]
         /\ \A k \in Key :
              /\ b[k] \in Snapshot => Orphaned(b, K)[k] \in Snapshot
              /\ Orphaned(b, K)[k] # None /\ Orphaned(b, K)[k].live
                 => k \notin K /\ b[k] # None /\ b[k].live
<1>1. \A k \in Key : b[k] # None =>
        /\ b[k] \in Snapshot
        /\ [b[k] EXCEPT !.live = FALSE] \in Snapshot
        /\ [b[k] EXCEPT !.live = FALSE].live = FALSE
  BY DEF Snapshot
<1>2. \A k \in Key : Orphaned(b, K)[k] = IF k \in K /\ b[k] # None
                                         THEN [b[k] EXCEPT !.live = FALSE] ELSE b[k]
  BY DEF Orphaned
<1>3. Orphaned(b, K) = [k \in Key |-> Orphaned(b, K)[k]]
  BY DEF Orphaned
<1>4. \A k \in Key : Orphaned(b, K)[k] \in Snapshot \cup {None}
  BY <1>1, <1>2
<1>5. Orphaned(b, K) \in [Key -> Snapshot \cup {None}]
  BY <1>3, <1>4
<1>6. ASSUME NEW k \in Key
      PROVE  /\ b[k] \in Snapshot => Orphaned(b, K)[k] \in Snapshot
             /\ Orphaned(b, K)[k] # None /\ Orphaned(b, K)[k].live
                => k \notin K /\ b[k] # None /\ b[k].live
  <2>1. CASE k \in K /\ b[k] # None
    BY <1>1, <1>2, <2>1
  <2>2. CASE ~(k \in K /\ b[k] # None)
    BY <1>2, <2>2
  <2>3. QED
    BY <2>1, <2>2
<1>7. QED
  BY <1>5, <1>6

(* What every request does that evicts the keys K and queues anew: the     *)
(* cache, the rows and the ids of K go, rows that are left stay or become  *)
(* pending.                                                                *)
LEMMA EvictionLemma ==
  ASSUME IInv, NEW K \in SUBSET Key,
         library' \in [Asset -> LibraryRow \cup {None}],
         cache' = Without(cache, K),
         batch' = Orphaned(batch, K),
         queue' \in [Key -> QueueRow \cup {None}],
         \A k \in Key : \/ queue'[k] = Without(queue, K)[k]
                        \/ \E a \in Asset : queue'[k] = Queued(a),
         erasing' \in SUBSET Key,
         UNCHANGED <<uploads, device, job, ingest>>
  PROVE  IInv'
<1> USE DEF IInv
<1>1. \A k \in Key : /\ k \in K => Without(queue, K)[k] = None
                     /\ k \notin K => Without(queue, K)[k] = queue[k]
                     /\ k \notin K => cache'[k] = cache[k]
  BY DEF Without
<1>2. cache' \in [Key -> Asset \cup {None}]
  BY DEF Without, TypeOK
<1>3. /\ batch' \in [Key -> Snapshot \cup {None}]
      /\ \A k \in Key :
           /\ batch[k] \in Snapshot => batch'[k] \in Snapshot
           /\ batch'[k] # None /\ batch'[k].live
              => k \notin K /\ batch[k] # None /\ batch[k].live
  BY OrphanedLemma DEF TypeOK
<1>4. TypeOK'
  BY <1>2, <1>3 DEF TypeOK
<1>5. LiveRows'
  BY <1>1, <1>3, QueuedLemma DEF LiveRows
<1>6. JobInBatch'
  BY <1>3 DEF JobInBatch, TypeOK, Job
<1>7. OnlyPolled'
  BY DEF OnlyPolled
<1>8. ServedFromCache'
  <2>1. SUFFICES ASSUME Served, NEW k \in Key, queue'[k] # None,
                        queue'[k].state = "delivered"
                 PROVE  cache'[k] # None
    BY DEF ServedFromCache
  <2>2. queue'[k] = Without(queue, K)[k]
    BY <2>1, QueuedLemma
  <2>3. k \notin K /\ queue'[k] = queue[k]
    BY <1>1, <2>1, <2>2
  <2>4. QED
    BY <1>1, <2>1, <2>3 DEF ServedFromCache
<1>9. QED
  BY <1>4, <1>5, <1>6, <1>7, <1>8

-----------------------------------------------------------------------------
(* The initial states and, group by group, the steps.                      *)

LEMMA InitLemma ==
  ASSUME Init
  PROVE  IInv
<1>1. \A k \in Key : /\ queue[k] = None /\ batch[k] = None
                     /\ device[k] \in Asset \cup {None}
                     /\ Served => device[k] = None
  BY DEF Init, Empty, Asset
<1>2. device \in [Key -> Asset \cup {None}]
  BY <1>1 DEF Init
<1>3. TypeOK
  BY <1>2 DEF Init, TypeOK, Empty
<1>4. LiveRows /\ JobInBatch /\ OnlyPolled /\ ServedFromCache
  BY <1>1 DEF Init, LiveRows, JobInBatch, OnlyPolled, ServedFromCache
<1>5. QED
  BY <1>3, <1>4 DEF IInv

LEMMA WithoutLemma ==
  ASSUME NEW K \in SUBSET Key, queue \in [Key -> QueueRow \cup {None}]
  PROVE  Without(queue, K) \in [Key -> QueueRow \cup {None}]
BY DEF Without

LEMMA PutLibraryStep ==
  ASSUME IInv, NEW S \in SUBSET Puttable, NEW name \in [S -> Key],
         PutLibrary(S, name) \/ PutRefused(S, name)
  PROVE  IInv'
<1> DEFINE K == Dropped(name)
<1>1. library \in [Asset -> LibraryRow \cup {None}] /\ erasing \in SUBSET Key
      /\ queue \in [Key -> QueueRow \cup {None}]
  BY DEF IInv, TypeOK
<1>2. K \in SUBSET Key
  BY <1>1 DEF Dropped, Items, LibraryRow
<1>3. Without(queue, K) \in [Key -> QueueRow \cup {None}]
  BY <1>1, <1>2, WithoutLemma
<1>4. CASE PutLibrary(S, name)
  <2>1. Replaced(S, name) \in [Asset -> LibraryRow \cup {None}]
    BY <1>1, KeysAssumption DEF Replaced, LibraryRow
  <2>2. /\ queue' \in [Key -> QueueRow \cup {None}]
        /\ \A k \in Key : \/ queue'[k] = Without(queue, K)[k]
                          \/ \E a \in Asset : queue'[k] = Queued(a)
    BY <1>3, <1>4, <2>1, EnqueueDesiredLemma DEF PutLibrary
  <2>3. QED
    BY <1>1, <1>2, <1>4, <2>1, <2>2, EvictionLemma DEF PutLibrary
<1>5. CASE PutRefused(S, name)
  BY <1>1, <1>2, <1>3, <1>5, EvictionLemma DEF PutRefused
<1>6. QED
  BY <1>4, <1>5

LEMMA RemoveItemStep ==
  ASSUME IInv, NEW a \in Asset, RemoveItem(a)
  PROVE  IInv'
<1> DEFINE k == library[a].dest
<1>1. /\ library \in [Asset -> LibraryRow \cup {None}] /\ erasing \in SUBSET Key
      /\ queue \in [Key -> QueueRow \cup {None}]
  BY DEF IInv, TypeOK
<1>2. k \in Key
  BY <1>1 DEF RemoveItem, LibraryRow
<1>3. Without(queue, {k}) \in [Key -> QueueRow \cup {None}]
  BY <1>1, <1>2, WithoutLemma
<1>4. /\ library' \in [Asset -> LibraryRow \cup {None}]
      /\ erasing' \in SUBSET Key
  BY <1>1, <1>2 DEF RemoveItem
<1>5. QED
  BY <1>1, <1>2, <1>3, <1>4, EvictionLemma DEF RemoveItem

LEMMA FolderSyncStep ==
  ASSUME IInv, NEW f \in Folder, NEW S \in Listing, FolderSync(f, S)
  PROVE  IInv'
<1> DEFINE K == LeftFolder(f, S)
<1>1. /\ library \in [Asset -> LibraryRow \cup {None}] /\ erasing \in SUBSET Key
      /\ queue \in [Key -> QueueRow \cup {None}]
  BY DEF IInv, TypeOK
<1>2. K \in SUBSET Key
  BY <1>1 DEF LeftFolder, Items, LibraryRow
<1>3. Without(queue, K) \in [Key -> QueueRow \cup {None}]
  BY <1>1, <1>2, WithoutLemma
<1>4. Synced(f, S) \in [Asset -> LibraryRow \cup {None}]
  BY <1>1, KeysAssumption DEF Synced, LibraryRow, Asset
<1>5. /\ queue' \in [Key -> QueueRow \cup {None}]
      /\ \A k \in Key : \/ queue'[k] = Without(queue, K)[k]
                        \/ \E a \in Asset : queue'[k] = Queued(a)
  BY <1>3, <1>4, EnqueueDesiredLemma DEF FolderSync
<1>6. QED
  BY <1>1, <1>2, <1>4, <1>5, EvictionLemma DEF FolderSync

LEMMA AddAlbumOnceStep ==
  ASSUME IInv, NEW S \in Listing, AddAlbumOnce(S)
  PROVE  IInv'
<1> DEFINE merged == [a \in Asset |-> IF a \in S
                                      THEN [dest |-> Slug[a], source |-> "immich"]
                                      ELSE library[a]]
<1>1. /\ library \in [Asset -> LibraryRow \cup {None}]
      /\ queue \in [Key -> QueueRow \cup {None}]
  BY DEF IInv, TypeOK
<1>2. merged \in [Asset -> LibraryRow \cup {None}]
  BY <1>1, KeysAssumption DEF LibraryRow, Asset
<1>3. /\ queue' \in [Key -> QueueRow \cup {None}]
      /\ \A k \in Key : queue'[k] = queue[k] \/ \E a \in Asset : queue'[k] = Queued(a)
  BY <1>1, <1>2, EnqueueDesiredLemma DEF AddAlbumOnce
<1>4. TypeOK'
  BY <1>2, <1>3 DEF AddAlbumOnce, IInv, TypeOK
<1>5. LiveRows'
  BY <1>3, QueuedLemma DEF AddAlbumOnce, IInv, LiveRows
<1>6. JobInBatch' /\ OnlyPolled'
  BY DEF AddAlbumOnce, IInv, JobInBatch, OnlyPolled
<1>7. ServedFromCache'
  BY <1>3, QueuedLemma DEF AddAlbumOnce, IInv, ServedFromCache
<1>8. QED
  BY <1>4, <1>5, <1>6, <1>7 DEF IInv

(* An upload or import; a served frame has no files to import.             *)
LEMMA IngestStep ==
  ASSUME IInv, Ingesting
  PROVE  IInv'
<1> USE DEF IInv
<1>1. CASE \E k \in Key : UploadBegin(k)
  <2>1. PICK k \in Key : UploadBegin(k)
    BY <1>1
  <2>2. TypeOK'
    BY <2>1 DEF UploadBegin, TypeOK, Ingest, Asset
  <2>3. OnlyPolled'
    BY <2>1 DEF UploadBegin, OnlyPolled
  <2>4. LiveRows' /\ JobInBatch' /\ ServedFromCache'
    BY <2>1 DEF UploadBegin, LiveRows, JobInBatch, ServedFromCache
  <2>5. QED
    BY <2>2, <2>3, <2>4
<1>2. CASE \E k \in Key : ImportBegin(k)
  <2>1. PICK k \in Key : ImportBegin(k)
    BY <1>2
  <2>2. TypeOK'
    BY <2>1 DEF ImportBegin, TypeOK, Ingest
  <2>3. ~Served
    BY <2>1 DEF ImportBegin, OnlyPolled
  <2>4. LiveRows' /\ JobInBatch' /\ OnlyPolled' /\ ServedFromCache'
    BY <2>1, <2>3
       DEF ImportBegin, LiveRows, JobInBatch, OnlyPolled, ServedFromCache
  <2>5. QED
    BY <2>2, <2>4
<1>3. CASE ImportDownloaded
  <2>1. device[ingest.key] \in Asset /\ ingest \in Ingest
    BY <1>3 DEF ImportDownloaded, TypeOK, Ingest
  <2>2. /\ uploads' \in [Key -> Asset \cup {None}]
        /\ ingest' \in Ingest /\ ingest'.source = ingest.source
    BY <1>3, <2>1 DEF ImportDownloaded, TypeOK, Ingest
  <2>3. TypeOK'
    BY <1>3, <2>2 DEF ImportDownloaded, TypeOK
  <2>4. LiveRows' /\ JobInBatch' /\ OnlyPolled' /\ ServedFromCache'
    BY <1>3, <2>2
       DEF ImportDownloaded, LiveRows, JobInBatch, OnlyPolled, ServedFromCache
  <2>5. QED
    BY <2>3, <2>4
<1>4. CASE IngestPrepared
  <2>1. ingest \in Ingest /\ ingest.image # None
    BY <1>4, DistinctAssumption DEF IngestPrepared, TypeOK, Ingest
  <2>2. /\ cache' \in [Key -> Asset \cup {None}]
        /\ \A k \in Key : cache[k] # None => cache'[k] # None
        /\ ingest' \in Ingest /\ ingest'.source = ingest.source
    BY <1>4, <2>1 DEF IngestPrepared, TypeOK, Ingest
  <2>3. TypeOK'
    BY <1>4, <2>2 DEF IngestPrepared, TypeOK
  <2>4. LiveRows' /\ JobInBatch' /\ OnlyPolled' /\ ServedFromCache'
    BY <1>4, <2>2
       DEF IngestPrepared, LiveRows, JobInBatch, OnlyPolled, ServedFromCache
  <2>5. QED
    BY <2>3, <2>4
<1>5. CASE IngestJoin
  <2> DEFINE k == ingest.key
             new == [Queued(k) EXCEPT !.state = IF ingest.source = "frame"
                                                THEN "delivered" ELSE "pending"]
  <2>1. ingest \in Ingest /\ k \in Key /\ k \in Asset
    BY <1>5 DEF IngestJoin, TypeOK, Ingest, Asset
  <2>2. new \in QueueRow /\ (Served => new.state = "pending")
    BY <1>5, <2>1 DEF IngestJoin, OnlyPolled, Queued, QueueRow
  <2>3. /\ queue' \in [Key -> QueueRow \cup {None}]
        /\ \A j \in Key : queue'[j] = queue[j] \/ queue'[j] = new
    BY <1>5, <2>1, <2>2 DEF IngestJoin, TypeOK
  <2>4. library' \in [Asset -> LibraryRow \cup {None}]
    BY <1>5, <2>1 DEF IngestJoin, TypeOK, LibraryRow, Ingest
  <2>5. TypeOK'
    BY <1>5, <2>3, <2>4 DEF IngestJoin, TypeOK
  <2>6. LiveRows' /\ JobInBatch' /\ OnlyPolled' /\ ServedFromCache'
    BY <1>5, <2>2, <2>3
       DEF IngestJoin, LiveRows, JobInBatch, OnlyPolled, ServedFromCache
  <2>7. QED
    BY <2>5, <2>6
<1>6. CASE IngestFails
  BY <1>6 DEF IngestFails, TypeOK, LiveRows, JobInBatch, OnlyPolled, ServedFromCache
<1>7. QED
  BY <1>1, <1>2, <1>3, <1>4, <1>5, <1>6 DEF Ingesting

(* A row is only marked or postponed by an id that is live, so there is a  *)
(* row to write to, and only its state or its due time changes.            *)
LEMMA MarkedLemma ==
  ASSUME IInv, NEW k \in Key, batch[k] # None
  PROVE  /\ Marked(k) \in [Key -> QueueRow \cup {None}]
         /\ Postponed(k) \in [Key -> QueueRow \cup {None}]
         /\ \A j \in Key :
              /\ j # k => Marked(k)[j] = queue[j] /\ Postponed(k)[j] = queue[j]
              /\ queue[j] \in QueueRow
                 => Marked(k)[j] \in QueueRow /\ Postponed(k)[j] \in QueueRow
         /\ batch[k].live => Postponed(k)[k].state = queue[k].state
         /\ ~batch[k].live => Marked(k) = queue /\ Postponed(k) = queue
<1>1. queue \in [Key -> QueueRow \cup {None}] /\ (batch[k].live => queue[k] \in QueueRow)
  BY DEF IInv, TypeOK, LiveRows
<1>2. CASE batch[k].live
  <2>1. /\ [queue[k] EXCEPT !.state = "delivered"] \in QueueRow
        /\ [queue[k] EXCEPT !.due = FALSE] \in QueueRow
        /\ [queue[k] EXCEPT !.due = FALSE].state = queue[k].state
    BY <1>1, <1>2 DEF QueueRow
  <2>2. /\ Marked(k) = [queue EXCEPT ![k] = [queue[k] EXCEPT !.state = "delivered"]]
        /\ Postponed(k) = [queue EXCEPT ![k] = [queue[k] EXCEPT !.due = FALSE]]
    BY <1>1, <1>2 DEF Marked, Postponed
  <2>3. QED
    BY <1>1, <1>2, <2>1, <2>2
<1>3. CASE ~batch[k].live
  BY <1>1, <1>3 DEF Marked, Postponed
<1>4. QED
  BY <1>2, <1>3

(* Finishing the item k: its row is as before, or marked when the image is *)
(* cached, or postponed; the ids and rows of the other items are untouched.*)
LEMMA FinishedLemma ==
  ASSUME IInv, NEW k \in Key, batch[k] # None, Finished(k),
         \/ queue' = Marked(k) /\ cache'[k] # None
         \/ queue' = Marked(k) /\ ~Served
         \/ queue' = Postponed(k),
         cache' \in [Key -> Asset \cup {None}],
         \A j \in Key : cache[j] # None => cache'[j] # None,
         UNCHANGED <<library, uploads, device, ingest, erasing>>
  PROVE  IInv'
<1> USE DEF IInv
<1>1. /\ queue' \in [Key -> QueueRow \cup {None}]
      /\ \A j \in Key : /\ j # k => queue'[j] = queue[j]
                        /\ queue[j] \in QueueRow => queue'[j] \in QueueRow
  BY MarkedLemma
<1>2. /\ batch' \in [Key -> Snapshot \cup {None}]
      /\ \A j \in Key : batch'[j] # None => j # k /\ batch'[j] = batch[j]
      /\ job' = None
  BY DEF Finished, TypeOK
<1>3. TypeOK'
  BY <1>1, <1>2 DEF TypeOK
<1>4. LiveRows'
  BY <1>1, <1>2 DEF LiveRows
<1>5. JobInBatch' /\ OnlyPolled'
  BY <1>2 DEF JobInBatch, OnlyPolled
<1>6. ServedFromCache'
  <2>1. SUFFICES ASSUME Served, NEW j \in Key, queue'[j] # None,
                        queue'[j].state = "delivered"
                 PROVE  cache'[j] # None
    BY DEF ServedFromCache
  <2>2. CASE j # k
    BY <1>1, <2>1, <2>2 DEF ServedFromCache
  <2>3. CASE j = k /\ cache'[k] # None
    BY <2>3
  <2>4. CASE j = k /\ queue' = Postponed(k)
    <3>1. queue'[k] = queue[k] \/ (batch[k].live /\ queue'[k].state = queue[k].state)
      BY <2>4, MarkedLemma
    <3>2. queue[k] # None /\ queue[k].state = "delivered"
      BY <2>1, <2>4, <3>1, NoneAssumption DEF LiveRows
    <3>3. QED
      BY <2>1, <2>4, <3>2 DEF ServedFromCache
  <2>5. QED
    BY <2>1, <2>2, <2>3, <2>4
<1>7. QED
  BY <1>3, <1>4, <1>5, <1>6

(* Where a job works on, only the job and perhaps the cache change.        *)
LEMMA WorkingLemma ==
  ASSUME IInv, job' \in Job, batch[job'.key] \in Snapshot,
         Served => job'.phase = "fetch",
         cache' \in [Key -> Asset \cup {None}],
         \A j \in Key : cache[j] # None => cache'[j] # None,
         device' \in [Key -> Asset \cup {None}],
         Served => device' = device,
         UNCHANGED <<library, queue, uploads, batch, ingest, erasing>>
  PROVE  IInv'
<1> USE DEF IInv
<1>1. TypeOK'
  BY DEF TypeOK
<1>2. LiveRows' /\ JobInBatch'
  BY DEF LiveRows, JobInBatch
<1>3. OnlyPolled'
  BY DEF OnlyPolled
<1>4. ServedFromCache'
  BY DEF ServedFromCache
<1>5. QED
  BY <1>1, <1>2, <1>3, <1>4

(* The job's key has a snapshot, and its source is an asset.               *)
LEMMA JobLemma ==
  ASSUME IInv, job # None
  PROVE  /\ job \in Job /\ job.key \in Key
         /\ batch[job.key] \in Snapshot /\ batch[job.key] # None
         /\ Source \in Asset /\ Source # None
<1>1. job \in Job /\ job.key \in Key /\ job.image \in Asset \cup {None}
  BY DEF IInv, TypeOK, Job
<1>2. batch[job.key] \in Snapshot
  BY DEF IInv, JobInBatch
<1>3. batch[job.key].payload \in Asset
  BY <1>2 DEF Snapshot
<1>4. batch[job.key] # None
  BY <1>2, NoneAssumption
<1>5. QED
  BY <1>1, <1>2, <1>3, <1>4, DistinctAssumption DEF Source

LEMMA DeliverStep ==
  ASSUME IInv, Deliver
  PROVE  IInv'
<1>1. CASE BatchBegin
  <2>1. PICK K \in SUBSET Due :
          batch' = [k \in Key |-> IF k \in K
                                  THEN [payload |-> queue[k].payload, live |-> TRUE]
                                  ELSE None]
    BY <1>1 DEF BatchBegin
  <2>2. \A k \in K : k \in Key /\ queue[k] \in QueueRow
    BY DEF Due, IInv, TypeOK
  <2>3. \A k \in K : [payload |-> queue[k].payload, live |-> TRUE] \in Snapshot
    BY <2>2 DEF QueueRow, Snapshot
  <2>4. batch' \in [Key -> Snapshot \cup {None}]
    BY <2>1, <2>3
  <2>5. TypeOK'
    BY <1>1, <2>4 DEF BatchBegin, IInv, TypeOK
  <2>6. LiveRows'
    BY <1>1, <2>1, <2>2 DEF BatchBegin, LiveRows
  <2>7. JobInBatch' /\ OnlyPolled' /\ ServedFromCache'
    BY <1>1 DEF BatchBegin, IInv, JobInBatch, OnlyPolled, ServedFromCache
  <2>8. QED
    BY <2>5, <2>6, <2>7 DEF IInv
<1>2. CASE \E k \in Key : DeliverCached(k)
  <2>1. PICK k \in Key : DeliverCached(k)
    BY <1>2
  <2>2. cache \in [Key -> Asset \cup {None}] /\ batch[k] \in Snapshot
    BY <2>1 DEF DeliverCached, IInv, TypeOK
  <2>3. CASE Served
    BY <2>1, <2>2, <2>3, FinishedLemma DEF DeliverCached
  <2>4. CASE ~Served
    <3>1. job' = [key |-> k, phase |-> "push", image |-> cache[k]]
      BY <2>1, <2>4 DEF DeliverCached
    <3>2. job' \in Job /\ job'.key = k
      BY <2>2, <3>1 DEF Job
    <3>3. device \in [Key -> Asset \cup {None}]
      BY DEF IInv, TypeOK
    <3>4. QED
      BY <2>1, <2>2, <2>4, <3>2, <3>3, WorkingLemma DEF DeliverCached
  <2>5. QED
    BY <2>3, <2>4
<1>3. CASE \E k \in Key : DeliverUncached(k)
  <2>1. PICK k \in Key : DeliverUncached(k)
    BY <1>3
  <2>2. /\ cache \in [Key -> Asset \cup {None}] /\ batch[k] \in Snapshot
        /\ device \in [Key -> Asset \cup {None}]
        /\ uploads[k] \in Asset \cup {None}
    BY <2>1 DEF DeliverUncached, IInv, TypeOK
  <2>3. job' = [key |-> k, phase |-> "fetch", image |-> uploads[k]]
    BY <2>1 DEF DeliverUncached
  <2>4. job' \in Job /\ job'.key = k /\ job'.phase = "fetch"
    BY <2>2, <2>3 DEF Job
  <2>5. QED
    BY <2>1, <2>2, <2>4, WorkingLemma DEF DeliverUncached
<1>4. CASE FetchOk
  <2> DEFINE k == job.key
  <2>1. /\ job \in Job /\ k \in Key /\ batch[k] \in Snapshot /\ batch[k] # None
        /\ Source \in Asset /\ Source # None
    BY <1>4, JobLemma DEF FetchOk
  <2>2. /\ cache' \in [Key -> Asset \cup {None}]
        /\ \A j \in Key : cache[j] # None => cache'[j] # None
        /\ cache'[k] # None
    BY <1>4, <2>1 DEF FetchOk, IInv, TypeOK
  <2>3. CASE Served
    BY <1>4, <2>1, <2>2, <2>3, FinishedLemma DEF FetchOk
  <2>4. CASE ~Served
    <3>1. job' = [job EXCEPT !.phase = "push", !.image = Source]
      BY <1>4, <2>4 DEF FetchOk
    <3>2. job' \in Job /\ job'.key = k
      BY <2>1, <3>1 DEF Job
    <3>3. device \in [Key -> Asset \cup {None}]
      BY DEF IInv, TypeOK
    <3>4. QED
      BY <1>4, <2>1, <2>2, <2>4, <3>2, <3>3, WorkingLemma DEF FetchOk
  <2>5. QED
    BY <2>3, <2>4
<1>5. CASE PushOk
  <2>1. job.key \in Key /\ batch[job.key] # None /\ ~Served
    BY <1>5, JobLemma DEF PushOk, IInv, OnlyPolled
  <2>2. cache' = cache /\ cache \in [Key -> Asset \cup {None}]
    BY <1>5 DEF PushOk, IInv, TypeOK
  <2>3. QED
    BY <1>5, <2>1, <2>2, FinishedLemma DEF PushOk
<1>6. CASE DeliverFails
  <2>1. job.key \in Key /\ batch[job.key] # None
    BY <1>6, JobLemma DEF DeliverFails
  <2>2. cache' = cache /\ cache \in [Key -> Asset \cup {None}]
    BY <1>6 DEF DeliverFails, IInv, TypeOK
  <2>3. QED
    BY <1>6, <2>1, <2>2, FinishedLemma DEF DeliverFails
<1>7. QED
  BY <1>1, <1>2, <1>3, <1>4, <1>5, <1>6 DEF Deliver

LEMMA PushLandsStep ==
  ASSUME IInv, PushLands
  PROVE  IInv'
<1>1. /\ job \in Job /\ job.key \in Key /\ job.image \in Asset \cup {None}
      /\ batch[job.key] \in Snapshot /\ ~Served
  BY JobLemma DEF PushLands, Job, IInv, OnlyPolled
<1>2. device' \in [Key -> Asset \cup {None}] /\ cache \in [Key -> Asset \cup {None}]
  BY <1>1 DEF PushLands, IInv, TypeOK
<1>3. job' \in Job /\ job'.key = job.key
  BY <1>1 DEF PushLands, Job
<1>4. QED
  BY <1>1, <1>2, <1>3, WorkingLemma DEF PushLands

LEMMA EraseOnDeviceStep ==
  ASSUME IInv, NEW k \in Key, EraseOnDevice(k)
  PROVE  IInv'
<1>1. /\ device' \in [Key -> Asset \cup {None}]
      /\ \A j \in Key : device[j] = None => device'[j] = None
  BY DEF EraseOnDevice, IInv, TypeOK
<1>2. TypeOK'
  BY <1>1 DEF EraseOnDevice, IInv, TypeOK
<1>3. LiveRows' /\ JobInBatch' /\ OnlyPolled' /\ ServedFromCache'
  BY <1>1 DEF EraseOnDevice, IInv, LiveRows, JobInBatch, OnlyPolled, ServedFromCache
<1>4. QED
  BY <1>2, <1>3 DEF IInv

LEMMA TimePassesStep ==
  ASSUME IInv, NEW k \in Key, TimePasses(k)
  PROVE  IInv'
<1>1. queue \in [Key -> QueueRow \cup {None}] /\ queue[k] \in QueueRow
  BY DEF TimePasses, IInv, TypeOK
<1>2. /\ [queue[k] EXCEPT !.due = TRUE] \in QueueRow
      /\ [queue[k] EXCEPT !.due = TRUE].state = "pending"
  BY <1>1 DEF TimePasses, QueueRow
<1>3. queue' = [queue EXCEPT ![k] = [queue[k] EXCEPT !.due = TRUE]]
  BY DEF TimePasses
<1>4. /\ queue' \in [Key -> QueueRow \cup {None}]
      /\ \A j \in Key : \/ queue'[j] = queue[j]
                        \/ queue'[j] \in QueueRow /\ queue'[j].state = "pending"
  BY <1>1, <1>2, <1>3
<1>5. TypeOK'
  BY <1>4 DEF TimePasses, IInv, TypeOK
<1>6. LiveRows' /\ JobInBatch' /\ OnlyPolled' /\ ServedFromCache'
  BY <1>4 DEF TimePasses, IInv, LiveRows, JobInBatch, OnlyPolled, ServedFromCache
<1>7. QED
  BY <1>5, <1>6 DEF IInv

LEMMA CrashStep ==
  ASSUME IInv, Crash
  PROVE  IInv'
<1>1. /\ batch' = [k \in Key |-> None]
      /\ job' = None /\ ingest' = None
      /\ UNCHANGED <<library, queue, cache, uploads, device, erasing>>
  BY DEF Crash, Empty
<1>2. TypeOK'
  BY <1>1 DEF IInv, TypeOK
<1>3. LiveRows' /\ JobInBatch' /\ OnlyPolled' /\ ServedFromCache'
  BY <1>1 DEF IInv, LiveRows, JobInBatch, OnlyPolled, ServedFromCache
<1>4. QED
  BY <1>2, <1>3 DEF IInv

-----------------------------------------------------------------------------
(* Every step preserves the invariant.                                     *)
LEMMA NextLemma ==
  ASSUME IInv, [Next]_vars
  PROVE  IInv'
<1>1. CASE Deliver
  BY <1>1, DeliverStep
<1>2. CASE Curate
  <2>1. CASE \E S \in SUBSET Listable : \E name \in [S -> Key] :
               PutLibrary(S, name) \/ PutRefused(S, name)
    BY <2>1, PutLibraryStep DEF Listable
  <2>2. CASE \E a \in Asset : RemoveItem(a)
    BY <2>2, RemoveItemStep
  <2>3. CASE \E f \in Folder, S \in Listing : FolderSync(f, S)
    BY <2>3, FolderSyncStep
  <2>4. CASE \E S \in Listing : AddAlbumOnce(S)
    BY <2>4, AddAlbumOnceStep
  <2>5. QED
    BY <1>2, <2>1, <2>2, <2>3, <2>4 DEF Curate
<1>3. CASE Ingesting
  BY <1>3, IngestStep
<1>4. CASE PushLands
  BY <1>4, PushLandsStep
<1>5. CASE \E k \in Key : EraseOnDevice(k) \/ TimePasses(k)
  BY <1>5, EraseOnDeviceStep, TimePassesStep
<1>6. CASE Crash
  BY <1>6, CrashStep
<1>7. CASE UNCHANGED vars
  BY <1>7 DEF vars, IInv, TypeOK, LiveRows, JobInBatch, OnlyPolled, ServedFromCache
<1>8. QED
  BY <1>1, <1>2, <1>3, <1>4, <1>5, <1>6, <1>7 DEF Next

(* The inductive invariant holds in every reachable state.                 *)
THEOREM Inductive == Spec => []IInv
<1>1. Init => IInv
  BY InitLemma
<1>2. IInv /\ [Next]_vars => IInv'
  BY NextLemma
<1>3. QED
  BY <1>1, <1>2, PTL DEF Spec

(* The tables, the cache, the device and the tasks in flight stay of their *)
(* types: no delivery writes to a row that a request has deleted since     *)
(* reconcile read its batch (delivery.py, reconcile).                      *)
THEOREM TypeCorrect == Spec => []TypeOK
<1>1. IInv => TypeOK
  BY DEF IInv
<1>2. QED
  BY <1>1, Inductive, PTL

(* A served frame's row says "delivered" only while its prepared image     *)
(* waits in the cache (delivery_service.py, _deliver; library.py, the      *)
(* evictions): deliveries, requests and restarts in any order.             *)
THEOREM ServedFromCacheHolds == Spec => []ServedFromCache
<1>1. IInv => ServedFromCache
  BY DEF IInv
<1>2. QED
  BY <1>1, Inductive, PTL
-----------------------------------------------------------------------------
(* Every change is queued: enqueue_desired leaves no item without its row. *)

LEMMA EnqueueTracksLemma ==
  ASSUME NEW lib \in [Asset -> LibraryRow \cup {None}],
         NEW q \in [Key -> QueueRow \cup {None}],
         NEW r \in EnqueueDesired(lib, q),
         NEW a \in Items(lib)
  PROVE  /\ r[lib[a].dest] # None
         /\ r[lib[a].dest].payload \in Items(lib)
         /\ lib[r[lib[a].dest].payload].dest = lib[a].dest
<1> DEFINE k == lib[a].dest
<1>1. a \in Asset /\ lib[a] \in LibraryRow /\ k \in Key
  BY DEF Items, LibraryRow
<1>2. PICK L \in LastWriters(lib, Wanted(lib, q)) :
        r = [j \in Key |-> IF \E b \in L : lib[b].dest = j
                           THEN Queued(CHOOSE b \in L : lib[b].dest = j) ELSE q[j]]
  BY DEF EnqueueDesired
<1>3. L \subseteq Items(lib)
  BY DEF LastWriters, Wanted
<1>4. CASE \E b \in L : lib[b].dest = k
  <2> DEFINE b == CHOOSE c \in L : lib[c].dest = k
  <2>1. b \in L /\ lib[b].dest = k
    BY <1>4
  <2>2. r[k] = Queued(b)
    BY <1>1, <1>2, <1>4
  <2>3. b \in Asset
    BY <1>3, <2>1 DEF Items
  <2> HIDE DEF b
  <2>4. r[k] \in QueueRow /\ r[k].payload = b
    BY <2>2, <2>3 DEF Queued, QueueRow
  <2>5. QED
    BY <1>3, <2>1, <2>4, NoneAssumption
<1>5. CASE ~\E b \in L : lib[b].dest = k
  <2>1. a \notin Wanted(lib, q)
    BY <1>5 DEF LastWriters
  <2>2. OnFrame(q, k, a)
    BY <2>1 DEF Wanted
  <2>3. r[k] = q[k]
    BY <1>1, <1>2, <1>5
  <2>4. QED
    BY <2>2, <2>3 DEF OnFrame
<1>6. QED
  BY <1>4, <1>5

(* One step keeps its promise: what enters the library or changes there is *)
(* tracked by the queue right away.                                        *)
QueuesChanges ==
  \A a \in Asset : library'[a] # None /\ library'[a] # library[a] => Tracked(a)'

LEMMA CurateQueuesLemma ==
  ASSUME IInv, NEW K \in SUBSET Key,
         library' \in [Asset -> LibraryRow \cup {None}],
         queue' \in EnqueueDesired(library', Without(queue, K))
  PROVE  QueuesChanges
<1>1. Without(queue, K) \in [Key -> QueueRow \cup {None}]
  BY WithoutLemma DEF IInv, TypeOK
<1>2. ASSUME NEW a \in Asset, library'[a] # None
      PROVE  Tracked(a)'
  <2>1. a \in Items(library')
    BY <1>2 DEF Items
  <2>2. /\ queue'[library'[a].dest] # None
        /\ queue'[library'[a].dest].payload \in Items(library')
        /\ library'[queue'[library'[a].dest].payload].dest = library'[a].dest
    BY <1>1, <2>1, EnqueueTracksLemma
  <2>3. QED
    BY <2>2 DEF Tracked, Items
<1>3. QED
  BY <1>2 DEF QueuesChanges

LEMMA QueuesChangesStep ==
  ASSUME IInv, [Next]_vars
  PROVE  QueuesChanges
<1>1. /\ library \in [Asset -> LibraryRow \cup {None}]
      /\ queue \in [Key -> QueueRow \cup {None}]
  BY DEF IInv, TypeOK
<1>2. library' \in [Asset -> LibraryRow \cup {None}]
  BY NextLemma DEF IInv, TypeOK
<1>3. CASE \A a \in Asset : library'[a] \in {library[a], None}
  BY <1>3 DEF QueuesChanges
<1>4. CASE \E S \in SUBSET Listable : \E name \in [S -> Key] : PutLibrary(S, name)
  <2>1. PICK S \in SUBSET Listable : \E name \in [S -> Key] : PutLibrary(S, name)
    BY <1>4
  <2>2. PICK name \in [S -> Key] : PutLibrary(S, name)
    BY <2>1
  <2>3. Dropped(name) \in SUBSET Key
    BY <1>1 DEF Dropped, Items, LibraryRow
  <2>4. queue' \in EnqueueDesired(library', Without(queue, Dropped(name)))
    BY <2>2 DEF PutLibrary
  <2>5. QED
    BY <1>2, <2>3, <2>4, CurateQueuesLemma
<1>5. CASE \E f \in Folder, S \in Listing : FolderSync(f, S)
  <2>1. PICK f \in Folder, S \in Listing : FolderSync(f, S)
    BY <1>5
  <2>2. LeftFolder(f, S) \in SUBSET Key
    BY <1>1 DEF LeftFolder, Items, LibraryRow
  <2>3. queue' \in EnqueueDesired(library', Without(queue, LeftFolder(f, S)))
    BY <2>1 DEF FolderSync
  <2>4. QED
    BY <1>2, <2>2, <2>3, CurateQueuesLemma
<1>6. CASE \E S \in Listing : AddAlbumOnce(S)
  <2>1. queue' \in EnqueueDesired(library', queue)
    BY <1>6 DEF AddAlbumOnce
  <2>2. queue = Without(queue, {})
    BY <1>1 DEF Without
  <2>3. QED
    BY <1>2, <2>1, <2>2, CurateQueuesLemma
<1>7. CASE IngestJoin
  <2> DEFINE k == ingest.key
  <2>1. k \in Key /\ k \in Asset
    BY <1>7 DEF IngestJoin, IInv, TypeOK, Ingest, Asset
  <2>2. /\ \A a \in Asset \ {k} : library'[a] = library[a]
        /\ library'[k].dest = k
    <3>1. library' = [library EXCEPT ![k] = [dest |-> k, source |-> ingest.source]]
      BY <1>7 DEF IngestJoin
    <3>2. \A s : [dest |-> k, source |-> s].dest = k
      OBVIOUS
    <3>3. QED
      BY <1>1, <2>1, <3>1, <3>2
  <2>3. queue'[k] # None /\ queue'[k].payload = k
    <3> DEFINE state == IF ingest.source = "frame" THEN "delivered" ELSE "pending"
               new == [Queued(k) EXCEPT !.state = state]
    <3>1. queue' = [queue EXCEPT ![k] = new]
      BY <1>7 DEF IngestJoin
    <3>2. new \in QueueRow /\ new.payload = k
      BY <2>1 DEF Queued, QueueRow
    <3>3. QED
      BY <1>1, <2>1, <3>1, <3>2, NoneAssumption
  <2>4. QED
    BY <2>1, <2>2, <2>3 DEF QueuesChanges, Tracked
<1>8. CASE \E a \in Asset : RemoveItem(a)
  BY <1>1, <1>3, <1>8 DEF RemoveItem
<1>9. CASE library' = library
  BY <1>3, <1>9
<1>10. QED
  BY <1>4, <1>5, <1>6, <1>7, <1>8, <1>9
     DEF Next, Deliver, Curate, Ingesting, vars, BatchBegin, DeliverCached,
         DeliverUncached, FetchOk, PushOk, DeliverFails, PutRefused, UploadBegin,
         ImportBegin, ImportDownloaded, IngestPrepared, IngestFails, PushLands,
         EraseOnDevice, TimePasses, Crash

(* Every intended change is durably queued: no request, folder sync or     *)
(* ingest changes the library without queueing the photo in the same step  *)
(* (library.py, set_library and enqueue_desired).                          *)
THEOREM EveryChangeQueuedHolds == Spec => EveryChangeQueued
<1>1. IInv /\ [Next]_vars => [QueuesChanges]_vars
  BY QueuesChangesStep
<1>2. Spec => [][QueuesChanges]_vars
  BY <1>1, Inductive, PTL DEF Spec
<1>3. QED
  BY <1>2 DEF EveryChangeQueued, QueuesChanges
-----------------------------------------------------------------------------
(* Names that keep photos apart, as naming.py makes them and as long as    *)
(* clients do not give one photo's name to another: canonical names carry  *)
(* the asset's id, upload names are a namespace of their own, and the      *)
(* device's own files are called neither the one nor the other.            *)
DistinctNames ==
  /\ \A a \in Immich : Explicit[a] \subseteq {Slug[a]}
  /\ \A a, b \in Immich : Slug[a] = Slug[b] => a = b
  /\ \A a \in Immich : Slug[a] \notin UploadKey \cup ImportKey
  /\ UploadKey \cap ImportKey = {}

(* The photo a name stands for, if there is one.                           *)
Own(k) == {a \in Immich : Slug[a] = k} \cup ({k} \cap (UploadKey \cup ImportKey))

Named ==
  \A a \in Items(library) :
    /\ a \in Own(library[a].dest)
    /\ a \in Immich => library[a].source \in {"immich"} \cup Folder
    /\ a \in Key => library[a].source \in {"upload", "frame"} /\ uploads[a] # None

OwnRows ==
  \A k \in Key : /\ queue[k] # None => queue[k].payload \in Own(k)
                 /\ batch[k] # None => batch[k].payload \in Own(k)

OwnImages ==
  /\ \A k \in Key : /\ cache[k] \in Own(k) \cup {None}
                    /\ uploads[k] \in Own(k) \cup {None}
                    /\ device[k] \in Own(k) \cup {None}
  /\ job # None => /\ job.image \in Own(job.key) \cup {None}
                   /\ job.phase # "fetch" => job.image # None

Joining ==
  ingest # None => /\ ingest.key \in UploadKey \cup ImportKey
                   /\ ingest.image = ingest.key
                   /\ ingest.phase # "download" => uploads[ingest.key] # None
                   /\ ingest.key \in ImportKey => ingest.source = "frame"
                   /\ library[ingest.key] = None

Imported ==
  \A k \in ImportKey :
    /\ library[k] # None => queue[k] # None
    /\ queue[k] # None => queue[k].state = "delivered"
    /\ batch[k] = None

Owned == Named /\ OwnRows /\ OwnImages /\ Joining /\ Imported

(* A name stands for one photo at most.                                    *)
LEMMA OwnLemma ==
  ASSUME DistinctNames
  PROVE  /\ \A k \in Key : \A a, b \in Own(k) : a = b
         /\ \A k \in Key : Own(k) \subseteq Asset
         /\ \A a \in Immich : a \in Own(Slug[a])
         /\ \A k \in UploadKey \cup ImportKey : k \in Own(k)
         /\ \A a \in Immich, k \in Key : a \in Own(k) => k = Slug[a]
         /\ \A a \in Key, k \in Key : a \in Own(k) => k = a
BY KeysAssumption, DistinctAssumption DEF DistinctNames, Own, Asset

(* Queueing what is desired touches the row of a name only for an item     *)
(* that has this name and is not on the frame yet.                         *)
LEMMA EnqueueOnlyWantedLemma ==
  ASSUME NEW lib, NEW q, NEW r \in EnqueueDesired(lib, q), NEW k \in Key
  PROVE  \/ r[k] = q[k]
         \/ \E a \in Items(lib) : /\ lib[a].dest = k /\ ~OnFrame(q, k, a)
                                  /\ r[k] = Queued(a)
<1>1. PICK L \in LastWriters(lib, Wanted(lib, q)) :
        r = [j \in Key |-> IF \E b \in L : lib[b].dest = j
                           THEN Queued(CHOOSE b \in L : lib[b].dest = j) ELSE q[j]]
  BY DEF EnqueueDesired
<1>2. CASE \E b \in L : lib[b].dest = k
  <2> DEFINE b == CHOOSE c \in L : lib[c].dest = k
  <2>1. b \in L /\ lib[b].dest = k
    BY <1>2
  <2>2. r[k] = Queued(b)
    BY <1>1, <1>2
  <2> HIDE DEF b
  <2>3. b \in Items(lib) /\ ~OnFrame(q, k, b)
    BY <2>1 DEF LastWriters, Wanted
  <2>4. QED
    BY <2>1, <2>2, <2>3
<1>3. CASE ~\E b \in L : lib[b].dest = k
  BY <1>1, <1>3
<1>4. QED
  BY <1>2, <1>3

LEMMA OwnedInit ==
  ASSUME Init, DistinctNames
  PROVE  Owned
<1>1. \A k \in Key : /\ queue[k] = None /\ batch[k] = None /\ cache[k] = None
                     /\ uploads[k] = None /\ device[k] \in Own(k) \cup {None}
  BY DEF Init, Empty, Own
<1>2. Items(library) = {} /\ \A k \in Key : library[k] = None
  BY DEF Init, Empty, Items, Asset
<1>3. job = None /\ ingest = None
  BY DEF Init
<1>4. QED
  BY <1>1, <1>2, <1>3, KeysAssumption
     DEF Owned, Named, OwnRows, OwnImages, Joining, Imported

(* Curation that leaves every item its own name, and evicts the name of a  *)
(* device photo only with the photo, keeps every row and image its own.    *)
LEMMA CurateOwned ==
  ASSUME IInv, Owned, DistinctNames, NEW K \in SUBSET Key,
         library' \in [Asset -> LibraryRow \cup {None}],
         cache' = Without(cache, K),
         batch' = Orphaned(batch, K),
         \/ queue' = Without(queue, K)
         \/ queue' \in EnqueueDesired(library', Without(queue, K)),
         Named',
         \A k \in Key : library'[k] \in {library[k], None},
         \A k \in ImportKey \cap K : library'[k] = None,
         UNCHANGED <<uploads, device, job, ingest>>
  PROVE  Owned'
<1> DEFINE q == Without(queue, K)
<1>1. \A k \in Key : /\ k \in K => q[k] = None
                     /\ k \notin K => q[k] = queue[k]
                     /\ cache'[k] \in {cache[k], None}
  BY DEF Without
<1>2. ASSUME NEW k \in Key
      PROVE  /\ batch'[k] # None => batch[k] # None
             /\ batch'[k] # None => batch'[k].payload = batch[k].payload
  <2>1. batch[k] \in Snapshot \cup {None}
    BY DEF IInv, TypeOK
  <2>2. batch[k] # None => [batch[k] EXCEPT !.live = FALSE].payload = batch[k].payload
    BY <2>1 DEF Snapshot
  <2>3. batch'[k] = IF k \in K /\ batch[k] # None
                    THEN [batch[k] EXCEPT !.live = FALSE] ELSE batch[k]
    BY DEF Orphaned
  <2>4. QED
    BY <2>2, <2>3
<1> HIDE DEF q
<1>3. ASSUME NEW k \in Key
      PROVE  \/ queue'[k] = q[k]
             \/ \E a \in Items(library') :
                  /\ library'[a].dest = k /\ ~OnFrame(q, k, a)
                  /\ queue'[k] = Queued(a)
  <2>1. CASE queue' = Without(queue, K)
    BY <2>1 DEF q
  <2>2. CASE queue' \in EnqueueDesired(library', Without(queue, K))
    BY <2>2, EnqueueOnlyWantedLemma DEF q
  <2>3. QED
    BY <2>1, <2>2
<1>4. OwnRows'
  <2>1. SUFFICES ASSUME NEW k \in Key, queue'[k] # None
                 PROVE  queue'[k].payload \in Own(k)
    BY <1>2 DEF Owned, OwnRows
  <2>2. CASE queue'[k] = q[k]
    BY <1>1, <2>1, <2>2 DEF Owned, OwnRows
  <2>3. CASE \E a \in Items(library') : library'[a].dest = k /\ queue'[k] = Queued(a)
    BY <2>3 DEF Named, Queued
  <2>4. QED
    BY <1>3, <2>2, <2>3
<1>5. OwnImages'
  BY <1>1 DEF Owned, OwnImages
<1>6. Joining'
  BY KeysAssumption DEF Owned, Joining
<1>7. Imported'
  <2>1. SUFFICES ASSUME NEW k \in ImportKey
                 PROVE  /\ library'[k] # None => queue'[k] # None
                        /\ queue'[k] # None => queue'[k].state = "delivered"
                        /\ batch'[k] = None
    BY DEF Imported
  <2>2. k \in Key
    BY KeysAssumption
  <2>3. library'[k] # None => library[k] # None /\ k \notin K
    BY <2>2
  <2>4. queue'[k] = q[k]
    <3>1. SUFFICES ASSUME NEW a \in Items(library'), library'[a].dest = k,
                          ~OnFrame(q, k, a)
                   PROVE  FALSE
      BY <1>3, <2>2
    <3>2. a = k
      BY <2>2, <3>1, OwnLemma DEF Named
    <3>3. library'[k] # None
      BY <3>1, <3>2 DEF Items
    <3>4. q[k] = queue[k] /\ queue[k] # None /\ queue[k].state = "delivered"
      BY <1>1, <2>2, <2>3, <3>3 DEF Owned, Imported
    <3>5. queue[k].payload = k
      BY <2>2, <3>4, OwnLemma DEF Owned, OwnRows
    <3>6. QED
      BY <3>1, <3>2, <3>4, <3>5 DEF OnFrame
  <2>5. batch'[k] = None
    BY <1>2, <2>2 DEF Owned, Imported
  <2>6. QED
    BY <1>1, <2>2, <2>3, <2>4, <2>5 DEF Owned, Imported
<1>8. QED
  BY <1>4, <1>5, <1>6, <1>7 DEF Owned

LEMMA PutOwned ==
  ASSUME IInv, Owned, DistinctNames,
         NEW S \in SUBSET Listable, NEW name \in [S -> Key],
         PutLibrary(S, name) \/ PutRefused(S, name)
  PROVE  Owned'
<1> DEFINE K == Dropped(name)
<1>1. library \in [Asset -> LibraryRow \cup {None}] /\ S \subseteq Asset
  BY KeysAssumption DEF IInv, TypeOK, Listable
<1>2. K \in SUBSET Key
  BY <1>1 DEF Dropped, Items, LibraryRow
<1>3. ImportKey \cap K = {}
  <2>1. SUFFICES ASSUME NEW b \in Items(library), library[b].source = "immich",
                        library[b].dest \in ImportKey
                 PROVE  FALSE
    BY DEF Dropped
  <2>2. b \in Asset /\ b \notin Key /\ library[b].dest \in Key
    BY <1>1, <2>1 DEF Items, LibraryRow, Owned, Named
  <2>3. library[b].dest = Slug[b] /\ b \in Immich
    BY <2>2, OwnLemma DEF Owned, Named, Asset
  <2>4. QED
    BY <2>1, <2>3 DEF DistinctNames
<1>4. CASE PutLibrary(S, name)
  <2>1. ASSUME NEW a \in S
        PROVE  a \in Immich /\ name[a] = Slug[a]
    <3>1. a \in Immich
      BY <1>1, <1>4, <2>1, DistinctAssumption
         DEF PutLibrary, Listable, Asset, Conflicts, Owned, Named, Items
    <3>2. library[a] # None => library[a].dest = Slug[a]
      BY <1>1, <3>1, OwnLemma DEF Owned, Named, Items, LibraryRow, Asset
    <3>3. QED
      BY <1>4, <3>1, <3>2 DEF PutLibrary, Names, DistinctNames
  <2>2. \A a \in Asset : library'[a] = IF a \in S
          THEN [dest |-> name[a], source |-> "immich"]
          ELSE IF library[a] # None /\ library[a].source # "immich"
               THEN library[a] ELSE None
    BY <1>4 DEF PutLibrary, Replaced
  <2>3. Named'
    <3>1. SUFFICES ASSUME NEW a \in Items(library')
                   PROVE  /\ a \in Own(library'[a].dest)
                          /\ a \in Immich => library'[a].source \in {"immich"} \cup Folder
                          /\ a \in Key => /\ library'[a].source \in {"upload", "frame"}
                                          /\ uploads'[a] # None
      BY DEF Named
    <3>2. a \in Asset /\ library'[a] # None /\ uploads' = uploads
      BY <1>4 DEF Items, PutLibrary
    <3>3. CASE a \in S
      <4>1. a \in Immich /\ a \notin Key /\ a \in Own(Slug[a])
        BY <2>1, <3>3, OwnLemma, DistinctAssumption
      <4>2. library'[a] = [dest |-> Slug[a], source |-> "immich"]
        BY <2>1, <2>2, <3>2, <3>3
      <4>3. library'[a].dest = Slug[a] /\ library'[a].source = "immich"
        BY <4>2
      <4>4. QED
        BY <4>1, <4>3
    <3>4. CASE a \notin S
      BY <2>2, <3>2, <3>4 DEF Owned, Named, Items
    <3>5. QED
      BY <3>3, <3>4
  <2>4. \A k \in Key : library'[k] \in {library[k], None}
    BY <2>1, <2>2, DistinctAssumption DEF Asset
  <2>5. library' \in [Asset -> LibraryRow \cup {None}]
    BY <1>4, NextLemma DEF Next, Curate, IInv, TypeOK
  <2>6. QED
    BY <1>2, <1>3, <1>4, <2>3, <2>4, <2>5, CurateOwned DEF PutLibrary
<1>5. CASE PutRefused(S, name)
  <2>1. library' = library /\ uploads' = uploads
    BY <1>5 DEF PutRefused
  <2>2. Named'
    BY <2>1 DEF Owned, Named, Items
  <2>3. QED
    BY <1>1, <1>2, <1>3, <1>5, <2>1, <2>2, CurateOwned DEF PutRefused
<1>6. QED
  BY <1>4, <1>5

LEMMA RemoveItemOwned ==
  ASSUME IInv, Owned, DistinctNames, NEW a \in Asset, RemoveItem(a)
  PROVE  Owned'
<1> DEFINE k == library[a].dest
<1>1. library \in [Asset -> LibraryRow \cup {None}] /\ k \in Key
  BY DEF IInv, TypeOK, RemoveItem, LibraryRow
<1>2. \A b \in Asset : library'[b] = IF library[b] # None /\ library[b].dest = k
                                     THEN None ELSE library[b]
  BY DEF RemoveItem
<1>3. Named'
  BY <1>2 DEF Owned, Named, Items, RemoveItem
<1>4. \A j \in Key : library'[j] \in {library[j], None}
  BY <1>2 DEF Asset
<1>5. \A j \in ImportKey \cap {k} : library'[j] = None
  BY <1>1, <1>2, OwnLemma DEF Owned, Named, Items, Asset, LibraryRow
<1>6. library' \in [Asset -> LibraryRow \cup {None}]
  BY <1>1 DEF RemoveItem
<1>7. QED
  BY <1>1, <1>3, <1>4, <1>5, <1>6, CurateOwned DEF RemoveItem

LEMMA FolderSyncOwned ==
  ASSUME IInv, Owned, DistinctNames, NEW f \in Folder, NEW S \in Listing,
         FolderSync(f, S)
  PROVE  Owned'
<1> DEFINE K == LeftFolder(f, S)
<1>1. library \in [Asset -> LibraryRow \cup {None}] /\ S \subseteq Immich
  BY KeysAssumption DEF IInv, TypeOK
<1>2. K \in SUBSET Key
  BY <1>1 DEF LeftFolder, Items, LibraryRow
<1>3. ImportKey \cap K = {}
  <2>1. SUFFICES ASSUME NEW b \in Items(library), library[b].source = f,
                        library[b].dest \in ImportKey
                 PROVE  FALSE
    BY DEF LeftFolder
  <2>2. b \in Asset /\ b \notin Key /\ library[b].dest \in Key
    BY <1>1, <2>1, DistinctAssumption DEF Items, LibraryRow, Owned, Named
  <2>3. library[b].dest = Slug[b] /\ b \in Immich
    BY <2>2, OwnLemma DEF Owned, Named, Asset
  <2>4. QED
    BY <2>1, <2>3 DEF DistinctNames
<1>4. \A a \in Asset : library'[a] = IF a \in S THEN [dest |-> Slug[a], source |-> f]
                                     ELSE IF library[a] # None /\ library[a].source = f
                                          THEN None ELSE library[a]
  BY DEF FolderSync, Synced
<1>5. Named'
  <2>1. SUFFICES ASSUME NEW a \in Items(library')
                 PROVE  /\ a \in Own(library'[a].dest)
                        /\ a \in Immich => library'[a].source \in {"immich"} \cup Folder
                        /\ a \in Key => /\ library'[a].source \in {"upload", "frame"}
                                        /\ uploads'[a] # None
    BY DEF Named
  <2>2. a \in Asset /\ library'[a] # None /\ uploads' = uploads
    BY DEF Items, FolderSync
  <2>3. CASE a \in S
    <3>1. a \in Immich /\ a \notin Key /\ a \in Own(Slug[a])
      BY <1>1, <2>3, OwnLemma, DistinctAssumption
    <3>2. library'[a] = [dest |-> Slug[a], source |-> f]
      BY <1>4, <2>2, <2>3
    <3>3. library'[a].dest = Slug[a] /\ library'[a].source = f
      BY <3>2
    <3>4. QED
      BY <3>1, <3>3
  <2>4. CASE a \notin S
    BY <1>4, <2>2, <2>4 DEF Owned, Named, Items
  <2>5. QED
    BY <2>3, <2>4
<1>6. \A k \in Key : library'[k] \in {library[k], None}
  BY <1>1, <1>4, DistinctAssumption DEF Asset
<1>7. library' \in [Asset -> LibraryRow \cup {None}]
  BY NextLemma DEF Next, Curate, IInv, TypeOK
<1>8. QED
  BY <1>2, <1>3, <1>5, <1>6, <1>7, CurateOwned DEF FolderSync

LEMMA AddAlbumOnceOwned ==
  ASSUME IInv, Owned, DistinctNames, NEW S \in Listing, AddAlbumOnce(S)
  PROVE  Owned'
<1>1. /\ library \in [Asset -> LibraryRow \cup {None}] /\ S \subseteq Immich
      /\ queue \in [Key -> QueueRow \cup {None}]
      /\ cache \in [Key -> Asset \cup {None}]
      /\ batch \in [Key -> Snapshot \cup {None}]
  BY KeysAssumption DEF IInv, TypeOK
<1>2. \A a \in Asset : library'[a] = IF a \in S
                                     THEN [dest |-> Slug[a], source |-> "immich"]
                                     ELSE library[a]
  BY DEF AddAlbumOnce
<1>3. Named'
  <2>1. SUFFICES ASSUME NEW a \in Items(library')
                 PROVE  /\ a \in Own(library'[a].dest)
                        /\ a \in Immich => library'[a].source \in {"immich"} \cup Folder
                        /\ a \in Key => /\ library'[a].source \in {"upload", "frame"}
                                        /\ uploads'[a] # None
    BY DEF Named
  <2>2. a \in Asset /\ library'[a] # None /\ uploads' = uploads
    BY DEF Items, AddAlbumOnce
  <2>3. CASE a \in S
    <3>1. a \in Immich /\ a \notin Key /\ a \in Own(Slug[a])
      BY <1>1, <2>3, OwnLemma, DistinctAssumption
    <3>2. library'[a] = [dest |-> Slug[a], source |-> "immich"]
      BY <1>2, <2>2, <2>3
    <3>3. library'[a].dest = Slug[a] /\ library'[a].source = "immich"
      BY <3>2
    <3>4. QED
      BY <3>1, <3>3
  <2>4. CASE a \notin S
    BY <1>2, <2>2, <2>4 DEF Owned, Named, Items
  <2>5. QED
    BY <2>3, <2>4
<1>4. \A k \in Key : library'[k] \in {library[k], None}
  BY <1>1, <1>2, DistinctAssumption DEF Asset
<1>5. library' \in [Asset -> LibraryRow \cup {None}]
  BY NextLemma DEF Next, Curate, IInv, TypeOK
<1>6. /\ queue = Without(queue, {}) /\ cache' = Without(cache, {})
      /\ batch' = Orphaned(batch, {})
  BY <1>1 DEF Without, Orphaned, AddAlbumOnce
<1>7. queue' \in EnqueueDesired(library', Without(queue, {}))
  BY <1>6 DEF AddAlbumOnce
<1>8. QED
  BY <1>3, <1>4, <1>5, <1>6, <1>7, CurateOwned DEF AddAlbumOnce

(* Where no request is handled: rows stay, with their photo, and what was  *)
(* delivered stays delivered; images and snapshots change to their name's  *)
(* own.                                                                    *)
LEMMA WorkOwned ==
  ASSUME Owned,
         \A k \in Key :
           /\ queue'[k] # None <=> queue[k] # None
           /\ queue[k] # None =>
                /\ queue'[k].payload = queue[k].payload
                /\ queue[k].state = "delivered" => queue'[k].state = "delivered"
           /\ batch'[k] # None => batch'[k].payload \in Own(k) /\ k \notin ImportKey
           /\ cache'[k] \in Own(k) \cup {None}
           /\ device'[k] \in Own(k) \cup {None},
         job' # None => /\ job'.image \in Own(job'.key) \cup {None}
                        /\ job'.phase # "fetch" => job'.image # None,
         UNCHANGED <<library, uploads>>,
         ingest' \in {ingest, None}
  PROVE  Owned'
<1>1. Named'
  BY DEF Owned, Named, Items
<1>2. OwnRows'
  BY DEF Owned, OwnRows
<1>3. OwnImages'
  BY DEF Owned, OwnImages
<1>4. Joining'
  BY DEF Owned, Joining
<1>5. Imported'
  BY KeysAssumption DEF Owned, Imported
<1>6. QED
  BY <1>1, <1>2, <1>3, <1>4, <1>5 DEF Owned

(* Marking or postponing touches the state and the due time of a row only. *)
LEMMA MarkedKeepsLemma ==
  ASSUME IInv, NEW k \in Key, batch[k] # None,
         queue' = Marked(k) \/ queue' = Postponed(k)
  PROVE  \A j \in Key :
           /\ queue'[j] # None <=> queue[j] # None
           /\ queue[j] # None =>
                /\ queue'[j].payload = queue[j].payload
                /\ queue[j].state = "delivered" => queue'[j].state = "delivered"
<1>1. /\ queue \in [Key -> QueueRow \cup {None}]
      /\ batch[k].live => queue[k] \in QueueRow
  BY DEF IInv, TypeOK, LiveRows
<1>2. CASE batch[k].live
  <2>1. /\ [queue[k] EXCEPT !.state = "delivered"] \in QueueRow
        /\ [queue[k] EXCEPT !.state = "delivered"].payload = queue[k].payload
        /\ [queue[k] EXCEPT !.state = "delivered"].state = "delivered"
        /\ [queue[k] EXCEPT !.due = FALSE] \in QueueRow
        /\ [queue[k] EXCEPT !.due = FALSE].payload = queue[k].payload
        /\ [queue[k] EXCEPT !.due = FALSE].state = queue[k].state
    BY <1>1, <1>2 DEF QueueRow
  <2>2. \/ queue' = [queue EXCEPT ![k] = [queue[k] EXCEPT !.state = "delivered"]]
        \/ queue' = [queue EXCEPT ![k] = [queue[k] EXCEPT !.due = FALSE]]
    BY <1>1, <1>2 DEF Marked, Postponed
  <2>3. \A j \in Key : j # k => queue'[j] = queue[j]
    BY <1>1, <2>2
  <2>4. \/ queue'[k] = [queue[k] EXCEPT !.state = "delivered"]
        \/ queue'[k] = [queue[k] EXCEPT !.due = FALSE]
    BY <1>1, <2>2
  <2>5. QED
    BY <1>1, <1>2, <2>1, <2>3, <2>4, NoneAssumption
<1>3. CASE ~batch[k].live
  BY <1>3 DEF Marked, Postponed
<1>4. QED
  BY <1>2, <1>3

LEMMA DeliverOwned ==
  ASSUME IInv, Owned, DistinctNames, Deliver
  PROVE  Owned'
<1>1. \A k \in Key : /\ cache[k] \in Own(k) \cup {None}
                     /\ uploads[k] \in Own(k) \cup {None}
                     /\ device[k] \in Own(k) \cup {None}
                     /\ batch[k] # None => batch[k].payload \in Own(k) /\ k \notin ImportKey
  BY DEF Owned, OwnRows, OwnImages, Imported
<1>2. job # None =>
        /\ job \in Job /\ job.key \in Key /\ batch[job.key] # None
        /\ Source \in Own(job.key) /\ Source # None
        /\ job.phase # "fetch" => job.image \in Own(job.key) /\ job.image # None
  BY <1>1, JobLemma DEF Source, Owned, OwnImages
<1>3. /\ cache \in [Key -> Asset \cup {None}] /\ batch \in [Key -> Snapshot \cup {None}]
  BY DEF IInv, TypeOK
<1>4. ASSUME NEW k \in Key, batch[k] # None, Finished(k),
             queue' = Marked(k) \/ queue' = Postponed(k),
             \A j \in Key : cache'[j] \in Own(j) \cup {None},
             UNCHANGED <<library, uploads, device, ingest>>
      PROVE  Owned'
  <2>1. \A j \in Key : /\ batch'[j] \in {batch[j], None}
                       /\ job' = None
    BY <1>3, <1>4 DEF Finished
  <2>2. \A j \in Key :
           /\ queue'[j] # None <=> queue[j] # None
           /\ queue[j] # None =>
                /\ queue'[j].payload = queue[j].payload
                /\ queue[j].state = "delivered" => queue'[j].state = "delivered"
    BY <1>4, MarkedKeepsLemma
  <2>3. QED
    BY <1>1, <1>4, <2>1, <2>2, WorkOwned
<1>5. ASSUME job'.image \in Own(job'.key) \cup {None},
             job'.phase # "fetch" => job'.image # None,
             \A j \in Key : cache'[j] \in Own(j) \cup {None},
             UNCHANGED <<library, queue, uploads, device, batch, ingest>>
      PROVE  Owned'
  BY <1>1, <1>5, WorkOwned
<1>6. CASE BatchBegin
  <2>1. PICK K \in SUBSET Due :
          batch' = [k \in Key |-> IF k \in K
                                  THEN [payload |-> queue[k].payload, live |-> TRUE]
                                  ELSE None]
    BY <1>6 DEF BatchBegin
  <2>2. ASSUME NEW k \in Key, batch'[k] # None
        PROVE  batch'[k].payload \in Own(k) /\ k \notin ImportKey
    <3>1. k \in Due /\ batch'[k] = [payload |-> queue[k].payload, live |-> TRUE]
      BY <2>1, <2>2
    <3>2. queue[k] # None /\ queue[k].state = "pending"
      BY <3>1 DEF Due
    <3>3. batch'[k].payload = queue[k].payload
      BY <3>1
    <3>4. QED
      BY <3>2, <3>3 DEF Owned, OwnRows, Imported
  <2>3. job' = None
    BY <1>6 DEF BatchBegin
  <2>4. UNCHANGED <<library, queue, cache, uploads, device, ingest>>
    BY <1>6 DEF BatchBegin
  <2>5. QED
    BY <1>1, <2>2, <2>3, <2>4, WorkOwned
<1>7. CASE \E k \in Key : DeliverCached(k)
  <2>1. PICK k \in Key : DeliverCached(k)
    BY <1>7
  <2>2. CASE Served
    BY <1>1, <1>4, <2>1, <2>2 DEF DeliverCached
  <2>3. CASE ~Served
    <3>1. job' = [key |-> k, phase |-> "push", image |-> cache[k]]
      BY <2>1, <2>3 DEF DeliverCached
    <3>2. job'.key = k /\ job'.image = cache[k] /\ cache[k] # None
      BY <2>1, <3>1 DEF DeliverCached
    <3>3. QED
      BY <1>1, <1>5, <2>1, <2>3, <3>2 DEF DeliverCached
  <2>4. QED
    BY <2>2, <2>3
<1>8. CASE \E k \in Key : DeliverUncached(k)
  <2>1. PICK k \in Key : DeliverUncached(k)
    BY <1>8
  <2>2. job' = [key |-> k, phase |-> "fetch", image |-> uploads[k]]
    BY <2>1 DEF DeliverUncached
  <2>3. job'.key = k /\ job'.image = uploads[k] /\ job'.phase = "fetch"
    BY <2>2
  <2>4. QED
    BY <1>1, <2>1, <2>3, WorkOwned DEF DeliverUncached
<1>9. CASE FetchOk
  <2>1. job # None
    BY <1>9 DEF FetchOk
  <2>2. \A j \in Key : cache'[j] \in Own(j) \cup {None}
    BY <1>1, <1>2, <1>3, <1>9 DEF FetchOk
  <2>3. CASE Served
    BY <1>2, <1>4, <1>9, <2>1, <2>2, <2>3 DEF FetchOk
  <2>4. CASE ~Served
    <3>1. job' = [job EXCEPT !.phase = "push", !.image = Source]
      BY <1>9, <2>4 DEF FetchOk
    <3>2. job'.key = job.key /\ job'.image = Source
      BY <1>2, <2>1, <3>1 DEF Job
    <3>3. QED
      BY <1>1, <1>2, <1>9, <2>1, <2>2, <2>4, <3>2, WorkOwned DEF FetchOk
  <2>5. QED
    BY <2>3, <2>4
<1>10. CASE PushOk
  BY <1>1, <1>2, <1>4, <1>10 DEF PushOk
<1>11. CASE DeliverFails
  BY <1>1, <1>2, <1>4, <1>11 DEF DeliverFails
<1>12. QED
  BY <1>6, <1>7, <1>8, <1>9, <1>10, <1>11 DEF Deliver

LEMMA IngestOwned ==
  ASSUME IInv, Owned, DistinctNames, Ingesting
  PROVE  Owned'
<1> USE DEF Owned
<1>1. /\ library \in [Asset -> LibraryRow \cup {None}]
      /\ queue \in [Key -> QueueRow \cup {None}]
      /\ cache \in [Key -> Asset \cup {None}]
      /\ uploads \in [Key -> Asset \cup {None}]
      /\ ingest \in Ingest \cup {None}
      /\ Key \subseteq Asset
  BY DEF IInv, TypeOK, Asset
<1>2. CASE \E k \in Key : UploadBegin(k)
  <2>1. PICK k \in Key : UploadBegin(k)
    BY <1>2
  <2>2. k \in UploadKey /\ k \notin ImportKey /\ k \in Own(k) /\ k # None
    BY <1>1, <2>1, OwnLemma, DistinctAssumption DEF UploadBegin, DistinctNames
  <2>3. /\ uploads'[k] = k
        /\ \A j \in Key \ {k} : uploads'[j] = uploads[j]
    BY <1>1, <2>1 DEF UploadBegin
  <2>4. library[k] = None
    BY <1>1, <2>1 DEF UploadBegin, Named, Items
  <2>5. ingest' = [key |-> k, source |-> "upload", image |-> k, phase |-> "prepare"]
    BY <2>1 DEF UploadBegin
  <2>6. Named'
    <3>1. library' = library
      BY <2>1 DEF UploadBegin
    <3>2. \A j \in Key : uploads[j] # None => uploads'[j] # None
      BY <2>2, <2>3
    <3>3. QED
      BY <3>1, <3>2 DEF Named, Items
  <2>7. OwnRows' /\ Imported'
    BY <2>1 DEF UploadBegin, OwnRows, Imported
  <2>8. OwnImages'
    BY <2>1, <2>2, <2>3 DEF UploadBegin, OwnImages
  <2>9. Joining'
    <3>1. /\ ingest'.key = k /\ ingest'.image = k /\ ingest'.phase = "prepare"
          /\ library' = library
      BY <2>1, <2>5 DEF UploadBegin
    <3>2. QED
      BY <2>2, <2>3, <2>4, <3>1 DEF Joining
  <2>10. QED
    BY <2>6, <2>7, <2>8, <2>9
<1>3. CASE \E k \in Key : ImportBegin(k)
  <2>1. PICK k \in Key : ImportBegin(k)
    BY <1>3
  <2>2. k \in ImportKey /\ k \in Own(k) /\ device[k] = k
    BY <2>1, OwnLemma DEF ImportBegin, OwnImages
  <2>3. library[k] = None
    BY <1>1, <2>1, OwnLemma DEF ImportBegin, DestsOf, Named, Items, LibraryRow
  <2>4. ingest' = [key |-> k, source |-> "frame", image |-> k, phase |-> "download"]
    BY <2>1, <2>2 DEF ImportBegin
  <2>5. Named' /\ OwnRows' /\ OwnImages' /\ Imported'
    BY <2>1 DEF ImportBegin, Named, Items, OwnRows, OwnImages, Imported
  <2>6. Joining'
    <3>1. /\ ingest'.key = k /\ ingest'.image = k /\ ingest'.phase = "download"
          /\ ingest'.source = "frame" /\ library' = library
      BY <2>1, <2>4 DEF ImportBegin
    <3>2. QED
      BY <2>2, <2>3, <3>1 DEF Joining
  <2>7. QED
    BY <2>5, <2>6
<1>4. CASE ImportDownloaded
  <2> DEFINE k == ingest.key
  <2>1. k \in Key /\ k \in Own(k) /\ ingest \in Ingest
    BY <1>1, <1>4, OwnLemma DEF ImportDownloaded, Ingest, Joining
  <2>2. device[k] = k
    BY <1>4, <2>1, OwnLemma DEF ImportDownloaded, OwnImages
  <2>3. /\ uploads'[k] = k
        /\ \A j \in Key \ {k} : uploads'[j] = uploads[j]
    BY <1>1, <1>4, <2>1, <2>2 DEF ImportDownloaded
  <2>4. /\ ingest'.key = k /\ ingest'.image = k /\ ingest'.phase = "prepare"
        /\ ingest'.source = ingest.source
    BY <1>4, <2>1, <2>2 DEF ImportDownloaded, Ingest
  <2>5. k # None
    BY <2>1, <1>1, DistinctAssumption
  <2>6. Named'
    BY <1>4, <2>3, <2>5 DEF ImportDownloaded, Named, Items
  <2>7. OwnRows' /\ Imported'
    BY <1>4 DEF ImportDownloaded, OwnRows, Imported
  <2>8. OwnImages'
    BY <1>4, <2>1, <2>3 DEF ImportDownloaded, OwnImages
  <2>9. Joining'
    BY <1>4, <2>3, <2>4, <2>5 DEF ImportDownloaded, Joining
  <2>10. QED
    BY <2>6, <2>7, <2>8, <2>9
<1>5. CASE IngestPrepared
  <2> DEFINE k == ingest.key
  <2>1. /\ k \in Key /\ k \in Own(k) /\ ingest \in Ingest
        /\ ingest.image = k /\ uploads[k] # None
    BY <1>1, <1>5, OwnLemma DEF IngestPrepared, Ingest, Joining
  <2>2. \A j \in Key : cache'[j] = IF j = k THEN k ELSE cache[j]
    BY <1>1, <1>5, <2>1 DEF IngestPrepared
  <2>3. /\ ingest'.key = k /\ ingest'.image = k /\ ingest'.source = ingest.source
    BY <1>5, <2>1 DEF IngestPrepared, Ingest
  <2>4. Named' /\ OwnRows' /\ Imported'
    BY <1>5 DEF IngestPrepared, Named, Items, OwnRows, Imported
  <2>5. OwnImages'
    BY <1>5, <2>1, <2>2 DEF IngestPrepared, OwnImages
  <2>6. Joining'
    BY <1>5, <2>1, <2>3 DEF IngestPrepared, Joining
  <2>7. QED
    BY <2>4, <2>5, <2>6
<1>6. CASE IngestJoin
  <2> DEFINE k == ingest.key
             state == IF ingest.source = "frame" THEN "delivered" ELSE "pending"
             row == [Queued(k) EXCEPT !.state = state]
  <2>1. /\ k \in Key /\ k \in Own(k) /\ ingest \in Ingest /\ uploads[k] # None
        /\ k \in ImportKey => ingest.source = "frame"
    BY <1>1, <1>6, OwnLemma DEF IngestJoin, Ingest, Joining
  <2>2. row \in QueueRow /\ row.payload = k /\ row.state = state
    BY <1>1, <2>1 DEF Queued, QueueRow
  <2>3. queue' = [queue EXCEPT ![k] = row]
    BY <1>6 DEF IngestJoin
  <2> HIDE DEF row
  <2>4. \A j \in Key : queue'[j] = IF j = k THEN row ELSE queue[j]
    BY <1>1, <2>1, <2>3
  <2>5. library' = [library EXCEPT ![k] = [dest |-> k, source |-> ingest.source]]
    BY <1>6 DEF IngestJoin
  <2>6. /\ \A a \in Asset \ {k} : library'[a] = library[a]
        /\ library'[k] = [dest |-> k, source |-> ingest.source]
    BY <1>1, <2>1, <2>5
  <2>7. library'[k].dest = k /\ library'[k].source \in {"upload", "frame"}
    BY <2>1, <2>6 DEF Ingest
  <2>8. UNCHANGED <<cache, uploads, device, batch, job>> /\ ingest' = None
    BY <1>6 DEF IngestJoin
  <2>9. Named'
    <3>1. ASSUME NEW a \in Asset, library'[a] # None
          PROVE  /\ a \in Own(library'[a].dest)
                 /\ a \in Immich => library'[a].source \in {"immich"} \cup Folder
                 /\ a \in Key => /\ library'[a].source \in {"upload", "frame"}
                                 /\ uploads'[a] # None
      <4>1. CASE a = k
        BY <2>1, <2>7, <2>8, <4>1, DistinctAssumption
      <4>2. CASE a # k
        BY <2>6, <2>8, <3>1, <4>2 DEF Named, Items
      <4>3. QED
        BY <4>1, <4>2
    <3>2. QED
      BY <3>1 DEF Named, Items
  <2>10. OwnRows'
    BY <2>1, <2>2, <2>4, <2>8 DEF OwnRows
  <2>11. OwnImages' /\ Joining'
    BY <2>8 DEF OwnImages, Joining
  <2>12. Imported'
    BY <1>1, <2>1, <2>2, <2>4, <2>6, <2>8, NoneAssumption, KeysAssumption DEF Imported
  <2>13. QED
    BY <2>9, <2>10, <2>11, <2>12
<1>7. CASE IngestFails
  BY <1>7 DEF IngestFails, Named, Items, OwnRows, OwnImages, Joining, Imported
<1>8. QED
  BY <1>2, <1>3, <1>4, <1>5, <1>6, <1>7 DEF Ingesting

LEMMA OwnedNext ==
  ASSUME IInv, Owned, DistinctNames, [Next]_vars
  PROVE  Owned'
<1>1. \A k \in Key : /\ cache[k] \in Own(k) \cup {None}
                     /\ device[k] \in Own(k) \cup {None}
                     /\ batch[k] # None => batch[k].payload \in Own(k) /\ k \notin ImportKey
  BY DEF Owned, OwnRows, OwnImages, Imported
<1>2. job # None => /\ job.image \in Own(job.key) \cup {None}
                    /\ job.phase # "fetch" => job.image # None
  BY DEF Owned, OwnImages
<1>3. /\ device \in [Key -> Asset \cup {None}] /\ batch \in [Key -> Snapshot \cup {None}]
      /\ queue \in [Key -> QueueRow \cup {None}]
  BY DEF IInv, TypeOK
<1>4. CASE Curate
  BY <1>4, PutOwned, RemoveItemOwned, FolderSyncOwned, AddAlbumOnceOwned DEF Curate
<1>5. CASE PushLands
  <2>1. job \in Job /\ job.key \in Key /\ job.image \in Own(job.key)
    BY <1>2, <1>5, JobLemma DEF PushLands
  <2>2. \A k \in Key : device'[k] \in Own(k) \cup {None}
    BY <1>1, <1>3, <1>5, <2>1 DEF PushLands
  <2>3. job'.key = job.key /\ job'.image = job.image
    BY <1>5, <2>1 DEF PushLands, Job
  <2>4. QED
    BY <1>1, <1>2, <1>5, <2>1, <2>2, <2>3, WorkOwned DEF PushLands
<1>6. CASE \E k \in Key : EraseOnDevice(k)
  <2>1. PICK k \in Key : EraseOnDevice(k)
    BY <1>6
  <2>2. \A j \in Key : device'[j] \in Own(j) \cup {None}
    BY <1>1, <1>3, <2>1 DEF EraseOnDevice
  <2>3. QED
    BY <1>1, <1>2, <2>1, <2>2, WorkOwned DEF EraseOnDevice
<1>7. CASE \E k \in Key : TimePasses(k)
  <2>1. PICK k \in Key : TimePasses(k)
    BY <1>7
  <2>2. /\ queue[k] \in QueueRow
        /\ queue' = [queue EXCEPT ![k] = [queue[k] EXCEPT !.due = TRUE]]
    BY <1>3, <2>1 DEF TimePasses
  <2>3. /\ [queue[k] EXCEPT !.due = TRUE] \in QueueRow
        /\ [queue[k] EXCEPT !.due = TRUE].payload = queue[k].payload
        /\ [queue[k] EXCEPT !.due = TRUE].state = queue[k].state
    BY <2>2 DEF QueueRow
  <2>4. \A j \in Key :
           /\ queue'[j] # None <=> queue[j] # None
           /\ queue[j] # None =>
                /\ queue'[j].payload = queue[j].payload
                /\ queue[j].state = "delivered" => queue'[j].state = "delivered"
    BY <1>3, <2>2, <2>3, NoneAssumption
  <2>5. UNCHANGED <<library, cache, uploads, device, batch, job, ingest>>
    BY <2>1 DEF TimePasses
  <2>6. QED
    BY <1>1, <1>2, <2>4, <2>5, WorkOwned
<1>8. CASE Crash
  BY <1>1, <1>8, WorkOwned DEF Crash, Empty
<1>9. CASE UNCHANGED vars
  BY <1>1, <1>2, <1>9, WorkOwned DEF vars
<1>10. QED
  BY <1>4, <1>5, <1>6, <1>7, <1>8, <1>9, DeliverOwned, IngestOwned DEF Next

(* Where names keep photos apart, every row, snapshot, cached image, kept  *)
(* original and device file under a name is of the one photo it stands for.*)
THEOREM OwnedHolds == ASSUME DistinctNames PROVE Spec => []Owned
<1>1. Init => Owned
  BY OwnedInit
<1>2. IInv /\ Owned /\ [Next]_vars => Owned'
  BY OwnedNext
<1>3. QED
  BY <1>1, <1>2, Inductive, PTL DEF Spec

(* A photo imported off the frame is there already: no batch ever picks it *)
(* up to push it back (frame_import.py: enqueued and marked, no await).    *)
THEOREM ImportedNotResentHolds == ASSUME DistinctNames PROVE Spec => []ImportedNotResent
<1>1. Owned => ImportedNotResent
  BY DEF Owned, Imported, ImportedNotResent
<1>2. QED
  BY <1>1, OwnedHolds, PTL

(* Finishing a push marks the row of the job's name, and the name stands   *)
(* for one photo: the picture that landed.                                 *)
LandsStep ==
  \A k \in Key :
    /\ job # None /\ job.key = k /\ job.phase = "landed"
    /\ queue[k] # None /\ queue[k].state # "delivered"
    /\ queue'[k] # None /\ queue'[k].state = "delivered"
    => job.image = ImageOf(queue'[k].payload, k)

LEMMA LandsStepLemma ==
  ASSUME Owned, Owned', DistinctNames
  PROVE  LandsStep
<1>1. SUFFICES ASSUME NEW k \in Key, job # None, job.key = k, job.phase = "landed",
                      queue'[k] # None
               PROVE  job.image = ImageOf(queue'[k].payload, k)
  BY DEF LandsStep
<1>2. job.image \in Own(k)
  BY <1>1 DEF Owned, OwnImages
<1>3. queue'[k].payload \in Own(k) /\ uploads[k] \in Own(k) \cup {None}
  BY <1>1 DEF Owned, OwnRows, OwnImages
<1>4. ImageOf(queue'[k].payload, k) \in Own(k)
  BY <1>3 DEF ImageOf
<1>5. QED
  BY <1>2, <1>4, OwnLemma

(* As long as clients keep the names, a push marks its own row delivered   *)
(* and never one that was replaced under it (delivery.py, reconcile).      *)
THEOREM LandsWhatItMarksHolds == ASSUME DistinctNames PROVE Spec => LandsWhatItMarks
<1>1. Owned /\ Owned' => [LandsStep]_vars
  BY LandsStepLemma
<1>2. Spec => [][LandsStep]_vars
  BY <1>1, OwnedHolds, PTL
<1>3. QED
  BY <1>2 DEF LandsWhatItMarks, LandsStep
-----------------------------------------------------------------------------
(* Only the delta is delivered.                                            *)

DeltaStep ==
  \A a \in Asset :
    /\ library[a] # None /\ library'[a] # None
    /\ library'[a].dest = library[a].dest
    /\ OnFrame(queue, library[a].dest, a)
    => OnFrame(queue', library[a].dest, a) \/ Refused

(* Curation keeps a delivered row of a photo that stays under a name which *)
(* is not evicted: no other photo has that name.                           *)
LEMMA CurateDeltaLemma ==
  ASSUME IInv, Owned', DistinctNames, NEW K \in SUBSET Key,
         library' \in [Asset -> LibraryRow \cup {None}],
         queue' \in EnqueueDesired(library', Without(queue, K)),
         NEW a \in Asset, library'[a] # None, library'[a].dest \notin K,
         OnFrame(queue, library'[a].dest, a)
  PROVE  OnFrame(queue', library'[a].dest, a)
<1> DEFINE k == library'[a].dest
           q == Without(queue, K)
<1>1. k \in Key
  BY DEF LibraryRow
<1>2. q[k] = queue[k]
  BY <1>1 DEF Without
<1>3. OnFrame(q, k, a)
  BY <1>2 DEF OnFrame
<1> HIDE DEF q
<1>4. queue'[k] = q[k]
  <2>1. SUFFICES ASSUME NEW b \in Items(library'), library'[b].dest = k,
                        ~OnFrame(q, k, b)
                 PROVE  FALSE
    BY <1>1, EnqueueOnlyWantedLemma DEF q
  <2>2. a \in Items(library')
    BY DEF Items
  <2>3. a = b
    BY <1>1, <2>1, <2>2, OwnLemma DEF Owned, Named
  <2>4. QED
    BY <1>3, <2>1, <2>3
<1>5. QED
  BY <1>2, <1>4 DEF OnFrame

LEMMA DeltaStepLemma ==
  ASSUME IInv, Owned, DistinctNames, [Next]_vars, ~Refused
  PROVE  DeltaStep
<1>1. /\ library \in [Asset -> LibraryRow \cup {None}]
      /\ queue \in [Key -> QueueRow \cup {None}]
      /\ Key \subseteq Asset
  BY DEF IInv, TypeOK, Asset
<1>2. library' \in [Asset -> LibraryRow \cup {None}] /\ Owned'
  BY NextLemma, OwnedNext DEF IInv, TypeOK
<1>3. SUFFICES ASSUME NEW a \in Asset, library[a] # None, library'[a] # None,
                      library'[a].dest = library[a].dest,
                      OnFrame(queue, library[a].dest, a)
               PROVE  OnFrame(queue', library[a].dest, a)
  BY DEF DeltaStep
<1> DEFINE k == library[a].dest
<1>4. k \in Key /\ a \in Items(library) /\ a \in Own(k)
  BY <1>1, <1>3 DEF LibraryRow, Items, Owned, Named
<1>5. ASSUME \A j \in Key :
               /\ queue'[j] # None <=> queue[j] # None
               /\ queue[j] # None =>
                    /\ queue'[j].payload = queue[j].payload
                    /\ queue[j].state = "delivered" => queue'[j].state = "delivered"
      PROVE  OnFrame(queue', k, a)
  BY <1>3, <1>4, <1>5 DEF OnFrame
<1>6. CASE queue' = queue
  BY <1>3, <1>6
<1>7. CASE \E S \in SUBSET Listable : \E name \in [S -> Key] : PutLibrary(S, name)
  <2>1. PICK S \in SUBSET Listable : \E name \in [S -> Key] : PutLibrary(S, name)
    BY <1>7
  <2>2. PICK name \in [S -> Key] : PutLibrary(S, name)
    BY <2>1
  <2>3. Dropped(name) \in SUBSET Key
    BY <1>1 DEF Dropped, Items, LibraryRow
  <2>4. \A b \in Asset : library'[b] = IF b \in S
          THEN [dest |-> name[b], source |-> "immich"]
          ELSE IF library[b] # None /\ library[b].source # "immich"
               THEN library[b] ELSE None
    BY <2>2 DEF PutLibrary, Replaced
  <2>5. k \notin Dropped(name)
    <3>1. SUFFICES ASSUME NEW b \in Items(library), library[b].source = "immich",
                          library[b].dest = k, \A c \in S : name[c] # k
                   PROVE  FALSE
      BY DEF Dropped
    <3>2. b = a
      BY <1>4, <3>1, OwnLemma DEF Owned, Named
    <3>3. a \in S
      BY <1>3, <2>4, <3>1, <3>2
    <3>4. library'[a] = [dest |-> name[a], source |-> "immich"]
      BY <2>4, <3>3
    <3>5. library'[a].dest = name[a]
      BY <3>4
    <3>6. QED
      BY <1>3, <3>1, <3>3, <3>5
  <2>6. QED
    BY <1>2, <1>3, <2>2, <2>3, <2>5, CurateDeltaLemma DEF PutLibrary
<1>8. CASE \E b \in Asset : RemoveItem(b)
  <2>1. PICK b \in Asset : RemoveItem(b)
    BY <1>8
  <2>2. k # library[b].dest /\ queue' = Without(queue, {library[b].dest})
    BY <1>3, <2>1 DEF RemoveItem
  <2>3. queue'[k] = queue[k]
    BY <1>4, <2>2 DEF Without
  <2>4. QED
    BY <1>3, <2>3 DEF OnFrame
<1>9. CASE \E f \in Folder, S \in Listing : FolderSync(f, S)
  <2>1. PICK f \in Folder, S \in Listing : FolderSync(f, S)
    BY <1>9
  <2>2. LeftFolder(f, S) \in SUBSET Key
    BY <1>1 DEF LeftFolder, Items, LibraryRow
  <2>3. library'[a] = IF a \in S THEN [dest |-> Slug[a], source |-> f]
                      ELSE IF library[a] # None /\ library[a].source = f
                           THEN None ELSE library[a]
    BY <2>1 DEF FolderSync, Synced
  <2>4. k \notin LeftFolder(f, S)
    <3>1. SUFFICES ASSUME NEW b \in Items(library), library[b].source = f,
                          library[b].dest = k, \A c \in S : Slug[c] # k
                   PROVE  FALSE
      BY DEF LeftFolder
    <3>2. b = a
      BY <1>4, <3>1, OwnLemma DEF Owned, Named
    <3>3. a \in S
      BY <1>3, <2>3, <3>1, <3>2
    <3>4. library'[a] = [dest |-> Slug[a], source |-> f]
      BY <2>3, <3>3
    <3>5. library'[a].dest = Slug[a]
      BY <3>4
    <3>6. QED
      BY <1>3, <3>1, <3>3, <3>5
  <2>5. QED
    BY <1>2, <1>3, <2>1, <2>2, <2>4, CurateDeltaLemma DEF FolderSync
<1>10. CASE \E S \in Listing : AddAlbumOnce(S)
  <2>1. queue = Without(queue, {}) /\ queue' \in EnqueueDesired(library', queue)
    BY <1>1, <1>10 DEF AddAlbumOnce, Without
  <2>2. QED
    BY <1>2, <1>3, <2>1, CurateDeltaLemma
<1>11. CASE IngestJoin
  <2> DEFINE i == ingest.key
  <2>1. i \in Key /\ library[i] = None /\ i \in Own(i)
    BY <1>1, <1>11, OwnLemma, KeysAssumption DEF IngestJoin, Owned, Joining
  <2>2. k # i
    BY <1>3, <1>4, <2>1, OwnLemma
  <2>3. queue'[k] = queue[k]
    BY <1>4, <1>11, <2>1, <2>2 DEF IngestJoin
  <2>4. QED
    BY <1>3, <2>3 DEF OnFrame
<1>12. CASE \E j \in Key : TimePasses(j)
  <2>1. PICK j \in Key : TimePasses(j)
    BY <1>12
  <2>2. /\ queue[j].state = "pending"
        /\ queue' = [queue EXCEPT ![j] = [queue[j] EXCEPT !.due = TRUE]]
    BY <1>1, <2>1 DEF TimePasses
  <2>3. k # j
    BY <1>3, <2>2 DEF OnFrame
  <2>4. QED
    BY <1>1, <1>3, <1>4, <2>2, <2>3 DEF OnFrame
<1>13. CASE Deliver
  <2>1. ASSUME NEW j \in Key, batch[j] # None, queue' = Marked(j) \/ queue' = Postponed(j)
        PROVE  OnFrame(queue', k, a)
    BY <1>5, <2>1, MarkedKeepsLemma
  <2>2. job # None => job.key \in Key /\ batch[job.key] # None
    BY JobLemma
  <2>3. CASE BatchBegin
    BY <1>6, <2>3 DEF BatchBegin
  <2>4. CASE \E j \in Key : DeliverCached(j) \/ DeliverUncached(j)
    BY <1>6, <2>1, <2>4 DEF DeliverCached, DeliverUncached
  <2>5. CASE FetchOk \/ PushOk \/ DeliverFails
    BY <1>6, <2>1, <2>2, <2>5 DEF FetchOk, PushOk, DeliverFails
  <2>6. QED
    BY <1>13, <2>3, <2>4, <2>5 DEF Deliver
<1>14. CASE UNCHANGED vars
  BY <1>6, <1>14 DEF vars
<1>15. QED
  BY <1>6, <1>7, <1>8, <1>9, <1>10, <1>11, <1>12, <1>13, <1>14
     DEF Next, Curate, Ingesting, Refused, UploadBegin, ImportBegin, ImportDownloaded,
         IngestPrepared, IngestFails, PushLands, EraseOnDevice, Crash

(* As long as clients keep the names, a photo that stays in the library    *)
(* under its name keeps its delivered row through every step but a refused *)
(* PUT (store.py, enqueue_delivery; library.py, enqueue_desired).          *)
THEOREM DeltaOnlyHolds == ASSUME DistinctNames PROVE Spec => DeltaOnly
<1>1. IInv /\ Owned /\ [Next]_vars => [DeltaStep]_vars
  BY DeltaStepLemma DEF DeltaStep
<1>2. Spec => [][DeltaStep]_vars
  BY <1>1, Inductive, OwnedHolds, PTL DEF Spec
<1>3. QED
  BY <1>2 DEF DeltaOnly, DeltaStep
-----------------------------------------------------------------------------
(* Keep-in-sync feeds the library: FolderBinding is the other half of      *)
(* curation.  Its rows are the library's rows of Immich assets.            *)

CONSTANTS Album, Gone, Keep, Jobs, Edits
VARIABLES albums, bound, rows, jobs, order, cycle, edits

Bindings == INSTANCE FolderBinding WITH Photo <- Immich, job <- jobs

(* What the two properties need of FolderBinding's types: a job and the    *)
(* binding that a cycle is at name a folder.                               *)
BindingsTyped ==
  /\ rows \in [Immich -> Bindings!Row \cup {None}]
  /\ jobs \in Seq(Bindings!Job)
  /\ cycle \in Bindings!Cycle \cup {None}
  /\ bound \in [Album -> Folder \cup {None}]
  /\ albums \in [Album -> SUBSET Immich]

LEMMA FiledLemma ==
  ASSUME rows \in [Immich -> Bindings!Row \cup {None}],
         NEW f \in Folder, NEW S \in SUBSET Immich
  PROVE  /\ Bindings!Synced(f, S) \in [Immich -> Bindings!Row \cup {None}]
         /\ Bindings!Merged(f, S) \in [Immich -> Bindings!Row \cup {None}]
BY DEF Bindings!Synced, Bindings!Merged, Bindings!Row

(* A job that takes a step changes its phase and its listing only.         *)
LEMMA JobMovesLemma ==
  ASSUME BindingsTyped, NEW j \in DOMAIN jobs,
         NEW phase \in Bindings!Phase, NEW got \in SUBSET Immich,
         jobs' = [jobs EXCEPT ![j].phase = phase, ![j].got = got]
  PROVE  jobs' \in Seq(Bindings!Job)
<1> DEFINE moved == [jobs[j] EXCEPT !.phase = phase, !.got = got]
<1>1. j \in 1 .. Len(jobs) /\ jobs \in Seq(Bindings!Job)
  BY DEF BindingsTyped
<1>2. moved \in Bindings!Job
  <2>1. jobs[j] \in Bindings!Job
    BY <1>1
  <2>2. QED
    BY <2>1 DEF Bindings!Job, Bindings!Listing
<1>3. jobs' = [jobs EXCEPT ![j] = moved]
  OBVIOUS
<1> HIDE DEF moved
<1>4. [jobs EXCEPT ![j] = moved] \in Seq(Bindings!Job)
  BY <1>1, <1>2, ExceptSeq
<1>5. QED
  BY <1>3, <1>4

(* Every step keeps the types.                                             *)
LEMMA BindingsTypedStep ==
  ASSUME BindingsTyped, [Bindings!Next]_Bindings!vars
  PROVE  BindingsTyped'
<1> USE DEF BindingsTyped
<1>1. ASSUME NEW what \in {"bind", "once"}, NEW b \in Bindings!Binding,
             Bindings!Start(what, b[1], b[2])
      PROVE  BindingsTyped'
  <2>1. [what |-> what, on |-> <<b[1], b[2]>>, phase |-> "new", got |-> {}] \in Bindings!Job
    BY DEF Bindings!Job, Bindings!Binding, Bindings!Phase, Bindings!Listing
  <2>2. jobs' \in Seq(Bindings!Job)
    BY <1>1, <2>1 DEF Bindings!Start
  <2>3. QED
    BY <1>1, <2>2 DEF Bindings!Start
<1>2. ASSUME NEW j \in DOMAIN jobs, Bindings!JobStep(j)
      PROVE  BindingsTyped'
  <2>1. /\ jobs[j] \in Bindings!Job
        /\ jobs[j].on[1] \in Album /\ jobs[j].on[2] \in Folder
        /\ jobs[j].got \in SUBSET Immich
    <3>1. jobs[j] \in Bindings!Job
      OBVIOUS
    <3>2. jobs[j].on \in Album \X Folder
      BY <3>1 DEF Bindings!Job, Bindings!Binding
    <3>3. QED
      BY <3>1, <3>2 DEF Bindings!Job, Bindings!Listing
  <2>2. \A phase : [jobs EXCEPT ![j].phase = phase] =
                     [jobs EXCEPT ![j].phase = phase, ![j].got = jobs[j].got]
    OBVIOUS
  <2>3. jobs' \in Seq(Bindings!Job)
    <3>1. \/ \E phase \in Bindings!Phase : jobs' = [jobs EXCEPT ![j].phase = phase]
          \/ \E phase \in Bindings!Phase, got \in SUBSET Immich :
               jobs' = [jobs EXCEPT ![j].phase = phase, ![j].got = got]
      BY <1>2, <2>1
         DEF Bindings!JobStep, Bindings!Begin, Bindings!Listed, Bindings!File,
             Bindings!Drained, Bindings!Failed, Bindings!To, Bindings!Phase
    <3>2. CASE \E phase \in Bindings!Phase : jobs' = [jobs EXCEPT ![j].phase = phase]
      <4>1. PICK phase \in Bindings!Phase : jobs' = [jobs EXCEPT ![j].phase = phase]
        BY <3>2
      <4>2. jobs' = [jobs EXCEPT ![j].phase = phase, ![j].got = jobs[j].got]
        BY <2>2, <4>1
      <4>3. QED
        BY <2>1, <4>2, JobMovesLemma
    <3>3. CASE \E phase \in Bindings!Phase, got \in SUBSET Immich :
                 jobs' = [jobs EXCEPT ![j].phase = phase, ![j].got = got]
      BY <3>3, JobMovesLemma
    <3>4. QED
      BY <3>1, <3>2, <3>3
  <2>4. bound' \in [Album -> Folder \cup {None}]
    BY <1>2, <2>1
       DEF Bindings!JobStep, Bindings!Begin, Bindings!Listed, Bindings!File,
           Bindings!Drained, Bindings!Failed, Bindings!Subscribed
  <2>5. rows' \in [Immich -> Bindings!Row \cup {None}]
    BY <1>2, <2>1, FiledLemma
       DEF Bindings!JobStep, Bindings!Begin, Bindings!Listed, Bindings!File,
           Bindings!Drained, Bindings!Failed
  <2>6. UNCHANGED <<albums, cycle>>
    BY <1>2
       DEF Bindings!JobStep, Bindings!Begin, Bindings!Listed, Bindings!File,
           Bindings!Drained, Bindings!Failed
  <2>7. QED
    BY <2>3, <2>4, <2>5, <2>6
<1>3. ASSUME Bindings!CycleStep
      PROVE  BindingsTyped'
  <2>1. CASE Bindings!CycleBegin
    <3>1. cycle' \in Bindings!Cycle
      BY <2>1 DEF Bindings!CycleBegin, Bindings!Cycle, Bindings!Listing
    <3>2. QED
      BY <2>1, <3>1 DEF Bindings!CycleBegin
  <2>2. CASE Bindings!CycleFile
    <3>1. /\ cycle \in Bindings!Cycle /\ cycle.at \in Bindings!Binding
          /\ cycle.got \in SUBSET Immich
      BY <2>2 DEF Bindings!CycleFile, Bindings!Cycle, Bindings!Listing
    <3>2. cycle.at[2] \in Folder
      BY <3>1 DEF Bindings!Binding
    <3>3. cycle' \in Bindings!Cycle
      BY <2>2, <3>1 DEF Bindings!CycleFile, Bindings!Cycle, Bindings!Listing
    <3>4. QED
      BY <2>2, <3>1, <3>2, <3>3, FiledLemma DEF Bindings!CycleFile
  <2>3. CASE Bindings!CycleEnd
    BY <2>3 DEF Bindings!CycleEnd
  <2>4. ASSUME NEW b \in Bindings!Binding, Bindings!CycleListed(b)
        PROVE  BindingsTyped'
    <3>1. cycle \in Bindings!Cycle /\ albums[b[1]] \in SUBSET Immich
      BY <2>4 DEF Bindings!CycleListed, Bindings!Binding
    <3>2. cycle' \in Bindings!Cycle
      BY <2>4, <3>1 DEF Bindings!CycleListed, Bindings!Cycle, Bindings!Listing
    <3>3. QED
      BY <2>4, <3>2 DEF Bindings!CycleListed
  <2>5. ASSUME NEW b \in Bindings!Binding, Bindings!CycleFailed(b)
        PROVE  BindingsTyped'
    <3>1. cycle \in Bindings!Cycle
      BY <2>5 DEF Bindings!CycleFailed
    <3>2. cycle' \in Bindings!Cycle
      BY <2>5, <3>1 DEF Bindings!CycleFailed, Bindings!Cycle
    <3>3. QED
      BY <2>5, <3>2 DEF Bindings!CycleFailed
  <2>6. QED
    BY <1>3, <2>1, <2>2, <2>3, <2>4, <2>5 DEF Bindings!CycleStep
<1>4. ASSUME NEW a \in Album, NEW S \in Bindings!Listing,
             Bindings!Unbind(a) \/ Bindings!AlbumChanges(a, S)
      PROVE  BindingsTyped'
  BY <1>4 DEF Bindings!Unbind, Bindings!AlbumChanges, Bindings!Listing
<1>5. ASSUME NEW p \in Immich, NEW f \in Folder, Bindings!Drop(p) \/ Bindings!Curate(p, f)
      PROVE  BindingsTyped'
  BY <1>5 DEF Bindings!Drop, Bindings!Curate, Bindings!Row
<1>6. CASE \E p \in Immich : Bindings!Drop(p)
  BY <1>6 DEF Bindings!Drop
<1>7. CASE Bindings!Deregister
  BY <1>7 DEF Bindings!Deregister
<1>8. CASE Bindings!Crash
  <2> DEFINE phase(j) == IF Bindings!Running(j) THEN "error" ELSE jobs[j].phase
  <2>1. jobs \in [1 .. Len(jobs) -> Bindings!Job] /\ Len(jobs) \in Nat
    OBVIOUS
  <2>2. \A j \in DOMAIN jobs : phase(j) \in Bindings!Phase
    BY <2>1 DEF Bindings!Job, Bindings!Phase
  <2>3. jobs' = [j \in DOMAIN jobs |-> [jobs[j] EXCEPT !.phase = phase(j), !.got = {}]]
    BY <1>8 DEF Bindings!Crash
  <2> HIDE DEF phase
  <2>4. \A j \in DOMAIN jobs : [jobs[j] EXCEPT !.phase = phase(j), !.got = {}] \in Bindings!Job
    BY <2>1, <2>2 DEF Bindings!Job, Bindings!Listing
  <2>5. jobs' \in [1 .. Len(jobs) -> Bindings!Job]
    BY <2>1, <2>3, <2>4
  <2>6. jobs' \in Seq(Bindings!Job)
    BY <2>1, <2>5, SeqDef
  <2>7. QED
    BY <1>8, <2>6 DEF Bindings!Crash
<1>9. CASE UNCHANGED Bindings!vars
  BY <1>9 DEF Bindings!vars
<1>10. CASE \E a \in Album : Bindings!Unbind(a)
  BY <1>10 DEF Bindings!Unbind
<1>11. QED
  BY <1>1, <1>2, <1>3, <1>4, <1>5, <1>6, <1>7, <1>8, <1>9, <1>10 DEF Bindings!Next

LEMMA BindingsTypedInit ==
  ASSUME Bindings!Init
  PROVE  BindingsTyped
BY DEF Bindings!Init, BindingsTyped, Bindings!Listing

(* Pruning forgets finished jobs only, and a job is finished for good.     *)
LEMMA RunningKnownStep ==
  ASSUME BindingsTyped, Bindings!RunningKnown, [Bindings!Next]_Bindings!vars
  PROVE  Bindings!RunningKnown'
<1> USE DEF BindingsTyped, Bindings!RunningKnown
<1>1. ASSUME NEW what, NEW a, NEW f, Bindings!Start(what, a, f)
      PROVE  Bindings!RunningKnown'
  <2> DEFINE new == [what |-> what, on |-> <<a, f>>, phase |-> "new", got |-> {}]
  <2>1. jobs' = Append(jobs, new) /\ order' = Bindings!Pruned(order \cup {Len(jobs) + 1})
    BY <1>1 DEF Bindings!Start
  <2>2. \A j \in DOMAIN jobs' :
          (j \in DOMAIN jobs /\ jobs'[j] = jobs[j]) \/ j = Len(jobs) + 1
    BY <2>1
  <2>3. ASSUME NEW j \in order \cup {Len(jobs) + 1},
               j = Len(jobs) + 1 \/ Bindings!Running(j)
        PROVE  j \in order'
    <3>1. Len(jobs) + 1 \notin DOMAIN jobs
      OBVIOUS
    <3>2. QED
      BY <2>1, <2>3, <3>1 DEF Bindings!Pruned
  <2>4. QED
    BY <2>2, <2>3 DEF Bindings!Running
<1>2. ASSUME NEW j \in DOMAIN jobs, Bindings!JobStep(j)
      PROVE  Bindings!RunningKnown'
  <2>1. /\ order' = order /\ Bindings!Running(j)
        /\ \/ \E phase : jobs' = [jobs EXCEPT ![j].phase = phase]
           \/ \E phase, got : jobs' = [jobs EXCEPT ![j].phase = phase, ![j].got = got]
    BY <1>2 DEF Bindings!JobStep, Bindings!Begin, Bindings!Listed, Bindings!File,
                Bindings!Drained, Bindings!Failed, Bindings!To, Bindings!Running
  <2>2. DOMAIN jobs' = DOMAIN jobs /\ \A i \in DOMAIN jobs \ {j} : jobs'[i] = jobs[i]
    BY <2>1
  <2>3. QED
    BY <2>1, <2>2 DEF Bindings!Running
<1>3. CASE Bindings!Crash
  <2>1. /\ DOMAIN jobs' = DOMAIN jobs
        /\ \A j \in DOMAIN jobs :
             jobs'[j] = [jobs[j] EXCEPT !.phase = IF Bindings!Running(j) THEN "error"
                                                  ELSE jobs[j].phase,
                                        !.got = {}]
    BY <1>3 DEF Bindings!Crash
  <2>2. \A j \in DOMAIN jobs : jobs[j] \in Bindings!Job
    OBVIOUS
  <2>3. \A j \in DOMAIN jobs : jobs'[j].phase = IF Bindings!Running(j) THEN "error"
                                                 ELSE jobs[j].phase
    BY <2>1, <2>2 DEF Bindings!Job
  <2>4. QED
    BY <2>1, <2>3 DEF Bindings!Running
<1>4. CASE UNCHANGED <<jobs, order>>
  BY <1>4 DEF Bindings!Running
<1>5. QED
  BY <1>1, <1>2, <1>3, <1>4
     DEF Bindings!Next, Bindings!CycleStep, Bindings!CycleBegin, Bindings!CycleFile,
         Bindings!CycleEnd, Bindings!CycleListed, Bindings!CycleFailed, Bindings!Unbind,
         Bindings!AlbumChanges, Bindings!Drop, Bindings!Curate, Bindings!Deregister,
         Bindings!vars

(* The UI that polls a job that is still running finds it, however many    *)
(* jobs are kept and however they overlap (jobs.py, JobManager._prune).    *)
THEOREM RunningKnownHolds == Bindings!FairSpec => []Bindings!RunningKnown
<1>1. Bindings!Init => Bindings!RunningKnown
  BY DEF Bindings!Init, Bindings!RunningKnown
<1>2. QED
  BY <1>1, BindingsTypedInit, BindingsTypedStep, RunningKnownStep, PTL
     DEF Bindings!FairSpec

(* Filing takes out only what was synced into the folder before.           *)
CuratedStep ==
  \A p \in Immich :
    rows[p] # None /\ rows[p].source = "immich" /\ rows'[p] = None
      => Bindings!Drop(p) \/ Bindings!Deregister

LEMMA CuratedStepLemma ==
  ASSUME None \notin Bindings!Row, BindingsTyped, [Bindings!Next]_Bindings!vars
  PROVE  CuratedStep
<1> USE DEF BindingsTyped
<1>1. SUFFICES ASSUME NEW p \in Immich, rows[p] # None, rows[p].source = "immich",
                      rows'[p] = None
               PROVE  Bindings!Drop(p) \/ Bindings!Deregister
  BY DEF CuratedStep
<1>2. ASSUME NEW f \in Folder, NEW S
      PROVE  rows' # Bindings!Synced(f, S) /\ rows' # Bindings!Merged(f, S)
  <2>1. /\ [folder |-> f, source |-> "sync"] # None
        /\ [folder |-> f, source |-> "immich"] # None
    BY DEF Bindings!Row
  <2>2. rows[p] # [folder |-> f, source |-> "sync"]
    <3>1. [folder |-> f, source |-> "sync"].source # "immich"
      OBVIOUS
    <3>2. QED
      BY <1>1, <3>1
  <2>3. QED
    BY <1>1, <2>1, <2>2 DEF Bindings!Synced, Bindings!Merged
<1>3. ASSUME NEW j \in DOMAIN jobs
      PROVE  ~Bindings!File(j)
  <2>1. jobs[j] \in Bindings!Job
    OBVIOUS
  <2>2. jobs[j].on \in Album \X Folder
    BY <2>1 DEF Bindings!Job, Bindings!Binding
  <2>3. QED
    BY <1>2, <2>2 DEF Bindings!File
<1>4. ~Bindings!CycleFile
  <2>1. SUFFICES ASSUME Bindings!CycleFile PROVE FALSE
    OBVIOUS
  <2>2. cycle.at[2] \in Folder
    BY <2>1 DEF Bindings!CycleFile, Bindings!Cycle, Bindings!Binding
  <2>3. QED
    BY <1>2, <2>1, <2>2 DEF Bindings!CycleFile
<1>5. \A q \in Immich : Bindings!Drop(q) => q = p
  BY <1>1 DEF Bindings!Drop
<1>6. \A q \in Immich, f \in Folder : ~Bindings!Curate(q, f)
  BY <1>1 DEF Bindings!Curate
<1>7. rows' # rows
  BY <1>1
<1>8. QED
  BY <1>3, <1>4, <1>5, <1>6, <1>7
     DEF Bindings!Next, Bindings!Start, Bindings!JobStep, Bindings!Begin,
         Bindings!Listed, Bindings!Drained, Bindings!Failed, Bindings!CycleStep,
         Bindings!CycleBegin, Bindings!CycleEnd, Bindings!CycleListed,
         Bindings!CycleFailed, Bindings!Unbind, Bindings!AlbumChanges, Bindings!Crash,
         Bindings!vars

(* Whatever is bound, rebound, listed late or filed twice, only the user   *)
(* takes a photo out that was curated by hand (store.py,                   *)
(* set_folder_sync_library: only rows with source "sync" are deleted).     *)
THEOREM CuratedStaysHolds ==
  ASSUME None \notin Bindings!Row
  PROVE  Bindings!FairSpec => Bindings!CuratedStays
<1>1. BindingsTyped /\ [Bindings!Next]_Bindings!vars => [CuratedStep]_Bindings!vars
  BY CuratedStepLemma
<1>2. Bindings!FairSpec => [][CuratedStep]_Bindings!vars
  BY <1>1, BindingsTypedInit, BindingsTypedStep, PTL DEF Bindings!FairSpec
<1>3. QED
  BY <1>2 DEF Bindings!CuratedStays, CuratedStep

(* The two modules speak of one library: a photo has a row in both or in   *)
(* neither, and is synced into the same folder in both.                    *)
SameLibrary ==
  \A p \in Immich :
    /\ rows[p] = None <=> library[p] = None
    /\ \A f \in Folder : rows[p] = [folder |-> f, source |-> "sync"]
                         <=> library[p] # None /\ library[p].source = f

(* What FolderBinding files is what Delivery queues and evicts for: if the *)
(* two agree on the library, they agree after a sync, an album added once  *)
(* and a removal (folder_sync.py, reconcile and add_album_once;            *)
(* library.py, remove_item).                                               *)
THEOREM OneLibrary ==
  ASSUME None \notin Bindings!Row, BindingsTyped, IInv, Owned, DistinctNames, SameLibrary,
         \/ \E f \in Folder, S \in Listing :
              FolderSync(f, S) /\ rows' = Bindings!Synced(f, S)
         \/ \E f \in Folder, S \in Listing :
              AddAlbumOnce(S) /\ rows' = Bindings!Merged(f, S)
         \/ \E p \in Immich : RemoveItem(p) /\ Bindings!Drop(p)
  PROVE  SameLibrary'
<1>1. /\ library \in [Asset -> LibraryRow \cup {None}]
      /\ rows \in [Immich -> Bindings!Row \cup {None}]
      /\ Immich \subseteq Asset
  BY DEF IInv, TypeOK, BindingsTyped, Asset
<1>2. ASSUME NEW f \in Folder, NEW source, source \in {"immich", "sync"}
      PROVE  [folder |-> f, source |-> source] # None
  BY <1>2 DEF Bindings!Row
<1> DEFINE Same(p) ==
             /\ rows'[p] = None <=> library'[p] = None
             /\ \A g \in Folder : rows'[p] = [folder |-> g, source |-> "sync"]
                                  <=> library'[p] # None /\ library'[p].source = g
<1>3. ASSUME NEW p \in Immich, NEW k \in Key, NEW f \in Folder,
             library'[p] = [dest |-> k, source |-> f],
             rows'[p] = [folder |-> f, source |-> "sync"]
      PROVE  Same(p)
  <2>1. [dest |-> k, source |-> f] \in LibraryRow
    BY DEF LibraryRow
  <2>2. library'[p] # None /\ library'[p].source = f
    BY <1>3, <2>1, NoneAssumption
  <2>3. rows'[p] # None /\ rows'[p].folder = f
    BY <1>2, <1>3
  <2>4. \A g \in Folder : rows'[p] = [folder |-> g, source |-> "sync"] <=> g = f
    BY <1>3, <2>3
  <2>5. QED
    BY <2>2, <2>3, <2>4
<1>4. ASSUME NEW p \in Immich, library'[p] = library[p], rows'[p] = rows[p]
      PROVE  Same(p)
  BY <1>4 DEF SameLibrary
<1>5. ASSUME NEW p \in Immich, library'[p] = None, rows'[p] = None
      PROVE  Same(p)
  BY <1>2, <1>5
<1>6. CASE \E f \in Folder, S \in Listing :
             FolderSync(f, S) /\ rows' = Bindings!Synced(f, S)
  <2>1. PICK f \in Folder, S \in Listing :
               FolderSync(f, S) /\ rows' = Bindings!Synced(f, S)
    BY <1>6
  <2>2. ASSUME NEW p \in Immich
        PROVE  Same(p)
    <3>1. /\ library'[p] = IF p \in S THEN [dest |-> Slug[p], source |-> f]
                           ELSE IF library[p] # None /\ library[p].source = f
                                THEN None ELSE library[p]
          /\ rows'[p] = IF p \in S THEN [folder |-> f, source |-> "sync"]
                        ELSE IF rows[p] = [folder |-> f, source |-> "sync"]
                             THEN None ELSE rows[p]
      BY <1>1, <2>1 DEF FolderSync, Synced, Bindings!Synced
    <3>2. Slug[p] \in Key
      BY KeysAssumption
    <3>3. CASE p \in S
      BY <1>3, <3>1, <3>2, <3>3
    <3>4. CASE p \notin S /\ rows[p] = [folder |-> f, source |-> "sync"]
      BY <1>5, <3>1, <3>4 DEF SameLibrary
    <3>5. CASE p \notin S /\ rows[p] # [folder |-> f, source |-> "sync"]
      BY <1>4, <3>1, <3>5 DEF SameLibrary
    <3>6. QED
      BY <3>3, <3>4, <3>5
  <2>3. QED
    BY <2>2 DEF SameLibrary
<1>7. CASE \E f \in Folder, S \in Listing :
             AddAlbumOnce(S) /\ rows' = Bindings!Merged(f, S)
  <2>1. PICK f \in Folder, S \in Listing :
               AddAlbumOnce(S) /\ rows' = Bindings!Merged(f, S)
    BY <1>7
  <2>2. ASSUME NEW p \in Immich
        PROVE  Same(p)
    <3>1. /\ library'[p] = IF p \in S THEN [dest |-> Slug[p], source |-> "immich"]
                           ELSE library[p]
          /\ rows'[p] = IF p \in S THEN [folder |-> f, source |-> "immich"] ELSE rows[p]
      BY <1>1, <2>1 DEF AddAlbumOnce, Bindings!Merged
    <3>2. CASE p \in S
      <4>1. [dest |-> Slug[p], source |-> "immich"] \in LibraryRow
        BY KeysAssumption DEF LibraryRow
      <4>2. /\ library'[p] # None /\ library'[p].source = "immich"
            /\ rows'[p] # None /\ rows'[p].source = "immich"
        BY <1>2, <3>1, <3>2, <4>1, NoneAssumption
      <4>3. \A g \in Folder : /\ g # "immich"
                              /\ [folder |-> g, source |-> "sync"].source # "immich"
        BY DistinctAssumption
      <4>4. QED
        BY <4>2, <4>3
    <3>3. CASE p \notin S
      BY <1>4, <3>1, <3>3
    <3>4. QED
      BY <3>2, <3>3
  <2>3. QED
    BY <2>2 DEF SameLibrary
<1>8. CASE \E p \in Immich : RemoveItem(p) /\ Bindings!Drop(p)
  <2>1. PICK q \in Immich : RemoveItem(q) /\ Bindings!Drop(q)
    BY <1>8
  <2> DEFINE k == library[q].dest
  <2>2. k \in Key /\ q \in Items(library)
    BY <1>1, <2>1 DEF RemoveItem, LibraryRow, Items
  <2>3. ASSUME NEW p \in Immich
        PROVE  Same(p)
    <3>1. /\ library'[p] = IF library[p] # None /\ library[p].dest = k
                           THEN None ELSE library[p]
          /\ rows'[p] = IF p = q THEN None ELSE rows[p]
      BY <1>1, <2>1 DEF RemoveItem, Bindings!Drop
    <3>2. CASE p = q
      BY <1>5, <2>2, <3>1, <3>2 DEF Items
    <3>3. CASE p # q
      <4>1. ~(library[p] # None /\ library[p].dest = k)
        BY <1>1, <2>2, <3>3, OwnLemma DEF Owned, Named, Items
      <4>2. QED
        BY <1>4, <3>1, <3>3, <4>1
    <3>4. QED
      BY <3>2, <3>3
  <2>4. QED
    BY <2>3 DEF SameLibrary
<1>9. QED
  BY <1>6, <1>7, <1>8
=============================================================================
