# Slyde in TLA+

Slyde is a self-hosted hub for digital photo frames. It curates photos from an
Immich server onto frames, keeps their delivery in a durable queue until it
lands, serves frames that poll ("served", e-paper over a vendor cloud protocol)
and drives frames on the LAN ("connected", Memento frames over a control
channel), and can show a periodic non-photo image between photos (the
"interlude"). It comes with a client library for connected frames
(memento-core) and an emulator of such a frame.

This directory holds TLA+ models of its stateful parts, TLC runs over small
instances, and proofs for all instances. Paths below are relative to
`src/packages/slyde-backend/src/slyde_backend/` unless they start with another
package's name.

Run a check with `tlc -config <run>.cfg <MC module>` and the proofs with
`tlapm <module>_proofs.tla`.

## 1. Inventory

The hub is one process: a single asyncio event loop, plus one daemon thread per
warm session to a connected frame. A handler is atomic between two awaits. The
store is SQLite with one committed transaction per `Store` method, so a crash
between two methods leaves the first one done. Prepared images, uploaded
originals and firmware bundles are files.

| Component | State | Operations | What makes it hard | What makes it correct |
|---|---|---|---|---|
| Library (`library.py`, `store.py`) | `library_item` rows: asset, dest name, source, folder | PUT library, add, remove, folder sync | evictions and the new set are separate transactions; sources overlap; dest names are shared | no change is lost; an evicted photo leaves no image or row |
| Delivery queue (`delivery.py`, `delivery_service.py`) | `delivery` rows with state, attempts, due time | enqueue, drain/reconcile, mark, reschedule | a batch is a snapshot; requests change rows during the fetch and push awaits | what is marked is what landed; everything curated is delivered in the end; only the delta is |
| Image cache, uploads (`imagecache.py`) | files per frame and key | put, get, delete, clear | written after awaits, read by poll | a served frame's delivered row has its image |
| Uploads, frame import (`uploads.py`, `frame_import.py`) | the ingest in progress | ingest, import | awaits between original, image and row; `already` read once | an imported photo is not sent back |
| Folder sync (`folder_sync.py`) | `album_sync` bindings | bind, unbind, reconcile, add once, run due | listing is an await; bindings change meanwhile | the folder is what the album was |
| Scheduler, health (`scheduler.py`, `routers/health.py`) | timers, last outcome | cycle, drain, preview refresh, stop | failures are swallowed below it | status reflects what happened |
| Jobs (`jobs.py`) | recent jobs | start, get, prune | bounded history | a running job is never pruned |
| Interlude (`interlude.py`) | durable row; conductor, release and recovery tasks | engage, conduct, publish, stand down, recover, stop | several tasks each with a stale copy of one row; crash while the frame is parked; a frame that sleeps | the user's settings always come back |
| Warm sessions (`warm.py`) | keeper thread, job queue, futures | run, retry, reconnect, release, close | thread against event loop; hang-up every 21 s | every operation is answered, run at most twice |
| Frame service (`frames.py`) | address book | all device operations, re-discovery | DHCP moves, one retry elsewhere | an operation reaches the right frame |
| Registry (`store.py`, `serving.py`) | frames, aliases | upsert, rekey, link alias, purge | one device under several ids | one device, one frame, nothing left behind |
| Served protocol (`backends/sungale_cloud.py`) | content key, acknowledged key, settings | poll, playlist, download, callback, upload, delete, settings | the callback names no content; a wake polls many times | what is acknowledged was shown; one turn per wake; every photo comes up |
| Firmware (`firmware.py`, emulator `updater.py`) | bundle, version, hash | check, serve, update | a check during a download | only a verified bundle is installed |
| Immich import (`immich_import.py`, `immich_write.py`, `thumbmatch.py`) | manifest, jobs; albums and assets at the server | plan, import, link, dry run | partly failing server, lost answers, overlapping jobs | re-runs add nothing twice; no silent gap |
| memento-core (`client.py`, `control.py`, `transfer.py`, `protocol.py`) | sockets, pending messages | request/reply, upload, download | late replies, torn sessions | a reply answers its own request |
| Emulator (`server.py`, `state.py`) | photos, albums, settings, state file | the device side | slideshow thread, connections, persistence | albums list existing photos |
| Others | | imaging, previews, crypto, SwitchBot HTTP client, schemas, web UI, research | data conversions, wiring | not for a model checker |

How they interact: requests and the folder sync write the library and the queue
and evict cached images (calls on the loop); the drain timer, each PUT and each
upload run the delivery service (tasks, serialised by one lock); deliveries and
the conductor call `FrameService`, which runs operations on the frame's keeper
(a thread-safe queue and futures); served frames are only ever asked through
polls, which read the cache.

The hazards that matter most are in `PROJECT.json`, each at its line, and the
properties below are stated for them; section 3 lists what they leave out.

## 2. Modules

| Module | Models |
|---|---|
| `Delivery` | library, delivery queue, cache, uploads, import and device files of one frame |
| `Delivery_proofs` | theorems about `Delivery` and `FolderBinding` for all constants |
| `Interlude` | the interlude row, its tasks, the frame's slide timer, shuffle, screen and buffers |
| `Interlude_proofs` | theorems about `Interlude` |
| `FrameOps` | abstract: what a session pool promises its callers |
| `WarmSession` | callers, keeper thread, job queue and futures of one frame; implements `FrameOps` |
| `WarmSession_proofs` | theorems about `WarmSession` for all constants |
| `ServedFrame` | poll, playlist, download, callback and rotation of one served frame |
| `ServedFrame_proofs` | theorems about `ServedFrame` |
| `Registry` | entries, aliases, addresses and merges of the frames of a home |
| `Registry_proofs` | theorems about `Registry` |
| `FolderBinding` | bindings of folders to albums, the jobs and the scheduler's cycle of one frame |
| `FrameChannel` | control and file channels between memento-core's client and the emulator's handlers |
| `FrameChannel_proofs` | theorems about `FrameChannel` |
| `FrameState` | the emulator's photos, albums, slideshow and their copy on disk |
| `FrameState_proofs` | theorems about `FrameState` |
| `ImmichImport` | import, link and dry-run jobs against the frame and the photo server |
| `ImmichImport_proofs` | theorems about `ImmichImport` |
| `MC*` | constants of these modules for TLC |

How they divide the system: `FolderBinding` ends where rows are filed, and
`Delivery` takes a listing as any set; `ServedFrame` takes the cache that
`Delivery` fills as a set that users and the queue change; `Interlude` and
`Delivery` use a frame that executes operations one after the other, which is
what `FrameOps` promises and `WarmSession` implements; `WarmSession` opens
sessions of which `FrameChannel` is the inside; `Registry` says which frame an
operation reaches. A definition that begins a comment with "Variant" is not part
of a specification: it is a plausible mistake that a property is tested on.

### Delivery

State: `library` and `queue` are the two tables (a row per asset and per dest
name), `cache`, `uploads` and `device` say *whose picture* is stored under a
name, `batch` is the list `reconcile` read, `job` the item it is awaiting on,
`ingest` the upload or import in progress, `erasing` the removals whose device
file the client still has to delete in a request of its own.

One action per stretch of code without an await. A request handler
(`PutLibrary`, `RemoveItem`, `FolderSync`, `AddAlbumOnce`) is one action with
all its store and cache calls. `_deliver` is `DeliverCached` or
`DeliverUncached`, then `FetchOk`, then `PushLands` (the device has the file,
the loop does not know yet), then `PushOk`; `DeliverFails` can come at any
await. Because `reconcile` does not yield between two items, requests are
blocked (`LoopFree`) from the end of one item to the start of the next.

The process dies at awaits (`Crash`). A handler with several commits is one
action, so a process that dies *inside* one (the library replaced, nothing
queued yet; a cached image evicted, its row kept) is not modelled:
`EveryChangeQueued` and `ServedFromCache` say nothing about that moment. It is
listed as a hazard and is in the plan.

Abstractions. Row ids are AUTOINCREMENT, so an id in a batch either still names
its row or nothing: a flag `live`, cleared by deletion. The backoff delay is a
`due` flag that `TimePasses` sets. Library positions only decide which of two
items with one dest name is queued last: `LastWriters` allows any. `Dropped`
evicts before `Replaced` inserts; when the insert violates the primary key only
the evictions happen (`PutRefused`). One ingest at a time; one frame.

### Interlude

Each conductor, restore (recovery or shutdown) and release task has a place
where it awaits and the row it *works on*, as read when it began. A save writes
that whole row (`Save`): this is how `Store.set_interlude` and `replace` work.
Device operations of all tasks go through one keeper, a FIFO queue: `line`. A
cancelled operation, and one that times out, may or may not have been executed
(`Executed`). `own` is how the user had the frame set; it is history that the
properties refer to.

Abstractions. All photos, the rotation and its cursor are one "photo"; times
have no length, a finite park can run out only while nobody conducts; panel
off, night mode and "no photos yet" are one flag `showable`; the row's
`state`, `detail` and `last_photo` are left out (their saves are not). The
user does not retime the frame while it is conducted. `Hasty` is a bound: may
requests arrive while a hand-back is still under way?

### FrameOps and WarmSession

`FrameOps` is the promise to callers: operations reach the frame one after the
other in the order in which they were accepted, each at most twice, never after
its caller was answered, and a caller who is refused may safely ask elsewhere.

In `WarmSession` the keeper's thread is one program counter `at`; its queue, the
job in hand, `status` and `stop` are the fields of `_Keeper`. `runs` counts how
often the frame executed an operation and `line` the order of submission: only
properties read them. Callers run on the event loop: nothing comes between
finding the keeper and queueing, except the thread. Two ways to end the thread
with an exception are actions: a claiming read that does not decode
(`OpenGarbled`) and a future that is cancelled between the look at it and its
settling (`SettleRaces`, `FailRaces`). The refinement mapping hides everything
of the connection: a caller who has found the keeper has not asked yet, one who
is queued is held. Pool requests after `aclose` are left out.

### ServedFrame

`content`, `acked` and `since` are the row of the display table (the time of the
last change as its age); `cached` is the set of images under the frame, numbered
in the order in which the cache lists their keys; `wakeUp` is the stored wake
interval, which may be text that is no number (`Garbled`). `Poll` is
`dev/frame/status` with the whole of the rotation (`Rotated`), `Playlist`,
`Download` and `Report` are the other requests of a wake, `Publish`,
`PhotoDelete` and `SettingUpdate` what users and the queue do. The frame's own
program is external: it takes one image at a time and polls at any moment of
it. An answer to a poll and a report may be lost. A tick of the clock is the 45
seconds of `_ROTATE_MIN_GAP_MS`, and a wake is no longer than that (`Tick`): it
is what the constant's comment says of a frame's poll burst.

### Registry

`store` is the part of the database that is keyed by a frame's id: known
entries, addresses, names, library rows (for which *device* a row was written),
delivered rows, aliases; `merged` remembers entries that others were merged
into, `linked` the pairs of ids that one request has carried. `Upserted`, `Rekeyed`, `Purged`, `Linked`, `AtAddress` are the methods of
`Store`. A served frame's request (`Request`, with the ids it carries) and the
app's listing (`FrameList`) resolve and merge without an await, and are one
action each. An operation on a connected frame suspends: `Begin`, then
`Answered` by whichever frame is at the address, or `Unanswered`, which looks
for the frame by broadcast and tries once more at its new address. `Move` is
DHCP, which may give a frame an address that another has had: `had` remembers
which frames have had which. An answer is then filed under whatever entry is at
the address, and a config read re-keys that entry, another frame's GUID entry
too (`Captured`; `frames.py:294-297`). `Meant` says for which device a user
curates who looks at an entry: its GUID's, its serial's, or any that has had its
address. `NameCaptured` replaces a name that is empty or looks like an address
or the bare id, a user's own included (`Names`).

### FolderBinding

`bound` and `rows` are the tables, `job` the jobs that were started and `order`
the ids that the job manager still knows (ids grow, so the oldest is the least),
`cycle`
the scheduler's `run_due` with the bindings as they were when it began. A
reconcile suspends while the album is listed: `Listed`, `CycleListed` take the
listing, `File`, `CycleFile` file it. `Begin` binds before it reconciles; a
removed binding, a rebound one or a deregistered frame does not stop what is
under way. `Crash` loses jobs and the cycle and keeps the tables.

### FrameChannel

Two byte streams per session. A request names its operation by a number `n`
only so that properties can tell replies apart: no one in the code looks at it
(`Wanted`). A file is two bytes, each of which knows its file, so that what is
left over from another shows. `Take` passes over replies that do not fit. `Begin`
drops, before a photo is read, of the bytes on their way to the hub any number
that have arrived: `drain()` (memento-core `transfer.py:40-66`) is a `recv` that
does not block, so what is still under way, or still to be sent, comes later.
`AllReceived` ends a read where the
announced bytes have come, where a chunk happens to end with the end-of-image
marker (`Embedded`), or in silence. `Unconfirmed` gives up on the receipt, which
may come while the frame is still busy sending what the read did not wait for;
the operation succeeds all the same. `early` is history: may such left-overs
still come? The emulator's handler claims a file channel
from those that wait (`Claim`), in their order of arrival, whosever they are.
Sessions of the hub follow one another, as the keeper makes them; the frame may
still be busy with an earlier one.

Abstractions. A frame that is sending the file which a read awaits does not pause
for longer than the client's read timeout (`Quiet`): otherwise a slow photo is cut
short, as the timeout says. Bytes on the network, in a socket buffer and dropped
late are one sequence. Commands and their many parameters are one kind, "show".

### FrameState

`mem` is `FrameState` in memory, `disk` the state file, its temporary and the
photo files. A request and the slideshow's timer change memory under the lock,
then write photo files, take a snapshot under the lock, write the temporary and
rename it, all without the lock: `PhotoFiles`, `Snapshot`, `WriteTmp`,
`Replace`. `Restart` may come between any two of them and loads what is on disk.
`confirmed`, `removed`, `torn` and `raced` are history. An orientation or any
other setting is saved like the rest and changes nothing here. A client reads the albums,
changes them and sends all of them back (`AlbumChanges`) in one step: that another
client's change is overwritten by such a stale list is not modelled.

### ImmichImport

`device` is the frame's album list, `manifest` the last one read, `assets` and
`album` what the server has; copies are named after the file, since the server
recognises bytes it already has. A job asks for the list (`ReadManifest`), takes
the photos one after the other (`CopyPhoto`, or `LookUp` and `Settle` to link),
then finds or creates each album and fills it (`FindAlbum`, `CreateAlbum`,
`AddAssets`). Every request may fail before or after it took effect (`Fault`),
jobs overlap, the process dies, the user rearranges the frame. Which candidate a
thumbnail matches is any or none: the pixel arithmetic is left out.

## 3. What the runs show

| Run | Instance | Shows |
|---|---|---|
| `served_curation` | served, 2 Immich assets, 3 names, 1 folder, crashes, batch of 1 | `ServedFromCache`: a row says delivered only while its image is cached; `EveryChangeQueued`: every library change has its row in the same step; `TypeOK` |
| `connected_frame` | connected, 1 asset both curated and bound, an upload, a device picture to import, erasures, crashes | `LandsWhatItMarks`, `DeltaOnly`, for clients that keep the names they were given; `ImportedNotResent` |
| `delivery_live` | connected, fair, 2 assets of which one never decodes, 1 synced folder, so that PUTs are refused | `DesiredDelivered`: guaranteed delivery of what stays curated, except what a refused PUT dropped from the queue (and nothing else drops any) |
| `interlude` | 2 slide times, frames that answer with 2 images, one that sleeps with 1, crashes, fair | `RestoreKnown`: no altered frame without its restore data; `HandedBack` once the image is gone; `ConductsParked`, `SlotHoldsImage`, `NoTrace` on frames that answer |
| `warm` | 3 callers, hang-ups, releases, undecodable greetings, close, fair | `OneAtATime`: refinement of `FrameOps`; `UnavailableNeverRan`; `EveryQueuedAnswered` |
| `served_rotation` | 3 photos, a zero, a long and a garbled interval, 2 edits, fair | `OncePerWake`, `AckedIsShown`, `EveryPhotoShown` |
| `identities` | a frame with a GUID next to one without (2 edits) or to another with one (1 edit), on 3 addresses of which they share one; or 2 served ones with 5 ids (2 edits) | `SameDeviceSameFrame`, `AliasesResolve`, `KeepsToFrame`, `NothingLost`, `DeliveredIsCached`, `NameSticks` |
| `bindings` | 2 albums of which one is gone, 2 folders, 2 jobs, 2 edits, fair | `Converges`, `CuratedStays`, `RunningKnown` |
| `channels` | 3 sessions, 4 operations, 2 photos of which one can be cut short | `AnswersOwn`, `PhotoClean`, `ListIntact`, `UploadStored`, `StoredWhole` |
| `frame_disk` | 2 photos, 3 requests, 1 restart, fair | `Survives`, `StaysRemoved`, `NothingDangles`, `EveryPhotoShown` |
| `immich_import` | 2 photos and a buffer, 1 folder, 2 jobs, 1 fault, 1 edit, fair | `OneAlbumPerName`, `MirrorsFolders`, `CleanIsComplete`, `EveryJobEnds` |
| `channel_pairing` | as `channels`, and a client may vanish before its first transfer | a violation of `Paired` |

`channel_pairing` is a disagreement between the code and its own comment.
`FrameServer._claim_file_socket` (memento-emulator `server.py:189`) hands a
handler the oldest unclaimed file connection of the client's address, and the
comment at lines 77-79 says that this "avoids reusing a stale file socket from
an earlier, already-closed session". A client that goes away after it has opened
its file channel and before its first transfer leaves one behind; the next
session's handler takes it and that session's transfer fails, and so on, off by
one. `channels` (`Vanishes = FALSE`) shows that without such a client nothing is
mixed up.

### What the properties leave out

Several properties carry an exception or a restriction of the instance. They
are limits of the code; what happens beyond them:

| Property | Holds because, or except | Beyond that |
|---|---|---|
| `LandsWhatItMarks` | clients never give one asset's dest name to another (`Explicit <- OwnNames`) | the end of the old push marks the new asset's row delivered (the row keeps its id) |
| `DesiredDelivered` | except a photo whose row a refused PUT dropped (`Forgotten`) | a PUT with an item of another source fails in `library.py:51` after the evictions of lines 46-50: the library keeps the photo, and nothing is queued for it until it is put again |
| `DeltaOnly` | except at such a PUT (`Refused`) | the delivered row is gone, the photo is still curated |
| `ServedFromCache` speaks of rows | | a fetch that was under way when its item was evicted writes the cache entry back, and a served frame goes on showing it |
| `RestoreKnown` | no request arrives while a hand-back is under way (`Hasty = FALSE`) | a late release clears a newer engagement's restore data |
| `ConductsParked`, `SlotHoldsImage`, `NoTrace` | the same (`Hasty = FALSE`) | the late hand-back sets the slide time and erases the buffers under the new conductor, which found the row still engaged, and then saves its own row over the newer one |
| `RestoreKnown` speaks of restore data | | a conductor that notes its last photo saves the whole row as it read it, and undoes settings a user saved meanwhile |
| `ConductsParked` | frames that answer | engaging saves `engaged`, parking fails, later cycles never repeat it |
| `SlotHoldsImage`, `NoTrace` | frames that answer | buffers erased, crash before the row says so: equal bytes are never uploaded again |
| `EveryQueuedAnswered` | except a job queued while the thread ends, and one in hand when it does | its future is never settled: only the caller's own timeout ends the wait |
| `AckedIsShown` | the cache lost no image while the frame was at work (`lost`) | the report is taken for the image that took its place |
| `EveryPhotoShown` (served) | two photos and more | a lone photo that took a deleted one's place under a report is not displayed until another comes |
| `DeliveredIsCached` | except entries that others were merged into | rows are moved, the images stay under the old id: the frame is not shown them |
| `SameDeviceSameFrame` | until a listing gives one of the ids, the number, to another entry | two entries of one device come apart, until a request merges them |
| `SameDeviceSameFrame` | except an id that still has an entry of its own when a listing gives it to another (`Astray`) | when that entry is merged elsewhere the id is re-pointed with it, and it parts from the id it was presented with |
| `KeepsToFrame` | a group of frames that has shared no address with a frame outside it (`Secluded`) | when an address passes from one frame to another, a config read re-keys the entry that is found there, whether it is the address's or the other frame's GUID entry (`frames.py:294-297`), and its library goes along |
| `NothingLost` asks only that some entry holds the rows | | after an address changed hands that may be the other frame's entry (see `KeepsToFrame`) |
| `NameSticks` | except what a broadcast answer says | discovery overwrites a name the user chose |
| `NameSticks` | except an entry that is keyed by its address, when its GUID is first seen | `rekey_frame` drops the old entry with its chosen name, an unnamed one takes its place, and the reported name is captured, although the comment at `frames.py:299-300` says "never a user rename" |
| `NameSticks` | except a name that looks like an address (`capture_name`), a merge of served entries, and a frame that has shared an address | the reported name replaces it; the merged entry's name is lost; the entry is re-keyed to the other frame |
| `Converges` | bindings that nobody disputes (own folder, no shared photo) | two albums take each other's rows away in every cycle |
| `PhotoClean` | unless an earlier read of the session stopped early and no read since has begun with all of its rest sent and arrived (`early`) | `drain()` drops only what has arrived, so the rest of the one photo may head the next: the comment at memento-core `client.py:143-144` ("Start clean") promises more |
| `ListIntact` | the same | announced downloads do not drain at all: the list begins with the rest of a photo |
| `PhotoClean` promises a beginning of the photo | | a torn session or an early marker returns a truncated photo as a success |
| `Survives`, `NothingDangles` | no two saves have overlapped (`raced`); not what a restart cut short (`torn`) | both threads use one temporary file: the later snapshot may be the older one, and the loser's rename fails |
| `EveryPhotoShown` (emulator) | no two saves have overlapped | the failed rename ends the slideshow's thread |
| `MirrorsFolders` | folders other than one that is itself called like the album of everything (`All`) | such a folder that is empty on the frame gives its album every photo |
| `OneAlbumPerName` | no two jobs that make albums have overlapped (`overlap`) | look-up and creation are two requests: two albums |

### Bounds

Two Immich assets and one further key suffice for everything in `Delivery` that
relates two items: shared names, two overlapping sources, a batch with more due
rows than `BatchLimit`. `BatchLimit` is 1 or 2 for the code's 100: with fewer
rows than the limit a batch is all that is due, with more any subset. In
`delivery_live` one folder makes a PUT fail: its photo is of another source. In
`Interlude` two images are needed to tell a changed image from an unchanged
one, two slide times to tell the user's from the default, `Flap` 2 to have a
vote that is neither yes nor no; a frame that may fail to answer gets only one
image (`Fewer`), since the properties about images are about frames that answer.
In `WarmSession` two ordinary callers and a
quick one give a queue behind a running job.

In `ServedFrame` three photos make a rotation whose order matters; the maximal
gap is three ticks for the code's ten minutes, so that half an interval is
below, between and above the two limits (0; garbled, and so the default of 4; 8).
In `Registry` a home has two frames, the least that can be mixed up, and a
served frame three ids, the least for which merging order matters; two connected
frames have leases that overlap in one address, the least for which an address can
change hands. `Edits` bounds what users do, not requests, moves and operations: once
in the home of two frames with GUIDs (`MCEdits`), where two are too many states, and
twice elsewhere. One edit is one photo curated or one name chosen, whose fate the
properties are about. In `FolderBinding` two
jobs meet one cycle and each other, and one finished job is kept so that pruning
happens. In `FrameChannel` the third session is the one that could suffer from
what the first left to the second; three operations of a session can leave a
reply, bytes and a closing request behind. In `FrameState` three requests are
upload, removal and upload again. In `ImmichImport` two jobs overlap or follow
one another, one fault is a lost answer or a crash, and one edit makes the
manifest stale.

`CHECK_DEADLOCK FALSE` stands in the runs whose work is bounded and then over:
every caller of `warm` asks once and a closed keeper is done; the sessions and
operations of `channels` and `channel_pairing`, the requests of `frame_disk` with
the display turned off, and the jobs of `immich_import` come to an end.

### Fairness and liveness

No user action is fair, and neither is a crash, a fault or a lost connection.

- `Delivery`: the drain timer keeps firing (`WF` on `BatchBegin`), a fetch or
  push ends, in a timeout if need be, backoff runs out, and the frame and Immich
  are reachable again and again (`SF` on the successful step of each key). The
  code retries without limit, so it needs no more.
- `Interlude`: the loop runs each task on, the supervisor polls, a dead hub is
  restarted, and a frame that is asked again and again answers (`SF` on the two
  restoring operations).
- `WarmSession`: the thread and the loop run on; every wait in them has a
  timeout.
- `ServedFrame`: the frame wakes, sleeps and polls, and time passes while it
  sleeps; as often as it tries, an answer gets through now and then (`SF`). It is
  the frame's firmware and the network that this is about: the hub only answers.
- `FolderBinding`: the scheduler's timer fires and the loop runs every job
  (`WF`); an album that exists, asked for again and again, is listed (`SF`).
- `FrameState`: both threads run and the slideshow's timer goes off.
- `ImmichImport`: each request is answered or times out (`WF`); no request need
  succeed.

## 4. What is proved

Proofs are for all values of the constants, from the assumptions that the
modules name (TLC checks these on every instance).

`Delivery_proofs`, for all assets, names, folders, listings and batch limits and
for both kinds of frame:

- `TypeCorrect`: `Spec => []TypeOK`,
- `ServedFromCacheHolds`: `Spec => []ServedFromCache`.

Neither formula is inductive. A delivery works on a snapshot while requests
delete and re-create rows, so `IInv` adds

- `LiveRows`: a live id in the batch names a row that exists. Without it
  marking could write to no row. It is kept because every eviction orphans the
  ids it deletes (`OrphanedLemma`, `EvictionLemma`);
- `JobInBatch`: the item being delivered belongs to the batch, so a request
  that orphans it is seen by it;
- `OnlyPolled`: a served frame has no device files, no pushes and no imports.
  This is why only a cached image (`DeliverCached`) or a fetch that has just
  filled the cache (`FetchOk`) can mark a served frame's row.

`EvictionLemma` covers every request that evicts and queues, `FinishedLemma`
every way an item ends, `WorkingLemma` every step that only moves the job on;
`NextLemma` puts them together.

- `EveryChangeQueuedHolds`: `Spec => EveryChangeQueued`. The reason is
  `EnqueueTracksLemma`: whichever of the items with one name is queued last, the
  row under that name is of an item of the library that has it.

Three more hold where names keep photos apart (`DistinctNames`): the canonical
name of an asset carries (eight characters of) the asset's id, upload names are a
namespace of their own, a device's own file is called neither, and a client that
names an asset's file uses that asset's name. The first three are what `naming.py`
(lines 1-22) says it does; the last is the same restriction as the run's `OwnNames`.

- `OwnedHolds`: every row, snapshot, cached image, kept original, transfer in
  flight and device file under a name is of the photo that the name stands for
  (`Owned`). This is what makes it harmless that requests replace rows under a
  push: they replace them by the same picture.
- `LandsWhatItMarksHolds` and `ImportedNotResentHolds` follow from it.
- `DeltaOnlyHolds`: `Spec => DeltaOnly`. The property itself names its one
  exception, the PUT that is refused half way: it evicts and leaves (section 3).

One case lies outside `DistinctNames`: a file that Slyde itself pushed and that
stays on the device after its row is gone, imported back as a device photo.

The last part of the module is about `FolderBinding`, for all albums, folders,
jobs, bindings and listings:

- `RunningKnownHolds`: `FairSpec => []RunningKnown`. Pruning forgets finished
  jobs only, a job that is finished never runs again, and a job that starts is
  entered first.
- `CuratedStaysHolds`: `FairSpec => CuratedStays`. Filing takes out only rows of
  the same folder that were synced; it may re-file one that a person curated, and
  nothing else writes to the table but the user. Both rest on `BindingsTyped`.
- `OneLibrary`, under `DistinctNames`: where the `rows` of this module and the `library` of `Delivery`
  hold the same photos, they do so after a folder sync, an album added once and
  a removal, each computed by its own module (`Synced`, `Merged` and `Drop`
  against `FolderSync`, `AddAlbumOnce` and `RemoveItem`). It is why the two can be
  two models of one table: what `FolderBinding` files is what `Delivery` queues
  and evicts for.

`WarmSession_proofs`, for all sets of callers:

- `Implements`: `Spec => OneAtATime`, the refinement of `FrameOps`,
- `UnavailableHolds`: `Spec => []UnavailableNeverRan`.

That the queue holds callers who still wait for their first execution does not
follow from the queue alone: a thread can die and leave a queue behind, and a
new keeper starts with an empty one. `IInv` therefore relates everything to
`line`, all operations ever queued: the queue is its end (`QueueIsTail`),
nobody is in it twice (`LineOfAsked`), what is in the queue has not run
(`QueueNotRun`), the operation in hand is the one right before the queue and
has run as often as the thread's place allows (`JobInHand`). `PopLemma` says
what is left when the first is taken. `NextLemma` shows that every step keeps
`IInv`; `StepLemma` that every step is one of `FrameOps` or a stutter, where
`AnswerLemma` and `RefuseLemma` stand for all the ways an operation is settled.

`Interlude_proofs`, for all images, slide times, tasks and crashes, of frames
that answer or do not: `RestoreKnownHolds`, `ConductsParkedHolds`,
`SlotHoldsImageHolds`, `NoTraceHolds`. Every task works on its own copy of the
row and saves all of it, so the invariant relates the copies to the row. `Known`
is enough for `RestoreKnown`: the row of an engaged frame has the user's
settings, or else the frame still has them (`RowTells`); the conductor's copy is
the row in all but what the user sets (`InStep`); whoever hands back holds the
user's settings (`HandingBack`) and is `Alone`, so that no stale copy is saved
over a newer row. The other three need where the frame is relative to the row:
`ParkedWhile`, `SlotKept` (the buffer that the row names holds what it says),
`ReleaseRuns` (an engaged row without a conductor has a release under way) and
`Cleaned`, all of them on frames that answer. The theorems assume `~Hasty`, as
the run does: no request arrives while a hand-back is under way. None of the four
holds without it (TLC finds each violated when `Hasty` is TRUE), and this is so in
the code: the last save of a late release, for one, clears a newer engagement's
restore data.

`Registry_proofs`, for all ids, addresses, leases and frames:
`AliasesResolveHolds`, `DeliveredIsCachedHolds`, `SameDeviceSameFrameHolds`,
`NothingLostHolds`, `NameSticksHolds` and `KeepsToFrameHolds`. Every handler is a
composition of `Upserted`, `Rekeyed`, `Purged` and `Linked`, so each of these has
its facts proved once, and every handler is shown to lead from a good store to a
good one. `SameDeviceSameFrame` is not inductive: merging an entry re-points
whatever its id was an alias of, so `LinksKept` also says that linked ids lead to
some entry and are not `Astray`. `KeepsToFrame` and `NameSticks` need to know
which entries the hub can take for one another. For a group of frames that shares
no address with the rest, the ids fall into the group's (`Ids`: its GUIDs, serials
and addresses) and the others, and `Sorted` says that rows, aliases, recorded
addresses and the operation under way never cross that line. `SortedLemma` proves it
for any line that divides no device (`Divides`), and so at once for every group
(`Apart` quantifies over them) and for the served frames as a whole, whose entries
no connected frame's can be merged with. An address that changes hands only makes
fewer groups count (`ApartNext`), so neither theorem has a hypothesis about leases.

`ServedFrame_proofs`, for all photos, intervals and limits: `OncePerWakeHolds`
and `AckedIsShownHolds`. `OneTurn`: after a turn the display's clock lags behind
the wake, which is no longer than the least gap. `Faithful`: from the poll that
tells the frame to display until its report, the current image is one that it
has not acknowledged, so no poll turns to another, and what it picks, draws and
reports is one image. A wake no longer than the gap is the model's `Tick` (see
section 2), not a theorem about frames.

`FrameState_proofs`, for all photos, requests and restarts: `StaysRemovedHolds`,
`SurvivesHolds`, `NothingDanglesHolds`. A restart brings back what is on disk, so
`IInv` says of the state file, of a snapshot and of a temporary what the
properties say of memory, relative to how far the request under way has come
(`StaysThere`, `NoneDangles`), as long as saves come one at a time (`OneSave`).
`StaysGone` needs no such condition: the photo files, changed before the save,
decide what a restart finds.

`FrameChannel_proofs`, for all sessions, operations and photos: `AnswersOwnHolds`,
`PhotoCleanHolds`, `ListIntactHolds`, `UploadStoredHolds`, `StoredWholeHolds` and
`PairedHolds`. Replies are named by kind only and bytes not at all, so nothing can
be seen in one message: `Conversing` says for each step of an operation which
requests and replies can be in the two queues (`Requested`, `Answered`, `Receiving`,
`Closing`, and `Resting` between two), and `Streaming` that the bytes that came,
those on their way and those still to be sent continue one another, unless an
earlier read stopped early (`early`). A session goes on after a receipt that was not
waited for, so the handler may still be sending and late receipts come (`Sending`,
`LateUp`, `LateDown`), and only when no left-overs can come (`Still`) is the file
channel empty between two operations. `Apart` says
that every other session is at rest and only the current one's file channel can
wait to be claimed; `Results` carries the outcome. These theorems, except the first,
assume `~Vanishes`: no client opens its file channel and goes away before the handler
has claimed it. `channel_pairing` shows what happens otherwise; where such a client
exists, TLC also finds `UploadStored` and `StoredWhole` violated with three sessions
and `PhotoClean` with four (a photo stored with another's bytes is read back).

`AnswersOwnHolds` and `TypeCorrect` need no such assumption, since an answer comes on
the control channel, of which each session has one of its own. They have an invariant
of their own, `Talks`: `Talk` is `Conversing` without the bytes and without what the
handler does, `Sized` says that a photo is announced by no bytes or two, and
`Queued` that a file channel waits only after it has arrived, so never twice.
`HeardLemma` is the step that matters: a reply that is not the one waited for is
late, and the one waited for is the last in the queue and the operation's own.

`ImmichImport_proofs`, for all files, folders, jobs, faults and edits:
`OneAlbumPerNameHolds`, `MirrorsFoldersHolds`, `CleanIsCompleteHolds`. Every job is
accounted for by itself: its ids come from the folders' history and are on the
server (`Honest`), where it stands (`OnCourse`), and what lies behind it if nothing
failed (`Matching`, `FiledSoFar`: of the targets it is done with, each has an album
with all its ids). Whatever another job does only adds to histories, server and
albums (`Grown`), which keeps all this true (`GrownLemma`); so overlapping jobs do
not disturb `CleanIsComplete`. `Alone` is for `OneAlbumPerName`: a job that is the
only one to make albums still finds none of the name it decided to create.

Throughout, `StepLemma`, `NextLemma` or a lemma per action shows that each action
keeps the invariant, and the temporal step comes last. `TypeOK` (in `Interlude`,
`Typed`, which leaves out `line` and `streak`: no property depends on them) is part
of every inductive invariant, and a property of a run only in `Delivery`.

Every safety property of the passing runs is proved. Model-checked only is liveness
(`DesiredDelivered`, `HandedBack`, `EveryQueuedAnswered`, `EveryPhotoShown`,
`Converges`, `EveryJobEnds`), which is beyond the proof system.

No recursion over data is proved, and none is used.

## 5. Plan

1. Torn handlers in `Delivery`: a crash between two commits of one request.
2. Proofs: `ListIntact` without `~Vanishes`, if TLC finds no counterexample; `Interlude`
   with a hand-back that overlaps a request, once the code's saves allow it.
3. `Firmware`: check, serve and update, with a check during a download.
4. `DeliveryPromise` (what a frame should show, what it shows) as an abstract
   specification implemented by `Delivery`.
5. `Registry` and `Interlude` together: a frame that is deregistered or re-keyed
   while it is conducted.

## 6. Not modelled, and why

- Image conversion, previews, ciphers, framing and broadcast parsing transform
  data and keep no state. Thumbnail matching is arithmetic on pixels.
- The HTTP schemas, configuration and the web frontend hold no shared state of
  their own; the requests the frontend makes are inputs here. The emulator's
  renderer and web view only read.
- Immich and SwitchBot are external: their answers are nondeterministic. The
  SwitchBot status is a cached read.
- Firmware: a sequential download, hash check and restart; the one case that
  interleaves is in the plan.
- The reported health of the scheduler, the progress counters of jobs and the
  summaries for the UI: nothing depends on them.
- The research and deployment directories are not part of the running program.
