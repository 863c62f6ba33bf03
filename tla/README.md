# Verification of Carmine Desktop

Carmine Desktop mounts OneDrive and SharePoint document libraries as a local
file system. Local writes go to a writeback cache on disk and are uploaded in
the background; remote changes arrive by delta sync. This directory holds TLA+
models of the parts where an interleaving, a crash or a stale cache could lose
a user's data or block the file system for ever, the TLC configurations that
check them on small instances, and TLAPS proofs for every instance.

Paths below are relative to `crates/`; `vfs` stands for
`carminedesktop-vfs/src`, `cache` for `carminedesktop-cache/src`, and so on.
`PROJECT.json` gives the exact lines each definition models.

## 1. Inventory

| component | state | operations | hard behaviour |
|---|---|---|---|
| Upload queue (`vfs/sync_processor.rs`) | `pending`, `in_flight` with waiting oneshots, `failed` with retry counts, request and result channels, a semaphore | `Flush`, `FlushSync`, `Shutdown`, tick, result, drain | request threads, one processor task and many upload tasks; timeouts, retries, bounded channel, shutdown at any time |
| Upload of one file (`flush_inode_async`) and writeback cache (`cache/writeback.rs`, `vfs/pending.rs`) | memory buffer, pending file, its `.tmp`, eTags in two caches, the server's revision | write, persist, read, remove; conflict check, upload, conflict copy, 412/423 paths; crash recovery | crash at any step, lost answers, stale eTags, saves during an upload |
| Open files (`vfs/core_ops.rs`) | `OpenFileTable`: per handle content, `dirty`, `stale`, mode; the inode's size | open, read, write, truncate, flush, release, refresh of a stale handle | two handles of one file, delta sync marking a handle stale while it is written, a lock dropped around a download |
| Streaming downloads (`vfs/core_ops.rs`) | `StreamingBuffer`: chunks, `Done`/`Failed`, a watch channel | append, wait for a range, complete, abort | reader waiting for bytes that never come, short streams, waiting under a map lock |
| Directory operations (`vfs/core_ops.rs`) | none of their own | lookup, list, create, unlink, rmdir, rename, overwrite | several caches and the server changed one after the other |
| Inode table (`vfs/inode.rs`) | item id to inode and back, next inode | allocate, seed, reassign, remove | allocation against reassignment after an upload of a new file |
| Metadata store (`cache/sqlite.rs`) | items, tombstones, delta tokens | upsert, delete with tombstone, apply a delta page set, purge | a delta response older than a local delete |
| Memory cache (`cache/memory.rs`) | items and children maps with a TTL | get, insert, invalidate, evict | expiry between two reads |
| Delta sync (`cache/sync.rs`) | delta token, set of inodes with open handles | fetch, apply, invalidate, mark stale | applies an old response; runs next to every file operation |
| Disk content cache (`cache/disk.rs`) | content files, tracker rows, size | get, put, remove, evict | file and row are changed separately; eviction works on a snapshot |
| Offline pins (`cache/offline.rs`, `cache/pin_store.rs`) | pins with expiry, temporary inodes | pin, unpin, download a folder, redownload | interrupted downloads, expiry, inode ranges |
| Graph client (`graph/client.rs`, `graph/retry.rs`) | offline flag | every request to the server | retries of reads, none of uploads, no timeout |
| Authentication (`auth/manager.rs`, `auth/oauth.rs`, `auth/storage.rs`) | tokens, the cancel handle of a sign-in | sign in, refresh, sign out | refresh racing sign-out, two sign-ins |
| Mount lifecycle (`app/main.rs`, `cache/manager.rs`) | mounts, sync handles, delta loops | start, stop, crash recovery, offline switch | recovery runs after the mounts are live |
| Commands, activity, tray, shell integration, notifications, update, IPC, configuration, frontend | settings, logs, registry keys | user interface and operating-system I/O | none a model checker reaches |

### How they interact

A file-system thread of WinFsp calls `CoreOps`. On a flush, `flush_handle`
writes the content to the writeback cache, persists it and sends `FlushSync`
with a oneshot to the queue of the drive, then blocks up to 60 s. The processor
answers the oneshot when the upload of that inode ends. Uploads read the
writeback cache and the metadata caches, talk to the Graph API, put the new
item in the memory cache and clear the writeback entry. Delta sync changes both
metadata caches and marks open handles stale at the same time. At start,
`run_crash_recovery` uploads what the writeback cache holds, next to the queue
of the mount, which has recovered the same entries. `unmount` sends `Shutdown`,
joins the processor, then calls `flush_pending`.

### What makes each component correct

* Queue: uploads of one inode never overlap; every blocked call is answered,
  by the upload of its own file; nothing requested is forgotten; shutdown ends.
* Upload pipeline: what was saved survives until the server has it; a confirmed
  flush is on the server; no older content replaces a newer one; nobody else's
  edit is replaced without notice; a reported conflict is one.
* Open files: a write to a handle is not lost by a flush, a refresh or a close
  that overlaps it; what a handle saves is what its operations meant.
* Streaming: a reader gets the bytes of the file or an error, and always one of
  the two; delta sync gets past a handle that waits.
* Inode table and metadata: the two directions of the table agree; a deleted
  item does not come back; an item has one inode.
* Directories: when requests, delta sync and uploads have come to rest, rows and
  listings are what the server has; what was deleted here stays deleted.
* Disk cache and pins: an entry whose eTag is current is current; content a pin
  has downloaded is protected and stays.
* Authentication: a configured account finds its tokens at the next start; the
  end of a session is announced.
* Lifecycle: sign-out leaves nothing mounted; a save waits in a queue, whichever
  instance of its drive is there.

## 2. Modules

| module | models | state |
|---|---|---|
| `FlushService` | what a caller of `flush_handle` is promised: each call is refused or waits; it ends with a verdict of an upload of its own file, with "closed" when the service stops, or by its timeout | abstract specification |
| `SyncProcessor` | `vfs/sync_processor.rs` except `flush_inode_async`; the senders in `core_ops.rs` and `winfsp_fs.rs` | implements `FlushService` |
| `UploadPipeline` | `flush_inode_async`, `WriteBackBuffer`, `recover_single`, and what delta sync, TTL and other people do to one file | one file, step by step |
| `UploadProofs` | theorems about `SyncProcessor` with `FlushService`, and about `UploadPipeline` | proofs |
| `ItemStore` | `vfs/inode.rs`, the keys of items and tombstones in `cache/sqlite.rs`, `run_delta_sync`, and what list, find, create, unlink, rename, the upload of a new file, a pin and the next start do to them | ids and inodes |
| `ItemStoreProofs` | theorems about it | proofs |
| `Directories` | `find_child`, `list_children`, `create_file`, `mkdir`, `unlink`, `rmdir`, `rename`, the entries and children maps of `cache/memory.rs`, places and tombstones in SQLite, `run_delta_sync` | names and places |
| `DirectoriesProofs` | theorems about it | proofs |
| `OpenFiles` | `OpenFileTable`, the handle operations of `CoreOps` and the WinFsp callbacks that call them | handles of one file |
| `OpenFilesProofs` | theorems about it | proofs |
| `Streaming` | `StreamingBuffer`, the download task, reads, writes and close of a streaming handle, the map lock and the runtime's threads | one handle |
| `StreamingProofs` | theorems about it | proofs |
| `ContentCache` | `open_file`, `read_content`, `refresh_stale_handle`, `cache/disk.rs`, `dirty_inodes`, the eTag in memory and in SQLite | one file |
| `OfflinePins` | `cache/offline.rs`, `cache/pin_store.rs`, the eviction of `cache/disk.rs` with its filter, `clear_cache` | a small tree |
| `ContentProofs` | theorems about `ContentCache`, and about `OfflinePins` | proofs |
| `Session` | `auth/manager.rs`, `auth/storage.rs`, sign-in, sign-out and restore, the delta loop's reaction to a refused refresh | one session |
| `SessionProofs` | theorems about it | proofs |
| `Mounts` | `start_mount`, `stop_mount`, delta loops, commands, launch and quit of `app/main.rs` and `commands.rs`, `mount` and `unmount` of `winfsp_fs.rs` | instances of a drive |
| `MountsProofs` | theorems about it | proofs |
| `MC...` | small instances | for TLC |

The modules cut the program at the data they are about: `UploadPipeline` knows
one save and its eTags, `OpenFiles` cells of a content, `ContentCache` versions,
`ItemStore` inodes, `Directories` places, `Mounts` whether a save is queued. A
step of the program that touches several (delta sync, the upload of a new file)
is in each of them with the part they are about. What crosses a border is said
in the header of the module: `FlushService` is the border between the queue and
everything that flushes.

### SyncProcessor

Actions are the branches of `processor_loop`'s `select!` (`OnFlush`,
`OnFlushSync`, `OnShutdown`, `OnTick`, `HandleResult`, `ChannelClosed`), the
drain (`HandleResult`, `DrainCompletes`, `DrainDeadline`), the steps of a
spawned upload task (`AcquirePermit`, `UploadEnds`, `SendResult`) and the
threads that call in (`SendFlush`, `SendFlushSync`, `CallTimesOut`,
`SendShutdown`, `DropHandles`). The two channels are sequences. A oneshot is
its call: whoever holds its sender holds the call's name, in a queued request
or in the waiter list of an in-flight inode. Instants are reduced to the
questions the loop asks: a debounce window is `fresh` or `ripe`, a backoff has
elapsed (`due`) or not. The tick uploads ripe inodes first and then makes due
failed inodes pending, ripe for the next tick, in one step, as the code does.
The `select!` is `biased`, but its branches are polled while messages arrive,
so any ready branch may run. When the processor returns it drops both
receivers; upload tasks live on and their results go nowhere, yet release their
permits. The metrics are left out. The specification is `QueueSpec`, from
`QueueInit` and `QueueNext`: `UploadProofs` extends `UploadPipeline` too, which
has `Spec`, and so no name may be in both.

### UploadPipeline

One file that exists on the server, with a name that is not transient. Contents
are numbers (0 original, `v` the v-th save, `-k` the k-th edit by others), an
eTag is the server's revision number. Every step between two suspension points
or lock releases of the code is an action: the insert in the buffer, the clone,
the write of `.tmp` and the rename of `persist`; the read of pending content
and cached eTag, the conflict check, the conflict copy, the re-persist, the
PUT, and removal of buffer and file. The shared `.tmp` file is modelled.
`Events` names what the environment may do, so that each run says under which
faults its properties hold. The queue is reduced to what `FlushService`
promises: one upload at a time, a flush that arrives meanwhile is answered by
it. History variables (`safe`, `confirmed`, `uploaded`, `base`) are read by
properties only. `MaxRevision` also guards uploads: it is large enough that a
run's saves, edits and one retry fit.

### ItemStore

The table of one drive and its rows in SQLite, by item id; names, parents,
eTags, contents and the memory cache are left out. The two maps of the table
are behind one lock and each SQLite call is a transaction, so a call is a step
(`Allocate`, `RemoveByItemId`, `Reassign`, `Upsert`, `DeleteWithTombstone`,
`DeltaApply`), and what a thread keeps between two of its calls is state:
`delta` (the response of a delta query, with the inode each item got),
`response` (an item of a `list_children` answer, or of a rename, that is not
stored yet; a longer answer is several of them), `unlink` (server deleted, then
table, then tombstone) and `upload` (the server has the new file, `reassign`
has not run). A tombstone check and the `allocate` after it are one step:
nothing is decided from the former that the check inside the transaction does
not decide again. The inode is the primary key of `items` and the item id is
unique, so `ON CONFLICT(item_id)` keeps the inode of a row, a key collision
fails the statement (callers of `upsert_item` ignore it) or all of
`apply_delta`, and the delta token then stays (`DeltaFails`: the same items are
reported again). `PinItem` stores a row under any inode from `TempBase` on,
because every pin counts from the same number. `Restart` rebuilds the table
from the rows; requests in flight are gone. `DeltaQuery` may purge any
tombstone except one of an item in `response`: a tombstone lives 300 s, no
answer waits that long. `gone` is history. Not modelled: `clear`, and the
prefetch of a mount, which allocates without looking at tombstones.

### Directories

An item is its place: folder and name. Every call on a cache and every request
is a step: a lookup is `Look` (children map, entry), `Rows` (SQLite), `Ask` (the
server), one `StoreItem` for each item of the answer and `StoreMap`; a delete is
`Remove`, `Forget` (children map, inode table, entry) and `DeleteWithTombstone`;
a rename looks up both names, removes its target and goes on with `Move`,
`UpsertMoved`, `Remap`. Delta sync handles its response item by item
(`DeltaDeleted`, `DeltaCheck`, `DeltaInsert`) and applies it in one transaction
that may fail. Listings of the server lag behind a delete (`ghost`), which is
what the tombstones are for. The driver runs a change of names alone, next to no
other lookup or listing of the volume (`Begin`); delta sync, the upload of a new
file, expiry and other users are not held back by it. The maps are case
preserving in the program and compared without case; here a name is a value.
Two histories say where the properties do not apply, and why: `astray`, items
stored from an answer that delta sync had overtaken, or hidden by a rename that
ignored a failed delete; `behind`, folders whose map was stored from such an
answer or lost a name somebody else had taken. Section 4 has what happens there.

### OpenFiles

The handles of one file, each with its own buffer, `dirty`, `stale` and
`logical_size`; a content is a short sequence of cells that name who wrote them.
A flush is `FlushSave` and `FlushDone` or `FlushFails`, a refresh `ReadStale`
and `ReadRefresh`, because the code lets go of the handle in between. The file-
system driver is not in the repository: it runs reads of a file next to each
other and everything else but open and close alone (`Shared`, `Alone`).
Functions of `CoreOps` no callback reaches (`copy_file_range`,
`write_to_buffer`, `register_local_file`, `read_range_direct`, `truncate`
without a handle) are left out. `meant` and `unsaved` are histories: what the
operations of a handle amount to, and which writes no flush has confirmed.

### Streaming

A handle whose content is still arriving. `get` holds a shared lock on the entry
of the handle table and `get_mut`, `iter_mut` and `remove` an exclusive one,
also while the caller waits for the download; delta sync waits for that lock on
a thread of the runtime the download runs on. Chunks, the progress channel, the
frontier a reader waits for, the read far ahead that asks for its own range, the
abort by close, short and long streams, retries are all there.

### ContentCache

Versions instead of contents: the server's, the eTag in memory and in SQLite,
the content file and its tracker row, what a handle loaded. `open_file`,
`read_content` and the streaming task are taken apart at every await; delta sync
drops the entry, marks handles, stores the eTag and applies, in that order.

### OfflinePins

A tree that does not change on the server, rows with inode and parent, contents
on disk. `recursive_download` keeps its stack of folders; the eviction takes its
snapshot, asks the filter entry by entry and removes afterwards; expiry lists
first and unpins later; a restart looks at every pin again. The walk of
`is_protected` and the query of `health` are the least sets of items closed under
the links of the rows (`Ancestors`, `Subtree`): what a walk returns, without its
order and its limit of 50 levels, and a form the provers can reason about. Names
that other modules have too are `PinsInit`, `pinsVars` and so on.

### Session

Grants are numbered; memory, keyring and file hold one or none. Storage steps
may fail (`MaxFailures`), the program may stop anywhere. The migration between
the key used before the account is known and the account's own key is its three
steps. One account: what a second one brings is in section 4.

### Mounts

An instance is what one call of `start_mount` builds. The two tables of
`AppState`, the steps of start and stop, the processor of each instance
(recovering, running, draining, ended), the rounds of the delta loops over a
snapshot of the rows, the removal of a deleted drive's mount, and commands.
Crash recovery is one step. Two mount ids name one drive, the case the tables
can disagree on.

## 3. Runs

| run | question | result |
|---|---|---|
| `queue` | two inodes, a blocking call, one permit, one retry, shutdown at any point: are uploads of one inode kept apart, is every oneshot where it will be answered, does every call return, does shutdown end, is every request uploaded or given up, does the queue implement `FlushService`? | holds |
| `pipeline_durable` | two saves, a crash at any step, every fault of the store and the server, stale eTags: is anything saved lost, confirmed without upload, or replaced by something older? | holds when saves do not overlap an upload |
| `pipeline_overlap` | the same when a save lands during an upload | violated |
| `pipeline_conflicts` | two writers that overlap, two remote edits, failures of store and server: is an unseen edit replaced silently, is a conflict reported that is none? | holds while eTags are fresh and the check answers |
| `items_agree` | do tombstones hold, do the two directions of the table agree, have table and SQLite one inode for one item, whatever delta sync, listing, delete, upload, pin and restart do to each other? | holds |
| `names` | once every request, delta sync and upload has ended: are rows and listings what the server has, does what was deleted here stay deleted? | holds outside `astray` and `behind` |
| `open_files` | two handles of one file next to an upload, another user and delta sync: does an unconfirmed write stay in its buffer, is an untouched handle the file, is a save what its operations meant? | holds |
| `content_cache` | opens, refreshes, streams, delta sync, TTL, restart: can a tracker row be newer than its file, can a handle load less than the eTag it asked for? | holds until two threads download at once |
| `pins` | pin, unpin, expiry, downloads, eviction, restart: does pinned content stay protected and on disk, is the reported health true? | holds until a download severs the rows |
| `streaming` | short, exact, long and broken streams: does a read get bytes of the file, is only a whole stream stored, does every call and every delta sync go on? | holds |
| `session` | refresh, sign-in, sign-out, a failing store, restart at any step: does a configured account find its tokens, is the end of a session announced? | holds |
| `mounts` | launch, sign-in, sign-out, add, remove, quit, two delta loops: is everything unmounted after sign-out, do the two tables agree, is every save queued? | holds with one thread of commands |

### Bounds

* `queue`: two inodes are the least that compete for a permit; one permit makes
  every contention and the full result channel (its capacity is
  `MaxConcurrent`) happen; `MAX_RETRIES = 2` has a retry and a give-up.
  `MaxQueue` bounds the unbounded request channel: a request can be overtaken by
  a shutdown with one. One call, because the tableaux of three liveness
  properties multiply the states; calls attach to uploads of `SendFlush` too.
  The safety properties and the refinement are proved for every other value.
* `pipeline_durable`: two saves, so an older one to fall back to, and one crash,
  after which queue and recovery work on one entry. Edits by others are left to
  `pipeline_conflicts`: for durability a lost answer does the same to eTags.
* `items_agree`: one item of the server, one id of an upload, one local file:
  every pair of actors meets on one item, and items compete for an inode.
  `MaxInode` lets an item be removed and allocated again; `TempBase` is also
  where the table goes on after a restart. Restarts and remote changes are not
  bounded.
* `names`: two items and a new file, two folders, one name, two threads with two
  jobs, one change by others: a rename over an item, an upload onto a name that
  is taken, a listing and a delta sync around each. One folder with two names,
  two changes, three jobs and one item with four jobs were run by hand and hold;
  they take longer.
* `open_files`: two handles, contents of up to two cells, two changes: a
  truncation and a write after it, or a write and an edit by others. `Lengths`
  are the sizes others choose. Two local changes and one by others were run by
  hand (5.3 million states) and hold.
* `content_cache`: one handle besides the stream it leaves behind, two versions
  after the first, one restart.
* `pins`: a folder in a folder, both may be pinned, two files in the inner one
  and a budget of one file, so every eviction has to choose and every pin meets
  the rows of another. `MaxEvents = 2` counts pins made, remote changes, cleared
  caches and restarts: a pin and what happens to it, or both pins. Three events
  were run by hand (2.6 million states) and hold. The constraint `Unsevered` stops
  at states where `severed` is set; it is never reset, so every behaviour up to
  there is checked completely. Section 4 has what follows.
* `streaming`: a file of three cells in chunks of two, streams of every length,
  two callers with three calls, one delta sync, two threads of the runtime.
* `session`: one account, three grants, one failure of storage, one restart, two
  tasks that refresh.
* `mounts`: two mount ids for one drive, two instances, one save, one thread of
  commands, two delta loops.

Symmetry is used in runs without liveness properties only: handles, items of the
server, names, threads and loops that are alike.

### Deadlock

All runs but `items_agree` switch the deadlock check off: a drive that is
unmounted, a file that is closed, a program that has quit or a bound that is
spent really stop. `ItemStore` never does, and its run checks that. What must
not stop is stated as liveness of the queue, of the streams and of the session.

### Fairness

`SyncProcessor`: `LiveSpec` assumes that the processor task keeps running (weak
fairness of each of its branches: none of its handlers blocks) and that upload
tasks get their permit and channel slot (strong fairness: tokio's semaphore and
bounded channel serve waiters in FIFO order). What depends on the outside is a
premise of the property that needs it: `UploadFairness` (a request to the Graph
API ends) for `CallsReturn` and `RequestsSettled`, `ClockFairness` (time passes,
and requests pause now and then long enough for a tick to see a ripe inode,
because the biased `select!` prefers requests) for `RequestsSettled`.
`ShutdownCompletes` needs neither: it holds when uploads hang, which matters
because the HTTP client has no timeout and `unmount` joins the processor without
one. The 60 s timeout of a call is never assumed to fire.

`Streaming`: weak fairness of the download task, whose requests end, in pieces,
at the end of the stream or with an error, which may be the last retry's; strong
fairness of the steps of callers and of delta sync that take a lock of a shard
of the handle table, which is given in turn and never held for ever. Nothing is
assumed of the callers: they need not read on, or close.

`Session`: weak fairness of the expiry of a token, of the request the delta loop
makes each interval, and of the remaining steps of sign-out and restore once
begun. A refused refresh is announced because the loop comes round, not because
anybody signs in.

## 4. What the checks turned up

One behaviour contradicts a sentence of the code and is a run:

* **overlap** (`pipeline_overlap`): the uploader reads save 1; save 2 enters the
  buffer and the pending file; the upload of save 1 succeeds and `remove` clears
  both; the flush of save 2, attached to that upload, returns Ok. Save 2 exists
  nowhere but in a buffer that counts as flushed.

The rest is where a property stops. Each was met as a counterexample, or while
reading for a guard, and the properties above are stated so that they hold up to
it; the guard or history named in brackets is where to look.

*Upload.* Delta sync stores the eTag of a remote edit while a save is pending:
the check then compares equal, If-Match is satisfied, and the edit is replaced
("delta" in `Events`). `recover_single` uploads with neither a check nor If-Match
(`MaxCrashes`). An upload stores its eTag in memory only; after 60 s the next save of
the same user compares with the older one in SQLite and makes a conflict copy of
a file nobody else touched ("expiry"). The conflict copy holds the local content,
which then replaces the remote edit too. On 412 `ConflictDetected` is emitted
and no copy made (`vfs/sync_processor.rs:641`).

*Items.* A listing is answered, the item deleted here, delta sync learns of it
and drops the tombstone, the listing stores the item: its row stays, no later
delta mentions it (`cache/sqlite.rs:112` promises otherwise). A local file that
is renamed before its upload leaves its row; when the upload ends, every later
`apply_delta` fails on the collision and keeps its token.

*Names.* What a new file, a folder made here or a rename knows is in memory for
60 s and not in SQLite: a flush after that finds "item metadata not found",
fails until it is given up, and the file leaves the listings. The upload of a
new file goes by name without If-Match; one made under the name of an item
the lookup could not ask for replaces it. A rename over an item goes on when the
delete of that item failed, and tombstones it: it is on the server and hidden
here (`astray`); when the delete worked and the move fails, the target is gone.
A failed conflict check or download there goes on without a copy. A stale name
may delete an item another user has renamed since. After a move by others only
the new folder's map is invalidated (`behind`, until the TTL). A lookup between
delta sync's invalidation and its `apply_delta` refills the memory from the row
about to be deleted; an answer delta sync has overtaken leaves old rows and maps
(`astray`, `behind`). A rename or delete of a name another item took meanwhile
drops that item from the map (`Taken`). An upload that ends after its target was
deleted here enters it in the map again; a rename of a local file during its
upload is lost; a folder may gain an item between the check of `rmdir` and its
delete.

*Handles.* `logical_size` survives a refresh and cuts a longer remote content;
`ensure_buffer_capacity` pads what is uploaded (`vfs/winfsp_fs.rs:849` says the
size is restored). Append takes the size from the first handle of the file it
finds, and truncate and overwrite act on that handle. A flush that times out and
a close leave a pending entry without a request in the queue until the next
start (`SavesAreMeant` is about what is saved, `Mounts` about where it waits).
An open or refresh that overlaps delta sync's marking is not marked.

*Content.* Two downloads that overlap leave the older content under the newer
eTag (`overlapped`); an own upload leaves the old eTag in SQLite.

*Pins.* Every download numbers its items from 1 000 000 (a resume from
2 000 000), the table from its own counter (`cache/manager.rs:59` assumes them
equal), which takes protection away in three ways (`severed`). Browsing a folder
that was pinned and not browsed before gives it another inode in the mount than in
its row, and its children rows with the former as parent. A later download meets
the numbers of an earlier one: the row of a file is not stored, the error is
logged (`cache/offline.rs:328`) and the content, which is downloaded, is neither
protected nor counted. And a pin below another pin stores its root without a
parent (`cache/offline.rs:111`): when the inner pin ends, the files below it are
no longer below the outer one, until a listing or delta sync stores the parent
again. The resume of a restart
stores no row of the root. The eviction asks the filter and removes later; `process_expired` unpins a
pin renewed since its list; a redownload ends at the first error; stale pins are
never cleared (`cache/pin_store.rs:181`). `clear_cache` says the pins are
downloaded again (`app/commands.rs:1045`); they are at the next start.

*Streams.* As many delta syncs as the runtime has threads, each waiting for the
entry of a handle whose reader waits for the download, leave the download no
thread (`Workers` is larger than `Syncs` in the run). A stream that ends short
ends as `Done`: the rest reads as zeros and is stored as the file.

*Session.* A refresh answered after `sign_out` stores its tokens again; a
sign-in cancelled late leaves its tokens; signing in again with another account
stores that account's tokens under the first one's key, which is why the run has
one account. When the keyring fails and the file does not, the older token in
the keyring is the one the next start loads. A tick that began before the
re-authentication may set the flag again after it. Once the browser has called
back, a sign-in cannot be cancelled.

*Mounts.* With a second thread of commands, a launch or clear that ends after a
sign-out leaves its drive mounted. `start_mount` removes the mount point's
directory also when a drive is mounted on it. A 404 between the two insertions
removes the configuration and leaves the drive. An instance replaced in the
table is dropped without `unmount`, and its debounced saves wait for the next
start; so do saves between the drain and the host's stop. A tick still at work
for an instance that has been replaced writes rows with the inodes and the token
of the old one, and its stop removes the caches of the new one.

## 5. Proofs

The theorems hold for every value of the constants that the named assumptions
allow; where a run's property is proved, the run shows the same formula on a
small instance. Each rests on an inductive invariant that TLC, too, finds to hold on
the instance of the run of its property. Their proofs have a
lemma for each action, or for a group of actions that leave the same part of the
state alone, and in it a step for each conjunct the action can disturb.

### The queue (`UploadProofs`, first part)

Under `ConstantsAssumption`: permits, retry limit and queue bound are positive,
`Inos` is finite (only the type of cardinalities needs it).

* `TypeCorrect`: `QueueSpec => []TypeOK`.
* `UploadsNeverOverlap`: `QueueSpec => []UploadsExclusive`, the conjunction of
  `OneUploadPerInode`, `PendingNotInFlight` and `DrainLeavesNothing`. None of the
  three is inductive alone: that a tick starts no second upload needs
  `PendingNotInFlight`; that a result frees the right inode needs that results
  are distinct and excluded by a live task; that `drained` leaves no task needs
  the equivalence of `in_flight` with tasks and results until the exit. The
  inductive invariant is their conjunction with `TypeOK`.
* `PermitsAlwaysConserved`: a permit is taken and given back with the only task
  of its inode, so the set of holders gains or loses one member.
* `OneshotsNeverLost`: `QueueSpec => []OneshotsAccounted`, on top of the previous
  invariants, over positions in the request sequence.
* `AnsweredByOwnUpload`: the action property `AnsweredByItsUpload`, from the
  invariants: only `HandleResult` answers with Ok, only to the waiters of the
  result's inode, and a waiter's target is that inode. It is proved and in no
  run.
* `QueueImplementsService`: `QueueSpec => ImplementsService`: the initial state maps
  to an initial state, and each step to the step of `FlushService` it is or to
  a stutter. `OneshotsAccounted` is what makes a dropped channel "closed" for
  every call still waiting.

### The upload of one file (`UploadProofs`, second part)

Any number of writers, saves, edits by others, crashes and revisions. What a
theorem assumes of `Events` is what the run of its property leaves out, and no
more: TLC finds the property violated when one of the named events is allowed.

* `SavedContentAlwaysSurvives`, `ConfirmedIsAlwaysUploaded`, without "overlap".
  A save that was persisted is `Durable`: taken by the server, or on disk while
  nobody has anything older in hand that could replace it and nobody is about to
  clear it. A writer between the buffer and the rename is not there yet, so a
  crash must find the previous save durable: `Coming` says what holds meanwhile.
* `ServerNeverEverGoesBack`, without "overlap" and "late_full". Everything under
  way is one content (`OneContent`), at least as new as the server's; a file on
  disk may be older than that content but not than the server, until the upload
  has persisted what it sends. With "late_full" it cannot persist, a crash then
  leaves the older file, and recovery puts it back.
* `OverwritesNeverSilent`, without crashes (recovery does not check), "delta"
  and "check_fails"; writers may overlap. An eTag the program knows is the
  server's only while the server's content is its own (`Own`), so an If-Match
  that is satisfied replaces nobody's edit, and without one the event is out.
* `ConflictsAlwaysReal`, without crashes, "delta", "expiry" and "answer_lost".
  The other way round: every eTag the program has is the server's or an edit
  came after it (`Behind`), which needs the eTag of every upload to be kept.

### Items (`ItemStoreProofs`)

Any number of items, uploads, local files and inodes, under `StoreConstants`
(ids are disjoint, pins start above the first inode).

* `StoreTypes`, `TombstonesAlwaysHold`, `TableAlwaysAgrees`: from one inductive
  invariant. That the table agrees is not inductive: `allocate` needs that every
  inode given out is below the counter, `reassign` that the inode of an upload
  was given out, and `Restart` that SQLite has one row per inode
  (`OneItemPerRow`), which in turn every insert has to keep.
* `RowsAlwaysKeepTheirInode`: on top of it, `Held`: an inode that is in a row, or
  that delta sync or a listing is about to store, belongs to its item or to
  nobody and is not the inode of an upload in flight. Each operation of the
  table keeps what is held; what `allocate` returns is held.
* `FoldersAlwaysAgree`: on top of both, `AgreeInv`: whatever a row, the response
  of a delta query or of a listing has for an item of the server is what the
  table has. An item leaves the table only when it is deleted on the server,
  which never uses its id again (`UsedInv`).

### Names and places (`DirectoriesProofs`)

Any number of items, local files, folders, names and threads, of changes by
others, jobs and callbacks, under `DirectoriesConstants` (items and local files are
apart, `None` is neither of them nor a folder, the bounds are natural numbers).

* `RowsAlwaysConverge`, `ListingsAlwaysConverge`, `DeletedAlwaysStaysDeleted`,
  from one invariant (`DirectoriesInvariant`). The properties speak of the moment
  when all has come to rest; the invariant says what holds at every step before
  that. Delta sync still has to handle the items that are `Due`: changed on the
  server and not in a response yet, or in the response and not looked at. Of
  every other item, what an answer, a rename or an upload has in hand is what the
  server has, or delta sync has come to the item meanwhile, and then the item is
  `overtaken` (`Requests`, `Uploading`).
* SQLite is behind on one more kind of item, those the response has handled and
  `apply_delta` has not stored (`Pending`, `RowsInv`): a response that fails makes
  them due again, which is why the token must stay.
* An item deleted here has a tombstone as long as an answer, a delta response or
  a lagging listing has it, or the thread that deletes it is still to write the
  tombstone; until then the driver keeps every other lookup out (`GoneInv`).
* The memory is put right before SQLite: a map has every item that is neither due
  nor `astray` (`ListInv`), and an answer about to become a map has them too, or
  it has been overtaken and its folder will be `behind`. What is gone from the
  server is in no map, or in no cache that would show it (`DeadInv`).

### Handles (`OpenFilesProofs`)

Any number of handles, lengths and changes, under `OpenFilesConstants`.

* `HandleTypes`, `UnsavedWritesAlwaysKept`: a refresh replaces a buffer long
  after it saw that the handle is not dirty. What keeps a write from coming in
  between is the driver, which runs calls that write next to no read, also when
  they are for another handle of the file (`ReadsAlone`).
* `BufferAlwaysTheFile`, `SavesAlwaysMeant`: a buffer holds nothing past its
  logical size (`Rounded`), or a write past the size would bring back what a
  truncation cut off; and a refresh has one content to take.

### Streams (`StreamingProofs`)

Any size of file, chunk and stream, any callers, threads and delta syncs.

* `ServedAlwaysStreamed`, `StoredAlwaysWhole`: the progress a reader sees is what
  the stream has sent (`Frontier`), every chunk is filled up to it with its own
  cells (`ChunksInv`), a reader that copies has its range behind it for good, and
  a complete entry has the cells of the file, zeros past the end of a stream that
  ended short, and the cells written here (`DataInv`).

### Disk content (`ContentProofs`, first part)

Any number of readers, revisions and restarts.

* `TagNeverNewer`, `LoadedAlwaysCurrent`: as long as nothing has `overlapped`,
  one thread at most is at the entry (`Alone`), and what it holds is no older than
  the eTag it compares with or writes (`Fresh`); delta sync and eviction may take
  file and row away in any order and between any of its steps.

### Pins (`ContentProofs`, second part)

Any tree of folders and files, any pins in it, nested or not, any budget, any
number of downloads, evictions, listings, remote changes, expiries and restarts.

* `PinsTypes`, `KeptAlwaysProtected`, `KeptAlwaysOnDisk`, `HealthAlwaysTrue`, all
  from `PinsInvariant`. Until something is severed, a folder has the mount's inode
  in table and rows, hence the parent of a row is none or the folder the item is
  in (`Numbered`); so what rows lead to from a pin is in its tree
  (`SubtreeInTree`). Every folder on the stack of a download is a row below the
  pin, and so is the file it fetches (`Framed`). What it kept is therefore below
  the pin, on disk and not the victim of an eviction (`KeptSafe`). A row is stored
  with its true parent, which adds links (`UpsertGrows`), or without one for the
  root of a pin, which cuts none another pin needs (`SubtreeStaysBelow`). The
  filter climbs the links the query descends (`Climb`).
* The proof is what found the collision of file rows and the nested pins of
  section 4: without them in `severed` the invariant is not inductive, and TLC has
  the counterexamples to `KeptIsProtected`.

### The session (`SessionProofs`)

One account signs in (with two, TLC has the counterexample of section 4); any
number of requests, grants, failures of storage and restarts.

* `TokensAlwaysFound`: in the invariant, sign-out waits for a sign-in that has
  come back from the browser and both for the restore (`Alone`), and at each step
  of a sign-in or a migration between the keys one of the two stores has the
  tokens under the key that is not about to go (`Stored`).

### Mounts (`MountsProofs`)

Commands run one after the other (`OneCaller`; with two, TLC has the
counterexample of section 4): any drives, mounts and instances, any number of
delta loops that stop mounts next to the command, of drives that are deleted and
of handles a sign-in replaces.

* `SignOutAlwaysUnmounts`, `TablesAlwaysAgree`, `SavesAlwaysQueued`, from one
  invariant. An instance is in the table, in the hands of the thread that starts
  or stops it, or down (`Owned`). Loops stop mounts of deleted drives only
  (`LoopsStopGone`). Of the drives that are there, the configuration has what is
  mounted or in hand, each drive once (`Configs`), so that a thread that changes
  the drive's entry and the listed mount of that drive are about the same mount;
  then the tables differ only while a start is between the two (`Agree`). What is
  mounted is mounted for a session or a sign-in, and what a sign-out has not yet
  stopped is on its list (`Sessions`). A save is queued by the listed instance or
  by the one about to be listed, which must hold from the moment it is spawned:
  its recovery reads the directory once (`Queues`).

### Only model-checked

* Liveness: fairness and ENABLED are out of the prover's reach.

## 6. Plan

Done, most important behaviour first: the queue, its abstract specification and
their proofs; the upload of one file; items and inodes; handles; streams; disk
content; pins; the session; the life of a mount; names and places; the proofs of
all of these.

Next:

1. Files with a `local:` id in `UploadPipeline`: the upload under a new id, saves
   under the old key meanwhile. `ItemStore` and `Directories` have their ids and
   places, not their contents.
2. The liveness of delta sync: rows converge although `apply_delta` can fail, once
   a collision cannot stay for ever.

## 7. Not modelled

Frontend, tray, notifications, shell integration, installer update and IPC
server are user interface or operating-system I/O; configuration and types are
parsing and data; the activity log is a bounded list nothing reads back. The
OAuth exchange, the keyring, the server and the file-system driver are external,
modelled from how the code uses them. Within the modelled parts: metrics and
logging, the chunked variant of writeback writes, transient file names (they are
dropped, not uploaded), panics of upload tasks, schema migrations, eviction from
the memory cache (an entry that is evicted is one that has expired), the limit of
50 levels in `is_protected`, folders
below folders in `Directories`. `DeltaSyncTimer`, `toggle_mount` and
`refresh_mount` have no caller in the program.
