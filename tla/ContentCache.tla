------------------------------ MODULE ContentCache -----------------------------
(***************************************************************************)
(* Which version of a file an open or a refresh gets: CoreOps::open_file,  *)
(* read_content and refresh_stale_handle step by step (core_ops.rs), the   *)
(* content file and the tracker row of DiskCache (disk.rs), dirty_inodes,  *)
(* the eTag in the memory cache and in SQLite, and what changes them       *)
(* meanwhile: delta sync, edits on the server, uploads from here, the TTL  *)
(* of the memory cache, an eviction, and a restart.                        *)
(*                                                                         *)
(* One file.  A version is the number of its revision on the server, and   *)
(* stands for its content as for its eTag.  A store that may be empty is a *)
(* set of at most one version.  A pending local save, which every read     *)
(* prefers, is left to OpenFiles; the size check next to the eTag check    *)
(* only rejects more.                                                      *)
(***************************************************************************)
EXTENDS Integers, FiniteSets

CONSTANTS
  Readers,      (* handles, each with the thread that opens and reads it    *)
  MaxVersion,   (* bounds of the model: revisions on the server, ...        *)
  MaxRestarts   (* ... and restarts of the program                          *)

ASSUME ContentCacheConstants == {MaxVersion, MaxRestarts} \subseteq Nat

Versions == 0..MaxVersion
None == -1

VARIABLES
  server,    (* the file's version on the server                            *)
  memory,    (* eTag in the memory cache                                    *)
  sqlite,    (* eTag in SQLite                                              *)
  file,      (* the content file of the disk cache                          *)
  row,       (* the eTag of its row in cache_entries                        *)
  suspect,   (* the inode is in dirty_inodes                                *)
  offline,   (* CoreOps::offline                                            *)
  thread,    (* what each reader is doing (AtRest)                          *)
  handle,    (* its open handle: a version, whether it streams, and stale   *)
  task,      (* its streaming download                                      *)
  delta,     (* delta sync: its step, its response and its token            *)
  evicting,  (* an eviction has removed the file and not yet the row        *)
  restarts,
  overlapped (* history: two threads compared or put the entry at once      *)

tags == <<memory, sqlite>>
disk == <<file, row>>
vars == <<server, tags, disk, suspect, offline, thread, handle, task, delta,
          evicting, restarts, overlapped>>

(* opening: it is in open_file, not in refresh_stale_handle; content: it   *)
(* is in read_content; item is the eTag it goes by, None once it serves    *)
(* what the disk has because there is no network; got is the content.      *)
AtRest ==
  [step |-> "idle", opening |-> FALSE, content |-> FALSE, item |-> None, got |-> None]

NoTask == [step |-> "none", content |-> None, tag |-> None]

Init ==
  /\ server = 0
  /\ memory = {} /\ sqlite = {0}
  /\ file = {} /\ row = {}
  /\ suspect = FALSE /\ offline = FALSE
  /\ thread = [r \in Readers |-> AtRest]
  /\ handle = [r \in Readers |-> {}]
  /\ task = [r \in Readers |-> NoTask]
  /\ delta = [step |-> "idle", etag |-> None, token |-> 0]
  /\ evicting = FALSE
  /\ restarts = 0
  /\ overlapped = FALSE

At(r, step) == thread[r].step = step
Become(r, t) == thread' = [thread EXCEPT ![r] = t]
Goto(r, step) == thread' = [thread EXCEPT ![r].step = step]
Opened(r) == handle[r] # {}
WorldUnchanged == UNCHANGED <<server, delta, evicting, restarts>>
OthersUnchanged == WorldUnchanged /\ UNCHANGED overlapped

(* lookup_item: memory, else SQLite, which fills memory.                   *)
Known == CHOOSE e \in IF memory # {} THEN memory ELSE sqlite : TRUE

LookUp(r, t, online) ==
  /\ Become(r, [t EXCEPT !.item = Known, !.step = IF offline THEN "offline" ELSE online])
  /\ memory' = IF memory # {} THEN memory ELSE sqlite

------------------------------------------------------------------------------
(* open_file *)

OpenLookUp(r) ==
  /\ At(r, "idle") /\ ~Opened(r)
  /\ LookUp(r, [AtRest EXCEPT !.opening = TRUE], "asking")
  /\ UNCHANGED <<sqlite, disk, suspect, offline, handle, task>> /\ OthersUnchanged

(* get_item; the caches follow when its eTag is another one.               *)
OpenAsk(r) ==
  /\ At(r, "asking")
  /\ Become(r, [thread[r] EXCEPT !.item = server, !.step = "checking"])
  /\ IF thread[r].item # server
       THEN memory' = {server} /\ sqlite' = {server}
       ELSE UNCHANGED tags
  /\ UNCHANGED <<disk, suspect, offline, handle, task>> /\ OthersUnchanged

(* It fails, or takes more than 5 seconds: the cached item has to do.      *)
OpenAskFails(r) ==
  /\ At(r, "asking")
  /\ offline' \in {offline, TRUE}
  /\ Goto(r, "checking")
  /\ UNCHANGED <<tags, disk, suspect, handle, task>> /\ OthersUnchanged

(* A large file: the handle is there at once, its content comes later.     *)
OpenStream(r) ==
  /\ At(r, "missed") /\ thread[r].opening /\ ~thread[r].content
  /\ task[r] = NoTask
  /\ handle' = [handle EXCEPT ![r] =
       {[version |-> None, streaming |-> TRUE, stale |-> FALSE]}]
  /\ task' = [task EXCEPT ![r] =
       [NoTask EXCEPT !.step = "downloading", !.tag = thread[r].item]]
  /\ Become(r, AtRest)
  /\ UNCHANGED <<tags, disk, suspect, offline>> /\ OthersUnchanged

------------------------------------------------------------------------------
(* The disk cache as open_file and read_content use it *)

(* A thread is between the file and the row of an entry it looks up, or    *)
(* has downloaded what it will put.                                        *)
Busy ==
  \E r \in Readers : \/ thread[r].step \in {"comparing", "putting", "putting row"}
                     \/ task[r].step \in {"putting", "putting row"}

(* Another thread joins it; the code does not keep them apart.             *)
Join == overlapped' = (overlapped \/ Busy)

(* DiskCache::get_with_etag reads the file, then the row.                  *)
CheckFile(r) ==
  /\ At(r, "checking")
  /\ \/ /\ ~suspect
        /\ \E v \in file : Become(r, [thread[r] EXCEPT !.got = v, !.step = "comparing"])
        /\ Join
     \/ /\ suspect \/ file = {}
        /\ Goto(r, "missed")
        /\ UNCHANGED overlapped
  /\ UNCHANGED <<tags, disk, suspect, offline, handle, task>> /\ WorldUnchanged

(* Mutant: the entry is good whatever its eTag.                            *)
GoodAlways(r) == TRUE

(* etag_ok                                                                 *)
Good(r) == row = {thread[r].item}

CompareTag(r) ==
  /\ At(r, "comparing")
  /\ Goto(r, IF Good(r) THEN "loaded" ELSE "dropping")
  /\ UNCHANGED <<tags, disk, suspect, offline, handle, task>> /\ OthersUnchanged

(* DiskCache::remove: the file, then the row.                              *)
DropFile(r) ==
  /\ At(r, "dropping")
  /\ file' = {}
  /\ Goto(r, "dropping row")
  /\ UNCHANGED <<tags, row, suspect, offline, handle, task>> /\ OthersUnchanged

DropRow(r) ==
  /\ At(r, "dropping row")
  /\ row' = {}
  /\ Goto(r, "missed")
  /\ UNCHANGED <<tags, file, suspect, offline, handle, task>> /\ OthersUnchanged

(* Without the network the file is served as it is.                        *)
ReadOffline(r) ==
  /\ At(r, "offline")
  /\ \/ \E v \in file :
          Become(r, [thread[r] EXCEPT !.got = v, !.item = None, !.step = "loaded"])
     \/ file = {} /\ Become(r, AtRest)
  /\ UNCHANGED <<tags, disk, suspect, offline, handle, task>> /\ OthersUnchanged

------------------------------------------------------------------------------
(* read_content, for a small file and for a refresh *)

(* read_handle finds its handle stale.                                     *)
ReadStale(r) ==
  /\ At(r, "idle")
  /\ \E h \in handle[r] : h.stale
  /\ Goto(r, "missed")
  /\ UNCHANGED <<tags, disk, suspect, offline, handle, task>> /\ OthersUnchanged

ContentLookUp(r) ==
  /\ At(r, "missed") /\ ~thread[r].content
  /\ LookUp(r, [thread[r] EXCEPT !.content = TRUE], "checking")
  /\ UNCHANGED <<sqlite, disk, suspect, offline, handle, task>> /\ OthersUnchanged

(* There was no good entry: the download answers.                          *)
ContentFetch(r) ==
  /\ At(r, "missed") /\ thread[r].content
  /\ Become(r, [thread[r] EXCEPT !.got = server, !.step = "putting"])
  /\ Join
  /\ suspect' = FALSE
  /\ UNCHANGED <<tags, disk, offline, handle, task>> /\ WorldUnchanged

ContentFetchFails(r) ==
  /\ At(r, "missed") /\ thread[r].content
  /\ offline' \in {offline, TRUE}
  /\ Become(r, AtRest)
  /\ UNCHANGED <<tags, disk, suspect, handle, task>> /\ OthersUnchanged

(* DiskCache::put: the file (a rename), then the row.  Its errors are      *)
(* ignored.                                                                *)
PutFile(r) ==
  /\ At(r, "putting")
  /\ \/ file' = {thread[r].got} /\ Goto(r, "putting row")
     \/ Goto(r, "loaded") /\ UNCHANGED file
  /\ UNCHANGED <<tags, row, suspect, offline, handle, task>> /\ OthersUnchanged

(* Mutant: the row gets the eTag the item has by now.                      *)
PutRowLate(r) ==
  /\ At(r, "putting row")
  /\ row' = {Known}
  /\ Goto(r, "loaded")
  /\ UNCHANGED <<tags, file, suspect, offline, handle, task>> /\ OthersUnchanged

PutRow(r) ==
  /\ At(r, "putting row")
  /\ row' = {thread[r].item}
  /\ Goto(r, "loaded")
  /\ UNCHANGED <<tags, file, suspect, offline, handle, task>> /\ OthersUnchanged

(* OpenFileTable::insert, or the rest of refresh_stale_handle.             *)
Load(r) ==
  /\ At(r, "loaded")
  /\ handle' = [handle EXCEPT ![r] =
       IF thread[r].opening \/ \E h \in @ : h.stale
         THEN {[version |-> thread[r].got, streaming |-> FALSE, stale |-> FALSE]}
         ELSE @]
  /\ Become(r, AtRest)
  /\ UNCHANGED <<tags, disk, suspect, offline, task>> /\ OthersUnchanged

(* release_file aborts the download of a handle that still streams,        *)
(* wherever it is; a refresh has left it running.                          *)
Close(r) ==
  /\ At(r, "idle") /\ Opened(r)
  /\ handle' = [handle EXCEPT ![r] = {}]
  /\ task' = [task EXCEPT ![r] = IF \E h \in handle[r] : h.streaming THEN NoTask ELSE @]
  /\ UNCHANGED <<tags, disk, suspect, offline, thread>> /\ OthersUnchanged

------------------------------------------------------------------------------
(* The streaming download *)

TaskGoto(r, step) == task' = [task EXCEPT ![r].step = step]

TaskFetch(r) ==
  /\ task[r].step = "downloading"
  /\ Join
  /\ task' = [task EXCEPT ![r].step = "putting", ![r].content = server]
  /\ handle' = [handle EXCEPT ![r] =
       {IF h.streaming THEN [h EXCEPT !.version = server] ELSE h : h \in @}]
  /\ UNCHANGED <<server, tags, disk, suspect, offline, thread, delta, evicting, restarts>>

TaskFails(r) ==
  /\ task[r].step = "downloading"
  /\ task' = [task EXCEPT ![r] = NoTask]
  /\ UNCHANGED <<server, tags, disk, suspect, offline, thread, handle, delta, evicting, restarts, overlapped>>

TaskPutFile(r) ==
  /\ task[r].step = "putting"
  /\ file' = {task[r].content}
  /\ TaskGoto(r, "putting row")
  /\ UNCHANGED <<server, tags, row, suspect, offline, thread, handle, delta, evicting, restarts, overlapped>>

TaskPutRow(r) ==
  /\ task[r].step = "putting row"
  /\ row' = {task[r].tag}
  /\ TaskGoto(r, "clearing")
  /\ UNCHANGED <<server, tags, file, suspect, offline, thread, handle, delta, evicting, restarts, overlapped>>

(* dirty_inodes.remove                                                     *)
TaskClear(r) ==
  /\ task[r].step = "clearing"
  /\ suspect' = FALSE
  /\ task' = [task EXCEPT ![r] = NoTask]
  /\ UNCHANGED <<server, tags, disk, offline, thread, handle, delta, evicting, restarts, overlapped>>

------------------------------------------------------------------------------
(* Delta sync *)

DeltaGoto(step) == delta' = [delta EXCEPT !.step = step]
ThreadsUnchanged == UNCHANGED <<thread, task, evicting, restarts, overlapped>>

DeltaQuery ==
  /\ delta.step = "idle"
  /\ \/ /\ delta.token # server
        /\ delta' = [delta EXCEPT !.etag = server, !.step = "comparing"]
     \/ /\ delta.token = server /\ offline
        /\ UNCHANGED delta
  /\ offline' = FALSE
  /\ UNCHANGED <<server, tags, disk, suspect, handle>> /\ ThreadsUnchanged

(* The item is handled: what it was is what SQLite says.                   *)
DeltaCompare ==
  /\ delta.step = "comparing"
  /\ DeltaGoto(IF sqlite # {delta.etag} THEN "dropping" ELSE "storing")
  /\ UNCHANGED <<server, tags, disk, suspect, offline, handle>> /\ ThreadsUnchanged

DeltaDropFile ==
  /\ delta.step = "dropping"
  /\ file' = {}
  /\ DeltaGoto("dropping row")
  /\ UNCHANGED <<server, tags, row, suspect, offline, handle>> /\ ThreadsUnchanged

(* The rest of DiskCache::remove, dirty_inodes and mark_stale_by_ino.      *)
DeltaMark ==
  /\ delta.step = "dropping row"
  /\ row' = {}
  /\ suspect' = TRUE
  /\ handle' = [r \in Readers |-> {[h EXCEPT !.stale = TRUE] : h \in handle[r]}]
  /\ DeltaGoto("storing")
  /\ UNCHANGED <<server, tags, file, offline>> /\ ThreadsUnchanged

DeltaStore ==
  /\ delta.step = "storing"
  /\ memory' = {delta.etag}
  /\ DeltaGoto("applying")
  /\ UNCHANGED <<server, sqlite, disk, suspect, offline, handle>> /\ ThreadsUnchanged

DeltaApply ==
  /\ delta.step = "applying"
  /\ sqlite' = {delta.etag}
  /\ delta' = [step |-> "idle", etag |-> None, token |-> delta.etag]
  /\ UNCHANGED <<server, memory, disk, suspect, offline, handle>> /\ ThreadsUnchanged

------------------------------------------------------------------------------
(* What happens around them *)

RemoteEdit ==
  /\ server < MaxVersion
  /\ server' = server + 1
  /\ UNCHANGED <<tags, disk, suspect, offline, handle, delta>> /\ ThreadsUnchanged

(* flush_inode_async: the answer of the upload goes to the memory cache.   *)
OwnUpload ==
  /\ server < MaxVersion
  /\ server' = server + 1
  /\ memory' = {server + 1}
  /\ UNCHANGED <<sqlite, disk, suspect, offline, handle, delta>> /\ ThreadsUnchanged

MemoryExpires ==
  /\ memory # {}
  /\ memory' = {}
  /\ UNCHANGED <<server, sqlite, disk, suspect, offline, handle, delta>> /\ ThreadsUnchanged

(* evict_if_needed, by a put of another file.                              *)
EvictFile ==
  /\ row # {} /\ ~evicting
  /\ evicting' = TRUE
  /\ file' = {}
  /\ UNCHANGED <<server, tags, row, suspect, offline, thread, handle, task, delta, restarts, overlapped>>

EvictRow ==
  /\ evicting
  /\ evicting' = FALSE
  /\ row' = {}
  /\ UNCHANGED <<server, tags, file, suspect, offline, thread, handle, task, delta, restarts, overlapped>>

(* The program stops anywhere and starts again: disk and SQLite stay.      *)
Restart ==
  /\ restarts < MaxRestarts
  /\ restarts' = restarts + 1
  /\ memory' = {} /\ suspect' = FALSE /\ offline' = FALSE
  /\ thread' = [r \in Readers |-> AtRest]
  /\ handle' = [r \in Readers |-> {}]
  /\ task' = [r \in Readers |-> NoTask]
  /\ delta' = [delta EXCEPT !.step = "idle", !.etag = None]
  /\ evicting' = FALSE
  /\ UNCHANGED <<server, sqlite, disk, overlapped>>

------------------------------------------------------------------------------

ReaderStep(r) ==
  \/ OpenLookUp(r) \/ OpenAsk(r) \/ OpenAskFails(r) \/ OpenStream(r)
  \/ CheckFile(r) \/ CompareTag(r) \/ DropFile(r) \/ DropRow(r) \/ ReadOffline(r)
  \/ ReadStale(r) \/ ContentLookUp(r) \/ ContentFetch(r)
  \/ ContentFetchFails(r) \/ PutFile(r) \/ PutRow(r) \/ Load(r) \/ Close(r)

TaskStep(r) ==
  TaskFetch(r) \/ TaskFails(r) \/ TaskPutFile(r) \/ TaskPutRow(r) \/ TaskClear(r)

DeltaStep == DeltaQuery \/ DeltaCompare \/ DeltaDropFile \/ DeltaMark \/ DeltaStore \/ DeltaApply

Next ==
  \/ \E r \in Readers : ReaderStep(r) \/ TaskStep(r)
  \/ DeltaStep
  \/ RemoteEdit \/ OwnUpload \/ MemoryExpires \/ EvictFile \/ EvictRow \/ Restart

Spec == Init /\ [][Next]_vars

------------------------------------------------------------------------------

(* Unless threads overlapped at it, the content file is at least as new as *)
(* the eTag recorded for it, whoever downloads, drops or evicts it: an     *)
(* entry whose eTag is current is current.                                 *)
TagNotNewer == ~overlapped => \A e \in row, v \in file : e <= v

(* With the network and no such overlap, what an open or a refresh loads   *)
(* is no older than the eTag it goes by: what get_item, the memory cache   *)
(* or SQLite told it of is what the application gets, or newer, whatever   *)
(* delta sync, an eviction, an upload or a restart did meanwhile.          *)
LoadedIsCurrent ==
  ~overlapped =>
    \A r \in Readers : At(r, "loaded") => thread[r].got >= thread[r].item

==============================================================================
