---------------------------- MODULE UploadPipeline ----------------------------
(***************************************************************************)
(* One file with local changes, from the writeback cache to the server:    *)
(* flush_inode_async of sync_processor.rs step by step, the writeback      *)
(* cache it reads and clears (carminedesktop-cache/src/writeback.rs), the  *)
(* first half of CoreOps::flush_handle, which fills it, and what meets     *)
(* them half-way: crash recovery, delta sync, the TTL of the memory cache  *)
(* and other people's edits on the server.                                 *)
(*                                                                         *)
(* The file exists on the server (its id is not local:) and its name is    *)
(* not transient.  A content is a number: 0 is the original, v > 0 the     *)
(* v-th local save, -k the k-th edit made by somebody else.  An eTag is    *)
(* the revision number of the server's file.  A store that holds at most   *)
(* one content or one eTag is a set of at most one element.                *)
(*                                                                         *)
(* The queue between flush_handle and the upload is kept as little as      *)
(* FlushService promises: one upload of the file at a time, a flush that   *)
(* arrives while it runs is answered by it.                                *)
(***************************************************************************)
EXTENDS Integers, FiniteSets

CONSTANTS
  Writers,      (* threads in flush_handle for handles of this file         *)
  MaxSaves,     (* bounds of the model: local saves, ...                    *)
  MaxEdits,     (* ... edits by others, ...                                 *)
  MaxCrashes,   (* ... crashes, ...                                         *)
  MaxRevision,  (* ... and revisions of the file on the server              *)
  Events        (* what the environment may do, out of EventKinds           *)

EventKinds ==
  {"overlap",      (* a save while another save or an upload is under way   *)
   "expiry",       (* the memory cache drops the entry after its TTL        *)
   "delta",        (* delta sync                                            *)
   "disk_full",    (* persisting a save fails, and flush_handle with it     *)
   "late_full",    (* persisting it again before the upload fails           *)
   "check_fails",  (* get_item of the conflict check fails                  *)
   "copy_fails",   (* the upload of a conflict copy fails                   *)
   "put_fails",    (* the upload fails before the server applies it         *)
   "answer_lost",  (* the server applies it and the answer is lost          *)
   "locked"}       (* the server answers 423                                *)

Saves == 1..MaxSaves
Uploader == "uploader"     (* the upload task of the queue                  *)
Recoverer == "recoverer"   (* recover_pending_writes after a restart        *)
Procs == Writers \cup {Uploader, Recoverer}

ASSUME PipelineConstants ==
  /\ {MaxSaves, MaxEdits, MaxCrashes, MaxRevision} \subseteq Nat
  /\ Events \subseteq EventKinds
  /\ Writers \cap {Uploader, Recoverer} = {}

VARIABLES
  server,     (* content and revision of the file on the server             *)
  copies,     (* contents in conflict copies on the server                  *)
  buffer,     (* WriteBackBuffer::buffers                                   *)
  disk,       (* the pending file on disk                                   *)
  tmp,        (* the .tmp file every persist writes first                   *)
  memory,     (* eTag in the memory cache                                   *)
  sqlite,     (* eTag in SQLite                                             *)
  delta,      (* eTag in a delta response not applied yet                   *)
  pc,         (* where every process is                                     *)
  clone,      (* what its persist has cloned from the buffer                *)
  version,    (* the save a writer is flushing                              *)
  content,    (* what the uploader and the recoverer have read              *)
  known,      (* eTag of the item the uploader looked up, then of the upload *)
  if_match,   (* eTag it sends in If-Match                                  *)
  outcome,    (* what flush_inode_async returns                             *)
  requested,  (* the queue will upload the file once more                   *)
  emitted,    (* VfsEvents of the running upload, each with its content     *)
  saves, edits, crashes,  (* how many there have been                       *)
  (* history, which no action reads                                         *)
  safe,       (* newest save whose writeback.write succeeded                *)
  confirmed,  (* saves whose flush_handle returned Ok                       *)
  uploaded,   (* contents the server has ever taken, in place or as a copy  *)
  base        (* revision each save could have been made from               *)

serverVars == <<server, copies, uploaded>>
storeVars == <<buffer, disk, tmp>>
etagVars == <<memory, sqlite, delta>>
taskVars == <<content, known, if_match, outcome>>
countVars == <<saves, edits, crashes>>
historyVars == <<safe, confirmed, base>>
vars == <<serverVars, storeVars, etagVars, pc, clone, version, taskVars,
          requested, emitted, countVars, historyVars>>

Init ==
  /\ server = [content |-> 0, etag |-> 0]
  /\ copies = {} /\ uploaded = {}
  /\ buffer = {} /\ disk = {} /\ tmp = {}
  /\ memory = {0}
  /\ sqlite \in {{}, {0}}       (* find_child caches in memory only         *)
  /\ delta = {}
  /\ pc = [p \in Procs |-> "idle"]
  /\ clone = [p \in Procs |-> {}]
  /\ version = [w \in Writers |-> 0]
  /\ content = [p \in {Uploader, Recoverer} |-> 0]
  /\ known = {} /\ if_match = {}
  /\ outcome = TRUE
  /\ requested = FALSE
  /\ emitted = {}
  /\ saves = 0 /\ edits = 0 /\ crashes = 0
  /\ safe = 0 /\ confirmed = {}
  /\ base = [v \in Saves |-> 0]

Goto(p, stage) == pc' = [pc EXCEPT ![p] = stage]
Emit(kind, v) == emitted' = emitted \cup {<<kind, v>>}

(* Mutants: both lookups the other way round.                              *)
PendingDiskFirst == IF disk # {} THEN disk ELSE buffer
CachedEtagSqliteFirst == IF sqlite # {} THEN sqlite ELSE memory

(* WriteBackBuffer::read and the metadata lookup: memory first.            *)
Pending == IF buffer # {} THEN buffer ELSE disk
CachedEtag == IF memory # {} THEN memory ELSE sqlite

------------------------------------------------------------------------------
(* flush_handle, up to the answer of the queue.                            *)

Quiet == \A p \in Procs : pc[p] = "idle"

(* buffers.insert of WriteBackBuffer::write.                               *)
Save(w) ==
  /\ pc[w] = "idle"
  /\ saves < MaxSaves
  /\ "overlap" \in Events \/ Quiet
  /\ saves' = saves + 1
  /\ version' = [version EXCEPT ![w] = saves + 1]
  /\ buffer' = {saves + 1}
  /\ base' = [base EXCEPT ![saves + 1] =
       CHOOSE e \in IF CachedEtag # {} THEN CachedEtag ELSE {server.etag} : TRUE]
  /\ Goto(w, "cloning")
  /\ UNCHANGED <<serverVars, disk, tmp, etagVars, clone, taskVars, requested,
                 emitted, edits, crashes, safe, confirmed>>

(* What follows persist: the uploader ignores its errors, a writer returns *)
(* them without having asked for an upload.                                *)
PersistEnds(p, ok) ==
  /\ Goto(p, IF p = Uploader THEN "putting" ELSE IF ok THEN "queued" ELSE "idle")
  /\ safe' = IF ok /\ p \in Writers /\ version[p] > safe THEN version[p] ELSE safe

(* Mutant: the upload does not persist what it is about to send.           *)
PersistCloneSaveOnly(p) ==
  /\ pc[p] = "cloning"
  /\ clone' = [clone EXCEPT ![p] = buffer]
  /\ IF buffer = {} \/ p = Uploader THEN PersistEnds(p, TRUE)
                                    ELSE Goto(p, "writing") /\ UNCHANGED safe
  /\ UNCHANGED <<serverVars, storeVars, etagVars, version, taskVars, requested,
                 emitted, countVars, confirmed, base>>

(* WriteBackBuffer::persist: clone the buffer, write the .tmp file, rename. *)
(* The .tmp file is shared by every persist of the file.                   *)
PersistClone(p) ==
  /\ pc[p] = "cloning"
  /\ clone' = [clone EXCEPT ![p] = buffer]
  /\ IF buffer = {} THEN PersistEnds(p, TRUE)
                    ELSE Goto(p, "writing") /\ UNCHANGED safe
  /\ UNCHANGED <<serverVars, storeVars, etagVars, version, taskVars, requested,
                 emitted, countVars, confirmed, base>>

PersistWrite(p) ==
  /\ pc[p] = "writing"
  /\ \/ /\ tmp' = clone[p]
        /\ Goto(p, "renaming")
        /\ UNCHANGED safe
     \/ /\ (IF p = Uploader THEN "late_full" ELSE "disk_full") \in Events
        /\ PersistEnds(p, FALSE)
        /\ UNCHANGED tmp
  /\ UNCHANGED <<serverVars, buffer, disk, etagVars, clone, version, taskVars,
                 requested, emitted, countVars, confirmed, base>>

PersistRename(p) ==
  /\ pc[p] = "renaming"
  /\ disk' = IF tmp = {} THEN disk ELSE tmp
  /\ tmp' = {}
  /\ clone' = [clone EXCEPT ![p] = {}]
  /\ PersistEnds(p, tmp # {})
  /\ UNCHANGED <<serverVars, buffer, etagVars, version, taskVars, requested,
                 emitted, countVars, confirmed, base>>

(* The queue takes the FlushSync: it starts an upload or joins the one     *)
(* that runs.                                                              *)
Receive(w) ==
  /\ pc[w] = "queued"
  /\ pc' = [pc EXCEPT ![w] = "waiting",
                      ![Uploader] = IF @ = "idle" THEN "starting" ELSE @]
  /\ requested' = IF pc[Uploader] = "idle" THEN FALSE ELSE requested
  /\ UNCHANGED <<serverVars, storeVars, etagVars, clone, version, taskVars,
                 emitted, countVars, historyVars>>

(* The 60 s timeout; a FlushSync still in the queue stays there.           *)
FlushTimesOut(w) ==
  /\ pc[w] \in {"queued", "waiting"}
  /\ Goto(w, "idle")
  /\ requested' = (requested \/ pc[w] = "queued")
  /\ UNCHANGED <<serverVars, storeVars, etagVars, clone, version, taskVars,
                 emitted, countVars, historyVars>>

------------------------------------------------------------------------------
(* The upload task.                                                        *)

(* A tick of the queue: debounce window or backoff elapsed.                *)
StartQueued ==
  /\ requested
  /\ pc[Uploader] = "idle"
  /\ requested' = FALSE
  /\ Goto(Uploader, "starting")
  /\ UNCHANGED <<serverVars, storeVars, etagVars, clone, version, taskVars,
                 emitted, countVars, historyVars>>

(* Mutant: every end is a success.                                         *)
ReturnsTrue(result) ==
  /\ Goto(Uploader, "done")
  /\ outcome' = TRUE

Returns(result) ==
  /\ Goto(Uploader, "done")
  /\ outcome' = result

(* Content, then metadata: nothing pending is a success, no metadata a     *)
(* failure.                                                                *)
ReadPending ==
  /\ pc[Uploader] = "starting"
  /\ known' = CachedEtag
  /\ \/ /\ Pending = {}
        /\ Returns(TRUE)
        /\ UNCHANGED content
     \/ /\ Pending # {} /\ CachedEtag = {}
        /\ Returns(FALSE)
        /\ UNCHANGED content
     \/ /\ CachedEtag # {}
        /\ \E v \in Pending : content' = [content EXCEPT ![Uploader] = v]
        /\ Goto(Uploader, "checking")
        /\ UNCHANGED outcome
  /\ UNCHANGED <<serverVars, storeVars, etagVars, clone, version, if_match,
                 requested, emitted, countVars, historyVars>>

(* get_item of the conflict check.                                         *)
CheckConflict ==
  /\ pc[Uploader] = "checking"
  /\ \/ /\ known = {server.etag}
        /\ if_match' = known
        /\ Goto(Uploader, "cloning")
     \/ /\ known # {server.etag}
        /\ if_match' = {}
        /\ Goto(Uploader, "copying")
     \/ /\ "check_fails" \in Events
        /\ if_match' = {}
        /\ Goto(Uploader, "cloning")
  /\ UNCHANGED <<serverVars, storeVars, etagVars, clone, version, content,
                 known, outcome, requested, emitted, countVars, historyVars>>

CopyTaken(v) ==
  /\ copies' = copies \cup {v}
  /\ uploaded' = uploaded \cup {v}
  /\ UNCHANGED server

(* The conflict copy is a copy of the local content.                       *)
UploadConflictCopy ==
  LET v == content[Uploader]
  IN /\ pc[Uploader] = "copying"
     /\ \/ /\ CopyTaken(v)
           /\ Emit("ConflictDetected", v)
           /\ Goto(Uploader, "cloning")
           /\ UNCHANGED outcome
        \/ /\ \/ "copy_fails" \in Events /\ UNCHANGED serverVars
              \/ "answer_lost" \in Events /\ CopyTaken(v)
           /\ Emit("UploadFailed", v)
           /\ Returns(FALSE)
     /\ UNCHANGED <<storeVars, etagVars, clone, version, content, known, if_match,
                    requested, countVars, historyVars>>

(* The server replaces the content; If-Match, when sent, must match.       *)
Replace(v) ==
  /\ server.etag < MaxRevision
  /\ server' = [content |-> v, etag |-> server.etag + 1]
  /\ uploaded' = uploaded \cup {v}
  /\ UNCHANGED copies

(* Mutant: the upload never asks for the revision that was checked.        *)
MatchesAnything == TRUE

Matches == if_match \subseteq {server.etag}

UploadContent ==
  LET v == content[Uploader]
  IN /\ pc[Uploader] = "putting"
     /\ \/ /\ Matches /\ Replace(v)
           /\ known' = {server.etag + 1}
           /\ Goto(Uploader, "uploaded")
           /\ UNCHANGED <<outcome, emitted>>
        \/ /\ ~Matches                                       (* 412 *)
           /\ Emit("ConflictDetected", v)
           /\ Returns(FALSE)
           /\ UNCHANGED <<serverVars, known>>
        \/ /\ "locked" \in Events                            (* 423 *)
           /\ Goto(Uploader, "locked")
           /\ UNCHANGED <<serverVars, known, outcome, emitted>>
        \/ /\ \/ "put_fails" \in Events /\ UNCHANGED serverVars
              \/ "answer_lost" \in Events /\ Matches /\ Replace(v)
           /\ Emit("UploadFailed", v)
           /\ Returns(FALSE)
           /\ UNCHANGED known
     /\ UNCHANGED <<storeVars, etagVars, clone, version, content, if_match,
                    requested, countVars, historyVars>>

(* 423: what is pending by now is uploaded as a conflict copy.             *)
UploadLockedCopy ==
  /\ pc[Uploader] = "locked"
  /\ \/ \E v \in Pending :
          /\ CopyTaken(v)
          /\ Emit("FileLocked", v)
          /\ Goto(Uploader, "copied")
          /\ UNCHANGED outcome
     \/ /\ \/ Pending = {} /\ UNCHANGED serverVars
           \/ "copy_fails" \in Events /\ UNCHANGED serverVars
           \/ "answer_lost" \in Events /\ \E v \in Pending : CopyTaken(v)
        /\ Emit("UploadFailed", content[Uploader])
        /\ Returns(FALSE)
  /\ UNCHANGED <<storeVars, etagVars, clone, version, content, known, if_match,
                 requested, countVars, historyVars>>

(* The local variables of P die with its upload.                           *)
Forget(P) ==
  /\ content' = [p \in DOMAIN content |-> IF p \in P THEN 0 ELSE content[p]]
  /\ IF Uploader \in P
       THEN known' = {} /\ if_match' = {} /\ outcome' = TRUE /\ emitted' = {}
       ELSE UNCHANGED <<known, if_match, outcome, emitted>>

(* Success: the new item goes to the memory cache, never to SQLite, and    *)
(* WriteBackBuffer::remove drops the buffer, then the pending file.        *)
ClearBuffer(p) ==
  /\ pc[p] \in {"uploaded", "copied"}
  /\ memory' = IF p = Uploader /\ pc[p] = "uploaded" THEN known ELSE memory
  /\ buffer' = {}
  /\ Goto(p, "removing")
  /\ UNCHANGED <<serverVars, disk, tmp, sqlite, delta, clone, version, taskVars,
                 requested, emitted, countVars, historyVars>>

RemoveFile(p) ==
  /\ pc[p] = "removing"
  /\ disk' = {}
  /\ IF p = Uploader
       THEN Returns(TRUE) /\ UNCHANGED <<content, known, if_match, emitted>>
       ELSE Goto(p, "idle") /\ Forget({p})
  /\ UNCHANGED <<serverVars, buffer, tmp, etagVars, clone, version, requested,
                 countVars, historyVars>>

(* The queue handles the result: the flushes that wait are answered, and a *)
(* failure is retried until it is given up.                                *)
AnswerFlushes ==
  LET answered == {w \in Writers : pc[w] = "waiting"}
  IN /\ pc[Uploader] = "done"
     /\ pc' = [p \in Procs |-> IF p \in answered \cup {Uploader} THEN "idle" ELSE pc[p]]
     /\ confirmed' = IF outcome THEN confirmed \cup {version[w] : w \in answered}
                                ELSE confirmed
     /\ IF outcome THEN UNCHANGED requested ELSE requested' \in {TRUE, requested}
     /\ Forget({Uploader})
     /\ UNCHANGED <<serverVars, storeVars, etagVars, clone, version, countVars,
                    safe, base>>

------------------------------------------------------------------------------
(* Crash and recovery.                                                     *)

(* Only the disk and SQLite survive.  The restarted queue recovers the     *)
(* pending file when SQLite gives its item an inode (recover_pending), and *)
(* run_crash_recovery uploads it besides.                                  *)
Crash ==
  /\ crashes < MaxCrashes
  /\ crashes' = crashes + 1
  /\ buffer' = {} /\ memory' = {} /\ delta' = {}
  /\ pc' = [p \in Procs |-> IF p = Recoverer /\ disk # {} THEN "due" ELSE "idle"]
  /\ requested' = (disk # {} /\ sqlite # {})
  /\ clone' = [p \in Procs |-> {}]
  /\ Forget({Uploader, Recoverer})
  /\ UNCHANGED <<serverVars, disk, tmp, sqlite, version, saves, edits, historyVars>>

RecoverRead ==
  /\ pc[Recoverer] = "due"
  /\ \/ /\ Pending = {}
        /\ Goto(Recoverer, "idle")
        /\ UNCHANGED content
     \/ /\ \E v \in Pending : content' = [content EXCEPT ![Recoverer] = v]
        /\ Goto(Recoverer, "putting")
  /\ UNCHANGED <<serverVars, storeVars, etagVars, clone, version, known, if_match,
                 outcome, requested, emitted, countVars, historyVars>>

(* recover_single uploads without a conflict check; without a SQLite row   *)
(* it has no parent to upload to.                                          *)
RecoverUpload ==
  /\ pc[Recoverer] = "putting"
  /\ \/ /\ sqlite # {}
        /\ Replace(content[Recoverer])
        /\ Goto(Recoverer, "uploaded")
        /\ UNCHANGED <<taskVars, emitted>>
     \/ /\ \/ sqlite = {} /\ UNCHANGED serverVars
           \/ "put_fails" \in Events /\ UNCHANGED serverVars
           \/ "answer_lost" \in Events /\ sqlite # {} /\ Replace(content[Recoverer])
        /\ Goto(Recoverer, "idle")
        /\ Forget({Recoverer})
  /\ UNCHANGED <<storeVars, etagVars, clone, version, requested, countVars,
                 historyVars>>

------------------------------------------------------------------------------
(* The rest of the world.                                                  *)

RemoteEdit ==
  /\ edits < MaxEdits
  /\ server.etag < MaxRevision
  /\ edits' = edits + 1
  /\ server' = [content |-> -(edits + 1), etag |-> server.etag + 1]
  /\ UNCHANGED <<copies, uploaded, storeVars, etagVars, pc, clone, version, taskVars,
                 requested, emitted, saves, crashes, historyVars>>

MemoryExpires ==
  /\ "expiry" \in Events
  /\ memory # {}
  /\ memory' = {}
  /\ UNCHANGED <<serverVars, storeVars, sqlite, delta, pc, clone, version, taskVars,
                 requested, emitted, countVars, historyVars>>

(* run_delta_sync: the response may be old by the time it is applied.      *)
DeltaQuery ==
  /\ "delta" \in Events
  /\ delta = {}
  /\ sqlite # {server.etag}
  /\ delta' = {server.etag}
  /\ UNCHANGED <<serverVars, storeVars, memory, sqlite, pc, clone, version, taskVars,
                 requested, emitted, countVars, historyVars>>

DeltaApply ==
  /\ delta # {}
  /\ memory' = delta
  /\ sqlite' = delta
  /\ delta' = {}
  /\ UNCHANGED <<serverVars, storeVars, pc, clone, version, taskVars, requested,
                 emitted, countVars, historyVars>>

------------------------------------------------------------------------------
Writer(w) == Save(w) \/ Receive(w) \/ FlushTimesOut(w)

Persist(p) == PersistClone(p) \/ PersistWrite(p) \/ PersistRename(p)

Upload ==
  \/ StartQueued \/ ReadPending \/ CheckConflict \/ UploadConflictCopy
  \/ UploadContent \/ UploadLockedCopy \/ AnswerFlushes

Clear(p) == ClearBuffer(p) \/ RemoveFile(p)

World ==
  \/ Crash \/ RecoverRead \/ RecoverUpload
  \/ RemoteEdit \/ MemoryExpires \/ DeltaQuery \/ DeltaApply

Next ==
  \/ \E w \in Writers : Writer(w)
  \/ \E p \in Procs : Persist(p) \/ Clear(p)
  \/ Upload
  \/ World

Spec == Init /\ [][Next]_vars

------------------------------------------------------------------------------
(* Correctness.                                                            *)

(* The newest save whose write to the writeback cache succeeded, or a      *)
(* newer one, is on disk or has been taken by the server: no crash, failed *)
(* upload, lost answer, lock or removal of the pending file loses it.      *)
SavedContentSurvives ==
  safe > 0 => \E v \in safe..MaxSaves : v \in disk \cup uploaded

(* A save whose flush returned Ok is on the server, in the file or in a    *)
(* conflict copy, or a newer save is: the upload that answered the flush   *)
(* was not one that had read an older content.                             *)
ConfirmedIsUploaded ==
  \A v \in confirmed : \E u \in v..MaxSaves : u \in uploaded

(* No upload, retry or recovery puts an older save back over a newer one.  *)
ServerNeverGoesBack ==
  [][server.content > 0 /\ server'.content > 0 =>
       server'.content >= server.content]_vars

Conflict(v) == <<"ConflictDetected", v>>
Overwrites == server.content < 0 /\ server'.content > 0

(* An edit by somebody else that the overwriting save was not made from is *)
(* never replaced without a ConflictDetected event for that save.          *)
NoSilentOverwrite ==
  [][Overwrites /\ server.etag > base[server'.content] =>
       Conflict(server'.content) \in emitted']_vars

(* A ConflictDetected event is about an edit by somebody else.             *)
ConflictsAreReal ==
  [][\A v \in Saves : Conflict(v) \in emitted' \ emitted => server.content < 0]_vars
==============================================================================
