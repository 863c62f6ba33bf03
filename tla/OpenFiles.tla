------------------------------- MODULE OpenFiles -------------------------------
(***************************************************************************)
(* The open handles of one file: OpenFileTable and the handle operations   *)
(* of CoreOps (core_ops.rs) behind the WinFsp callbacks open, create,      *)
(* read, write, overwrite, set_file_size, flush, cleanup and close of      *)
(* winfsp_fs.rs, next to delta sync, which marks handles stale, and the    *)
(* upload of what a flush saved.                                           *)
(*                                                                         *)
(* Every handle has a private buffer.  A content is a short sequence of    *)
(* cells, a cell naming who wrote it: k > 0 the k-th write of an           *)
(* application, -k the k-th revision others made on the server, 0 a fill   *)
(* by resize.  Where the bytes of an open come from (disk cache, download, *)
(* offline) is ContentCache, how a large download arrives is Streaming,    *)
(* what an upload does step by step is UploadPipeline.                     *)
(*                                                                         *)
(* The file-system driver (outside the repository) runs reads of a file    *)
(* next to each other and every other operation of it, open and close      *)
(* excepted, alone: Shared and Alone.                                      *)
(***************************************************************************)
EXTENDS Integers, Sequences, FiniteSets

CONSTANTS
  Handles,     (* the handles that get opened; insert never reuses one      *)
  MaxLen,      (* bounds of the model: cells of a content, ...              *)
  MaxChanges,  (* ... writes, resizes and edits by others together, ...     *)
  Lengths      (* ... and how long the contents others write are            *)

ASSUME OpenFilesConstants ==
  /\ {MaxLen, MaxChanges} \subseteq Nat
  /\ Lengths \subseteq 0..MaxLen

Cells == -(MaxChanges + 1)..MaxChanges
Contents == UNION {[1..n -> Cells] : n \in 0..MaxLen}
None == -1
Sizes == None..MaxLen
Calls == {"unopened", "closed", "idle", "reading", "flush", "overwrite", "overwriting", "cleanup", "cleaned"}

VARIABLES
  server,     (* content of the file on the server, {} before its upload    *)
  writeback,  (* content WriteBackBuffer holds for the file, or {}          *)
  requested,  (* the sync processor has the file in its queue               *)
  uploading,  (* content of the upload under way, or {}                     *)
  changed,    (* the next delta reports another eTag for the file           *)
  open,       (* handles in OpenFileTable::files                            *)
  file,       (* OpenFile of each of them                                   *)
  call,       (* the call that runs on each handle                          *)
  fetched,    (* content a refresh of the handle has read                   *)
  answer,     (* what the sync processor told a waiting flush, or {}        *)
  edits, remotes,   (* writes and resizes, and edits by others, so far      *)
  (* history, which no action reads                                         *)
  unsaved,    (* the writes of each handle a flush has not confirmed        *)
  meant,      (* what the handle's operations make of the file it opened,   *)
              (* {} once something else came in between                     *)
  intended    (* what the last save meant to save                           *)

storeVars == <<server, writeback, requested, uploading, changed>>
history == <<unsaved, meant, intended>>
counts == <<edits, remotes>>
vars == <<storeVars, open, file, call, fetched, answer, counts, history>>

------------------------------------------------------------------------------
(* Contents *)

Shorter(m, n) == IF m < n THEN m ELSE n
Longer(m, n) == IF m < n THEN n ELSE m
Cell(s, i) == IF i \in DOMAIN s THEN s[i] ELSE 0
Resize(s, n) == [i \in 1..n |-> Cell(s, i)]
Cut(s, n) == SubSeq(s, 1, Shorter(Len(s), n))
Put(s, i, v) == [j \in 1..Longer(Len(s), i) |-> IF j = i THEN v ELSE Cell(s, j)]
Revision(k, n) == [i \in 1..n |-> -(k + 1)]

(* Mutant: the whole buffer is saved.                                      *)
SavedUncut(f) == f.content

(* What flush_handle and release_file save: the buffer up to logical_size. *)
Saved(f) == IF f.logical_size = None THEN f.content ELSE Cut(f.content, f.logical_size)
(* get_content_size_by_ino, for the handle it finds.                       *)
ContentSize(f) == IF f.logical_size = None THEN Len(f.content) ELSE f.logical_size

Fresh(state, s) ==
  [state |-> state, content |-> s, dirty |-> FALSE, stale |-> FALSE, logical_size |-> None]

NoWrites == [i \in 1..MaxLen |-> 0]

Init ==
  /\ server \in {{}} \cup {{Revision(0, n)} : n \in Lengths}
  /\ writeback = {} /\ uploading = {}
  /\ requested = FALSE /\ changed = FALSE
  /\ open = {}
  /\ file = [h \in Handles |-> Fresh("complete", <<>>)]
  /\ call = [h \in Handles |-> "unopened"]
  /\ fetched = [h \in Handles |-> {}]
  /\ answer = [h \in Handles |-> {}]
  /\ edits = 0 /\ remotes = 0
  /\ unsaved = [h \in Handles |-> NoWrites]
  /\ meant = [h \in Handles |-> {}]
  /\ intended = {}

Waiting == {h \in open : call[h] \in {"flush", "overwrite", "cleanup"}}
Shared == \A h \in open : call[h] \in {"idle", "reading", "cleaned"}
Alone == \A h \in open : call[h] \in {"idle", "cleaned"}
Idle(h) == h \in open /\ call[h] = "idle"

(* ensure_complete: waits until the download has come, fails when it has   *)
(* failed; then the caller returns its error and nothing has changed.      *)
Arrived(h) == file[h].state \in {"complete", "arrived"}
Complete(f) == [f EXCEPT !.state = "complete"]

------------------------------------------------------------------------------
(* open, create, and the download of a large file *)

Insert(h, state, s) ==
  /\ call[h] = "unopened"
  /\ open' = open \cup {h}
  /\ call' = [call EXCEPT ![h] = "idle"]
  /\ file' = [file EXCEPT ![h] = Fresh(state, s)]
  /\ unsaved' = [unsaved EXCEPT ![h] = NoWrites]
  /\ meant' = [meant EXCEPT ![h] = {s}]
  /\ UNCHANGED <<storeVars, fetched, answer, counts, intended>>

(* create_file: the first handle of a file that only exists here.          *)
Create(h) ==
  /\ server = {} /\ writeback = {} /\ uploading = {} /\ open = {} /\ edits = 0
  /\ Insert(h, "complete", <<>>)

(* open_file of a file with a local: id: the buffer of an open handle, or  *)
(* the saved content.                                                      *)
OpenLocal(h) ==
  /\ server = {}
  /\ \/ \E g \in open : Insert(h, "complete", file[g].content)
     \/ open = {} /\ \E s \in writeback : Insert(h, "complete", s)

(* open_file: a pending save first, then the server's content, which a     *)
(* large file streams.                                                     *)
OpenRemote(h) ==
  /\ server # {}
  /\ IF writeback # {}
       THEN \E s \in writeback : Insert(h, "complete", s)
       ELSE \E s \in server, state \in {"complete", "streaming"} : Insert(h, state, s)

StreamEnds(h) ==
  /\ h \in open /\ file[h].state = "streaming"
  /\ \E state \in {"arrived", "failed"} : file' = [file EXCEPT ![h].state = state]
  /\ UNCHANGED <<storeVars, open, call, fetched, answer, counts, history>>

------------------------------------------------------------------------------
(* read *)

(* read_content, for a refresh.                                            *)
Fetch(h) ==
  /\ Idle(h) /\ Shared
  /\ fetched' = [fetched EXCEPT ![h] = IF writeback # {} THEN writeback ELSE server]
  /\ call' = [call EXCEPT ![h] = "reading"]
  /\ UNCHANGED <<storeVars, open, file, answer, counts, history>>

(* Mutant: dirty handles are refreshed as well.                            *)
ReadStaleDirty(h) == file[h].stale /\ Fetch(h)

(* read_handle finds the handle stale and not dirty.                       *)
ReadStale(h) == file[h].stale /\ ~file[h].dirty /\ Fetch(h)

(* The rest of refresh_stale_handle, or the download has failed.           *)
ReadRefresh(h) ==
  /\ h \in open /\ call[h] = "reading"
  /\ call' = [call EXCEPT ![h] = "idle"]
  /\ \/ /\ file[h].stale
        /\ \E s \in fetched[h] :
             file' = [file EXCEPT ![h].state = "complete",
                                  ![h].content = s, ![h].stale = FALSE]
        /\ meant' = [meant EXCEPT ![h] =
             {s \in fetched[h] : file[h].logical_size \in {None, Len(s)}}]
     \/ UNCHANGED <<file, meant>>
  /\ fetched' = [fetched EXCEPT ![h] = {}]
  /\ UNCHANGED <<storeVars, open, answer, counts, unsaved, intended>>

------------------------------------------------------------------------------
(* write *)

(* Mutants: logical_size stays what the truncation set; the download may   *)
(* still be streaming.                                                     *)
WrittenToKeepsSize(f, i, v) ==
  [Complete(f) EXCEPT !.content = Put(f.content, i, v), !.dirty = TRUE]
WrittenToStreaming(f, i, v) ==
  [f EXCEPT !.content = Put(f.content, i, v), !.dirty = TRUE,
     !.logical_size = IF @ = None THEN None ELSE Longer(@, i)]

(* write_handle at cell i; a set logical_size grows with the write.        *)
WrittenTo(f, i, v) ==
  [Complete(f) EXCEPT !.content = Put(f.content, i, v), !.dirty = TRUE,
     !.logical_size = IF @ = None THEN None ELSE Longer(@, i)]

Edit ==
  /\ edits + remotes < MaxChanges
  /\ edits' = edits + 1

WriteAt(h, i) ==
  /\ Edit
  /\ file' = [file EXCEPT ![h] = WrittenTo(@, i, edits + 1)]
  /\ unsaved' = [unsaved EXCEPT ![h][i] = edits + 1]
  /\ UNCHANGED <<storeVars, open, call, fetched, answer, remotes, intended>>

Write(h, i) ==
  /\ Idle(h) /\ Alone /\ Arrived(h)
  /\ WriteAt(h, i)
  /\ meant' = [meant EXCEPT ![h] = {Put(s, i, edits + 1) : s \in @}]

(* write_to_eof: the end of the file is that of the first handle found.    *)
AppendTo(h) ==
  /\ Idle(h) /\ Alone /\ Arrived(h)
  /\ \E g \in open :
       /\ ContentSize(file[g]) < MaxLen
       /\ \A s \in meant[h] : Len(s) < MaxLen
       /\ WriteAt(h, ContentSize(file[g]) + 1)
       /\ meant' = [meant EXCEPT ![h] =
            {Put(s, Len(s) + 1, edits + 1) : s \in IF g = h THEN @ ELSE {}}]

------------------------------------------------------------------------------
(* set_file_size *)

(* truncate(ino, n) for handle h: it resizes the first handle found.       *)
TruncateFor(h, n) ==
  /\ Edit
  /\ \E g \in open :
    /\ Arrived(g)
    /\ file' = [file EXCEPT ![g] =
         [Complete(file[g]) EXCEPT !.content = Resize(@, n), !.dirty = TRUE, !.logical_size = n]]
    /\ unsaved' = [unsaved EXCEPT ![g] = [i \in 1..MaxLen |-> IF i > n THEN 0 ELSE @[i]]]
    /\ meant' = [x \in Handles |->
         IF g = h /\ x = h THEN {Resize(s, n) : s \in meant[h]}
         ELSE IF x \in {g, h} THEN {} ELSE meant[x]]

Truncate(h, n) ==
  /\ Idle(h) /\ Alone
  /\ TruncateFor(h, n)
  /\ UNCHANGED <<storeVars, open, call, fetched, answer, remotes, intended>>

(* ensure_buffer_capacity, for a new allocation size.                      *)
Allocate(h, n) ==
  /\ Idle(h) /\ Alone
  /\ Edit
  /\ \E g \in open :
       /\ Arrived(g)
       /\ LET f == file[g] IN
          /\ file' = [file EXCEPT ![g] =
               [Complete(f) EXCEPT !.content = Resize(@, Longer(Len(@), n))]]
          /\ meant' = [meant EXCEPT ![g] = 
               IF f.logical_size = None /\ Len(f.content) < n THEN {} ELSE @]
  /\ UNCHANGED <<storeVars, open, call, fetched, answer, remotes, unsaved, intended>>

------------------------------------------------------------------------------
(* flush, overwrite, cleanup, close *)

Meant(h) == IF meant[h] # {} THEN meant[h] ELSE {Saved(file[h])}

(* flush_handle of a dirty handle: the save, and the request to upload it. *)
(* overwrite flushes first when delta sync has marked the file.            *)
FlushSave(h) ==
  /\ Idle(h) /\ Alone
  /\ file[h].dirty
  /\ writeback' = {Saved(file[h])}
  /\ intended' = Meant(h)
  /\ requested' = TRUE
  /\ \E c \in {"flush", "overwrite", "cleanup"} : call' = [call EXCEPT ![h] = c]
  /\ answer' = [answer EXCEPT ![h] = {}]
  /\ UNCHANGED <<server, uploading, changed, open, file, fetched, counts,
                 unsaved, meant>>

Then(h) ==
  [call EXCEPT ![h] = CASE @ = "flush" -> "idle"
                        [] @ = "overwrite" -> "overwriting"
                        [] @ = "cleanup" -> "cleaned"]

(* The queue says TRUE.                                                    *)
FlushDone(h) ==
  /\ h \in Waiting /\ TRUE \in answer[h]
  /\ file' = [file EXCEPT ![h].dirty = FALSE]
  /\ unsaved' = [unsaved EXCEPT ![h] = NoWrites]
  /\ call' = Then(h)
  /\ answer' = [answer EXCEPT ![h] = {}]
  /\ UNCHANGED <<storeVars, open, fetched, counts, meant, intended>>

(* The queue says FALSE or has closed, or 60 seconds are over.             *)
FlushFails(h) ==
  /\ h \in Waiting
  /\ call' = Then(h)
  /\ answer' = [answer EXCEPT ![h] = {}]
  /\ UNCHANGED <<storeVars, open, file, fetched, counts, history>>

(* overwrite, at once or after its flush, whatever that returned.          *)
Overwrite(h) ==
  /\ \/ Idle(h) /\ Alone
     \/ h \in open /\ call[h] = "overwriting"
  /\ TruncateFor(h, 0)
  /\ call' = [call EXCEPT ![h] = "idle"]
  /\ UNCHANGED <<storeVars, open, fetched, answer, remotes, intended>>

(* cleanup of a handle that is not dirty, or whose save failed on disk.    *)
CleanupAtOnce(h) ==
  /\ Idle(h) /\ Alone
  /\ call' = [call EXCEPT ![h] = "cleaned"]
  /\ UNCHANGED <<storeVars, open, file, fetched, answer, counts, history>>

(* release_file: what is still dirty is saved, and nobody is told.         *)
Close(h) ==
  /\ h \in open /\ call[h] = "cleaned"
  /\ open' = open \ {h}
  /\ call' = [call EXCEPT ![h] = "closed"]
  /\ file' = [file EXCEPT ![h] = Fresh("complete", <<>>)]
  /\ meant' = [meant EXCEPT ![h] = {}]
  /\ unsaved' = [unsaved EXCEPT ![h] = NoWrites]
  /\ IF file[h].dirty
       THEN /\ writeback' = {Saved(file[h])}
            /\ intended' = Meant(h)
       ELSE UNCHANGED <<writeback, intended>>
  /\ UNCHANGED <<server, requested, uploading, changed, fetched, answer, counts>>

------------------------------------------------------------------------------
(* The sync processor, the server and delta sync *)

Answer(b) == answer' = [h \in Handles |-> IF h \in Waiting THEN {b} ELSE answer[h]]

(* flush_inode_async reads the pending content; without one it is done.    *)
UploadStarts ==
  /\ requested /\ uploading = {}
  /\ requested' = FALSE
  /\ uploading' = writeback
  /\ IF writeback = {} THEN Answer(TRUE) ELSE UNCHANGED answer
  /\ UNCHANGED <<server, writeback, changed, open, file, call, fetched, counts, history>>

(* The server has it; the entry goes, and the eTag is new to SQLite.       *)
UploadEnds ==
  /\ uploading # {}
  /\ server' = uploading
  /\ uploading' = {} /\ writeback' = {} /\ intended' = {}
  /\ changed' = TRUE
  /\ Answer(TRUE)
  /\ UNCHANGED <<requested, open, file, call, fetched, counts, unsaved, meant>>

UploadFails ==
  /\ uploading # {}
  /\ uploading' = {}
  /\ requested' = TRUE
  /\ Answer(FALSE)
  /\ UNCHANGED <<server, writeback, changed, open, file, call, fetched, counts, history>>

(* Another user replaces the file by a content of any length.              *)
RemoteEdit ==
  /\ server # {} /\ edits + remotes < MaxChanges
  /\ remotes' = remotes + 1
  /\ \E n \in Lengths : server' = {Revision(remotes + 1, n)}
  /\ changed' = TRUE
  /\ UNCHANGED <<writeback, requested, uploading, open, file, call, fetched,
                 answer, edits, history>>

(* mark_stale_by_ino, for every open handle of the file.                   *)
MarkStale ==
  /\ changed
  /\ changed' = FALSE
  /\ file' = [h \in Handles |-> IF h \in open THEN [file[h] EXCEPT !.stale = TRUE] ELSE file[h]]
  /\ UNCHANGED <<server, writeback, requested, uploading, open, call, fetched,
                 answer, counts, history>>

------------------------------------------------------------------------------

HandleStep(h) ==
  \/ Create(h) \/ OpenLocal(h) \/ OpenRemote(h) \/ StreamEnds(h)
  \/ ReadStale(h) \/ ReadRefresh(h)
  \/ \E i \in 1..MaxLen : Write(h, i)
  \/ AppendTo(h)
  \/ \E n \in 0..MaxLen : Truncate(h, n) \/ Allocate(h, n)
  \/ FlushSave(h) \/ FlushDone(h) \/ FlushFails(h) \/ Overwrite(h)
  \/ CleanupAtOnce(h) \/ Close(h)

Next ==
  \/ \E h \in Handles : HandleStep(h)
  \/ UploadStarts \/ UploadEnds \/ UploadFails
  \/ RemoteEdit \/ MarkStale

Spec == Init /\ [][Next]_vars

------------------------------------------------------------------------------

OpenFile ==
  [state : {"complete", "streaming", "arrived", "failed"}, content : Contents,
   dirty : BOOLEAN, stale : BOOLEAN, logical_size : Sizes]

(* Types of the handle table and of what surrounds it; a dirty handle is   *)
(* complete, which flush_handle and release_file take for granted.         *)
TypeOK ==
  /\ {server, writeback, uploading} \subseteq SUBSET Contents
  /\ requested \in BOOLEAN /\ changed \in BOOLEAN
  /\ open \subseteq Handles
  /\ file \in [Handles -> OpenFile]
  /\ call \in [Handles -> Calls]
  /\ fetched \in [Handles -> SUBSET Contents]
  /\ answer \in [Handles -> SUBSET BOOLEAN]
  /\ {edits, remotes, edits + remotes} \subseteq 0..MaxChanges
  /\ \A h \in open : file[h].dirty => file[h].state = "complete"

(* A write no flush has confirmed is in the buffer of its handle, within   *)
(* the size a save keeps, and the handle is dirty, so that the close saves *)
(* it: refreshes, failed and timed out flushes, truncations, streams and   *)
(* stale marks in between notwithstanding.                                 *)
UnsavedWritesKept ==
  \A h \in open : \A i \in 1..MaxLen :
    unsaved[h][i] # 0 =>
      /\ file[h].dirty
      /\ Cell(Saved(file[h]), i) = unsaved[h][i]

(* What a handle would save is what its operations make of the file it     *)
(* opened or was last refreshed to, as long as none of them acted on the   *)
(* size or buffer of another handle, no allocation went past the end of a  *)
(* file whose size was not set, and no refresh met another size set before *)
(* (what happens then is in the README).                                   *)
BufferIsTheFile ==
  \A h \in open : meant[h] \subseteq {Saved(file[h])}

(* What waits for upload is what its handle meant when it saved last,      *)
(* whether a flush or a close saved it.                                    *)
SavesAreMeant == writeback = intended

==============================================================================
