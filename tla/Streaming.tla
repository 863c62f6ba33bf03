------------------------------- MODULE Streaming -------------------------------
(***************************************************************************)
(* One handle of a large file while its content is still being downloaded: *)
(* StreamingBuffer, the download task of open_file, and read_handle,       *)
(* write_handle, release_file and mark_stale_by_ino of core_ops.rs on it.  *)
(*                                                                         *)
(* The handle is an entry of a DashMap: get holds a shared lock and        *)
(* get_mut, iter_mut and remove an exclusive one for as long as the caller *)
(* keeps the entry, waits for the download included.  The download and     *)
(* delta sync are tasks of one tokio runtime of Workers threads; a delta   *)
(* sync that waits for the lock keeps its thread.  Reads, writes and       *)
(* closes come on threads of their own.                                    *)
(*                                                                         *)
(* The i-th cell of the file holds i; 0 is a cell nobody filled, -1 one an *)
(* application wrote.  The server may send fewer or more cells than the    *)
(* metadata announced: the file was changed after get_item.                *)
(***************************************************************************)
EXTENDS Integers, Sequences, FiniteSets

CONSTANTS
  Callers,          (* threads of the file-system driver                    *)
  Syncs,            (* delta syncs that may run at once: loop and command   *)
  Workers,          (* threads of the runtime                               *)
  Total,            (* cells of the file, as get_item announced them        *)
  Sent,             (* cells the server may send instead                    *)
  ChunkSize,        (* STREAMING_CHUNK_SIZE, in cells                       *)
  Near,             (* RANDOM_ACCESS_THRESHOLD, in cells                    *)
  MaxRetries,       (* MAX_RETRIES of with_retry                            *)
  Ranges,           (* <<offset, size>> of the reads                        *)
  MaxCalls          (* bound of the model: calls altogether                 *)

None == -1

ASSUME StreamingConstants ==
  /\ {Total, ChunkSize, Workers} \subseteq Nat \ {0}
  /\ {Near, MaxRetries, MaxCalls} \subseteq Nat
  /\ Sent \subseteq Nat \ {0} /\ Sent # {}
  /\ Ranges \subseteq Nat \X (Nat \ {0})
  /\ Callers # {} /\ None \notin Callers

Hole == 0
Written == -1
Empty == << >>
Smaller(a, b) == IF a <= b THEN a ELSE b
MaxLen == CHOOSE n \in Sent \cup {Total} : \A k \in Sent \cup {Total} : k <= n
Keys == 0..((Total - 1) \div ChunkSize)

VARIABLES
  progress,   (* DownloadProgress: cells in order so far, "done", "failed"  *)
  chunks,     (* StreamingBuffer::chunks                                    *)
  task,       (* step of the download task                                  *)
  stream,     (* cells the server has of the file, and has sent             *)
  entry,      (* OpenFile::content of the handle, "closed" when removed     *)
  data,       (* the content once it is Complete                            *)
  stale, dirty,     (* flags of the OpenFile                                *)
  readers,    (* callers with a shared lock on the entry                    *)
  writer,     (* the caller with the exclusive one, or None                 *)
  call,       (* what each caller is in, and what its last read returned    *)
  sync,       (* step of each delta sync                                    *)
  disk,       (* contents the disk cache got from the task                  *)
  calls       (* calls so far                                               *)

buffer == <<progress, chunks>>
download == <<task, stream, disk>>
handle == <<entry, data, stale, dirty>>
lock == <<readers, writer>>
vars == <<buffer, download, handle, lock, call, sync, calls>>

Failed == [kind |-> "failed", n |-> 0]
Done == [kind |-> "done", n |-> 0]
InProgress(n) == [kind |-> "in_progress", n |-> n]
Idle == [pc |-> "idle", off |-> 0, size |-> 0, tries |-> 0, got |-> {}]

Init ==
  /\ progress = InProgress(0) /\ chunks = [k \in Keys |-> Empty]
  /\ task = "unspawned" /\ stream \in [len : Sent, sent : {0}] /\ disk = {}
  /\ entry = "none" /\ data = Empty /\ stale = FALSE /\ dirty = FALSE
  /\ readers = {} /\ writer = None
  /\ call = [c \in Callers |-> Idle] /\ sync = [d \in Syncs |-> "idle"]
  /\ calls = 0

-----------------------------------------------------------------------------
(* StreamingBuffer.                                                         *)

(* The chunks after append_chunk has stored count more cells at its         *)
(* frontier n: what exceeds the announced size is cut off.                  *)
Appended(n, count) ==
  LET end == Smaller(n + count, Total)
      Fill(k) ==
        LET first == k * ChunkSize
            last == Smaller(first + ChunkSize, end)
        IN IF last <= n \/ first >= end THEN chunks[k]
           ELSE [i \in 1..(last - first) |->
                   IF first + i > n THEN first + i
                   ELSE IF i <= Len(chunks[k]) THEN chunks[k][i] ELSE Hole]
  IN [k \in Keys |-> Fill(k)]

downloadedBytes ==
  CASE progress.kind = "in_progress" -> progress.n
    [] progress.kind = "done" -> Total
    [] OTHER -> 0

(* read_range: once the download is over, the buffer counts as full.        *)
ReadRange(off, size) ==
  LET downloaded == IF progress.kind = "in_progress" THEN progress.n ELSE Total
      end == Smaller(off + size, downloaded)
      At(pos) == LET chunk == chunks[pos \div ChunkSize]
                     i == (pos % ChunkSize) + 1
                 IN IF i <= Len(chunk) THEN chunk[i] ELSE Hole
  IN IF off >= end THEN Empty ELSE [i \in 1..(end - off) |-> At(off + i - 1)]

(* Mutants: a wait for the start of the range only, and one the end of a    *)
(* short stream does not end.                                               *)
RangeIsThereEarly(off, size) ==
  \/ progress.kind = "done"
  \/ progress.kind = "in_progress" /\ progress.n >= off
RangeIsThereInProgress(off, size) ==
  progress.kind = "in_progress" /\ progress.n >= off + size

(* wait_for_range: what ends the wait, with and without an error.           *)
RangeIsThere(off, size) ==
  \/ progress.kind = "done"
  \/ progress.kind = "in_progress" /\ progress.n >= off + size

WaitFails == progress.kind = "failed"

-----------------------------------------------------------------------------
(* The download task, which needs a free thread of the runtime to go on.    *)

Blocked == {d \in Syncs : sync[d] = "marking"}
WorkerFree == Cardinality(Blocked) < Workers

(* open_file of a large file: the buffer, the task and the handle.          *)
Open ==
  /\ entry = "none" /\ entry' = "streaming" /\ task' = "asking"
  /\ UNCHANGED <<buffer, stream, disk, data, stale, dirty, lock, call, sync, calls>>

TaskStep(from, to) ==
  /\ task = from /\ WorkerFree /\ task' = to
  /\ UNCHANGED <<handle, lock, call, sync, calls>>

TaskAsk == TaskStep("asking", "receiving") /\ UNCHANGED <<buffer, stream, disk>>

(* Mutants: a failed download stored like a finished one, and one that does *)
(* not tell the buffer.                                                     *)
TaskFailsStored ==
  /\ TaskStep("asking", "storing") \/ TaskStep("receiving", "storing")
  /\ progress' = Failed
  /\ UNCHANGED <<chunks, stream, disk>>
TaskFailsSilently ==
  /\ TaskStep("asking", "ended") \/ TaskStep("receiving", "ended")
  /\ UNCHANGED <<buffer, stream, disk>>

(* download_streaming is not retried; nor is a stream that breaks.          *)
TaskFails ==
  /\ TaskStep("asking", "ended") \/ TaskStep("receiving", "ended")
  /\ progress' = Failed
  /\ UNCHANGED <<chunks, stream, disk>>

TaskReceive == \E count \in 1..(stream.len - stream.sent) :
  /\ TaskStep("receiving", "receiving")
  /\ stream' = [stream EXCEPT !.sent = @ + count]
  /\ chunks' = Appended(progress.n, count)
  /\ progress' = InProgress(Smaller(progress.n + count, Total))
  /\ UNCHANGED disk

TaskDone ==
  /\ stream.sent = stream.len
  /\ TaskStep("receiving", "storing")
  /\ progress' = Done
  /\ UNCHANGED <<chunks, stream, disk>>

(* The disk cache may fail; the task then ends all the same.                *)
TaskStore ==
  /\ TaskStep("storing", "ended")
  /\ disk' \in {disk, {ReadRange(0, Total)}}
  /\ UNCHANGED <<buffer, stream>>

Aborted == IF task \in {"unspawned", "ended"} THEN task ELSE "aborted"

-----------------------------------------------------------------------------
(* read_handle.                                                             *)

Goto(c, pc) == call' = [call EXCEPT ![c].pc = pc]
Error(c) == call' = [call EXCEPT ![c] = Idle]
Release(c) == readers' = readers \ {c} /\ UNCHANGED writer

(* The answer keeps the range it was asked for.                             *)
Return(c, result) ==
  call' = [call EXCEPT ![c].pc = "idle", ![c].tries = 0, ![c].got = {result}]

Call(c, pc, range) ==
  /\ entry # "none" /\ calls < MaxCalls /\ calls' = calls + 1
  /\ call[c].pc = "idle"
  /\ call' = [call EXCEPT ![c] = [Idle EXCEPT !.pc = pc, !.off = range[1], !.size = range[2]]]
  /\ UNCHANGED <<buffer, download, handle, lock, sync>>

Read(c) == \E range \in Ranges : Call(c, "check", range)

ReadStep(c, from) ==
  /\ call[c].pc = from
  /\ UNCHANGED <<buffer, download, sync, calls>>

(* The first look at the entry: a stale handle is refreshed first.          *)
ReadCheck(c) ==
  /\ ReadStep(c, "check") /\ writer = None
  /\ CASE entry = "closed" -> Error(c)
       [] entry # "closed" /\ stale /\ ~dirty -> Goto(c, "refresh")
       [] OTHER -> Goto(c, "look")
  /\ UNCHANGED <<handle, lock>>

(* refresh_stale_handle, after read_content has downloaded the whole file.  *)
(* The buffer goes, its task goes on.                                       *)
ReadRefreshed(c) ==
  /\ ReadStep(c, "refresh") /\ writer = None /\ readers = {}
  /\ IF entry = "closed" THEN Error(c) /\ UNCHANGED <<entry, data, stale>>
     ELSE /\ Goto(c, "look")
          /\ IF stale
             THEN entry' = "complete" /\ data' = [i \in 1..stream.len |-> i] /\ stale' = FALSE
             ELSE UNCHANGED <<entry, data, stale>>
  /\ UNCHANGED <<dirty, lock>>

ReadRefreshFails(c) == ReadStep(c, "refresh") /\ Error(c) /\ UNCHANGED <<handle, lock>>

Slice(off, size) == SubSeq(data, off + 1, Smaller(off + size, Len(data)))

(* The second look: the entry stays locked unless the read is far ahead.    *)
ReadLook(c) ==
  LET off == call[c].off
      size == call[c].size
  IN /\ ReadStep(c, "look") /\ writer = None
     /\ CASE entry = "closed" -> Error(c) /\ UNCHANGED lock
          [] entry = "complete" -> Return(c, Slice(off, size)) /\ UNCHANGED lock
          [] entry = "streaming" /\ downloadedBytes < off + size /\ off > downloadedBytes + Near ->
               Goto(c, "range") /\ UNCHANGED lock
          [] OTHER -> /\ Goto(c, IF downloadedBytes >= off + size THEN "copy" ELSE "wait")
                      /\ readers' = readers \cup {c} /\ UNCHANGED writer
     /\ UNCHANGED handle

ReadWaited(c) ==
  /\ ReadStep(c, "wait")
  /\ IF WaitFails THEN Error(c) /\ Release(c)
     ELSE RangeIsThere(call[c].off, call[c].size) /\ Goto(c, "copy") /\ UNCHANGED lock
  /\ UNCHANGED handle

ReadCopy(c) ==
  /\ ReadStep(c, "copy")
  /\ Return(c, ReadRange(call[c].off, call[c].size)) /\ Release(c)
  /\ UNCHANGED handle

(* download_range: what the file has of the range on the server.  A range   *)
(* behind its end is refused, which is not tried again.                     *)
ServerRange(off, size) == [i \in 1..(Smaller(off + size, stream.len) - off) |-> off + i]

RangeAnswer(c) ==
  /\ ReadStep(c, "range") /\ call[c].off < stream.len
  /\ Return(c, ServerRange(call[c].off, call[c].size))
  /\ UNCHANGED <<handle, lock>>

(* with_retry: network errors, 429 and 5xx are tried again, network errors  *)
(* not while the offline flag is set, which others do at any time.          *)
RangeFails(c) == \E error \in {"network", "busy", "refused"}, offline \in BOOLEAN :
  /\ ReadStep(c, "range")
  /\ IF \/ error = "refused"
        \/ call[c].tries >= MaxRetries
        \/ error = "network" /\ offline
     THEN Error(c)
     ELSE call' = [call EXCEPT ![c].tries = @ + 1]
  /\ UNCHANGED <<handle, lock>>

-----------------------------------------------------------------------------
(* write_handle, release_file and delta sync.                               *)

(* ensure_complete holds the exclusive lock while it waits.                 *)
Write(c) == Call(c, "write", <<0, 1>>)

WriteLock(c) ==
  /\ ReadStep(c, "write") /\ writer = None /\ readers = {}
  /\ IF entry = "closed" THEN Error(c) /\ UNCHANGED writer
     ELSE Goto(c, "ensure") /\ writer' = c
  /\ UNCHANGED <<handle, readers>>

WriteFails(c) ==
  /\ ReadStep(c, "ensure") /\ entry = "streaming" /\ WaitFails
  /\ Error(c) /\ writer' = None
  /\ UNCHANGED <<handle, readers>>

(* The write goes to the first cell.  A streamed buffer is taken over and   *)
(* its task aborted, wherever it is.                                        *)
WriteApply(c) ==
  LET content == IF entry = "streaming" THEN ReadRange(0, Total) ELSE data
  IN /\ call[c].pc = "ensure"
     /\ entry = "streaming" => ~WaitFails /\ RangeIsThere(0, Total)
     /\ data' = [content EXCEPT ![1] = Written]
     /\ task' = IF entry = "streaming" THEN Aborted ELSE task
     /\ entry' = "complete" /\ dirty' = TRUE /\ writer' = None
     /\ Error(c)
     /\ UNCHANGED <<buffer, stream, disk, stale, readers, sync, calls>>

Close(c) == Call(c, "close", <<0, 0>>)

CloseApply(c) ==
  /\ call[c].pc = "close" /\ writer = None /\ readers = {}
  /\ entry' = "closed"
  /\ task' = IF entry = "streaming" THEN Aborted ELSE task
  /\ Error(c)
  /\ UNCHANGED <<buffer, stream, disk, data, stale, dirty, lock, sync, calls>>

(* A delta page names the file: mark_stale_by_ino waits for the lock.       *)
Sync(d) ==
  /\ entry # "none" /\ sync[d] = "idle" /\ WorkerFree
  /\ sync' = [sync EXCEPT ![d] = "marking"]
  /\ UNCHANGED <<buffer, download, handle, lock, call, calls>>

MarkStale(d) ==
  /\ sync[d] = "marking" /\ writer = None /\ readers = {}
  /\ stale' = IF entry = "closed" THEN stale ELSE TRUE
  /\ sync' = [sync EXCEPT ![d] = "marked"]
  /\ UNCHANGED <<buffer, download, entry, data, dirty, lock, call, calls>>

-----------------------------------------------------------------------------
TaskNext == TaskAsk \/ TaskFails \/ TaskReceive \/ TaskDone \/ TaskStore
CallStep(c) ==
  \/ ReadCheck(c) \/ ReadRefreshed(c) \/ ReadRefreshFails(c) \/ ReadLook(c) \/ ReadWaited(c)
  \/ ReadCopy(c) \/ RangeAnswer(c) \/ RangeFails(c)
  \/ WriteLock(c) \/ WriteFails(c) \/ WriteApply(c) \/ CloseApply(c)

Next ==
  \/ Open \/ TaskNext
  \/ \E c \in Callers : Read(c) \/ Write(c) \/ Close(c) \/ CallStep(c)
  \/ \E d \in Syncs : Sync(d) \/ MarkStale(d)

(* The server ends the stream and answers ranges, threads and the runtime   *)
(* go on, and a thread that waits for the lock gets it in the end.          *)
Fairness ==
  /\ WF_vars(TaskNext)
  /\ \A c \in Callers : SF_vars(CallStep(c))
  /\ \A d \in Syncs : SF_vars(MarkStale(d))

Spec == Init /\ [][Next]_vars
LiveSpec == Spec /\ Fairness

-----------------------------------------------------------------------------
(* Properties.                                                              *)

(* What a read returns is the file's content at the range asked for: every  *)
(* cell in its place, a hole only where the server had nothing to send, no  *)
(* more than was asked for, and no less than the file has of it.  (Writes   *)
(* go to the first cell.)                                                   *)
ServedIsStreamed == \A c \in Callers :
  \A bytes \in call[c].got :
    /\ Len(bytes) <= call[c].size
    /\ Len(bytes) >= Smaller(call[c].off + call[c].size, Smaller(Total, stream.len)) - call[c].off
    /\ \A i \in 1..Len(bytes) :
         \/ bytes[i] = call[c].off + i
         \/ bytes[i] = Hole /\ call[c].off + i > stream.len
         \/ bytes[i] = Written /\ call[c].off + i = 1

(* The disk cache, which serves the content again after a restart, never    *)
(* gets a download that broke off or that a write has changed: what the     *)
(* task stores is all the server sent.                                      *)
StoredIsWhole ==
  \A content \in disk : content = [i \in 1..Total |-> IF i <= stream.len THEN i ELSE Hole]

(* Every call comes back, whatever waits for the download under the lock:   *)
(* the stream's end, its failure and its abortion all end the wait.         *)
CallsReturn == \A c \in Callers : call[c].pc # "idle" ~> call[c].pc = "idle"

(* Delta sync gets past a handle that is being read or written.             *)
SyncsGoOn == \A d \in Syncs : sync[d] = "marking" ~> sync[d] = "marked"
=============================================================================
