---------------------------- MODULE StreamingProofs ----------------------------
(***************************************************************************)
(* Proofs about Streaming: what a read of a half-downloaded file returns   *)
(* and what the disk cache is given of it, for any sizes of file, chunk    *)
(* and stream, any reads, and any number of threads and delta syncs.       *)
(***************************************************************************)
EXTENDS Streaming, TLAPS

(* Cells of the file the buffer has, and those of them in its k-th chunk.  *)
Frontier == Smaller(stream.sent, Total)
InChunk(k, n) ==
  IF n <= k * ChunkSize THEN 0 ELSE Smaller(ChunkSize, n - k * ChunkSize)

Steps == {"idle", "check", "refresh", "look", "wait", "copy", "range", "write", "ensure", "close"}
Calls == [pc : Steps, off : Nat, size : Nat, tries : Nat, got : SUBSET Seq(Int)]
Shapes ==
  /\ stream \in [len : Sent, sent : Nat]
  /\ chunks \in [Keys -> Seq(Int)]
  /\ call \in [Callers -> Calls]
  /\ entry \in {"none", "streaming", "complete", "closed"}

(* Until the download fails the buffer's progress is what the stream sent. *)
StreamInv ==
  /\ stream.sent <= stream.len
  /\ \/ progress = InProgress(Frontier)
     \/ progress = Done /\ stream.sent = stream.len
     \/ progress = Failed
  /\ task \in {"unspawned", "asking", "receiving"} => progress = InProgress(Frontier)
  /\ task = "storing" => progress = Done
  /\ entry = "none" => task = "unspawned"

(* Every chunk is filled to the frontier, and with its own cells.          *)
ChunksInv == \A k \in Keys :
  /\ Len(chunks[k]) = InChunk(k, Frontier)
  /\ \A i \in 1..InChunk(k, Frontier) : chunks[k][i] = k * ChunkSize + i

(* A caller that copies has its range behind the frontier for good, and    *)
(* one that completes the buffer for a write holds the exclusive lock.     *)
CallsInv == \A c \in Callers :
  /\ call[c].pc # "idle" => entry # "none"
  /\ call[c].pc = "copy" => progress = Done \/ call[c].off + call[c].size <= Frontier
  /\ call[c].pc = "ensure" => writer = c /\ entry \in {"streaming", "complete"}

(* A cell a reader may see at position i of a file of len cells.           *)
Good(i, cell, len) == cell = i \/ (cell = Hole /\ i > len) \/ (cell = Written /\ i = 1)

DataInv == entry = "complete" =>
  /\ data \in Seq(Int)
  /\ Len(data) >= Smaller(Total, stream.len)
  /\ \A i \in 1..Len(data) : Good(i, data[i], stream.len)

(* ServedIsStreamed of one answer to one range.                            *)
Serves(bytes, off, size, len) ==
  /\ Len(bytes) <= size
  /\ Len(bytes) >= Smaller(off + size, Smaller(Total, len)) - off
  /\ \A i \in 1..Len(bytes) : Good(off + i, bytes[i], len)

Inv ==
  Shapes /\ StreamInv /\ ChunksInv /\ CallsInv /\ DataInv /\ ServedIsStreamed /\ StoredIsWhole

-----------------------------------------------------------------------------
(* Positions and chunks.                                                   *)
LEMMA DivMod ==
  ASSUME NEW a \in Nat, NEW m \in Nat \ {0}
  PROVE  a \div m \in Nat /\ a % m \in 0..(m - 1) /\ a = (a \div m) * m + (a % m)
OBVIOUS

LEMMA DivMonotone ==
  ASSUME NEW a \in Nat, NEW b \in Nat, a <= b, NEW m \in Nat \ {0}
  PROVE  a \div m <= b \div m
BY DivMod

LEMMA KeyOfPosition ==
  ASSUME StreamingConstants, NEW pos \in Nat, pos < Total
  PROVE  pos \div ChunkSize \in Keys
<1>1. pos <= Total - 1 /\ Total - 1 \in Nat
  BY DEF StreamingConstants
<1>2. ChunkSize \in Nat \ {0}
  BY DEF StreamingConstants
<1>3. pos \div ChunkSize \in Nat /\ (Total - 1) \div ChunkSize \in Nat
  BY <1>1, <1>2, DivMod
<1>4. pos \div ChunkSize <= (Total - 1) \div ChunkSize
  BY <1>1, <1>2, DivMonotone
<1> QED BY <1>3, <1>4 DEF Keys

(* The cell of a position: filled behind the frontier, a hole after it.    *)
LEMMA CellAt ==
  ASSUME StreamingConstants, Shapes, ChunksInv, NEW pos \in Nat, pos < Total,
         NEW chunk, chunk = chunks[pos \div ChunkSize],
         NEW i, i = (pos % ChunkSize) + 1
  PROVE  (IF i <= Len(chunk) THEN chunk[i] ELSE Hole)
           = IF pos < Frontier THEN pos + 1 ELSE Hole
<1> DEFINE k == pos \div ChunkSize
           first == k * ChunkSize
<1>1. k \in Keys /\ k \in Nat
  BY KeyOfPosition, DivMod DEF StreamingConstants
<1>2. first \in Nat /\ i \in 1..ChunkSize /\ pos = first + (i - 1)
  <2>1. ChunkSize \in Nat \ {0}
    BY DEF StreamingConstants
  <2>2. pos % ChunkSize \in 0..(ChunkSize - 1) /\ pos = first + (pos % ChunkSize)
    BY <2>1, DivMod
  <2>3. first \in Nat
    BY <2>1, <1>1
  <2> HIDE DEF first, k
  <2> QED BY <2>1, <2>2, <2>3
<1>3. Frontier \in Nat /\ ChunkSize \in Nat
  BY DEF Shapes, StreamingConstants, Frontier, Smaller
<1>4. Len(chunk) = InChunk(k, Frontier)
      /\ \A j \in 1..InChunk(k, Frontier) : chunk[j] = first + j
  BY <1>1 DEF ChunksInv
<1>5. InChunk(k, Frontier)
        = IF Frontier <= first THEN 0 ELSE Smaller(ChunkSize, Frontier - first)
  BY DEF InChunk
<1> HIDE DEF k, first
<1>6. CASE pos < Frontier
  <2>1. i <= InChunk(k, Frontier) /\ i \in 1..InChunk(k, Frontier)
    BY <1>2, <1>3, <1>5, <1>6 DEF Smaller
  <2>2. chunk[i] = first + i
    BY <1>4, <2>1
  <2>3. first + i = pos + 1
    BY <1>2
  <2>4. i <= Len(chunk)
    BY <1>4, <2>1
  <2>5. chunk[i] = pos + 1
    BY <2>2, <2>3
  <2> HIDE DEF k
  <2> QED BY <1>6, <2>4, <2>5
<1>7. CASE ~(pos < Frontier)
  <2>1. ~(i <= InChunk(k, Frontier))
    BY <1>2, <1>3, <1>5, <1>7 DEF Smaller
  <2> QED BY <1>4, <1>7, <2>1
<1> QED BY <1>6, <1>7

Downloaded == IF progress.kind = "in_progress" THEN progress.n ELSE Total

(* What read_range returns.                                                *)
LEMMA RangeRead ==
  ASSUME StreamingConstants, Shapes, StreamInv, ChunksInv, NEW off \in Nat, NEW size \in Nat,
         NEW end, end = Smaller(off + size, Downloaded)
  PROVE  /\ end \in Nat
         /\ ReadRange(off, size) =
              IF off >= end THEN Empty
              ELSE [i \in 1..(end - off) |-> IF off + i <= Frontier THEN off + i ELSE Hole]
<1>1. Downloaded \in Nat /\ Downloaded <= Total /\ Frontier \in Nat
  BY DEF Downloaded, StreamInv, Shapes, StreamingConstants, Frontier, Smaller,
         InProgress, Done, Failed
<1>2. end \in Nat /\ end <= Total /\ end <= off + size
  BY <1>1 DEF Smaller, StreamingConstants
<1> DEFINE At(pos) == LET chunk == chunks[pos \div ChunkSize]
                          i == (pos % ChunkSize) + 1
                      IN IF i <= Len(chunk) THEN chunk[i] ELSE Hole
<1>3. ASSUME NEW i \in 1..(end - off)
      PROVE  At(off + i - 1) = IF off + i <= Frontier THEN off + i ELSE Hole
  <2> DEFINE pos == off + i - 1
  <2>1. pos \in Nat /\ pos < Total
    BY <1>2 DEF StreamingConstants
  <2>2. At(pos) = IF pos < Frontier THEN pos + 1 ELSE Hole
    <3> HIDE DEF pos
    <3> QED BY <2>1, CellAt
  <2>3. (pos < Frontier) = (off + i <= Frontier) /\ pos + 1 = off + i
    BY <1>1, <1>2
  <2> QED BY <2>2, <2>3
<1>4. ReadRange(off, size) =
        IF off >= end THEN Empty ELSE [i \in 1..(end - off) |-> At(off + i - 1)]
  BY DEF ReadRange, Downloaded
<1> HIDE DEF At
<1> QED BY <1>2, <1>3, <1>4

(* append_chunk fills the chunks from the old frontier to the new one.     *)
LEMMA AppendedFills ==
  ASSUME StreamingConstants, Shapes, ChunksInv, NEW count \in Nat,
         NEW n, n = Frontier, NEW end, end = Smaller(n + count, Total), NEW k \in Keys
  PROVE  /\ Appended(n, count)[k] \in Seq(Int)
         /\ Len(Appended(n, count)[k]) = InChunk(k, end)
         /\ \A i \in 1..InChunk(k, end) : Appended(n, count)[k][i] = k * ChunkSize + i
<1> DEFINE first == k * ChunkSize
           last == Smaller(first + ChunkSize, end)
           new == Appended(n, count)[k]
<1>1. k \in Nat /\ ChunkSize \in Nat \ {0} /\ Total \in Nat
  BY DEF Keys, StreamingConstants
<1>2. first \in Nat
  BY <1>1
<1>3. n \in Nat /\ end \in Nat /\ n <= end
  BY <1>1 DEF Shapes, StreamingConstants, Frontier, Smaller
<1>4. last \in Nat /\ last = IF first + ChunkSize <= end THEN first + ChunkSize ELSE end
  BY <1>1, <1>2, <1>3 DEF Smaller
<1>5. /\ chunks[k] \in Seq(Int) /\ Len(chunks[k]) = InChunk(k, n)
      /\ \A i \in 1..InChunk(k, n) : chunks[k][i] = first + i
  BY DEF Shapes, ChunksInv
<1>6. /\ InChunk(k, n) = IF n <= first THEN 0 ELSE Smaller(ChunkSize, n - first)
      /\ InChunk(k, end) = IF end <= first THEN 0 ELSE Smaller(ChunkSize, end - first)
  BY DEF InChunk
<1>7. new = IF last <= n \/ first >= end THEN chunks[k]
            ELSE [i \in 1..(last - first) |->
                    IF first + i > n THEN first + i
                    ELSE IF i <= Len(chunks[k]) THEN chunks[k][i] ELSE Hole]
  BY DEF Appended
<1> HIDE DEF first, last, new
<1>8. CASE last <= n \/ first >= end
  <2>1. InChunk(k, end) = InChunk(k, n)
    BY <1>1, <1>2, <1>3, <1>4, <1>6, <1>8 DEF Smaller
  <2>2. new = chunks[k]
    BY <1>7, <1>8
  <2> QED BY <1>5, <2>1, <2>2 DEF first, new
<1>9. CASE ~(last <= n \/ first >= end)
  <2>1. InChunk(k, end) = last - first /\ last - first \in Nat
    BY <1>1, <1>2, <1>3, <1>4, <1>6, <1>9 DEF Smaller
  <2>2. ASSUME NEW i \in 1..(last - first)
        PROVE  (IF first + i > n THEN first + i
                ELSE IF i <= Len(chunks[k]) THEN chunks[k][i] ELSE Hole) = first + i
    <3>1. CASE first + i > n
      BY <3>1
    <3>2. CASE ~(first + i > n)
      <4>1. i \in 1..InChunk(k, n)
        BY <1>1, <1>2, <1>3, <1>4, <1>6, <3>2, <2>1 DEF Smaller
      <4>2. i <= Len(chunks[k]) /\ chunks[k][i] = first + i
        BY <4>1, <1>5
      <4> QED BY <3>2, <4>2
    <3> QED BY <3>1, <3>2
  <2>3. new = [i \in 1..(last - first) |-> first + i]
    BY <1>7, <1>9, <2>2
  <2>4. new \in Seq(Int) /\ Len(new) = last - first
        /\ \A i \in 1..(last - first) : new[i] = first + i
    <3> DEFINE width == last - first
    <3>1. width \in Nat /\ new = [i \in 1..width |-> first + i]
      BY <2>1, <2>3
    <3> HIDE DEF width
    <3>2. \A i \in 1..width : first + i \in Int
      BY <1>2, <3>1
    <3>3. new \in [1..width -> Int] /\ \A i \in 1..width : new[i] = first + i
      BY <3>1, <3>2
    <3>4. new \in Seq(Int) /\ Len(new) = width
      BY <3>1, <3>3
    <3> QED BY <3>3, <3>4 DEF width
  <2> QED BY <2>1, <2>4 DEF first, new
<1> QED BY <1>8, <1>9

-----------------------------------------------------------------------------
(* The download.                                                           *)

(* Only the download's own steps touch the buffer; the others start, stop  *)
(* or leave the task.                                                      *)
LEMMA BufferSteps ==
  ASSUME Next
  PROVE  \/ TaskFails \/ TaskReceive \/ TaskDone
         \/ /\ UNCHANGED <<progress, chunks, stream>>
            /\ \/ task' = task /\ (entry' = "none" => entry = "none")
               \/ entry = "none" /\ task' = "asking" /\ entry' = "streaming"
               \/ task = "asking" /\ task' = "receiving" /\ entry' = entry
               \/ task' \in {"ended", "aborted"} /\ entry' \in {"complete", "closed"}
               \/ task = "storing" /\ task' = "ended" /\ entry' = entry
<1>1. CASE Open
  BY <1>1 DEF Open, buffer
<1>2. CASE TaskNext
  BY <1>2 DEF TaskNext, TaskAsk, TaskStore, TaskStep, handle, buffer
<1>3. ASSUME NEW c \in Callers, Read(c) \/ Write(c) \/ Close(c)
      PROVE  UNCHANGED <<progress, chunks, stream, task, entry>>
  BY <1>3 DEF Read, Write, Close, Call, handle, buffer, download
<1>4. ASSUME NEW c \in Callers, CallStep(c), ~WriteApply(c), ~CloseApply(c)
      PROVE  /\ UNCHANGED <<progress, chunks, stream, task>>
             /\ entry' = entry \/ entry' = "complete"
  <2>1. CASE ReadRefreshed(c)
    BY <2>1 DEF ReadRefreshed, ReadStep, buffer, download
  <2>2. CASE ReadCheck(c) \/ ReadRefreshFails(c) \/ ReadLook(c) \/ ReadWaited(c) \/ ReadCopy(c)
             \/ RangeAnswer(c) \/ RangeFails(c)
    BY <2>2 DEF ReadCheck, ReadRefreshFails, ReadLook, ReadWaited, ReadCopy,
                RangeAnswer, RangeFails, ReadStep, buffer, download, handle
  <2>3. CASE WriteLock(c) \/ WriteFails(c)
    BY <2>3 DEF WriteLock, WriteFails, ReadStep, buffer, download, handle
  <2> QED BY <1>4, <2>1, <2>2, <2>3 DEF CallStep
<1>5. ASSUME NEW c \in Callers, WriteApply(c) \/ CloseApply(c)
      PROVE  /\ UNCHANGED <<progress, chunks, stream>>
             /\ entry' \in {"complete", "closed"} /\ task' \in {task, Aborted}
  BY <1>5 DEF WriteApply, CloseApply, buffer
<1>6. ASSUME NEW d \in Syncs, Sync(d) \/ MarkStale(d)
      PROVE  UNCHANGED <<progress, chunks, stream, task, entry>>
  BY <1>6 DEF Sync, MarkStale, handle, buffer, download
<1>7. Aborted \in {task, "ended", "aborted"}
  BY DEF Aborted
<1> QED BY <1>1, <1>2, <1>3, <1>4, <1>5, <1>6, <1>7 DEF Next, TaskNext

(* The length of the file on the server stays, the frontier only grows,    *)
(* and Done is final.                                                      *)
LEMMA DownloadSteps ==
  ASSUME StreamingConstants, Inv, Next
  PROVE  /\ stream' \in [len : Sent, sent : Nat] /\ chunks' \in [Keys -> Seq(Int)]
         /\ StreamInv' /\ ChunksInv'
         /\ stream'.len = stream.len /\ Frontier \in Nat /\ Frontier' \in Nat
         /\ Frontier <= Frontier'
         /\ progress = Done => progress' = Done
<1>1. /\ stream \in [len : Sent, sent : Nat] /\ chunks \in [Keys -> Seq(Int)]
      /\ StreamInv /\ ChunksInv
      /\ Total \in Nat /\ stream.len \in Nat /\ stream.sent \in Nat /\ Frontier \in Nat
  BY DEF Inv, Shapes, StreamingConstants, Frontier, Smaller
<1>2. CASE TaskReceive
  <2>1. PICK count \in 1..(stream.len - stream.sent) :
          /\ TaskStep("receiving", "receiving")
          /\ stream' = [stream EXCEPT !.sent = @ + count]
          /\ chunks' = Appended(progress.n, count)
          /\ progress' = InProgress(Smaller(progress.n + count, Total))
    BY <1>2 DEF TaskReceive
  <2>2. task = "receiving" /\ task' = "receiving" /\ entry' = entry /\ entry # "none"
    BY <1>1, <2>1 DEF TaskStep, handle, StreamInv
  <2>3. progress = InProgress(Frontier) /\ progress.n = Frontier
    BY <1>1, <2>2 DEF StreamInv, InProgress
  <2>4. /\ stream'.len = stream.len /\ stream'.sent = stream.sent + count
        /\ stream'.sent <= stream'.len /\ stream' \in [len : Sent, sent : Nat]
    <3>1. count \in Nat /\ stream.sent + count \in Nat /\ stream.sent + count <= stream.len
      BY <1>1
    <3> DEFINE sum == stream.sent + count
    <3>2. stream' = [stream EXCEPT !.sent = sum]
      BY <2>1
    <3> HIDE DEF sum
    <3>3. sum \in Nat
      BY <3>1 DEF sum
    <3>4. /\ stream'.len = stream.len /\ stream'.sent = sum
          /\ stream' \in [len : Sent, sent : Nat]
      BY <1>1, <3>2, <3>3
    <3> QED BY <3>1, <3>4 DEF sum
  <2>5. Frontier' = Smaller(Frontier + count, Total) /\ Frontier' \in Nat /\ Frontier <= Frontier'
    BY <1>1, <2>4 DEF Frontier, Smaller
  <2>6. progress' = InProgress(Frontier') /\ progress # Done /\ progress' # Done
    BY <2>1, <2>3, <2>5 DEF InProgress, Done
  <2>7. StreamInv'
    BY <2>2, <2>4, <2>6 DEF StreamInv
  <2>8. \A k \in Keys : /\ chunks'[k] \in Seq(Int)
                        /\ Len(chunks'[k]) = InChunk(k, Frontier')
                        /\ \A i \in 1..InChunk(k, Frontier') : chunks'[k][i] = k * ChunkSize + i
    <3>1. count \in Nat /\ Shapes
      BY DEF Inv
    <3>2. chunks' = Appended(Frontier, count) /\ Frontier' = Smaller(Frontier + count, Total)
      BY <2>1, <2>3, <2>5
    <3> DEFINE end == Smaller(Frontier + count, Total)
               full == Appended(Frontier, count)
    <3>3. ASSUME NEW k \in Keys
          PROVE  /\ full[k] \in Seq(Int) /\ Len(full[k]) = InChunk(k, end)
                 /\ \A i \in 1..InChunk(k, end) : full[k][i] = k * ChunkSize + i
      <4>1. StreamingConstants /\ Shapes /\ ChunksInv /\ count \in Nat
        BY <1>1, <3>1
      <4> HIDE DEF ChunksInv, Shapes, StreamingConstants, StreamInv
      <4> QED BY ONLY <4>1, k \in Keys, AppendedFills
    <3>4. \A k \in Keys : InChunk(k, Frontier') = InChunk(k, end)
      BY <3>2 DEF InChunk
    <3> HIDE DEF end, full
    <3>5. chunks' = full
      BY <3>2 DEF full
    <3> QED BY <3>3, <3>4, <3>5
  <2>9. chunks' \in [Keys -> Seq(Int)] /\ ChunksInv'
    <3>1. chunks' = [k \in Keys |-> chunks'[k]]
      BY <2>1 DEF Appended
    <3>2. chunks' \in [Keys -> Seq(Int)]
      BY <2>8, <3>1
    <3> QED BY <2>8, <3>2 DEF ChunksInv
  <2> QED BY <1>1, <2>4, <2>5, <2>6, <2>7, <2>9
<1>3. CASE UNCHANGED <<chunks, stream>>
  <2>1. Frontier' = Frontier
    BY <1>3 DEF Frontier, Smaller
  <2>2. ChunksInv'
    BY <1>1, <1>3, <2>1 DEF ChunksInv, InChunk, Smaller
  <2>3. CASE TaskFails
    BY <1>1, <1>3, <2>1, <2>2, <2>3 DEF TaskFails, TaskStep, StreamInv, handle, Failed, InProgress, Done
  <2>4. CASE TaskDone
    BY <1>1, <1>3, <2>1, <2>2, <2>4 DEF TaskDone, TaskStep, StreamInv, handle, Failed, InProgress, Done
  <2>5. CASE /\ progress' = progress
             /\ \/ task' = task /\ (entry' = "none" => entry = "none")
                \/ entry = "none" /\ task' = "asking" /\ entry' = "streaming"
                \/ task = "asking" /\ task' = "receiving" /\ entry' = entry
                \/ task' \in {"ended", "aborted"} /\ entry' \in {"complete", "closed"}
                \/ task = "storing" /\ task' = "ended" /\ entry' = entry
    <3>1. StreamInv'
      BY <1>1, <1>3, <2>1, <2>5 DEF StreamInv
    <3> QED BY <1>1, <1>3, <2>1, <2>2, <2>5, <3>1
  <2>6. ~TaskReceive => \/ TaskFails \/ TaskDone
         \/ /\ progress' = progress
            /\ \/ task' = task /\ (entry' = "none" => entry = "none")
               \/ entry = "none" /\ task' = "asking" /\ entry' = "streaming"
               \/ task = "asking" /\ task' = "receiving" /\ entry' = entry
               \/ task' \in {"ended", "aborted"} /\ entry' \in {"complete", "closed"}
               \/ task = "storing" /\ task' = "ended" /\ entry' = entry
    BY BufferSteps
  <2>7. ~TaskReceive
    <3>1. TaskReceive => stream'.sent # stream.sent
      BY <1>1 DEF TaskReceive
    <3> QED BY <1>3, <3>1
  <2> QED BY <2>3, <2>4, <2>5, <2>6, <2>7
<1>4. TaskReceive \/ UNCHANGED <<chunks, stream>>
  BY BufferSteps DEF TaskFails, TaskDone
<1> QED BY <1>2, <1>3, <1>4

-----------------------------------------------------------------------------
(* The calls.                                                              *)
LEMMA CallRecord ==
  ASSUME NEW pc \in Steps, NEW off \in Nat, NEW size \in Nat, NEW tries \in Nat,
         NEW got \in SUBSET Seq(Int),
         NEW x, x = [pc |-> pc, off |-> off, size |-> size, tries |-> tries, got |-> got]
  PROVE  /\ x \in Calls
         /\ x.pc = pc /\ x.off = off /\ x.size = size /\ x.tries = tries /\ x.got = got
BY DEF Calls

LEMMA IdleCall == Idle \in Calls /\ Idle.pc = "idle" /\ Idle.got = {}
<1> DEFINE pc == "idle"
           zero == 0
           got == {}
<1>1. Idle = [pc |-> pc, off |-> zero, size |-> zero, tries |-> zero, got |-> got]
  BY DEF Idle
<1>2. pc \in Steps
  BY DEF Steps
<1>3. zero \in Nat
  OBVIOUS
<1>4. got \in SUBSET Seq(Int)
  OBVIOUS
<1> HIDE DEF pc, zero, got
<1>5. Idle \in Calls /\ Idle.pc = pc /\ Idle.got = got
  BY <1>1, <1>2, <1>3, <1>4, CallRecord
<1> QED BY <1>5 DEF pc, got

LEMMA GotoOne ==
  ASSUME call \in [Callers -> Calls], NEW c \in Callers, NEW pc \in Steps, Goto(c, pc)
  PROVE  /\ call' \in [Callers -> Calls] /\ \A d \in Callers \ {c} : call'[d] = call[d]
         /\ call'[c].pc = pc /\ call'[c].off = call[c].off /\ call'[c].size = call[c].size
         /\ call'[c].got = call[c].got
<1> DEFINE x == [call[c] EXCEPT !.pc = pc]
<1>1. /\ x \in Calls
      /\ x.pc = pc /\ x.off = call[c].off /\ x.size = call[c].size /\ x.got = call[c].got
  BY DEF Calls
<1>2. call' = [call EXCEPT ![c] = x]
  BY DEF Goto
<1> HIDE DEF x
<1> QED BY <1>1, <1>2

LEMMA ErrorOne ==
  ASSUME call \in [Callers -> Calls], NEW c \in Callers, Error(c)
  PROVE  /\ call' \in [Callers -> Calls] /\ \A d \in Callers \ {c} : call'[d] = call[d]
         /\ call'[c].pc = "idle" /\ call'[c].got = {}
<1>1. Idle \in Calls /\ Idle.pc = "idle" /\ Idle.got = {}
  BY IdleCall
<1>2. call' = [call EXCEPT ![c] = Idle]
  BY DEF Error
<1> QED BY <1>1, <1>2

LEMMA ReturnOne ==
  ASSUME call \in [Callers -> Calls], NEW c \in Callers, NEW result \in Seq(Int),
         Return(c, result)
  PROVE  /\ call' \in [Callers -> Calls] /\ \A d \in Callers \ {c} : call'[d] = call[d]
         /\ call'[c].pc = "idle" /\ call'[c].off = call[c].off /\ call'[c].size = call[c].size
         /\ call'[c].got = {result}
<1> DEFINE got == {result}
           pc == "idle"
           zero == 0
           y == call[c]
           y1 == [y EXCEPT !.pc = pc]
           y2 == [y1 EXCEPT !.tries = zero]
           x == [y2 EXCEPT !.got = got]
<1>1. call' = [call EXCEPT ![c] = x]
  BY DEF Return
<1>2. /\ pc \in Steps
      /\ zero \in Nat
      /\ got \in SUBSET Seq(Int)
      /\ y \in Calls
  <2>1. pc \in Steps
    BY DEF Steps
  <2>2. zero \in Nat
    OBVIOUS
  <2>3. got \in SUBSET Seq(Int)
    OBVIOUS
  <2> QED BY <2>1, <2>2, <2>3
<1> HIDE DEF got, pc, zero, y
<1>3. x \in Calls /\ x.pc = pc /\ x.off = y.off /\ x.size = y.size /\ x.got = got
  BY <1>2 DEF Calls
<1> HIDE DEF x
<1>4. /\ call' \in [Callers -> Calls] /\ \A d \in Callers \ {c} : call'[d] = call[d]
      /\ call'[c] = x
  BY <1>1, <1>3
<1> QED BY <1>3, <1>4 DEF got, pc, y

LEMMA CallOne ==
  ASSUME call \in [Callers -> Calls], NEW c \in Callers, NEW pc \in Steps,
         NEW off \in Nat, NEW size \in Nat, Call(c, pc, <<off, size>>)
  PROVE  /\ call' \in [Callers -> Calls] /\ \A d \in Callers \ {c} : call'[d] = call[d]
         /\ call'[c].pc = pc /\ call'[c].got = {}
<1> DEFINE y == Idle
           x == [y EXCEPT !.pc = pc, !.off = off, !.size = size]
<1>1. call' = [call EXCEPT ![c] = x]
  BY DEF Call
<1>2. y \in Calls /\ y.got = {}
  BY IdleCall
<1> HIDE DEF y
<1>3. x \in Calls /\ x.pc = pc /\ x.got = y.got
  BY <1>2 DEF Calls
<1> HIDE DEF x
<1> QED BY <1>1, <1>2, <1>3

LEMMA TryAgain ==
  ASSUME call \in [Callers -> Calls], NEW c \in Callers,
         call' = [call EXCEPT ![c].tries = @ + 1]
  PROVE  /\ call' \in [Callers -> Calls] /\ \A d \in Callers \ {c} : call'[d] = call[d]
         /\ call'[c].pc = call[c].pc /\ call'[c].off = call[c].off
         /\ call'[c].size = call[c].size /\ call'[c].got = call[c].got
<1> DEFINE n == call[c].tries + 1
           x == [call[c] EXCEPT !.tries = n]
<1>1. n \in Nat
  BY DEF Calls
<1>2. call' = [call EXCEPT ![c] = x]
  OBVIOUS
<1> HIDE DEF n
<1>3. /\ x \in Calls
      /\ x.pc = call[c].pc /\ x.off = call[c].off /\ x.size = call[c].size /\ x.got = call[c].got
  BY <1>1 DEF Calls
<1> HIDE DEF x
<1> QED BY <1>2, <1>3

(* What a step of caller c does to the calls and to the entry.             *)
StepOf(c) ==
  /\ call' \in [Callers -> Calls] /\ \A d \in Callers \ {c} : call'[d] = call[d]
  /\ entry' = "none" => entry = "none"
  /\ \/ writer' = writer /\ entry' = entry
     \/ writer \in {None, c}
  /\ call'[c].pc # "idle" => entry' # "none"
  /\ call'[c].pc = "copy" => progress = Done \/ call'[c].off + call'[c].size <= Frontier
  /\ call'[c].pc = "ensure" => writer' = c /\ entry' \in {"streaming", "complete"}
  /\ \/ call'[c].got = {}
     \/ /\ call'[c].off = call[c].off /\ call'[c].size = call[c].size
        /\ \/ call'[c].got = call[c].got
           \/ \E result : /\ call'[c].got = {result}
                          /\ Serves(result, call[c].off, call[c].size, stream.len)

LEMMA ServedEach ==
  ServedIsStreamed <=> \A c \in Callers : \A bytes \in call[c].got :
                         Serves(bytes, call[c].off, call[c].size, stream.len)
BY DEF ServedIsStreamed, Serves, Good

LEMMA StepOfKeeps ==
  ASSUME StreamingConstants, Inv, NEW c \in Callers, StepOf(c),
         progress = Done => progress' = Done, Frontier \in Nat, Frontier' \in Nat,
         Frontier <= Frontier', stream'.len = stream.len
  PROVE  call' \in [Callers -> Calls] /\ CallsInv' /\ ServedIsStreamed'
<1>1. call' \in [Callers -> Calls] /\ \A d \in Callers \ {c} : call'[d] = call[d]
  BY DEF StepOf
<1>2. c # None /\ \A d \in Callers : d # None
  BY DEF StreamingConstants
<1>3. call \in [Callers -> Calls] /\ CallsInv
  BY DEF Inv, Shapes
<1>4. ASSUME NEW d \in Callers
      PROVE  /\ call'[d].pc # "idle" => entry' # "none"
             /\ call'[d].pc = "copy"
                  => progress' = Done \/ call'[d].off + call'[d].size <= Frontier'
             /\ call'[d].pc = "ensure" => writer' = d /\ entry' \in {"streaming", "complete"}
  <2>1. call'[d].off \in Nat /\ call'[d].size \in Nat
    BY <1>1 DEF Calls
  <2>2. CASE d = c
    BY <2>1, <2>2 DEF StepOf
  <2>3. CASE d # c
    <3>1. call'[d] = call[d]
      BY <1>1, <2>3
    <3>2. /\ call[d].pc # "idle" => entry # "none"
          /\ call[d].pc = "copy" => progress = Done \/ call[d].off + call[d].size <= Frontier
          /\ call[d].pc = "ensure" => writer = d /\ entry \in {"streaming", "complete"}
      BY <1>3 DEF CallsInv
    <3>3. call[d].pc = "ensure" => writer' = writer /\ entry' = entry
      BY <1>2, <2>3, <3>2 DEF StepOf
    <3>4. call[d].pc = "copy" => progress' = Done \/ call[d].off + call[d].size <= Frontier'
      BY <2>1, <3>1, <3>2
    <3> QED BY <3>1, <3>2, <3>3, <3>4 DEF StepOf
  <2> QED BY <2>2, <2>3
<1>5. CallsInv'
  BY <1>4 DEF CallsInv
<1>6. ASSUME NEW d \in Callers, NEW bytes \in call'[d].got
      PROVE  Serves(bytes, call'[d].off, call'[d].size, stream.len)
  <2>1. \A b \in call[d].got : Serves(b, call[d].off, call[d].size, stream.len)
    BY ServedEach DEF Inv
  <2>2. CASE d = c
    BY <2>1, <2>2, <1>6 DEF StepOf
  <2>3. CASE d # c
    BY <1>1, <2>1, <2>3
  <2> QED BY <2>2, <2>3
<1>7. ServedIsStreamed'
  BY <1>6 DEF ServedIsStreamed, Serves, Good
<1> QED BY <1>1, <1>5, <1>7

(* What a read that waited for its range copies out of the buffer.         *)
LEMMA CopyServes ==
  ASSUME StreamingConstants, Inv, NEW off \in Nat, NEW size \in Nat,
         progress = Done \/ off + size <= Frontier,
         NEW bytes, bytes = ReadRange(off, size)
  PROVE  bytes \in Seq(Int) /\ Serves(bytes, off, size, stream.len)
<1>1. /\ Total \in Nat /\ stream.len \in Nat /\ stream.sent \in Nat /\ Frontier \in Nat
      /\ stream.sent <= stream.len /\ Frontier <= Total
  <2>1. Total \in Nat /\ stream.len \in Nat /\ stream.sent \in Nat
    BY DEF Inv, Shapes, StreamingConstants
  <2>2. stream.sent <= stream.len
    BY DEF Inv, StreamInv
  <2> QED BY <2>1, <2>2 DEF Frontier, Smaller
<1>2. Frontier = IF stream.sent <= Total THEN stream.sent ELSE Total
  BY DEF Frontier, Smaller
<1> DEFINE end == Smaller(off + size, Downloaded)
           len == stream.len
<1>3. /\ end \in Nat
      /\ bytes = IF off >= end THEN Empty
                 ELSE [i \in 1..(end - off) |-> IF off + i <= Frontier THEN off + i ELSE Hole]
  <2>1. Shapes /\ StreamInv /\ ChunksInv
    BY DEF Inv
  <2> QED BY <2>1, RangeRead
<1>4. \/ progress = Done /\ stream.sent = len /\ Downloaded = Total
      \/ off + size <= Frontier /\ Downloaded \in {Frontier, Total}
  BY DEF Inv, StreamInv, Downloaded, Done, Failed, InProgress
<1>5. /\ end <= off + size /\ end <= Total
      /\ end >= Smaller(off + size, Smaller(Total, len))
      /\ \A i \in Nat : off + i <= end => off + i <= Frontier \/ off + i > len
  <2> DEFINE sum == off + size
             sent == stream.sent
             down == Downloaded
             front == Frontier
  <2>1. /\ sum \in Nat /\ sent \in Nat /\ len \in Nat /\ front \in Nat /\ Total \in Nat
        /\ sent <= len /\ down \in Nat /\ down <= Total
        /\ front = IF sent <= Total THEN sent ELSE Total
        /\ \/ sent = len /\ down = Total
           \/ sum <= front /\ down \in {front, Total}
    BY <1>1, <1>2, <1>4
  <2>2. end = Smaller(sum, down)
    OBVIOUS
  <2> HIDE DEF sum, sent, down, front, len, end
  <2>3. end \in Nat /\ end <= sum /\ end <= Total /\ end >= Smaller(sum, Smaller(Total, len))
    BY <2>1, <2>2 DEF Smaller
  <2>4. end <= front \/ sent = len
    BY <2>1, <2>2 DEF Smaller
  <2>5. ASSUME NEW i \in Nat, off + i <= end
        PROVE  off + i <= front \/ off + i > len
    BY <2>1, <2>3, <2>4, <2>5
  <2> QED BY <2>3, <2>5 DEF sum, front
<1> HIDE DEF end
<1>6. CASE off >= end
  <2>1. bytes = << >>
    BY <1>3, <1>6 DEF Empty
  <2>2. bytes \in Seq(Int) /\ Len(bytes) = 0
    BY <2>1
  <2> QED BY <1>1, <1>3, <1>5, <1>6, <2>2 DEF Serves, Smaller
<1>7. CASE ~(off >= end)
  <2>1. bytes = [i \in 1..(end - off) |-> IF off + i <= Frontier THEN off + i ELSE 0]
        /\ end - off \in Nat
    BY <1>3, <1>7 DEF Hole
  <2>2. /\ bytes \in Seq(Int) /\ Len(bytes) = end - off
        /\ \A i \in 1..(end - off) : bytes[i] = IF off + i <= Frontier THEN off + i ELSE 0
    BY <2>1, <1>1
  <2>3. ASSUME NEW i \in 1..Len(bytes)
        PROVE  Good(off + i, bytes[i], len)
    <3>1. i \in Nat /\ off + i <= end /\ i \in 1..(end - off)
      BY <1>3, <2>1, <2>2
    <3>2. bytes[i] = off + i \/ (bytes[i] = 0 /\ off + i > len)
      BY <1>1, <1>5, <2>2, <3>1
    <3> QED BY <3>2 DEF Good, Hole
  <2>4. /\ Len(bytes) <= size
        /\ Len(bytes) >= Smaller(off + size, Smaller(Total, len)) - off
    <3> DEFINE least == Smaller(off + size, Smaller(Total, len))
    <3>1. least \in Nat /\ least <= end /\ end \in Nat /\ end <= off + size
      BY <1>1, <1>3, <1>5 DEF Smaller
    <3> HIDE DEF least
    <3> QED BY <2>2, <3>1 DEF least
  <2> QED BY <2>2, <2>3, <2>4 DEF Serves
<1> QED BY <1>6, <1>7

(* A slice of the content of a complete handle.                            *)
LEMMA SliceServes ==
  ASSUME StreamingConstants, Inv, entry = "complete", NEW off \in Nat, NEW size \in Nat,
         NEW bytes, bytes = Slice(off, size)
  PROVE  bytes \in Seq(Int) /\ Serves(bytes, off, size, stream.len)
<1>1. Total \in Nat /\ stream.len \in Nat
  BY DEF Inv, Shapes, StreamingConstants
<1>2. /\ data \in Seq(Int) /\ Len(data) \in Nat /\ Len(data) >= Smaller(Total, stream.len)
      /\ \A i \in 1..Len(data) : Good(i, data[i], stream.len)
  BY DEF Inv, DataInv
<1> DEFINE end == Smaller(off + size, Len(data))
<1>3. bytes = SubSeq(data, off + 1, end)
  BY DEF Slice
<1>4. /\ end \in Nat /\ end <= Len(data) /\ end <= off + size
      /\ end >= Smaller(off + size, Smaller(Total, stream.len))
  <2> DEFINE sum == off + size
             n == Len(data)
             least == Smaller(Total, stream.len)
  <2>1. sum \in Nat /\ n \in Nat /\ least \in Nat /\ n >= least
    BY <1>1, <1>2 DEF Smaller
  <2>2. end = Smaller(sum, n)
    OBVIOUS
  <2> HIDE DEF sum, n, least, end
  <2>3. end \in Nat /\ end <= n /\ end <= sum /\ end >= Smaller(sum, least)
    BY <2>1, <2>2 DEF Smaller
  <2> QED BY <2>3 DEF sum, n, least
<1> HIDE DEF end
<1>5. /\ bytes \in Seq(Int)
      /\ Len(bytes) = IF off + 1 <= end THEN end - off ELSE 0
      /\ \A i \in 1..Len(bytes) : bytes[i] = data[off + i]
  <2>1. data \in Seq(Int) /\ end \in Nat /\ end <= Len(data)
    BY <1>2, <1>4
  <2>2. off \in Nat
    OBVIOUS
  <2> QED BY ONLY <2>1, <2>2, <1>3
<1>6. /\ Len(bytes) <= size
      /\ Len(bytes) >= Smaller(off + size, Smaller(Total, stream.len)) - off
  <2> DEFINE least == Smaller(off + size, Smaller(Total, stream.len))
             n == Len(bytes)
  <2>1. least \in Nat /\ end \in Nat /\ least <= end /\ end <= off + size
    BY <1>1, <1>4 DEF Smaller
  <2>2. n = IF off + 1 <= end THEN end - off ELSE 0
    BY <1>5
  <2> HIDE DEF least, n
  <2>3. n <= size /\ n >= least - off
    BY <2>1, <2>2
  <2> QED BY <2>3 DEF least, n
<1>7. \A i \in 1..Len(bytes) : off + i \in 1..Len(data)
  <2> DEFINE n == Len(bytes)
             m == Len(data)
  <2>1. n = (IF off + 1 <= end THEN end - off ELSE 0) /\ end \in Nat /\ m \in Nat /\ end <= m
    BY <1>2, <1>4, <1>5
  <2> HIDE DEF n, m
  <2>2. \A i \in 1..n : off + i \in 1..m
    BY <2>1
  <2> QED BY <2>2 DEF n, m
<1> QED BY <1>2, <1>5, <1>6, <1>7 DEF Serves

(* What the server answers to a range that begins before the file's end.   *)
LEMMA RangeServes ==
  ASSUME StreamingConstants, Inv, NEW off \in Nat, NEW size \in Nat, off < stream.len,
         NEW bytes, bytes = ServerRange(off, size)
  PROVE  bytes \in Seq(Int) /\ Serves(bytes, off, size, stream.len)
<1>1. Total \in Nat /\ stream.len \in Nat
  BY DEF Inv, Shapes, StreamingConstants
<1> DEFINE n == Smaller(off + size, stream.len) - off
<1>2. n \in Nat /\ n <= size /\ n >= Smaller(off + size, Smaller(Total, stream.len)) - off
  BY <1>1 DEF Smaller
<1>3. bytes = [i \in 1..n |-> off + i]
  BY DEF ServerRange
<1> HIDE DEF n
<1>4. bytes \in Seq(Int) /\ Len(bytes) = n /\ \A i \in 1..n : bytes[i] = off + i
  BY <1>2, <1>3
<1> QED BY <1>2, <1>4 DEF Serves, Good

-----------------------------------------------------------------------------
(* Every step of a call is a StepOf its caller.                            *)
LEMMA Typed ==
  ASSUME StreamingConstants, Inv, NEW c \in Callers
  PROVE  /\ call \in [Callers -> Calls] /\ call[c].off \in Nat /\ call[c].size \in Nat
         /\ None \notin Callers /\ Ranges \subseteq Nat \X Nat
         /\ call[c].pc # "idle" => entry # "none"
         /\ call[c].pc = "ensure" => writer = c /\ entry \in {"streaming", "complete"}
         /\ call[c].pc = "copy" => progress = Done \/ call[c].off + call[c].size <= Frontier
BY DEF Inv, Shapes, Calls, CallsInv, StreamingConstants

LEMMA StartsAreSteps ==
  ASSUME StreamingConstants, Inv, NEW c \in Callers, Read(c) \/ Write(c) \/ Close(c)
  PROVE  StepOf(c)
<1>1. ASSUME NEW pc \in {"check", "write", "close"}, NEW off \in Nat, NEW size \in Nat,
             Call(c, pc, <<off, size>>)
      PROVE  StepOf(c)
  <2>1. entry # "none" /\ entry' = entry /\ writer' = writer
    BY <1>1 DEF Call, handle, lock
  <2>2. /\ call' \in [Callers -> Calls] /\ \A d \in Callers \ {c} : call'[d] = call[d]
        /\ call'[c].pc = pc /\ call'[c].got = {}
    <3>1. pc \in Steps
      BY DEF Steps
    <3> QED BY <1>1, <3>1, Typed, CallOne
  <2> QED BY <2>1, <2>2 DEF StepOf
<1>2. CASE Read(c)
  <2>1. PICK range \in Ranges : Call(c, "check", range)
    BY <1>2 DEF Read
  <2>2. range[1] \in Nat /\ range[2] \in Nat /\ range = <<range[1], range[2]>>
    BY Typed
  <2> QED BY <1>1, <2>1, <2>2
<1>3. CASE Write(c)
  <2>1. Call(c, "write", <<0, 1>>)
    BY <1>3 DEF Write
  <2> QED BY <1>1, <2>1
<1>4. CASE Close(c)
  <2>1. Call(c, "close", <<0, 0>>)
    BY <1>4 DEF Close
  <2> QED BY <1>1, <2>1
<1> QED BY <1>2, <1>3, <1>4

(* A caller that goes on to pc, its entry and the lock being what they are *)
(* when it does.                                                           *)
LEMMA GotoIsStep ==
  ASSUME StreamingConstants, Inv, NEW c \in Callers, NEW pc \in Steps, Goto(c, pc),
         entry # "none", entry' # "none",
         (writer' = writer /\ entry' = entry) \/ writer \in {None, c},
         pc = "copy" => progress = Done \/ call[c].off + call[c].size <= Frontier,
         pc = "ensure" => writer' = c /\ entry' \in {"streaming", "complete"}
  PROVE  StepOf(c)
<1>1. /\ call' \in [Callers -> Calls] /\ \A d \in Callers \ {c} : call'[d] = call[d]
      /\ call'[c].pc = pc /\ call'[c].off = call[c].off /\ call'[c].size = call[c].size
      /\ call'[c].got = call[c].got
  BY Typed, GotoOne
<1> QED BY <1>1 DEF StepOf

LEMMA ErrorIsStep ==
  ASSUME StreamingConstants, Inv, NEW c \in Callers, Error(c),
         entry # "none", entry' # "none",
         (writer' = writer /\ entry' = entry) \/ writer \in {None, c}
  PROVE  StepOf(c)
<1>1. /\ call' \in [Callers -> Calls] /\ \A d \in Callers \ {c} : call'[d] = call[d]
      /\ call'[c].pc = "idle" /\ call'[c].got = {}
  BY Typed, ErrorOne
<1> QED BY <1>1 DEF StepOf

LEMMA ReturnIsStep ==
  ASSUME StreamingConstants, Inv, NEW c \in Callers, NEW result \in Seq(Int), Return(c, result),
         entry # "none", entry' = entry, writer' = writer,
         Serves(result, call[c].off, call[c].size, stream.len)
  PROVE  StepOf(c)
<1>1. /\ call' \in [Callers -> Calls] /\ \A d \in Callers \ {c} : call'[d] = call[d]
      /\ call'[c].pc = "idle" /\ call'[c].off = call[c].off /\ call'[c].size = call[c].size
      /\ call'[c].got = {result}
  BY Typed, ReturnOne
<1> QED BY <1>1 DEF StepOf

(* What the progress of the buffer tells a reader about its range.         *)
LEMMA ProgressTells ==
  ASSUME StreamingConstants, Inv, NEW need \in Nat
  PROVE  /\ downloadedBytes >= need => progress = Done \/ need <= Frontier
         /\ progress.kind = "done" => progress = Done
         /\ progress.kind = "in_progress" => progress.n = Frontier
<1>1. Frontier \in Nat
  BY DEF Inv, Shapes, StreamingConstants, Frontier, Smaller
<1>2. progress \in {InProgress(Frontier), Done, Failed}
  BY DEF Inv, StreamInv
<1> QED BY <1>1, <1>2 DEF downloadedBytes, InProgress, Done, Failed

LEMMA ReadsAreSteps ==
  ASSUME StreamingConstants, Inv, NEW c \in Callers,
         \/ ReadCheck(c) \/ ReadRefreshed(c) \/ ReadRefreshFails(c) \/ ReadLook(c)
         \/ ReadWaited(c) \/ ReadCopy(c) \/ RangeAnswer(c) \/ RangeFails(c)
  PROVE  StepOf(c)
<1> DEFINE off == call[c].off
           size == call[c].size
<1>1. off \in Nat /\ size \in Nat /\ off + size \in Nat
  BY Typed
<1>2. entry # "none"
  BY Typed DEF ReadCheck, ReadRefreshed, ReadRefreshFails, ReadLook, ReadWaited, ReadCopy,
               RangeAnswer, RangeFails, ReadStep
<1>3. {"refresh", "look", "wait", "copy", "range", "ensure"} \subseteq Steps
  BY DEF Steps
<1>4. CASE ReadCheck(c)
  <2>1. entry' = entry /\ writer' = writer /\ (Error(c) \/ Goto(c, "refresh") \/ Goto(c, "look"))
    BY <1>4 DEF ReadCheck, handle, lock
  <2> QED BY <1>2, <1>3, <2>1, GotoIsStep, ErrorIsStep
<1>5. CASE ReadRefreshed(c)
  <2>1. writer = None /\ entry' # "none" /\ (Error(c) \/ Goto(c, "look"))
    BY <1>2, <1>5 DEF ReadRefreshed
  <2> QED BY <1>2, <1>3, <2>1, GotoIsStep, ErrorIsStep
<1>6. CASE ReadRefreshFails(c)
  <2>1. entry' = entry /\ writer' = writer /\ Error(c)
    BY <1>6 DEF ReadRefreshFails, handle, lock
  <2> QED BY <1>2, <2>1, ErrorIsStep
<1>7. CASE ReadLook(c)
  <2>1. entry' = entry /\ writer' = writer
    BY <1>7 DEF ReadLook, handle, lock, Release
  <2>2. \/ Error(c) \/ Goto(c, "range") \/ Goto(c, "wait")
        \/ Goto(c, "copy") /\ downloadedBytes >= off + size
        \/ entry = "complete" /\ Return(c, Slice(off, size))
    BY <1>7 DEF ReadLook
  <2>3. CASE Error(c) \/ Goto(c, "range") \/ Goto(c, "wait")
    BY <1>2, <1>3, <2>1, <2>3, GotoIsStep, ErrorIsStep
  <2>4. CASE Goto(c, "copy") /\ downloadedBytes >= off + size
    <3>1. progress = Done \/ off + size <= Frontier
      BY <1>1, <2>4, ProgressTells
    <3> QED BY <1>2, <1>3, <2>1, <2>4, <3>1, GotoIsStep
  <2>5. CASE entry = "complete" /\ Return(c, Slice(off, size))
    BY <1>1, <1>2, <2>1, <2>5, SliceServes, ReturnIsStep
  <2> QED BY <2>2, <2>3, <2>4, <2>5
<1>8. CASE ReadWaited(c)
  <2>1. /\ entry' = entry /\ writer' = writer
        /\ Error(c) \/ (RangeIsThere(off, size) /\ Goto(c, "copy"))
    BY <1>8 DEF ReadWaited, handle, lock, Release
  <2>2. RangeIsThere(off, size) => progress = Done \/ off + size <= Frontier
    <3>1. Frontier \in Nat
      BY DEF Inv, Shapes, StreamingConstants, Frontier, Smaller
    <3> QED BY <1>1, <3>1, ProgressTells DEF RangeIsThere
  <2> QED BY <1>2, <1>3, <2>1, <2>2, GotoIsStep, ErrorIsStep
<1>9. CASE ReadCopy(c)
  <2>1. entry' = entry /\ writer' = writer /\ Return(c, ReadRange(off, size))
        /\ call[c].pc = "copy"
    BY <1>9 DEF ReadCopy, ReadStep, handle, Release
  <2>2. progress = Done \/ off + size <= Frontier
    BY <2>1, Typed
  <2> QED BY <1>1, <1>2, <2>1, <2>2, CopyServes, ReturnIsStep
<1>10. CASE RangeAnswer(c)
  <2>1. entry' = entry /\ writer' = writer /\ off < stream.len /\ Return(c, ServerRange(off, size))
    BY <1>10 DEF RangeAnswer, handle, lock
  <2> QED BY <1>1, <1>2, <2>1, RangeServes, ReturnIsStep
<1>11. CASE RangeFails(c)
  <2>1. /\ entry' = entry /\ writer' = writer /\ call[c].pc = "range"
        /\ Error(c) \/ call' = [call EXCEPT ![c].tries = @ + 1]
    BY <1>11 DEF RangeFails, ReadStep, handle, lock
  <2>2. CASE call' = [call EXCEPT ![c].tries = @ + 1]
    <3>1. /\ call' \in [Callers -> Calls] /\ \A d \in Callers \ {c} : call'[d] = call[d]
          /\ call'[c].pc = call[c].pc /\ call'[c].off = call[c].off
          /\ call'[c].size = call[c].size /\ call'[c].got = call[c].got
      BY <2>2, Typed, TryAgain
    <3> QED BY <1>2, <2>1, <3>1 DEF StepOf
  <2> QED BY <1>2, <2>1, <2>2, ErrorIsStep
<1> QED BY <1>4, <1>5, <1>6, <1>7, <1>8, <1>9, <1>10, <1>11
LEMMA WritesAreSteps ==
  ASSUME StreamingConstants, Inv, NEW c \in Callers,
         WriteLock(c) \/ WriteFails(c) \/ WriteApply(c) \/ CloseApply(c)
  PROVE  StepOf(c)
<1>1. entry # "none" /\ {"ensure"} \subseteq Steps
  BY Typed DEF WriteLock, WriteFails, WriteApply, CloseApply, ReadStep, Steps
<1>2. CASE WriteLock(c)
  <2>1. /\ entry' = entry /\ writer = None
        /\ Error(c) \/ (Goto(c, "ensure") /\ writer' = c /\ entry # "closed")
    BY <1>2 DEF WriteLock, handle
  <2>2. entry # "closed" => entry \in {"streaming", "complete"}
    BY <1>1 DEF Inv, Shapes
  <2> QED BY <1>1, <2>1, <2>2, GotoIsStep, ErrorIsStep
<1>3. CASE WriteFails(c)
  <2>1. entry' = entry /\ writer = c /\ Error(c)
    BY <1>3, Typed DEF WriteFails, ReadStep, handle
  <2> QED BY <1>1, <2>1, ErrorIsStep
<1>4. CASE WriteApply(c)
  <2>1. entry' = "complete" /\ writer = c /\ Error(c)
    BY <1>4, Typed DEF WriteApply
  <2> QED BY <1>1, <2>1, ErrorIsStep
<1>5. CASE CloseApply(c)
  <2>1. entry' = "closed" /\ writer = None /\ Error(c)
    BY <1>5 DEF CloseApply
  <2> QED BY <1>1, <2>1, ErrorIsStep
<1> QED BY <1>2, <1>3, <1>4, <1>5

-----------------------------------------------------------------------------
(* The content of the handle and that of the disk cache.                   *)
LEMMA ContentSteps ==
  ASSUME Next
  PROVE  /\ \/ UNCHANGED <<entry, data>>
            \/ entry' \in {"streaming", "closed"}
            \/ entry' = "complete" /\ data' = [i \in 1..stream.len |-> i]
            \/ \E c \in Callers : WriteApply(c)
         /\ disk' = disk \/ TaskStore
<1>1. CASE Open
  BY <1>1 DEF Open
<1>2. CASE TaskNext
  BY <1>2 DEF TaskNext, TaskAsk, TaskFails, TaskReceive, TaskDone, TaskStore, TaskStep, handle
<1>3. ASSUME NEW c \in Callers, Read(c) \/ Write(c) \/ Close(c)
      PROVE  UNCHANGED <<entry, data, disk>>
  BY <1>3 DEF Read, Write, Close, Call, handle, download
<1>4. ASSUME NEW c \in Callers, CallStep(c)
      PROVE  /\ disk' = disk
             /\ \/ UNCHANGED <<entry, data>>
                \/ entry' \in {"streaming", "closed"}
                \/ entry' = "complete" /\ data' = [i \in 1..stream.len |-> i]
                \/ WriteApply(c)
  <2>1. CASE ReadRefreshed(c)
    BY <2>1 DEF ReadRefreshed, ReadStep, download
  <2>2. CASE ReadCheck(c) \/ ReadRefreshFails(c) \/ ReadLook(c) \/ ReadWaited(c) \/ ReadCopy(c)
             \/ RangeAnswer(c) \/ RangeFails(c)
    BY <2>2 DEF ReadCheck, ReadRefreshFails, ReadLook, ReadWaited, ReadCopy,
                RangeAnswer, RangeFails, ReadStep, download, handle
  <2>3. CASE WriteLock(c) \/ WriteFails(c)
    BY <2>3 DEF WriteLock, WriteFails, ReadStep, download, handle
  <2>4. CASE WriteApply(c) \/ CloseApply(c)
    BY <2>4 DEF WriteApply, CloseApply
  <2> QED BY <1>4, <2>1, <2>2, <2>3, <2>4 DEF CallStep
<1>5. ASSUME NEW d \in Syncs, Sync(d) \/ MarkStale(d)
      PROVE  UNCHANGED <<entry, data, disk>>
  BY <1>5 DEF Sync, MarkStale, handle, download
<1> QED BY <1>1, <1>2, <1>3, <1>4, <1>5 DEF Next

(* A buffer that has all the file, whole or cut off.                       *)
LEMMA WholeBuffer ==
  ASSUME StreamingConstants, Inv, NEW c \in Callers, WriteApply(c),
         NEW content, content = (IF entry = "streaming" THEN ReadRange(0, Total) ELSE data)
  PROVE  /\ content \in Seq(Int) /\ Len(content) >= Smaller(Total, stream.len)
         /\ \A i \in 1..Len(content) : Good(i, content[i], stream.len)
<1>1. Total \in Nat /\ 0 \in Nat /\ stream.len \in Nat
  BY DEF StreamingConstants, Inv, Shapes
<1>2. CASE entry = "streaming"
  <2>1. RangeIsThere(0, Total)
    BY <1>2 DEF WriteApply
  <2>2. progress = Done \/ 0 + Total <= Frontier
    <3>1. Frontier \in Nat
      BY DEF Inv, Shapes, StreamingConstants, Frontier, Smaller
    <3> QED BY <1>1, <2>1, <3>1, ProgressTells DEF RangeIsThere
  <2>3. content \in Seq(Int) /\ Serves(content, 0, Total, stream.len)
    BY <1>1, <1>2, <2>2, CopyServes
  <2>4. ASSUME NEW i \in 1..Len(content)
        PROVE  Good(i, content[i], stream.len)
    <3>1. 0 + i = i
      BY <2>3
    <3> QED BY <2>3, <3>1 DEF Serves
  <2>5. Len(content) >= Smaller(Total, stream.len)
    <3> DEFINE n == Len(content)
               least == Smaller(Total, stream.len)
    <3>1. n \in Nat /\ least \in Nat /\ n >= Smaller(0 + Total, least) - 0 /\ least <= Total
      BY <1>1, <2>3 DEF Serves, Smaller
    <3> HIDE DEF n, least
    <3>2. n >= least
      BY <1>1, <3>1 DEF Smaller
    <3> QED BY <3>2 DEF n, least
  <2> QED BY <2>3, <2>4, <2>5
<1>3. CASE entry # "streaming"
  <2>1. entry = "complete"
    BY <1>3, Typed DEF WriteApply
  <2> QED BY <1>3, <2>1 DEF Inv, DataInv
<1> QED BY <1>2, <1>3

LEMMA DataKept ==
  ASSUME StreamingConstants, Inv, Next, stream'.len = stream.len
  PROVE  DataInv'
<1>1. Total \in Nat /\ stream.len \in Nat /\ DataInv
  BY DEF StreamingConstants, Inv, Shapes
<1>2. CASE UNCHANGED <<entry, data>>
  BY <1>1, <1>2 DEF DataInv, Good, Smaller
<1>3. CASE entry' \in {"streaming", "closed"}
  BY <1>3 DEF DataInv
<1>4. CASE entry' = "complete" /\ data' = [i \in 1..stream.len |-> i]
  <2>1. /\ data' \in Seq(Int) /\ Len(data') = stream.len
        /\ \A i \in 1..stream.len : data'[i] = i
    BY <1>1, <1>4
  <2>2. stream.len >= Smaller(Total, stream.len)
    BY <1>1 DEF Smaller
  <2> QED BY <2>1, <2>2 DEF DataInv, Good, Smaller
<1>5. ASSUME NEW c \in Callers, WriteApply(c)
      PROVE  DataInv'
  <2> DEFINE content == IF entry = "streaming" THEN ReadRange(0, Total) ELSE data
  <2>1. data' = [content EXCEPT ![1] = -1]
    BY <1>5 DEF WriteApply, Written
  <2>2. /\ content \in Seq(Int) /\ Len(content) >= Smaller(Total, stream.len)
        /\ \A i \in 1..Len(content) : Good(i, content[i], stream.len)
    BY <1>5, WholeBuffer
  <2> HIDE DEF content
  <2>3. /\ data' \in Seq(Int) /\ Len(data') = Len(content)
        /\ \A i \in 1..Len(content) : data'[i] = IF i = 1 THEN -1 ELSE content[i]
    <3> DEFINE n == Len(content)
               minus == -1
    <3>1. n \in Nat /\ content \in [1..n -> Int] /\ minus \in Int
      BY <2>2
    <3>2. data' = [content EXCEPT ![1] = minus]
      BY <2>1
    <3> HIDE DEF n, minus
    <3>3. data' \in [1..n -> Int]
      BY ONLY <3>1, <3>2
    <3>4. \A i \in 1..n : data'[i] = IF i = 1 THEN minus ELSE content[i]
      BY ONLY <3>1, <3>2
    <3>5. data' \in Seq(Int) /\ Len(data') = n
      BY ONLY <3>1, <3>3
    <3> QED BY <3>4, <3>5 DEF n, minus
  <2>4. ASSUME NEW i \in 1..Len(data')
        PROVE  Good(i, data'[i], stream.len)
    <3>1. i \in 1..Len(content) /\ Good(i, content[i], stream.len)
      BY <2>2, <2>3
    <3>2. CASE i = 1
      BY <2>3, <3>1, <3>2 DEF Good, Written
    <3>3. CASE i # 1
      BY <2>3, <3>1, <3>3
    <3> QED BY <3>2, <3>3
  <2> QED BY <2>2, <2>3, <2>4 DEF DataInv, Smaller, Good
<1> QED BY <1>2, <1>3, <1>4, <1>5, ContentSteps

LEMMA StoredKept ==
  ASSUME StreamingConstants, Inv, Next, stream'.len = stream.len
  PROVE  StoredIsWhole'
<1> DEFINE whole == [i \in 1..Total |-> IF i <= stream.len THEN i ELSE Hole]
<1>1. \A content \in disk : content = whole
  BY DEF Inv, StoredIsWhole
<1>2. CASE disk' = disk
  BY <1>1, <1>2 DEF StoredIsWhole
<1>3. CASE TaskStore
  <2>1. task = "storing" /\ disk' \in {disk, {ReadRange(0, Total)}}
    BY <1>3 DEF TaskStore, TaskStep
  <2>2. progress = Done /\ stream.sent = stream.len
    BY <2>1 DEF Inv, StreamInv, InProgress, Done, Failed
  <2>3. Total \in Nat \ {0} /\ stream.len \in Nat /\ 0 \in Nat
    BY DEF StreamingConstants, Inv, Shapes
  <2>4. Frontier = (IF stream.len <= Total THEN stream.len ELSE Total) /\ Downloaded = Total
    BY <2>2 DEF Frontier, Smaller, Downloaded, Done
  <2> DEFINE end == Smaller(0 + Total, Downloaded)
  <2>5. end = Total
    BY <2>3, <2>4 DEF Smaller
  <2>6. ReadRange(0, Total) =
          IF 0 >= end THEN Empty
          ELSE [i \in 1..(end - 0) |-> IF 0 + i <= Frontier THEN 0 + i ELSE Hole]
    <3>1. Shapes /\ StreamInv /\ ChunksInv
      BY DEF Inv
    <3> QED BY <2>3, <3>1, RangeRead
  <2> HIDE DEF end
  <2>7. ReadRange(0, Total) = [i \in 1..Total |-> IF 0 + i <= Frontier THEN 0 + i ELSE Hole]
    BY <2>3, <2>5, <2>6
  <2>8. \A i \in 1..Total :
          (IF 0 + i <= Frontier THEN 0 + i ELSE Hole) = IF i <= stream.len THEN i ELSE Hole
    BY <2>3, <2>4
  <2>9. ReadRange(0, Total) = whole
    BY <2>7, <2>8
  <2>10. \A content \in disk' : content = whole
    BY <1>1, <2>1, <2>9
  <2> QED BY <2>10 DEF StoredIsWhole
<1> QED BY <1>2, <1>3, ContentSteps

-----------------------------------------------------------------------------
LEMMA CallsKept ==
  ASSUME StreamingConstants, Inv, Next,
         progress = Done => progress' = Done, Frontier \in Nat, Frontier' \in Nat,
         Frontier <= Frontier', stream'.len = stream.len
  PROVE  /\ call' \in [Callers -> Calls] /\ CallsInv' /\ ServedIsStreamed'
         /\ entry' \in {"none", "streaming", "complete", "closed"}
<1>0. entry' \in {"none", "streaming", "complete", "closed"}
  BY ContentSteps DEF Inv, Shapes, WriteApply
<1>1. ASSUME /\ call' = call
             /\ UNCHANGED <<entry, writer>> \/ (entry = "none" /\ entry' = "streaming")
      PROVE  call' \in [Callers -> Calls] /\ CallsInv' /\ ServedIsStreamed'
  <2>1. call \in [Callers -> Calls] /\ CallsInv /\ ServedIsStreamed
    BY DEF Inv, Shapes
  <2>2. ServedIsStreamed'
    BY <1>1, <2>1 DEF ServedIsStreamed
  <2>3. ASSUME NEW d \in Callers
        PROVE  /\ call[d].pc # "idle" => entry' # "none"
               /\ call[d].pc = "copy" => progress' = Done \/ call[d].off + call[d].size <= Frontier'
               /\ call[d].pc = "ensure" => writer' = d /\ entry' \in {"streaming", "complete"}
    <3>1. call[d].off \in Nat /\ call[d].size \in Nat
      BY <2>1 DEF Calls
    <3>2. /\ call[d].pc # "idle" => entry # "none"
          /\ call[d].pc = "copy" => progress = Done \/ call[d].off + call[d].size <= Frontier
          /\ call[d].pc = "ensure" => writer = d /\ entry \in {"streaming", "complete"}
      BY <2>1 DEF CallsInv
    <3>3. call[d].pc = "copy" => progress' = Done \/ call[d].off + call[d].size <= Frontier'
      BY <3>1, <3>2
    <3> QED BY <1>1, <3>2, <3>3
  <2>4. CallsInv'
    BY <1>1, <2>3 DEF CallsInv
  <2> QED BY <1>1, <2>1, <2>2, <2>4
<1>2. CASE Open
  BY <1>1, <1>2 DEF Open
<1>3. CASE TaskNext
  <2>1. call' = call /\ UNCHANGED <<entry, writer>>
    BY <1>3 DEF TaskNext, TaskAsk, TaskFails, TaskReceive, TaskDone, TaskStore, TaskStep,
                handle, lock
  <2> QED BY <1>0, <1>1, <2>1
<1>4. ASSUME NEW c \in Callers, Read(c) \/ Write(c) \/ Close(c) \/ CallStep(c)
      PROVE  call' \in [Callers -> Calls] /\ CallsInv' /\ ServedIsStreamed'
  <2>1. StepOf(c)
    BY <1>4, StartsAreSteps, ReadsAreSteps, WritesAreSteps DEF CallStep
  <2> QED BY <2>1, StepOfKeeps
<1>5. ASSUME NEW d \in Syncs, Sync(d) \/ MarkStale(d)
      PROVE  call' \in [Callers -> Calls] /\ CallsInv' /\ ServedIsStreamed'
  <2>1. call' = call /\ UNCHANGED <<entry, writer>>
    BY <1>5 DEF Sync, MarkStale, handle, lock
  <2> QED BY <1>1, <2>1
<1> QED BY <1>0, <1>2, <1>3, <1>4, <1>5 DEF Next

LEMMA InvInit == ASSUME StreamingConstants, Init PROVE Inv
<1>1. stream.len \in Sent /\ stream.sent = 0 /\ stream \in [len : Sent, sent : Nat]
      /\ stream.len \in Nat /\ Total \in Nat \ {0} /\ ChunkSize \in Nat \ {0}
  <2>1. stream \in [len : Sent, sent : {0}]
    BY DEF Init
  <2>2. Sent \subseteq Nat /\ Total \in Nat \ {0} /\ ChunkSize \in Nat \ {0}
    BY DEF StreamingConstants
  <2>3. stream.len \in Sent /\ stream.sent = 0
    BY <2>1
  <2>4. stream \in [len : Sent, sent : Nat]
    BY <2>1, <2>3
  <2> QED BY <2>2, <2>3, <2>4
<1>2. Frontier = 0
  BY <1>1 DEF Frontier, Smaller
<1>3. Shapes
  <2>1. call \in [Callers -> Calls]
    BY IdleCall DEF Init
  <2>2. chunks \in [Keys -> Seq(Int)]
    BY DEF Init, Empty
  <2>3. entry = "none"
    BY DEF Init
  <2> QED BY <1>1, <2>1, <2>2, <2>3 DEF Shapes
<1>4. StreamInv
  <2>1. progress = InProgress(Frontier) /\ task = "unspawned" /\ stream.sent <= stream.len
    BY <1>1, <1>2 DEF Init
  <2> QED BY <2>1 DEF StreamInv
<1>5. ChunksInv
  <2>1. ASSUME NEW k \in Keys
        PROVE  chunks[k] = << >> /\ InChunk(k, Frontier) = 0
    <3>1. k \in Nat /\ k * ChunkSize \in Nat
      BY <1>1 DEF Keys
    <3>2. InChunk(k, Frontier) = 0
      <4> DEFINE first == k * ChunkSize
      <4>1. InChunk(k, Frontier) = IF 0 <= first THEN 0 ELSE Smaller(ChunkSize, 0 - first)
        BY <1>2 DEF InChunk
      <4>2. first \in Nat
        BY <3>1
      <4> HIDE DEF first
      <4> QED BY <4>1, <4>2
    <3> QED BY <3>2 DEF Init, Empty
  <2>2. Len(<< >>) = 0
    OBVIOUS
  <2>3. \A i \in 1..0 : FALSE
    OBVIOUS
  <2> QED BY <2>1, <2>2, <2>3 DEF ChunksInv
<1>6. \A c \in Callers : call[c] = Idle
  BY DEF Init
<1>7. CallsInv
  BY <1>6, IdleCall DEF CallsInv
<1>8. ServedIsStreamed
  BY <1>6, IdleCall DEF ServedIsStreamed
<1>9. DataInv /\ StoredIsWhole
  BY DEF Init, DataInv, StoredIsWhole
<1> QED BY <1>3, <1>4, <1>5, <1>7, <1>8, <1>9 DEF Inv

LEMMA InvNext == ASSUME StreamingConstants, Inv, Next PROVE Inv'
<1>1. /\ stream' \in [len : Sent, sent : Nat] /\ chunks' \in [Keys -> Seq(Int)]
      /\ StreamInv' /\ ChunksInv' /\ stream'.len = stream.len
      /\ Frontier \in Nat /\ Frontier' \in Nat /\ Frontier <= Frontier'
      /\ progress = Done => progress' = Done
  BY DownloadSteps
<1>2. /\ call' \in [Callers -> Calls] /\ CallsInv' /\ ServedIsStreamed'
      /\ entry' \in {"none", "streaming", "complete", "closed"}
  BY <1>1, CallsKept
<1>3. DataInv' /\ StoredIsWhole'
  BY <1>1, DataKept, StoredKept
<1>4. Shapes'
  BY <1>1, <1>2 DEF Shapes
<1> QED BY <1>1, <1>2, <1>3, <1>4 DEF Inv

LEMMA InvKept == Spec => []Inv
<1>1. Init => Inv
  BY StreamingConstants, InvInit
<1>2. Inv /\ [Next]_vars => Inv'
  <2> SUFFICES ASSUME Inv, [Next]_vars PROVE Inv'
    OBVIOUS
  <2>1. CASE Next
    BY <2>1, StreamingConstants, InvNext
  <2>2. CASE UNCHANGED vars
    BY <2>2 DEF vars, buffer, download, handle, lock, Inv, Shapes, StreamInv, ChunksInv, CallsInv,
       DataInv, ServedIsStreamed, StoredIsWhole, Frontier, InChunk, Smaller, Good
  <2> QED BY <2>1, <2>2
<1> QED BY <1>1, <1>2, PTL DEF Spec

(* Whatever read_handle returns while the file streams in, from chunks, by *)
(* a range of its own or from the complete content, and after however many *)
(* writes and refreshes, is the file's content at the range asked for.     *)
THEOREM ServedAlwaysStreamed == Spec => []ServedIsStreamed
BY InvKept, PTL DEF Inv

(* The download task gives the disk cache nothing but a whole download,    *)
(* wherever it breaks off, is aborted, or its buffer is taken over.        *)
THEOREM StoredAlwaysWhole == Spec => []StoredIsWhole
BY InvKept, PTL DEF Inv
================================================================================
