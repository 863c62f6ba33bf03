---------------------------- MODULE UploadProofs ----------------------------
(***************************************************************************)
(* Theorems about uploads.                                                 *)
(*                                                                         *)
(* The first part is about SyncProcessor, the queue, for any inodes,       *)
(* calls, permits and retry limit: its invariants, that no oneshot is      *)
(* lost, and that it implements the flush service.                         *)
(*                                                                         *)
(* The second is about UploadPipeline, the upload of one file, for any     *)
(* number of writers, saves, edits by others, crashes and revisions.  No   *)
(* save may overlap another one or an upload for what is proved about      *)
(* durability: the code does lose or misreport overlapping saves, which    *)
(* the run pipeline_overlap shows.                                         *)
(*                                                                         *)
(* The two components share this module and nothing else: each theorem     *)
(* speaks of the variables and the constants of one of them.               *)
(***************************************************************************)
EXTENDS SyncProcessor, UploadPipeline, TLAPS, SequenceTheorems, FiniteSetTheorems

------------------------------------------------------------------------------
(* The queue                                                               *)

(* What Spawn does to the three maps it touches, type-wise.                *)
LEMMA SpawnType ==
  ASSUME TypeOK, NEW S \in SUBSET Inos, NEW C \in SUBSET Calls, Spawn(S, C)
  PROVE  /\ in_flight' \subseteq Inos
         /\ waiters' \in [Inos -> SUBSET Calls]
         /\ tasks' \in [Inos -> [Stages -> Nat]]
BY DEF TypeOK, Spawn, Stages

LEMMA MovesType ==
  ASSUME TypeOK, NEW i \in Inos, NEW from \in Stages, NEW to \in Stages,
         Moves(i, from, to)
  PROVE  tasks' \in [Inos -> [Stages -> Nat]]
<1> DEFINE row == [tasks[i] EXCEPT ![from] = @ - 1, ![to] = @ + 1]
<1>1. tasks[i] \in [Stages -> Nat] /\ tasks[i][from] > 0
  BY DEF TypeOK, Moves
<1>2. tasks[i][from] - 1 \in Nat
  BY <1>1
<1>3. row \in [Stages -> Nat]
  BY <1>1, <1>2
<1>4. tasks' = [tasks EXCEPT ![i] = row]
  BY DEF Moves
<1> HIDE DEF row
<1>5. QED BY <1>3, <1>4 DEF TypeOK

LEMMA AnswerType ==
  ASSUME TypeOK, NEW C, NEW v \in CallStates, Answer(C, v)
  PROVE  call' \in [Calls -> CallStates]
BY DEF TypeOK, Answer

LEMMA ExitType ==
  ASSUME TypeOK, NEW how \in Exited, Exit(how), call' \in [Calls -> CallStates]
  PROVE  TypeOK'
BY ConstantsAssumption DEF TypeOK, Exit, Phases, retryVars, permitVars, Exited

(* Every variable keeps its type; in particular the retry count of an      *)
(* inode stays below MAX_RETRIES.                                          *)
THEOREM TypeCorrect == QueueSpec => []TypeOK
<1>1. QueueInit => TypeOK
  BY ConstantsAssumption DEF QueueInit, TypeOK, Phases, CallStates, Stages
<1>2. TypeOK /\ [QueueNext]_queueVars => TypeOK'
  <2> SUFFICES ASSUME TypeOK, [QueueNext]_queueVars PROVE TypeOK'
    OBVIOUS
  <2> USE DEF callVars, permitVars, retryVars
  <2>1. ASSUME NEW r \in SyncRequest, Send(r)
        PROVE  req_rx' \in Seq(SyncRequest)
    BY <2>1 DEF Send, TypeOK
  <2>2. ASSUME NEW i \in Inos, SendFlush(i) PROVE TypeOK'
    <3>1. Flush(i) \in SyncRequest
      BY DEF SyncRequest
    <3>2. req_rx' \in Seq(SyncRequest)
      BY <2>1, <2>2, <3>1 DEF SendFlush
    <3>3. QED BY <2>2, <3>2 DEF SendFlush, TypeOK
  <2>3. ASSUME NEW c \in Calls, NEW i \in Inos, SendFlushSync(c, i) PROVE TypeOK'
    <3>1. FlushSync(i, c) \in SyncRequest
      BY DEF SyncRequest
    <3>2. req_rx' \in Seq(SyncRequest)
      BY <2>1, <2>3, <3>1 DEF SendFlushSync, TypeOK
    <3>3. call' \in [Calls -> CallStates]
      BY <2>3 DEF SendFlushSync, TypeOK, CallStates
    <3>4. QED BY <2>3, <3>2, <3>3 DEF SendFlushSync, TypeOK
  <2>4. ASSUME NEW c \in Calls, CallTimesOut(c) PROVE TypeOK'
    BY <2>4 DEF CallTimesOut, TypeOK, CallStates
  <2>5. CASE SendShutdown
    <3>1. req_rx' \in Seq(SyncRequest)
      BY <2>1, <2>5 DEF SendShutdown, SyncRequest
    <3>2. QED BY <2>5, <3>1 DEF SendShutdown, TypeOK
  <2>6. CASE DropHandles
    BY <2>6 DEF DropHandles, TypeOK
  <2>7. ASSUME NEW r, NextRequest(r) PROVE req_rx' \in Seq(SyncRequest)
    BY <2>7 DEF NextRequest, TypeOK
  <2>8. ASSUME NEW i \in Inos, OnFlush(i) PROVE TypeOK'
    <3>1. req_rx' \in Seq(SyncRequest)
      BY <2>7, <2>8 DEF OnFlush
    <3>2. QED BY <2>8, <3>1 DEF OnFlush, TypeOK
  <2>9. ASSUME NEW i \in Inos, NEW c \in Calls, OnFlushSync(i, c) PROVE TypeOK'
    <3>1. req_rx' \in Seq(SyncRequest)
      BY <2>7, <2>9 DEF OnFlushSync
    <3>2. CASE i \in in_flight
      <4>1. waiters' = [waiters EXCEPT ![i] = @ \cup {c}]
        BY <2>9, <3>2 DEF OnFlushSync
      <4>2. waiters' \in [Inos -> SUBSET Calls]
        BY <4>1 DEF TypeOK
      <4>3. QED BY <2>9, <3>1, <3>2, <4>2 DEF OnFlushSync, TypeOK
    <3>3. CASE i \notin in_flight
      <4>1. Spawn({i}, {c}) /\ pending' \in [Inos -> {"none", "fresh", "ripe"}]
        BY <2>9, <3>3 DEF OnFlushSync, TypeOK
      <4>2. {i} \in SUBSET Inos /\ {c} \in SUBSET Calls
        OBVIOUS
      <4>3. /\ in_flight' \subseteq Inos
            /\ waiters' \in [Inos -> SUBSET Calls]
            /\ tasks' \in [Inos -> [Stages -> Nat]]
        BY <4>1, <4>2, SpawnType
      <4>4. QED BY <2>9, <3>1, <4>1, <4>3 DEF OnFlushSync, TypeOK
    <3>4. QED BY <3>2, <3>3
  <2>10. CASE OnShutdown
    <3>1. req_rx' \in Seq(SyncRequest)
      BY <2>7, <2>10 DEF OnShutdown
    <3>2. Spawn({i \in Inos : pending[i] # "none"} \ in_flight, {})
      BY <2>10 DEF OnShutdown
    <3>3. /\ in_flight' \subseteq Inos
          /\ waiters' \in [Inos -> SUBSET Calls]
          /\ tasks' \in [Inos -> [Stages -> Nat]]
      BY <3>2, SpawnType, {i \in Inos : pending[i] # "none"} \ in_flight \in SUBSET Inos,
         {} \in SUBSET Calls
    <3>4. QED BY <2>10, <3>1, <3>3 DEF OnShutdown, TypeOK, Phases
  <2>11. CASE OnTick
    <3>1. Spawn({i \in Inos : pending[i] = "ripe"} \ in_flight, {})
      BY <2>11 DEF OnTick
    <3>2. /\ in_flight' \subseteq Inos
          /\ waiters' \in [Inos -> SUBSET Calls]
          /\ tasks' \in [Inos -> [Stages -> Nat]]
      BY <3>1, SpawnType, {i \in Inos : pending[i] = "ripe"} \ in_flight \in SUBSET Inos,
         {} \in SUBSET Calls
    <3>3. pending' \in [Inos -> {"none", "fresh", "ripe"}]
      BY <2>11 DEF OnTick, TypeOK
    <3>4. QED BY <2>11, <3>2, <3>3 DEF OnTick, TypeOK
  <2>12. CASE HandleResult
    <3> DEFINE r == Head(result_rx)
               n == failed[r.ino] + 1
    <3>1. r \in UploadResult /\ result_rx' \in Seq(UploadResult)
      BY <2>12 DEF HandleResult, TypeOK
    <3>2. r.ino \in Inos /\ r.success \in BOOLEAN
      BY <3>1 DEF UploadResult
    <3>3. failed' \in [Inos -> 0 .. (MAX_RETRIES - 1)]
      <4>1. failed' = [failed EXCEPT ![r.ino] =
                         IF r.success \/ n >= MAX_RETRIES THEN 0 ELSE n]
        BY <2>12 DEF HandleResult, GivesUp
      <4>2. failed[r.ino] \in 0 .. (MAX_RETRIES - 1)
        BY <3>2 DEF TypeOK
      <4>3. (IF r.success \/ n >= MAX_RETRIES THEN 0 ELSE n)
               \in 0 .. (MAX_RETRIES - 1)
        BY <4>2, ConstantsAssumption
      <4> HIDE DEF n, r
      <4>4. QED BY <4>1, <4>3, <3>2 DEF TypeOK
    <3>4. call' \in [Calls -> CallStates]
      BY <2>12, AnswerType DEF HandleResult, Verdict, CallStates
    <3>5. QED BY <2>12, <3>1, <3>3, <3>4 DEF HandleResult, TypeOK
  <2>13. CASE DrainCompletes
    BY <2>13, AnswerType, ExitType DEF DrainCompletes, CallStates, Exited
  <2>14. CASE DrainDeadline
    <3>1. call' \in [Calls -> CallStates]
      BY <2>14 DEF DrainDeadline, TypeOK, CallStates
    <3>2. QED BY <2>14, <3>1, ExitType DEF DrainDeadline, Exited
  <2>15. CASE ChannelClosed
    BY <2>15, AnswerType, ExitType DEF ChannelClosed, CallStates, Exited
  <2>16. ASSUME NEW i \in Inos, AcquirePermit(i) PROVE TypeOK'
    <3>1. permits' \in Nat
      BY <2>16 DEF AcquirePermit, TypeOK
    <3>2. tasks' \in [Inos -> [Stages -> Nat]]
      BY <2>16, MovesType DEF AcquirePermit, Stages
    <3>3. QED BY <2>16, <3>1, <3>2 DEF AcquirePermit, TypeOK
  <2>17. ASSUME NEW i \in Inos, NEW result \in Outcomes, UploadEnds(i, result)
         PROVE  TypeOK'
    <3>1. tasks' \in [Inos -> [Stages -> Nat]]
      BY <2>17, MovesType DEF UploadEnds, Stages, Outcomes
    <3>2. QED BY <2>17, <3>1 DEF UploadEnds, TypeOK
  <2>18. ASSUME NEW i \in Inos, NEW result \in Outcomes, SendResult(i, result)
         PROVE  TypeOK'
    <3>1. [ino |-> i, success |-> Outcome(result)] \in UploadResult
      BY DEF UploadResult, Outcome
    <3>2. result_rx' \in Seq(UploadResult)
      <4>1. CASE result_rx' = Append(result_rx, [ino |-> i, success |-> Outcome(result)])
        BY <3>1, <4>1 DEF TypeOK
      <4>2. CASE UNCHANGED result_rx
        BY <4>2 DEF TypeOK
      <4>3. QED BY <2>18, <4>1, <4>2 DEF SendResult
    <3>3. tasks' \in [Inos -> [Stages -> Nat]]
      <4> DEFINE row == [tasks[i] EXCEPT ![result] = @ - 1]
      <4>1. result \in Stages /\ tasks[i] \in [Stages -> Nat] /\ tasks[i][result] > 0
        BY <2>18 DEF SendResult, TypeOK, Stages, Outcomes
      <4>2. row \in [Stages -> Nat]
        BY <4>1
      <4>3. tasks' = [tasks EXCEPT ![i] = row]
        BY <2>18 DEF SendResult
      <4> HIDE DEF row
      <4>4. QED BY <4>2, <4>3 DEF TypeOK
    <3>4. QED BY <2>18, <3>2, <3>3 DEF SendResult, TypeOK
  <2>19. ASSUME NEW i \in Inos, DebounceElapses(i) PROVE TypeOK'
    BY <2>19 DEF DebounceElapses, TypeOK
  <2>20. ASSUME NEW i \in Inos, BackoffElapses(i) PROVE TypeOK'
    BY <2>20 DEF BackoffElapses, TypeOK
  <2>21. CASE UNCHANGED queueVars
    BY <2>21 DEF queueVars, TypeOK
  <2>22. QED
    BY <2>2, <2>3, <2>4, <2>5, <2>6, <2>8, <2>9, <2>10, <2>11, <2>12, <2>13,
       <2>14, <2>15, <2>16, <2>17, <2>18, <2>19, <2>20, <2>21
    DEF QueueNext, Environment, Processor, ReceiveRequest, UploadTask, Clock
<1>3. QED
  BY <1>1, <1>2, PTL DEF QueueSpec

------------------------------------------------------------------------------
(* Uploads of one inode never overlap.                                     *)

(* The task counts of an inode, stage by stage, after each kind of step.   *)
LEMMA MovesKeepsUploads ==
  ASSUME TypeOK, NEW i \in Inos, NEW from \in Stages, NEW to \in Stages,
         \/ from = "acquiring" /\ to = "uploading"
         \/ from = "uploading" /\ to \in Outcomes,
         Moves(i, from, to), NEW j \in Inos
  PROVE  Uploads(j)' = Uploads(j)
<1>1. tasks[i] \in [Stages -> Nat] /\ tasks[j] \in [Stages -> Nat]
  BY DEF TypeOK
<1>2. \A s \in Stages : tasks[j][s] \in Nat
  BY <1>1
<1>3. \A s \in Stages : tasks'[j][s] = IF j = i /\ s = from THEN tasks[j][s] - 1
                                      ELSE IF j = i /\ s = to THEN tasks[j][s] + 1
                                      ELSE tasks[j][s]
  BY <1>1 DEF Moves, TypeOK
<1>4. CASE j # i
  BY <1>3, <1>4 DEF Uploads, Stages
<1>5. CASE j = i /\ from = "acquiring" /\ to = "uploading"
  <2>1. /\ tasks'[i]["acquiring"] = tasks[i]["acquiring"] - 1
        /\ tasks'[i]["uploading"] = tasks[i]["uploading"] + 1
        /\ tasks'[i]["succeeded"] = tasks[i]["succeeded"]
        /\ tasks'[i]["failed"] = tasks[i]["failed"]
    BY <1>3, <1>5 DEF Stages
  <2>2. QED BY <1>2, <1>5, <2>1 DEF Uploads, Stages
<1>6. CASE j = i /\ from = "uploading" /\ to = "succeeded"
  <2>1. /\ tasks'[i]["acquiring"] = tasks[i]["acquiring"]
        /\ tasks'[i]["uploading"] = tasks[i]["uploading"] - 1
        /\ tasks'[i]["succeeded"] = tasks[i]["succeeded"] + 1
        /\ tasks'[i]["failed"] = tasks[i]["failed"]
    BY <1>3, <1>6 DEF Stages
  <2>2. QED BY <1>2, <1>6, <2>1 DEF Uploads, Stages
<1>7. CASE j = i /\ from = "uploading" /\ to = "failed"
  <2>1. /\ tasks'[i]["acquiring"] = tasks[i]["acquiring"]
        /\ tasks'[i]["uploading"] = tasks[i]["uploading"] - 1
        /\ tasks'[i]["succeeded"] = tasks[i]["succeeded"]
        /\ tasks'[i]["failed"] = tasks[i]["failed"] + 1
    BY <1>3, <1>7 DEF Stages
  <2>2. QED BY <1>2, <1>7, <2>1 DEF Uploads, Stages
<1>8. QED BY <1>4, <1>5, <1>6, <1>7 DEF Outcomes

LEMMA SpawnUploads ==
  ASSUME TypeOK, NEW S \in SUBSET Inos, NEW C, Spawn(S, C), NEW j \in Inos
  PROVE  Uploads(j)' = IF j \in S THEN Uploads(j) + 1 ELSE Uploads(j)
<1>1. tasks[j] \in [Stages -> Nat]
  BY DEF TypeOK
<1>2. \A s \in Stages : tasks[j][s] \in Nat
  BY <1>1
<1>3. \A s \in Stages : tasks'[j][s] =
          IF j \in S /\ s = "acquiring" THEN tasks[j][s] + 1 ELSE tasks[j][s]
  BY <1>1 DEF Spawn
<1>4. QED BY <1>2, <1>3 DEF Uploads, Stages

LEMMA SendResultUploads ==
  ASSUME TypeOK, NEW i \in Inos, NEW result \in Outcomes,
         SendResult(i, result), NEW j \in Inos
  PROVE  /\ Uploads(j)' = IF j = i THEN Uploads(j) - 1 ELSE Uploads(j)
         /\ Uploads(i) >= 1
<1>1. tasks[j] \in [Stages -> Nat] /\ tasks[i] \in [Stages -> Nat]
  BY DEF TypeOK
<1>2. \A s \in Stages : tasks[j][s] \in Nat /\ tasks[i][s] \in Nat
  BY <1>1
<1>3. tasks[i][result] > 0
  BY DEF SendResult
<1>4. \A s \in Stages : tasks'[j][s] =
          IF j = i /\ s = result THEN tasks[j][s] - 1 ELSE tasks[j][s]
  BY <1>1 DEF SendResult, TypeOK
<1>5. QED BY <1>2, <1>3, <1>4 DEF Uploads, Stages, Outcomes

LEMMA UploadsNat ==
  ASSUME TypeOK, NEW j \in Inos PROVE Uploads(j) \in Nat
<1>1. \A s \in Stages : tasks[j][s] \in Nat
  BY DEF TypeOK
<1>2. QED BY <1>1 DEF Uploads, Stages

(* Starting uploads of inodes that are not in flight.                      *)
LEMMA SpawnSafe ==
  ASSUME TypeOK, OneUploadPerInode, NEW S \in SUBSET Inos, NEW C, Spawn(S, C),
         S \cap in_flight = {}, UNCHANGED result_rx, phase \notin Exited,
         phase' \notin Exited
  PROVE  OneUploadPerInode'
<1>1. \A j \in Inos : HasResult(j)' = HasResult(j)
  BY DEF HasResult
<1>2. \A j \in Inos : Uploads(j)' = IF j \in S THEN Uploads(j) + 1 ELSE Uploads(j)
  BY SpawnUploads
<1>3. \A j \in S : Uploads(j) = 0 /\ ~HasResult(j)
  BY UploadsNat DEF OneUploadPerInode
<1>4. in_flight' = in_flight \cup S
  BY DEF Spawn
<1>5. QED BY <1>1, <1>2, <1>3, <1>4, UploadsNat DEF OneUploadPerInode

(* Leaving the loop: nothing is spawned any more.                          *)
LEMMA ExitSafe ==
  ASSUME TypeOK, OneUploadPerInode, NEW how \in Exited, Exit(how)
  PROVE  OneUploadPerInode'
<1>1. \A j \in Inos : Uploads(j)' = Uploads(j)
  BY DEF Exit, permitVars, Uploads
<1>2. QED BY <1>1 DEF OneUploadPerInode, Exit

LEMMA HandleResultSafe ==
  ASSUME TypeOK, OneUploadPerInode, HandleResult
  PROVE  OneUploadPerInode'
<1>0. Head(result_rx) \in UploadResult
  BY DEF HandleResult, TypeOK
<1> PICK i \in Inos : i = Head(result_rx).ino
  BY <1>0 DEF UploadResult
<1>1. /\ result_rx \in Seq(UploadResult) /\ result_rx # <<>>
      /\ result_rx' = Tail(result_rx) /\ in_flight' = in_flight \ {i}
      /\ UNCHANGED <<phase, tasks>> /\ phase \notin Exited
  BY DEF HandleResult, TypeOK, permitVars, Exited
<1>2. /\ Len(result_rx') = Len(result_rx) - 1
      /\ \A k \in 1..Len(result_rx') : result_rx'[k] = result_rx[k + 1]
      /\ result_rx[1].ino = i /\ Len(result_rx) \in Nat \ {0}
  BY <1>1
<1>3. \A j \in Inos : Uploads(j)' = Uploads(j)
  BY <1>1 DEF Uploads
<1>4. ~HasResult(i)' /\ HasResult(i)
  <2>1. \A k \in 1..Len(result_rx') : k + 1 \in 1..Len(result_rx) /\ k + 1 # 1
    BY <1>2
  <2>2. 1 \in 1..Len(result_rx)
    BY <1>2
  <2>3. \A k \in 1..Len(result_rx') : result_rx'[k].ino # i
    BY <1>2, <2>1, <2>2 DEF OneUploadPerInode
  <2>4. QED BY <1>2, <2>2, <2>3 DEF HasResult
<1>5. \A j \in Inos \ {i} : HasResult(j)' = HasResult(j)
  <2> TAKE j \in Inos \ {i}
  <2>1. ASSUME HasResult(j) PROVE HasResult(j)'
    <3>1. PICK k \in 1..Len(result_rx) : result_rx[k].ino = j
      BY <2>1 DEF HasResult
    <3>2. k # 1 /\ k - 1 \in 1..Len(result_rx')
      BY <1>2, <3>1
    <3>3. result_rx'[k - 1] = result_rx[k]
      BY <1>2, <3>2
    <3>4. QED BY <3>1, <3>2, <3>3 DEF HasResult
  <2>2. ASSUME HasResult(j)' PROVE HasResult(j)
    <3>1. PICK k \in 1..Len(result_rx') : result_rx'[k].ino = j
      BY <2>2 DEF HasResult
    <3>2. k + 1 \in 1..Len(result_rx) /\ result_rx'[k] = result_rx[k + 1]
      BY <1>2, <3>1
    <3>3. QED BY <3>1, <3>2 DEF HasResult
  <2>3. QED BY <2>1, <2>2 DEF HasResult
<1>6. \A k, l \in 1..Len(result_rx') :
         result_rx'[k].ino = result_rx'[l].ino => k = l
  <2> SUFFICES ASSUME NEW k \in 1..Len(result_rx'), NEW l \in 1..Len(result_rx'),
                      result_rx'[k].ino = result_rx'[l].ino
               PROVE  k = l
    OBVIOUS
  <2>1. /\ k + 1 \in 1..Len(result_rx) /\ result_rx'[k] = result_rx[k + 1]
        /\ l + 1 \in 1..Len(result_rx) /\ result_rx'[l] = result_rx[l + 1]
    BY <1>2
  <2>2. k + 1 = l + 1
    BY <2>1 DEF OneUploadPerInode
  <2> QED BY <2>2
<1>7. QED BY <1>1, <1>3, <1>4, <1>5, <1>6 DEF OneUploadPerInode

LEMMA SendResultSafe ==
  ASSUME TypeOK, OneUploadPerInode, NEW i \in Inos, NEW result \in Outcomes,
         SendResult(i, result)
  PROVE  OneUploadPerInode'
<1>1. \A j \in Inos :
        /\ Uploads(j)' = IF j = i THEN Uploads(j) - 1 ELSE Uploads(j)
        /\ Uploads(j) \in Nat /\ Uploads(i) >= 1
  <2> TAKE j \in Inos
  <2>1. QED BY SendResultUploads, UploadsNat
<1>2. UNCHANGED <<phase, in_flight>>
  BY DEF SendResult
<1>3. CASE phase \in Exited
  <2>1. UNCHANGED result_rx
    BY <1>3 DEF SendResult
  <2>2. QED BY <1>1, <1>2, <1>3, <2>1 DEF OneUploadPerInode
<1>4. CASE phase \notin Exited
  <2> DEFINE r == [ino |-> i, success |-> Outcome(result)]
  <2>1. result_rx' = Append(result_rx, r) /\ r.ino = i /\ result_rx \in Seq(UploadResult)
    BY <1>4 DEF SendResult, TypeOK
  <2> HIDE DEF r
  <2>2. /\ Len(result_rx) \in Nat /\ Len(result_rx') = Len(result_rx) + 1
        /\ result_rx'[Len(result_rx) + 1] = r
        /\ \A k \in 1..Len(result_rx) : result_rx'[k] = result_rx[k]
    BY <2>1
  <2>3. Uploads(i) = 1 /\ ~HasResult(i)
    BY <1>1, <1>4 DEF OneUploadPerInode
  <2>4. \A k \in 1..Len(result_rx') : k \in 1..Len(result_rx) \/ k = Len(result_rx) + 1
    BY <2>2
  <2>5. \A j \in Inos : HasResult(j)' <=> (HasResult(j) \/ j = i)
    BY <2>1, <2>2, <2>4 DEF HasResult
  <2>6. \A k, l \in 1..Len(result_rx') :
           result_rx'[k].ino = result_rx'[l].ino => k = l
    BY <2>1, <2>2, <2>3, <2>4 DEF OneUploadPerInode, HasResult
  <2>7. QED BY <1>1, <1>2, <1>4, <2>3, <2>5, <2>6 DEF OneUploadPerInode
<1>5. QED BY <1>3, <1>4

(* Steps that leave tasks, results and the in_flight map alone.            *)
LEMMA FrameSafe ==
  ASSUME OneUploadPerInode, UNCHANGED <<phase, in_flight, tasks, result_rx>>
  PROVE  OneUploadPerInode'
BY DEF OneUploadPerInode, Uploads, HasResult

UploadsInv ==
  TypeOK /\ OneUploadPerInode /\ PendingNotInFlight /\ DrainLeavesNothing

(* Uploads of one inode never overlap, in_flight is exact, a request never *)
(* sits in pending while its inode is in flight, and a completed drain     *)
(* leaves nothing behind.                                                  *)
THEOREM UploadsNeverOverlap == QueueSpec => []UploadsExclusive
<1>1. QueueInit => UploadsInv
  <2> SUFFICES ASSUME QueueInit PROVE UploadsInv
    OBVIOUS
  <2>1. TypeOK
    BY ConstantsAssumption DEF QueueInit, TypeOK, Phases, CallStates, Stages
  <2>2. \A i \in Inos : Uploads(i) = 0 /\ ~HasResult(i)
    BY DEF QueueInit, Uploads, HasResult, Stages
  <2>3. QED
    BY <2>1, <2>2
    DEF QueueInit, UploadsInv, OneUploadPerInode, PendingNotInFlight, DrainLeavesNothing
<1>2. UploadsInv /\ TypeOK' /\ [QueueNext]_queueVars => UploadsInv'
  <2> SUFFICES ASSUME UploadsInv, TypeOK', [QueueNext]_queueVars PROVE UploadsInv'
    OBVIOUS
  <2> USE DEF callVars, permitVars, retryVars
  <2>0. /\ TypeOK /\ OneUploadPerInode /\ PendingNotInFlight /\ DrainLeavesNothing
        /\ "running" \notin Exited /\ "draining" \notin Exited
    BY DEF UploadsInv, Exited
  <2>1. ASSUME UNCHANGED <<phase, in_flight, tasks, result_rx, pending>>
        PROVE  UploadsInv'
    BY <2>0, <2>1, FrameSafe
    DEF UploadsInv, PendingNotInFlight, DrainLeavesNothing, Uploads
  <2>2. ASSUME NEW i \in Inos, SendFlush(i) PROVE UploadsInv'
    BY <2>1, <2>2 DEF SendFlush
  <2>3. ASSUME NEW c \in Calls, NEW i \in Inos, SendFlushSync(c, i) PROVE UploadsInv'
    BY <2>1, <2>3 DEF SendFlushSync
  <2>4. ASSUME NEW c \in Calls, CallTimesOut(c) PROVE UploadsInv'
    BY <2>1, <2>4 DEF CallTimesOut
  <2>5. CASE SendShutdown
    BY <2>1, <2>5 DEF SendShutdown
  <2>6. CASE DropHandles
    BY <2>1, <2>6 DEF DropHandles
  <2>7. ASSUME NEW i \in Inos, OnFlush(i) PROVE UploadsInv'
    <3>1. OneUploadPerInode'
      BY <2>0, <2>7, FrameSafe DEF OnFlush
    <3>2. PendingNotInFlight' /\ DrainLeavesNothing'
      BY <2>0, <2>7 DEF OnFlush, NextRequest, PendingNotInFlight, DrainLeavesNothing, TypeOK
    <3>3. QED BY <3>1, <3>2 DEF UploadsInv
  <2>8. ASSUME NEW i \in Inos, NEW c \in Calls, OnFlushSync(i, c) PROVE UploadsInv'
    <3>1. phase = "running" /\ UNCHANGED <<phase, result_rx>>
      BY <2>8 DEF OnFlushSync, NextRequest
    <3>2. CASE i \in in_flight
      BY <2>1, <2>8, <3>1, <3>2 DEF OnFlushSync
    <3>3. CASE i \notin in_flight
      <4>1. Spawn({i}, {c}) /\ pending' = [pending EXCEPT ![i] = "none"]
        BY <2>8, <3>3 DEF OnFlushSync
      <4>2. OneUploadPerInode'
        BY <2>0, <3>1, <3>3, <4>1, SpawnSafe
      <4>3. PendingNotInFlight' /\ DrainLeavesNothing'
        BY <2>0, <3>1, <4>1 DEF Spawn, PendingNotInFlight, DrainLeavesNothing, TypeOK
      <4>4. QED BY <4>2, <4>3 DEF UploadsInv
    <3>4. QED BY <3>2, <3>3
  <2>9. CASE OnShutdown
    <3> DEFINE S == {i \in Inos : pending[i] # "none"} \ in_flight
    <3>1. /\ phase = "running" /\ phase' = "draining" /\ UNCHANGED result_rx
          /\ pending' = [i \in Inos |-> "none"]
          /\ Spawn(S, {}) /\ S \in SUBSET Inos /\ S \cap in_flight = {}
      BY <2>9 DEF OnShutdown, NextRequest
    <3> HIDE DEF S
    <3>2. OneUploadPerInode'
      BY <2>0, <3>1, SpawnSafe
    <3>3. PendingNotInFlight' /\ DrainLeavesNothing'
      BY <2>0, <3>1 DEF Spawn, PendingNotInFlight, DrainLeavesNothing, TypeOK
    <3>4. QED BY <3>2, <3>3 DEF UploadsInv
  <2>10. CASE OnTick
    <3> DEFINE ready == {i \in Inos : pending[i] = "ripe"}
               S == ready \ in_flight
               retryable == {i \in due : i \notin in_flight \cup S /\ pending[i] = "none"}
    <3>1. /\ phase = "running" /\ UNCHANGED <<phase, result_rx>>
          /\ pending' = [i \in Inos |-> IF i \in retryable THEN "ripe"
                                        ELSE IF i \in ready THEN "none" ELSE pending[i]]
          /\ Spawn(S, {}) /\ S \in SUBSET Inos /\ S \cap in_flight = {}
      BY <2>10 DEF OnTick
    <3>2. OneUploadPerInode'
      <4> HIDE DEF S
      <4>1. QED BY <2>0, <3>1, SpawnSafe
    <3>3. in_flight' = in_flight \cup S /\ in_flight \subseteq Inos
      BY <2>0, <3>1 DEF Spawn, TypeOK
    <3>4. \A i \in in_flight' : pending'[i] = "none"
      BY <2>0, <3>1, <3>3 DEF PendingNotInFlight
    <3>5. DrainLeavesNothing'
      BY <3>1 DEF DrainLeavesNothing
    <3>6. QED BY <3>2, <3>4, <3>5 DEF UploadsInv, PendingNotInFlight
  <2>11. CASE HandleResult
    <3>1. OneUploadPerInode'
      BY <2>0, <2>11, HandleResultSafe
    <3>2. PendingNotInFlight' /\ DrainLeavesNothing'
      BY <2>0, <2>11 DEF HandleResult, PendingNotInFlight, DrainLeavesNothing, Exited
    <3>3. QED BY <3>1, <3>2 DEF UploadsInv
  <2>12. CASE DrainCompletes
    <3>1. Exit("drained") /\ phase = "draining" /\ in_flight = {}
      BY <2>12 DEF DrainCompletes
    <3>2. \A i \in Inos : Uploads(i) = 0 /\ Uploads(i)' = Uploads(i)
      BY <2>0, <3>1, UploadsNat DEF OneUploadPerInode, Uploads, Exit
    <3>3. OneUploadPerInode'
      BY <2>0, <3>1, ExitSafe DEF Exited
    <3>4. PendingNotInFlight' /\ DrainLeavesNothing'
      BY <2>0, <3>1, <3>2 DEF PendingNotInFlight, DrainLeavesNothing, Exit
    <3>5. QED BY <3>3, <3>4 DEF UploadsInv
  <2>13. ASSUME NEW how \in {"expired", "closed"}, Exit(how) PROVE UploadsInv'
    <3>1. OneUploadPerInode'
      BY <2>0, <2>13, ExitSafe DEF Exited
    <3>2. PendingNotInFlight' /\ DrainLeavesNothing'
      BY <2>13 DEF PendingNotInFlight, DrainLeavesNothing, Exit
    <3>3. QED BY <3>1, <3>2 DEF UploadsInv
  <2>14. CASE DrainDeadline
    BY <2>13, <2>14 DEF DrainDeadline
  <2>15. CASE ChannelClosed
    BY <2>13, <2>15 DEF ChannelClosed
  <2>16. ASSUME NEW i \in Inos, NEW from \in Stages, NEW to \in Stages,
                \/ from = "acquiring" /\ to = "uploading"
                \/ from = "uploading" /\ to \in Outcomes,
                Moves(i, from, to), UNCHANGED <<phase, in_flight, result_rx, pending>>
         PROVE  UploadsInv'
    <3>1. \A j \in Inos : Uploads(j)' = Uploads(j) /\ HasResult(j)' = HasResult(j)
      BY <2>0, <2>16, MovesKeepsUploads DEF HasResult
    <3>2. QED
      BY <2>0, <2>16, <3>1
      DEF UploadsInv, OneUploadPerInode, PendingNotInFlight, DrainLeavesNothing
  <2>17. ASSUME NEW i \in Inos, AcquirePermit(i) PROVE UploadsInv'
    BY <2>16, <2>17 DEF AcquirePermit, Stages
  <2>18. ASSUME NEW i \in Inos, NEW result \in Outcomes, UploadEnds(i, result)
         PROVE  UploadsInv'
    BY <2>16, <2>18 DEF UploadEnds, Stages, Outcomes
  <2>19. ASSUME NEW i \in Inos, NEW result \in Outcomes, SendResult(i, result)
         PROVE  UploadsInv'
    <3>1. OneUploadPerInode'
      BY <2>0, <2>19, SendResultSafe
    <3>2. UNCHANGED <<phase, pending, in_flight>>
      BY <2>19 DEF SendResult
    <3>3. phase # "drained"
      BY <2>0, <2>19, SendResultUploads DEF DrainLeavesNothing
    <3>4. QED
      BY <2>0, <3>1, <3>2, <3>3 DEF UploadsInv, PendingNotInFlight, DrainLeavesNothing
  <2>20. ASSUME NEW i \in Inos, DebounceElapses(i) PROVE UploadsInv'
    <3>1. OneUploadPerInode'
      BY <2>0, <2>20, FrameSafe DEF DebounceElapses
    <3>2. PendingNotInFlight' /\ DrainLeavesNothing'
      BY <2>0, <2>20 DEF DebounceElapses, PendingNotInFlight, DrainLeavesNothing, TypeOK
    <3>3. QED BY <3>1, <3>2 DEF UploadsInv
  <2>21. ASSUME NEW i \in Inos, BackoffElapses(i) PROVE UploadsInv'
    BY <2>1, <2>21 DEF BackoffElapses
  <2>22. CASE UNCHANGED queueVars
    BY <2>1, <2>22 DEF queueVars
  <2>23. QED
    BY <2>2, <2>3, <2>4, <2>5, <2>6, <2>7, <2>8, <2>9, <2>10, <2>11, <2>12,
       <2>14, <2>15, <2>17, <2>18, <2>19, <2>20, <2>21, <2>22
    DEF QueueNext, Environment, Processor, ReceiveRequest, UploadTask, Clock
<1>3. UploadsInv => UploadsExclusive
  BY DEF UploadsInv, UploadsExclusive
<1>4. QED
  BY <1>1, <1>2, <1>3, TypeCorrect, PTL DEF QueueSpec

------------------------------------------------------------------------------
(* Permits.  An inode has at most one task, so the tasks that hold a       *)
(* permit are as many as the inodes that have one.                         *)

Holders == {i \in Inos : HoldsPermit(i)}

LEMMA HoldersFinite == IsFiniteSet(Holders) /\ Cardinality(Holders) \in Nat
BY ConstantsAssumption, FS_Subset, FS_CardinalityType DEF Holders

(* The stages of the one task an inode has.                                *)
LEMMA OneTask ==
  ASSUME TypeOK, OneUploadPerInode, NEW i \in Inos
  PROVE  /\ \A s \in Stages : tasks[i][s] \in Nat
         /\ \A s, t \in Stages : tasks[i][s] > 0 => tasks[i][s] = 1 /\ (s # t => tasks[i][t] = 0)
<1>1. \A s \in Stages : tasks[i][s] \in Nat
  BY DEF TypeOK
<1>2. Uploads(i) <= 1
  BY DEF OneUploadPerInode
<1> DEFINE a == tasks[i]["acquiring"]
           b == tasks[i]["uploading"]
           c == tasks[i]["succeeded"]
           d == tasks[i]["failed"]
<1>3. a \in Nat /\ b \in Nat /\ c \in Nat /\ d \in Nat /\ a + b + c + d <= 1
  BY <1>1, <1>2 DEF Uploads, Stages
<1>4. /\ a > 0 => a = 1 /\ b = 0 /\ c = 0 /\ d = 0
      /\ b > 0 => b = 1 /\ a = 0 /\ c = 0 /\ d = 0
      /\ c > 0 => c = 1 /\ a = 0 /\ b = 0 /\ d = 0
      /\ d > 0 => d = 1 /\ a = 0 /\ b = 0 /\ c = 0
  <2> HIDE DEF a, b, c, d
  <2> QED  BY <1>3
<1> QED  BY <1>1, <1>4 DEF Stages

LEMMA SameHolders ==
  ASSUME \A j \in Inos : HoldsPermit(j)' <=> HoldsPermit(j), UNCHANGED permits, PermitsConserved
  PROVE  PermitsConserved'
<1>1. {i \in Inos : HoldsPermit(i)}' = {i \in Inos : HoldsPermit(i)}
  OBVIOUS
<1> QED  BY <1>1 DEF PermitsConserved

LEMMA AcquireConserves ==
  ASSUME TypeOK, OneUploadPerInode, PermitsConserved, NEW i \in Inos, AcquirePermit(i)
  PROVE  PermitsConserved'
<1>1. tasks[i]["acquiring"] > 0 /\ permits \in Nat /\ permits' = permits - 1
  BY DEF AcquirePermit, Moves, TypeOK
<1>2. i \notin Holders
  BY <1>1, OneTask DEF Holders, HoldsPermit, Stages
<1>3. Holders' = Holders \cup {i}
  <2>1. tasks \in [Inos -> [Stages -> Nat]]
    BY DEF TypeOK
  <2>2. \A j \in Inos \ {i} : tasks'[j] = tasks[j]
    BY <2>1 DEF AcquirePermit, Moves
  <2>3. tasks'[i]["uploading"] = tasks[i]["uploading"] + 1 /\ tasks[i]["uploading"] \in Nat
    BY <2>1 DEF AcquirePermit, Moves, Stages
  <2> QED  BY <2>2, <2>3 DEF Holders, HoldsPermit
<1>4. Cardinality(Holders') = Cardinality(Holders) + 1
  BY <1>2, <1>3, HoldersFinite, FS_AddElement
<1>5. permits + Cardinality(Holders) = MaxConcurrent
  BY DEF PermitsConserved, Holders
<1>6. permits' + Cardinality(Holders') = MaxConcurrent
  BY <1>1, <1>4, <1>5, HoldersFinite
<1> QED  BY <1>6 DEF PermitsConserved, Holders

LEMMA SendConserves ==
  ASSUME TypeOK, OneUploadPerInode, PermitsConserved, NEW i \in Inos, NEW result \in Outcomes,
         SendResult(i, result)
  PROVE  PermitsConserved'
<1>1. tasks[i][result] > 0 /\ permits \in Nat /\ permits' = permits + 1
  BY DEF SendResult, TypeOK
<1>2. i \in Holders
  BY <1>1 DEF Holders, HoldsPermit, Outcomes
<1>3. Holders' = Holders \ {i}
  <2>1. tasks \in [Inos -> [Stages -> Nat]] /\ result \in Stages
    BY DEF TypeOK, Outcomes, Stages
  <2>2. \A j \in Inos \ {i} : tasks'[j] = tasks[j]
    BY <2>1 DEF SendResult
  <2>3. \A s \in Stages : tasks'[i][s] = IF s = result THEN tasks[i][s] - 1 ELSE tasks[i][s]
    BY <2>1 DEF SendResult
  <2>4. \A s \in Stages : tasks'[i][s] = 0
    BY <1>1, <2>1, <2>3, OneTask
  <2>5. ~HoldsPermit(i)'
    BY <2>4 DEF HoldsPermit, Stages
  <2>6. \A j \in Inos \ {i} : HoldsPermit(j)' <=> HoldsPermit(j)
    BY <2>2 DEF HoldsPermit
  <2> QED  BY <2>5, <2>6 DEF Holders
<1>4. Cardinality(Holders') = Cardinality(Holders) - 1
  BY <1>2, <1>3, HoldersFinite, FS_RemoveElement
<1>5. permits + Cardinality(Holders) = MaxConcurrent
  BY DEF PermitsConserved, Holders
<1>6. permits' + Cardinality(Holders') = MaxConcurrent
  BY <1>1, <1>4, <1>5, HoldersFinite
<1> QED  BY <1>6 DEF PermitsConserved, Holders

(* At most MaxConcurrent uploads run at a time, and no permit is lost: not *)
(* by an upload that fails, nor by one that outlives the processor.        *)
THEOREM PermitsAlwaysConserved == QueueSpec => []PermitsConserved
<1>1. QueueInit => PermitsConserved
  <2> SUFFICES ASSUME QueueInit PROVE PermitsConserved
    OBVIOUS
  <2>1. Holders = {}
    BY DEF QueueInit, Holders, HoldsPermit, Stages
  <2>2. Cardinality(Holders) = 0
    BY <2>1, FS_EmptySet
  <2>3. permits + Cardinality(Holders) = MaxConcurrent
    BY <2>2, ConstantsAssumption DEF QueueInit
  <2> QED  BY <2>3 DEF PermitsConserved, Holders
<1>2. TypeOK /\ UploadsExclusive /\ PermitsConserved /\ [QueueNext]_queueVars => PermitsConserved'
  <2> SUFFICES ASSUME TypeOK, OneUploadPerInode, PermitsConserved, [QueueNext]_queueVars
               PROVE  PermitsConserved'
    BY DEF UploadsExclusive
  <2>1. ASSUME UNCHANGED permitVars PROVE PermitsConserved'
    BY <2>1, SameHolders DEF HoldsPermit, permitVars
  <2>2. ASSUME NEW S \in SUBSET Inos, NEW C, Spawn(S, C), UNCHANGED permits
        PROVE  PermitsConserved'
    <3>1. \A j \in Inos : \A s \in {"uploading", "succeeded", "failed"} : tasks'[j][s] = tasks[j][s]
      BY <2>2 DEF Spawn, TypeOK, Stages
    <3> QED  BY <2>2, <3>1, SameHolders DEF HoldsPermit
  <2>3. ASSUME NEW i \in Inos, NEW c \in Calls, OnFlushSync(i, c) PROVE PermitsConserved'
    BY <2>1, <2>2, <2>3 DEF OnFlushSync, permitVars
  <2>4. CASE OnShutdown \/ OnTick
    <3>1. PICK S \in SUBSET Inos : Spawn(S, {}) /\ UNCHANGED permits
      BY <2>4 DEF OnShutdown, OnTick
    <3> QED  BY <2>2, <3>1
  <2>5. ASSUME NEW i \in Inos, NEW result \in Outcomes, UploadEnds(i, result)
        PROVE  PermitsConserved'
    <3>1. tasks \in [Inos -> [Stages -> Nat]] /\ result \in Stages /\ result # "uploading"
      BY DEF TypeOK, Outcomes, Stages
    <3>2. \A j \in Inos \ {i} : tasks'[j] = tasks[j]
      BY <2>5, <3>1 DEF UploadEnds, Moves
    <3>3. tasks'[i][result] = tasks[i][result] + 1 /\ tasks[i][result] \in Nat
          /\ tasks[i]["uploading"] > 0
      BY <2>5, <3>1 DEF UploadEnds, Moves, Stages
    <3>4. HoldsPermit(i) /\ HoldsPermit(i)'
      BY <3>3 DEF HoldsPermit, Outcomes
    <3>5. \A j \in Inos \ {i} : HoldsPermit(j)' <=> HoldsPermit(j)
      BY <3>2 DEF HoldsPermit
    <3> QED  BY <2>5, <3>4, <3>5, SameHolders DEF UploadEnds
  <2>6. ASSUME NEW i \in Inos, UploadTask(i) PROVE PermitsConserved'
    BY <2>5, <2>6, AcquireConserves, SendConserves DEF UploadTask
  <2>7. CASE Environment \/ Clock
    BY <2>1, <2>7 DEF Environment, SendFlush, SendFlushSync, CallTimesOut, SendShutdown,
       DropHandles, Clock, DebounceElapses, BackoffElapses
  <2>8. CASE Processor
    BY <2>1, <2>3, <2>4, <2>8 DEF Processor, ReceiveRequest, OnFlush, HandleResult,
       DrainCompletes, DrainDeadline, ChannelClosed, Exit
  <2> QED  BY <2>1, <2>6, <2>7, <2>8 DEF QueueNext, queueVars, permitVars
<1> QED  BY <1>1, <1>2, TypeCorrect, UploadsNeverOverlap, PTL DEF QueueSpec

-----------------------------------------------------------------------------
(* The oneshots, and the flush service.                                    *)

(* The part of OneshotsAccounted about one call.                           *)
QueueOnce(c) ==
  \A k, l \in 1..Len(req_rx) :
    Carries(req_rx[k], c) /\ Carries(req_rx[l], c)
      => k = l /\ req_rx[k] = FlushSync(target[c], c)
AttachedRight(c) ==
  \A i \in Inos : c \in waiters[i] => i = target[c] /\ i \in in_flight
Accounted(c) ==
  /\ call[c] = "waiting" => Queued(c) \/ Attached(c)
  /\ ~(Queued(c) /\ Attached(c))
  /\ AttachedRight(c)
  /\ QueueOnce(c)

LEMMA AccountedAll == OneshotsAccounted <=> \A c \in Calls : Accounted(c)
BY DEF OneshotsAccounted, Accounted, QueueOnce, AttachedRight

(* A request of another call joins or leaves the queue.                    *)
LEMMA AppendOther ==
  ASSUME TypeOK, NEW c \in Calls, NEW r \in SyncRequest, ~Carries(r, c),
         req_rx' = Append(req_rx, r), target'[c] = target[c], QueueOnce(c)
  PROVE  (Queued(c)' <=> Queued(c)) /\ QueueOnce(c)'
<1>1. /\ Len(req_rx) \in Nat /\ Len(req_rx') = Len(req_rx) + 1
      /\ req_rx'[Len(req_rx) + 1] = r
      /\ \A k \in 1..Len(req_rx) : req_rx'[k] = req_rx[k]
  BY DEF TypeOK
<1>2. \A k \in 1..Len(req_rx') : k \in 1..Len(req_rx) \/ k = Len(req_rx) + 1
  BY <1>1
<1>3. \A k \in 1..Len(req_rx) : k \in 1..Len(req_rx')
  BY <1>1
<1>4. Carries(r, c)' = Carries(r, c)
  BY DEF Carries
<1>5. \A k \in 1..Len(req_rx') :
        Carries(req_rx[k], c)' => k \in 1..Len(req_rx) /\ Carries(req_rx[k], c)
  BY <1>1, <1>2, <1>4 DEF Carries
<1>6. \A k \in 1..Len(req_rx) : Carries(req_rx[k], c) => Carries(req_rx[k], c)'
  BY <1>1 DEF Carries
<1>7. Queued(c)' <=> Queued(c)
  BY <1>3, <1>5, <1>6 DEF Queued
<1>8. QueueOnce(c)'
  BY <1>1, <1>5 DEF QueueOnce
<1>9. QED BY <1>7, <1>8

LEMMA TailQueue ==
  ASSUME TypeOK, req_rx # <<>>, req_rx' = Tail(req_rx)
  PROVE  /\ Len(req_rx) \in Nat /\ Len(req_rx') = Len(req_rx) - 1
         /\ 1 \in 1..Len(req_rx) /\ req_rx[1] = Head(req_rx)
         /\ \A k \in 1..Len(req_rx') : /\ k + 1 \in 1..Len(req_rx) /\ k + 1 # 1
                                       /\ req_rx'[k] = req_rx[k + 1]
         /\ \A k \in 1..Len(req_rx) : k # 1 =>
              k - 1 \in 1..Len(req_rx') /\ req_rx'[k - 1] = req_rx[k]
<1>1. req_rx \in Seq(SyncRequest) /\ Len(req_rx) \in Nat \ {0}
  BY DEF TypeOK
<1>2. Len(req_rx') = Len(req_rx) - 1 /\ req_rx[1] = Head(req_rx)
  BY <1>1
<1>3. \A k \in 1..Len(req_rx') : req_rx'[k] = req_rx[k + 1]
  BY <1>1, <1>2
<1>4. QED BY <1>1, <1>2, <1>3

LEMMA TailOther ==
  ASSUME TypeOK, NEW c \in Calls, req_rx # <<>>, ~Carries(Head(req_rx), c),
         req_rx' = Tail(req_rx), target'[c] = target[c], QueueOnce(c)
  PROVE  (Queued(c)' <=> Queued(c)) /\ QueueOnce(c)'
<1>1. \A k \in 1..Len(req_rx') :
        Carries(req_rx[k], c)' => k + 1 \in 1..Len(req_rx) /\ Carries(req_rx[k + 1], c)
  BY TailQueue DEF Carries
<1>2. \A k \in 1..Len(req_rx) :
        Carries(req_rx[k], c) => k - 1 \in 1..Len(req_rx') /\ Carries(req_rx[k - 1], c)'
  BY TailQueue DEF Carries
<1>3. Queued(c)' <=> Queued(c)
  BY <1>1, <1>2 DEF Queued
<1>4. QueueOnce(c)'
  <2> SUFFICES ASSUME NEW k \in 1..Len(req_rx'), NEW l \in 1..Len(req_rx'),
                      Carries(req_rx[k], c)', Carries(req_rx[l], c)'
               PROVE  k = l /\ req_rx'[k] = FlushSync(target'[c], c)
    BY DEF QueueOnce, FlushSync
  <2>1. k + 1 = l + 1 /\ req_rx[k + 1] = FlushSync(target[c], c)
    BY <1>1 DEF QueueOnce
  <2>2. QED BY <2>1, TailQueue DEF FlushSync
<1>5. QED BY <1>3, <1>4

(* The oneshot of the request at the head leaves the queue for good.       *)
LEMMA TailOwn ==
  ASSUME TypeOK, NEW c \in Calls, NEW i \in Inos, req_rx # <<>>,
         Head(req_rx) = FlushSync(i, c), req_rx' = Tail(req_rx), QueueOnce(c),
         target'[c] = target[c]
  PROVE  ~Queued(c)' /\ QueueOnce(c)' /\ i = target[c] /\ Queued(c)
<1>1. Carries(req_rx[1], c) /\ 1 \in 1..Len(req_rx)
  BY TailQueue DEF Carries
<1>2. i = target[c]
  BY <1>1, TailQueue DEF QueueOnce, FlushSync
<1>3. \A k \in 1..Len(req_rx') : ~Carries(req_rx[k], c)'
  <2> SUFFICES ASSUME NEW k \in 1..Len(req_rx'), Carries(req_rx[k], c)' PROVE FALSE
    OBVIOUS
  <2>1. k + 1 \in 1..Len(req_rx) /\ k + 1 # 1 /\ Carries(req_rx[k + 1], c)
    BY TailQueue DEF Carries
  <2>2. QED BY <1>1, <2>1 DEF QueueOnce
<1>4. QED BY <1>1, <1>2, <1>3 DEF Queued, QueueOnce
LEMMA QueueUnchanged ==
  ASSUME NEW c \in Calls, UNCHANGED req_rx, target'[c] = target[c], QueueOnce(c)
  PROVE  (Queued(c)' <=> Queued(c)) /\ QueueOnce(c)'
BY DEF Queued, QueueOnce, Carries, FlushSync

(* A call whose oneshot neither moved nor was answered.                    *)
LEMMA OneshotStays ==
  ASSUME NEW c \in Calls, Accounted(c), Queued(c)' <=> Queued(c), QueueOnce(c)',
         target'[c] = target[c],
         \A i \in Inos : c \in waiters'[i] <=> c \in waiters[i],
         \A i \in Inos : c \in waiters'[i] => i \in in_flight',
         call'[c] = "waiting" => call[c] = "waiting"
  PROVE  Accounted(c)'
<1>1. Attached(c)' <=> Attached(c)
  BY DEF Attached
<1>2. AttachedRight(c)'
  BY DEF Accounted, AttachedRight
<1>3. QED BY <1>1, <1>2 DEF Accounted

(* Spawning uploads of inodes that are not in flight drops no waiter.      *)
LEMMA SpawnKeepsWaiters ==
  ASSUME TypeOK, NEW c \in Calls, AttachedRight(c), NEW S \in SUBSET Inos,
         S \cap in_flight = {}, Spawn(S, {})
  PROVE  /\ \A i \in Inos : c \in waiters'[i] <=> c \in waiters[i]
         /\ \A i \in Inos : c \in waiters'[i] => i \in in_flight'
<1>1. \A i \in Inos : waiters'[i] = IF i \in S THEN {} ELSE waiters[i]
  BY DEF Spawn
<1>2. in_flight' = in_flight \cup S
  BY DEF Spawn
<1>3. QED BY <1>1, <1>2 DEF AttachedRight

(* Every flush_handle call that waits has its oneshot in exactly one       *)
(* place, from which it will be answered.                                  *)
THEOREM OneshotsNeverLost == QueueSpec => []OneshotsAccounted
<1>1. QueueInit => OneshotsAccounted
  BY DEF QueueInit, OneshotsAccounted, Queued, Attached
<1>2. TypeOK /\ OneshotsAccounted /\ [QueueNext]_queueVars => OneshotsAccounted'
  <2> SUFFICES ASSUME TypeOK, OneshotsAccounted, [QueueNext]_queueVars, NEW c \in Calls
               PROVE  Accounted(c)'
    BY DEF OneshotsAccounted, Accounted, QueueOnce, AttachedRight
  <2> USE DEF callVars, permitVars, retryVars
  <2>0. Accounted(c) /\ QueueOnce(c) /\ AttachedRight(c)
    BY AccountedAll DEF Accounted
  <2>1. ASSUME UNCHANGED <<req_rx, waiters, in_flight, target>>,
               call'[c] = "waiting" => call[c] = "waiting"
        PROVE  Accounted(c)'
    BY <2>0, <2>1, QueueUnchanged, OneshotStays DEF AttachedRight
  <2>2. ASSUME NEW r \in SyncRequest, Send(r), ~Carries(r, c),
               UNCHANGED <<waiters, in_flight>>, target'[c] = target[c],
               call'[c] = call[c]
        PROVE  Accounted(c)'
    <3>1. req_rx' = Append(req_rx, r)
      BY <2>2 DEF Send
    <3>2. (Queued(c)' <=> Queued(c)) /\ QueueOnce(c)'
      BY <2>0, <2>2, <3>1, AppendOther
    <3>3. QED BY <2>0, <2>2, <3>2, OneshotStays DEF AttachedRight
  <2>3. ASSUME NEW i \in Inos, SendFlush(i) PROVE Accounted(c)'
    <3>0. Flush(i) \in SyncRequest
      BY DEF SyncRequest
    <3>1. ~Carries(Flush(i), c)
      BY DEF Carries, Flush, FlushSync
    <3>2. QED BY <3>0, <2>2, <2>3, <3>1 DEF SendFlush
  <2>4. CASE SendShutdown
    <3>0. Shutdown \in SyncRequest
      BY DEF SyncRequest
    <3>1. ~Carries(Shutdown, c)
      BY DEF Carries, Shutdown, FlushSync
    <3>2. QED BY <3>0, <2>2, <2>4, <3>1 DEF SendShutdown
  <2>5. ASSUME NEW d \in Calls, NEW i \in Inos, SendFlushSync(d, i) PROVE Accounted(c)'
    <3>1. FlushSync(i, d) \in SyncRequest /\ UNCHANGED <<waiters, in_flight>>
      BY <2>5 DEF SyncRequest, SendFlushSync
    <3>2. CASE d # c
      <4>1. ~Carries(FlushSync(i, d), c)
        BY <3>2 DEF Carries, FlushSync
      <4>2. call'[c] = call[c] /\ target'[c] = target[c]
        BY <2>5, <3>2 DEF SendFlushSync, TypeOK
      <4>3. CASE Send(FlushSync(i, d))
        BY <2>2, <3>1, <4>1, <4>2, <4>3
      <4>4. CASE UNCHANGED req_rx
        BY <2>0, <3>1, <4>2, <4>4, QueueUnchanged, OneshotStays DEF AttachedRight
      <4>5. QED BY <2>5, <4>3, <4>4 DEF SendFlushSync
    <3>3. CASE d = c
      <4>1. ~Queued(c) /\ ~Attached(c) /\ target'[c] = i /\ ~Attached(c)'
        BY <2>5, <3>1, <3>3 DEF SendFlushSync, TypeOK, Attached
      <4>2. AttachedRight(c)'
        BY <4>1 DEF AttachedRight, Attached
      <4>3. CASE Send(FlushSync(i, c))
        <5>1. /\ Len(req_rx) \in Nat /\ Len(req_rx') = Len(req_rx) + 1
              /\ req_rx'[Len(req_rx) + 1] = FlushSync(i, c)
              /\ \A k \in 1..Len(req_rx) : req_rx'[k] = req_rx[k]
          BY <4>3 DEF Send, TypeOK
        <5>2. \A k \in 1..Len(req_rx') : Carries(req_rx[k], c)' => k = Len(req_rx) + 1
          BY <4>1, <5>1 DEF Queued, Carries
        <5>3. Carries(FlushSync(i, c), c) /\ Len(req_rx) + 1 \in 1..Len(req_rx')
          BY <5>1 DEF Carries
        <5>4. Queued(c)'
          BY <5>1, <5>3 DEF Queued, Carries
        <5>5. QueueOnce(c)'
          BY <4>1, <5>1, <5>2 DEF QueueOnce, FlushSync
        <5>6. QED BY <4>1, <4>2, <5>4, <5>5 DEF Accounted
      <4>4. CASE UNCHANGED req_rx /\ call' = [call EXCEPT ![c] = "closed"]
        <5>1. ~Queued(c)' /\ call'[c] = "closed"
          BY <4>1, <4>4 DEF Queued, Carries, TypeOK
        <5>2. QueueOnce(c)'
          BY <5>1 DEF QueueOnce, Queued
        <5>3. QED BY <4>1, <4>2, <5>1, <5>2 DEF Accounted
      <4>5. QED BY <2>5, <3>3, <4>3, <4>4 DEF SendFlushSync
    <3>4. QED BY <3>2, <3>3
  <2>6. ASSUME NEW d \in Calls, CallTimesOut(d) PROVE Accounted(c)'
    BY <2>1, <2>6 DEF CallTimesOut, TypeOK
  <2>7. CASE DropHandles
    BY <2>1, <2>7 DEF DropHandles
  <2>8. ASSUME NEW r, NextRequest(r), ~Carries(r, c), UNCHANGED <<call, target>>
        PROVE  (Queued(c)' <=> Queued(c)) /\ QueueOnce(c)'
    BY <2>0, <2>8, TailOther DEF NextRequest
  <2>9. ASSUME NEW i \in Inos, OnFlush(i) PROVE Accounted(c)'
    <3>1. ~Carries(Flush(i), c)
      BY DEF Carries, Flush, FlushSync
    <3>2. (Queued(c)' <=> Queued(c)) /\ QueueOnce(c)'
      BY <2>8, <2>9, <3>1 DEF OnFlush
    <3>3. QED BY <2>0, <2>9, <3>2, OneshotStays DEF OnFlush, AttachedRight
  <2>10. ASSUME NEW i \in Inos, NEW d \in Calls, OnFlushSync(i, d) PROVE Accounted(c)'
    <3>1. /\ NextRequest(FlushSync(i, d)) /\ UNCHANGED <<call, target>>
          /\ in_flight' = in_flight \cup {i}
          /\ waiters' = [waiters EXCEPT ![i] = IF i \in in_flight THEN @ \cup {d} ELSE {d}]
      BY <2>10 DEF OnFlushSync, Spawn, TypeOK
    <3>2. CASE d # c
      <4>1. ~Carries(FlushSync(i, d), c)
        BY <3>2 DEF Carries, FlushSync
      <4>2. (Queued(c)' <=> Queued(c)) /\ QueueOnce(c)'
        BY <2>8, <3>1, <4>1
      <4>3. \A j \in Inos : c \in waiters'[j] <=> c \in waiters[j]
        BY <2>0, <3>1, <3>2 DEF AttachedRight, TypeOK
      <4>4. QED BY <2>0, <3>1, <4>2, <4>3, OneshotStays DEF AttachedRight
    <3>3. CASE d = c
      <4>1. ~Queued(c)' /\ QueueOnce(c)' /\ i = target[c] /\ Queued(c)
        BY <2>0, <3>1, <3>3, TailOwn DEF NextRequest
      <4>2. c \in waiters'[i] /\ i \in in_flight'
        BY <3>1, <3>3 DEF TypeOK
      <4>3. \A j \in Inos \ {i} : c \notin waiters'[j]
        BY <2>0, <3>1, <4>1 DEF AttachedRight, TypeOK
      <4>4. AttachedRight(c)' /\ Attached(c)'
        BY <3>1, <4>1, <4>2, <4>3 DEF AttachedRight, Attached
      <4>5. QED BY <4>1, <4>4 DEF Accounted
    <3>4. QED BY <3>2, <3>3
  <2>11. CASE OnShutdown
    <3> DEFINE S == {i \in Inos : pending[i] # "none"} \ in_flight
    <3>1. NextRequest(Shutdown) /\ Spawn(S, {}) /\ UNCHANGED <<call, target>>
      BY <2>11 DEF OnShutdown
    <3>2. S \in SUBSET Inos /\ S \cap in_flight = {}
      OBVIOUS
    <3> HIDE DEF S
    <3>3. ~Carries(Shutdown, c)
      BY DEF Carries, Shutdown, FlushSync
    <3>4. (Queued(c)' <=> Queued(c)) /\ QueueOnce(c)'
      BY <2>8, <3>1, <3>3
    <3>5. QED BY <2>0, <3>1, <3>2, <3>4, SpawnKeepsWaiters, OneshotStays
  <2>12. CASE OnTick
    <3> DEFINE S == {i \in Inos : pending[i] = "ripe"} \ in_flight
    <3>1. Spawn(S, {}) /\ UNCHANGED <<req_rx, call, target>>
      BY <2>12 DEF OnTick
    <3>2. S \in SUBSET Inos /\ S \cap in_flight = {}
      OBVIOUS
    <3> HIDE DEF S
    <3>3. QED BY <2>0, <3>1, <3>2, QueueUnchanged, SpawnKeepsWaiters, OneshotStays
  <2>13. CASE HandleResult
    <3>0. Head(result_rx) \in UploadResult
      BY <2>13 DEF HandleResult, TypeOK
    <3> PICK i \in Inos : i = Head(result_rx).ino
      BY <3>0 DEF UploadResult
    <3>1. /\ UNCHANGED <<req_rx, target>> /\ in_flight' = in_flight \ {i}
          /\ waiters' = [waiters EXCEPT ![i] = {}]
          /\ Answer(waiters[i], IF Head(result_rx).success THEN "ok" ELSE "failed")
      BY <2>13 DEF HandleResult, Verdict
    <3>2. (Queued(c)' <=> Queued(c)) /\ QueueOnce(c)'
      BY <2>0, <3>1, QueueUnchanged
    <3>3. \A j \in Inos : waiters'[j] = IF j = i THEN {} ELSE waiters[j]
      BY <3>1 DEF TypeOK
    <3>4. CASE c \in waiters[i]
      <4>1. i = target[c] /\ Attached(c)
        BY <2>0, <3>4 DEF AttachedRight, Attached
      <4>2. ~Attached(c)' /\ AttachedRight(c)'
        BY <2>0, <3>3, <4>1 DEF AttachedRight, Attached
      <4>3. call'[c] # "waiting"
        BY <3>1, <3>4 DEF Answer
      <4>4. QED BY <3>2, <4>2, <4>3 DEF Accounted
    <3>5. CASE c \notin waiters[i]
      <4>1. \A j \in Inos : c \in waiters'[j] <=> c \in waiters[j]
        BY <3>3, <3>5
      <4>2. \A j \in Inos : c \in waiters'[j] => j \in in_flight'
        BY <2>0, <3>1, <3>3 DEF AttachedRight
      <4>3. call'[c] = call[c] /\ target'[c] = target[c]
        BY <3>1, <3>5 DEF Answer
      <4>4. QED BY <2>0, <3>2, <4>1, <4>2, <4>3, OneshotStays
    <3>6. QED BY <3>4, <3>5
  <2>14. ASSUME NEW how \in Exited, Exit(how), call'[c] # "waiting" PROVE Accounted(c)'
    <3>1. ~Queued(c)' /\ ~Attached(c)' /\ AttachedRight(c)' /\ QueueOnce(c)'
      BY <2>14 DEF Exit, Queued, Attached, AttachedRight, QueueOnce
    <3>2. QED BY <2>14, <3>1 DEF Accounted
  <2>15. CASE DrainCompletes
    <3>1. ~Attached(c)
      BY <2>0, <2>15 DEF DrainCompletes, Attached, AttachedRight
    <3>2. call'[c] # "waiting"
      BY <2>0, <2>15, <3>1 DEF DrainCompletes, Answer, QueuedCalls, Accounted
    <3>3. QED BY <2>14, <2>15, <3>2 DEF DrainCompletes, Exited
  <2>16. CASE DrainDeadline
    <3>1. call'[c] # "waiting"
      BY <2>0, <2>16 DEF DrainDeadline, Accounted
    <3>2. QED BY <2>14, <2>16, <3>1 DEF DrainDeadline, Exited
  <2>17. CASE ChannelClosed
    <3>1. ~Queued(c)
      BY <2>17 DEF ChannelClosed, Queued
    <3>2. call'[c] # "waiting"
      BY <2>0, <2>17, <3>1 DEF ChannelClosed, Answer, AttachedCalls, Accounted
    <3>3. QED BY <2>14, <2>17, <3>2 DEF ChannelClosed, Exited
  <2>18. ASSUME NEW i \in Inos, UploadTask(i) PROVE Accounted(c)'
    BY <2>1, <2>18 DEF UploadTask, AcquirePermit, UploadEnds, SendResult
  <2>19. CASE Clock
    BY <2>1, <2>19 DEF Clock, DebounceElapses, BackoffElapses
  <2>20. CASE UNCHANGED queueVars
    BY <2>1, <2>20 DEF queueVars
  <2>21. QED
    BY <2>3, <2>4, <2>5, <2>6, <2>7, <2>9, <2>10, <2>11, <2>12, <2>13, <2>15,
       <2>16, <2>17, <2>18, <2>19, <2>20
    DEF QueueNext, Environment, Processor, ReceiveRequest
<1>3. QED
  BY <1>1, <1>2, TypeCorrect, PTL DEF QueueSpec

------------------------------------------------------------------------------
(* The refinement: in_flight is what the service calls uploading.          *)

(* Leaving the loop turns down every call that waits.                      *)
LEMMA ExitIsStop ==
  ASSUME TypeOK, TypeOK', NEW how \in Exited, Exit(how), phase \notin Exited,
         \A c \in Calls : IF call[c] = "waiting" THEN call'[c] \in {"failed", "closed"}
                                                 ELSE call'[c] = call[c]
  PROVE  Service!Stop
<1>1. call' \in [Calls -> Service!CallStates]
  BY DEF TypeOK, CallStates, Service!CallStates
<1>2. QED BY <1>1 DEF Exit, Service!Stop, Service!Waiting

(* A flush is confirmed only by the head of the result channel, and that   *)
(* result is a success of the inode the call flushes.                      *)
THEOREM AnsweredByOwnUpload == QueueSpec => AnsweredByItsUpload
<1>1. TypeOK /\ OneshotsAccounted /\ [QueueNext]_queueVars => ConfirmedByItsUpload
  <2> SUFFICES ASSUME TypeOK, OneshotsAccounted, [QueueNext]_queueVars, NEW c \in Calls,
                      call[c] = "waiting", call'[c] = "ok"
               PROVE  /\ result_rx # <<>>
                      /\ Head(result_rx) = [ino |-> target[c], success |-> TRUE]
    BY DEF ConfirmedByItsUpload
  <2>1. CASE HandleResult
    <3>1. result_rx # <<>> /\ Head(result_rx) \in UploadResult
      BY <2>1 DEF HandleResult, TypeOK
    <3>2. c \in waiters[Head(result_rx).ino] /\ Head(result_rx).success
      BY <2>1, <3>1 DEF HandleResult, Answer, Verdict, UploadResult
    <3>3. target[c] = Head(result_rx).ino
      BY <3>1, <3>2 DEF OneshotsAccounted, UploadResult
    <3>4. QED BY <3>1, <3>2, <3>3 DEF UploadResult
  <2>2. CASE Environment
    BY <2>2 DEF Environment, SendFlush, SendFlushSync, CallTimesOut, SendShutdown,
                DropHandles, Send, callVars, TypeOK
  <2>3. CASE ReceiveRequest \/ OnTick
    BY <2>3 DEF ReceiveRequest, OnFlush, OnFlushSync, OnShutdown, OnTick, callVars
  <2>4. CASE DrainCompletes \/ DrainDeadline \/ ChannelClosed
    BY <2>4 DEF DrainCompletes, DrainDeadline, ChannelClosed, Answer
  <2>5. CASE \E i \in Inos : UploadTask(i)
    BY <2>5 DEF UploadTask, AcquirePermit, UploadEnds, SendResult, callVars
  <2>6. CASE Clock
    BY <2>6 DEF Clock, DebounceElapses, BackoffElapses, callVars
  <2>7. CASE UNCHANGED queueVars
    BY <2>7 DEF queueVars
  <2>8. QED
    BY <2>1, <2>2, <2>3, <2>4, <2>5, <2>6, <2>7 DEF QueueNext, Processor
<1>2. QED
  BY <1>1, TypeCorrect, OneshotsNeverLost, PTL DEF QueueSpec, AnsweredByItsUpload

(* The queue, with its channels, debounce windows, retries, permits and    *)
(* shutdown, implements the flush service: no flush is confirmed but by a  *)
(* successful upload of its inode, no upload overlaps another of the same  *)
(* inode, and nobody is left waiting when it stops.                        *)
THEOREM QueueImplementsService == QueueSpec => ImplementsService
<1>1. QueueInit => Service!Init
  BY DEF QueueInit, Service!Init, Exited
<1>2. /\ TypeOK /\ TypeOK' /\ OneUploadPerInode /\ OneshotsAccounted /\ [QueueNext]_queueVars
      => [Service!Next]_(Service!vars)
  <2> SUFFICES ASSUME TypeOK, TypeOK', OneUploadPerInode, OneshotsAccounted, [QueueNext]_queueVars
               PROVE  Service!Next \/ UNCHANGED Service!vars
    OBVIOUS
  <2> USE DEF callVars, permitVars, retryVars
  <2>1. ASSUME UNCHANGED <<phase, in_flight, call, target>>
        PROVE  UNCHANGED Service!vars
    BY <2>1 DEF Service!vars
  <2>2. ASSUME NEW i \in Inos, SendFlush(i) PROVE UNCHANGED Service!vars
    BY <2>1, <2>2 DEF SendFlush
  <2>3. ASSUME NEW c \in Calls, NEW i \in Inos, SendFlushSync(c, i) PROVE Service!Next
    <3>1. Service!Begin(c, i)
      BY <2>3 DEF SendFlushSync, Send, Service!Begin, Service!Waiting
    <3>2. QED BY <3>1 DEF Service!Next
  <2>4. ASSUME NEW c \in Calls, CallTimesOut(c) PROVE Service!Next
    <3>1. Service!TimeOut(c)
      BY <2>4 DEF CallTimesOut, Service!TimeOut, Service!Waiting
    <3>2. QED BY <3>1 DEF Service!Next
  <2>5. CASE SendShutdown \/ DropHandles
    BY <2>1, <2>5 DEF SendShutdown, DropHandles
  <2>6. ASSUME NEW i \in Inos, OnFlush(i) PROVE UNCHANGED Service!vars
    BY <2>1, <2>6 DEF OnFlush
  <2>7. ASSUME NEW S \in SUBSET Inos, NEW C, Spawn(S, C), S \cap in_flight = {},
               phase \notin Exited, phase' \notin Exited, UNCHANGED <<call, target>>
        PROVE  Service!Next
    <3>1. Service!Start(S)
      BY <2>7 DEF Spawn, Service!Start
    <3>2. QED BY <3>1 DEF Service!Next
  <2>8. ASSUME NEW i \in Inos, NEW c \in Calls, OnFlushSync(i, c)
        PROVE  Service!Next \/ UNCHANGED Service!vars
    <3>1. CASE i \in in_flight
      BY <2>1, <2>8, <3>1 DEF OnFlushSync
    <3>2. CASE i \notin in_flight
      BY <2>7, <2>8, <3>2 DEF OnFlushSync, NextRequest, Exited
    <3>3. QED BY <3>1, <3>2
  <2>9. CASE OnShutdown
    BY <2>7, <2>9, {i \in Inos : pending[i] # "none"} \ in_flight \in SUBSET Inos
    DEF OnShutdown, NextRequest, Exited
  <2>10. CASE OnTick
    BY <2>7, <2>10, {i \in Inos : pending[i] = "ripe"} \ in_flight \in SUBSET Inos
    DEF OnTick, Exited
  <2>11. CASE HandleResult
    <3>0. Head(result_rx) \in UploadResult
      BY <2>11 DEF HandleResult, TypeOK
    <3> PICK i \in Inos : i = Head(result_rx).ino
      BY <3>0 DEF UploadResult
    <3> DEFINE answer == IF Head(result_rx).success THEN "ok" ELSE "failed"
               C == {c \in waiters[i] : call[c] = "waiting"}
    <3>1. /\ in_flight' = in_flight \ {i} /\ UNCHANGED <<phase, target>>
          /\ Answer(waiters[i], answer) /\ phase \notin Exited /\ result_rx # <<>>
      BY <2>11 DEF HandleResult, Verdict, Exited
    <3>2. i \in in_flight
      <4>1. 1 \in 1..Len(result_rx) /\ result_rx[1].ino = i
        BY <3>1 DEF TypeOK
      <4>2. HasResult(i)
        BY <4>1 DEF HasResult
      <4>3. QED BY <3>1, <4>2 DEF OneUploadPerInode
    <3>3. C \subseteq Calls /\ \A c \in C : target[c] = i
      BY DEF OneshotsAccounted, TypeOK
    <3>4. C \in SUBSET Service!Waiting
      BY <3>3 DEF Service!Waiting
    <3>5. call' = [c \in Calls |-> IF c \in C THEN answer ELSE call[c]]
      BY <3>1 DEF Answer
    <3>6. answer \in Service!Answers
      BY DEF Service!Answers
    <3> HIDE DEF C, answer
    <3>7. Service!End(i, answer, C)
      BY <3>1, <3>2, <3>3, <3>5 DEF Service!End
    <3>8. QED BY <3>4, <3>6, <3>7 DEF Service!Next
  <2>12. CASE DrainCompletes
    <3>1. \A c \in Calls : ~Attached(c)
      BY <2>12 DEF DrainCompletes, Attached, OneshotsAccounted
    <3>2. Service!Stop
      BY <2>12, <3>1, ExitIsStop
      DEF DrainCompletes, Answer, QueuedCalls, OneshotsAccounted, Exited
    <3>3. QED BY <3>2 DEF Service!Next
  <2>13. CASE DrainDeadline
    <3>1. Service!Stop
      BY <2>13, ExitIsStop DEF DrainDeadline, OneshotsAccounted, Exited
    <3>2. QED BY <3>1 DEF Service!Next
  <2>14. CASE ChannelClosed
    <3>1. \A c \in Calls : ~Queued(c)
      BY <2>14 DEF ChannelClosed, Queued
    <3>2. Service!Stop
      BY <2>14, <3>1, ExitIsStop
      DEF ChannelClosed, Answer, AttachedCalls, OneshotsAccounted, Exited
    <3>3. QED BY <3>2 DEF Service!Next
  <2>15. ASSUME NEW i \in Inos, UploadTask(i) PROVE UNCHANGED Service!vars
    BY <2>1, <2>15 DEF UploadTask, AcquirePermit, UploadEnds, SendResult
  <2>16. CASE Clock
    BY <2>1, <2>16 DEF Clock, DebounceElapses, BackoffElapses
  <2>17. CASE UNCHANGED queueVars
    BY <2>1, <2>17 DEF queueVars
  <2>18. QED
    BY <2>2, <2>3, <2>4, <2>5, <2>6, <2>8, <2>9, <2>10, <2>11, <2>12, <2>13,
       <2>14, <2>15, <2>16, <2>17
    DEF QueueNext, Environment, Processor, ReceiveRequest
<1>3. QED
  BY <1>1, <1>2, TypeCorrect, UploadsNeverOverlap, OneshotsNeverLost, PTL
  DEF QueueSpec, Service!Spec, ImplementsService, UploadsExclusive

------------------------------------------------------------------------------
(* The upload of one file                                                  *)

Tasks == {Uploader, Recoverer}

WriterAt == {"idle", "cloning", "writing", "renaming", "queued", "waiting"}
UploaderAt ==
  {"idle", "starting", "checking", "copying", "cloning", "writing", "renaming", "putting",
   "locked", "uploaded", "copied", "removing", "done"}
RecovererAt == {"idle", "due", "putting", "uploaded", "removing"}
ProcessAt == WriterAt \cup UploaderAt \cup RecovererAt

One(S) == \A s, t \in S : s = t

(* Where every process can be, and what it has.                            *)
Places ==
  /\ pc \in [Procs -> ProcessAt]
  /\ \A w \in Writers : pc[w] \in WriterAt
  /\ pc[Uploader] \in UploaderAt
  /\ pc[Recoverer] \in RecovererAt

Stores ==
  /\ buffer \subseteq Saves /\ One(buffer)
  /\ disk \subseteq Saves /\ One(disk)
  /\ tmp \subseteq Saves /\ One(tmp)
  /\ clone \in [Procs -> SUBSET Saves] /\ \A p \in Procs : One(clone[p])

Numbers ==
  /\ server \in [content : Int, etag : Nat]
  /\ saves \in 0..MaxSaves
  /\ version \in [Writers -> 0..MaxSaves]
  /\ \A w \in Writers : pc[w] # "idle" => version[w] \in 1..saves
  /\ content \in [Tasks -> 0..MaxSaves]
  /\ outcome \in BOOLEAN
  /\ edits \in Nat
  /\ safe \in 0..saves

Types == Places /\ Stores /\ Numbers

------------------------------------------------------------------------------
(* Types *)

LEMMA ProcsApart ==
  /\ Uploader \in Procs /\ Recoverer \in Procs /\ Uploader # Recoverer
  /\ Uploader \notin Writers /\ Recoverer \notin Writers
  /\ \A w \in Writers : w \in Procs /\ w # Uploader /\ w # Recoverer
  /\ \A p \in Procs : p \in Writers \/ p = Uploader \/ p = Recoverer
BY PipelineConstants DEF Procs, Uploader, Recoverer

LEMMA PendingIsSave ==
  ASSUME Stores
  PROVE  Pending \subseteq Saves /\ One(Pending)
BY DEF Stores, Pending

LEMMA InitTypes == Init => Types
<1> SUFFICES ASSUME Init PROVE Types
  OBVIOUS
<1> USE DEF Init
<1>1. Places
  BY ProcsApart DEF Places, ProcessAt, WriterAt, UploaderAt, RecovererAt
<1>2. Stores
  BY DEF Stores, One
<1>3. Numbers
  BY PipelineConstants, ProcsApart DEF Numbers, Tasks
<1> QED  BY <1>1, <1>2, <1>3 DEF Types

(* A step of one process to a stage of its own.                            *)
LEMMA OneMoves ==
  ASSUME Places, NEW p \in Procs, NEW stage, Goto(p, stage),
         \/ p \in Writers /\ stage \in WriterAt
         \/ p = Uploader /\ stage \in UploaderAt
         \/ p = Recoverer /\ stage \in RecovererAt
  PROVE  /\ Places' /\ pc'[p] = stage
         /\ \A q \in Procs : q # p => pc'[q] = pc[q]
<1>1. pc' = [pc EXCEPT ![p] = stage] /\ stage \in ProcessAt
  BY DEF Goto, ProcessAt
<1>2. pc' \in [Procs -> ProcessAt] /\ pc'[p] = stage /\ \A q \in Procs : q # p => pc'[q] = pc[q]
  BY <1>1 DEF Places
<1> QED  BY <1>2, ProcsApart DEF Places

LEMMA WriterTypes ==
  ASSUME Types, NEW w \in Writers, Writer(w)
  PROVE  Types'
<1> USE DEF Types, storeVars, serverVars, taskVars, countVars, historyVars
<1>1. CASE Save(w)
  <2> USE <1>1 DEF Save
  <2>1. Places' /\ pc'[w] = "cloning" /\ \A q \in Procs : q # w => pc'[q] = pc[q]
    BY OneMoves, ProcsApart DEF WriterAt
  <2>2. Stores'
    BY PipelineConstants DEF Stores, One, Saves, Numbers
  <2>3. Numbers'
    BY <2>1, PipelineConstants, ProcsApart DEF Numbers
  <2> QED  BY <2>1, <2>2, <2>3
<1>2. CASE Receive(w)
  <2> USE <1>2 DEF Receive
  <2>1. /\ pc' \in [Procs -> ProcessAt] /\ pc'[w] = "waiting"
        /\ pc'[Uploader] = IF pc[Uploader] = "idle" THEN "starting" ELSE pc[Uploader]
        /\ \A q \in Procs : q # w /\ q # Uploader => pc'[q] = pc[q]
    BY ProcsApart DEF Places, ProcessAt, WriterAt, UploaderAt
  <2>2. Places'
    BY <2>1, ProcsApart DEF Places, WriterAt, UploaderAt
  <2>3. Numbers'
    BY <2>1, ProcsApart DEF Numbers
  <2> QED  BY <2>2, <2>3 DEF Stores
<1>3. CASE FlushTimesOut(w)
  <2> USE <1>3 DEF FlushTimesOut
  <2>1. Places' /\ pc'[w] = "idle" /\ \A q \in Procs : q # w => pc'[q] = pc[q]
    BY OneMoves, ProcsApart DEF WriterAt
  <2>2. Numbers'
    BY <2>1, ProcsApart DEF Numbers
  <2> QED  BY <2>1, <2>2 DEF Stores
<1> QED  BY <1>1, <1>2, <1>3 DEF Writer

(* Who persists is a writer or the uploader.                               *)
LEMMA EndOfPersist ==
  ASSUME Types, NEW p \in Procs, NEW ok \in BOOLEAN, PersistEnds(p, ok),
         pc[p] \in {"cloning", "writing", "renaming"}
  PROVE  /\ Places' /\ \A q \in Procs : q # p => pc'[q] = pc[q]
         /\ p \in Writers => pc'[p] = (IF ok THEN "queued" ELSE "idle") /\ version[p] \in 1..saves
         /\ p \notin Writers => p = Uploader /\ pc'[p] = "putting"
         /\ safe' = IF ok /\ p \in Writers /\ version[p] > safe THEN version[p] ELSE safe
         /\ safe' \in 0..saves /\ safe' >= safe
<1> USE DEF Types, PersistEnds
<1>1. p \in Writers \/ p = Uploader
  BY ProcsApart DEF Places, RecovererAt
<1>2. CASE p \in Writers
  <2>1. version[p] \in 1..saves
    BY <1>2 DEF Numbers
  <2>2. safe' \in 0..saves /\ safe' >= safe
    BY <2>1, PipelineConstants DEF Numbers
  <2>3. Goto(p, IF ok THEN "queued" ELSE "idle")
    BY <1>2, ProcsApart
  <2>4. /\ Places' /\ pc'[p] = (IF ok THEN "queued" ELSE "idle")
        /\ \A q \in Procs : q # p => pc'[q] = pc[q]
    BY <1>2, <2>3, OneMoves DEF WriterAt
  <2> QED  BY <1>2, <2>1, <2>2, <2>4
<1>3. CASE p = Uploader
  <2>1. Goto(p, "putting") /\ safe' = safe /\ p \notin Writers
    BY <1>3, ProcsApart
  <2>2. Places' /\ pc'[p] = "putting" /\ \A q \in Procs : q # p => pc'[q] = pc[q]
    BY <1>3, <2>1, OneMoves DEF UploaderAt
  <2>3. safe' \in 0..saves /\ safe' >= safe
    BY <2>1, PipelineConstants DEF Numbers
  <2> QED  BY <1>3, <2>1, <2>2, <2>3
<1> QED  BY <1>1, <1>2, <1>3

LEMMA PersistTypes ==
  ASSUME Types, NEW p \in Procs, Persist(p)
  PROVE  Types'
<1> USE DEF Types, storeVars, serverVars, taskVars, countVars, etagVars
<1>1. ASSUME NEW ok \in BOOLEAN, PersistEnds(p, ok), pc[p] \in {"cloning", "writing", "renaming"},
             UNCHANGED <<server, saves, edits, version, content, outcome>>
      PROVE  Places' /\ Numbers'
  <2>1. Places' /\ safe' \in 0..saves /\ \A w \in Writers : pc'[w] # "idle" => pc[w] # "idle"
    BY <1>1, EndOfPersist, ProcsApart
  <2> QED  BY <1>1, <2>1 DEF Numbers
<1>2. ASSUME NEW stage \in {"writing", "renaming"}, Goto(p, stage), UNCHANGED safe,
             pc[p] \in {"cloning", "writing"},
             UNCHANGED <<server, saves, edits, version, content, outcome>>
      PROVE  Places' /\ Numbers'
  <2>1. p \in Writers \/ p = Uploader
    BY <1>2, ProcsApart DEF Places, RecovererAt
  <2>2. Places' /\ \A q \in Procs : q # p => pc'[q] = pc[q]
    BY <1>2, <2>1, OneMoves DEF WriterAt, UploaderAt
  <2>3. \A w \in Writers : pc'[w] # "idle" => pc[w] # "idle"
    BY <1>2, <2>2, ProcsApart
  <2> QED  BY <1>2, <2>2, <2>3 DEF Numbers
<1>3. CASE PersistClone(p)
  <2> USE <1>3 DEF PersistClone
  <2>1. Stores'
    BY DEF Stores, One
  <2>2. Places' /\ Numbers'
    BY <1>1, <1>2
  <2> QED  BY <2>1, <2>2
<1>4. CASE PersistWrite(p)
  <2> USE <1>4 DEF PersistWrite
  <2>1. Stores'
    BY DEF Stores, One
  <2>2. Places' /\ Numbers'
    BY <1>1, <1>2
  <2> QED  BY <2>1, <2>2
<1>5. CASE PersistRename(p)
  <2> USE <1>5 DEF PersistRename
  <2>1. Stores'
    BY DEF Stores, One
  <2>2. Places' /\ Numbers'
    BY <1>1
  <2> QED  BY <2>1, <2>2
<1> QED  BY <1>3, <1>4, <1>5 DEF Persist

(* Steps of the upload task and of the recovery move nobody else.          *)
LEMMA TaskMoves ==
  ASSUME Places, NEW p \in Tasks, NEW stage, Goto(p, stage),
         \/ p = Uploader /\ stage \in UploaderAt
         \/ p = Recoverer /\ stage \in RecovererAt
  PROVE  /\ Places' /\ pc'[p] = stage
         /\ \A q \in Procs : q # p => pc'[q] = pc[q]
         /\ \A w \in Writers : pc'[w] = pc[w]
BY OneMoves, ProcsApart DEF Tasks

LEMMA ServerTakes ==
  ASSUME Types, NEW v \in Int, Replace(v) \/ CopyTaken(v) \/ UNCHANGED serverVars
  PROVE  server' \in [content : Int, etag : Nat]
BY DEF Types, Numbers, Replace, CopyTaken, serverVars

LEMMA ForgetTypes ==
  ASSUME Types, NEW P, Forget(P)
  PROVE  content' \in [Tasks -> 0..MaxSaves] /\ outcome' \in BOOLEAN
<1>1. content \in [Tasks -> 0..MaxSaves] /\ 0 \in 0..MaxSaves /\ outcome \in BOOLEAN
  BY PipelineConstants DEF Types, Numbers
<1>2. content' \in [Tasks -> 0..MaxSaves]
  BY <1>1 DEF Forget
<1>3. outcome' \in BOOLEAN
  BY <1>1 DEF Forget
<1> QED  BY <1>2, <1>3

LEMMA UploadTypes ==
  ASSUME Types, Upload
  PROVE  Types'
<1> USE DEF Types, storeVars, serverVars, countVars, etagVars, historyVars
<1>0. Uploader \in Tasks /\ content[Uploader] \in 0..MaxSaves /\ content[Uploader] \in Int
  BY PipelineConstants DEF Tasks, Numbers
<1>1. CASE StartQueued
  <2> USE <1>1 DEF StartQueued
  <2>1. Places' /\ \A w \in Writers : pc'[w] = pc[w]
    BY <1>0, TaskMoves DEF UploaderAt
  <2> QED  BY <2>1 DEF Stores, Numbers, taskVars
<1>2. CASE ReadPending
  <2> USE <1>2 DEF ReadPending
  <2>1. Places' /\ \A w \in Writers : pc'[w] = pc[w]
    BY <1>0, TaskMoves DEF UploaderAt, Returns
  <2>2. content' \in [Tasks -> 0..MaxSaves]
    <3>1. \A v \in Pending : v \in 0..MaxSaves
      BY PendingIsSave, PipelineConstants DEF Saves
    <3> QED  BY <3>1 DEF Numbers
  <2>3. outcome' \in BOOLEAN
    BY DEF Returns, Numbers
  <2> QED  BY <2>1, <2>2, <2>3 DEF Stores, Numbers
<1>3. CASE CheckConflict
  <2> USE <1>3 DEF CheckConflict
  <2>1. Places' /\ \A w \in Writers : pc'[w] = pc[w]
    BY <1>0, TaskMoves DEF UploaderAt
  <2> QED  BY <2>1 DEF Stores, Numbers
<1>4. CASE UploadConflictCopy
  <2> USE <1>4 DEF UploadConflictCopy
  <2>1. Places' /\ \A w \in Writers : pc'[w] = pc[w]
    BY <1>0, TaskMoves DEF UploaderAt, Returns
  <2>2. server' \in [content : Int, etag : Nat] /\ outcome' \in BOOLEAN
    BY <1>0, ServerTakes DEF Returns, Numbers
  <2> QED  BY <2>1, <2>2 DEF Stores, Numbers
<1>5. CASE UploadContent
  <2> USE <1>5 DEF UploadContent
  <2>1. Places' /\ \A w \in Writers : pc'[w] = pc[w]
    BY <1>0, TaskMoves DEF UploaderAt, Returns
  <2>2. server' \in [content : Int, etag : Nat] /\ outcome' \in BOOLEAN
    BY <1>0, ServerTakes DEF Returns, Numbers
  <2> QED  BY <2>1, <2>2 DEF Stores, Numbers
<1>6. CASE UploadLockedCopy
  <2> USE <1>6 DEF UploadLockedCopy
  <2>1. Places' /\ \A w \in Writers : pc'[w] = pc[w]
    BY <1>0, TaskMoves DEF UploaderAt, Returns
  <2>2. server' = server /\ outcome' \in BOOLEAN
    BY DEF CopyTaken, Returns, Numbers
  <2> QED  BY <2>1, <2>2 DEF Stores, Numbers
<1>7. CASE AnswerFlushes
  <2> USE <1>7 DEF AnswerFlushes
  <2>1. /\ pc' \in [Procs -> ProcessAt]
        /\ \A q \in Procs : pc'[q] = "idle" \/ pc'[q] = pc[q]
    BY DEF Places, ProcessAt, WriterAt
  <2>2. Places'
    BY <2>1, ProcsApart DEF Places, WriterAt, UploaderAt, RecovererAt
  <2>3. content' \in [Tasks -> 0..MaxSaves] /\ outcome' \in BOOLEAN
    BY ForgetTypes DEF Numbers
  <2>4. Numbers'
    BY <2>1, <2>3, ProcsApart DEF Numbers
  <2> QED  BY <2>2, <2>4 DEF Stores
<1> QED  BY <1>1, <1>2, <1>3, <1>4, <1>5, <1>6, <1>7 DEF Upload

LEMMA ClearTypes ==
  ASSUME Types, NEW p \in Procs, Clear(p)
  PROVE  Types'
<1> USE DEF Types, storeVars, serverVars, countVars, etagVars, historyVars, taskVars
<1>0. p \in Tasks /\ (p = Uploader \/ p = Recoverer)
  BY ProcsApart DEF Clear, ClearBuffer, RemoveFile, Places, WriterAt, Tasks
<1>1. CASE ClearBuffer(p)
  <2> USE <1>1 DEF ClearBuffer
  <2>1. Places' /\ \A w \in Writers : pc'[w] = pc[w]
    BY <1>0, TaskMoves DEF UploaderAt, RecovererAt
  <2> QED  BY <2>1 DEF Stores, Numbers, One
<1>2. CASE RemoveFile(p)
  <2> USE <1>2 DEF RemoveFile
  <2>1. Places' /\ \A w \in Writers : pc'[w] = pc[w]
    BY <1>0, TaskMoves DEF UploaderAt, RecovererAt, Returns
  <2>2. content' \in [Tasks -> 0..MaxSaves] /\ outcome' \in BOOLEAN
    BY ForgetTypes DEF Numbers, Returns
  <2> QED  BY <2>1, <2>2 DEF Stores, Numbers, One
<1> QED  BY <1>1, <1>2 DEF Clear

LEMMA WorldTypes ==
  ASSUME Types, World
  PROVE  Types'
<1> USE DEF Types, storeVars, serverVars, countVars, etagVars, historyVars, taskVars
<1>0. Recoverer \in Tasks /\ content[Recoverer] \in Int
  BY PipelineConstants DEF Tasks, Numbers
<1>1. CASE Crash
  <2> USE <1>1 DEF Crash
  <2>1. pc' \in [Procs -> ProcessAt]
        /\ \A q \in Procs : pc'[q] = IF q = Recoverer /\ disk # {} THEN "due" ELSE "idle"
    BY DEF ProcessAt, RecovererAt
  <2>2. Places'
    BY <2>1, ProcsApart DEF Places, WriterAt, UploaderAt, RecovererAt
  <2>3. Stores'
    BY DEF Stores, One
  <2>4. content' \in [Tasks -> 0..MaxSaves] /\ outcome' \in BOOLEAN
    BY ForgetTypes DEF Numbers
  <2>5. Numbers'
    BY <2>1, <2>4, ProcsApart DEF Numbers
  <2> QED  BY <2>2, <2>3, <2>5
<1>2. CASE RecoverRead
  <2> USE <1>2 DEF RecoverRead
  <2>1. Places' /\ \A w \in Writers : pc'[w] = pc[w]
    BY <1>0, TaskMoves DEF RecovererAt
  <2>2. content' \in [Tasks -> 0..MaxSaves]
    BY PendingIsSave, PipelineConstants DEF Numbers, Saves
  <2> QED  BY <2>1, <2>2 DEF Stores, Numbers
<1>3. CASE RecoverUpload
  <2> USE <1>3 DEF RecoverUpload
  <2>1. Places' /\ \A w \in Writers : pc'[w] = pc[w]
    BY <1>0, TaskMoves DEF RecovererAt
  <2>2. server' \in [content : Int, etag : Nat]
    BY <1>0, ServerTakes
  <2>3. content' \in [Tasks -> 0..MaxSaves] /\ outcome' \in BOOLEAN
    BY ForgetTypes DEF Numbers
  <2> QED  BY <2>1, <2>2, <2>3 DEF Stores, Numbers
<1>4. CASE RemoteEdit
  <2> USE <1>4 DEF RemoteEdit
  <2>1. server' \in [content : Int, etag : Nat]
    BY DEF Numbers
  <2> QED  BY <2>1 DEF Places, Stores, Numbers
<1>5. CASE MemoryExpires \/ DeltaQuery \/ DeltaApply
  BY <1>5 DEF MemoryExpires, DeltaQuery, DeltaApply, Places, Stores, Numbers
<1> QED  BY <1>1, <1>2, <1>3, <1>4, <1>5 DEF World

LEMMA NextTypes == Types /\ [Next]_vars => Types'
<1> SUFFICES ASSUME Types, [Next]_vars PROVE Types'
  OBVIOUS
<1>1. CASE UNCHANGED vars
  BY <1>1 DEF vars, serverVars, storeVars, taskVars, countVars, historyVars,
              Types, Places, Stores, Numbers
<1> QED  BY <1>1, WriterTypes, PersistTypes, UploadTypes, ClearTypes, WorldTypes DEF Next

------------------------------------------------------------------------------
(* Durability.  A save v is taken when the server has it or a newer one;   *)
(* until then it is in hand: whatever the buffer, a clone, a renamed file  *)
(* or an upload holds is at least as new, and nobody clears anything or    *)
(* reports a success.                                                      *)

Reading == {"checking", "copying", "cloning", "writing", "renaming", "putting"}
Clearing == {"uploaded", "copied", "removing"}
Persisting == {"cloning", "writing", "renaming"}
Copying == {"writing", "renaming"}

Taken(v) == \E u \in v..MaxSaves : u \in uploaded

Succeeded == pc[Uploader] = "done" /\ outcome

InHand(v) ==
  /\ \A b \in buffer : b >= v
  /\ \A p \in Tasks : pc[p] \in Reading => content[p] >= v
  /\ \A p \in Tasks : pc[p] \notin Clearing
  /\ ~Succeeded
  /\ \A p \in Procs : pc[p] \in Copying => \A x \in clone[p] : x >= v
  /\ \A p \in Procs : pc[p] = "renaming" => \A x \in tmp : x >= v

OnDisk(v) == \E d \in disk : d >= v

(* What a crash does not lose, and what a writer is about to make so.      *)
Durable(v) == Taken(v) \/ (InHand(v) /\ OnDisk(v))
Coming(v) == Taken(v) \/ (InHand(v) /\ buffer # {})

DurableInv ==
  /\ \A v \in Saves : v = safe => Durable(v)
  /\ \A w \in Writers, v \in Saves : pc[w] \in Persisting /\ version[w] = v => Coming(v)
  /\ \A w \in Writers : pc[w] \in {"queued", "waiting"} => version[w] \in 1..safe
  /\ \A v \in confirmed : Taken(v)

(* A step keeps both, unless it crashes.                                   *)
Keeps(v) == (Durable(v) => Durable(v)') /\ (Coming(v) => Coming(v)')

LEMMA TakenStays ==
  ASSUME NEW v, uploaded \subseteq uploaded', Taken(v)
  PROVE  Taken(v)'
BY DEF Taken

LEMMA TakenOlder ==
  ASSUME NEW v \in Int, NEW u \in Int, u <= v, Taken(v)
  PROVE  Taken(u)
BY PipelineConstants DEF Taken

(* A step that moves processes and leaves the stores as they are.          *)
LEMMA MovesKeep ==
  ASSUME NEW v \in Int, uploaded \subseteq uploaded', UNCHANGED storeVars,
         \A p \in Tasks : pc'[p] \in Reading => pc[p] \in Reading /\ content'[p] = content[p],
         \A p \in Tasks : pc'[p] \in Clearing => pc[p] \in Clearing,
         Succeeded' => Succeeded,
         \A p \in Procs : pc'[p] \in Copying => pc[p] \in Copying /\ clone'[p] = clone[p],
         \A p \in Procs : pc'[p] = "renaming" => pc[p] = "renaming"
  PROVE  Keeps(v)
<1>1. Taken(v) => Taken(v)'
  BY TakenStays
<1>2. ASSUME InHand(v) PROVE InHand(v)'
  BY <1>2 DEF InHand, storeVars
<1> QED  BY <1>1, <1>2 DEF Keeps, Durable, Coming, OnDisk, storeVars

LEMMA TakesIt ==
  ASSUME NEW v \in Int, NEW x \in 0..MaxSaves, x >= v, uploaded' = uploaded \cup {x}
  PROVE  Taken(v)'
BY PipelineConstants DEF Taken

------------------------------------------------------------------------------
(* Durable and coming, step by step *)

(* Without overlap a save finds everybody idle.                            *)
LEMMA SaveKeeps ==
  ASSUME Types, "overlap" \notin Events, NEW w \in Writers, Save(w), NEW v \in 0..saves,
         NEW n \in Int, n = saves + 1
  PROVE  Keeps(v) /\ Coming(n)'
<1> USE DEF Save
<1>1. /\ \A p \in Procs : pc[p] = "idle"
      /\ pc'[w] = "cloning" /\ \A p \in Procs : p # w => pc'[p] = "idle"
  BY ProcsApart, OneMoves DEF Quiet, Types, WriterAt
<1>2. v \in Int /\ saves + 1 >= v /\ saves + 1 \in Int
  BY PipelineConstants DEF Types, Numbers
<1>3. \A u \in Int : saves + 1 >= u => InHand(u)'
  BY <1>1, <1>2, ProcsApart DEF InHand, Tasks, Reading, Clearing, Copying, Succeeded
<1>4. Keeps(v)
  BY <1>2, <1>3, TakenStays DEF Keeps, Durable, Coming, OnDisk, serverVars
<1>5. Coming(n)'
  BY <1>3 DEF Coming
<1> QED  BY <1>4, <1>5

LEMMA QueueKeeps ==
  ASSUME Types, NEW v \in Int,
         \/ \E w \in Writers : Receive(w) \/ FlushTimesOut(w)
         \/ StartQueued \/ CheckConflict
         \/ RemoteEdit \/ MemoryExpires \/ DeltaQuery \/ DeltaApply
  PROVE  Keeps(v)
<1> USE DEF Reading, Clearing, Copying, Succeeded, taskVars, serverVars
<1>1. ASSUME NEW w \in Writers, Receive(w)
      PROVE  Keeps(v)
  <2>1. /\ pc'[w] = "waiting" /\ pc'[Uploader] \in {"starting", pc[Uploader]}
        /\ \A q \in Procs : q # w /\ q # Uploader => pc'[q] = pc[q]
    BY <1>1, ProcsApart DEF Receive, Types, Places
  <2> QED  BY <1>1, <2>1, MovesKeep, ProcsApart DEF Receive, Tasks
<1>2. ASSUME NEW w \in Writers, FlushTimesOut(w)
      PROVE  Keeps(v)
  <2>1. pc'[w] = "idle" /\ \A q \in Procs : q # w => pc'[q] = pc[q]
    BY <1>2, ProcsApart, OneMoves DEF FlushTimesOut, Types, WriterAt
  <2> QED  BY <1>2, <2>1, MovesKeep, ProcsApart DEF FlushTimesOut, Tasks
<1>3. CASE StartQueued
  <2>1. pc'[Uploader] = "starting" /\ \A q \in Procs : q # Uploader => pc'[q] = pc[q]
    BY <1>3, ProcsApart, OneMoves DEF StartQueued, Types, UploaderAt
  <2> QED  BY <1>3, <2>1, MovesKeep, ProcsApart DEF StartQueued, Tasks
<1>4. CASE CheckConflict
  <2>1. /\ pc[Uploader] = "checking" /\ pc'[Uploader] \in {"cloning", "copying"}
        /\ \A q \in Procs : q # Uploader => pc'[q] = pc[q]
    BY <1>4, ProcsApart, OneMoves DEF CheckConflict, Types, UploaderAt
  <2> QED  BY <1>4, <2>1, MovesKeep, ProcsApart DEF CheckConflict, Tasks
<1>5. CASE RemoteEdit \/ MemoryExpires \/ DeltaQuery \/ DeltaApply
  BY <1>5, MovesKeep DEF RemoteEdit, MemoryExpires, DeltaQuery, DeltaApply
<1> QED  BY <1>1, <1>2, <1>3, <1>4, <1>5

(* The end of a persist: nothing is lost, whoever's file it was.           *)
LEMMA PersistKeeps ==
  ASSUME Types, NEW p \in Procs, Persist(p), NEW v \in Int
  PROVE  Keeps(v)
<1> USE DEF storeVars, serverVars, taskVars, Succeeded
<1>0. /\ p \in Writers \/ p = Uploader
      /\ \A q \in Tasks : q \in Procs
  BY ProcsApart DEF Types, Places, RecovererAt, Persist, PersistClone, PersistWrite, PersistRename, Tasks
<1>1. /\ \A q \in Procs : q # p => pc'[q] = pc[q]
      /\ pc'[p] \in {"writing", "renaming", "putting", "queued", "idle"}
      /\ pc[p] \in Persisting
  <2>1. ASSUME NEW stage \in {"writing", "renaming"}, Goto(p, stage)
        PROVE  pc'[p] = stage /\ \A q \in Procs : q # p => pc'[q] = pc[q]
    BY <1>0, <2>1, OneMoves DEF WriterAt, UploaderAt, Types
  <2>2. CASE PersistClone(p)
    BY <2>1, <2>2, EndOfPersist DEF PersistClone, Persisting
  <2>3. CASE PersistWrite(p)
    BY <2>1, <2>3, EndOfPersist DEF PersistWrite, Persisting
  <2>4. CASE PersistRename(p)
    BY <2>4, EndOfPersist DEF PersistRename, Persisting
  <2> QED  BY <2>2, <2>3, <2>4 DEF Persist
<1>2. /\ p \in Writers => pc'[p] # "putting"
      /\ \A q \in Tasks : pc'[q] \in Reading => pc[q] \in Reading /\ content'[q] = content[q]
      /\ \A q \in Tasks : pc'[q] \in Clearing => pc[q] \in Clearing
      /\ Succeeded' => Succeeded
  <2>1. UNCHANGED <<content, outcome>>
    BY DEF Persist, PersistClone, PersistWrite, PersistRename
  <2>2. p \in Writers => p \notin Tasks /\ pc'[p] \in WriterAt
    BY <1>1, ProcsApart DEF Tasks, WriterAt, Persist, PersistClone, PersistWrite, PersistRename,
                            PersistEnds, Goto, Types, Places
  <2> QED  BY <1>0, <1>1, <2>1, <2>2, ProcsApart
           DEF Reading, Clearing, Persisting, Tasks, WriterAt
<1>3. Taken(v) => Taken(v)'
  BY TakenStays DEF Persist, PersistClone, PersistWrite, PersistRename
<1>4. ASSUME InHand(v) PROVE InHand(v)' /\ (OnDisk(v) => OnDisk(v)') /\ buffer' = buffer
  <2>1. CASE PersistClone(p)
    <3>1. \A q \in Procs : pc'[q] \in Copying => \A x \in clone'[q] : x >= v
      BY <1>1, <1>4, <2>1 DEF PersistClone, InHand, Copying, Types, Stores
    <3>2. \A q \in Procs : pc'[q] = "renaming" => pc[q] = "renaming"
      BY <1>0, <1>1, <2>1 DEF PersistClone, PersistEnds, Goto, Types, Places
    <3> QED  BY <1>2, <1>4, <2>1, <3>1, <3>2 DEF PersistClone, InHand, OnDisk
  <2>2. CASE PersistWrite(p)
    <3>1. pc[p] = "writing" /\ \A x \in clone[p] : x >= v
      BY <1>4, <2>2 DEF PersistWrite, InHand, Copying
    <3>2. \A q \in Procs : pc'[q] \in Copying => pc[q] \in Copying /\ clone'[q] = clone[q]
      BY <1>1, <2>2 DEF PersistWrite, Copying
    <3>3. \A q \in Procs : pc'[q] = "renaming" => \A x \in tmp' : x >= v
      <4>1. CASE tmp' = clone[p]
        BY <3>1, <4>1
      <4>2. CASE tmp' = tmp /\ \E ok \in BOOLEAN : PersistEnds(p, ok)
        <5>1. pc'[p] # "renaming"
          BY <2>2, <4>2, EndOfPersist DEF PersistWrite, PersistEnds
        <5> QED  BY <1>1, <1>4, <4>2, <5>1 DEF InHand
      <4> QED  BY <2>2, <4>1, <4>2 DEF PersistWrite
    <3> QED  BY <1>2, <1>4, <2>2, <3>2, <3>3 DEF PersistWrite, InHand, OnDisk
  <2>3. CASE PersistRename(p)
    <3>1. pc[p] = "renaming" /\ \A x \in tmp : x >= v
      BY <1>4, <2>3 DEF PersistRename, InHand
    <3>2. pc'[p] \notin Copying
      BY <2>3, EndOfPersist DEF PersistRename, Copying
    <3>3. \A q \in Procs : pc'[q] \in Copying => pc[q] \in Copying /\ clone'[q] = clone[q]
      BY <1>1, <2>3, <3>2 DEF PersistRename, Copying, Types, Stores
    <3>4. OnDisk(v) => OnDisk(v)'
      BY <2>3, <3>1 DEF PersistRename, OnDisk
    <3> QED  BY <1>2, <1>4, <2>3, <3>3, <3>4 DEF PersistRename, InHand
  <2> QED  BY <2>1, <2>2, <2>3 DEF Persist
<1> QED  BY <1>3, <1>4 DEF Keeps, Durable, Coming

(* A task that moves on without clearing or reporting anything, and with a *)
(* content that is new enough.                                             *)
LEMMA TaskKeepsInHand ==
  ASSUME Types, NEW v \in Int, InHand(v), UNCHANGED <<buffer, tmp, clone>>,
         NEW p \in Tasks, \A q \in Procs : q # p => pc'[q] = pc[q],
         pc'[p] \notin Clearing \cup Copying,
         \A q \in Tasks : q # p => content'[q] = content[q],
         pc'[p] \in Reading => content'[p] >= v, ~Succeeded'
  PROVE  InHand(v)'
<1>1. \A q \in Tasks : q \in Procs
  BY ProcsApart DEF Tasks
<1>2. \A q \in Procs : pc'[q] \in Copying => pc[q] \in Copying /\ clone'[q] = clone[q]
  BY DEF Copying
<1>3. \A q \in Procs : pc'[q] = "renaming" => pc[q] = "renaming"
  BY DEF Copying
<1> QED  BY <1>1, <1>2, <1>3 DEF InHand

(* What is pending is at least as new.                                     *)
LEMMA PendingInHand ==
  ASSUME Types, NEW v \in Int, InHand(v), OnDisk(v) \/ buffer # {}
  PROVE  Pending # {} /\ \A x \in Pending : x >= v /\ x \in 0..MaxSaves
<1>1. \A x \in buffer \cup disk : x \in 0..MaxSaves
  BY PipelineConstants DEF Types, Stores, Saves
<1>2. CASE buffer # {}
  BY <1>1, <1>2 DEF Pending, InHand
<1>3. CASE buffer = {} /\ OnDisk(v)
  BY <1>1, <1>3 DEF Pending, OnDisk, Types, Stores, One
<1> QED  BY <1>2, <1>3

LEMMA UploadKeeps ==
  ASSUME Types, NEW v \in Int,
         ReadPending \/ UploadConflictCopy \/ UploadContent \/ UploadLockedCopy \/ AnswerFlushes
  PROVE  Keeps(v)
<1> USE DEF storeVars
<1>0. /\ Uploader \in Tasks /\ content[Uploader] \in 0..MaxSaves
      /\ \A q \in Tasks : q \in Procs
  BY ProcsApart DEF Tasks, Types, Numbers
<1>1. Taken(v) => Taken(v)'
  <2>1. uploaded \subseteq uploaded'
    BY DEF ReadPending, UploadConflictCopy, UploadContent, UploadLockedCopy, AnswerFlushes,
           CopyTaken, Replace, serverVars
  <2> QED  BY <2>1, TakenStays
<1>2. SUFFICES ASSUME InHand(v), OnDisk(v) \/ buffer # {}
               PROVE  Taken(v)' \/ (InHand(v)' /\ UNCHANGED <<buffer, disk>>)
  BY <1>1 DEF Keeps, Durable, Coming, OnDisk
<1>3. ASSUME NEW stage \in UploaderAt, Goto(Uploader, stage)
      PROVE  pc'[Uploader] = stage /\ \A q \in Procs : q # Uploader => pc'[q] = pc[q]
  BY <1>3, ProcsApart, OneMoves DEF Types
<1>4. ASSUME Returns(FALSE), UNCHANGED <<buffer, tmp, clone, disk, content>>
      PROVE  InHand(v)'
  <2>1. /\ pc'[Uploader] = "done" /\ ~outcome'
        /\ \A q \in Procs : q # Uploader => pc'[q] = pc[q]
    BY <1>3, <1>4 DEF Returns, UploaderAt
  <2> QED  BY <1>0, <1>2, <1>4, <2>1, TaskKeepsInHand
           DEF Reading, Clearing, Copying, Succeeded
<1>5. CASE ReadPending
  <2> USE <1>5 DEF ReadPending
  <2>1. Pending # {} /\ \A x \in Pending : x >= v
    BY <1>2, PendingInHand
  <2>2. CASE CachedEtag = {}
    BY <1>4, <2>1, <2>2
  <2>3. CASE CachedEtag # {}
    <3>1. PICK x \in Pending : content' = [content EXCEPT ![Uploader] = x]
      BY <2>1, <2>3
    <3>2. pc'[Uploader] = "checking" /\ \A q \in Procs : q # Uploader => pc'[q] = pc[q]
      BY <1>3, <2>1, <2>3 DEF UploaderAt
    <3>3. content'[Uploader] >= v /\ \A q \in Tasks : q # Uploader => content'[q] = content[q]
      BY <1>0, <2>1, <3>1 DEF Types, Numbers
    <3> QED  BY <1>0, <1>2, <3>2, <3>3, TaskKeepsInHand DEF Reading, Clearing, Copying, Succeeded
  <2> QED  BY <2>2, <2>3
<1>6. CASE UploadConflictCopy
  <2> USE <1>6 DEF UploadConflictCopy
  <2>1. content[Uploader] >= v
    BY <1>0, <1>2 DEF InHand, Reading
  <2>2. CASE CopyTaken(content[Uploader])
    BY <1>0, <2>1, <2>2, TakesIt DEF CopyTaken
  <2>3. CASE ~CopyTaken(content[Uploader])
    BY <1>4, <2>3
  <2> QED  BY <2>2, <2>3
<1>7. CASE UploadContent
  <2> USE <1>7 DEF UploadContent
  <2>1. content[Uploader] >= v
    BY <1>0, <1>2 DEF InHand, Reading
  <2>2. CASE Replace(content[Uploader])
    BY <1>0, <2>1, <2>2, TakesIt DEF Replace
  <2>3. CASE Goto(Uploader, "locked") /\ UNCHANGED <<serverVars, known, outcome, emitted>>
    <3>1. pc'[Uploader] = "locked" /\ \A q \in Procs : q # Uploader => pc'[q] = pc[q]
      BY <1>3, <2>3 DEF UploaderAt
    <3> QED  BY <1>0, <1>2, <3>1, TaskKeepsInHand DEF Reading, Clearing, Copying, Succeeded
  <2>4. CASE Returns(FALSE)
    BY <1>4, <2>4
  <2> QED  BY <2>2, <2>3, <2>4
<1>8. CASE UploadLockedCopy
  <2> USE <1>8 DEF UploadLockedCopy
  <2>1. CASE \E x \in Pending : CopyTaken(x)
    <3>1. PICK x \in Pending : uploaded' = uploaded \cup {x}
      BY <2>1 DEF CopyTaken
    <3>2. x >= v /\ x \in 0..MaxSaves
      BY <1>2, PendingInHand
    <3> QED  BY <3>1, <3>2, TakesIt
  <2>2. CASE Returns(FALSE)
    BY <1>4, <2>2
  <2> QED  BY <2>1, <2>2
<1>9. CASE AnswerFlushes
  <2> USE <1>9 DEF AnswerFlushes
  <2>1. /\ pc'[Uploader] = "idle"
        /\ \A q \in Procs : pc'[q] = "idle" \/ pc'[q] = pc[q]
    BY <1>0
  <2>2. content'[Recoverer] = content[Recoverer]
    BY ProcsApart DEF Forget, Types, Numbers, Tasks
  <2>3. \A q \in Tasks : pc'[q] \in Reading => pc[q] \in Reading /\ content'[q] = content[q]
    BY <1>0, <2>1, <2>2 DEF Reading, Tasks
  <2>4. Keeps(v)
    BY <1>0, <2>1, <2>3, MovesKeep DEF Clearing, Copying, Succeeded, serverVars
  <2>5. InHand(v)'
    BY <1>0, <1>2, <2>1, <2>3 DEF InHand, Clearing, Copying, Succeeded
  <2> QED  BY <2>5
<1> QED  BY <1>5, <1>6, <1>7, <1>8, <1>9

(* Nobody clears what is still in hand.                                    *)
LEMMA ClearKeeps ==
  ASSUME Types, NEW p \in Procs, Clear(p), NEW v \in Int
  PROVE  Keeps(v) /\ (Durable(v) \/ Coming(v) => Taken(v)')
<1>1. p \in Tasks /\ pc[p] \in Clearing
  BY ProcsApart DEF Clear, ClearBuffer, RemoveFile, Types, Places, WriterAt, Tasks, Clearing
<1>2. ~InHand(v)
  BY <1>1 DEF InHand
<1>3. uploaded' = uploaded
  BY DEF Clear, ClearBuffer, RemoveFile, serverVars
<1>4. Taken(v) => Taken(v)'
  BY <1>3, TakenStays
<1> QED  BY <1>2, <1>4 DEF Keeps, Durable, Coming

LEMMA CrashKeeps ==
  ASSUME Types, Crash, NEW v \in Int
  PROVE  Durable(v) => Durable(v)'
<1> USE DEF Crash
<1>1. \A p \in Procs : pc'[p] \in {"due", "idle"}
  OBVIOUS
<1>2. \A q \in Tasks : q \in Procs
  BY ProcsApart DEF Tasks
<1>3. InHand(v)'
  BY <1>1, <1>2, ProcsApart DEF InHand, Reading, Clearing, Copying, Succeeded
<1>4. Taken(v) => Taken(v)'
  BY TakenStays DEF serverVars
<1> QED  BY <1>3, <1>4 DEF Durable, OnDisk

LEMMA RecoveryKeeps ==
  ASSUME Types, RecoverRead \/ RecoverUpload, NEW v \in Int
  PROVE  Keeps(v)
<1> USE DEF storeVars
<1>0. /\ Recoverer \in Tasks /\ content[Recoverer] \in 0..MaxSaves
      /\ \A q \in Tasks : q \in Procs
  BY ProcsApart DEF Tasks, Types, Numbers
<1>1. Taken(v) => Taken(v)'
  <2>1. uploaded \subseteq uploaded'
    BY DEF RecoverRead, RecoverUpload, Replace, serverVars
  <2> QED  BY <2>1, TakenStays
<1>2. SUFFICES ASSUME InHand(v), OnDisk(v) \/ buffer # {}
               PROVE  Taken(v)' \/ (InHand(v)' /\ UNCHANGED <<buffer, disk>>)
  BY <1>1 DEF Keeps, Durable, Coming, OnDisk
<1>3. ASSUME NEW stage \in RecovererAt, Goto(Recoverer, stage)
      PROVE  pc'[Recoverer] = stage /\ \A q \in Procs : q # Recoverer => pc'[q] = pc[q]
  BY <1>3, ProcsApart, OneMoves DEF Types
<1>4. CASE RecoverRead
  <2> USE <1>4 DEF RecoverRead
  <2>1. Pending # {} /\ \A x \in Pending : x >= v
    BY <1>2, PendingInHand
  <2>2. PICK x \in Pending : content' = [content EXCEPT ![Recoverer] = x]
    BY <2>1
  <2>3. pc'[Recoverer] = "putting" /\ \A q \in Procs : q # Recoverer => pc'[q] = pc[q]
    BY <1>3, <2>1 DEF RecovererAt
  <2>4. content'[Recoverer] >= v /\ \A q \in Tasks : q # Recoverer => content'[q] = content[q]
    BY <1>0, <2>1, <2>2 DEF Types, Numbers
  <2>5. ~Succeeded'
    BY <1>2, <2>3, ProcsApart DEF InHand, Succeeded
  <2> QED  BY <1>0, <1>2, <2>3, <2>4, <2>5, TaskKeepsInHand DEF Clearing, Copying
<1>5. CASE RecoverUpload
  <2> USE <1>5 DEF RecoverUpload
  <2>1. content[Recoverer] >= v
    BY <1>0, <1>2 DEF InHand, Reading
  <2>2. CASE Replace(content[Recoverer])
    BY <1>0, <2>1, <2>2, TakesIt DEF Replace
  <2>3. CASE ~Replace(content[Recoverer])
    <3>1. Goto(Recoverer, "idle") /\ Forget({Recoverer})
      BY <2>3
    <3>2. pc'[Recoverer] = "idle" /\ \A q \in Procs : q # Recoverer => pc'[q] = pc[q]
      BY <1>3, <3>1 DEF RecovererAt
    <3>3. /\ \A q \in Tasks : q # Recoverer => content'[q] = content[q]
          /\ outcome' = outcome
      BY <3>1, ProcsApart DEF Forget, Types, Numbers
    <3>4. ~Succeeded'
      BY <1>2, <3>2, <3>3, ProcsApart DEF InHand, Succeeded
    <3> QED  BY <1>0, <1>2, <3>2, <3>3, <3>4, TaskKeepsInHand DEF Reading, Clearing, Copying
  <2> QED  BY <2>2, <2>3
<1> QED  BY <1>4, <1>5

LEMMA SaveIsInt == \A v \in Saves : v \in Int /\ v \in 1..MaxSaves
BY PipelineConstants DEF Saves

(* A step after which no writer has got any further.                       *)
LEMMA WritersAlone ==
  ASSUME Types, DurableInv, \A v \in Saves : Keeps(v),
         UNCHANGED <<safe, confirmed, version>>, uploaded \subseteq uploaded',
         \A w \in Writers : pc'[w] \in {pc[w], "idle"}
  PROVE  DurableInv'
<1>1. ASSUME NEW v \in Saves, v = safe' PROVE Durable(v)'
  BY <1>1 DEF DurableInv, Keeps
<1>2. ASSUME NEW w \in Writers, NEW v \in Saves, pc'[w] \in Persisting, version'[w] = v
      PROVE  Coming(v)'
  BY <1>2 DEF DurableInv, Keeps, Persisting
<1>3. \A w \in Writers : pc'[w] \in {"queued", "waiting"} => version'[w] \in 1..safe'
  BY DEF DurableInv
<1>4. \A v \in confirmed' : Taken(v)'
  BY TakenStays DEF DurableInv
<1> QED  BY <1>1, <1>2, <1>3, <1>4 DEF DurableInv

LEMMA SaveDurable ==
  ASSUME Types, DurableInv, "overlap" \notin Events, NEW w \in Writers, Save(w)
  PROVE  DurableInv'
<1> USE DEF Save
<1>1. saves + 1 \in Int /\ saves \in 0..MaxSaves /\ saves + 1 \in Saves /\ safe \in 0..saves
  BY PipelineConstants DEF Types, Numbers, Saves
<1>2. \A v \in 0..saves : Keeps(v)
  BY <1>1, SaveKeeps
<1>3. ASSUME NEW v \in Saves, v = safe' PROVE Durable(v)'
  <2>1. v \in 0..saves /\ Durable(v)
    BY <1>1, <1>3 DEF DurableInv
  <2> QED  BY <1>2, <2>1 DEF Keeps
<1>4. /\ pc'[w] = "cloning" /\ version'[w] = saves + 1
      /\ \A x \in Writers : x # w => pc'[x] = pc[x] /\ pc[x] = "idle" /\ version'[x] = version[x]
  BY ProcsApart, OneMoves DEF Quiet, Types, WriterAt, Numbers
<1>5. ASSUME NEW x \in Writers, NEW v \in Saves, pc'[x] \in Persisting, version'[x] = v
      PROVE  Coming(v)'
  <2>1. x = w /\ v = saves + 1
    BY <1>4, <1>5 DEF Persisting
  <2> QED  BY <1>1, <2>1, SaveKeeps
<1>6. \A x \in Writers : pc'[x] \notin {"queued", "waiting"}
  BY <1>4
<1>7. \A v \in confirmed' : Taken(v)'
  BY TakenStays DEF DurableInv, serverVars
<1> QED  BY <1>3, <1>5, <1>6, <1>7 DEF DurableInv

(* A persist that ends well makes durable what was coming.                 *)
LEMMA PersistDurable ==
  ASSUME Types, DurableInv, NEW p \in Procs, Persist(p)
  PROVE  DurableInv'
<1> USE SaveIsInt
<1>1. /\ \A v \in Saves : Keeps(v)
      /\ UNCHANGED <<confirmed, version, uploaded>>
  BY PersistKeeps DEF Persist, PersistClone, PersistWrite, PersistRename, serverVars
<1>2. \A v \in confirmed' : Taken(v)'
  BY <1>1, TakenStays DEF DurableInv
<1>3. \A w \in Writers : w # p => pc'[w] = pc[w]
  BY ProcsApart DEF Persist, PersistClone, PersistWrite, PersistRename, PersistEnds, Goto, Types, Places
<1>4. ASSUME NEW w \in Writers, NEW v \in Saves, pc'[w] \in Persisting, version'[w] = v
      PROVE  Coming(v)'
  <2>1. pc[w] \in Persisting
    BY <1>3, <1>4 DEF Persist, PersistClone, PersistWrite, PersistRename, Persisting
  <2> QED  BY <1>1, <1>4, <2>1 DEF DurableInv, Keeps
<1>5. CASE safe' = safe /\ (p \in Writers => pc'[p] # "queued" \/ version[p] \in 1..safe)
  <2>1. \A v \in Saves : v = safe' => Durable(v)'
    BY <1>1, <1>5 DEF DurableInv, Keeps
  <2>2. \A w \in Writers : pc'[w] \in {"queued", "waiting"} => version'[w] \in 1..safe'
    <3> SUFFICES ASSUME NEW w \in Writers, pc'[w] \in {"queued", "waiting"}
                 PROVE  version'[w] \in 1..safe'
      OBVIOUS
    <3>1. CASE w # p
      BY <1>1, <1>3, <1>5, <3>1 DEF DurableInv
    <3>2. CASE w = p
      <4>1. pc'[p] # "waiting"
        BY <3>2 DEF Persist, PersistClone, PersistWrite, PersistRename, PersistEnds, Goto, Types, Places
      <4> QED  BY <1>1, <1>5, <3>2, <4>1
    <3> QED  BY <3>1, <3>2
  <2> QED  BY <1>2, <1>4, <2>1, <2>2 DEF DurableInv
<1>6. CASE p \in Writers /\ safe' = version[p] /\ version[p] > safe
  <2>1. pc[p] \in Persisting /\ version[p] \in 1..saves /\ version[p] \in Saves
    <3>1. pc[p] \in Persisting
      BY DEF Persist, PersistClone, PersistWrite, PersistRename, Persisting
    <3>2. version[p] \in 1..saves /\ saves \in 0..MaxSaves
      BY <1>6, <3>1 DEF Persisting, Types, Numbers
    <3> QED  BY <3>1, <3>2, PipelineConstants DEF Saves
  <2> DEFINE v == version[p]
  <2>2. Coming(v)
    BY <1>6, <2>1 DEF DurableInv
  <2>3. safe \in 0..saves /\ safe < v
    BY <1>6 DEF Types, Numbers
  <2>4. ASSUME NEW u \in Saves, u = v PROVE Durable(u)'
    <3>1. Coming(u)
      BY <2>2, <2>4
    <3>2. Taken(u) => Taken(u)'
      BY <1>1, TakenStays
    <3>3. CASE PersistClone(p)
      <4>1. buffer = {}
        <5>1. safe' # safe
          BY <1>6, <2>1, <2>3, PipelineConstants DEF Types, Numbers
        <5> QED  BY <3>3, <5>1 DEF PersistClone
      <4> QED  BY <3>1, <3>2, <4>1 DEF Coming, Durable
    <3>4. CASE PersistWrite(p)
      <4>1. safe' = safe
        BY <3>4 DEF PersistWrite, PersistEnds
      <4> QED  BY <1>6, <2>3, <4>1
    <3>5. CASE PersistRename(p)
      <4>1. tmp # {} /\ disk' = tmp /\ pc[p] = "renaming"
        BY <1>6, <2>3, <3>5 DEF PersistRename, PersistEnds
      <4>2. ASSUME InHand(u) PROVE OnDisk(u)'
        BY <4>1, <4>2 DEF InHand, OnDisk
      <4>3. Coming(u)'
        BY <1>1, <3>1 DEF Keeps
      <4> QED  BY <3>1, <3>2, <4>2, <4>3 DEF Durable, Coming
    <3> QED  BY <3>3, <3>4, <3>5 DEF Persist
  <2>5. \A u \in Saves : u = safe' => Durable(u)'
    BY <1>6, <2>4
  <2>6. \A w \in Writers : pc'[w] \in {"queued", "waiting"} => version'[w] \in 1..safe'
    <3> SUFFICES ASSUME NEW w \in Writers, pc'[w] \in {"queued", "waiting"}
                 PROVE  version'[w] \in 1..safe'
      OBVIOUS
    <3>1. CASE w # p
      BY <1>1, <1>3, <1>6, <2>1, <2>3, <3>1, PipelineConstants DEF DurableInv, Types, Numbers
    <3>2. CASE w = p
      BY <1>1, <1>6, <2>1, <3>2, PipelineConstants DEF Types, Numbers
    <3> QED  BY <3>1, <3>2
  <2> QED  BY <1>2, <1>4, <2>5, <2>6 DEF DurableInv
<1>7. \/ safe' = safe /\ (p \in Writers => pc'[p] # "queued" \/ version[p] \in 1..safe)
      \/ p \in Writers /\ safe' = version[p] /\ version[p] > safe
  <2>1. ASSUME NEW ok \in BOOLEAN, PersistEnds(p, ok), pc[p] \in Persisting
        PROVE  \/ safe' = safe /\ (p \in Writers => pc'[p] # "queued" \/ version[p] \in 1..safe)
               \/ p \in Writers /\ safe' = version[p] /\ version[p] > safe
    <3>1. /\ p \in Writers => pc'[p] = (IF ok THEN "queued" ELSE "idle") /\ version[p] \in 1..saves
          /\ safe' = IF ok /\ p \in Writers /\ version[p] > safe THEN version[p] ELSE safe
      BY <2>1, EndOfPersist DEF Persisting
    <3>2. safe \in 0..saves /\ saves \in 0..MaxSaves
      BY DEF Types, Numbers
    <3> QED  BY <3>1, <3>2, PipelineConstants
  <2>2. ASSUME NEW stage \in {"writing", "renaming"}, Goto(p, stage), UNCHANGED safe
        PROVE  safe' = safe /\ pc'[p] # "queued"
    BY <2>2 DEF Goto, Types, Places
  <2> QED  BY <2>1, <2>2 DEF Persist, PersistClone, PersistWrite, PersistRename, Persisting
<1> QED  BY <1>5, <1>6, <1>7

(* A flush is answered by an upload that took its save: a success means    *)
(* that no save that asks for an answer is still in hand.                  *)
LEMMA UploadDurable ==
  ASSUME Types, DurableInv, Upload
  PROVE  DurableInv'
<1> USE SaveIsInt
<1>1. \A v \in Saves : Keeps(v)
  BY UploadKeeps, QueueKeeps DEF Upload
<1>2. uploaded \subseteq uploaded'
  BY DEF Upload, StartQueued, ReadPending, CheckConflict, UploadConflictCopy, UploadContent,
         UploadLockedCopy, AnswerFlushes, CopyTaken, Replace, serverVars
<1>3. CASE ~AnswerFlushes
  <2>1. UNCHANGED <<safe, confirmed, version>>
    BY <1>3 DEF Upload, StartQueued, ReadPending, CheckConflict, UploadConflictCopy, UploadContent,
         UploadLockedCopy, historyVars
  <2>2. \A w \in Writers : pc'[w] = pc[w]
    BY <1>3, ProcsApart
       DEF Upload, StartQueued, ReadPending, CheckConflict, UploadConflictCopy, UploadContent,
           UploadLockedCopy, Returns, Goto, Types, Places
  <2> QED  BY <1>1, <1>2, <2>1, <2>2, WritersAlone
<1>4. CASE AnswerFlushes
  <2> USE <1>4 DEF AnswerFlushes
  <2>1. \A w \in Writers : pc'[w] = IF pc[w] = "waiting" THEN "idle" ELSE pc[w]
    BY ProcsApart
  <2>2. ASSUME outcome, NEW w \in Writers, pc[w] = "waiting" PROVE Taken(version[w])
    <3>1. version[w] \in 1..safe /\ safe \in 0..saves /\ saves \in 0..MaxSaves
      BY <2>2 DEF DurableInv, Types, Numbers
    <3>2. safe \in Saves
      BY <3>1, PipelineConstants DEF Saves
    <3>3. Succeeded
      BY <2>2 DEF Succeeded
    <3>4. Taken(safe)
      BY <3>2, <3>3 DEF DurableInv, Durable, InHand
    <3> QED  BY <3>1, <3>4, PipelineConstants, TakenOlder
  <2>3. \A v \in confirmed' : Taken(v)
    BY <2>2 DEF DurableInv
  <2>4. \A v \in confirmed' : Taken(v)'
    BY <1>2, <2>3, TakenStays
  <2>5. \A v \in Saves : v = safe' => Durable(v)'
    BY <1>1 DEF DurableInv, Keeps
  <2>6. \A w \in Writers, v \in Saves : pc'[w] \in Persisting /\ version'[w] = v => Coming(v)'
    BY <1>1, <2>1 DEF DurableInv, Keeps, Persisting
  <2>7. \A w \in Writers : pc'[w] \in {"queued", "waiting"} => version'[w] \in 1..safe'
    BY <2>1 DEF DurableInv
  <2> QED  BY <2>4, <2>5, <2>6, <2>7 DEF DurableInv
<1> QED  BY <1>3, <1>4

LEMMA ClearDurable ==
  ASSUME Types, DurableInv, NEW p \in Procs, Clear(p)
  PROVE  DurableInv'
<1>1. \A v \in Saves : Keeps(v)
  BY ClearKeeps, SaveIsInt
<1>2. \A w \in Writers : pc'[w] = pc[w]
  BY ProcsApart
     DEF Clear, ClearBuffer, RemoveFile, Returns, Goto, Types, Places, WriterAt
<1>3. UNCHANGED <<safe, confirmed, version, uploaded>>
  BY DEF Clear, ClearBuffer, RemoveFile, historyVars, serverVars
<1> QED  BY <1>1, <1>2, <1>3, WritersAlone

LEMMA WorldDurable ==
  ASSUME Types, DurableInv, World
  PROVE  DurableInv'
<1>1. UNCHANGED <<safe, confirmed, version>> /\ uploaded \subseteq uploaded'
  BY DEF World, Crash, RecoverRead, RecoverUpload, RemoteEdit, MemoryExpires, DeltaQuery,
         DeltaApply, historyVars, serverVars, Replace
<1>2. CASE Crash
  <2>1. \A w \in Writers : pc'[w] = "idle"
    BY <1>2, ProcsApart DEF Crash
  <2>2. \A v \in Saves : v = safe' => Durable(v)'
    BY <1>1, <1>2, CrashKeeps, SaveIsInt DEF DurableInv
  <2>3. \A v \in confirmed' : Taken(v)'
    BY <1>1, TakenStays DEF DurableInv
  <2> QED  BY <2>1, <2>2, <2>3 DEF DurableInv, Persisting
<1>3. CASE ~Crash
  <2>1. \A v \in Saves : Keeps(v)
    BY <1>3, RecoveryKeeps, QueueKeeps, SaveIsInt DEF World
  <2>2. \A w \in Writers : pc'[w] = pc[w]
    BY <1>3, ProcsApart
       DEF World, RecoverRead, RecoverUpload, RemoteEdit, MemoryExpires, DeltaQuery, DeltaApply,
           Goto, Types, Places
  <2> QED  BY <1>1, <2>1, <2>2, WritersAlone
<1> QED  BY <1>2, <1>3

LEMMA QueueDurable ==
  ASSUME Types, DurableInv, NEW w \in Writers, Receive(w) \/ FlushTimesOut(w)
  PROVE  DurableInv'
<1>1. \A v \in Saves : Keeps(v)
  BY QueueKeeps, SaveIsInt
<1>2. UNCHANGED <<safe, confirmed, version, uploaded>>
  BY DEF Receive, FlushTimesOut, historyVars, serverVars
<1>3. pc[w] \in {"queued", "waiting"}
  BY DEF Receive, FlushTimesOut
<1>4. pc'[w] \in {"idle", "waiting"} /\ \A x \in Writers : x # w => pc'[x] = pc[x]
  BY ProcsApart DEF Receive, FlushTimesOut, Goto, Types, Places
<1>5. \A v \in Saves : v = safe' => Durable(v)'
  BY <1>1, <1>2 DEF DurableInv, Keeps
<1>6. \A x \in Writers, v \in Saves : pc'[x] \in Persisting /\ version'[x] = v => Coming(v)'
  BY <1>1, <1>2, <1>4 DEF DurableInv, Keeps, Persisting
<1>7. \A x \in Writers : pc'[x] \in {"queued", "waiting"} => version'[x] \in 1..safe'
  BY <1>2, <1>3, <1>4 DEF DurableInv
<1>8. \A v \in confirmed' : Taken(v)'
  BY <1>2, TakenStays DEF DurableInv
<1> QED  BY <1>5, <1>6, <1>7, <1>8 DEF DurableInv

LEMMA InitDurable == Init => DurableInv
BY SaveIsInt, ProcsApart DEF Init, DurableInv, Persisting

LEMMA NextDurable ==
  ASSUME "overlap" \notin Events
  PROVE  Types /\ DurableInv /\ [Next]_vars => DurableInv'
<1> SUFFICES ASSUME Types, DurableInv, [Next]_vars PROVE DurableInv'
  OBVIOUS
<1>1. CASE UNCHANGED vars
  <2>1. \A v \in Saves : Keeps(v)
    BY <1>1, MovesKeep, SaveIsInt
       DEF vars, serverVars, storeVars, taskVars, Succeeded
  <2> QED  BY <1>1, <2>1, WritersAlone DEF vars, serverVars, historyVars
<1> QED  BY <1>1, SaveDurable, QueueDurable, PersistDurable, UploadDurable, ClearDurable,
            WorldDurable DEF Next, Writer

LEMMA TypesInvariant == Spec => []Types
BY InitTypes, NextTypes, PTL DEF Spec

LEMMA DurableInvariant ==
  ASSUME "overlap" \notin Events
  PROVE  Spec => []DurableInv
BY InitDurable, NextDurable, TypesInvariant, PTL DEF Spec

(* Unless a save overlaps another one or an upload of the file, the newest *)
(* save that was written to the writeback cache is on disk or on the       *)
(* server, whatever crashes, fails, expires or is edited by others.        *)
THEOREM SavedContentAlwaysSurvives ==
  ASSUME "overlap" \notin Events
  PROVE  Spec => []SavedContentSurvives
<1>1. Types /\ DurableInv => SavedContentSurvives
  <2> SUFFICES ASSUME Types, DurableInv, safe > 0
               PROVE  \E v \in safe..MaxSaves : v \in disk \cup uploaded
    BY DEF SavedContentSurvives
  <2>1. safe \in Saves /\ disk \subseteq Saves
    BY PipelineConstants DEF Types, Numbers, Stores, Saves
  <2>2. Taken(safe) \/ OnDisk(safe)
    BY <2>1 DEF DurableInv, Durable
  <2> QED  BY <2>1, <2>2, PipelineConstants DEF Taken, OnDisk, Saves
<1> QED  BY <1>1, TypesInvariant, DurableInvariant, PTL

(* Under the same condition a flush that returned Ok is on the server, in  *)
(* the file or in a conflict copy, or a newer save is.                     *)
THEOREM ConfirmedIsAlwaysUploaded ==
  ASSUME "overlap" \notin Events
  PROVE  Spec => []ConfirmedIsUploaded
<1>1. DurableInv => ConfirmedIsUploaded
  BY DEF DurableInv, Taken, ConfirmedIsUploaded
<1> QED  BY <1>1, DurableInvariant, PTL

------------------------------------------------------------------------------
(* The server never goes back.  As long as no save overlaps and an upload  *)
(* persists what it sends, all that is under way is one content c; an      *)
(* older one may be on disk until the upload has persisted c.              *)

Sending == {"putting", "locked", "uploaded", "copied"}

OneContent(c) ==
  /\ buffer \subseteq {c}
  /\ buffer = {} => disk \subseteq {c}
  /\ \A p \in Tasks : pc[p] \in Reading => content[p] = c
  /\ \A p \in Procs : pc[p] \in Copying => clone[p] = {c}
  /\ \A p \in Procs : pc[p] = "renaming" => tmp \subseteq {c} /\ (tmp = {} => disk \subseteq {c})
  /\ pc[Uploader] \in Sending => disk \subseteq {c}
  /\ pc[Recoverer] # "idle" => buffer = {}
  /\ c \in 0..saves /\ disk \subseteq 1..saves
  /\ server.content <= c /\ \A d \in disk : server.content <= d

ForwardInv == \E c \in 0..MaxSaves : OneContent(c)

(* A step that moves processes and leaves the stores as they are.          *)
LEMMA MovesForward ==
  ASSUME NEW c \in Int, OneContent(c), UNCHANGED <<storeVars, server, saves>>,
         \A p \in Tasks : pc'[p] \in Reading => pc[p] \in Reading /\ content'[p] = content[p],
         \A p \in Procs : pc'[p] \in Copying => pc[p] \in Copying /\ clone'[p] = clone[p],
         \A p \in Procs : pc'[p] = "renaming" => pc[p] = "renaming",
         pc'[Uploader] \in Sending => pc[Uploader] \in Sending,
         pc'[Recoverer] # "idle" => pc[Recoverer] # "idle"
  PROVE  OneContent(c)'
BY ProcsApart DEF OneContent, storeVars, Tasks

LEMMA SaveForward ==
  ASSUME Types, "overlap" \notin Events, NEW w \in Writers, Save(w),
         NEW c \in 0..MaxSaves, OneContent(c), NEW n \in Int, n = saves + 1
  PROVE  n \in 0..MaxSaves /\ OneContent(n)'
<1> USE DEF Save
<1>1. /\ \A p \in Procs : pc[p] = "idle"
      /\ pc'[w] = "cloning" /\ \A p \in Procs : p # w => pc'[p] = "idle"
  BY ProcsApart, OneMoves DEF Quiet, Types, WriterAt
<1>2. /\ saves \in 0..MaxSaves /\ n \in 0..MaxSaves /\ server.content \in Int
      /\ c \in 0..saves /\ server.content <= c /\ disk \subseteq 1..saves
  BY PipelineConstants DEF Types, Numbers, OneContent
<1>3. server.content <= n /\ n \in 0..saves' /\ disk' \subseteq 1..saves'
  BY <1>2, PipelineConstants
<1> QED  BY <1>1, <1>2, <1>3, ProcsApart
         DEF OneContent, Tasks, Reading, Copying, Sending, serverVars

LEMMA QueueForward ==
  ASSUME Types, NEW c \in Int, OneContent(c),
         \/ \E w \in Writers : Receive(w) \/ FlushTimesOut(w)
         \/ StartQueued \/ CheckConflict \/ UploadConflictCopy \/ AnswerFlushes
         \/ MemoryExpires \/ DeltaQuery \/ DeltaApply
  PROVE  OneContent(c)'
<1> USE DEF Reading, Copying, Sending, taskVars, serverVars, countVars
<1>1. ASSUME NEW w \in Writers, Receive(w)
      PROVE  OneContent(c)'
  <2>1. /\ pc'[w] = "waiting" /\ pc'[Uploader] \in {"starting", pc[Uploader]}
        /\ \A q \in Procs : q # w /\ q # Uploader => pc'[q] = pc[q]
    BY <1>1, ProcsApart DEF Receive, Types, Places
  <2> QED  BY <1>1, <2>1, MovesForward, ProcsApart DEF Receive, Tasks
<1>2. ASSUME NEW w \in Writers, FlushTimesOut(w)
      PROVE  OneContent(c)'
  <2>1. pc'[w] = "idle" /\ \A q \in Procs : q # w => pc'[q] = pc[q]
    BY <1>2, ProcsApart, OneMoves DEF FlushTimesOut, Types, WriterAt
  <2> QED  BY <1>2, <2>1, MovesForward, ProcsApart DEF FlushTimesOut, Tasks
<1>3. CASE StartQueued
  <2>1. pc'[Uploader] = "starting" /\ \A q \in Procs : q # Uploader => pc'[q] = pc[q]
    BY <1>3, ProcsApart, OneMoves DEF StartQueued, Types, UploaderAt
  <2> QED  BY <1>3, <2>1, MovesForward, ProcsApart DEF StartQueued, Tasks
<1>4. CASE CheckConflict
  <2>1. /\ pc[Uploader] = "checking" /\ pc'[Uploader] \in {"cloning", "copying"}
        /\ \A q \in Procs : q # Uploader => pc'[q] = pc[q]
    BY <1>4, ProcsApart, OneMoves DEF CheckConflict, Types, UploaderAt
  <2> QED  BY <1>4, <2>1, MovesForward, ProcsApart DEF CheckConflict, Tasks
<1>5. CASE UploadConflictCopy
  <2>1. /\ pc[Uploader] = "copying" /\ pc'[Uploader] \in {"cloning", "done"}
        /\ \A q \in Procs : q # Uploader => pc'[q] = pc[q]
    BY <1>5, ProcsApart, OneMoves DEF UploadConflictCopy, Returns, Types, UploaderAt
  <2>2. UNCHANGED <<storeVars, server, saves, content, clone>>
    BY <1>5 DEF UploadConflictCopy, CopyTaken
  <2> QED  BY <2>1, <2>2, MovesForward, ProcsApart DEF Tasks
<1>6. CASE AnswerFlushes
  <2>1. /\ pc'[Uploader] = "idle"
        /\ \A q \in Procs : pc'[q] = "idle" \/ pc'[q] = pc[q]
    BY <1>6, ProcsApart DEF AnswerFlushes
  <2>2. content'[Recoverer] = content[Recoverer]
    BY <1>6, ProcsApart DEF AnswerFlushes, Forget, Types, Numbers, Tasks
  <2> QED  BY <1>6, <2>1, <2>2, MovesForward, ProcsApart DEF AnswerFlushes, Tasks
<1>7. CASE MemoryExpires \/ DeltaQuery \/ DeltaApply
  BY <1>7, MovesForward DEF MemoryExpires, DeltaQuery, DeltaApply
<1> QED  BY <1>1, <1>2, <1>3, <1>4, <1>5, <1>6, <1>7

(* A persist copies c; once it has ended for the uploader, c is on disk,   *)
(* or nothing is.                                                          *)
LEMMA PersistForward ==
  ASSUME Types, "late_full" \notin Events, NEW p \in Procs, Persist(p),
         NEW c \in Int, OneContent(c)
  PROVE  OneContent(c)'
<1> USE DEF storeVars, serverVars, taskVars, countVars
<1>0. p \in Writers \/ p = Uploader
  BY ProcsApart DEF Types, Places, RecovererAt, Persist, PersistClone, PersistWrite, PersistRename
<1>1. ASSUME NEW stage \in {"writing", "renaming"}, Goto(p, stage)
      PROVE  pc'[p] = stage /\ \A q \in Procs : q # p => pc'[q] = pc[q]
  BY <1>0, <1>1, OneMoves DEF WriterAt, UploaderAt, Types
<1>2. ASSUME NEW ok \in BOOLEAN, PersistEnds(p, ok), pc[p] \in Persisting
      PROVE  /\ pc'[p] \in {"queued", "idle", "putting"} /\ (p # Uploader => pc'[p] # "putting")
             /\ \A q \in Procs : q # p => pc'[q] = pc[q]
  BY <1>0, <1>2, EndOfPersist, ProcsApart DEF Persisting
<1>3. /\ UNCHANGED <<buffer, server, saves, content>>
      /\ \A q \in Procs : q # p => pc'[q] = pc[q]
      /\ pc[p] \in Persisting
      /\ pc'[p] \in {"writing", "renaming", "queued", "idle", "putting"}
      /\ p # Uploader => pc'[p] # "putting"
  BY <1>1, <1>2, ProcsApart DEF Persist, PersistClone, PersistWrite, PersistRename, Persisting
<1>4. /\ \A q \in Tasks : pc'[q] \in Reading => pc[q] \in Reading /\ content'[q] = content[q]
      /\ pc'[Recoverer] = pc[Recoverer]
      /\ pc'[Uploader] \in Sending => pc[Uploader] \in Sending \/ (p = Uploader /\ pc'[p] = "putting")
  BY <1>0, <1>3, ProcsApart DEF Tasks, Reading, Persisting, Sending
<1>5. CASE PersistClone(p)
  <2> USE <1>5 DEF PersistClone
  <2>1. CASE buffer = {}
    <3>1. pc'[p] \notin Copying /\ disk \subseteq {c}
      BY <1>2, <2>1 DEF Persisting, Copying, OneContent
    <3>2. \A q \in Procs : pc'[q] \in Copying => pc[q] \in Copying /\ clone'[q] = clone[q]
      BY <1>3, <3>1 DEF Types, Stores
    <3>3. \A q \in Procs : pc'[q] = "renaming" => pc[q] = "renaming"
      BY <3>2, <1>3, <3>1 DEF Copying
    <3> QED  BY <1>3, <1>4, <3>1, <3>2, <3>3 DEF OneContent
  <2>2. CASE buffer # {}
    <3>1. buffer = {c} /\ pc'[p] = "writing" /\ clone'[p] = {c}
      BY <1>1, <2>2 DEF OneContent, Types, Stores
    <3>2. \A q \in Procs : pc'[q] \in Copying => clone'[q] = {c}
      BY <1>3, <3>1 DEF OneContent, Types, Stores
    <3>3. \A q \in Procs : pc'[q] = "renaming" => pc[q] = "renaming"
      BY <1>3, <3>1
    <3> QED  BY <1>3, <1>4, <3>1, <3>2, <3>3 DEF OneContent
  <2> QED  BY <2>1, <2>2
<1>6. CASE PersistWrite(p)
  <2> USE <1>6 DEF PersistWrite
  <2>1. clone[p] = {c} /\ clone' = clone /\ disk' = disk /\ pc[p] = "writing"
    BY DEF OneContent, Copying
  <2>2. \A q \in Procs : pc'[q] \in Copying => pc[q] \in Copying
    BY <1>3, <2>1 DEF Copying
  <2>3. CASE tmp' = clone[p] /\ Goto(p, "renaming")
    <3>1. pc'[p] = "renaming"
      BY <1>1, <2>3
    <3> QED  BY <1>3, <1>4, <2>1, <2>2, <2>3, <3>1 DEF OneContent
  <2>4. CASE p # Uploader /\ PersistEnds(p, FALSE) /\ UNCHANGED tmp
    <3>1. pc'[p] \in {"queued", "idle"}
      BY <1>2, <2>1, <2>4 DEF Persisting
    <3> QED  BY <1>3, <1>4, <2>1, <2>2, <2>4, <3>1 DEF OneContent
  <2> QED  BY <2>3, <2>4
<1>7. CASE PersistRename(p)
  <2> USE <1>7 DEF PersistRename
  <2>1. /\ pc[p] = "renaming" /\ tmp \subseteq {c} /\ (tmp = {} => disk \subseteq {c})
        /\ disk' = IF tmp = {} THEN disk ELSE tmp
    BY DEF OneContent
  <2>2. disk' \subseteq {c} /\ tmp' = {} /\ (disk' = disk \/ disk' = {c})
    BY <2>1
  <2>3. pc'[p] \notin Copying
    BY <1>2 DEF Persisting, Copying
  <2>4. \A q \in Procs : pc'[q] \in Copying => pc[q] \in Copying /\ clone'[q] = clone[q]
    BY <1>3, <2>3 DEF Types, Stores
  <2>5. disk' \subseteq 1..saves
    BY <2>1 DEF OneContent, Types, Stores, Saves
  <2> QED  BY <1>3, <1>4, <2>2, <2>4, <2>5 DEF OneContent
<1> QED  BY <1>5, <1>6, <1>7 DEF Persist

LEMMA UploadForward ==
  ASSUME Types, NEW c \in Int, OneContent(c),
         ReadPending \/ UploadContent \/ UploadLockedCopy
  PROVE  OneContent(c)'
<1> USE DEF storeVars, serverVars, countVars
<1>0. /\ Uploader \in Tasks /\ \A q \in Tasks : q \in Procs
      /\ UNCHANGED <<buffer, disk, tmp, clone, saves>>
  BY ProcsApart DEF Tasks, ReadPending, UploadContent, UploadLockedCopy
<1>1. ASSUME NEW stage \in UploaderAt, Goto(Uploader, stage)
      PROVE  pc'[Uploader] = stage /\ \A q \in Procs : q # Uploader => pc'[q] = pc[q]
  BY <1>1, ProcsApart, OneMoves DEF Types
<1>2. ASSUME NEW stage \in UploaderAt, Goto(Uploader, stage), UNCHANGED <<server, content>>,
             stage \notin Reading, stage \in Sending => pc[Uploader] \in Sending
      PROVE  OneContent(c)'
  <2>1. pc'[Uploader] = stage /\ \A q \in Procs : q # Uploader => pc'[q] = pc[q]
    BY <1>1, <1>2
  <2> QED  BY <1>0, <1>2, <2>1, MovesForward, ProcsApart DEF Reading, Copying
<1>3. CASE ReadPending
  <2> USE <1>3 DEF ReadPending
  <2>1. CASE Returns(TRUE) \/ Returns(FALSE)
    <3>1. content' = content /\ Goto(Uploader, "done")
      BY <2>1, ProcsApart DEF Returns, Goto, Types, Places
    <3> QED  BY <1>2, <3>1 DEF UploaderAt, Reading, Sending
  <2>2. CASE \E v \in Pending : content' = [content EXCEPT ![Uploader] = v]
    <3>1. PICK v \in Pending : content' = [content EXCEPT ![Uploader] = v]
      BY <2>2
    <3>2. v = c
      BY DEF Pending, OneContent
    <3>3. pc'[Uploader] \in {"done", "checking"} /\ \A q \in Procs : q # Uploader => pc'[q] = pc[q]
      BY <1>1 DEF UploaderAt, Returns
    <3>4. content'[Uploader] = c /\ \A q \in Tasks : q # Uploader => content'[q] = content[q]
      BY <1>0, <3>1, <3>2 DEF Types, Numbers
    <3> QED  BY <1>0, <3>3, <3>4, ProcsApart DEF OneContent, Reading, Copying, Sending
  <2> QED  BY <2>1, <2>2
<1>4. CASE UploadContent
  <2> USE <1>4 DEF UploadContent
  <2>1. content[Uploader] = c /\ disk \subseteq {c} /\ UNCHANGED content
    BY <1>0 DEF OneContent, Reading, Sending
  <2>2. CASE Replace(content[Uploader])
    <3>1. server'.content = c
      BY <2>1, <2>2 DEF Replace
    <3>2. pc'[Uploader] \in {"uploaded", "locked", "done"} /\ \A q \in Procs : q # Uploader => pc'[q] = pc[q]
      BY <1>1 DEF UploaderAt, Returns
    <3> QED  BY <1>0, <2>1, <3>1, <3>2, ProcsApart DEF OneContent, Reading, Copying
  <2>3. CASE ~Replace(content[Uploader])
    <3>1. server' = server /\ (Goto(Uploader, "locked") \/ Goto(Uploader, "done"))
      BY <2>3 DEF Returns
    <3> QED  BY <1>2, <2>1, <3>1 DEF UploaderAt, Reading, Sending
  <2> QED  BY <2>2, <2>3
<1>5. CASE UploadLockedCopy
  <2>1. UNCHANGED <<server, content>> /\ (Goto(Uploader, "copied") \/ Goto(Uploader, "done"))
        /\ pc[Uploader] = "locked"
    BY <1>5 DEF UploadLockedCopy, CopyTaken, Returns
  <2> QED  BY <1>2, <2>1 DEF UploaderAt, Reading, Sending
<1> QED  BY <1>3, <1>4, <1>5

LEMMA ClearForward ==
  ASSUME Types, NEW p \in Procs, Clear(p), NEW c \in Int, OneContent(c)
  PROVE  OneContent(c)'
<1> USE DEF serverVars, countVars, taskVars
<1>0. /\ p = Uploader \/ p = Recoverer
      /\ \A q \in Tasks : q \in Procs
  BY ProcsApart DEF Clear, ClearBuffer, RemoveFile, Types, Places, WriterAt, Tasks
<1>1. CASE ClearBuffer(p)
  <2> USE <1>1 DEF ClearBuffer
  <2>1. pc'[p] = "removing" /\ \A q \in Procs : q # p => pc'[q] = pc[q]
    BY <1>0, OneMoves DEF Types, UploaderAt, RecovererAt
  <2>2. disk \subseteq {c}
    BY <1>0, ProcsApart DEF OneContent, Sending
  <2> QED  BY <1>0, <2>1, <2>2, ProcsApart DEF OneContent, Reading, Copying, Sending
<1>2. CASE RemoveFile(p)
  <2> USE <1>2 DEF RemoveFile
  <2>1. pc'[p] \in {"idle", "done"} /\ \A q \in Procs : q # p => pc'[q] = pc[q]
        /\ (p = Recoverer => pc'[p] = "idle")
    BY <1>0, OneMoves, ProcsApart DEF Types, UploaderAt, RecovererAt, Returns
  <2>2. \A q \in Tasks : q # p => content'[q] = content[q]
    BY <1>0, ProcsApart DEF Forget, Types, Numbers, Tasks
  <2> QED  BY <1>0, <2>1, <2>2, ProcsApart DEF OneContent, Reading, Copying, Sending
<1> QED  BY <1>1, <1>2 DEF Clear

(* After a crash the content on disk is what there is.                     *)
LEMMA CrashForward ==
  ASSUME Types, Crash, NEW c \in 0..MaxSaves, OneContent(c)
  PROVE  \E d \in 0..MaxSaves : OneContent(d)'
<1> USE DEF Crash, serverVars
<1>1. \A p \in Procs : pc'[p] \in {"due", "idle"}
  OBVIOUS
<1>2. \A q \in Tasks : q \in Procs
  BY ProcsApart DEF Tasks
<1>3. ASSUME NEW d \in 0..MaxSaves, disk \subseteq {d}, d \in 0..saves, server.content <= d
      PROVE  OneContent(d)'
  <2>1. disk \subseteq 1..saves /\ \A x \in disk : server.content <= x
    BY DEF OneContent
  <2> QED  BY <1>1, <1>2, <1>3, <2>1, ProcsApart DEF OneContent, Reading, Copying, Sending
<1>4. CASE disk = {}
  BY <1>3, <1>4 DEF OneContent
<1>5. CASE disk # {}
  <2>1. PICK d \in disk : disk = {d}
    BY <1>5 DEF Types, Stores, One
  <2>2. d \in 0..MaxSaves /\ d \in 0..saves /\ server.content <= d
    BY <2>1, PipelineConstants DEF OneContent, Types, Stores, Numbers, Saves
  <2> QED  BY <1>3, <2>1, <2>2
<1> QED  BY <1>4, <1>5

LEMMA RecoveryForward ==
  ASSUME Types, RecoverRead \/ RecoverUpload \/ RemoteEdit, NEW c \in Int, OneContent(c)
  PROVE  OneContent(c)'
<1> USE DEF storeVars, serverVars, taskVars, countVars
<1>0. /\ Recoverer \in Tasks /\ \A q \in Tasks : q \in Procs
      /\ UNCHANGED <<buffer, disk, tmp, clone, saves>>
  BY ProcsApart DEF Tasks, RecoverRead, RecoverUpload, RemoteEdit
<1>1. ASSUME NEW stage \in RecovererAt, Goto(Recoverer, stage)
      PROVE  pc'[Recoverer] = stage /\ \A q \in Procs : q # Recoverer => pc'[q] = pc[q]
  BY <1>1, ProcsApart, OneMoves DEF Types
<1>2. CASE RecoverRead
  <2> USE <1>2 DEF RecoverRead
  <2>1. \A v \in Pending : v = c
    BY DEF Pending, OneContent
  <2>2. pc'[Recoverer] \in {"idle", "putting"} /\ \A q \in Procs : q # Recoverer => pc'[q] = pc[q]
    BY <1>1 DEF RecovererAt
  <2>3. /\ \A q \in Tasks : q # Recoverer => content'[q] = content[q]
        /\ pc'[Recoverer] = "putting" => content'[Recoverer] = c
    BY <1>0, <2>1 DEF Types, Numbers, Places, Goto
  <2>4. buffer = {}
    BY DEF OneContent
  <2> QED  BY <1>0, <2>2, <2>3, <2>4, ProcsApart DEF OneContent, Reading, Copying, Sending
<1>3. CASE RecoverUpload
  <2> USE <1>3 DEF RecoverUpload
  <2>1. content[Recoverer] = c /\ buffer = {} /\ disk \subseteq {c}
    BY <1>0 DEF OneContent, Reading
  <2>2. pc'[Recoverer] \in {"idle", "uploaded"} /\ \A q \in Procs : q # Recoverer => pc'[q] = pc[q]
    BY <1>1 DEF RecovererAt
  <2>3. \A q \in Tasks : q # Recoverer => content'[q] = content[q]
    BY <1>0, ProcsApart DEF Forget, Types, Numbers
  <2>4. server' = server \/ server'.content = c
    BY <2>1 DEF Replace
  <2> QED  BY <1>0, <2>1, <2>2, <2>3, <2>4, ProcsApart DEF OneContent, Reading, Copying, Sending
<1>4. CASE RemoteEdit
  <2>1. UNCHANGED <<pc, content>> /\ server'.content = -(edits + 1)
    BY <1>4 DEF RemoteEdit
  <2>2. server'.content <= c /\ \A d \in disk : server'.content <= d
    <3>1. edits \in Nat /\ c \in Nat /\ \A d \in disk : d \in Nat
      BY PipelineConstants DEF Types, Numbers, Stores, Saves, OneContent
    <3> QED  BY <2>1, <3>1
  <2> QED  BY <1>0, <2>1, <2>2 DEF OneContent
<1> QED  BY <1>2, <1>3, <1>4

LEMMA InitForward == Init => ForwardInv
<1> SUFFICES ASSUME Init PROVE OneContent(0) /\ 0 \in 0..MaxSaves
  BY DEF ForwardInv
<1> QED  BY PipelineConstants, ProcsApart
         DEF Init, OneContent, Tasks, Reading, Copying, Sending

LEMMA NextForward ==
  ASSUME {"overlap", "late_full"} \cap Events = {}
  PROVE  Types /\ ForwardInv /\ [Next]_vars => ForwardInv'
<1> SUFFICES ASSUME Types, [Next]_vars, NEW c \in 0..MaxSaves, OneContent(c)
             PROVE  \E d \in 0..MaxSaves : OneContent(d)'
  BY DEF ForwardInv
<1>0. c \in Int
  BY PipelineConstants
<1>1. CASE UNCHANGED vars
  BY <1>0, <1>1, MovesForward DEF vars, serverVars, storeVars, taskVars, countVars
<1>2. ASSUME NEW w \in Writers, Writer(w)
      PROVE  \E d \in 0..MaxSaves : OneContent(d)'
  <2>1. saves + 1 \in Int
    BY DEF Types, Numbers
  <2> QED  BY <1>0, <1>2, <2>1, SaveForward, QueueForward DEF Writer
<1>3. ASSUME NEW p \in Procs, Persist(p) \/ Clear(p)
      PROVE  OneContent(c)'
  BY <1>0, <1>3, PersistForward, ClearForward
<1>4. CASE Upload
  BY <1>0, <1>4, QueueForward, UploadForward DEF Upload
<1>5. CASE World
  BY <1>0, <1>5, CrashForward, RecoveryForward, QueueForward DEF World
<1> QED  BY <1>1, <1>2, <1>3, <1>4, <1>5 DEF Next

LEMMA ForwardInvariant ==
  ASSUME {"overlap", "late_full"} \cap Events = {}
  PROVE  Spec => []ForwardInv
BY InitForward, NextForward, TypesInvariant, PTL DEF Spec

(* No upload, retry or recovery puts an older save back over a newer one,  *)
(* unless saves overlap or an upload cannot persist what it sends.         *)
THEOREM ServerNeverEverGoesBack ==
  ASSUME {"overlap", "late_full"} \cap Events = {}
  PROVE  Spec => ServerNeverGoesBack
<1>1. ASSUME Types, ForwardInv, [Next]_vars
      PROVE  [server.content > 0 /\ server'.content > 0 => server'.content >= server.content]_vars
  <2>1. PICK c \in 0..MaxSaves : OneContent(c)
    BY <1>1 DEF ForwardInv
  <2>2. server.content \in Int /\ c \in Int /\ server.content <= c
        /\ server'.content \in Int /\ edits \in Nat
    BY <1>1, <2>1, NextTypes, PipelineConstants DEF Types, Numbers, OneContent
  <2>3. server' = server \/ server'.content = c \/ server'.content <= 0
    <3>1. CASE UNCHANGED vars
      BY <3>1 DEF vars, serverVars
    <3>2. CASE RemoteEdit
      BY <2>2, <3>2 DEF RemoteEdit
    <3>3. ASSUME NEW p \in Tasks, Replace(content[p]), pc[p] = "putting"
          PROVE  server'.content = c
      BY <2>1, <3>3 DEF Replace, OneContent, Reading
    <3>4. CASE Upload \/ World
      BY <3>2, <3>3, <3>4
         DEF Upload, World, StartQueued, ReadPending, CheckConflict, UploadConflictCopy,
             UploadContent, UploadLockedCopy, AnswerFlushes, Crash, RecoverRead, RecoverUpload,
             MemoryExpires, DeltaQuery, DeltaApply, CopyTaken, serverVars, Tasks
    <3>5. CASE \E w \in Writers : Writer(w)
      BY <3>5 DEF Writer, Save, Receive, FlushTimesOut, serverVars
    <3>6. CASE \E p \in Procs : Persist(p) \/ Clear(p)
      BY <3>6 DEF Persist, PersistClone, PersistWrite, PersistRename, Clear, ClearBuffer,
                  RemoveFile, serverVars
    <3> QED  BY <1>1, <3>1, <3>4, <3>5, <3>6 DEF Next
  <2> QED  BY <2>2, <2>3
<1> QED  BY <1>1, TypesInvariant, ForwardInvariant, PTL DEF Spec, ServerNeverGoesBack
------------------------------------------------------------------------------
(* Conflicts.  Without a crash and without delta sync the eTags that the   *)
(* program knows come from its own uploads.                                *)

Undisturbed == pc[Recoverer] = "idle" /\ crashes = 0 /\ delta = {}

Writing == Persisting \cup {"putting"}
Checked == Writing \cup {"copying"}
Away == {"idle", "starting", "removing", "done", "copied", "locked"}

IsConflict(event) == event[1] = "ConflictDetected"

(* A step that is none of the eTags' business.                             *)
Aside ==
  /\ UNCHANGED <<server, memory, sqlite>>
  /\ \/ /\ pc'[Uploader] = pc[Uploader] \/ {pc[Uploader], pc'[Uploader]} \subseteq Writing
        /\ UNCHANGED <<known, if_match, content, emitted>>
     \/ /\ pc[Uploader] # "uploaded" /\ pc'[Uploader] \in Away
        /\ \A event \in emitted' \ emitted : ~IsConflict(event)

EtagStep ==
  \/ ReadPending \/ CheckConflict \/ UploadConflictCopy \/ UploadContent
  \/ ClearBuffer(Uploader) \/ RemoteEdit \/ MemoryExpires

LEMMA WriterAside ==
  ASSUME Types, Undisturbed, NEW w \in Writers, Writer(w)
  PROVE  Aside /\ Undisturbed'
<1> USE DEF Aside, Undisturbed, serverVars, storeVars, etagVars, taskVars, countVars
<1>1. CASE Save(w)
  <2>1. \A q \in Procs : q # w => pc'[q] = pc[q]
    BY <1>1, OneMoves, ProcsApart DEF Save, Types, WriterAt
  <2> QED  BY <1>1, <2>1, ProcsApart DEF Save
<1>2. CASE Receive(w)
  <2>1. /\ pc'[Uploader] = pc[Uploader] \/ (pc[Uploader] = "idle" /\ pc'[Uploader] = "starting")
        /\ \A q \in Procs : q # w /\ q # Uploader => pc'[q] = pc[q]
    BY <1>2, ProcsApart DEF Receive, Types, Places
  <2> QED  BY <1>2, <2>1, ProcsApart DEF Receive, Away
<1>3. CASE FlushTimesOut(w)
  <2>1. \A q \in Procs : q # w => pc'[q] = pc[q]
    BY <1>3, OneMoves, ProcsApart DEF FlushTimesOut, Types, WriterAt
  <2> QED  BY <1>3, <2>1, ProcsApart DEF FlushTimesOut
<1> QED  BY <1>1, <1>2, <1>3 DEF Writer

LEMMA PersistAside ==
  ASSUME Types, Undisturbed, NEW p \in Procs, Persist(p)
  PROVE  Aside /\ Undisturbed'
<1>1. /\ pc[p] \in Persisting
      /\ UNCHANGED <<server, memory, sqlite, delta, crashes, known, if_match, content, emitted>>
  BY DEF Persist, PersistClone, PersistWrite, PersistRename, Persisting, serverVars, etagVars,
         taskVars, countVars, storeVars
<1>2. p \in Writers \/ p = Uploader
  BY <1>1, ProcsApart DEF Types, Places, RecovererAt, Persisting
<1>3. \E stage : Goto(p, stage) /\ (p = Uploader => stage \in Writing)
  BY DEF Persist, PersistClone, PersistWrite, PersistRename, PersistEnds, Writing, Persisting
<1>4. /\ \A q \in Procs : q # p => pc'[q] = pc[q]
      /\ p = Uploader => pc'[Uploader] \in Writing
  BY <1>3, ProcsApart DEF Goto, Types, Places
<1> QED  BY <1>1, <1>2, <1>4, ProcsApart DEF Aside, Undisturbed, Writing

LEMMA EtagStepUndisturbed ==
  ASSUME Types, Undisturbed, EtagStep
  PROVE  Undisturbed'
<1>1. UNCHANGED <<delta, crashes>>
  BY DEF EtagStep, ReadPending, CheckConflict, UploadConflictCopy, UploadContent, ClearBuffer,
         RemoteEdit, MemoryExpires, etagVars, countVars
<1>2. pc' = pc \/ \E stage : Goto(Uploader, stage)
  BY DEF EtagStep, ReadPending, CheckConflict, UploadConflictCopy, UploadContent, ClearBuffer,
         RemoteEdit, MemoryExpires, Returns
<1> QED  BY <1>1, <1>2, ProcsApart DEF Undisturbed, Goto, Types, Places

(* Every step that matters to the eTags is one of the upload task, an edit *)
(* by somebody else or the end of the cached entry.                        *)
LEMMA StepKinds ==
  ASSUME MaxCrashes = 0, "delta" \notin Events, Types, Undisturbed, [Next]_vars
  PROVE  Undisturbed' /\ (Aside \/ EtagStep)
<1>1. CASE UNCHANGED vars
  BY <1>1 DEF vars, Aside, Undisturbed, serverVars, etagVars, taskVars, countVars
<1>2. ASSUME NEW w \in Writers, Writer(w)
      PROVE  Undisturbed' /\ Aside
  BY <1>2, WriterAside
<1>3. ASSUME NEW p \in Procs, Persist(p)
      PROVE  Undisturbed' /\ Aside
  BY <1>3, PersistAside
<1>4. ASSUME NEW p \in Procs, Clear(p)
      PROVE  Undisturbed' /\ (Aside \/ EtagStep)
  <2>1. pc[p] \in Clearing
    BY <1>4 DEF Clear, ClearBuffer, RemoveFile, Clearing
  <2>2. p = Uploader
    BY <2>1, ProcsApart DEF Undisturbed, Clearing, Types, Places, WriterAt
  <2>3. CASE ClearBuffer(Uploader)
    BY <2>3, EtagStepUndisturbed DEF EtagStep
  <2>4. CASE RemoveFile(Uploader)
    <3>1. pc'[Uploader] = "done" /\ \A q \in Procs : q # Uploader => pc'[q] = pc[q]
      BY <2>4, OneMoves, ProcsApart DEF RemoveFile, Returns, Types, UploaderAt
    <3> QED  BY <2>4, <3>1, ProcsApart
             DEF RemoveFile, Aside, Undisturbed, Away, serverVars, etagVars, countVars
  <2> QED  BY <1>4, <2>2, <2>3, <2>4 DEF Clear
<1>5. CASE StartQueued
  <2>1. pc'[Uploader] = "starting" /\ \A q \in Procs : q # Uploader => pc'[q] = pc[q]
    BY <1>5, OneMoves, ProcsApart DEF StartQueued, Types, UploaderAt
  <2> QED  BY <1>5, <2>1, ProcsApart
           DEF StartQueued, Aside, Undisturbed, Away, serverVars, etagVars, countVars
<1>6. CASE UploadLockedCopy
  <2>1. /\ pc[Uploader] = "locked" /\ pc'[Uploader] \in {"copied", "done"}
        /\ \A q \in Procs : q # Uploader => pc'[q] = pc[q]
    BY <1>6, OneMoves, ProcsApart DEF UploadLockedCopy, Returns, Types, UploaderAt
  <2>2. UNCHANGED <<server, memory, sqlite, delta, crashes>>
    BY <1>6 DEF UploadLockedCopy, CopyTaken, serverVars, etagVars, countVars
  <2>3. \A event \in emitted' \ emitted : ~IsConflict(event)
    <3>1. PICK kind, v : emitted' = emitted \cup {<<kind, v>>} /\ kind \in {"FileLocked", "UploadFailed"}
      BY <1>6 DEF UploadLockedCopy, Emit
    <3>2. \A event \in emitted' \ emitted : event = <<kind, v>>
      BY <3>1
    <3>3. <<kind, v>>[1] = kind
      OBVIOUS
    <3> QED  BY <3>1, <3>2, <3>3 DEF IsConflict
  <2> QED  BY <2>1, <2>2, <2>3, ProcsApart DEF Aside, Undisturbed, Away
<1>7. CASE AnswerFlushes
  <2>1. pc'[Uploader] = "idle" /\ (pc'[Recoverer] = "idle" \/ pc'[Recoverer] = pc[Recoverer])
    BY <1>7, ProcsApart DEF AnswerFlushes
  <2>2. emitted' = {}
    BY <1>7 DEF AnswerFlushes, Forget
  <2> QED  BY <1>7, <2>1, <2>2
           DEF AnswerFlushes, Aside, Undisturbed, Away, serverVars, etagVars, countVars
<1>8. ~Crash /\ ~RecoverRead /\ ~RecoverUpload /\ ~DeltaQuery /\ ~DeltaApply
  BY DEF Crash, RecoverRead, RecoverUpload, DeltaQuery, DeltaApply, Undisturbed
<1> QED  BY <1>1, <1>2, <1>3, <1>4, <1>5, <1>6, <1>7, <1>8, EtagStepUndisturbed
         DEF Next, Upload, World, EtagStep

------------------------------------------------------------------------------
(* Without a failing check either, what the upload asks for is a revision  *)
(* of its own while the content is the program's, or the event is out.     *)

Own(e) == e \in 0..server.etag /\ (e = server.etag => server.content >= 0)

CheckedInv ==
  /\ Undisturbed
  /\ \A e \in memory \cup sqlite : Own(e)
  /\ pc[Uploader] \in {"checking", "uploaded"} => \A e \in known : Own(e)
  /\ pc[Uploader] \in Checked => \A e \in if_match : Own(e)
  /\ pc[Uploader] \in Writing /\ if_match = {} => Conflict(content[Uploader]) \in emitted

LEMMA OwnStays ==
  ASSUME Types, NEW e, Own(e),
         UNCHANGED server \/ server'.etag = server.etag + 1
  PROVE  \A d : d = e => Own(d)'
BY DEF Own, Types, Numbers

LEMMA AsideChecked ==
  ASSUME Aside, CheckedInv, Undisturbed'
  PROVE  CheckedInv'
BY DEF CheckedInv, Aside, Own, Writing, Checked, Away, Persisting

LEMMA EtagChecked ==
  ASSUME "check_fails" \notin Events, Types, CheckedInv, EtagStep, Undisturbed'
  PROVE  CheckedInv'
<1> USE DEF CheckedInv, Writing, Checked, Persisting
<1>1. CASE ReadPending
  <2>1. pc'[Uploader] \in {"checking", "done"} /\ known' = CachedEtag
    BY <1>1, OneMoves, ProcsApart DEF ReadPending, Returns, Types, UploaderAt
  <2>2. \A e \in CachedEtag : Own(e)
    BY DEF CachedEtag
  <2> QED  BY <1>1, <2>1, <2>2 DEF ReadPending, Own, serverVars, etagVars
<1>2. CASE CheckConflict
  <2>1. /\ pc'[Uploader] \in {"cloning", "copying"} /\ pc[Uploader] = "checking"
        /\ pc'[Uploader] = "cloning" => if_match' = known /\ known = {server.etag}
        /\ pc'[Uploader] = "copying" => if_match' = {}
    BY <1>2, OneMoves, ProcsApart DEF CheckConflict, Types, UploaderAt
  <2> QED  BY <1>2, <2>1 DEF CheckConflict, Own, serverVars, etagVars
<1>3. CASE UploadConflictCopy
  <2>1. /\ pc'[Uploader] \in {"cloning", "done"} /\ pc[Uploader] = "copying"
        /\ pc'[Uploader] = "cloning" => Conflict(content[Uploader]) \in emitted'
    BY <1>3, OneMoves, ProcsApart
       DEF UploadConflictCopy, Returns, Emit, Conflict, Types, UploaderAt
  <2>2. UNCHANGED <<server, memory, sqlite, if_match, content>>
    BY <1>3 DEF UploadConflictCopy, CopyTaken, serverVars, etagVars
  <2> QED  BY <2>1, <2>2 DEF Own
<1>4. CASE UploadContent
  <2>1. pc'[Uploader] \in {"uploaded", "locked", "done"}
    BY <1>4, OneMoves, ProcsApart DEF UploadContent, Returns, Types, UploaderAt
  <2>2. UNCHANGED server \/ server'.etag = server.etag + 1
    <3>1. UNCHANGED server \/ Replace(content[Uploader])
      BY <1>4 DEF UploadContent, serverVars
    <3> QED  BY <3>1 DEF Replace
  <2>3. UNCHANGED <<memory, sqlite>>
    BY <1>4 DEF UploadContent, etagVars
  <2>4. ASSUME pc'[Uploader] = "uploaded"
        PROVE  \A e \in known' : Own(e)'
    <3>1. known' = {server.etag + 1} /\ server' = [content |-> content[Uploader], etag |-> server.etag + 1]
      BY <1>4, <2>4, ProcsApart DEF UploadContent, Replace, Returns, Goto, Types, Places
    <3>2. content[Uploader] >= 0 /\ server.etag \in Nat
      BY PipelineConstants DEF Types, Numbers, Tasks
    <3> QED  BY <3>1, <3>2 DEF Own
  <2> QED  BY <2>1, <2>2, <2>3, <2>4, OwnStays
<1>5. CASE ClearBuffer(Uploader)
  <2>1. pc'[Uploader] = "removing" /\ UNCHANGED <<server, sqlite>>
    BY <1>5, OneMoves, ProcsApart DEF ClearBuffer, serverVars, Types, UploaderAt
  <2>2. memory' = memory \/ (memory' = known /\ pc[Uploader] = "uploaded")
    BY <1>5 DEF ClearBuffer
  <2> QED  BY <2>1, <2>2 DEF Own
<1>6. CASE RemoteEdit
  <2>1. UNCHANGED <<pc, memory, sqlite, known, if_match, content, emitted>>
        /\ server'.etag = server.etag + 1
    BY <1>6 DEF RemoteEdit, etagVars, taskVars
  <2> QED  BY <2>1, OwnStays
<1>7. CASE MemoryExpires
  BY <1>7 DEF MemoryExpires, Own, serverVars, taskVars
<1> QED  BY <1>1, <1>2, <1>3, <1>4, <1>5, <1>6, <1>7 DEF EtagStep

LEMMA InitChecked == Init => CheckedInv
BY ProcsApart DEF Init, CheckedInv, Undisturbed, Own, Writing, Checked, Persisting

LEMMA CheckedInvariant ==
  ASSUME MaxCrashes = 0, {"delta", "check_fails"} \cap Events = {}
  PROVE  Spec => []CheckedInv
<1>1. Types /\ CheckedInv /\ [Next]_vars => CheckedInv'
  BY StepKinds, AsideChecked, EtagChecked DEF CheckedInv
<1> QED  BY <1>1, InitChecked, TypesInvariant, PTL DEF Spec

(* The server's content changes by an upload or by somebody else's edit.   *)
LEMMA ServerSteps ==
  ASSUME Types, Undisturbed, MaxCrashes = 0, "delta" \notin Events, [Next]_vars
  PROVE  \/ UNCHANGED server
         \/ RemoteEdit
         \/ /\ UploadContent /\ pc[Uploader] = "putting" /\ Matches
            /\ Replace(content[Uploader])
<1>1. Aside \/ EtagStep
  BY StepKinds
<1> QED  BY <1>1 DEF Aside, EtagStep, ReadPending, CheckConflict, UploadConflictCopy, CopyTaken,
                     UploadContent, ClearBuffer, MemoryExpires, serverVars

(* An edit by somebody else that the overwriting save was not made from is *)
(* never replaced without a ConflictDetected event for that save, as long  *)
(* as the program does not crash, no delta sync runs meanwhile and the     *)
(* conflict check gets its answer.                                         *)
THEOREM OverwritesNeverSilent ==
  ASSUME MaxCrashes = 0, {"delta", "check_fails"} \cap Events = {}
  PROVE  Spec => NoSilentOverwrite
<1>1. ASSUME Types, CheckedInv, [Next]_vars, Overwrites
      PROVE  Conflict(server'.content) \in emitted'
  <2>1. edits \in Nat /\ server.content < 0 /\ server'.content > 0
    BY <1>1 DEF Overwrites, Types, Numbers
  <2>2. ~RemoteEdit /\ ~UNCHANGED server
    <3>1. RemoteEdit => server'.content = -(edits + 1)
      BY DEF RemoteEdit
    <3>2. UNCHANGED server => server'.content = server.content
      OBVIOUS
    <3>3. -(edits + 1) < 0 /\ server.content \in Int
      BY <1>1, <2>1 DEF Types, Numbers
    <3>4. ~RemoteEdit
      BY <2>1, <3>1, <3>3
    <3> QED  BY <2>1, <3>2, <3>3, <3>4
  <2>3. UploadContent /\ pc[Uploader] = "putting" /\ Matches /\ Replace(content[Uploader])
    BY <1>1, <2>2, ServerSteps DEF CheckedInv
  <2>4. if_match = {}
    BY <1>1, <2>1, <2>3 DEF CheckedInv, Own, Matches, Checked, Writing, Types, Numbers
  <2>5. Conflict(content[Uploader]) \in emitted /\ server'.content = content[Uploader]
    BY <1>1, <2>3, <2>4 DEF CheckedInv, Writing, Replace
  <2>6. emitted \subseteq emitted'
    BY <2>3 DEF UploadContent, Emit
  <2> QED  BY <2>5, <2>6
<1>2. Types /\ CheckedInv /\ [Next]_vars =>
        [Overwrites /\ server.etag > base[server'.content] =>
           Conflict(server'.content) \in emitted']_vars
  BY <1>1
<1> QED  BY <1>2, TypesInvariant, CheckedInvariant, PTL DEF Spec, NoSilentOverwrite

------------------------------------------------------------------------------
(* As long as the program keeps the eTag of every upload that succeeds, a  *)
(* revision it does not know is somebody else's.                           *)

Behind(e) == e \in 0..server.etag /\ (e # server.etag => server.content < 0)

RealInv ==
  /\ Undisturbed
  /\ memory # {} /\ (pc[Uploader] # "uploaded" => \A e \in memory : Behind(e))
  /\ pc[Uploader] \in {"checking", "uploaded"} => known # {} /\ \A e \in known : Behind(e)
  /\ pc[Uploader] \in Checked => \A e \in if_match : Behind(e)
  /\ pc[Uploader] = "copying" => server.content < 0

LEMMA AsideReal ==
  ASSUME Aside, RealInv, Undisturbed'
  PROVE  RealInv'
BY DEF RealInv, Aside, Behind, Writing, Checked, Away, Persisting

LEMMA BehindStays ==
  ASSUME Types, NEW e, Behind(e),
         UNCHANGED server \/ (server'.etag = server.etag + 1 /\ server'.content < 0)
  PROVE  \A d : d = e => Behind(d)'
BY DEF Behind, Types, Numbers

LEMMA EtagReal ==
  ASSUME {"expiry", "answer_lost"} \cap Events = {}, Types, RealInv, EtagStep, Undisturbed'
  PROVE  RealInv'
<1> USE DEF RealInv, Writing, Checked, Persisting
<1>1. CASE ReadPending
  <2>1. /\ pc[Uploader] = "starting" /\ pc'[Uploader] \in {"checking", "done"}
        /\ known' = CachedEtag
    BY <1>1, OneMoves, ProcsApart DEF ReadPending, Returns, Types, UploaderAt
  <2>2. CachedEtag # {} /\ \A e \in CachedEtag : Behind(e)
    BY <2>1 DEF CachedEtag
  <2> QED  BY <1>1, <2>1, <2>2 DEF ReadPending, Behind, serverVars, etagVars
<1>2. CASE CheckConflict
  <2>1. /\ pc'[Uploader] \in {"cloning", "copying"} /\ pc[Uploader] = "checking"
        /\ if_match' \subseteq known
        /\ pc'[Uploader] = "copying" => known # {server.etag}
        /\ UNCHANGED <<server, memory>>
    BY <1>2, OneMoves, ProcsApart
       DEF CheckConflict, Types, UploaderAt, serverVars, etagVars
  <2>2. pc'[Uploader] = "copying" => server.content < 0
    BY <2>1 DEF Behind
  <2> QED  BY <2>1, <2>2 DEF Behind
<1>3. CASE UploadConflictCopy
  <2>1. pc'[Uploader] \in {"cloning", "done"} /\ pc[Uploader] = "copying"
    BY <1>3, OneMoves, ProcsApart DEF UploadConflictCopy, Returns, Types, UploaderAt
  <2>2. UNCHANGED <<server, memory, if_match>>
    BY <1>3 DEF UploadConflictCopy, CopyTaken, serverVars, etagVars
  <2> QED  BY <2>1, <2>2 DEF Behind
<1>4. CASE UploadContent
  <2>1. pc[Uploader] = "putting" /\ pc'[Uploader] \in {"uploaded", "locked", "done"}
    BY <1>4, OneMoves, ProcsApart DEF UploadContent, Returns, Types, UploaderAt
  <2>2. pc'[Uploader] # "uploaded" => UNCHANGED server
    BY <1>4, ProcsApart DEF UploadContent, Goto, serverVars, Types, Places
  <2>3. UNCHANGED memory
    BY <1>4 DEF UploadContent, etagVars
  <2>4. ASSUME pc'[Uploader] = "uploaded"
        PROVE  known' # {} /\ \A e \in known' : Behind(e)'
    <3>1. known' = {server.etag + 1} /\ server' = [content |-> content[Uploader], etag |-> server.etag + 1]
      BY <1>4, <2>4, ProcsApart DEF UploadContent, Replace, Returns, Goto, Types, Places
    <3>2. server.etag \in Nat
      BY DEF Types, Numbers
    <3> QED  BY <3>1, <3>2 DEF Behind
  <2> QED  BY <2>1, <2>2, <2>3, <2>4 DEF Behind
<1>5. CASE ClearBuffer(Uploader)
  <2>1. pc'[Uploader] = "removing" /\ UNCHANGED server
    BY <1>5, OneMoves, ProcsApart DEF ClearBuffer, serverVars, Types, UploaderAt
  <2>2. \/ memory' = memory /\ pc[Uploader] # "uploaded"
        \/ memory' = known /\ pc[Uploader] = "uploaded"
    BY <1>5 DEF ClearBuffer
  <2> QED  BY <2>1, <2>2 DEF Behind
<1>6. CASE RemoteEdit
  <2>1. UNCHANGED <<pc, memory, known, if_match>>
        /\ server' = [content |-> -(edits + 1), etag |-> server.etag + 1]
    BY <1>6 DEF RemoteEdit, etagVars, taskVars
  <2>2. server'.content < 0 /\ server'.etag = server.etag + 1
    BY <2>1 DEF Types, Numbers
  <2> QED  BY <2>1, <2>2, BehindStays
<1>7. ~MemoryExpires
  BY DEF MemoryExpires
<1> QED  BY <1>1, <1>2, <1>3, <1>4, <1>5, <1>6, <1>7 DEF EtagStep

LEMMA InitReal == Init => RealInv
BY ProcsApart DEF Init, RealInv, Undisturbed, Behind, Writing, Checked, Persisting

LEMMA RealInvariant ==
  ASSUME MaxCrashes = 0, {"delta", "expiry", "answer_lost"} \cap Events = {}
  PROVE  Spec => []RealInv
<1>1. Types /\ RealInv /\ [Next]_vars => RealInv'
  BY StepKinds, AsideReal, EtagReal DEF RealInv
<1> QED  BY <1>1, InitReal, TypesInvariant, PTL DEF Spec

(* A ConflictDetected event is about an edit by somebody else, as long as  *)
(* the program has not lost the eTag of an upload of its own: no crash, no *)
(* lost answer, no cached entry that expires or that delta sync replaces.  *)
THEOREM ConflictsAlwaysReal ==
  ASSUME MaxCrashes = 0, {"delta", "expiry", "answer_lost"} \cap Events = {}
  PROVE  Spec => ConflictsAreReal
<1>1. ASSUME Types, RealInv, [Next]_vars, NEW v \in Saves, Conflict(v) \in emitted' \ emitted
      PROVE  server.content < 0
  <2>1. IsConflict(Conflict(v))
    BY DEF IsConflict, Conflict
  <2>2. UploadConflictCopy \/ UploadContent
    <3>1. Aside \/ EtagStep
      BY <1>1, StepKinds DEF RealInv
    <3> QED  BY <1>1, <2>1, <3>1
             DEF Aside, EtagStep, ReadPending, CheckConflict, ClearBuffer, RemoteEdit,
                 MemoryExpires, taskVars
  <2>3. CASE UploadConflictCopy
    BY <1>1, <2>3 DEF UploadConflictCopy, RealInv
  <2>4. CASE UploadContent
    <3>1. pc[Uploader] = "putting" /\ ~Matches
      <4>1. Conflict(v) # <<"UploadFailed", content[Uploader]>>
        BY DEF Conflict
      <4> QED  BY <1>1, <2>4, <4>1 DEF UploadContent, Emit
    <3> QED  BY <1>1, <3>1 DEF RealInv, Behind, Matches, Checked, Writing
  <2> QED  BY <2>2, <2>3, <2>4
<1>2. Types /\ RealInv /\ [Next]_vars =>
        [\A v \in Saves : Conflict(v) \in emitted' \ emitted => server.content < 0]_vars
  BY <1>1
<1> QED  BY <1>2, TypesInvariant, RealInvariant, PTL DEF Spec, ConflictsAreReal
=============================================================================
