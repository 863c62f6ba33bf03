---------------------------- MODULE SyncProcessor ----------------------------
(***************************************************************************)
(* The upload queue of one mounted drive: processor_loop of                *)
(* carminedesktop-vfs/src/sync_processor.rs, the upload tasks it spawns    *)
(* and the file-system threads that block in CoreOps::flush_handle until   *)
(* their upload is answered.                                               *)
(*                                                                         *)
(* Three kinds of actors interleave:                                       *)
(*   - file-system threads and unmount put requests in an unbounded        *)
(*     channel (req_rx) and wait for a oneshot with a timeout;             *)
(*   - the processor owns pending, in_flight and failed and takes one      *)
(*     branch of its select! at a time.  The select! is biased, but a poll *)
(*     of its three branches is not atomic with the arrival of messages,   *)
(*     so any branch that is ready may be the one taken;                   *)
(*   - every upload is a tokio task: it acquires a permit of the           *)
(*     semaphore, runs flush_inode_async and sends its result through a    *)
(*     bounded channel, holding the permit until the send is done.         *)
(*                                                                         *)
(* What an upload does is module UploadPipeline; here it ends in TRUE or   *)
(* FALSE, or never (the HTTP client has no timeout).  An Instant is kept   *)
(* as the one thing the loop asks of it: whether the debounce window or    *)
(* the backoff has elapsed.  The metrics counters are left out.            *)
(***************************************************************************)
EXTENDS Naturals, Sequences, FiniteSets

CONSTANTS
  Inos,            (* inodes of files with local changes                    *)
  Calls,           (* oneshot channels of flush_handle calls; one that has  *)
                   (* been consumed may be used again by a later call       *)
  MaxConcurrent,   (* max_concurrent_uploads: permits, and result capacity  *)
  MAX_RETRIES,     (* consecutive failures after which an upload is given up *)
  MaxQueue         (* bound of the model on the length of the request queue *)

ASSUME ConstantsAssumption ==
  /\ MaxConcurrent \in Nat \ {0}
  /\ MAX_RETRIES \in Nat \ {0}
  /\ MaxQueue \in Nat \ {0}
  /\ IsFiniteSet(Inos)

VARIABLES
  phase,        (* where processor_loop is                                  *)
  handles_open, (* a SyncHandle exists, so the request channel is open      *)
  req_rx,       (* request channel                                          *)
  pending,      (* per inode: not pending, inside or past its debounce      *)
  in_flight,    (* inodes with an entry in the in_flight map ...            *)
  waiters,      (* ... and the oneshots that entry holds                    *)
  failed,       (* retry_count per inode, 0 when it has no failed entry     *)
  due,          (* failed inodes whose next_retry has passed                *)
  tasks,        (* per inode: how many upload tasks are at each stage       *)
  permits,      (* free permits of the semaphore                            *)
  result_rx,    (* result channel                                           *)
  call,         (* what each flush_handle call has seen so far              *)
  target        (* the inode that call flushes                              *)

callVars == <<call, target>>
permitVars == <<tasks, permits>>
retryVars == <<failed, due>>
queueVars == <<phase, handles_open, req_rx, pending, in_flight, waiters, failed,
              due, tasks, permits, result_rx, call, target>>

Exited == {"drained", "expired", "closed"}
Phases == {"running", "draining"} \cup Exited
CallStates == {"idle", "waiting", "ok", "failed", "closed", "timed_out"}
Stages == {"acquiring", "uploading", "succeeded", "failed"}
Outcome(stage) == stage = "succeeded"

Flush(i) == [type |-> "Flush", ino |-> i]
FlushSync(i, c) == [type |-> "FlushSync", ino |-> i, done |-> c]
Shutdown == [type |-> "Shutdown"]
SyncRequest ==
  {Flush(i) : i \in Inos} \cup {FlushSync(i, c) : i \in Inos, c \in Calls}
    \cup {Shutdown}
UploadResult == [ino : Inos, success : BOOLEAN]

(* The oneshot senders that still exist: in the queue or in a waiter list. *)
Carries(r, c) == \E i \in Inos : r = FlushSync(i, c)
Queued(c) == \E k \in 1..Len(req_rx) : Carries(req_rx[k], c)
Attached(c) == \E i \in Inos : c \in waiters[i]

(* Sending v on the oneshots in C, or dropping them (v = "closed"): only a *)
(* call that is still waiting sees it.                                     *)
Answer(C, v) ==
  call' = [c \in Calls |-> IF c \in C /\ call[c] = "waiting" THEN v ELSE call[c]]

(***************************************************************************)
(* QueueInit: recover_pending has put in pending any writeback entry of    *)
(* the drive that has an inode.                                            *)
(***************************************************************************)
QueueInit ==
  /\ phase = "running"
  /\ handles_open = TRUE
  /\ req_rx = <<>>
  /\ pending \in [Inos -> {"none", "fresh"}]
  /\ in_flight = {}
  /\ waiters = [i \in Inos |-> {}]
  /\ failed = [i \in Inos |-> 0]
  /\ due = {}
  /\ tasks = [i \in Inos |-> [s \in Stages |-> 0]]
  /\ permits = MaxConcurrent
  /\ result_rx = <<>>
  /\ call = [c \in Calls |-> "idle"]
  /\ target \in [Calls -> Inos]

------------------------------------------------------------------------------
(* File-system threads.                                                    *)

Send(r) ==
  /\ handles_open
  /\ phase \notin Exited
  /\ Len(req_rx) < MaxQueue
  /\ req_rx' = Append(req_rx, r)

(* flush_handle(fh, false): fire and forget.                               *)
SendFlush(i) ==
  /\ Send(Flush(i))
  /\ UNCHANGED <<phase, handles_open, pending, in_flight, waiters, retryVars,
                 permitVars, result_rx, callVars>>

(* flush_handle(fh, true).  When the processor is gone the send fails, the *)
(* oneshot is dropped and the call returns an error at once.               *)
SendFlushSync(c, i) ==
  /\ call[c] # "waiting"
  /\ ~Queued(c) /\ ~Attached(c)
  /\ \/ /\ Send(FlushSync(i, c))
        /\ call' = [call EXCEPT ![c] = "waiting"]
     \/ /\ handles_open
        /\ phase \in Exited
        /\ call' = [call EXCEPT ![c] = "closed"]
        /\ UNCHANGED req_rx
  /\ target' = [target EXCEPT ![c] = i]
  /\ UNCHANGED <<phase, handles_open, pending, in_flight, waiters, retryVars,
                 permitVars, result_rx>>

(* The 60 s timeout of flush_handle drops the receiver; the sender stays   *)
(* wherever it is.                                                         *)
CallTimesOut(c) ==
  /\ call[c] = "waiting"
  /\ call' = [call EXCEPT ![c] = "timed_out"]
  /\ UNCHANGED <<phase, handles_open, req_rx, pending, in_flight, waiters,
                 retryVars, permitVars, result_rx, target>>

(* WinFspMountHandle::unmount, which consumes the mount, sends it once.    *)
SendShutdown ==
  /\ phase = "running"
  /\ \A k \in 1..Len(req_rx) : req_rx[k] # Shutdown
  /\ Send(Shutdown)
  /\ UNCHANGED <<phase, handles_open, pending, in_flight, waiters, retryVars,
                 permitVars, result_rx, callVars>>

(* CoreOps and its SyncHandle are dropped when no call is inside them.     *)
DropHandles ==
  /\ handles_open
  /\ \A c \in Calls : call[c] # "waiting"
  /\ handles_open' = FALSE
  /\ UNCHANGED <<phase, req_rx, pending, in_flight, waiters, retryVars,
                 permitVars, result_rx, callVars>>

------------------------------------------------------------------------------
(* The processor.                                                          *)

(* spawn_upload for the inodes of S: an empty waiter list each, or the one *)
(* oneshot that on_flush_sync pushes right after.                          *)
Spawn(S, C) ==
  /\ in_flight' = in_flight \cup S
  /\ waiters' = [i \in Inos |-> IF i \in S THEN C ELSE waiters[i]]
  /\ tasks' = [i \in Inos |->
       IF i \in S THEN [tasks[i] EXCEPT !["acquiring"] = @ + 1] ELSE tasks[i]]

NextRequest(r) ==
  /\ phase = "running"
  /\ req_rx # <<>>
  /\ r = Head(req_rx)
  /\ req_rx' = Tail(req_rx)

(* Mutant: a request is queued whether or not an upload runs.              *)
OnFlushAlways(i) ==
  /\ NextRequest(Flush(i))
  /\ pending' = [pending EXCEPT ![i] = "fresh"]
  /\ UNCHANGED <<phase, handles_open, in_flight, waiters, retryVars, permitVars,
                 result_rx, callVars>>

(* Flush while an upload runs only counts as a duplicate: nothing is kept. *)
OnFlush(i) ==
  /\ NextRequest(Flush(i))
  /\ pending' = IF i \in in_flight THEN pending ELSE [pending EXCEPT ![i] = "fresh"]
  /\ UNCHANGED <<phase, handles_open, in_flight, waiters, retryVars, permitVars,
                 result_rx, callVars>>

(* Mutant: while an upload runs it is only counted, as Flush is.           *)
OnFlushSyncUnheard(i, c) ==
  /\ NextRequest(FlushSync(i, c))
  /\ IF i \in in_flight
       THEN UNCHANGED <<pending, in_flight, waiters, tasks>>
       ELSE /\ pending' = [pending EXCEPT ![i] = "none"]
            /\ Spawn({i}, {c})
  /\ UNCHANGED <<phase, handles_open, retryVars, permits, result_rx, callVars>>

OnFlushSync(i, c) ==
  /\ NextRequest(FlushSync(i, c))
  /\ IF i \in in_flight
       THEN /\ waiters' = [waiters EXCEPT ![i] = @ \cup {c}]
            /\ UNCHANGED <<pending, in_flight, tasks>>
       ELSE /\ pending' = [pending EXCEPT ![i] = "none"]
            /\ Spawn({i}, {c})
  /\ UNCHANGED <<phase, handles_open, retryVars, permits, result_rx, callVars>>

OnShutdown ==
  LET ready == {i \in Inos : pending[i] # "none"}
  IN /\ NextRequest(Shutdown)
     /\ pending' = [i \in Inos |-> "none"]
     /\ Spawn(ready \ in_flight, {})
     /\ phase' = "draining"
     /\ UNCHANGED <<handles_open, retryVars, permits, result_rx, callVars>>

(* Mutant: an inode with a failed entry is left to the retry.              *)
OnTickSkipsFailed ==
  LET ready     == {i \in Inos : pending[i] = "ripe"}
      uploaded  == {i \in ready \ in_flight : failed[i] = 0}
      retryable == {i \in due : i \notin in_flight \cup uploaded /\ pending[i] = "none"}
  IN /\ phase = "running"
     /\ pending' = [i \in Inos |-> IF i \in retryable THEN "ripe"
                                   ELSE IF i \in ready THEN "none"
                                   ELSE pending[i]]
     /\ Spawn(uploaded, {})
     /\ UNCHANGED <<phase, handles_open, req_rx, retryVars, permits, result_rx,
                    callVars>>

(* One tick: expired debounce windows are uploaded first; then a failed    *)
(* inode past its backoff is put in pending, ripe for the next tick.       *)
OnTick ==
  LET ready     == {i \in Inos : pending[i] = "ripe"}
      uploaded  == ready \ in_flight
      retryable == {i \in due : i \notin in_flight \cup uploaded /\ pending[i] = "none"}
  IN /\ phase = "running"
     /\ pending' = [i \in Inos |-> IF i \in retryable THEN "ripe"
                                   ELSE IF i \in ready THEN "none"
                                   ELSE pending[i]]
     /\ Spawn(uploaded, {})
     /\ UNCHANGED <<phase, handles_open, req_rx, retryVars, permits, result_rx,
                    callVars>>

(* Mutant: one failure too many before giving up.                          *)
GivesUpLate(retry_count) == retry_count > MAX_RETRIES

GivesUp(retry_count) == retry_count >= MAX_RETRIES
Verdict(success) == IF success THEN "ok" ELSE "failed"

(* handle_result, from the main loop or from the drain loop.               *)
HandleResult ==
  LET r == Head(result_rx)
      i == r.ino
      count == failed[i] + 1
  IN /\ \/ phase = "running"
        \/ phase = "draining" /\ in_flight # {}
     /\ result_rx # <<>>
     /\ result_rx' = Tail(result_rx)
     /\ in_flight' = in_flight \ {i}
     /\ waiters' = [waiters EXCEPT ![i] = {}]
     /\ Answer(waiters[i], Verdict(r.success))
     /\ failed' = [failed EXCEPT ![i] =
          IF r.success \/ GivesUp(count) THEN 0 ELSE count]
     /\ due' = due \ {i}
     /\ UNCHANGED <<phase, handles_open, req_rx, pending, permitVars, target>>

(* processor_loop returns: its maps and both receivers are dropped, and    *)
(* with the queue every oneshot in it.  Upload tasks are not aborted.      *)
Exit(how) ==
  /\ phase' = how
  /\ req_rx' = <<>>
  /\ result_rx' = <<>>
  /\ pending' = [i \in Inos |-> "none"]
  /\ in_flight' = {}
  /\ waiters' = [i \in Inos |-> {}]
  /\ failed' = [i \in Inos |-> 0]
  /\ due' = {}
  /\ UNCHANGED <<handles_open, permitVars, target>>

QueuedCalls == {c \in Calls : Queued(c)}
AttachedCalls == {c \in Calls : Attached(c)}

(* Mutant: the drain does not wait for the uploads.                        *)
DrainCompletesEarly ==
  /\ phase = "draining"
  /\ Answer(QueuedCalls, "closed")
  /\ Exit("drained")

DrainCompletes ==
  /\ phase = "draining"
  /\ in_flight = {}
  /\ Answer(QueuedCalls, "closed")
  /\ Exit("drained")

(* Mutant: the deadline is looked at only when a result arrives.           *)
DrainDeadlineOnResult ==
  /\ phase = "draining"
  /\ in_flight # {}
  /\ result_rx # <<>>
  /\ Answer(QueuedCalls \cup AttachedCalls, "closed")
  /\ Exit("expired")

(* The deadline of the drain loop: waiters are told FALSE.                 *)
DrainDeadline ==
  /\ phase = "draining"
  /\ in_flight # {}
  /\ call' = [c \in Calls |->
       IF call[c] # "waiting" THEN call[c]
       ELSE IF Attached(c) THEN "failed"
       ELSE IF Queued(c) THEN "closed"
       ELSE "waiting"]
  /\ Exit("expired")

(* recv() returns None: every handle is gone and the queue is empty.       *)
ChannelClosed ==
  /\ phase = "running"
  /\ ~handles_open
  /\ req_rx = <<>>
  /\ Answer(AttachedCalls, "closed")
  /\ Exit("closed")

------------------------------------------------------------------------------
(* Upload tasks.                                                           *)

Moves(i, from, to) ==
  /\ tasks[i][from] > 0
  /\ tasks' = [tasks EXCEPT ![i][from] = @ - 1, ![i][to] = @ + 1]

AcquirePermit(i) ==
  /\ permits > 0
  /\ permits' = permits - 1
  /\ Moves(i, "acquiring", "uploading")
  /\ UNCHANGED <<phase, handles_open, req_rx, pending, in_flight, waiters,
                 retryVars, result_rx, callVars>>

UploadEnds(i, outcome) ==
  /\ Moves(i, "uploading", outcome)
  /\ UNCHANGED <<phase, handles_open, req_rx, pending, in_flight, waiters,
                 retryVars, permits, result_rx, callVars>>

(* Mutant: the permit is forgotten when the processor has returned.        *)
SendResultLeaks(i, outcome) ==
  /\ tasks[i][outcome] > 0
  /\ tasks' = [tasks EXCEPT ![i][outcome] = @ - 1]
  /\ \/ /\ phase \notin Exited
        /\ Len(result_rx) < MaxConcurrent
        /\ result_rx' = Append(result_rx, [ino |-> i, success |-> Outcome(outcome)])
        /\ permits' = permits + 1
     \/ /\ phase \in Exited
        /\ UNCHANGED <<result_rx, permits>>
  /\ UNCHANGED <<phase, handles_open, req_rx, pending, in_flight, waiters,
                 retryVars, callVars>>

(* The bounded send blocks while the channel is full, and fails at once    *)
(* when the processor has returned.  Either way the permit is released.    *)
SendResult(i, outcome) ==
  /\ tasks[i][outcome] > 0
  /\ tasks' = [tasks EXCEPT ![i][outcome] = @ - 1]
  /\ \/ /\ phase \notin Exited
        /\ Len(result_rx) < MaxConcurrent
        /\ result_rx' = Append(result_rx, [ino |-> i, success |-> Outcome(outcome)])
     \/ /\ phase \in Exited
        /\ UNCHANGED result_rx
  /\ permits' = permits + 1
  /\ UNCHANGED <<phase, handles_open, req_rx, pending, in_flight, waiters,
                 retryVars, callVars>>

------------------------------------------------------------------------------
(* Time, as far as a running loop can see it.                              *)

DebounceElapses(i) ==
  /\ phase = "running"
  /\ pending[i] = "fresh"
  /\ pending' = [pending EXCEPT ![i] = "ripe"]
  /\ UNCHANGED <<phase, handles_open, req_rx, in_flight, waiters, retryVars,
                 permitVars, result_rx, callVars>>

BackoffElapses(i) ==
  /\ phase = "running"
  /\ failed[i] > 0
  /\ i \notin due
  /\ due' = due \cup {i}
  /\ UNCHANGED <<phase, handles_open, req_rx, pending, in_flight, waiters,
                 failed, permitVars, result_rx, callVars>>

------------------------------------------------------------------------------
Environment ==
  \/ \E i \in Inos : SendFlush(i)
  \/ \E c \in Calls, i \in Inos : SendFlushSync(c, i)
  \/ \E c \in Calls : CallTimesOut(c)
  \/ SendShutdown
  \/ DropHandles

ReceiveRequest ==
  \/ \E i \in Inos : OnFlush(i)
  \/ \E i \in Inos, c \in Calls : OnFlushSync(i, c)
  \/ OnShutdown

Processor ==
  \/ ReceiveRequest
  \/ OnTick
  \/ HandleResult
  \/ DrainCompletes
  \/ DrainDeadline
  \/ ChannelClosed

Outcomes == {"succeeded", "failed"}

UploadTask(i) ==
  \/ AcquirePermit(i)
  \/ \E outcome \in Outcomes : UploadEnds(i, outcome)
  \/ \E outcome \in Outcomes : SendResult(i, outcome)

Clock ==
  \E i \in Inos : DebounceElapses(i) \/ BackoffElapses(i)

QueueNext == Environment \/ Processor \/ (\E i \in Inos : UploadTask(i)) \/ Clock

QueueSpec == QueueInit /\ [][QueueNext]_queueVars

(***************************************************************************)
(* Fairness.  The processor is one task of a multi-threaded runtime and    *)
(* none of its handlers blocks, so it keeps taking branches; the biased    *)
(* order could starve the tick only under a request stream that never      *)
(* pauses.  The semaphore and the bounded channel serve waiting tasks in   *)
(* FIFO order, which is strong fairness per task.                          *)
(***************************************************************************)
ProcessorFairness ==
  /\ WF_queueVars(ReceiveRequest \/ ChannelClosed)
  /\ WF_queueVars(HandleResult)
  /\ WF_queueVars(OnTick)
  /\ WF_queueVars(DrainCompletes \/ DrainDeadline)

TaskFairness ==
  \A i \in Inos :
    /\ SF_queueVars(AcquirePermit(i))
    /\ SF_queueVars(\E outcome \in Outcomes : SendResult(i, outcome))

(* Every request to the Graph API ends, with an answer or an error.        *)
UploadFairness ==
  \A i \in Inos : WF_queueVars(\E outcome \in Outcomes : UploadEnds(i, outcome))

(* Time passes, and requests for one inode pause now and then for longer   *)
(* than the debounce window and a tick.                                    *)
ClockFairness ==
  \A i \in Inos :
    /\ WF_queueVars(DebounceElapses(i))
    /\ WF_queueVars(BackoffElapses(i))
    /\ SF_queueVars(OnTick /\ pending[i] = "ripe")

(* What the code's own scheduling justifies; the assumptions about uploads *)
(* and the clock are premises of the properties that need them.            *)
LiveSpec == QueueSpec /\ ProcessorFairness /\ TaskFairness

------------------------------------------------------------------------------
(* Correctness.                                                            *)

TypeOK ==
  /\ phase \in Phases
  /\ handles_open \in BOOLEAN
  /\ req_rx \in Seq(SyncRequest)
  /\ pending \in [Inos -> {"none", "fresh", "ripe"}]
  /\ in_flight \subseteq Inos
  /\ waiters \in [Inos -> SUBSET Calls]
  /\ failed \in [Inos -> 0 .. (MAX_RETRIES - 1)]
  /\ due \subseteq Inos
  /\ tasks \in [Inos -> [Stages -> Nat]]
  /\ permits \in Nat
  /\ result_rx \in Seq(UploadResult)
  /\ call \in [Calls -> CallStates]
  /\ target \in [Calls -> Inos]

Uploads(i) ==
  tasks[i]["acquiring"] + tasks[i]["uploading"] + tasks[i]["succeeded"]
    + tasks[i]["failed"]
HasResult(i) == \E k \in 1..Len(result_rx) : result_rx[k].ino = i

(* Two uploads of one inode never overlap, and an inode is in the          *)
(* in_flight map exactly while its one upload task, or the result that     *)
(* task sent, exists: an entry without a task would block the inode for    *)
(* ever, a task without an entry would let a second upload start.  After   *)
(* the drain deadline the surviving tasks are still at most one per inode. *)
OneUploadPerInode ==
  /\ \A i \in Inos : Uploads(i) <= 1
  /\ phase \notin Exited =>
       \A i \in Inos :
         /\ i \in in_flight <=> (Uploads(i) = 1 \/ HasResult(i))
         /\ ~(Uploads(i) = 1 /\ HasResult(i))
  /\ \A k, l \in 1..Len(result_rx) :
       result_rx[k].ino = result_rx[l].ino => k = l

(* An inode is never both waiting for its debounce window and in flight:   *)
(* the tick drops a ripe entry whose inode is in flight without uploading  *)
(* it, so such an entry would be a lost request.                           *)
PendingNotInFlight == \A i \in in_flight : pending[i] = "none"

(* Every flush_handle call still waiting owns exactly one oneshot sender   *)
(* that will be answered: it is in the queue or in the waiter list of the  *)
(* call's own inode, never in both, twice, or with another inode's upload. *)
OneshotsAccounted ==
  \A c \in Calls :
    /\ call[c] = "waiting" => Queued(c) \/ Attached(c)
    /\ ~(Queued(c) /\ Attached(c))
    /\ \A i \in Inos : c \in waiters[i] => i = target[c] /\ i \in in_flight
    /\ \A k, l \in 1..Len(req_rx) :
         Carries(req_rx[k], c) /\ Carries(req_rx[l], c)
           => k = l /\ req_rx[k] = FlushSync(target[c], c)

HoldsPermit(i) == \E s \in {"uploading", "succeeded", "failed"} : tasks[i][s] > 0

(* At most MaxConcurrent uploads talk to the Graph API at a time, and a    *)
(* permit is never lost, whether the processor is still there or not.      *)
PermitsConserved ==
  permits + Cardinality({i \in Inos : HoldsPermit(i)}) = MaxConcurrent

(* Shutdown forgets no pending inode, and a drain that ends before its     *)
(* deadline leaves no upload task that could still write while unmount     *)
(* goes on to flush the writeback cache itself.                            *)
DrainLeavesNothing ==
  phase \in {"draining", "drained"} =>
    \A i \in Inos : pending[i] = "none" /\ (phase = "drained" => Uploads(i) = 0)

(* Uploads stay apart: from each other, from what is still pending, and    *)
(* from the unmount that follows a drain.                                  *)
UploadsExclusive == OneUploadPerInode /\ PendingNotInFlight /\ DrainLeavesNothing

(* A call that is answered TRUE is answered by the successful upload of    *)
(* its own inode: never by a timeout, a shutdown or another file's upload. *)
ConfirmedByItsUpload ==
  \A c \in Calls :
    call[c] = "waiting" /\ call'[c] = "ok" =>
      /\ result_rx # <<>>
      /\ Head(result_rx) = [ino |-> target[c], success |-> TRUE]
AnsweredByItsUpload == [][ConfirmedByItsUpload]_queueVars

(* If uploads end, every flush_handle call returns without counting on its *)
(* 60 s timeout.                                                           *)
CallsReturn ==
  UploadFairness => \A c \in Calls : call[c] = "waiting" ~> call[c] # "waiting"

(* Once Shutdown is queued the processor exits, even when uploads hang:    *)
(* unmount joins the task without a timeout of its own.                    *)
ShutdownCompletes ==
  (\E k \in 1..Len(req_rx) : req_rx[k] = Shutdown) ~> phase \in Exited

(* While the processor runs, an inode that is pending or has failed is     *)
(* uploaded, retried and retried again until it is uploaded or given up:   *)
(* no order of debounce, backoff, results and new requests leaves it       *)
(* behind in one of the maps.                                              *)
RequestsSettled ==
  UploadFairness /\ ClockFairness => \A i \in Inos :
    (pending[i] # "none" \/ failed[i] > 0) ~>
      ((pending[i] = "none" /\ failed[i] = 0) \/ phase # "running")

(* The queue, for all its channels and tasks, is the flush service: the    *)
(* uploads under way are the inodes of the in_flight map.                  *)
Service == INSTANCE FlushService WITH
             stopped <- phase \in Exited, uploading <- in_flight
ImplementsService == Service!Spec
==============================================================================
