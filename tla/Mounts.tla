--------------------------------- MODULE Mounts ---------------------------------
(***************************************************************************)
(* Mounts and the application around them: start_mount and stop_mount, the *)
(* delta loop, the commands, launch and shutdown of carminedesktop-app     *)
(* (main.rs, commands.rs), WinFspMountHandle::mount and unmount            *)
(* (winfsp_fs.rs) and the mounts of the configuration (config.rs).         *)
(*                                                                         *)
(* An instance is what one call of start_mount builds for a drive: caches, *)
(* inode table, sync processor, WinFsp host.  All instances of a drive     *)
(* share its database and the writeback directory.  AppState names the     *)
(* current instance twice: by mount id in `mounts', by drive in            *)
(* `mount_caches'.  Commands run on the main thread and on the runtime,    *)
(* each a thread of Callers here, and a delta loop is a thread as well.    *)
(*                                                                         *)
(* Of the content of a drive only this is kept: whether the writeback      *)
(* directory holds a save that is not uploaded, and which processors have  *)
(* it queued.  toggle_mount and refresh_mount are left out: no window and  *)
(* no menu calls them.                                                     *)
(***************************************************************************)
EXTENDS Integers, FiniteSets

CONSTANTS
  MountIds, Drives, Drive,   (* Drive[m]: the drive of mount m              *)
  Callers,                   (* commands that may run at the same time      *)
  Loops,                     (* delta loops, each started at most once      *)
  NoMount,
  ReAuthentication,          (* sign-ins while mounted                      *)
  MaxInstances, MaxSaves     (* bounds of the model                         *)

ASSUME MountsConstants ==
  /\ Drive \in [MountIds -> Drives] /\ NoMount \notin MountIds
  /\ Callers \cap Loops = {}
  /\ ReAuthentication \in BOOLEAN
  /\ {MaxInstances, MaxSaves} \subseteq Nat

Threads == Callers \cup Loops
Instances == 1..MaxInstances
None == 0

VARIABLES
  config,         (* the mounts of the configuration                        *)
  account,        (* the configuration names an account                     *)
  authenticated,
  mounts,         (* instance of each mount                                 *)
  caches,         (* instance of each drive                                 *)
  started,        (* instances so far                                       *)
  driveOf,        (* drive of each instance                                 *)
  host, processor,   (* of each instance                                    *)
  queued,         (* instances whose processor has the unsaved saved queued *)
  saved,          (* drives with a save that is not uploaded                *)
  thread,         (* what each thread does                                  *)
  loop,           (* the delta loops                                        *)
  gone,           (* the drives that are deleted                            *)
  launched,       (* setup_after_launch has begun                           *)
  saves

settings == <<config, account, authenticated>>
tables == <<mounts, caches>>
instances == <<started, driveOf, host, processor, queued>>
world == <<gone, saves>>
vars == <<settings, tables, instances, saved, thread, loop, world, launched>>

Idle == [at |-> "idle", cmd |-> "none", todo |-> {}, mount |-> NoMount, inst |-> None]
NoLoop == [at |-> "none", cancelled |-> FALSE, rows |-> {}, todo |-> {}]

Init ==
  /\ config \in SUBSET MountIds /\ \A m, n \in config : Drive[m] = Drive[n] => m = n
  /\ account \in BOOLEAN /\ authenticated = FALSE
  /\ mounts = [m \in MountIds |-> None] /\ caches = [d \in Drives |-> None]
  /\ started = 0 /\ driveOf = [i \in Instances |-> CHOOSE d \in Drives : TRUE]
  /\ host = [i \in Instances |-> "none"] /\ processor = [i \in Instances |-> "none"]
  /\ queued = {} /\ saved = {}
  /\ thread = [t \in Threads |-> Idle] /\ loop = [l \in Loops |-> NoLoop]
  /\ gone = {} /\ saves = 0 /\ launched = FALSE

At(t, at) == thread[t].at = at
Step(t, from, to) ==
  /\ At(t, from) /\ thread' = [thread EXCEPT ![t] = to]

(* The next mount; only remove_mount and the loop need to know the last.    *)
Done(t, m, at) == [thread[t] EXCEPT !.at = at, !.todo = @ \ {m}, !.inst = None]

-----------------------------------------------------------------------------
(* stop_mount, for the mounts of a thread one after the other.              *)

StopUnlist(t) == \E m \in thread[t].todo :
  /\ IF mounts[m] = None
     THEN Step(t, "stop", Done(t, m, "stop")) /\ UNCHANGED mounts
     ELSE /\ Step(t, "stop", [thread[t] EXCEPT !.at = "unlisted", !.mount = m, !.inst = mounts[m]])
          /\ mounts' = [mounts EXCEPT ![m] = None]
  /\ UNCHANGED <<settings, caches, instances, saved, loop, world, launched>>

(* Whatever instance of the drive the table names; then Shutdown is sent.   *)
StopUncache(t) ==
  /\ At(t, "unlisted")
  /\ caches' = [caches EXCEPT ![driveOf[thread[t].inst]] = None]
  /\ Step(t, "unlisted", [thread[t] EXCEPT !.at = "draining"])
  /\ processor' = [processor EXCEPT ![thread[t].inst] = IF @ = "ended" THEN @ ELSE "draining"]
  /\ UNCHANGED <<settings, mounts, started, driveOf, host, queued, saved, loop, world, launched>>

(* flush_pending uploads what it finds; it may fail or run out of time.     *)
StopFlush(t) ==
  /\ At(t, "draining") /\ processor[thread[t].inst] = "ended"
  /\ Step(t, "draining", [thread[t] EXCEPT !.at = "flushed"])
  /\ saved' \in {saved, saved \ {driveOf[thread[t].inst]}}
  /\ UNCHANGED <<settings, tables, instances, loop, world, launched>>

StopHost(t) ==
  /\ At(t, "flushed")
  /\ host' = [host EXCEPT ![thread[t].inst] = "down"]
  /\ Step(t, "flushed", Done(t, thread[t].mount, "stop"))
  /\ UNCHANGED <<settings, tables, started, driveOf, processor, queued, saved, loop, world, launched>>

-----------------------------------------------------------------------------
(* start_mount, likewise.                                                   *)

(* start_mount_common first asks whether the drive is there: a drive that   *)
(* is gone leaves the configuration, an answer or a lost network lets it go *)
(* on, and any other error skips the mount.                                 *)
StartCheck(t) == \E m \in thread[t].todo :
  /\ \/ Step(t, "start", [thread[t] EXCEPT !.at = "checked", !.mount = m]) /\ UNCHANGED config
     \/ Step(t, "start", Done(t, m, "start")) /\ UNCHANGED config
     \/ Drive[m] \in gone /\ config' = config \ {m} /\ Step(t, "start", Done(t, m, "start"))
  /\ UNCHANGED <<account, authenticated, tables, instances, saved, loop, world, launched>>

(* Caches are opened, the inode table is seeded from all rows, and the      *)
(* processor is spawned.                                                    *)
StartSpawn(t) ==
  /\ At(t, "checked") /\ started < MaxInstances
  /\ started' = started + 1
  /\ driveOf' = [driveOf EXCEPT ![started + 1] = Drive[thread[t].mount]]
  /\ processor' = [processor EXCEPT ![started + 1] = "recovering"]
  /\ Step(t, "checked", [thread[t] EXCEPT !.at = "spawned", !.inst = started + 1])
  /\ UNCHANGED <<settings, tables, host, queued, saved, loop, world, launched>>

(* WinFspMountHandle::mount.  Root and children get numbers of this table;  *)
(* a failure drops everything but the processor.                            *)
StartHost(t) ==
  /\ At(t, "spawned")
  /\ \/ /\ Step(t, "spawned", [thread[t] EXCEPT !.at = "hosted"])
        /\ host' = [host EXCEPT ![thread[t].inst] = "up"]
     \/ Step(t, "spawned", Done(t, thread[t].mount, "start")) /\ UNCHANGED host
  /\ UNCHANGED <<settings, tables, started, driveOf, processor, queued, saved, loop, world, launched>>

(* Mutant of StartCache: an entry that is there stays.                      *)
StartCacheOnce(t) ==
  /\ At(t, "hosted")
  /\ LET d == driveOf[thread[t].inst] IN
     caches' = [caches EXCEPT ![d] = IF @ = None THEN thread[t].inst ELSE @]
  /\ Step(t, "hosted", [thread[t] EXCEPT !.at = "cached"])
  /\ UNCHANGED <<settings, mounts, instances, saved, loop, world, launched>>

StartCache(t) ==
  /\ At(t, "hosted")
  /\ caches' = [caches EXCEPT ![driveOf[thread[t].inst]] = thread[t].inst]
  /\ Step(t, "hosted", [thread[t] EXCEPT !.at = "cached"])
  /\ UNCHANGED <<settings, mounts, instances, saved, loop, world, launched>>

(* A handle that is replaced is dropped, and its host with it, without      *)
(* unmount: its processor gets no Shutdown.                                 *)
StartList(t) == LET m == thread[t].mount IN
  /\ At(t, "cached")
  /\ mounts' = [mounts EXCEPT ![m] = thread[t].inst]
  /\ host' = [i \in Instances |-> IF i = mounts[m] THEN "dropped" ELSE host[i]]
  /\ Step(t, "cached", Done(t, m, "start"))
  /\ UNCHANGED <<settings, caches, started, driveOf, processor, queued, saved, loop, world, launched>>

-----------------------------------------------------------------------------
(* The processor of an instance, as far as the mounts depend on it.         *)

(* Those that can still send to it: the host, the caches, a delta loop's    *)
(* snapshot, the start under way.                                           *)
HasSender(i) ==
  \/ host[i] = "up" \/ \E d \in Drives : caches[d] = i
  \/ \E l \in Loops : \E r \in loop[l].rows : r.inst = i
  \/ \E t \in Threads : thread[t].inst = i

Turn(i, from, to) ==
  /\ processor[i] \in from /\ processor' = [processor EXCEPT ![i] = to]
  /\ UNCHANGED <<settings, tables, started, driveOf, host, thread, loop, world, launched>>

(* Mutant of Recover: the writeback directory is not listed.                *)
RecoverNothing(i) == Turn(i, {"recovering"}, "running") /\ UNCHANGED <<queued, saved>>

(* recover_pending lists the writeback directory once.                      *)
Recover(i) ==
  /\ Turn(i, {"recovering"}, "running")
  /\ queued' = IF driveOf[i] \in saved THEN queued \cup {i} ELSE queued
  /\ UNCHANGED saved

Upload(i) ==
  /\ Turn(i, {"running"}, "running") /\ i \in queued /\ driveOf[i] \notin gone
  /\ saved' = saved \ {driveOf[i]} /\ queued' = queued \ {i}

(* Shutdown: all pending uploads are made, or fail, or time out.            *)
Drain(i) ==
  /\ Turn(i, {"draining"}, "ended")
  /\ saved' \in {saved} \cup (IF i \in queued THEN {saved \ {driveOf[i]}} ELSE {})
  /\ queued' = queued \ {i}

(* The last sender is gone: it returns, whatever is pending.                *)
Abandon(i) ==
  /\ ~HasSender(i) /\ Turn(i, {"running"}, "ended")
  /\ queued' = queued \ {i} /\ UNCHANGED saved

(* A save through a serving host; after Shutdown no request is read.        *)
Save(i) ==
  /\ host[i] = "up" /\ saves < MaxSaves /\ saves' = saves + 1
  /\ saved' = saved \cup {driveOf[i]}
  /\ queued' = IF processor[i] \in {"recovering", "running"} THEN queued \cup {i} ELSE queued
  /\ UNCHANGED <<settings, tables, started, driveOf, host, processor, thread, loop, gone, launched>>

(* run_crash_recovery: the writeback directory, if anything is mounted.     *)
CrashRecovery == saved' \in {saved} \cup {{} : d \in {e \in Drives : caches[e] # None}}

-----------------------------------------------------------------------------
(* The delta loop.                                                          *)

StepLoop(l, from, to) == loop[l].at = from /\ loop' = [loop EXCEPT ![l] = to]

(* The mount is looked up in the configuration by its drive.                *)
Configured(d) ==
  IF \E m \in config : Drive[m] = d THEN CHOOSE m \in config : Drive[m] = d ELSE NoMount
Rows == {[inst |-> caches[d], mount |-> Configured(d)] : d \in {e \in Drives : caches[e] # None}}

(* The round is over; the loop keeps its snapshot while it sleeps.          *)
Asleep(l) == loop[l].at = "rounds" /\ loop[l].todo = {} /\ At(l, "idle")

(* resume_incomplete for every drive, then round after round; a cancelled   *)
(* loop finishes its round.                                                 *)
LoopLook(l) ==
  /\ loop[l].at = "resuming" \/ (Asleep(l) /\ ~loop[l].cancelled)
  /\ StepLoop(l, loop[l].at, [loop[l] EXCEPT !.at = "rounds", !.rows = Rows, !.todo = Rows])
  /\ UNCHANGED <<settings, tables, instances, saved, thread, world, launched>>

(* run_delta_sync and its outcome; a loop that is stopping a mount waits.   *)
TickOf(l, r) ==
  /\ At(l, "idle") /\ r \in loop[l].todo /\ StepLoop(l, "rounds", [loop[l] EXCEPT !.todo = @ \ {r}])
  /\ UNCHANGED <<settings, tables, instances, saved, world, launched>>

TickEnds(l) == \E r \in loop[l].todo : TickOf(l, r) /\ UNCHANGED thread

TickFindsGone(l) == \E r \in loop[l].todo :
  /\ TickOf(l, r) /\ driveOf[r.inst] \in gone
  /\ IF r.mount = NoMount THEN UNCHANGED thread
     ELSE Step(l, "idle", [Idle EXCEPT !.at = "stop", !.cmd = "gone", !.todo = {r.mount}, !.mount = r.mount])

TickGone(l) ==
  /\ At(l, "stop") /\ thread[l].todo = {}
  /\ Step(l, "stop", Idle) /\ config' = config \ {thread[l].mount}
  /\ UNCHANGED <<account, authenticated, tables, instances, saved, loop, world, launched>>

LoopEnd(l) ==
  /\ loop[l].cancelled /\ Asleep(l) /\ loop' = [loop EXCEPT ![l] = NoLoop]
  /\ UNCHANGED <<settings, tables, instances, saved, thread, world, launched>>

Cancelled == [l \in Loops |-> [loop[l] EXCEPT !.cancelled = TRUE]]

(* start_delta_sync cancels the loop before.                                *)
StartLoop == \E l \in Loops :
  /\ loop[l].at = "none"
  /\ loop' = [k \in Loops |-> IF k = l THEN [NoLoop EXCEPT !.at = "resuming"]
                              ELSE IF loop[k].at = "none" THEN NoLoop ELSE Cancelled[k]]

-----------------------------------------------------------------------------
(* Launch, and the commands.                                                *)

(* Mutant of Running: the mounts of the configuration.                      *)
RunningConfigured == {m \in config : mounts[m] # None}

Running == {m \in MountIds : mounts[m] # None}

Begin(t, cmd, at, todo) ==
  /\ launched
  /\ Step(t, "idle", [Idle EXCEPT !.at = at, !.cmd = cmd, !.todo = todo])
Finish(t, cmd, at) ==
  /\ thread[t].cmd = cmd /\ thread[t].todo = {} /\ Step(t, at, Idle)

(* setup_after_launch.                                                      *)
Launch(t) ==
  /\ ~launched /\ launched' = TRUE /\ authenticated' \in {account, FALSE}
  /\ IF authenticated' THEN Step(t, "idle", [Idle EXCEPT !.at = "start", !.cmd = "launch", !.todo = config])
     ELSE UNCHANGED thread
  /\ UNCHANGED <<config, account, tables, instances, saved, loop, world>>

Launched(t) ==
  /\ Finish(t, "launch", "start") /\ StartLoop /\ CrashRecovery
  /\ UNCHANGED <<settings, tables, instances, world, launched>>

(* complete_sign_in; a session that has ended is renewed while mounted.     *)
SignIn(t) ==
  /\ Begin(t, "signIn", "start", config)
  /\ ~authenticated \/ ReAuthentication
  /\ account' = TRUE
  /\ UNCHANGED <<config, authenticated, tables, instances, saved, loop, world, launched>>

SignedIn(t) ==
  /\ Finish(t, "signIn", "start") /\ StartLoop /\ CrashRecovery
  /\ authenticated' = TRUE
  /\ UNCHANGED <<config, account, tables, instances, world, launched>>

SignOut(t) ==
  /\ authenticated /\ Begin(t, "signOut", "stop", Running)
  /\ UNCHANGED <<settings, tables, instances, saved, loop, world, launched>>

SignedOut(t) ==
  /\ Finish(t, "signOut", "stop")
  /\ loop' = Cancelled /\ account' = FALSE /\ authenticated' = FALSE
  /\ UNCHANGED <<config, tables, instances, saved, world, launched>>

(* The window lists the drives there are; mount ids are new.                *)
AddMount(t, m) ==
  /\ \A n \in config : Drive[n] # Drive[m]
  /\ \A u \in Threads : m \notin thread[u].todo \cup {thread[u].mount}
  /\ mounts[m] = None /\ \A l \in Loops : \A r \in loop[l].rows : r.mount # m
  /\ Drive[m] \notin gone /\ authenticated /\ config' = config \cup {m} /\ Begin(t, "add", "start", {m})
  /\ UNCHANGED <<account, authenticated, tables, instances, saved, loop, world, launched>>

Added(t) ==
  /\ Finish(t, "add", "start")
  /\ UNCHANGED <<settings, tables, instances, saved, loop, world, launched>>

RemoveMount(t, m) ==
  /\ launched /\ m \in config
  /\ Step(t, "idle", [Idle EXCEPT !.at = "stop", !.cmd = "remove", !.todo = {m}, !.mount = m])
  /\ UNCHANGED <<settings, tables, instances, saved, loop, world, launched>>

Removed(t) ==
  /\ Finish(t, "remove", "stop") /\ config' = config \ {thread[t].mount}
  /\ UNCHANGED <<account, authenticated, tables, instances, saved, loop, world, launched>>

(* clear_cache, which clears the caches when all is stopped.                *)
ClearCache(t) ==
  /\ launched
  /\ Step(t, "idle", [Idle EXCEPT !.at = "stop", !.cmd = "clear", !.todo = Running])
  /\ UNCHANGED <<settings, tables, instances, saved, loop, world, launched>>

Cleared(t) ==
  /\ thread[t].cmd = "clear" /\ thread[t].todo = {}
  /\ Step(t, "stop", IF authenticated THEN [Idle EXCEPT !.at = "start", !.cmd = "clear", !.todo = config] ELSE Idle)
  /\ UNCHANGED <<settings, tables, instances, saved, loop, world, launched>>

Restarted(t) ==
  /\ Finish(t, "clear", "start")
  /\ UNCHANGED <<settings, tables, instances, saved, loop, world, launched>>

(* graceful_shutdown; the exit that follows is the end of the behaviour.    *)
Quit(t) ==
  /\ Begin(t, "quit", "stop", Running) /\ loop' = Cancelled
  /\ UNCHANGED <<settings, tables, instances, saved, world, launched>>

-----------------------------------------------------------------------------
(* The owner deletes a drive at the provider.                              *)

DriveDeleted == \E d \in Drives \ gone :
  /\ gone' = gone \cup {d}
  /\ UNCHANGED <<settings, tables, instances, saved, thread, loop, saves, launched>>

-----------------------------------------------------------------------------
StopStep(t) == StopUnlist(t) \/ StopUncache(t) \/ StopFlush(t) \/ StopHost(t)
StartStep(t) == StartCheck(t) \/ StartSpawn(t) \/ StartHost(t) \/ StartCache(t) \/ StartList(t)
Command(t) ==
  \/ SignIn(t) \/ SignOut(t) \/ ClearCache(t) \/ Quit(t)
  \/ \E m \in MountIds : AddMount(t, m) \/ RemoveMount(t, m)
CommandEnds(t) == Launched(t) \/ SignedIn(t) \/ SignedOut(t) \/ Added(t) \/ Removed(t) \/ Cleared(t) \/ Restarted(t)
LoopStep(l) == LoopLook(l) \/ TickEnds(l) \/ TickFindsGone(l) \/ TickGone(l) \/ LoopEnd(l)
ProcessorStep(i) == Recover(i) \/ Upload(i) \/ Drain(i) \/ Abandon(i)

Next ==
  \/ \E t \in Threads : StopStep(t) \/ StartStep(t)
  \/ \E t \in Callers : Launch(t) \/ Command(t) \/ CommandEnds(t)
  \/ \E l \in Loops : LoopStep(l)
  \/ \E i \in Instances : ProcessorStep(i) \/ Save(i)
  \/ DriveDeleted

Spec == Init /\ [][Next]_vars

-----------------------------------------------------------------------------
(* Properties.                                                              *)

(* No command and no removal by a loop is under way.                        *)
Quiet == launched /\ \A t \in Threads : At(t, "idle")

(* Sign-out stops every mount there is, also one that a loop was stopping,  *)
(* that lost its entry in the configuration or replaced another: with the   *)
(* session no host is left serving, and no loop begins another round.       *)
SignedOutIsUnmounted == Quiet /\ ~authenticated =>
  /\ Running = {} /\ \A i \in Instances : host[i] # "up"
  /\ \A l \in Loops : loop[l].at = "none" \/ loop[l].cancelled

(* Both tables name the instance that serves, and no host serves that none  *)
(* of them names, whatever was started, replaced and stopped before.  Once  *)
(* a drive is deleted the two may disagree: a loop then stops mounts by the *)
(* drive's entry while a command starts one.                                *)
TablesAgree == Quiet /\ gone = {} =>
  /\ \A m \in Running : caches[Drive[m]] = mounts[m] /\ host[mounts[m]] = "up"
  /\ \A d \in Drives : caches[d] # None => \E m \in Running : mounts[m] = caches[d]
  /\ \A i \in Instances : host[i] = "up" => \E m \in Running : mounts[m] = i

(* A save that is not uploaded waits in the queue of a processor, also one  *)
(* an earlier unmount could not flush or that came after its flush, unless  *)
(* a sign-in replaced a handle, which drops a processor with its queue.     *)
SavedIsQueued == \A m \in Running :
  /\ Drive[m] \in saved \ gone /\ processor[mounts[m]] = "running"
  /\ \A i \in 1..started : driveOf[i] = Drive[m] => host[i] # "dropped"
  => \E i \in queued : driveOf[i] = Drive[m] /\ processor[i] \in {"recovering", "running"}
=============================================================================
