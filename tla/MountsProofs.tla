------------------------------ MODULE MountsProofs ------------------------------
(***************************************************************************)
(* Proofs about Mounts: that sign-out leaves nothing mounted, the two      *)
(* tables agree and saves are queued, for any number of drives, mounts,    *)
(* delta loops, instances and saves, as long as commands run one after the *)
(* other.                                                                  *)
(***************************************************************************)
EXTENDS Mounts, TLAPS

(* Commands run on one thread; delta loops stop mounts next to it.         *)
OneCaller == \A s, t \in Callers : s = t

(* Steps of a thread that has a mount in hand, and those at which it has   *)
(* built or taken an instance.                                             *)
StartSteps == {"checked", "spawned", "hosted", "cached"}
Built == {"spawned", "hosted", "cached"}
Hosted == {"hosted", "cached"}
StopSteps == {"unlisted", "draining", "flushed"}
Between == {"idle", "start", "stop", "checked"}
Steps == Between \cup Built \cup StopSteps

Commands == {"none", "launch", "signIn", "signOut", "add", "remove", "clear", "quit", "gone"}
Mounted == MountIds \cup {NoMount}
ThreadRec(n) == [at : Steps, cmd : Commands, todo : SUBSET MountIds, mount : Mounted, inst : 0..n]
RowRec(n) == [inst : 1..n, mount : Mounted]
LoopRec(n) == [at : {"none", "resuming", "rounds"}, cancelled : BOOLEAN,
               rows : SUBSET RowRec(n), todo : SUBSET RowRec(n)]

Types ==
  /\ started \in Nat /\ started <= MaxInstances
  /\ config \subseteq MountIds
  /\ mounts \in [MountIds -> 0..started] /\ caches \in [Drives -> 0..started]
  /\ driveOf = [i \in Instances |-> driveOf[i]]
  /\ host \in [Instances -> {"none", "up", "down", "dropped"}]
  /\ processor \in [Instances -> {"none", "recovering", "running", "draining", "ended"}]
  /\ \A i \in Instances : i > started => host[i] = "none"
  /\ thread \in [Threads -> ThreadRec(started)]
  /\ loop \in [Loops -> LoopRec(started)]

(* Processors that read requests.                                          *)
Serving == {"recovering", "running"}

(* An instance is in the table, or in the hands of one thread, or neither; *)
(* a host that is up is one or the other.                                  *)
Listed(m) ==
  /\ driveOf[mounts[m]] = Drive[m] /\ host[mounts[m]] = "up" /\ processor[mounts[m]] \in Serving
  /\ \A n \in Running : mounts[n] = mounts[m] => n = m
InHand(t) ==
  /\ thread[t].inst # None /\ thread[t].mount \in MountIds
  /\ driveOf[thread[t].inst] = Drive[thread[t].mount]
  /\ \A m \in Running : mounts[m] # thread[t].inst
  /\ \A u \in Threads : thread[u].inst = thread[t].inst => u = t
  /\ thread[t].at \in Built => processor[thread[t].inst] \in Serving
  /\ thread[t].at = "spawned" => host[thread[t].inst] = "none"
  /\ thread[t].at \in Hosted \cup StopSteps => host[thread[t].inst] = "up"
Owner(i) ==
  \/ \E m \in Running : mounts[m] = i
  \/ \E t \in Threads : thread[t].at \in Hosted \cup StopSteps /\ thread[t].inst = i
Owned ==
  /\ \A m \in Running : Listed(m)
  /\ \A t \in Threads : /\ thread[t].at \in Built \cup StopSteps => InHand(t)
                        /\ thread[t].at \in Between => thread[t].inst = None
                        /\ thread[t].at = "checked" => thread[t].mount \in MountIds
  /\ \A i \in Instances : host[i] = "up" => Owner(i)
  /\ \A d \in Drives : caches[d] # None => driveOf[caches[d]] = d

(* Loops only stop mounts, of drives that are gone.                        *)
LoopsStopGone ==
  /\ \A l \in Loops : \A r \in loop[l].rows \cup loop[l].todo :
       r.mount # NoMount => r.mount \in MountIds /\ Drive[r.mount] = driveOf[r.inst]
  /\ \A l \in Loops : thread[l].at # "idle" =>
       /\ thread[l].at \in {"stop"} \cup StopSteps
       /\ thread[l].mount \in MountIds /\ Drive[thread[l].mount] \in gone
       /\ thread[l].todo \subseteq {thread[l].mount}

(* Of the drives that are there, the configuration has what is mounted and *)
(* what a command works on, each drive once.                               *)
Works(t, m) ==
  m \in thread[t].todo \/ (thread[t].at \in StartSteps \cup StopSteps /\ m = thread[t].mount)
Removing(t) ==
  /\ thread[t].at \in {"stop"} \cup StopSteps /\ thread[t].mount \in MountIds
  /\ thread[t].todo \subseteq {thread[t].mount}
  /\ mounts[thread[t].mount] # None => thread[t].mount \in thread[t].todo
Configs ==
  /\ \A m, n \in config : Drive[m] = Drive[n] => m = n
  /\ \A m \in Running : Drive[m] \notin gone => m \in config
  /\ \A t \in Callers :
       /\ \A m \in MountIds : Works(t, m) /\ Drive[m] \notin gone => m \in config
       /\ thread[t].at \in StopSteps => mounts[thread[t].mount] = None
       /\ thread[t].cmd = "remove" => Removing(t)

(* The two tables, at every step of start_mount and stop_mount.            *)
Cached(t, m) == thread[t].at = "cached" /\ thread[t].mount = m
Agree ==
  /\ \A m \in Running : Drive[m] \notin gone =>
       caches[Drive[m]] = mounts[m] \/ \E t \in Callers : Cached(t, m)
  /\ \A d \in Drives : d \notin gone /\ caches[d] # None =>
       \/ \E m \in Running : mounts[m] = caches[d]
       \/ \E t \in Callers : thread[t].at \in {"cached", "unlisted"} /\ thread[t].inst = caches[d]
  /\ \A t \in Callers : thread[t].at = "cached" /\ Drive[thread[t].mount] \notin gone =>
       caches[Drive[thread[t].mount]] = thread[t].inst

(* Only a session, or a sign-in under way, has mounts.                     *)
Sessions ==
  /\ ~launched => ~authenticated /\ \A t \in Callers : thread[t].at = "idle"
  /\ ~authenticated /\ Running # {} => \E t \in Callers : thread[t].cmd = "signIn"
  /\ ~authenticated => \A l \in Loops : loop[l].at = "none" \/ loop[l].cancelled
  /\ \A t \in Callers :
       /\ thread[t].at \in {"start"} \cup StartSteps => authenticated \/ thread[t].cmd = "signIn"
       /\ thread[t].at = "idle" => thread[t].cmd = "none"
       /\ thread[t].cmd = "signIn" => thread[t].at \in {"start"} \cup StartSteps
       /\ thread[t].cmd = "signOut" => /\ thread[t].at \in {"stop"} \cup StopSteps
                                       /\ Running \subseteq thread[t].todo

(* A save of a drive is queued by the listed instance or by the one that   *)
(* replaces it.                                                            *)
NoDrop(d) == \A i \in 1..started : driveOf[i] = d => host[i] # "dropped"
Waits(d) == d \in saved /\ d \notin gone /\ NoDrop(d)
QueuedBy(t, d) == thread[t].at \in Hosted /\ thread[t].inst \in queued /\ driveOf[thread[t].inst] = d
Queues ==
  /\ \A m \in Running : Waits(Drive[m]) /\ processor[mounts[m]] = "running" =>
       mounts[m] \in queued \/ \E t \in Callers : QueuedBy(t, Drive[m])
  /\ \A t \in Callers :
       /\ thread[t].at \in Built /\ Waits(Drive[thread[t].mount]) /\ mounts[thread[t].mount] = None
       /\ processor[thread[t].inst] = "running"
       => thread[t].inst \in queued

Inv == Types /\ Owned /\ LoopsStopGone /\ Configs /\ Agree /\ Sessions /\ Queues

-----------------------------------------------------------------------------
(* One step of one thread.                                                 *)

(* What a step of thread t does to the threads.                            *)
Becomes(t, x) ==
  /\ thread' \in [Threads -> ThreadRec(started')]
  /\ thread'[t] = x /\ \A u \in Threads \ {t} : thread'[u] = thread[u]

LEMMA StepBecomes ==
  ASSUME Types, NEW t \in Threads, NEW from, NEW x \in ThreadRec(started), Step(t, from, x),
         started' = started
  PROVE  Becomes(t, x) /\ thread[t].at = from
<1>1. thread \in [Threads -> ThreadRec(started)] /\ thread' = [thread EXCEPT ![t] = x]
  BY DEF Types, Step
<1> QED BY <1>1 DEF Becomes, Step, At

LEMMA DoneOne ==
  ASSUME Types, NEW t \in Threads, NEW m, NEW at \in Steps
  PROVE  /\ Done(t, m, at) \in ThreadRec(started) /\ Done(t, m, at).at = at
         /\ Done(t, m, at).cmd = thread[t].cmd /\ Done(t, m, at).todo = thread[t].todo \ {m}
         /\ Done(t, m, at).mount = thread[t].mount /\ Done(t, m, at).inst = None
<1>1. thread[t] \in ThreadRec(started) /\ None \in 0..started
  BY DEF Types, None
<1> QED BY <1>1 DEF Done, ThreadRec

LEMMA IdleOne ==
  ASSUME Types
  PROVE  /\ Idle \in ThreadRec(started) /\ Idle.at = "idle" /\ Idle.cmd = "none"
         /\ Idle.todo = {} /\ Idle.mount = NoMount /\ Idle.inst = None
BY DEF Idle, Types, ThreadRec, Steps, Between, Commands, Mounted, None

LEMMA Disjoint ==
  /\ \A s \in Between : s \notin Built /\ s \notin StopSteps /\ s \notin Hosted
  /\ \A s \in StopSteps : s \notin StartSteps /\ s \notin Built /\ s \notin Hosted
  /\ \A t \in Callers : t \notin Loops /\ t \in Threads
  /\ \A t \in Threads : t \in Callers \/ t \in Loops
  /\ StartSteps = {"checked"} \cup Built
BY MountsConstants DEF Between, Built, StopSteps, Hosted, StartSteps, Threads

-----------------------------------------------------------------------------
(* Steps that move no instance: a thread takes up or lays down a command,  *)
(* or goes on to its next mount.                                           *)

Still ==
  /\ mounts' = mounts /\ caches' = caches /\ started' = started /\ driveOf' = driveOf
  /\ host' = host /\ processor' = processor /\ queued' = queued

Moves(t, x) ==
  /\ x \in ThreadRec(started) /\ Becomes(t, x)
  /\ thread[t].at \in Between /\ x.at \in Between /\ x.inst = None
  /\ x.at = "checked" => x.mount \in MountIds

LEMMA MoveKeepsOwned ==
  ASSUME Inv, NEW t \in Threads, NEW x, Moves(t, x), Still
  PROVE  Owned'
<1>1. /\ Owned /\ x.at \in Between /\ x.inst = None /\ (x.at = "checked" => x.mount \in MountIds)
      /\ thread[t].at \in Between
      /\ thread'[t] = x /\ \A u \in Threads \ {t} : thread'[u] = thread[u]
  BY DEF Inv, Moves, Becomes
<1>2. /\ x.at \notin Built /\ x.at \notin StopSteps /\ x.at \notin Hosted
      /\ thread[t].at \notin Built /\ thread[t].at \notin StopSteps /\ thread[t].at \notin Hosted
  BY <1>1, Disjoint
<1>3. \A m \in Running' : Listed(m)'
  BY <1>1 DEF Owned, Listed, Running, Still
<1>4. ASSUME NEW u \in Threads
      PROVE  /\ thread'[u].at \in Built \cup StopSteps => InHand(u)'
             /\ thread'[u].at \in Between => thread'[u].inst = None
             /\ thread'[u].at = "checked" => thread'[u].mount \in MountIds
  <2>1. CASE u = t
    BY <1>1, <1>2, <2>1
  <2>2. CASE u # t
    <3>1. thread'[u] = thread[u]
      BY <1>1, <2>2
    <3>2. ASSUME thread[u].at \in Built \cup StopSteps
          PROVE  InHand(u)'
      <4>1. InHand(u)
        BY <3>2, <1>1 DEF Owned
      <4>2. \A v \in Threads : thread'[v].inst = thread'[u].inst => v = u
        BY <1>1, <3>1, <4>1 DEF InHand
      <4> QED BY <3>1, <4>1, <4>2 DEF InHand, Still, Running
    <3> QED BY <1>1, <3>1, <3>2 DEF Owned
  <2> QED BY <2>1, <2>2
<1>5. \A i \in Instances : host'[i] = "up" => Owner(i)'
  BY <1>1, <1>2 DEF Owned, Owner, Still, Running
<1>6. \A d \in Drives : caches'[d] # None => driveOf'[caches'[d]] = d
  BY <1>1 DEF Owned, Still
<1> QED BY <1>3, <1>4, <1>5, <1>6 DEF Owned

LEMMA MoveKeepsTables ==
  ASSUME Inv, NEW t \in Threads, NEW x, Moves(t, x), Still, saved' \subseteq saved, gone' = gone
  PROVE  Agree' /\ Queues'
<1>1. /\ Agree /\ Queues
      /\ x.at \in Between /\ thread[t].at \in Between
      /\ thread'[t] = x /\ \A u \in Threads \ {t} : thread'[u] = thread[u]
  BY DEF Inv, Moves, Becomes
<1>2. /\ x.at \notin Built /\ x.at \notin StopSteps /\ x.at \notin Hosted
      /\ thread[t].at \notin Built /\ thread[t].at \notin StopSteps /\ thread[t].at \notin Hosted
  BY <1>1, Disjoint
<1>3. x.at \notin {"cached", "unlisted"} /\ thread[t].at \notin {"cached", "unlisted"}
  BY <1>1 DEF Between
<1>4. \A u \in Callers : u \in Threads
  BY DEF Threads
<1>5. Agree'
  BY <1>1, <1>3, <1>4 DEF Agree, Cached, Still, Running
<1>6. \A d : Waits(d)' => Waits(d)
  BY DEF Waits, NoDrop, Still
<1>7. \A u \in Callers, d \in Drives : QueuedBy(u, d) => QueuedBy(u, d)'
  BY <1>1, <1>2, <1>4 DEF QueuedBy, Still
<1>8. \A m \in Running : Drive[m] \in Drives
  BY MountsConstants DEF Running
<1>9. ASSUME NEW m \in Running', Waits(Drive[m])', processor'[mounts'[m]] = "running"
      PROVE  mounts'[m] \in queued' \/ \E u \in Callers : QueuedBy(u, Drive[m])'
  <2>1. m \in Running /\ Waits(Drive[m]) /\ processor[mounts[m]] = "running"
    BY <1>6, <1>9 DEF Running, Still
  <2> QED BY <1>1, <1>7, <1>8, <2>1 DEF Queues, Still
<1>10. ASSUME NEW u \in Callers, thread'[u].at \in Built, Waits(Drive[thread[u].mount])',
              mounts'[thread'[u].mount] = None, processor'[thread'[u].inst] = "running"
       PROVE  thread'[u].inst \in queued'
  <2>1. thread'[u] = thread[u]
    BY <1>1, <1>2, <1>4, <1>10
  <2> QED BY <1>1, <1>6, <1>10, <2>1 DEF Queues, Still
<1> QED BY <1>5, <1>9, <1>10 DEF Queues

(* The configuration loses only what is gone, or what the one caller has   *)
(* stopped, and a command works on what it names.                          *)
LEMMA MoveKeepsConfigs ==
  ASSUME Inv, OneCaller, NEW t \in Threads, NEW x, Moves(t, x), mounts' = mounts, gone' = gone,
         \A m, n \in config' : Drive[m] = Drive[n] => m = n,
         \A m \in config : m \in config' \/ Drive[m] \in gone \/ (mounts[m] = None /\ t \in Callers),
         t \in Callers => \A m \in MountIds :
           (m \in x.todo \/ (x.at = "checked" /\ m = x.mount)) /\ Drive[m] \notin gone => m \in config',
         t \in Callers /\ x.cmd = "remove" =>
           /\ x.at = "stop" /\ x.mount \in MountIds /\ x.todo \subseteq {x.mount}
           /\ mounts[x.mount] # None => x.mount \in x.todo
  PROVE  Configs'
<1>1. /\ Configs /\ x.at \in Between
      /\ thread'[t] = x /\ \A u \in Threads \ {t} : thread'[u] = thread[u]
  BY DEF Inv, Moves, Becomes
<1>2. \A u \in Callers : u \in Threads
  BY DEF Threads
<1>3. \A m \in Running' : Drive[m] \notin gone' => m \in config'
  BY <1>1 DEF Configs, Running
<1>4. ASSUME NEW u \in Callers
      PROVE  /\ \A m \in MountIds : Works(u, m)' /\ Drive[m] \notin gone' => m \in config'
             /\ thread'[u].at \in StopSteps => mounts'[thread'[u].mount] = None
             /\ thread'[u].cmd = "remove" => Removing(u)'
  <2>1. CASE u = t
    <3>1. x.at \notin StopSteps /\ (x.at \in StartSteps => x.at = "checked")
      BY <1>1 DEF Between, StopSteps, StartSteps
    <3> QED BY <1>1, <2>1, <3>1 DEF Works, Removing
  <2>2. CASE u # t
    <3>1. thread'[u] = thread[u] /\ t \notin Callers
      BY <1>1, <1>2, <2>2 DEF OneCaller
    <3>2. \A m \in config : m \in config' \/ Drive[m] \in gone
      BY <3>1
    <3> QED BY <1>1, <3>1, <3>2 DEF Configs, Works, Removing
  <2> QED BY <2>1, <2>2
<1> QED BY <1>3, <1>4 DEF Configs

LEMMA CallerKeepsLoops ==
  ASSUME Inv, NEW t \in Callers, NEW x, Becomes(t, x), driveOf' = driveOf, gone' = gone,
         \A l \in Loops : loop'[l].rows \subseteq loop[l].rows /\ loop'[l].todo \subseteq loop[l].todo
  PROVE  LoopsStopGone'
<1>1. \A l \in Loops : l \in Threads /\ l # t
  BY Disjoint DEF Threads
<1>2. \A l \in Loops : thread'[l] = thread[l]
  BY <1>1 DEF Becomes
<1> QED BY <1>2 DEF Inv, LoopsStopGone

-----------------------------------------------------------------------------
(* The commands.                                                           *)

Beginning(at, cmd, todo) == [Idle EXCEPT !.at = at, !.cmd = cmd, !.todo = todo]
BeginningAt(cmd, m) == [Idle EXCEPT !.at = "stop", !.cmd = cmd, !.todo = {m}, !.mount = m]

LEMMA BeginOne ==
  ASSUME Types, NEW at \in Steps, NEW cmd \in Commands, NEW todo \in SUBSET MountIds, NEW x,
         x = Beginning(at, cmd, todo)
  PROVE  /\ x \in ThreadRec(started) /\ x.at = at /\ x.cmd = cmd /\ x.todo = todo /\ x.inst = None
         /\ x.mount = NoMount
BY IdleOne DEF ThreadRec, Beginning

LEMMA BeginMount ==
  ASSUME Types, NEW cmd \in Commands, NEW m \in MountIds, NEW x, x = BeginningAt(cmd, m)
  PROVE  /\ x \in ThreadRec(started) /\ x.at = "stop" /\ x.cmd = cmd /\ x.todo = {m}
         /\ x.mount = m /\ x.inst = None
<1>1. "stop" \in Steps /\ {m} \in SUBSET MountIds /\ m \in Mounted
  BY DEF Steps, Between, Mounted
<1> QED BY <1>1, IdleOne DEF ThreadRec, BeginningAt

LEMMA LoopsChange ==
  ASSUME Types, StartLoop \/ loop' = Cancelled \/ loop' = loop
  PROVE  /\ loop' \in [Loops -> LoopRec(started)]
         /\ \A l \in Loops : loop'[l].rows \subseteq loop[l].rows /\ loop'[l].todo \subseteq loop[l].todo
<1>1. \A l \in Loops : loop[l] \in LoopRec(started)
  BY DEF Types
<1>2. /\ NoLoop \in LoopRec(started) /\ NoLoop.rows = {} /\ NoLoop.todo = {}
      /\ [NoLoop EXCEPT !.at = "resuming"] \in LoopRec(started)
      /\ [NoLoop EXCEPT !.at = "resuming"].rows = {} /\ [NoLoop EXCEPT !.at = "resuming"].todo = {}
  BY DEF NoLoop, LoopRec
<1>3. \A l \in Loops : /\ [loop[l] EXCEPT !.cancelled = TRUE] \in LoopRec(started)
                       /\ [loop[l] EXCEPT !.cancelled = TRUE].rows = loop[l].rows
                       /\ [loop[l] EXCEPT !.cancelled = TRUE].todo = loop[l].todo
  BY <1>1 DEF LoopRec
<1>4. CASE loop' = loop
  BY <1>1, <1>4 DEF Types
<1>5. CASE loop' = Cancelled
  BY <1>3, <1>5 DEF Cancelled
<1>6. CASE StartLoop
  <2>1. PICK l \in Loops :
          loop' = [k \in Loops |-> IF k = l THEN [NoLoop EXCEPT !.at = "resuming"]
                                   ELSE IF loop[k].at = "none" THEN NoLoop ELSE Cancelled[k]]
    BY <1>6 DEF StartLoop
  <2> QED BY <1>2, <1>3, <2>1 DEF Cancelled
<1> QED BY <1>4, <1>5, <1>6

(* A command of the only caller.                                           *)
LEMMA CallerMoves ==
  ASSUME Inv, OneCaller, NEW t \in Callers, NEW x, Moves(t, x), Still,
         saved' \subseteq saved, gone' = gone, StartLoop \/ loop' = Cancelled \/ loop' = loop,
         config' \subseteq MountIds,
         \A m, n \in config' : Drive[m] = Drive[n] => m = n,
         \A m \in config : m \in config' \/ Drive[m] \in gone \/ mounts[m] = None,
         \A m \in MountIds :
           (m \in x.todo \/ (x.at = "checked" /\ m = x.mount)) /\ Drive[m] \notin gone => m \in config',
         x.cmd = "remove" =>
           /\ x.at = "stop" /\ x.mount \in MountIds /\ x.todo \subseteq {x.mount}
           /\ mounts[x.mount] # None => x.mount \in x.todo,
         Sessions'
  PROVE  Inv'
<1>1. t \in Threads /\ Types
  BY DEF Threads, Inv
<1>2. /\ loop' \in [Loops -> LoopRec(started)]
      /\ \A l \in Loops : loop'[l].rows \subseteq loop[l].rows /\ loop'[l].todo \subseteq loop[l].todo
  BY <1>1, LoopsChange
<1>3. Types'
  BY <1>1, <1>2 DEF Types, Moves, Becomes, Still
<1>4. Owned'
  BY <1>1, MoveKeepsOwned
<1>5. Agree' /\ Queues'
  BY <1>1, MoveKeepsTables
<1>6. Configs'
  <2>1. mounts' = mounts
    BY DEF Still
  <2> QED BY <1>1, <2>1, MoveKeepsConfigs
<1>7. LoopsStopGone'
  BY <1>2, CallerKeepsLoops DEF Moves, Still
<1> QED BY <1>3, <1>4, <1>5, <1>6, <1>7 DEF Inv

(* What is known of the caller before its command.                         *)
LEMMA CallerOnly ==
  ASSUME Inv, OneCaller, NEW t \in Callers, NEW x, Becomes(t, x)
  PROVE  \A u \in Callers : u = t /\ thread'[u] = x
BY DEF OneCaller, Becomes

LEMMA SettingsKeepSessions ==
  ASSUME Inv, OneCaller, NEW t \in Callers, NEW x, Becomes(t, x), mounts' = mounts,
         launched',
         ~authenticated' => \A l \in Loops : loop'[l].at = "none" \/ loop'[l].cancelled,
         ~authenticated' /\ Running # {} => x.cmd = "signIn",
         x.at \in {"start"} \cup StartSteps => authenticated' \/ x.cmd = "signIn",
         x.at = "idle" => x.cmd = "none",
         x.cmd = "signIn" => x.at \in {"start"} \cup StartSteps,
         x.cmd = "signOut" => x.at \in {"stop"} \cup StopSteps /\ Running \subseteq x.todo
  PROVE  Sessions'
BY CallerOnly DEF Sessions, Running

LEMMA NoCommand ==
  ASSUME Inv, OneCaller, NEW t \in Callers, thread[t].at = "idle"
  PROVE  ~authenticated => Running = {}
<1>1. thread[t].cmd = "none"
  BY DEF Inv, Sessions
<1>2. \A u \in Callers : thread[u].cmd # "signIn"
  BY <1>1 DEF OneCaller
<1> QED BY <1>2 DEF Inv, Sessions

LEMMA BeginMoves ==
  ASSUME Inv, NEW t \in Callers, NEW x \in ThreadRec(started), Step(t, "idle", x), started' = started,
         x.at \in {"start", "stop"}, x.inst = None
  PROVE  Moves(t, x) /\ thread[t].at = "idle"
<1>1. Becomes(t, x) /\ thread[t].at = "idle"
  BY StepBecomes DEF Inv, Threads
<1>2. x.at \in Between /\ thread[t].at \in Between /\ x.at # "checked"
  BY <1>1 DEF Between
<1> QED BY <1>1, <1>2 DEF Moves

LEMMA CommandKeepsInv ==
  ASSUME Inv, OneCaller, NEW t \in Callers, Command(t)
  PROVE  Inv'
<1>1. /\ Types /\ Configs /\ Sessions /\ config \subseteq MountIds /\ Running \subseteq MountIds
      /\ \A m, n \in config : Drive[m] = Drive[n] => m = n
      /\ \A m \in Running : Drive[m] \notin gone => m \in config
  BY DEF Inv, Types, Running, Configs
<1>2. /\ Still /\ saved' = saved /\ gone' = gone
  BY DEF Command, SignIn, SignOut, ClearCache, Quit, AddMount, RemoveMount, Still, tables, instances, world
<1>3. /\ {"start", "stop"} \subseteq Steps /\ {"signIn", "signOut", "clear", "quit", "add", "remove"} \subseteq Commands
  BY DEF Steps, Between, Commands
<1>4. CASE SignIn(t)
  <2> PICK x : x = Beginning("start", "signIn", config)
    OBVIOUS
  <2>1. /\ Step(t, "idle", x) /\ launched /\ launched' /\ authenticated' = authenticated
        /\ config' = config /\ loop' = loop
    BY <1>4 DEF SignIn, Begin, Beginning
  <2>2. /\ x \in ThreadRec(started) /\ x.at = "start" /\ x.cmd = "signIn" /\ x.todo = config /\ x.inst = None
    BY <1>1, <1>3, BeginOne
  <2>3. Moves(t, x) /\ thread[t].at = "idle"
    BY <1>2, <2>1, <2>2, BeginMoves DEF Still
  <2>4. Sessions'
    <3>1. Becomes(t, x) /\ mounts' = mounts
      BY <1>2, <2>3 DEF Moves, Still
    <3> QED BY <1>1, <2>1, <2>2, <3>1, SettingsKeepSessions DEF Sessions
  <2> QED BY <1>1, <1>2, <2>1, <2>2, <2>3, <2>4, CallerMoves
<1>5. CASE SignOut(t)
  <2> PICK x : x = Beginning("stop", "signOut", Running)
    OBVIOUS
  <2>1. /\ Step(t, "idle", x) /\ launched /\ launched' /\ authenticated' /\ config' = config /\ loop' = loop
    BY <1>5 DEF SignOut, Begin, Beginning, settings
  <2>2. /\ x \in ThreadRec(started) /\ x.at = "stop" /\ x.cmd = "signOut" /\ x.todo = Running /\ x.inst = None
    BY <1>1, <1>3, BeginOne
  <2>3. Moves(t, x) /\ thread[t].at = "idle"
    BY <1>2, <2>1, <2>2, BeginMoves DEF Still
  <2>4. Sessions'
    <3>1. Becomes(t, x) /\ mounts' = mounts
      BY <1>2, <2>3 DEF Moves, Still
    <3>2. x.at \notin {"start"} \cup StartSteps
      BY <2>2 DEF StartSteps
    <3> QED BY <2>1, <2>2, <3>1, <3>2, SettingsKeepSessions
  <2> QED BY <1>1, <1>2, <2>1, <2>2, <2>3, <2>4, CallerMoves
<1>6. CASE ClearCache(t) \/ Quit(t)
  <2> PICK cmd \in {"clear", "quit"} :
        /\ Step(t, "idle", Beginning("stop", cmd, Running))
        /\ launched /\ launched' /\ authenticated' = authenticated /\ config' = config
        /\ loop' = loop \/ loop' = Cancelled
    BY <1>6 DEF ClearCache, Quit, Begin, Beginning, settings
  <2> PICK x : x = Beginning("stop", cmd, Running)
    OBVIOUS
  <2>1. Step(t, "idle", x)
    OBVIOUS
  <2>2. /\ x \in ThreadRec(started) /\ x.at = "stop" /\ x.cmd = cmd /\ x.todo = Running /\ x.inst = None
    BY <1>1, <1>3, BeginOne
  <2>3. Moves(t, x) /\ thread[t].at = "idle"
    BY <1>2, <2>1, <2>2, BeginMoves DEF Still
  <2>4. ~authenticated => \A l \in Loops : loop'[l].at = "none" \/ loop'[l].cancelled
    <3>1. CASE loop' = loop
      BY <1>1, <3>1 DEF Sessions
    <3>2. CASE loop' = Cancelled
      <4>1. \A l \in Loops : [loop[l] EXCEPT !.cancelled = TRUE].cancelled
        BY <1>1 DEF Types, LoopRec
      <4> QED BY <3>2, <4>1 DEF Cancelled
    <3> QED BY <3>1, <3>2
  <2>5. Sessions'
    <3>1. Becomes(t, x) /\ mounts' = mounts
      BY <1>2, <2>3 DEF Moves, Still
    <3>2. x.at \notin {"start"} \cup StartSteps /\ x.at # "idle"
      BY <2>2 DEF StartSteps
    <3>3. ~authenticated => Running = {}
      BY <2>3, NoCommand
    <3>4. x.cmd # "signIn" /\ x.cmd # "signOut"
      BY <2>2
    <3> QED BY <2>4, <3>1, <3>2, <3>3, <3>4, SettingsKeepSessions
  <2> QED BY <1>1, <1>2, <2>2, <2>3, <2>5, CallerMoves
<1>7. ASSUME NEW m \in MountIds, AddMount(t, m)
      PROVE  Inv'
  <2> PICK x : x = Beginning("start", "add", {m})
    OBVIOUS
  <2>1. /\ Step(t, "idle", x) /\ launched /\ launched' /\ authenticated /\ authenticated'
        /\ config' = config \cup {m} /\ loop' = loop /\ \A n \in config : Drive[n] # Drive[m]
    BY <1>7 DEF AddMount, Begin, Beginning
  <2>2. /\ x \in ThreadRec(started) /\ x.at = "start" /\ x.cmd = "add" /\ x.todo = {m} /\ x.inst = None
    <3>1. {m} \in SUBSET MountIds
      OBVIOUS
    <3> QED BY <1>1, <1>3, <3>1, BeginOne
  <2>3. Moves(t, x) /\ thread[t].at = "idle"
    BY <1>2, <2>1, <2>2, BeginMoves DEF Still
  <2>4. Sessions'
    <3>1. Becomes(t, x) /\ mounts' = mounts
      BY <1>2, <2>3 DEF Moves, Still
    <3> QED BY <2>1, <2>2, <3>1, SettingsKeepSessions
  <2>5. /\ config' \subseteq MountIds /\ \A k, n \in config' : Drive[k] = Drive[n] => k = n
    BY <1>1, <2>1
  <2> QED BY <1>1, <1>2, <2>1, <2>2, <2>3, <2>4, <2>5, CallerMoves
<1>8. ASSUME NEW m \in MountIds, RemoveMount(t, m)
      PROVE  Inv'
  <2> PICK x : x = BeginningAt("remove", m)
    OBVIOUS
  <2>1. /\ Step(t, "idle", x) /\ launched /\ launched' /\ authenticated' = authenticated
        /\ config' = config /\ loop' = loop /\ m \in config
    BY <1>8 DEF RemoveMount, BeginningAt, settings
  <2>2. /\ x \in ThreadRec(started) /\ x.at = "stop" /\ x.cmd = "remove" /\ x.todo = {m} /\ x.inst = None
        /\ x.mount = m
    BY <1>1, <1>3, BeginMount
  <2>3. Moves(t, x) /\ thread[t].at = "idle"
    BY <1>2, <2>1, <2>2, BeginMoves DEF Still
  <2>4. Sessions'
    <3>1. Becomes(t, x) /\ mounts' = mounts
      BY <1>2, <2>3 DEF Moves, Still
    <3>2. x.at \notin {"start"} \cup StartSteps
      BY <2>2 DEF StartSteps
    <3>3. ~authenticated => Running = {}
      BY <2>3, NoCommand
    <3>4. ~authenticated' => \A l \in Loops : loop'[l].at = "none" \/ loop'[l].cancelled
      BY <1>1, <2>1 DEF Sessions
    <3> QED BY <2>1, <2>2, <3>1, <3>2, <3>3, <3>4, SettingsKeepSessions
  <2> QED BY <1>1, <1>2, <2>1, <2>2, <2>3, <2>4, CallerMoves
<1> QED BY <1>4, <1>5, <1>6, <1>7, <1>8 DEF Command

LEMMA EndMoves ==
  ASSUME Inv, NEW t \in Callers, NEW from \in {"start", "stop"}, NEW x \in ThreadRec(started),
         Step(t, from, x), started' = started, x.at \in {"idle", "start"}, x.inst = None
  PROVE  Moves(t, x) /\ thread[t].at = from
<1>1. Becomes(t, x) /\ thread[t].at = from
  BY StepBecomes DEF Inv, Threads
<1>2. x.at \in Between /\ thread[t].at \in Between /\ x.at # "checked"
  BY <1>1 DEF Between
<1> QED BY <1>1, <1>2 DEF Moves

(* A command but a sign-in leaves mounts to a session only.                *)
LEMMA OtherCommand ==
  ASSUME Inv, OneCaller, NEW t \in Callers, thread[t].cmd # "signIn"
  PROVE  ~authenticated => Running = {}
BY DEF OneCaller, Inv, Sessions

LEMMA CommandEndKeepsInv ==
  ASSUME Inv, OneCaller, NEW t \in Callers, CommandEnds(t)
  PROVE  Inv'
<1>1. /\ Types /\ Configs /\ Sessions /\ config \subseteq MountIds /\ Running \subseteq MountIds
      /\ \A m, n \in config : Drive[m] = Drive[n] => m = n
      /\ Idle \in ThreadRec(started) /\ Idle.at = "idle" /\ Idle.cmd = "none"
      /\ Idle.todo = {} /\ Idle.inst = None
  BY IdleOne DEF Inv, Types, Running, Configs
<1>2. /\ Still /\ saved' \subseteq saved /\ gone' = gone /\ launched' = launched
  <2>1. CrashRecovery => saved' \subseteq saved
    BY DEF CrashRecovery
  <2> QED BY <2>1 DEF CommandEnds, Launched, SignedIn, SignedOut, Added, Removed, Cleared,
                      Restarted, Still, tables, instances, world
<1>3. PICK from \in {"start", "stop"} : thread[t].at = from
  BY DEF CommandEnds, Launched, SignedIn, SignedOut, Added, Removed, Cleared, Restarted, Finish, Step, At
<1>4. launched
  BY <1>1, <1>3 DEF Sessions
<1>5. ASSUME Step(t, from, Idle),
             \/ config' = config
             \/ config' = config \ {thread[t].mount} /\ mounts[thread[t].mount] = None,
             StartLoop \/ loop' = Cancelled \/ loop' = loop,
             ~authenticated' => \A l \in Loops : loop'[l].at = "none" \/ loop'[l].cancelled,
             ~authenticated' => Running = {}
      PROVE  Inv'
  <2> PICK x : x = Idle
    OBVIOUS
  <2>1. Moves(t, x)
    BY <1>1, <1>2, <1>5, EndMoves DEF Still
  <2>2. Sessions'
    <3>1. Becomes(t, x) /\ mounts' = mounts
      BY <1>2, <2>1 DEF Moves, Still
    <3>2. x.at \notin {"start"} \cup StartSteps
      BY <1>1 DEF StartSteps
    <3> QED BY <1>1, <1>2, <1>4, <1>5, <3>1, <3>2, SettingsKeepSessions
  <2>3. /\ config' \subseteq MountIds /\ \A k, n \in config' : Drive[k] = Drive[n] => k = n
        /\ \A m \in config : m \in config' \/ mounts[m] = None
    BY <1>1, <1>5
  <2> QED BY <1>1, <1>2, <1>5, <2>1, <2>2, <2>3, CallerMoves
<1>6. CASE Launched(t) \/ Added(t) \/ Restarted(t)
  <2>1. /\ Step(t, "start", Idle) /\ thread[t].at = "start" /\ thread[t].cmd \in {"launch", "add", "clear"}
        /\ config' = config /\ authenticated' = authenticated
        /\ (StartLoop \/ loop' = loop)
    BY <1>6 DEF Launched, Added, Restarted, Finish, Step, At, settings
  <2>2. authenticated
    BY <1>1, <2>1 DEF Sessions
  <2> QED BY <1>3, <1>5, <2>1, <2>2
<1>7. CASE SignedIn(t)
  BY <1>3, <1>5, <1>7 DEF SignedIn, Finish, Step, At
<1>8. CASE SignedOut(t)
  <2>1. /\ Step(t, "stop", Idle) /\ thread[t].at = "stop" /\ thread[t].cmd = "signOut" /\ thread[t].todo = {}
        /\ config' = config /\ loop' = Cancelled
    BY <1>8 DEF SignedOut, Finish, Step, At
  <2>2. Running = {}
    BY <1>1, <2>1 DEF Sessions
  <2>3. \A l \in Loops : loop'[l].cancelled
    <3>1. \A l \in Loops : [loop[l] EXCEPT !.cancelled = TRUE].cancelled
      BY <1>1 DEF Types, LoopRec
    <3> QED BY <2>1, <3>1 DEF Cancelled
  <2> QED BY <1>3, <1>5, <2>1, <2>2, <2>3
<1>9. CASE Removed(t)
  <2>1. /\ Step(t, "stop", Idle) /\ thread[t].at = "stop" /\ thread[t].cmd = "remove" /\ thread[t].todo = {}
        /\ config' = config \ {thread[t].mount} /\ loop' = loop /\ authenticated' = authenticated
    BY <1>9 DEF Removed, Finish, Step, At
  <2>2. mounts[thread[t].mount] = None
    BY <1>1, <2>1 DEF Configs, Removing
  <2>3. ~authenticated => Running = {}
    BY <2>1, OtherCommand
  <2> QED BY <1>1, <1>3, <1>5, <2>1, <2>2, <2>3 DEF Sessions
<1>10. CASE Cleared(t)
  <2>1. /\ thread[t].at = "stop" /\ thread[t].cmd = "clear"
        /\ config' = config /\ loop' = loop /\ authenticated' = authenticated
        /\ Step(t, "stop", IF authenticated THEN Beginning("start", "clear", config) ELSE Idle)
    BY <1>10 DEF Cleared, Step, At, settings, Beginning
  <2>2. CASE ~authenticated
    <3>1. Step(t, "stop", Idle)
      BY <2>1, <2>2
    <3>2. Running = {}
      BY <2>1, <2>2, OtherCommand
    <3> QED BY <1>1, <1>3, <1>5, <2>1, <3>1, <3>2 DEF Sessions
  <2>3. CASE authenticated
    <3> PICK x : x = Beginning("start", "clear", config)
      OBVIOUS
    <3>1. Step(t, "stop", x)
      BY <2>1, <2>3
    <3>2. /\ x \in ThreadRec(started) /\ x.at = "start" /\ x.cmd = "clear" /\ x.todo = config /\ x.inst = None
      <4>1. "start" \in Steps /\ "clear" \in Commands
        BY DEF Steps, Between, Commands
      <4> QED BY <1>1, <4>1, BeginOne
    <3>3. Moves(t, x)
      BY <1>1, <1>2, <3>1, <3>2, EndMoves DEF Still
    <3>4. Sessions'
      <4>1. Becomes(t, x) /\ mounts' = mounts
        BY <1>2, <3>3 DEF Moves, Still
      <4> QED BY <1>1, <1>2, <1>4, <2>1, <2>3, <3>2, <4>1, SettingsKeepSessions
    <3> QED BY <1>1, <1>2, <2>1, <3>2, <3>3, <3>4, CallerMoves
  <2> QED BY <2>2, <2>3
<1> QED BY <1>6, <1>7, <1>8, <1>9, <1>10 DEF CommandEnds

LEMMA LaunchKeepsInv ==
  ASSUME Inv, OneCaller, NEW t \in Callers, Launch(t)
  PROVE  Inv'
<1>1. /\ Types /\ Configs /\ Sessions /\ config \subseteq MountIds
      /\ \A m, n \in config : Drive[m] = Drive[n] => m = n
      /\ t \in Threads
  BY DEF Inv, Types, Configs, Threads
<1>2. /\ Still /\ saved' = saved /\ gone' = gone /\ launched' /\ config' = config /\ loop' = loop
      /\ ~launched /\ ~authenticated /\ thread[t].at = "idle" /\ thread[t].cmd = "none"
  BY <1>1 DEF Launch, Still, tables, instances, world, Sessions
<1>3. Running = {}
  BY <1>2, NoCommand
<1>4. \A l \in Loops : loop'[l].at = "none" \/ loop'[l].cancelled
  BY <1>1, <1>2 DEF Sessions
<1>5. CASE authenticated'
  <2> PICK x : x = Beginning("start", "launch", config)
    OBVIOUS
  <2>1. Step(t, "idle", x)
    BY <1>5 DEF Launch, Beginning
  <2>2. /\ x \in ThreadRec(started) /\ x.at = "start" /\ x.cmd = "launch" /\ x.todo = config /\ x.inst = None
    <3>1. "start" \in Steps /\ "launch" \in Commands
      BY DEF Steps, Between, Commands
    <3> QED BY <1>1, <3>1, BeginOne
  <2>3. Moves(t, x)
    BY <1>2, <2>1, <2>2, BeginMoves DEF Still
  <2>4. Sessions'
    <3>1. Becomes(t, x) /\ mounts' = mounts
      BY <1>2, <2>3 DEF Moves, Still
    <3> QED BY <1>2, <1>5, <2>2, <3>1, SettingsKeepSessions
  <2> QED BY <1>1, <1>2, <2>2, <2>3, <2>4, CallerMoves
<1>6. CASE ~authenticated'
  <2>1. thread' = thread
    BY <1>6 DEF Launch
  <2>2. Becomes(t, thread[t]) /\ thread[t].inst = None /\ thread[t].at \in Between
    BY <1>1, <1>2, <2>1 DEF Becomes, Types, Still, Between, Inv, Owned
  <2> PICK x : x = thread[t]
    OBVIOUS
  <2>3. Moves(t, x)
    BY <1>1, <1>2, <2>2 DEF Moves, Types
  <2>4. Sessions'
    <3>1. Becomes(t, x) /\ mounts' = mounts
      BY <1>2, <2>2 DEF Still
    <3>2. x.at = "idle" /\ x.cmd = "none" /\ x.at \notin {"start"} \cup StartSteps
      BY <1>2 DEF StartSteps
    <3> QED BY <1>2, <1>3, <1>4, <3>1, <3>2, SettingsKeepSessions
  <2>5. \A m \in MountIds : m \in x.todo /\ Drive[m] \notin gone => m \in config
    <3>1. \A m \in MountIds : Works(t, m) /\ Drive[m] \notin gone => m \in config
      BY <1>1 DEF Configs
    <3>2. \A m \in MountIds : m \in thread[t].todo => Works(t, m)
      BY Zenon DEF Works
    <3> QED BY <3>1, <3>2
  <2> QED BY <1>1, <1>2, <2>3, <2>4, <2>5, CallerMoves
<1> QED BY <1>5, <1>6

-----------------------------------------------------------------------------
(* Delta loops, and drives that are deleted.                               *)

LEMMA DriveDeletedKeepsInv ==
  ASSUME Inv, DriveDeleted
  PROVE  Inv'
<1>1. /\ config' = config /\ authenticated' = authenticated /\ mounts' = mounts /\ caches' = caches
      /\ started' = started /\ driveOf' = driveOf /\ host' = host /\ processor' = processor
      /\ queued' = queued /\ saved' = saved /\ thread' = thread /\ loop' = loop /\ launched' = launched
      /\ gone \subseteq gone'
  BY DEF DriveDeleted, settings, tables, instances
<1>2. Types'
  BY <1>1 DEF Inv, Types
<1>3. Owned'
  BY <1>1 DEF Inv, Owned, Listed, InHand, Owner, Running
<1>4. LoopsStopGone'
  BY <1>1 DEF Inv, LoopsStopGone
<1>5. Configs'
  BY <1>1 DEF Inv, Configs, Works, Removing, Running
<1>6. Agree'
  BY <1>1 DEF Inv, Agree, Cached, Running
<1>7. Sessions'
  BY <1>1 DEF Inv, Sessions, Running
<1>8. Queues'
  <2>1. \A d : Waits(d)' => Waits(d)
    BY <1>1 DEF Waits, NoDrop
  <2>2. \A u, d : QueuedBy(u, d)' <=> QueuedBy(u, d)
    BY <1>1 DEF QueuedBy
  <2> QED BY <1>1, <2>1, <2>2 DEF Inv, Queues, Running
<1> QED BY <1>2, <1>3, <1>4, <1>5, <1>6, <1>7, <1>8 DEF Inv

(* A loop's snapshot of the tables.                                        *)
LEMMA RowsRight ==
  ASSUME Inv, NEW r \in Rows
  PROVE  /\ r \in RowRec(started)
         /\ r.mount # NoMount => r.mount \in MountIds /\ Drive[r.mount] = driveOf[r.inst]
<1>1. PICK d \in Drives : caches[d] # None /\ r = [inst |-> caches[d], mount |-> Configured(d)]
  BY DEF Rows
<1>2. caches[d] \in 1..started /\ driveOf[caches[d]] = d
  BY <1>1 DEF Inv, Types, Owned, None
<1>3. Configured(d) # NoMount => Configured(d) \in config /\ Drive[Configured(d)] = d
  BY DEF Configured
<1>4. Configured(d) \in Mounted /\ config \subseteq MountIds
  BY <1>3 DEF Mounted, Inv, Types
<1> QED BY <1>1, <1>2, <1>3, <1>4 DEF RowRec

LEMMA LoopKeepsInv ==
  ASSUME Inv, NEW l \in Loops, LoopLook(l) \/ TickEnds(l) \/ LoopEnd(l)
  PROVE  Inv'
<1>1. /\ config' = config /\ authenticated' = authenticated /\ mounts' = mounts /\ caches' = caches
      /\ started' = started /\ driveOf' = driveOf /\ host' = host /\ processor' = processor
      /\ queued' = queued /\ saved' = saved /\ thread' = thread /\ gone' = gone /\ launched' = launched
  BY DEF LoopLook, TickEnds, TickOf, LoopEnd, settings, tables, instances, world
<1>2. loop \in [Loops -> LoopRec(started)] /\ Rows \subseteq RowRec(started)
  BY RowsRight DEF Inv, Types
<1>3. PICK y \in LoopRec(started) :
        /\ loop' = [loop EXCEPT ![l] = y]
        /\ y.rows \subseteq loop[l].rows \cup Rows /\ y.todo \subseteq loop[l].todo \cup Rows
        /\ y.at = "none" \/ (loop[l].at # "none" /\ y.cancelled = loop[l].cancelled)
  <2>1. CASE LoopLook(l)
    <3>1. /\ loop' = [loop EXCEPT ![l] = [loop[l] EXCEPT !.at = "rounds", !.rows = Rows, !.todo = Rows]]
          /\ loop[l].at # "none"
      BY <2>1 DEF LoopLook, StepLoop, Asleep
    <3>2. PICK y : y = [loop[l] EXCEPT !.at = "rounds", !.rows = Rows, !.todo = Rows]
      OBVIOUS
    <3>3. y \in LoopRec(started) /\ y.rows = Rows /\ y.todo = Rows /\ y.cancelled = loop[l].cancelled
      BY <1>2, <3>2 DEF LoopRec
    <3> QED BY <3>1, <3>2, <3>3
  <2>2. CASE TickEnds(l)
    <3>1. PICK r : loop' = [loop EXCEPT ![l] = [loop[l] EXCEPT !.todo = loop[l].todo \ {r}]]
                   /\ loop[l].at # "none"
      BY <2>2 DEF TickEnds, TickOf, StepLoop
    <3>2. PICK y : y = [loop[l] EXCEPT !.todo = loop[l].todo \ {r}]
      OBVIOUS
    <3>3. /\ y \in LoopRec(started) /\ y.rows = loop[l].rows /\ y.todo = loop[l].todo \ {r}
          /\ y.cancelled = loop[l].cancelled
      BY <1>2, <3>2 DEF LoopRec
    <3> QED BY <3>1, <3>2, <3>3
  <2>3. CASE LoopEnd(l)
    <3>1. NoLoop \in LoopRec(started) /\ NoLoop.rows = {} /\ NoLoop.todo = {} /\ NoLoop.at = "none"
      BY DEF NoLoop, LoopRec
    <3> QED BY <2>3, <3>1 DEF LoopEnd
  <2> QED BY <2>1, <2>2, <2>3
<1>4. Types'
  BY <1>1, <1>2, <1>3 DEF Inv, Types
<1>5. LoopsStopGone'
  <2>1. \A k \in Loops : \A r \in loop'[k].rows \cup loop'[k].todo :
          r \in loop[k].rows \cup loop[k].todo \/ r \in Rows
    BY <1>2, <1>3
  <2> QED BY <1>1, <2>1, RowsRight DEF Inv, LoopsStopGone
<1>6. Owned'
  BY <1>1 DEF Inv, Owned, Listed, InHand, Owner, Running
<1>7. Configs'
  BY <1>1 DEF Inv, Configs, Works, Removing, Running
<1>8. Agree'
  BY <1>1 DEF Inv, Agree, Cached, Running
<1>9. Sessions'
  <2>1. ~authenticated => \A k \in Loops : loop'[k].at = "none" \/ loop'[k].cancelled
    BY <1>2, <1>3 DEF Inv, Sessions
  <2> QED BY <1>1, <2>1 DEF Inv, Sessions, Running
<1>10. Queues'
  BY <1>1 DEF Inv, Queues, Waits, NoDrop, QueuedBy, Running
<1> QED BY <1>4, <1>5, <1>6, <1>7, <1>8, <1>9, <1>10 DEF Inv

(* A loop goes on to its next mount, or is done with it.                   *)
LEMMA LoopMoves ==
  ASSUME Inv, OneCaller, NEW l \in Loops, NEW x, Moves(l, x), Still,
         saved' = saved, gone' = gone, launched' = launched, authenticated' = authenticated,
         config' \subseteq config, \A m \in config : m \in config' \/ Drive[m] \in gone,
         loop' \in [Loops -> LoopRec(started)],
         \A k \in Loops : loop'[k].rows = loop[k].rows /\ loop'[k].todo \subseteq loop[k].todo
                          /\ loop'[k].at = loop[k].at /\ loop'[k].cancelled = loop[k].cancelled,
         x.at # "idle" =>
           x.at = "stop" /\ x.mount \in MountIds /\ Drive[x.mount] \in gone /\ x.todo \subseteq {x.mount}
  PROVE  Inv'
<1>1. l \in Threads /\ l \notin Callers /\ Types
  BY Disjoint DEF Threads, Inv
<1>2. /\ thread'[l] = x /\ \A u \in Threads \ {l} : thread'[u] = thread[u]
      /\ \A u \in Callers : thread'[u] = thread[u]
  BY <1>1 DEF Moves, Becomes, Threads
<1>3. Types'
  BY <1>1 DEF Types, Moves, Becomes, Still
<1>4. Owned'
  BY <1>1, MoveKeepsOwned
<1>5. Agree' /\ Queues'
  BY <1>1, MoveKeepsTables
<1>6. Configs'
  <2>1. mounts' = mounts /\ \A m, n \in config' : Drive[m] = Drive[n] => m = n
    BY DEF Still, Inv, Configs
  <2> QED BY <1>1, <2>1, MoveKeepsConfigs
<1>7. LoopsStopGone'
  BY <1>2 DEF Inv, LoopsStopGone, Still, Threads
<1>8. Sessions'
  BY <1>2 DEF Inv, Sessions, Still, Running
<1> QED BY <1>3, <1>4, <1>5, <1>6, <1>7, <1>8 DEF Inv

LEMMA TickKeepsInv ==
  ASSUME Inv, OneCaller, NEW l \in Loops, TickFindsGone(l) \/ TickGone(l)
  PROVE  Inv'
<1>1. /\ Types /\ l \in Threads /\ loop \in [Loops -> LoopRec(started)]
      /\ \A m \in {NoMount} : m \notin MountIds
  BY MountsConstants DEF Inv, Types, Threads
<1>2. /\ Still /\ saved' = saved /\ gone' = gone /\ launched' = launched
      /\ authenticated' = authenticated /\ thread[l].at \in {"idle", "stop"}
  BY DEF TickFindsGone, TickGone, TickOf, At, Still, settings, tables, instances, world
<1>3. CASE TickGone(l)
  <2>1. /\ Step(l, "stop", Idle) /\ config' = config \ {thread[l].mount} /\ loop' = loop
        /\ thread[l].at = "stop"
    BY <1>3 DEF TickGone, At
  <2>2. Drive[thread[l].mount] \in gone
    BY <2>1 DEF Inv, LoopsStopGone
  <2> PICK x : x = Idle
    OBVIOUS
  <2>3. /\ x \in ThreadRec(started) /\ x.at = "idle" /\ x.inst = None
    BY <1>1, IdleOne
  <2>4. Moves(l, x)
    <3>1. Becomes(l, x)
      BY <1>1, <1>2, <2>1, <2>3, StepBecomes DEF Still
    <3> QED BY <2>1, <2>3, <3>1 DEF Moves, Between
  <2> QED BY <1>1, <1>2, <2>1, <2>2, <2>3, <2>4, LoopMoves
<1>4. CASE TickFindsGone(l)
  <2>1. PICK r \in loop[l].todo :
          /\ TickOf(l, r) /\ driveOf[r.inst] \in gone
          /\ IF r.mount = NoMount THEN UNCHANGED thread
             ELSE Step(l, "idle", BeginningAt("gone", r.mount))
    BY <1>4 DEF TickFindsGone, BeginningAt
  <2>2. /\ config' = config /\ thread[l].at = "idle"
        /\ loop' = [loop EXCEPT ![l] = [loop[l] EXCEPT !.todo = loop[l].todo \ {r}]]
    BY <2>1 DEF TickOf, At, StepLoop, settings
  <2>3. /\ loop' \in [Loops -> LoopRec(started)]
        /\ \A k \in Loops : loop'[k].rows = loop[k].rows /\ loop'[k].todo \subseteq loop[k].todo
                            /\ loop'[k].at = loop[k].at /\ loop'[k].cancelled = loop[k].cancelled
    <3> PICK y : y = [loop[l] EXCEPT !.todo = loop[l].todo \ {r}]
      OBVIOUS
    <3>1. /\ y \in LoopRec(started) /\ y.rows = loop[l].rows /\ y.todo \subseteq loop[l].todo
          /\ y.at = loop[l].at /\ y.cancelled = loop[l].cancelled
      BY <1>1 DEF LoopRec
    <3> QED BY <1>1, <2>2, <3>1
  <2>4. CASE r.mount = NoMount
    <3> PICK x : x = thread[l]
      OBVIOUS
    <3>1. x \in ThreadRec(started) /\ x.at = "idle" /\ x.inst = None
      BY <1>1, <2>2 DEF Types, Inv, Owned, Between
    <3>2. Moves(l, x)
      BY <1>1, <1>2, <2>1, <2>2, <2>4, <3>1 DEF Moves, Becomes, Still, Types, Between
    <3> QED BY <1>1, <1>2, <2>2, <2>3, <3>1, <3>2, LoopMoves
  <2>5. CASE r.mount # NoMount
    <3>1. r.mount \in MountIds /\ Drive[r.mount] \in gone
      BY <2>1, <2>5 DEF Inv, LoopsStopGone
    <3> PICK x : x = BeginningAt("gone", r.mount)
      OBVIOUS
    <3>2. /\ x \in ThreadRec(started) /\ x.at = "stop" /\ x.todo = {r.mount}
          /\ x.mount = r.mount /\ x.inst = None
      <4>1. "gone" \in Commands
        BY DEF Commands
      <4> QED BY <1>1, <3>1, <4>1, BeginMount
    <3>3. Moves(l, x)
      <4>1. Becomes(l, x)
        BY <1>1, <1>2, <2>1, <2>5, <3>2, StepBecomes DEF Still
      <4> QED BY <2>2, <3>2, <4>1 DEF Moves, Between
    <3> QED BY <1>1, <1>2, <2>2, <2>3, <3>1, <3>2, <3>3, LoopMoves
  <2> QED BY <2>4, <2>5
<1> QED BY <1>3, <1>4

-----------------------------------------------------------------------------
(* The processors, and saves.                                              *)

LEMMA Numbers ==
  ASSUME Types
  PROVE  /\ 1..started \subseteq Instances
         /\ \A m \in Running : m \in MountIds /\ mounts[m] \in 1..started
         /\ \A t \in Threads : thread[t].inst # None => thread[t].inst \in 1..started
<1>1. started \in Nat /\ MaxInstances \in Nat /\ started <= MaxInstances
  BY MountsConstants DEF Types
<1>2. \A n \in 0..started : n # None => n \in 1..started
  BY <1>1 DEF None
<1>3. \A t \in Threads : thread[t].inst \in 0..started
  BY DEF Types, ThreadRec
<1> QED BY <1>1, <1>2, <1>3 DEF Instances, Running, Types

LEMMA SendersServe ==
  ASSUME Inv, NEW i, ~HasSender(i)
  PROVE  /\ \A m \in Running : mounts[m] # i
         /\ \A t \in Threads : thread[t].at \in Built \cup StopSteps => thread[t].inst # i
BY DEF HasSender, Inv, Owned, Listed

LEMMA ProcessorKeepsInv ==
  ASSUME Inv, NEW i \in Instances, ProcessorStep(i) \/ Save(i)
  PROVE  /\ Types' /\ Owned' /\ LoopsStopGone' /\ Configs' /\ Agree' /\ Sessions'
<1>1. /\ config' = config /\ authenticated' = authenticated /\ mounts' = mounts /\ caches' = caches
      /\ started' = started /\ driveOf' = driveOf /\ host' = host
      /\ thread' = thread /\ loop' = loop /\ gone' = gone /\ launched' = launched
  BY DEF ProcessorStep, Recover, Upload, Drain, Abandon, Turn, Save, settings, tables, world
<1>2. \/ processor' = processor
      \/ processor[i] \in Serving /\ processor' = [processor EXCEPT ![i] = "running"]
      \/ /\ processor[i] \notin Serving \/ ~HasSender(i)
         /\ processor' = [processor EXCEPT ![i] = "ended"]
  BY DEF ProcessorStep, Recover, Upload, Drain, Abandon, Turn, Save, Serving
<1>3. \A j \in Instances : processor'[j] = processor[j] \/ (processor[j] \in Serving /\ processor'[j] \in Serving)
        \/ (j = i /\ (processor[i] \notin Serving \/ ~HasSender(i)))
  BY <1>2 DEF Inv, Types, Serving
<1>4. Types'
  BY <1>1, <1>2 DEF Inv, Types
<1>5. Owned'
  <2>1. \A m \in Running : mounts[m] \in Instances
    BY Numbers DEF Inv
  <2>2. \A m \in Running' : Listed(m)'
    BY <1>1, <1>3, <2>1, SendersServe DEF Inv, Owned, Listed, Running
  <2>3. ASSUME NEW t \in Threads, thread[t].at \in Built \cup StopSteps
        PROVE  InHand(t)'
    <3>1. InHand(t)
      BY <2>3 DEF Inv, Owned
    <3>2. thread[t].inst \in Instances
      BY <3>1, Numbers DEF InHand, Inv
    <3>3. thread[t].at \in Built => processor'[thread[t].inst] \in Serving
      BY <1>3, <2>3, <3>1, <3>2, SendersServe DEF InHand
    <3> QED BY <1>1, <3>1, <3>3 DEF InHand, Running
  <2> QED BY <1>1, <2>2, <2>3 DEF Inv, Owned, Owner, Running
<1>6. LoopsStopGone' /\ Configs'
  BY <1>1 DEF Inv, LoopsStopGone, Configs, Works, Removing, Running
<1>7. Agree' /\ Sessions'
  BY <1>1 DEF Inv, Agree, Cached, Sessions, Running
<1> QED BY <1>4, <1>5, <1>6, <1>7

LEMMA RecoverKeepsQueues ==
  ASSUME Inv, NEW i \in Instances, Recover(i)
  PROVE  Queues'
<1>1. /\ mounts' = mounts /\ saved' = saved /\ gone' = gone /\ driveOf' = driveOf /\ started' = started
      /\ host' = host /\ thread' = thread /\ queued \subseteq queued'
      /\ processor' = [processor EXCEPT ![i] = "running"]
      /\ driveOf[i] \in saved => i \in queued'
  BY DEF Recover, Turn, tables, world
<1>2. \A j \in Instances : j # i => processor'[j] = processor[j]
  BY <1>1 DEF Inv, Types
<1>3. \A d : Waits(d)' <=> Waits(d)
  BY <1>1 DEF Waits, NoDrop
<1>4. \A u, d : QueuedBy(u, d) => QueuedBy(u, d)'
  BY <1>1 DEF QueuedBy
<1>5. ASSUME NEW m \in Running, Waits(Drive[m]), processor'[mounts[m]] = "running"
      PROVE  mounts[m] \in queued' \/ \E u \in Callers : QueuedBy(u, Drive[m])'
  <2>1. mounts[m] \in Instances /\ driveOf[mounts[m]] = Drive[m] /\ Drive[m] \in saved
    BY <1>5, Numbers DEF Inv, Owned, Listed, Waits
  <2>2. CASE mounts[m] = i
    BY <1>1, <2>1, <2>2
  <2>3. CASE mounts[m] # i
    BY <1>1, <1>2, <1>4, <1>5, <2>1, <2>3 DEF Inv, Queues
  <2> QED BY <2>2, <2>3
<1>6. ASSUME NEW t \in Callers, thread[t].at \in Built, Waits(Drive[thread[t].mount]),
             mounts[thread[t].mount] = None, processor'[thread[t].inst] = "running"
      PROVE  thread[t].inst \in queued'
  <2>1. InHand(t) /\ t \in Threads
    BY <1>6 DEF Inv, Owned, Threads
  <2>2. /\ thread[t].inst \in Instances /\ driveOf[thread[t].inst] = Drive[thread[t].mount]
        /\ Drive[thread[t].mount] \in saved
    BY <1>6, <2>1, Numbers DEF Inv, InHand, Waits
  <2>3. CASE thread[t].inst = i
    BY <1>1, <2>2, <2>3
  <2>4. CASE thread[t].inst # i
    BY <1>1, <1>2, <1>6, <2>2, <2>4 DEF Inv, Queues
  <2> QED BY <2>3, <2>4
<1> QED BY <1>1, <1>3, <1>5, <1>6 DEF Queues, Running

(* A processor that uploads or ends leaves the queue of no other drive.    *)
LEMMA LeavingKeepsQueues ==
  ASSUME Inv, NEW i \in Instances, Upload(i) \/ Drain(i) \/ Abandon(i)
  PROVE  Queues'
<1>1. /\ mounts' = mounts /\ saved' \subseteq saved /\ gone' = gone /\ driveOf' = driveOf
      /\ started' = started /\ host' = host /\ thread' = thread /\ queued' = queued \ {i}
      /\ \/ processor' = [processor EXCEPT ![i] = "running"] /\ processor[i] = "running"
            /\ driveOf[i] \notin saved'
         \/ processor' = [processor EXCEPT ![i] = "ended"] /\ (processor[i] \notin Serving \/ ~HasSender(i))
  BY DEF Upload, Drain, Abandon, Turn, tables, world, Serving
<1>2. \A j \in Instances : processor'[j] = "running" => processor[j] = "running"
  BY <1>1 DEF Inv, Types
<1>3. \A d : Waits(d)' => Waits(d) /\ d \in saved'
  BY <1>1 DEF Waits, NoDrop
<1>4. ASSUME NEW m \in Running, Waits(Drive[m])'
      PROVE  mounts[m] # i
  BY <1>1, <1>3, <1>4, SendersServe DEF Inv, Owned, Listed
<1>5. ASSUME NEW t \in Callers, thread[t].at \in Built, Waits(driveOf[thread[t].inst])'
      PROVE  thread[t].inst # i
  <2>1. InHand(t) /\ t \in Threads
    BY <1>5 DEF Inv, Owned, Threads
  <2>2. driveOf'[thread'[t].inst] \in saved'
    BY <1>5 DEF Waits
  <2> QED BY <1>1, <1>5, <2>1, <2>2, SendersServe DEF InHand
<1>6. ASSUME NEW m \in Running, Waits(Drive[m])', processor'[mounts[m]] = "running"
      PROVE  mounts[m] \in queued' \/ \E u \in Callers : QueuedBy(u, Drive[m])'
  <2>1. mounts[m] \in Instances /\ mounts[m] # i /\ Waits(Drive[m])
    BY <1>3, <1>4, <1>6, Numbers DEF Inv
  <2>2. mounts[m] \in queued \/ \E u \in Callers : QueuedBy(u, Drive[m])
    BY <1>2, <1>6, <2>1 DEF Inv, Queues
  <2>3. ASSUME NEW u \in Callers, QueuedBy(u, Drive[m])
        PROVE  QueuedBy(u, Drive[m])'
    <3>1. thread[u].at \in Built /\ driveOf[thread[u].inst] = Drive[m]
      BY <2>3 DEF QueuedBy, Hosted, Built
    <3>2. Waits(driveOf[thread[u].inst])'
      BY <1>1, <1>6, <3>1 DEF Waits, NoDrop
    <3> QED BY <1>1, <1>5, <2>3, <3>1, <3>2 DEF QueuedBy
  <2> QED BY <1>1, <2>1, <2>2, <2>3
<1>7. ASSUME NEW t \in Callers, thread[t].at \in Built, Waits(Drive[thread[t].mount])',
             mounts[thread[t].mount] = None, processor'[thread[t].inst] = "running"
      PROVE  thread[t].inst \in queued'
  <2>1. InHand(t) /\ t \in Threads
    BY <1>7 DEF Inv, Owned, Threads
  <2>2. thread[t].inst \in Instances /\ driveOf[thread[t].inst] = Drive[thread[t].mount]
    BY <2>1, Numbers DEF Inv, InHand
  <2>3. Waits(Drive[thread[t].mount]) /\ Waits(driveOf[thread[t].inst])'
    BY <1>1, <1>7, <2>2 DEF Waits, NoDrop
  <2> QED BY <1>1, <1>2, <1>5, <1>7, <2>2, <2>3 DEF Inv, Queues
<1> QED BY <1>1, <1>6, <1>7 DEF Queues, Running

(* Whoever serves a drive that is there is its listed instance, or the one *)
(* in the caller's hands.                                                  *)
LEMMA ServesItsDrive ==
  ASSUME Inv, NEW i \in Instances, host[i] = "up", driveOf[i] \notin gone
  PROVE  \/ \E m \in Running : mounts[m] = i /\ driveOf[i] = Drive[m]
         \/ \E t \in Callers : thread[t].at \in Hosted \cup StopSteps /\ thread[t].inst = i
<1>1. Owner(i)
  BY DEF Inv, Owned
<1>2. ASSUME NEW l \in Loops, l \in Threads, thread[l].at \in Hosted \cup StopSteps, thread[l].inst = i
      PROVE  FALSE
  <2>1. InHand(l)
    BY <1>2 DEF Inv, Owned, Hosted, Built
  <2>2. thread[l].at # "idle"
    BY <1>2 DEF Hosted, StopSteps
  <2> QED BY <1>2, <2>1, <2>2 DEF InHand, Inv, LoopsStopGone
<1>3. \A m \in Running : mounts[m] = i => driveOf[i] = Drive[m]
  BY DEF Inv, Owned, Listed
<1> QED BY <1>1, <1>2, <1>3 DEF Owner, Threads

(* Two mounts of a drive that is there, one listed and one listed or in    *)
(* the caller's hands, are one.                                            *)
LEMMA OneMount ==
  ASSUME Inv, NEW m \in Running, Drive[m] \notin gone
  PROVE  /\ \A n \in Running : Drive[n] = Drive[m] => n = m
         /\ \A t \in Callers : thread[t].at \in StartSteps \cup StopSteps /\ Drive[thread[t].mount] = Drive[m]
                               => thread[t].mount = m
<1>1. m \in config /\ \A n \in Running : Drive[n] = Drive[m] => n \in config
  BY DEF Inv, Configs
<1>2. ASSUME NEW t \in Callers, thread[t].at \in StartSteps \cup StopSteps, Drive[thread[t].mount] = Drive[m]
      PROVE  thread[t].mount \in config
  <2>1. t \in Threads /\ thread[t].mount \in MountIds
    BY <1>2, Disjoint DEF Inv, Owned, InHand, StartSteps, Threads
  <2>2. Works(t, thread[t].mount)
    BY <1>2 DEF Works
  <2> QED BY <1>2, <2>1, <2>2 DEF Inv, Configs
<1> QED BY <1>1, <1>2 DEF Inv, Configs

LEMMA SaveKeepsQueues ==
  ASSUME Inv, OneCaller, NEW i \in Instances, Save(i)
  PROVE  Queues'
<1>1. /\ mounts' = mounts /\ gone' = gone /\ driveOf' = driveOf /\ started' = started /\ host' = host
      /\ thread' = thread /\ processor' = processor /\ saved' = saved \cup {driveOf[i]}
      /\ queued \subseteq queued' /\ host[i] = "up"
      /\ processor[i] \in Serving => i \in queued'
  BY DEF Save, tables, Serving
<1>2. \A d : Waits(d)' => d \notin gone /\ (Waits(d) \/ d = driveOf[i])
  BY <1>1 DEF Waits, NoDrop
<1>3. \A u, d : QueuedBy(u, d) => QueuedBy(u, d)'
  BY <1>1 DEF QueuedBy
<1>4. ASSUME NEW m \in Running, Waits(Drive[m])', processor[mounts[m]] = "running"
      PROVE  mounts[m] \in queued' \/ \E u \in Callers : QueuedBy(u, Drive[m])'
  <2>1. CASE Waits(Drive[m])
    BY <1>1, <1>3, <1>4, <2>1 DEF Inv, Queues
  <2>2. CASE Drive[m] = driveOf[i]
    <3>1. driveOf[i] \notin gone
      BY <1>2, <1>4, <2>2
    <3>2. CASE \E n \in Running : mounts[n] = i /\ driveOf[i] = Drive[n]
      <4>1. PICK n \in Running : mounts[n] = i /\ driveOf[i] = Drive[n]
        BY <3>2
      <4>2. n = m
        BY <2>2, <3>1, <4>1, OneMount
      <4> QED BY <1>1, <1>4, <4>1, <4>2 DEF Serving
    <3>3. ASSUME NEW t \in Callers, thread[t].at \in Hosted \cup StopSteps, thread[t].inst = i
          PROVE  mounts[m] \in queued' \/ QueuedBy(t, Drive[m])'
      <4>1. t \in Threads /\ thread[t].at \in Built \cup StopSteps /\ thread[t].at \in StartSteps \cup StopSteps
        BY <3>3 DEF Threads, Hosted, Built, StartSteps
      <4>2. InHand(t)
        BY <4>1 DEF Inv, Owned
      <4>3. Drive[thread[t].mount] = Drive[m]
        BY <2>2, <3>3, <4>2 DEF InHand
      <4>4. thread[t].mount = m
        BY <2>2, <3>1, <4>1, <4>3, OneMount
      <4>5. thread[t].at \notin StopSteps
        BY <4>4 DEF Inv, Configs, Running
      <4>6. thread[t].at \in Hosted /\ processor[i] \in Serving
        BY <3>3, <4>2, <4>5 DEF InHand, Hosted, Built
      <4> QED BY <1>1, <2>2, <3>3, <4>6 DEF QueuedBy
    <3> QED BY <1>1, <3>1, <3>2, <3>3, ServesItsDrive
  <2> QED BY <1>2, <1>4, <2>1, <2>2
<1>5. ASSUME NEW t \in Callers, thread[t].at \in Built, Waits(Drive[thread[t].mount])',
             mounts[thread[t].mount] = None, processor[thread[t].inst] = "running"
      PROVE  thread[t].inst \in queued'
  <2>1. t \in Threads /\ InHand(t) /\ thread[t].at \in StartSteps \cup StopSteps
    BY <1>5 DEF Inv, Owned, Threads, Built, StartSteps
  <2>2. CASE Waits(Drive[thread[t].mount])
    BY <1>1, <1>5, <2>2 DEF Inv, Queues
  <2>3. CASE Drive[thread[t].mount] = driveOf[i]
    <3>1. driveOf[i] \notin gone
      BY <1>1, <1>5, <2>3 DEF Waits
    <3>2. ~ \E n \in Running : mounts[n] = i /\ driveOf[i] = Drive[n]
      <4> SUFFICES ASSUME NEW n \in Running, driveOf[i] = Drive[n]
                   PROVE  FALSE
        OBVIOUS
      <4>1. thread[t].mount = n
        BY <2>1, <2>3, <3>1, OneMount
      <4> QED BY <1>5, <4>1 DEF Running
    <3>3. PICK u \in Callers : thread[u].inst = i
      BY <1>1, <3>1, <3>2, ServesItsDrive
    <3>4. u = t
      BY DEF OneCaller
    <3> QED BY <1>1, <1>5, <3>3, <3>4 DEF Serving
  <2>4. Waits(Drive[thread[t].mount]) \/ Drive[thread[t].mount] = driveOf[i]
    BY <1>1, <1>5 DEF Waits, NoDrop
  <2> QED BY <2>2, <2>3, <2>4
<1> QED BY <1>1, <1>4, <1>5 DEF Queues, Running

-----------------------------------------------------------------------------
(* stop_mount.                                                             *)

(* A thread with an instance in hand, before or after its step.            *)
Holds(t) == thread[t].at \in Built \cup StopSteps

(* What becomes of an instance that changes hands, or goes down: the other *)
(* mounts and threads keep theirs.                                         *)
LEMMA OthersKeepOwned ==
  ASSUME Inv, NEW t \in Threads, NEW x, Becomes(t, x),
         \A i \in 1..started : driveOf'[i] = driveOf[i],
         \A m \in Running' : Listed(m)',
         \A u \in Threads \ {t} : Holds(u) => InHand(u)',
         Holds(t)' => InHand(t)',
         x.at \in Between => x.inst = None,
         x.at = "checked" => x.mount \in MountIds,
         \A i \in Instances : host'[i] = "up" => Owner(i)',
         \A d \in Drives : caches'[d] # None => driveOf'[caches'[d]] = d
  PROVE  Owned'
BY DEF Becomes, Holds, Inv, Owned

Goes(t, at) == [thread[t] EXCEPT !.at = at]

LEMMA GoesOne ==
  ASSUME Types, NEW t \in Threads, NEW at \in Steps, NEW x, x = Goes(t, at)
  PROVE  /\ x \in ThreadRec(started) /\ x.at = at /\ x.cmd = thread[t].cmd /\ x.todo = thread[t].todo
         /\ x.mount = thread[t].mount /\ x.inst = thread[t].inst
<1>1. thread[t] \in ThreadRec(started)
  BY DEF Types
<1> QED BY <1>1 DEF Goes, ThreadRec

(* Each step goes on with its mount, or takes the next one.                *)
LEMMA StopKeepsSettings ==
  ASSUME Inv, OneCaller, NEW t \in Threads, NEW x, Becomes(t, x),
         config' = config, gone' = gone, authenticated' = authenticated, launched' = launched,
         loop' = loop, driveOf' = driveOf,
         thread[t].at \in {"stop"} \cup StopSteps, x.at \in {"stop"} \cup StopSteps,
         x.cmd = thread[t].cmd, x.mount \in MountIds,
         x.mount \in thread[t].todo \/ (thread[t].at \in StopSteps /\ x.mount = thread[t].mount),
         x.todo \subseteq thread[t].todo, thread[t].todo \subseteq x.todo \cup {x.mount},
         mounts'[x.mount] = None, \A m \in MountIds : mounts'[m] # None => mounts'[m] = mounts[m]
  PROVE  Configs' /\ Sessions' /\ LoopsStopGone'
<1>1. /\ Configs /\ Sessions /\ LoopsStopGone
      /\ thread'[t] = x /\ \A u \in Threads \ {t} : thread'[u] = thread[u]
  BY DEF Inv, Becomes
<1>2. /\ \A u \in Callers : u \in Threads
      /\ \A l \in Loops : l \in Threads
      /\ thread[t].at \notin {"idle", "start"} \cup StartSteps /\ x.at \notin {"idle", "start"} \cup StartSteps
  BY DEF Threads, StartSteps, StopSteps
<1>3. Running' \subseteq Running /\ x.mount \notin Running'
  BY DEF Running
<1>4. ASSUME NEW u \in Callers, u # t
      PROVE  thread'[u] = thread[u]
  BY <1>1, <1>2, <1>4
<1>5. Configs'
  <2>1. \A m \in Running' : Drive[m] \notin gone' => m \in config'
    BY <1>1, <1>3 DEF Configs
  <2>2. ASSUME NEW u \in Callers
        PROVE  /\ \A m \in MountIds : Works(u, m)' /\ Drive[m] \notin gone' => m \in config'
               /\ thread'[u].at \in StopSteps => mounts'[thread'[u].mount] = None
               /\ thread'[u].cmd = "remove" => Removing(u)'
    <3>1. CASE u = t
      <4>1. \A m \in MountIds : Works(u, m)' => Works(u, m)
        BY <1>1, <1>2, <3>1 DEF Works
      <4>2. x.cmd = "remove" => Removing(u)'
        <5> SUFFICES ASSUME x.cmd = "remove"
                     PROVE  Removing(u)'
          OBVIOUS
        <5>1. Removing(t)
          BY <1>1, <3>1 DEF Configs
        <5>2. x.mount = thread[t].mount /\ x.todo \subseteq {x.mount}
          BY <5>1 DEF Removing
        <5> QED BY <1>1, <3>1, <5>2 DEF Removing
      <4> QED BY <1>1, <3>1, <4>1, <4>2 DEF Configs
    <3>2. CASE u # t
      <4>1. \A m \in MountIds : Works(u, m)' <=> Works(u, m)
        BY <1>4, <3>2 DEF Works
      <4>2. thread[u].at \in StopSteps => mounts'[thread[u].mount] = None
        <5>1. thread[u].at \in StopSteps => thread[u].mount \in MountIds /\ mounts[thread[u].mount] = None
          BY <1>1, <1>2 DEF Inv, Owned, InHand, Configs
        <5> QED BY <5>1
      <4>3. Removing(u) => Removing(u)'
        BY <1>4, <3>2 DEF Removing
      <4> QED BY <1>1, <1>4, <3>2, <4>1, <4>2, <4>3 DEF Configs
    <3> QED BY <3>1, <3>2
  <2> QED BY <1>1, <2>1, <2>2 DEF Configs
<1>6. Sessions'
  <2>1. \A u \in Callers : thread'[u].cmd = thread[u].cmd
    BY <1>1, <1>4
  <2>2. ~authenticated' /\ Running' # {} => \E u \in Callers : thread'[u].cmd = "signIn"
    BY <1>1, <1>3, <2>1 DEF Sessions
  <2>3. ASSUME NEW u \in Callers
        PROVE  /\ thread'[u].at \in {"start"} \cup StartSteps => authenticated' \/ thread'[u].cmd = "signIn"
               /\ thread'[u].at = "idle" => thread'[u].cmd = "none"
               /\ thread'[u].cmd = "signIn" => thread'[u].at \in {"start"} \cup StartSteps
               /\ thread'[u].cmd = "signOut" => /\ thread'[u].at \in {"stop"} \cup StopSteps
                                                /\ Running' \subseteq thread'[u].todo
    <3>1. CASE u = t
      <4>1. thread[t].cmd # "signIn"
        BY <1>1, <1>2, <3>1 DEF Sessions
      <4>2. x.cmd = "signOut" => Running' \subseteq x.todo
        BY <1>1, <1>3, <3>1 DEF Sessions
      <4> QED BY <1>1, <1>2, <3>1, <4>1, <4>2
    <3>2. CASE u # t
      BY <1>1, <1>3, <1>4, <3>2 DEF Sessions
    <3> QED BY <3>1, <3>2
  <2>4. ~launched' => ~authenticated' /\ \A u \in Callers : thread'[u].at = "idle"
    <3>1. ASSUME ~launched, t \in Callers
          PROVE  FALSE
      BY <1>1, <1>2, <3>1 DEF Sessions
    <3> QED BY <1>1, <1>4, <3>1 DEF Sessions
  <2> QED BY <1>1, <2>2, <2>3, <2>4 DEF Sessions
<1>7. LoopsStopGone'
  <2>1. ASSUME NEW l \in Loops, thread'[l].at # "idle"
        PROVE  /\ thread'[l].at \in {"stop"} \cup StopSteps
               /\ thread'[l].mount \in MountIds /\ Drive[thread'[l].mount] \in gone
               /\ thread'[l].todo \subseteq {thread'[l].mount}
    <3>1. CASE l = t
      <4>1. thread[t].todo \subseteq {thread[t].mount} /\ Drive[thread[t].mount] \in gone
        BY <1>1, <1>2, <3>1 DEF LoopsStopGone
      <4>2. x.mount = thread[t].mount
        BY <4>1
      <4> QED BY <1>1, <3>1, <4>1, <4>2
    <3>2. CASE l # t
      BY <1>1, <1>2, <2>1, <3>2 DEF LoopsStopGone
    <3> QED BY <3>1, <3>2
  <2> QED BY <1>1, <2>1 DEF LoopsStopGone
<1> QED BY <1>5, <1>6, <1>7

(* A mount that is not listed any more is passed over.                     *)
LEMMA PassKeepsInv ==
  ASSUME Inv, OneCaller, NEW t \in Threads, NEW m \in thread[t].todo, mounts[m] = None,
         Step(t, "stop", Done(t, m, "stop")), UNCHANGED mounts,
         UNCHANGED <<settings, caches, instances, saved, loop, world, launched>>
  PROVE  Inv'
<1>1. /\ Types /\ Configs /\ Sessions /\ LoopsStopGone
      /\ config \subseteq MountIds /\ loop \in [Loops -> LoopRec(started)]
      /\ \A k, n \in config : Drive[k] = Drive[n] => k = n
      /\ {"stop", "start"} \subseteq Steps
  BY DEF Inv, Types, Configs, Steps, Between
<1>2. /\ Still /\ saved' = saved /\ gone' = gone /\ launched' = launched /\ loop' = loop
      /\ authenticated' = authenticated /\ config' = config
  BY DEF Still, settings, instances, world
<1> PICK x : x = Done(t, m, "stop")
  OBVIOUS
<1>3. /\ x \in ThreadRec(started) /\ x.at = "stop" /\ x.cmd = thread[t].cmd
      /\ x.todo = thread[t].todo \ {m} /\ x.mount = thread[t].mount /\ x.inst = None
  BY <1>1, DoneOne
<1>4. Becomes(t, x) /\ thread[t].at = "stop"
  BY <1>1, <1>2, <1>3, StepBecomes DEF Still
<1>5. Moves(t, x)
  BY <1>3, <1>4 DEF Moves, Between
<1>6. CASE t \in Callers
  <2>1. Sessions'
    <3>1. launched /\ thread[t].cmd # "signIn"
      BY <1>1, <1>4, <1>6 DEF Sessions, StartSteps
    <3>2. ~authenticated => Running = {}
      BY <1>6, <3>1, OtherCommand
    <3>3. x.cmd = "signOut" => Running \subseteq x.todo
      BY <1>1, <1>3, <1>6 DEF Sessions, Running
    <3>4. x.at \notin {"start"} \cup StartSteps
      BY <1>3 DEF StartSteps
    <3>5. ~authenticated' => \A l \in Loops : loop'[l].at = "none" \/ loop'[l].cancelled
      BY <1>1, <1>2 DEF Sessions
    <3>6. mounts' = mounts /\ launched' /\ (~authenticated' /\ Running # {} => x.cmd = "signIn")
      BY <1>2, <3>1, <3>2
    <3>7. x.at # "idle" /\ x.cmd # "signIn" /\ x.at \in {"stop"} \cup StopSteps
      BY <1>3, <3>1
    <3> QED BY <1>4, <1>6, <3>3, <3>4, <3>5, <3>6, <3>7, SettingsKeepSessions
  <2>2. \A n \in MountIds : n \in x.todo /\ Drive[n] \notin gone => n \in config
    <3>1. \A n \in MountIds : Works(t, n) /\ Drive[n] \notin gone => n \in config
      BY <1>1, <1>6 DEF Configs
    <3> QED BY <1>3, <3>1 DEF Works
  <2>3. x.cmd = "remove" =>
          /\ x.at = "stop" /\ x.mount \in MountIds /\ x.todo \subseteq {x.mount}
          /\ mounts[x.mount] # None => x.mount \in x.todo
    BY <1>1, <1>3, <1>6 DEF Configs, Removing
  <2> QED BY <1>1, <1>2, <1>3, <1>5, <1>6, <2>1, <2>2, <2>3, CallerMoves
<1>7. CASE t \in Loops
  <2>1. x.mount \in MountIds /\ Drive[x.mount] \in gone /\ x.todo \subseteq {x.mount}
    BY <1>1, <1>3, <1>4, <1>7 DEF LoopsStopGone
  <2> QED BY <1>1, <1>2, <1>3, <1>5, <1>7, <2>1, LoopMoves
<1> QED BY <1>6, <1>7 DEF Threads

(* A mount leaves the table of mounts for the hands of the thread.         *)
Takes(t, m) == [thread[t] EXCEPT !.at = "unlisted", !.mount = m, !.inst = mounts[m]]

LEMMA TakeKeepsInv ==
  ASSUME Inv, OneCaller, NEW t \in Threads, NEW m \in thread[t].todo, mounts[m] # None,
         Step(t, "stop", Takes(t, m)), mounts' = [mounts EXCEPT ![m] = None],
         UNCHANGED <<settings, caches, instances, saved, loop, world, launched>>
  PROVE  Inv'
<1>1. /\ Types /\ Owned /\ LoopsStopGone /\ Configs /\ Agree /\ Sessions /\ Queues
      /\ mounts \in [MountIds -> 0..started] /\ thread[t] \in ThreadRec(started)
  BY DEF Inv, Types
<1>2. /\ caches' = caches /\ started' = started /\ driveOf' = driveOf /\ host' = host
      /\ processor' = processor /\ queued' = queued /\ config' = config
      /\ saved' = saved /\ gone' = gone /\ launched' = launched /\ loop' = loop
      /\ authenticated' = authenticated
  BY DEF settings, instances, world
<1>3. m \in Running /\ m \in MountIds /\ mounts[m] \in 1..started
  <2>1. m \in MountIds
    BY <1>1 DEF ThreadRec
  <2>2. m \in Running
    BY <2>1 DEF Running
  <2> QED BY <1>1, <2>1, <2>2, Numbers
<1> PICK x : x = Takes(t, m)
  OBVIOUS
<1>4. /\ x \in ThreadRec(started) /\ x.at = "unlisted" /\ x.cmd = thread[t].cmd
      /\ x.todo = thread[t].todo /\ x.mount = m /\ x.inst = mounts[m]
  <2>1. "unlisted" \in Steps /\ m \in Mounted /\ mounts[m] \in 0..started
    BY <1>1, <1>3 DEF Steps, StopSteps, Mounted
  <2> QED BY <1>1, <2>1 DEF Takes, ThreadRec
<1>5. /\ Becomes(t, x) /\ thread[t].at = "stop"
      /\ thread'[t] = x /\ \A u \in Threads \ {t} : thread'[u] = thread[u]
  <2>1. Becomes(t, x) /\ thread[t].at = "stop"
    BY <1>1, <1>2, <1>4, StepBecomes
  <2> QED BY <2>1 DEF Becomes
<1>6. /\ mounts'[m] = None /\ \A n \in MountIds \ {m} : mounts'[n] = mounts[n]
      /\ \A n : n \in Running' <=> n \in Running /\ n # m
  BY <1>1, <1>3 DEF Running
<1>7. Types'
  <2>1. mounts' \in [MountIds -> 0..started]
    <3>1. None \in 0..started
      BY <1>1 DEF None, Types
    <3> QED BY <1>1, <3>1
  <2> QED BY <1>1, <1>2, <1>5, <2>1 DEF Types, Becomes
<1>8. Configs' /\ Sessions' /\ LoopsStopGone'
  <2>1. \A n \in MountIds : mounts'[n] # None => mounts'[n] = mounts[n]
    BY <1>6
  <2>2. thread[t].at \in {"stop"} \cup StopSteps /\ x.at \in {"stop"} \cup StopSteps
    BY <1>4, <1>5 DEF StopSteps
  <2> QED BY <1>2, <1>3, <1>4, <1>5, <1>6, <2>1, <2>2, StopKeepsSettings
<1>9. thread[t].at \notin Built \cup StopSteps \cup {"cached", "unlisted"} \cup Hosted
  BY <1>5 DEF Built, Hosted, StopSteps
<1>10. \A u \in Callers : u \in Threads
  BY DEF Threads
<1>11. Owned'
  <2>1. \A n \in Running' : Listed(n)'
    BY <1>1, <1>2, <1>6 DEF Owned, Listed, Running
  <2>2. ASSUME NEW u \in Threads, u # t
        PROVE  thread[u].inst # mounts[m]
    <3>1. CASE thread[u].at \in Built \cup StopSteps
      BY <1>1, <1>3, <3>1 DEF Owned, InHand
    <3>2. CASE thread[u].at \in Between
      BY <1>1, <1>3, <3>2 DEF Owned
    <3> QED BY <1>1, <3>1, <3>2 DEF Types, ThreadRec, Steps
  <2>3. ASSUME NEW u \in Threads \ {t}, Holds(u)
        PROVE  InHand(u)'
    <3>1. InHand(u) /\ thread'[u] = thread[u]
      BY <1>1, <1>5, <2>3 DEF Owned, Holds
    <3>2. \A v \in Threads : thread'[v].inst = thread[u].inst => v = u
      BY <1>4, <1>5, <2>2, <3>1 DEF InHand
    <3>3. \A n \in Running' : mounts'[n] # thread[u].inst
      BY <1>6, <3>1 DEF InHand, Running
    <3> QED BY <1>2, <3>1, <3>2, <3>3 DEF InHand
  <2>4. InHand(t)'
    <3>1. Listed(m)
      BY <1>1, <1>3 DEF Owned
    <3>2. \A v \in Threads : thread'[v].inst = mounts[m] => v = t
      BY <1>5, <2>2
    <3>3. \A n \in Running' : mounts'[n] # mounts[m]
      BY <1>6, <3>1 DEF Listed, Running
    <3>4. x.at \notin Built /\ x.at # "spawned"
      BY <1>4 DEF Built
    <3> QED BY <1>2, <1>3, <1>4, <1>5, <3>1, <3>2, <3>3, <3>4 DEF InHand, Listed
  <2>5. ASSUME NEW i \in Instances, host'[i] = "up"
        PROVE  Owner(i)'
    <3>1. CASE i = mounts[m]
      BY <1>4, <1>5, <3>1 DEF Owner, StopSteps
    <3>2. CASE i # mounts[m]
      <4>1. Owner(i)
        BY <1>1, <1>2, <2>5 DEF Owned
      <4>2. ASSUME NEW n \in Running, mounts[n] = i
            PROVE  n \in Running' /\ mounts'[n] = i
        BY <1>6, <3>2, <4>2 DEF Running
      <4>3. ASSUME NEW u \in Threads, thread[u].at \in Hosted \cup StopSteps
            PROVE  thread'[u] = thread[u]
        BY <1>5, <1>9, <4>3
      <4> QED BY <4>1, <4>2, <4>3 DEF Owner
    <3> QED BY <3>1, <3>2
  <2>6. x.at \notin Between
    BY <1>4 DEF Between
  <2>7. x.at # "checked" /\ \A d \in Drives : caches'[d] # None => driveOf'[caches'[d]] = d
    BY <1>1, <1>2, <1>4 DEF Owned
  <2> QED BY <1>2, <1>5, <2>1, <2>3, <2>4, <2>5, <2>6, <2>7, OthersKeepOwned
<1>12. Agree'
  <2>1. ASSUME NEW u \in Callers, thread[u].at \in {"cached", "unlisted"}
        PROVE  thread'[u] = thread[u]
    BY <1>5, <1>9, <1>10, <2>1
  <2>2. ASSUME NEW n \in Running', Drive[n] \notin gone
        PROVE  caches[Drive[n]] = mounts'[n] \/ \E u \in Callers : Cached(u, n)'
    <3>1. n \in Running /\ mounts'[n] = mounts[n]
      BY <1>6 DEF Running
    <3> QED BY <1>1, <2>1, <2>2, <3>1 DEF Agree, Cached
  <2>3. ASSUME NEW d \in Drives, d \notin gone, caches[d] # None
        PROVE  \/ \E n \in Running' : mounts'[n] = caches[d]
               \/ \E u \in Callers : thread'[u].at \in {"cached", "unlisted"} /\ thread'[u].inst = caches[d]
    <3>1. CASE caches[d] = mounts[m]
      <4>1. Drive[m] = d
        BY <1>1, <1>3, <2>3, <3>1 DEF Owned, Listed
      <4>2. t \in Callers
        <5>1. ASSUME t \in Loops
              PROVE  FALSE
          <6>1. thread[t].todo \subseteq {thread[t].mount} /\ Drive[thread[t].mount] \in gone
            BY <1>1, <1>5, <5>1 DEF LoopsStopGone
          <6> QED BY <2>3, <4>1, <6>1
        <5> QED BY <5>1 DEF Threads
      <4> QED BY <1>4, <1>5, <3>1, <4>2
    <3>2. CASE caches[d] # mounts[m]
      <4>1. CASE \E n \in Running : mounts[n] = caches[d]
        <5>1. PICK n \in Running : mounts[n] = caches[d]
          BY <4>1
        <5>2. n \in Running' /\ mounts'[n] = mounts[n]
          BY <1>6, <3>2, <5>1 DEF Running
        <5> QED BY <5>1, <5>2
      <4>2. CASE \E u \in Callers : thread[u].at \in {"cached", "unlisted"} /\ thread[u].inst = caches[d]
        BY <2>1, <4>2
      <4> QED BY <1>1, <2>3, <4>1, <4>2 DEF Agree
    <3> QED BY <3>1, <3>2
  <2>4. ASSUME NEW u \in Callers, thread'[u].at = "cached"
        PROVE  thread'[u] = thread[u]
    BY <1>4, <1>5, <1>10, <2>4
  <2> QED BY <1>1, <1>2, <2>2, <2>3, <2>4 DEF Agree
<1>13. Queues'
  <2>1. \A d : Waits(d)' <=> Waits(d)
    BY <1>2 DEF Waits, NoDrop
  <2>2. ASSUME NEW n \in Running', Waits(Drive[n]), processor[mounts'[n]] = "running"
        PROVE  mounts'[n] \in queued \/ \E u \in Callers : QueuedBy(u, Drive[n])'
    <3>1. n \in Running /\ mounts'[n] = mounts[n]
      BY <1>6 DEF Running
    <3>2. \A u \in Callers : QueuedBy(u, Drive[n]) => QueuedBy(u, Drive[n])'
      BY <1>2, <1>5, <1>9, <1>10 DEF QueuedBy
    <3> QED BY <1>1, <2>2, <3>1, <3>2 DEF Queues
  <2>3. ASSUME NEW u \in Callers, thread'[u].at \in Built, Waits(Drive[thread'[u].mount]),
               mounts'[thread'[u].mount] = None, processor[thread'[u].inst] = "running"
        PROVE  thread'[u].inst \in queued
    <3>1. u # t /\ thread'[u] = thread[u]
      BY <1>4, <1>5, <1>10, <2>3 DEF Built
    <3>2. InHand(u)
      BY <1>1, <1>10, <2>3, <3>1 DEF Owned
    <3>3. CASE thread[u].mount = m
      <4>1. t \in Loops
        BY <3>1 DEF OneCaller, Threads
      <4>2. thread[t].todo \subseteq {thread[t].mount} /\ Drive[thread[t].mount] \in gone
        BY <1>1, <1>5, <4>1 DEF LoopsStopGone
      <4> QED BY <2>3, <3>1, <3>3, <4>2 DEF Waits
    <3>4. CASE thread[u].mount # m
      <4>1. mounts[thread[u].mount] = None
        BY <1>6, <2>3, <3>1, <3>2, <3>4 DEF InHand
      <4> QED BY <1>1, <2>3, <3>1, <4>1 DEF Queues
    <3> QED BY <3>3, <3>4
  <2> QED BY <1>2, <2>1, <2>2, <2>3 DEF Queues
<1> QED BY <1>7, <1>8, <1>11, <1>12, <1>13 DEF Inv

(* The drive's entry goes, and the processor is told to stop.              *)
LEMMA UncacheKeepsInv ==
  ASSUME Inv, OneCaller, NEW t \in Threads, StopUncache(t)
  PROVE  Inv'
<1> PICK x : x = Goes(t, "draining")
  OBVIOUS
<1> PICK i : i = thread[t].inst
  OBVIOUS
<1>1. /\ Types /\ Owned /\ LoopsStopGone /\ Configs /\ Agree /\ Sessions /\ Queues
      /\ mounts \in [MountIds -> 0..started] /\ caches \in [Drives -> 0..started]
  BY DEF Inv, Types
<1>2. /\ mounts' = mounts /\ started' = started /\ driveOf' = driveOf /\ host' = host
      /\ queued' = queued /\ config' = config
      /\ saved' = saved /\ gone' = gone /\ launched' = launched /\ loop' = loop
      /\ authenticated' = authenticated /\ thread[t].at = "unlisted"
      /\ Step(t, "unlisted", x)
      /\ caches' = [caches EXCEPT ![driveOf[i]] = None]
      /\ processor' = [processor EXCEPT ![i] = IF @ = "ended" THEN @ ELSE "draining"]
  BY DEF StopUncache, settings, world, At, Goes
<1>3. /\ InHand(t) /\ thread[t].mount \in MountIds
  BY <1>1, <1>2 DEF Owned, InHand, StopSteps
<1> PICK d : d = driveOf[i]
  OBVIOUS
<1>4. i \in Instances /\ d = Drive[thread[t].mount] /\ d \in Drives
  BY <1>1, <1>3, Numbers, MountsConstants DEF InHand
<1>5. /\ x \in ThreadRec(started) /\ x.at = "draining" /\ x.cmd = thread[t].cmd
      /\ x.todo = thread[t].todo /\ x.mount = thread[t].mount /\ x.inst = i
  <2>1. "draining" \in Steps
    BY DEF Steps, StopSteps
  <2> QED BY <1>1, <2>1, GoesOne
<1>6. /\ Becomes(t, x)
      /\ thread'[t] = x /\ \A u \in Threads \ {t} : thread'[u] = thread[u]
  <2>1. Becomes(t, x)
    BY <1>1, <1>2, <1>5, StepBecomes
  <2> QED BY <2>1 DEF Becomes
<1>7. /\ caches'[d] = None /\ \A e \in Drives \ {d} : caches'[e] = caches[e]
      /\ \A j \in Instances \ {i} : processor'[j] = processor[j]
  BY <1>1, <1>2, <1>4 DEF Types
<1>8. Types'
  <2>1. None \in 0..started
    BY <1>1 DEF None, Types
  <2>2. caches' \in [Drives -> 0..started]
    BY <1>1, <1>2, <2>1
  <2>3. processor' \in [Instances -> {"none", "recovering", "running", "draining", "ended"}]
    BY <1>1, <1>2 DEF Types
  <2> QED BY <1>1, <1>2, <1>6, <2>2, <2>3 DEF Types, Becomes
<1>9. \A u \in Callers : u \in Threads
  BY DEF Threads
<1>10. thread[t].at \notin Built \cup Hosted /\ x.at \notin Built \cup Hosted /\ x.at \in StopSteps
       /\ x.at \notin Between /\ thread[t].at \in StopSteps
  BY <1>2, <1>5 DEF Built, Hosted, StopSteps, Between
<1>11. t \in Callers => mounts[thread[t].mount] = None
  BY <1>1, <1>10 DEF Configs
<1>12. t \in Loops => d \in gone
  BY <1>1, <1>2, <1>4 DEF LoopsStopGone
<1>13. Configs' /\ Sessions' /\ LoopsStopGone'
  <2>1. CASE t \in Callers
    BY <1>2, <1>3, <1>5, <1>6, <1>10, <1>11, <2>1, StopKeepsSettings
  <2>2. CASE t \in Loops
    <3>1. ASSUME NEW u \in Callers
          PROVE  thread'[u] = thread[u]
      BY <1>6, <1>9, <2>2, Disjoint
    <3>2. Configs'
      BY <1>1, <1>2, <3>1 DEF Configs, Works, Removing, Running
    <3>3. Sessions'
      BY <1>1, <1>2, <3>1 DEF Sessions, Running
    <3>4. LoopsStopGone'
      BY <1>1, <1>2, <1>5, <1>6, <1>10 DEF LoopsStopGone, Threads
    <3> QED BY <3>2, <3>3, <3>4
  <2> QED BY <2>1, <2>2 DEF Threads
<1>14. Owned'
  <2>1. \A n \in Running' : Listed(n)'
    <3>1. ASSUME NEW n \in Running
          PROVE  Listed(n)'
      <4>1. Listed(n) /\ mounts[n] # i /\ mounts[n] \in Instances
        BY <1>1, <1>3, Numbers DEF Owned, InHand
      <4> QED BY <1>2, <1>7, <4>1 DEF Listed, Running
    <3> QED BY <1>2, <3>1 DEF Running
  <2>2. ASSUME NEW u \in Threads \ {t}, Holds(u)
        PROVE  InHand(u)'
    <3>1. InHand(u) /\ thread'[u] = thread[u]
      BY <1>1, <1>6, <2>2 DEF Owned, Holds
    <3>2. thread[u].inst # i /\ thread[u].inst \in Instances
      BY <1>1, <3>1, Numbers DEF InHand
    <3>3. \A v \in Threads : thread'[v].inst = thread[u].inst => v = u
      BY <1>5, <1>6, <3>1, <3>2 DEF InHand
    <3> QED BY <1>2, <1>7, <3>1, <3>2, <3>3 DEF InHand, Running
  <2>3. InHand(t)'
    <3>1. \A v \in Threads : thread'[v].inst = i => v = t
      BY <1>3, <1>5, <1>6 DEF InHand
    <3>2. x.at # "spawned" /\ host[i] = "up"
      BY <1>3, <1>5, <1>10 DEF InHand
    <3> QED BY <1>2, <1>3, <1>5, <1>6, <1>10, <3>1, <3>2 DEF InHand, Running
  <2>4. ASSUME NEW j \in Instances, host'[j] = "up"
        PROVE  Owner(j)'
    <3>1. Owner(j)
      BY <1>1, <1>2, <2>4 DEF Owned
    <3>2. ASSUME NEW u \in Threads, thread[u].at \in Hosted \cup StopSteps
          PROVE  thread'[u].at \in Hosted \cup StopSteps /\ thread'[u].inst = thread[u].inst
      BY <1>5, <1>6, <1>10, <3>2
    <3> QED BY <1>2, <3>1, <3>2 DEF Owner, Running
  <2>5. x.at # "checked" /\ \A e \in Drives : caches'[e] # None => driveOf'[caches'[e]] = e
    BY <1>1, <1>2, <1>5, <1>7 DEF Owned
  <2> QED BY <1>2, <1>6, <1>10, <2>1, <2>2, <2>3, <2>4, <2>5, OthersKeepOwned
<1>15. Agree'
  <2>1. ASSUME NEW u \in Callers, u # t
        PROVE  thread'[u] = thread[u] /\ d \in gone
    BY <1>6, <1>9, <1>12, <2>1 DEF OneCaller, Threads
  <2>2. ASSUME NEW n \in Running, Drive[n] \notin gone
        PROVE  caches'[Drive[n]] = mounts[n] \/ \E u \in Callers : Cached(u, n)'
    <3>1. Drive[n] # d
      <4> SUFFICES ASSUME Drive[n] = d
                   PROVE  FALSE
        OBVIOUS
      <4>1. t \in Callers
        BY <1>12, <2>2 DEF Threads
      <4>2. thread[t].mount = n
        BY <1>4, <1>10, <2>2, <4>1, OneMount
      <4> QED BY <1>11, <2>2, <4>1, <4>2 DEF Running
    <3>2. Drive[n] \in Drives
      BY MountsConstants DEF Running
    <3>3. \A u \in Callers : Cached(u, n) => Cached(u, n)'
      BY <1>2, <2>1 DEF Cached
    <3> QED BY <1>1, <1>7, <2>2, <3>1, <3>2, <3>3 DEF Agree
  <2>3. ASSUME NEW e \in Drives, e \notin gone, caches'[e] # None
        PROVE  \/ \E n \in Running : mounts[n] = caches'[e]
               \/ \E u \in Callers : thread'[u].at \in {"cached", "unlisted"} /\ thread'[u].inst = caches'[e]
    <3>1. e # d /\ caches'[e] = caches[e] /\ driveOf[caches[e]] = e
      BY <1>1, <1>7, <2>3 DEF Owned
    <3>2. \A u \in Callers : thread[u].inst = caches[e] => thread'[u] = thread[u]
      BY <2>1, <3>1
    <3> QED BY <1>1, <2>3, <3>1, <3>2 DEF Agree
  <2>4. ASSUME NEW u \in Callers, thread'[u].at = "cached", Drive[thread'[u].mount] \notin gone
        PROVE  caches'[Drive[thread'[u].mount]] = thread'[u].inst
    <3>1. u # t
      BY <1>5, <1>6, <2>4
    <3>2. thread'[u] = thread[u] /\ Drive[thread[u].mount] # d
      BY <2>1, <2>4, <3>1
    <3>3. InHand(u)
      BY <1>1, <1>9, <2>4, <3>2 DEF Owned, Built
    <3>4. Drive[thread[u].mount] \in Drives
      BY <3>3, MountsConstants DEF InHand
    <3> QED BY <1>1, <1>7, <2>4, <3>2, <3>4 DEF Agree
  <2> QED BY <1>2, <2>2, <2>3, <2>4 DEF Agree, Running
<1>16. Queues'
  <2>1. \A e : Waits(e)' <=> Waits(e)
    BY <1>2 DEF Waits, NoDrop
  <2>2. ASSUME NEW n \in Running, Waits(Drive[n]), processor'[mounts[n]] = "running"
        PROVE  mounts[n] \in queued \/ \E u \in Callers : QueuedBy(u, Drive[n])'
    <3>1. mounts[n] # i /\ mounts[n] \in Instances
      BY <1>1, <1>3, Numbers DEF InHand
    <3>2. \A u \in Callers : QueuedBy(u, Drive[n]) => QueuedBy(u, Drive[n])'
      BY <1>2, <1>6, <1>9, <1>10 DEF QueuedBy
    <3> QED BY <1>1, <1>7, <2>2, <3>1, <3>2 DEF Queues
  <2>3. ASSUME NEW u \in Callers, thread'[u].at \in Built, Waits(Drive[thread'[u].mount]),
               mounts[thread'[u].mount] = None, processor'[thread'[u].inst] = "running"
        PROVE  thread'[u].inst \in queued
    <3>1. u # t /\ thread'[u] = thread[u] /\ u \in Threads
      BY <1>6, <1>9, <1>10, <2>3
    <3>2. InHand(u)
      BY <1>1, <2>3, <3>1 DEF Owned
    <3>3. thread[u].inst # i /\ thread[u].inst \in Instances
      BY <1>1, <3>1, <3>2, Numbers DEF InHand
    <3> QED BY <1>1, <1>7, <2>3, <3>1, <3>3 DEF Queues
  <2> QED BY <1>2, <2>1, <2>2, <2>3 DEF Queues, Running
<1> QED BY <1>8, <1>13, <1>14, <1>15, <1>16 DEF Inv

(* The processor has ended, and what it left is flushed.                   *)
LEMMA FlushKeepsInv ==
  ASSUME Inv, OneCaller, NEW t \in Threads, StopFlush(t)
  PROVE  Inv'
<1> PICK x : x = Goes(t, "flushed")
  OBVIOUS
<1>1. /\ Types /\ Owned /\ LoopsStopGone /\ Configs /\ Agree /\ Sessions /\ Queues
  BY DEF Inv
<1>2. /\ mounts' = mounts /\ started' = started /\ driveOf' = driveOf /\ host' = host
      /\ queued' = queued /\ config' = config /\ caches' = caches /\ processor' = processor
      /\ saved' \subseteq saved /\ gone' = gone /\ launched' = launched /\ loop' = loop
      /\ authenticated' = authenticated /\ thread[t].at = "draining"
      /\ Step(t, "draining", x)
  BY DEF StopFlush, settings, world, tables, instances, At, Goes
<1>3. /\ InHand(t) /\ thread[t].mount \in MountIds
  BY <1>1, <1>2 DEF Owned, InHand, StopSteps
<1>5. /\ x \in ThreadRec(started) /\ x.at = "flushed" /\ x.cmd = thread[t].cmd
      /\ x.todo = thread[t].todo /\ x.mount = thread[t].mount /\ x.inst = thread[t].inst
  <2>1. "flushed" \in Steps
    BY DEF Steps, StopSteps
  <2> QED BY <1>1, <2>1, GoesOne
<1>6. /\ Becomes(t, x)
      /\ thread'[t] = x /\ \A u \in Threads \ {t} : thread'[u] = thread[u]
  <2>1. Becomes(t, x)
    BY <1>1, <1>2, <1>5, StepBecomes
  <2> QED BY <2>1 DEF Becomes
<1>7. /\ \A u \in Threads : thread'[u].inst = thread[u].inst /\ thread'[u].mount = thread[u].mount
           /\ thread'[u].todo = thread[u].todo /\ thread'[u].cmd = thread[u].cmd
      /\ \A u \in Threads : \/ thread'[u].at = thread[u].at
                            \/ thread[u].at = "draining" /\ thread'[u].at = "flushed"
  BY <1>2, <1>5, <1>6
<1>8. \A u \in Callers : u \in Threads
  BY DEF Threads
<1>9. Types'
  BY <1>1, <1>2, <1>6 DEF Types, Becomes
<1>10. Owned'
  <2>1. \A n \in Running' : Listed(n)'
    BY <1>1, <1>2 DEF Owned, Listed, Running
  <2>2. ASSUME NEW u \in Threads
        PROVE  /\ thread'[u].at \in Built \cup StopSteps => thread[u].at \in Built \cup StopSteps
               /\ thread'[u].at \in Built <=> thread[u].at \in Built
               /\ thread'[u].at \in Hosted <=> thread[u].at \in Hosted
               /\ thread'[u].at \in StopSteps <=> thread[u].at \in StopSteps
               /\ thread'[u].at \in Between => thread[u].at \in Between
               /\ thread'[u].at = "checked" => thread[u].at = "checked"
               /\ thread'[u].at = "spawned" => thread[u].at = "spawned"
    BY <1>7 DEF Built, Hosted, StopSteps, Between
  <2>3. ASSUME NEW u \in Threads, InHand(u)
        PROVE  InHand(u)'
    BY <1>2, <1>7, <2>2, <2>3 DEF InHand, Running
  <2>4. \A i \in Instances : Owner(i) => Owner(i)'
    BY <1>2, <1>7, <2>2 DEF Owner, Running
  <2> QED BY <1>1, <1>2, <1>7, <2>1, <2>2, <2>3, <2>4 DEF Owned
<1>11. Configs' /\ Sessions' /\ LoopsStopGone'
  <2>1. ASSUME NEW u \in Threads
        PROVE  /\ thread'[u].at \in StopSteps <=> thread[u].at \in StopSteps
               /\ thread'[u].at \in StartSteps <=> thread[u].at \in StartSteps
               /\ thread'[u].at = "stop" <=> thread[u].at = "stop"
               /\ thread'[u].at = "start" <=> thread[u].at = "start"
               /\ thread'[u].at = "idle" <=> thread[u].at = "idle"
    BY <1>7 DEF StopSteps, StartSteps
  <2>2. Configs'
    BY <1>1, <1>2, <1>7, <1>8, <2>1 DEF Configs, Works, Removing, Running
  <2>3. Sessions'
    BY <1>1, <1>2, <1>7, <1>8, <2>1 DEF Sessions, Running
  <2>4. LoopsStopGone'
    BY <1>1, <1>2, <1>7, <2>1 DEF LoopsStopGone, Threads
  <2> QED BY <2>2, <2>3, <2>4
<1>12. Agree'
  <2>1. \A u \in Threads : /\ thread'[u].at = "cached" <=> thread[u].at = "cached"
                           /\ thread'[u].at = "unlisted" <=> thread[u].at = "unlisted"
    BY <1>7
  <2> QED BY <1>1, <1>2, <1>7, <1>8, <2>1 DEF Agree, Cached, Running
<1>13. Queues'
  <2>1. \A d : Waits(d)' => Waits(d)
    BY <1>2 DEF Waits, NoDrop
  <2>2. \A u \in Threads : /\ thread'[u].at \in Hosted <=> thread[u].at \in Hosted
                           /\ thread'[u].at \in Built <=> thread[u].at \in Built
    BY <1>7 DEF Hosted, Built
  <2>3. \A d : \A u \in Callers : QueuedBy(u, d)' <=> QueuedBy(u, d)
    BY <1>2, <1>7, <1>8, <2>2 DEF QueuedBy
  <2> QED BY <1>1, <1>2, <1>7, <1>8, <2>1, <2>2, <2>3 DEF Queues, Running
<1> QED BY <1>9, <1>10, <1>11, <1>12, <1>13 DEF Inv

(* The host goes down, and the thread has nothing in its hands.            *)
LEMMA UnhostKeepsInv ==
  ASSUME Inv, OneCaller, NEW t \in Threads, StopHost(t)
  PROVE  Inv'
<1> PICK x : x = Done(t, thread[t].mount, "stop")
  OBVIOUS
<1> PICK i : i = thread[t].inst
  OBVIOUS
<1>1. /\ Types /\ Owned /\ LoopsStopGone /\ Configs /\ Agree /\ Sessions /\ Queues
  BY DEF Inv
<1>2. /\ mounts' = mounts /\ started' = started /\ driveOf' = driveOf /\ processor' = processor
      /\ queued' = queued /\ config' = config /\ caches' = caches
      /\ saved' = saved /\ gone' = gone /\ launched' = launched /\ loop' = loop
      /\ authenticated' = authenticated /\ thread[t].at = "flushed"
      /\ Step(t, "flushed", x)
      /\ host' = [host EXCEPT ![i] = "down"]
  BY DEF StopHost, settings, tables, world, At
<1>3. /\ InHand(t) /\ thread[t].mount \in MountIds
  BY <1>1, <1>2 DEF Owned, InHand, StopSteps
<1>4. i \in Instances /\ i \in 1..started
  BY <1>1, <1>3, Numbers DEF InHand
<1>5. /\ x \in ThreadRec(started) /\ x.at = "stop" /\ x.cmd = thread[t].cmd
      /\ x.todo = thread[t].todo \ {thread[t].mount} /\ x.mount = thread[t].mount /\ x.inst = None
  <2>1. "stop" \in Steps
    BY DEF Steps, Between
  <2> QED BY <1>1, <2>1, DoneOne
<1>6. /\ Becomes(t, x)
      /\ thread'[t] = x /\ \A u \in Threads \ {t} : thread'[u] = thread[u]
  <2>1. Becomes(t, x)
    BY <1>1, <1>2, <1>5, StepBecomes
  <2> QED BY <2>1 DEF Becomes
<1>7. host'[i] = "down" /\ \A j \in Instances \ {i} : host'[j] = host[j]
  BY <1>1, <1>2, <1>4 DEF Types
<1>8. Types'
  <2>1. host' \in [Instances -> {"none", "up", "down", "dropped"}]
    BY <1>1, <1>2 DEF Types
  <2>2. \A j \in Instances : j > started' => host'[j] = "none"
    <3>1. ~(i > started)
      BY <1>1, <1>4 DEF Types
    <3> QED BY <1>1, <1>2, <1>7, <3>1 DEF Types
  <2> QED BY <1>1, <1>2, <1>6, <2>1, <2>2 DEF Types, Becomes
<1>9. \A u \in Callers : u \in Threads
  BY DEF Threads
<1>10. thread[t].at \notin Built \cup Hosted /\ x.at \notin Built \cup Hosted \cup StopSteps
       /\ x.at \in Between /\ thread[t].at \in StopSteps
       /\ thread[t].at \notin {"cached", "unlisted"} /\ x.at \notin {"cached", "unlisted"}
  BY <1>2, <1>5 DEF Built, Hosted, StopSteps, Between
<1>11. t \in Callers => mounts[thread[t].mount] = None
  BY <1>1, <1>10 DEF Configs
<1>13. Configs' /\ Sessions' /\ LoopsStopGone'
  <2>1. CASE t \in Callers
    BY <1>2, <1>3, <1>5, <1>6, <1>10, <1>11, <2>1, StopKeepsSettings
  <2>2. CASE t \in Loops
    <3>1. ASSUME NEW u \in Callers
          PROVE  thread'[u] = thread[u]
      BY <1>6, <1>9, <2>2, Disjoint
    <3>2. Configs'
      BY <1>1, <1>2, <3>1 DEF Configs, Works, Removing, Running
    <3>3. Sessions'
      BY <1>1, <1>2, <3>1 DEF Sessions, Running
    <3>4. LoopsStopGone'
      BY <1>1, <1>2, <1>5, <1>6, <1>10 DEF LoopsStopGone, Threads
    <3> QED BY <3>2, <3>3, <3>4
  <2> QED BY <2>1, <2>2 DEF Threads
<1>14. Owned'
  <2>1. \A n \in Running' : Listed(n)'
    <3>1. ASSUME NEW n \in Running
          PROVE  Listed(n)'
      <4>1. Listed(n) /\ mounts[n] # i /\ mounts[n] \in Instances
        BY <1>1, <1>3, Numbers DEF Owned, InHand
      <4> QED BY <1>2, <1>7, <4>1 DEF Listed, Running
    <3> QED BY <1>2, <3>1 DEF Running
  <2>2. ASSUME NEW u \in Threads \ {t}, Holds(u)
        PROVE  InHand(u)'
    <3>1. InHand(u) /\ thread'[u] = thread[u]
      BY <1>1, <1>6, <2>2 DEF Owned, Holds
    <3>2. thread[u].inst # i /\ thread[u].inst \in Instances
      BY <1>1, <3>1, Numbers DEF InHand
    <3>3. \A v \in Threads : thread'[v].inst = thread[u].inst => v = u
      BY <1>5, <1>6, <3>1, <3>2 DEF InHand
    <3> QED BY <1>2, <1>7, <3>1, <3>2, <3>3 DEF InHand, Running
  <2>4. ASSUME NEW j \in Instances, host'[j] = "up"
        PROVE  Owner(j)'
    <3>1. Owner(j) /\ j # i
      BY <1>1, <1>7, <2>4 DEF Owned
    <3>2. ASSUME NEW u \in Threads, thread[u].inst = j
          PROVE  thread'[u] = thread[u]
      BY <1>6, <3>1, <3>2
    <3> QED BY <1>2, <3>1, <3>2 DEF Owner, Running
  <2>5. x.at # "checked" /\ \A e \in Drives : caches'[e] # None => driveOf'[caches'[e]] = e
    BY <1>1, <1>2, <1>5 DEF Owned
  <2>6. ~Holds(t)'
    BY <1>6, <1>10 DEF Holds
  <2> QED BY <1>2, <1>5, <1>6, <2>1, <2>2, <2>4, <2>5, <2>6, OthersKeepOwned
<1>15. Agree'
  <2>1. ASSUME NEW u \in Callers
        PROVE  /\ thread'[u].at \in {"cached", "unlisted"} => thread'[u] = thread[u]
               /\ thread[u].at \in {"cached", "unlisted"} => thread'[u] = thread[u]
    BY <1>6, <1>9, <1>10
  <2> QED BY <1>1, <1>2, <2>1 DEF Agree, Cached, Running
<1>16. Queues'
  <2>1. \A e : Waits(e)' => Waits(e)
    <3>1. \A j \in 1..started : host[j] = "dropped" => host'[j] = "dropped"
      <4>1. host[i] = "up"
        BY <1>3, <1>10 DEF InHand
      <4> QED BY <1>1, <1>7, <4>1, Numbers
    <3> QED BY <1>2, <3>1 DEF Waits, NoDrop
  <2>2. ASSUME NEW u \in Callers
        PROVE  /\ thread'[u].at \in Built => thread'[u] = thread[u]
               /\ thread[u].at \in Hosted => thread'[u] = thread[u]
    BY <1>6, <1>9, <1>10
  <2>3. \A d : \A u \in Callers : QueuedBy(u, d) => QueuedBy(u, d)'
    BY <1>2, <2>2 DEF QueuedBy
  <2> QED BY <1>1, <1>2, <2>1, <2>2, <2>3 DEF Queues, Running
<1> QED BY <1>8, <1>13, <1>14, <1>15, <1>16 DEF Inv

LEMMA StopKeepsInv ==
  ASSUME Inv, OneCaller, NEW t \in Threads, StopStep(t)
  PROVE  Inv'
<1>1. CASE StopUnlist(t)
  <2>1. PICK m \in thread[t].todo :
          IF mounts[m] = None THEN Step(t, "stop", Done(t, m, "stop")) /\ UNCHANGED mounts
          ELSE Step(t, "stop", Takes(t, m)) /\ mounts' = [mounts EXCEPT ![m] = None]
    BY <1>1 DEF StopUnlist, Takes
  <2>2. UNCHANGED <<settings, caches, instances, saved, loop, world, launched>>
    BY <1>1 DEF StopUnlist
  <2> QED BY <2>1, <2>2, PassKeepsInv, TakeKeepsInv
<1> QED BY <1>1, UncacheKeepsInv, FlushKeepsInv, UnhostKeepsInv DEF StopStep

-----------------------------------------------------------------------------
(* start_mount, which only a command calls.                                *)

(* A mount that is checked, or skipped.                                    *)
Checked(t, m) == [thread[t] EXCEPT !.at = "checked", !.mount = m]

LEMMA CheckKeepsInv ==
  ASSUME Inv, OneCaller, NEW t \in Callers, StartCheck(t)
  PROVE  Inv'
<1>1. /\ Types /\ Configs /\ Sessions /\ config \subseteq MountIds /\ t \in Threads
      /\ \A k, n \in config : Drive[k] = Drive[n] => k = n
      /\ {"start", "checked"} \subseteq Steps
  BY DEF Inv, Types, Configs, Steps, Between, Threads
<1>2. /\ Still /\ saved' = saved /\ gone' = gone /\ launched' = launched /\ loop' = loop
      /\ authenticated' = authenticated
  BY DEF StartCheck, Still, tables, instances, world
<1> PICK m \in thread[t].todo : \E x :
        \/ x = Checked(t, m) /\ Step(t, "start", x) /\ config' = config
        \/ x = Done(t, m, "start") /\ Step(t, "start", x)
           /\ (config' = config \/ (Drive[m] \in gone /\ config' = config \ {m}))
  BY DEF StartCheck, Checked
<1>3. PICK x :
        \/ x = Checked(t, m) /\ Step(t, "start", x) /\ config' = config
        \/ x = Done(t, m, "start") /\ Step(t, "start", x)
           /\ (config' = config \/ (Drive[m] \in gone /\ config' = config \ {m}))
  OBVIOUS
<1>4. /\ x \in ThreadRec(started) /\ x.at \in {"start", "checked"} /\ x.cmd = thread[t].cmd
      /\ x.todo \subseteq thread[t].todo /\ x.inst = None
      /\ x.at = "checked" => x.mount = m
      /\ thread[t].at = "start" /\ m \in MountIds
  <2>1. thread[t].at = "start"
    BY <1>3 DEF Step, At
  <2>2. thread[t] \in ThreadRec(started) /\ thread[t].inst = None
    BY <1>1, <2>1 DEF Types, Inv, Owned, Between
  <2>3. m \in MountIds
    BY <2>2 DEF ThreadRec
  <2>4. CASE x = Checked(t, m)
    BY <1>1, <2>1, <2>2, <2>3, <2>4 DEF Checked, ThreadRec, Mounted
  <2>5. CASE x = Done(t, m, "start")
    BY <1>1, <2>1, <2>3, <2>5, DoneOne
  <2> QED BY <1>3, <2>4, <2>5
<1>5. Becomes(t, x)
  BY <1>1, <1>2, <1>3, <1>4, StepBecomes DEF Still
<1>6. Moves(t, x)
  BY <1>4, <1>5 DEF Moves, Between
<1>7. Sessions'
  <2>1. launched' /\ mounts' = mounts
    BY <1>1, <1>2, <1>4 DEF Sessions, Still
  <2>2. ~authenticated' => \A l \in Loops : loop'[l].at = "none" \/ loop'[l].cancelled
    BY <1>1, <1>2 DEF Sessions
  <2>3. x.at # "idle" /\ thread[t].at \notin {"stop"} \cup StopSteps /\ x.at \in {"start"} \cup StartSteps
        /\ thread[t].at \in {"start"} \cup StartSteps
    BY <1>4 DEF StopSteps, StartSteps
  <2>4. x.cmd # "signOut" /\ (authenticated' \/ x.cmd = "signIn")
    BY <1>1, <1>2, <1>4, <2>3 DEF Sessions
  <2> QED BY <1>5, <2>1, <2>2, <2>3, <2>4, SettingsKeepSessions
<1>8. \A n \in MountIds :
        (n \in x.todo \/ (x.at = "checked" /\ n = x.mount)) /\ Drive[n] \notin gone => n \in config'
  <2>1. \A n \in MountIds : n \in thread[t].todo /\ Drive[n] \notin gone => n \in config
    BY <1>1 DEF Configs, Works
  <2> QED BY <1>3, <1>4, <2>1
<1>9. x.cmd # "remove"
  BY <1>1, <1>4 DEF Configs, Removing, StopSteps
<1>10. /\ config' \subseteq MountIds /\ \A k, n \in config' : Drive[k] = Drive[n] => k = n
       /\ \A n \in config : n \in config' \/ Drive[n] \in gone
  BY <1>1, <1>3
<1> QED BY <1>2, <1>6, <1>7, <1>8, <1>9, <1>10, CallerMoves

LEMMA StartKeepsSettings ==
  ASSUME Inv, OneCaller, NEW t \in Callers, NEW x, Becomes(t, x),
         config' = config, gone' = gone, authenticated' = authenticated, launched' = launched,
         loop' = loop, \A j \in 1..started : driveOf'[j] = driveOf[j],
         thread[t].at \in StartSteps, x.at \in {"start"} \cup StartSteps,
         x.cmd = thread[t].cmd, x.mount = thread[t].mount, x.todo \subseteq thread[t].todo,
         \A m \in Running' : m \in Running \/ m = thread[t].mount
  PROVE  Configs' /\ Sessions' /\ LoopsStopGone'
<1>1. /\ Configs /\ Sessions /\ LoopsStopGone
      /\ thread'[t] = x /\ \A u \in Threads \ {t} : thread'[u] = thread[u]
      /\ t \in Threads /\ \A u \in Callers : u = t
  BY DEF Inv, Becomes, OneCaller, Threads
<1>2. /\ thread[t].at \notin {"idle", "stop"} \cup StopSteps /\ x.at \notin {"idle", "stop"} \cup StopSteps
  BY DEF StartSteps, StopSteps
<1>3. Configs'
  <2>1. ASSUME NEW m \in Running', Drive[m] \notin gone
        PROVE  m \in config
    <3>1. CASE m \in Running
      BY <1>1, <2>1, <3>1 DEF Configs
    <3>2. CASE m = thread[t].mount
      BY <1>1, <2>1, <3>2 DEF Configs, Works, Running
    <3> QED BY <3>1, <3>2
  <2>2. \A m \in MountIds : Works(t, m)' => Works(t, m)
    BY <1>1, <1>2 DEF Works
  <2>3. x.cmd # "remove"
    BY <1>1, <1>2 DEF Configs, Removing
  <2> QED BY <1>1, <1>2, <2>1, <2>2, <2>3 DEF Configs
<1>4. Sessions'
  <2>1. launched
    BY <1>1, <1>2 DEF Sessions
  <2>2. (authenticated \/ x.cmd = "signIn") /\ x.cmd # "signOut"
    BY <1>1, <1>2 DEF Sessions
  <2> QED BY <1>1, <1>2, <2>1, <2>2 DEF Sessions
<1>5. LoopsStopGone'
  <2>1. \A l \in Loops : l \in Threads /\ thread'[l] = thread[l]
    BY <1>1, Disjoint DEF Threads
  <2>2. \A l \in Loops : \A r \in loop[l].rows \cup loop[l].todo : r.inst \in 1..started
    BY DEF Inv, Types, LoopRec, RowRec
  <2> QED BY <1>1, <2>1, <2>2 DEF LoopsStopGone
<1> QED BY <1>3, <1>4, <1>5

Spawns(t) == [thread[t] EXCEPT !.at = "spawned", !.inst = started + 1]

(* The new instance is in nobody else's hands.                             *)
LEMMA SpawnKeepsInv ==
  ASSUME Inv, OneCaller, NEW t \in Callers, StartSpawn(t)
  PROVE  Inv'
<1> PICK x : x = Spawns(t)
  OBVIOUS
<1> PICK i : i = started + 1
  OBVIOUS
<1>1. /\ Types /\ Owned /\ LoopsStopGone /\ Configs /\ Agree /\ Sessions /\ Queues
      /\ started \in Nat /\ MaxInstances \in Nat
      /\ t \in Threads /\ \A u \in Callers : u = t
  BY MountsConstants DEF Inv, Types, OneCaller, Threads
<1>2. /\ mounts' = mounts /\ started' = i /\ host' = host
      /\ queued' = queued /\ config' = config /\ caches' = caches
      /\ saved' = saved /\ gone' = gone /\ launched' = launched /\ loop' = loop
      /\ authenticated' = authenticated /\ thread[t].at = "checked"
      /\ thread' = [thread EXCEPT ![t] = x]
      /\ driveOf' = [driveOf EXCEPT ![i] = Drive[thread[t].mount]]
      /\ processor' = [processor EXCEPT ![i] = "recovering"]
      /\ i <= MaxInstances
  BY <1>1 DEF StartSpawn, settings, tables, world, At, Step, Spawns
<1>3. thread[t].mount \in MountIds /\ thread[t].inst = None
  BY <1>1, <1>2 DEF Owned, Between
<1>4. /\ i \in Nat /\ i \in Instances /\ i \notin 0..started /\ 0..started \subseteq 0..i
      /\ 1..started \subseteq 1..i /\ 1..started \subseteq 0..started
      /\ \A j \in Instances : j > i => j > started
      /\ \A j \in 1..i : j = i \/ j \in 1..started
  BY <1>1, <1>2 DEF Instances
<1>5. /\ x \in ThreadRec(i) /\ x.at = "spawned" /\ x.cmd = thread[t].cmd
      /\ x.todo = thread[t].todo /\ x.mount = thread[t].mount /\ x.inst = i
  <2>1. "spawned" \in Steps /\ i \in 0..i
    BY <1>4 DEF Steps, Built
  <2>2. thread[t] \in ThreadRec(started)
    BY <1>1 DEF Types
  <2> QED BY <2>1, <2>2 DEF ThreadRec, Spawns
<1>6. /\ Becomes(t, x)
      /\ thread'[t] = x /\ \A u \in Threads \ {t} : thread'[u] = thread[u]
  <2>1. \A u \in Threads : thread[u] \in ThreadRec(i)
    BY <1>1, <1>4 DEF Types, ThreadRec
  <2>2. thread = [u \in Threads |-> thread[u]]
    BY <1>1 DEF Types
  <2> QED BY <1>1, <1>2, <1>5, <2>1, <2>2 DEF Becomes
<1>7. /\ driveOf'[i] = Drive[thread[t].mount] /\ processor'[i] = "recovering" /\ host[i] = "none"
      /\ \A j \in Instances \ {i} : driveOf'[j] = driveOf[j] /\ processor'[j] = processor[j]
  BY <1>1, <1>2, <1>4 DEF Types
<1>8. Types'
  <2>1. mounts \in [MountIds -> 0..i] /\ caches \in [Drives -> 0..i]
    BY <1>1, <1>4 DEF Types
  <2>2. loop \in [Loops -> LoopRec(i)]
    <3>1. RowRec(started) \subseteq RowRec(i)
      BY <1>4 DEF RowRec
    <3>2. LoopRec(started) \subseteq LoopRec(i)
      BY <3>1 DEF LoopRec
    <3> QED BY <1>1, <3>2 DEF Types
  <2>3. /\ driveOf' = [j \in Instances |-> driveOf'[j]]
        /\ processor' \in [Instances -> {"none", "recovering", "running", "draining", "ended"}]
    BY <1>1, <1>2 DEF Types
  <2>4. \A j \in Instances : j > started' => host'[j] = "none"
    BY <1>1, <1>2, <1>4 DEF Types
  <2> QED BY <1>1, <1>2, <1>4, <1>6, <2>1, <2>2, <2>3, <2>4 DEF Types, Becomes
<1>9. \A j \in 1..started : driveOf'[j] = driveOf[j] /\ processor'[j] = processor[j] /\ j # i
  BY <1>1, <1>4, <1>7, Numbers
<1>10. /\ x.at \in Built /\ x.at \notin Between \cup StopSteps \cup Hosted \cup {"cached", "unlisted"}
       /\ thread[t].at \notin Built \cup StopSteps \cup Hosted \cup {"cached", "unlisted"}
       /\ thread[t].at \in StartSteps /\ x.at \in StartSteps
  BY <1>2, <1>5 DEF Built, Between, StopSteps, Hosted, StartSteps
<1>11. \A m \in Running : m \in MountIds /\ mounts[m] \in 1..started
  BY <1>1, Numbers
<1>12. Running' = Running
  BY <1>2 DEF Running
<1>13. Configs' /\ Sessions' /\ LoopsStopGone'
  BY <1>2, <1>5, <1>6, <1>9, <1>10, <1>12, StartKeepsSettings
<1>14. Owned'
  <2>1. \A n \in Running' : Listed(n)'
    BY <1>1, <1>2, <1>9, <1>11, <1>12 DEF Owned, Listed
  <2>2. \A u \in Threads : thread[u].inst \in 0..started
    BY <1>1 DEF Types, ThreadRec
  <2>3. ASSUME NEW u \in Threads \ {t}, Holds(u)
        PROVE  InHand(u)'
    <3>1. InHand(u) /\ thread'[u] = thread[u]
      BY <1>1, <1>6, <2>3 DEF Owned, Holds
    <3>2. thread[u].inst \in 1..started
      BY <1>1, <3>1, Numbers DEF InHand
    <3>3. \A v \in Threads : thread'[v].inst = thread[u].inst => v = u
      BY <1>5, <1>6, <1>9, <3>1, <3>2 DEF InHand
    <3> QED BY <1>2, <1>9, <1>12, <3>1, <3>2, <3>3 DEF InHand
  <2>4. InHand(t)'
    <3>1. \A v \in Threads : thread'[v].inst = i => v = t
      BY <1>4, <1>6, <2>2
    <3>2. \A n \in Running' : mounts'[n] # i
      BY <1>2, <1>9, <1>11, <1>12
    <3>3. i # None /\ processor'[i] \in Serving
      BY <1>1, <1>4, <1>7 DEF None, Serving
    <3> QED BY <1>2, <1>3, <1>5, <1>6, <1>7, <1>10, <3>1, <3>2, <3>3 DEF InHand
  <2>5. ASSUME NEW j \in Instances, host'[j] = "up"
        PROVE  Owner(j)'
    <3>1. Owner(j)
      BY <1>1, <1>2, <2>5 DEF Owned
    <3>2. ASSUME NEW u \in Threads, thread[u].at \in Hosted \cup StopSteps
          PROVE  thread'[u] = thread[u]
      BY <1>6, <1>10, <3>2
    <3> QED BY <1>2, <1>12, <3>1, <3>2 DEF Owner
  <2>6. ASSUME NEW e \in Drives, caches'[e] # None
        PROVE  driveOf'[caches'[e]] = e
    <3>1. caches[e] \in 1..started
      BY <1>1, <1>2, <2>6 DEF Types, None
    <3> QED BY <1>1, <1>2, <1>9, <2>6, <3>1 DEF Owned
  <2>7. x.at # "checked"
    BY <1>5
  <2> QED BY <1>1, <1>6, <1>9, <1>10, <2>1, <2>3, <2>4, <2>5, <2>6, <2>7, OthersKeepOwned
<1>15. Agree'
  <2>1. \A u \in Callers : /\ thread[u].at \notin {"cached", "unlisted"}
                           /\ thread'[u].at \notin {"cached", "unlisted"}
    BY <1>1, <1>6, <1>10
  <2> QED BY <1>1, <1>2, <1>12, <2>1 DEF Agree, Cached
<1>16. Queues'
  <2>1. \A e : Waits(e)' => Waits(e)
    BY <1>2, <1>4, <1>9 DEF Waits, NoDrop
  <2>2. ASSUME NEW n \in Running, Waits(Drive[n]), processor'[mounts[n]] = "running"
        PROVE  mounts[n] \in queued
    <3>1. \A u \in Callers : ~QueuedBy(u, Drive[n])
      BY <1>1, <1>10 DEF QueuedBy
    <3> QED BY <1>1, <1>9, <1>11, <2>2, <3>1 DEF Queues
  <2>3. \A u \in Callers : processor'[thread'[u].inst] # "running"
    BY <1>1, <1>5, <1>6, <1>7
  <2> QED BY <1>2, <1>12, <2>1, <2>2, <2>3 DEF Queues
<1> QED BY <1>8, <1>13, <1>14, <1>15, <1>16 DEF Inv

LEMMA HostKeepsInv ==
  ASSUME Inv, OneCaller, NEW t \in Callers, StartHost(t)
  PROVE  Inv'
<1> PICK i : i = thread[t].inst
  OBVIOUS
<1>1. /\ Types /\ Owned /\ LoopsStopGone /\ Configs /\ Agree /\ Sessions /\ Queues
      /\ t \in Threads /\ \A u \in Callers : u = t
  BY DEF Inv, OneCaller, Threads
<1> PICK x :
      /\ Step(t, "spawned", x)
      /\ \/ x = Goes(t, "hosted") /\ host' = [host EXCEPT ![i] = "up"]
         \/ x = Done(t, thread[t].mount, "start") /\ host' = host
  BY DEF StartHost, Goes
<1>2. /\ mounts' = mounts /\ started' = started /\ driveOf' = driveOf /\ processor' = processor
      /\ queued' = queued /\ config' = config /\ caches' = caches
      /\ saved' = saved /\ gone' = gone /\ launched' = launched /\ loop' = loop
      /\ authenticated' = authenticated /\ thread[t].at = "spawned"
  BY DEF StartHost, settings, tables, world, At, Step
<1>3. /\ InHand(t) /\ thread[t].mount \in MountIds
  BY <1>1, <1>2 DEF Owned, InHand, Built
<1>4. i \in Instances /\ i \in 1..started /\ host[i] = "none"
  BY <1>1, <1>2, <1>3, Numbers DEF InHand
<1>5. /\ x \in ThreadRec(started) /\ x.at \in {"hosted", "start"} /\ x.cmd = thread[t].cmd
      /\ x.todo \subseteq thread[t].todo /\ x.mount = thread[t].mount
      /\ x.at = "hosted" => x.inst = i /\ host' = [host EXCEPT ![i] = "up"]
      /\ x.at = "start" => x.inst = None /\ host' = host
  <2>1. "hosted" \in Steps /\ "start" \in Steps
    BY DEF Steps, Built, Between
  <2>2. CASE x = Goes(t, "hosted") /\ host' = [host EXCEPT ![i] = "up"]
    BY <1>1, <2>1, <2>2, GoesOne
  <2>3. CASE x = Done(t, thread[t].mount, "start") /\ host' = host
    BY <1>1, <2>1, <2>3, DoneOne
  <2> QED BY <2>2, <2>3
<1>6. /\ Becomes(t, x)
      /\ thread'[t] = x /\ \A u \in Threads \ {t} : thread'[u] = thread[u]
  <2>1. Becomes(t, x)
    BY <1>1, <1>2, <1>5, StepBecomes
  <2> QED BY <2>1 DEF Becomes
<1>7. /\ \A j \in Instances \ {i} : host'[j] = host[j]
      /\ host' \in [Instances -> {"none", "up", "down", "dropped"}]
      /\ x.at = "hosted" => host'[i] = "up"
      /\ x.at = "start" => host'[i] = "none"
  BY <1>1, <1>4, <1>5 DEF Types
<1>8. Types'
  <2>1. \A j \in Instances : j > started' => host'[j] = "none"
    <3>1. ~(i > started)
      BY <1>1, <1>4 DEF Types
    <3> QED BY <1>1, <1>2, <1>7, <3>1 DEF Types
  <2> QED BY <1>1, <1>2, <1>6, <1>7, <2>1 DEF Types, Becomes
<1>9. /\ thread[t].at \notin Between \cup StopSteps \cup Hosted \cup {"cached", "unlisted"}
      /\ thread[t].at \in StartSteps /\ thread[t].at \in Built
      /\ x.at \notin StopSteps \cup {"cached", "unlisted", "spawned", "checked"}
      /\ x.at \in {"start"} \cup StartSteps
      /\ x.at = "hosted" => x.at \in Hosted /\ x.at \in Built /\ x.at \notin Between
      /\ x.at = "start" => x.at \in Between /\ x.at \notin Built \cup Hosted
  BY <1>2, <1>5 DEF Built, Between, StopSteps, Hosted, StartSteps
<1>10. Running' = Running /\ \A m \in Running : mounts[m] \in Instances /\ mounts[m] # i
  BY <1>1, <1>2, <1>3, Numbers DEF Running, InHand
<1>11. Configs' /\ Sessions' /\ LoopsStopGone'
  BY <1>2, <1>5, <1>6, <1>9, <1>10, StartKeepsSettings
<1>12. Owned'
  <2>1. \A n \in Running' : Listed(n)'
    BY <1>1, <1>2, <1>7, <1>10 DEF Owned, Listed
  <2>2. ASSUME NEW u \in Threads \ {t}, Holds(u)
        PROVE  InHand(u)'
    <3>1. InHand(u) /\ thread'[u] = thread[u]
      BY <1>1, <1>6, <2>2 DEF Owned, Holds
    <3>2. thread[u].inst # i /\ thread[u].inst \in Instances /\ thread[u].inst # None
      BY <1>1, <3>1, Numbers DEF InHand
    <3>3. \A v \in Threads : thread'[v].inst = thread[u].inst => v = u
      BY <1>5, <1>6, <3>1, <3>2 DEF InHand
    <3> QED BY <1>2, <1>7, <1>10, <3>1, <3>2, <3>3 DEF InHand
  <2>3. ASSUME Holds(t)'
        PROVE  InHand(t)'
    <3>1. x.at = "hosted"
      BY <1>5, <1>6, <1>9, <2>3 DEF Holds
    <3>2. \A v \in Threads : thread'[v].inst = i => v = t
      BY <1>3, <1>6 DEF InHand
    <3>3. thread'[t].inst = i /\ thread'[t].mount = thread[t].mount /\ thread'[t].at # "spawned"
          /\ host'[i] = "up" /\ processor[i] \in Serving
      BY <1>3, <1>5, <1>6, <1>7, <1>9, <3>1 DEF InHand
    <3> QED BY <1>2, <1>3, <1>10, <3>2, <3>3 DEF InHand
  <2>4. ASSUME NEW j \in Instances, host'[j] = "up"
        PROVE  Owner(j)'
    <3>1. CASE j = i
      <4>1. x.at = "hosted" /\ x.at \in Hosted
        BY <1>5, <1>7, <1>9, <2>4, <3>1
      <4> QED BY <1>1, <1>5, <1>6, <3>1, <4>1 DEF Owner
    <3>2. CASE j # i
      <4>1. Owner(j)
        BY <1>1, <1>7, <2>4, <3>2 DEF Owned
      <4>2. ASSUME NEW u \in Threads, thread[u].inst = j
            PROVE  thread'[u] = thread[u]
        BY <1>6, <3>2, <4>2
      <4> QED BY <1>2, <1>10, <4>1, <4>2 DEF Owner
    <3> QED BY <3>1, <3>2
  <2>5. /\ x.at \in Between => x.inst = None
        /\ x.at # "checked" /\ \A e \in Drives : caches'[e] # None => driveOf'[caches'[e]] = e
    BY <1>1, <1>2, <1>5, <1>9 DEF Owned
  <2> QED BY <1>1, <1>2, <1>6, <2>1, <2>2, <2>3, <2>4, <2>5, OthersKeepOwned
<1>13. Agree'
  <2>1. \A u \in Callers : /\ thread[u].at \notin {"cached", "unlisted"}
                           /\ thread'[u].at \notin {"cached", "unlisted"}
    BY <1>1, <1>6, <1>9
  <2> QED BY <1>1, <1>2, <1>10, <2>1 DEF Agree, Cached
<1>14. Queues'
  <2>1. \A e : Waits(e)' => Waits(e)
    <3>1. \A j \in 1..started : host[j] = "dropped" => host'[j] = "dropped"
      BY <1>1, <1>4, <1>7, Numbers
    <3> QED BY <1>2, <3>1 DEF Waits, NoDrop
  <2>2. \A d : \A u \in Callers : ~QueuedBy(u, d)
    BY <1>1, <1>9 DEF QueuedBy
  <2>3. ASSUME NEW u \in Callers, thread'[u].at \in Built
        PROVE  /\ thread[u].at \in Built /\ thread'[u].inst = thread[u].inst
               /\ thread'[u].mount = thread[u].mount
    BY <1>1, <1>5, <1>6, <1>9, <2>3
  <2> QED BY <1>1, <1>2, <1>10, <2>1, <2>2, <2>3 DEF Queues
<1> QED BY <1>8, <1>11, <1>12, <1>13, <1>14 DEF Inv

LEMMA CacheKeepsInv ==
  ASSUME Inv, OneCaller, NEW t \in Callers, StartCache(t)
  PROVE  Inv'
<1> PICK i : i = thread[t].inst
  OBVIOUS
<1> PICK d : d = driveOf[i]
  OBVIOUS
<1> PICK x : x = Goes(t, "cached")
  OBVIOUS
<1>1. /\ Types /\ Owned /\ LoopsStopGone /\ Configs /\ Agree /\ Sessions /\ Queues
      /\ t \in Threads /\ \A u \in Callers : u = t
  BY DEF Inv, OneCaller, Threads
<1>2. /\ mounts' = mounts /\ started' = started /\ driveOf' = driveOf /\ processor' = processor
      /\ host' = host /\ queued' = queued /\ config' = config
      /\ saved' = saved /\ gone' = gone /\ launched' = launched /\ loop' = loop
      /\ authenticated' = authenticated /\ thread[t].at = "hosted"
      /\ caches' = [caches EXCEPT ![d] = i] /\ Step(t, "hosted", x)
  BY DEF StartCache, settings, instances, world, At, Goes
<1>3. /\ InHand(t) /\ thread[t].mount \in MountIds
  BY <1>1, <1>2 DEF Owned, InHand, Built
<1>4. i \in Instances /\ i \in 1..started /\ d = Drive[thread[t].mount] /\ d \in Drives
  BY <1>1, <1>3, Numbers, MountsConstants DEF InHand
<1>5. /\ x \in ThreadRec(started) /\ x.at = "cached" /\ x.cmd = thread[t].cmd
      /\ x.todo = thread[t].todo /\ x.mount = thread[t].mount /\ x.inst = i
  <2>1. "cached" \in Steps
    BY DEF Steps, Built
  <2> QED BY <1>1, <2>1, GoesOne
<1>6. /\ Becomes(t, x)
      /\ thread'[t] = x /\ \A u \in Threads \ {t} : thread'[u] = thread[u]
  <2>1. Becomes(t, x)
    BY <1>1, <1>2, <1>5, StepBecomes
  <2> QED BY <2>1 DEF Becomes
<1>7. caches'[d] = i /\ \A e \in Drives \ {d} : caches'[e] = caches[e]
  BY <1>1, <1>2, <1>4 DEF Types
<1>8. Types'
  <2>1. i \in 0..started
    BY <1>1, <1>4 DEF Types
  <2>2. caches' \in [Drives -> 0..started]
    BY <1>1, <1>2, <2>1 DEF Types
  <2> QED BY <1>1, <1>2, <1>6, <2>2 DEF Types, Becomes
<1>9. /\ thread[t].at \notin Between \cup StopSteps \cup {"cached", "unlisted"}
      /\ thread[t].at \in StartSteps /\ thread[t].at \in Hosted /\ thread[t].at \in Built
      /\ x.at \notin Between \cup StopSteps \cup {"checked", "spawned"}
      /\ x.at \in StartSteps /\ x.at \in Hosted /\ x.at \in Built
  BY <1>2, <1>5 DEF Built, Between, StopSteps, Hosted, StartSteps
<1>10. Running' = Running
  BY <1>2 DEF Running
<1>11. Configs' /\ Sessions' /\ LoopsStopGone'
  BY <1>2, <1>5, <1>6, <1>9, <1>10, StartKeepsSettings
<1>12. Owned'
  <2>1. \A n \in Running' : Listed(n)'
    BY <1>1, <1>2, <1>10 DEF Owned, Listed
  <2>2. ASSUME NEW u \in Threads
        PROVE  thread'[u].inst = thread[u].inst /\ thread'[u].mount = thread[u].mount
    BY <1>5, <1>6
  <2>3. ASSUME NEW u \in Threads \ {t}, Holds(u)
        PROVE  InHand(u)'
    <3>1. InHand(u) /\ thread'[u] = thread[u]
      BY <1>1, <1>6, <2>3 DEF Owned, Holds
    <3> QED BY <1>2, <1>10, <2>2, <3>1 DEF InHand
  <2>4. InHand(t)'
    <3>1. host[i] = "up" /\ processor[i] \in Serving
      BY <1>3, <1>9 DEF InHand
    <3> QED BY <1>2, <1>3, <1>5, <1>6, <1>9, <1>10, <2>2, <3>1 DEF InHand
  <2>5. ASSUME NEW j \in Instances, host'[j] = "up"
        PROVE  Owner(j)'
    <3>1. Owner(j)
      BY <1>1, <1>2, <2>5 DEF Owned
    <3>2. \A u \in Threads : thread[u].at \in Hosted \cup StopSteps => thread'[u].at \in Hosted \cup StopSteps
      BY <1>6, <1>9
    <3> QED BY <1>2, <1>10, <2>2, <3>1, <3>2 DEF Owner
  <2>6. \A e \in Drives : caches'[e] # None => driveOf'[caches'[e]] = e
    BY <1>1, <1>2, <1>7 DEF Owned
  <2> QED BY <1>1, <1>2, <1>6, <1>9, <2>1, <2>3, <2>4, <2>5, <2>6, OthersKeepOwned
<1>13. Agree'
  <2>1. \A u \in Callers : thread[u].at \notin {"cached", "unlisted"}
    BY <1>1, <1>9
  <2>2. ASSUME NEW n \in Running, Drive[n] \notin gone
        PROVE  caches'[Drive[n]] = mounts[n] \/ \E u \in Callers : Cached(u, n)'
    <3>1. CASE Drive[n] = d
      <4>1. thread[t].mount = n
        BY <1>4, <1>9, <2>2, <3>1, OneMount
      <4> QED BY <1>5, <1>6, <4>1 DEF Cached
    <3>2. CASE Drive[n] # d
      <4>1. Drive[n] \in Drives
        BY MountsConstants DEF Running
      <4>2. caches[Drive[n]] = mounts[n]
        BY <1>1, <2>1, <2>2 DEF Agree, Cached
      <4> QED BY <1>7, <3>2, <4>1, <4>2
    <3> QED BY <3>1, <3>2
  <2>3. ASSUME NEW e \in Drives, e \notin gone, caches'[e] # None
        PROVE  \/ \E n \in Running : mounts[n] = caches'[e]
               \/ \E u \in Callers : thread'[u].at \in {"cached", "unlisted"} /\ thread'[u].inst = caches'[e]
    <3>1. CASE e = d
      BY <1>5, <1>6, <1>7, <3>1
    <3>2. CASE e # d
      BY <1>1, <1>7, <2>1, <2>3, <3>2 DEF Agree
    <3> QED BY <3>1, <3>2
  <2>4. \A u \in Callers : caches'[Drive[thread'[u].mount]] = thread'[u].inst
    BY <1>1, <1>4, <1>5, <1>6, <1>7
  <2> QED BY <1>2, <1>10, <2>2, <2>3, <2>4 DEF Agree
<1>14. Queues'
  <2>1. \A e : Waits(e)' <=> Waits(e)
    BY <1>2 DEF Waits, NoDrop
  <2>2. \A e : \A u \in Callers : QueuedBy(u, e) => QueuedBy(u, e)'
    BY <1>1, <1>2, <1>5, <1>6, <1>9 DEF QueuedBy
  <2>3. \A u \in Callers : /\ thread[u].at \in Built /\ thread'[u].inst = thread[u].inst
                           /\ thread'[u].mount = thread[u].mount
    BY <1>1, <1>5, <1>6, <1>9
  <2> QED BY <1>1, <1>2, <1>10, <2>1, <2>2, <2>3 DEF Queues
<1> QED BY <1>8, <1>11, <1>12, <1>13, <1>14 DEF Inv

(* The thread's instance becomes the listed one; the one it replaces is    *)
(* dropped.                                                                *)
LEMMA ListKeepsInv ==
  ASSUME Inv, OneCaller, NEW t \in Callers, StartList(t)
  PROVE  Inv'
<1> PICK i : i = thread[t].inst
  OBVIOUS
<1> PICK m : m = thread[t].mount
  OBVIOUS
<1> PICK x : x = Done(t, m, "start")
  OBVIOUS
<1>1. /\ Types /\ Owned /\ LoopsStopGone /\ Configs /\ Agree /\ Sessions /\ Queues
      /\ t \in Threads /\ \A u \in Callers : u = t
  BY DEF Inv, OneCaller, Threads
<1>2. /\ caches' = caches /\ started' = started /\ driveOf' = driveOf /\ processor' = processor
      /\ queued' = queued /\ config' = config
      /\ saved' = saved /\ gone' = gone /\ launched' = launched /\ loop' = loop
      /\ authenticated' = authenticated /\ thread[t].at = "cached"
      /\ mounts' = [mounts EXCEPT ![m] = i] /\ Step(t, "cached", x)
      /\ host' = [j \in Instances |-> IF j = mounts[m] THEN "dropped" ELSE host[j]]
  BY DEF StartList, settings, world, At
<1>3. /\ InHand(t) /\ m \in MountIds
  BY <1>1, <1>2 DEF Owned, InHand, Built
<1>4. /\ i \in Instances /\ i \in 1..started /\ i # None /\ driveOf[i] = Drive[m] /\ Drive[m] \in Drives
      /\ host[i] = "up" /\ processor[i] \in Serving
  BY <1>1, <1>2, <1>3, Numbers, MountsConstants DEF InHand, Hosted, Built
<1>5. /\ x \in ThreadRec(started) /\ x.at = "start" /\ x.cmd = thread[t].cmd
      /\ x.todo \subseteq thread[t].todo /\ x.mount = m /\ x.inst = None
  <2>1. "start" \in Steps
    BY DEF Steps, Between
  <2> QED BY <1>1, <2>1, DoneOne
<1>6. /\ Becomes(t, x)
      /\ thread'[t] = x /\ \A u \in Threads \ {t} : thread'[u] = thread[u]
  <2>1. Becomes(t, x)
    BY <1>1, <1>2, <1>5, StepBecomes
  <2> QED BY <2>1 DEF Becomes
<1>7. /\ mounts'[m] = i /\ \A n \in MountIds \ {m} : mounts'[n] = mounts[n]
      /\ \A j \in Instances : host'[j] = IF j = mounts[m] THEN "dropped" ELSE host[j]
  BY <1>1, <1>2, <1>3 DEF Types
<1>8. Types'
  <2>1. i \in 0..started
    BY <1>1, <1>4 DEF Types
  <2>2. mounts' \in [MountIds -> 0..started] /\ mounts[m] \in 0..started
    BY <1>1, <1>2, <1>3, <2>1 DEF Types
  <2>3. host' \in [Instances -> {"none", "up", "down", "dropped"}]
    BY <1>1, <1>2 DEF Types
  <2>4. \A j \in Instances : j > started' => host'[j] = "none"
    <3>1. ~(mounts[m] > started)
      BY <1>1, <2>2 DEF Types
    <3> QED BY <1>1, <1>2, <1>7, <3>1 DEF Types
  <2> QED BY <1>1, <1>2, <1>6, <2>2, <2>3, <2>4 DEF Types, Becomes
<1>9. /\ thread[t].at \notin Between \cup StopSteps \cup {"unlisted"}
      /\ thread[t].at \in StartSteps
      /\ x.at \notin StopSteps \cup Hosted \cup Built \cup {"checked", "spawned", "cached", "unlisted"}
      /\ x.at \in Between
  BY <1>2, <1>5 DEF Built, Between, StopSteps, Hosted, StartSteps
<1>10. /\ \A n \in Running' : n # m => n \in Running /\ mounts'[n] = mounts[n]
       /\ \A n \in Running : n # m => n \in Running' /\ mounts'[n] = mounts[n]
       /\ m \in Running'
       /\ \A n \in Running : mounts[n] # i /\ mounts[n] \in Instances
  BY <1>1, <1>3, <1>4, <1>7, Numbers DEF Running, InHand
<1>11. Configs' /\ Sessions' /\ LoopsStopGone'
  <2>1. \A n \in Running' : n \in Running \/ n = thread[t].mount
    BY <1>10
  <2>2. \A j \in 1..started : driveOf'[j] = driveOf[j]
    BY <1>2
  <2> QED BY <1>2, <1>5, <1>6, <1>9, <2>1, <2>2, StartKeepsSettings
<1>12. Owned'
  <2>1. ASSUME NEW n \in Running'
        PROVE  Listed(n)'
    <3>1. CASE n = m
      <4>1. mounts[m] # i
        <5>1. CASE m \in Running
          BY <1>10, <5>1
        <5>2. CASE m \notin Running
          BY <1>3, <1>4, <5>2 DEF Running
        <5> QED BY <5>1, <5>2
      <4>2. \A k \in Running' : mounts'[k] = i => k = m
        BY <1>10
      <4> QED BY <1>2, <1>4, <1>7, <3>1, <4>1, <4>2 DEF Listed
    <3>2. CASE n # m
      <4>1. n \in Running /\ mounts'[n] = mounts[n] /\ Listed(n)
        BY <1>1, <1>10, <2>1, <3>2 DEF Owned
      <4>2. mounts[n] # mounts[m]
        <5>1. CASE m \in Running
          BY <3>2, <4>1, <5>1 DEF Listed
        <5>2. CASE m \notin Running
          BY <1>3, <4>1, <5>2 DEF Running
        <5> QED BY <5>1, <5>2
      <4>3. \A k \in Running' : mounts'[k] = mounts[n] => k = n
        BY <1>7, <1>10, <4>1 DEF Listed
      <4> QED BY <1>2, <1>7, <1>10, <4>1, <4>2, <4>3 DEF Listed
    <3> QED BY <3>1, <3>2
  <2>2. ASSUME NEW u \in Threads \ {t}, Holds(u)
        PROVE  InHand(u)'
    <3>1. InHand(u) /\ thread'[u] = thread[u]
      BY <1>1, <1>6, <2>2 DEF Owned, Holds
    <3>2. thread[u].inst # i /\ thread[u].inst \in Instances /\ thread[u].inst # None
      BY <1>1, <3>1, Numbers DEF InHand
    <3>3. \A v \in Threads : thread'[v].inst = thread[u].inst => v = u
      BY <1>5, <1>6, <3>1, <3>2 DEF InHand
    <3>4. \A n \in Running' : mounts'[n] # thread[u].inst
      BY <1>7, <1>10, <3>1, <3>2 DEF InHand
    <3>5. thread[u].inst # mounts[m]
      <4>1. m \in Running => mounts[m] # thread[u].inst
        BY <3>1 DEF InHand
      <4> QED BY <1>3, <3>2, <4>1 DEF Running
    <3> QED BY <1>2, <1>7, <3>1, <3>2, <3>3, <3>4, <3>5 DEF InHand
  <2>3. ~Holds(t)'
    BY <1>6, <1>9 DEF Holds
  <2>4. ASSUME NEW j \in Instances, host'[j] = "up"
        PROVE  Owner(j)'
    <3>1. j # mounts[m] /\ Owner(j)
      BY <1>1, <1>7, <2>4 DEF Owned
    <3>2. CASE j = i
      BY <1>7, <1>10, <3>2 DEF Owner
    <3>3. CASE j # i
      <4>1. ASSUME NEW u \in Threads, thread[u].inst = j
            PROVE  thread'[u] = thread[u]
        BY <1>6, <3>3, <4>1
      <4>2. ASSUME NEW n \in Running, mounts[n] = j
            PROVE  n \in Running' /\ mounts'[n] = j
        BY <1>10, <3>1, <4>2
      <4> QED BY <3>1, <4>1, <4>2 DEF Owner
    <3> QED BY <3>2, <3>3
  <2>5. \A e \in Drives : caches'[e] # None => driveOf'[caches'[e]] = e
    BY <1>1, <1>2 DEF Owned
  <2> QED BY <1>1, <1>2, <1>5, <1>6, <1>9, <2>1, <2>2, <2>3, <2>4, <2>5, OthersKeepOwned
<1>13. Agree'
  <2>1. Drive[m] \notin gone => caches[Drive[m]] = i
    BY <1>1, <1>2 DEF Agree
  <2>2. ASSUME NEW n \in Running', Drive[n] \notin gone
        PROVE  caches[Drive[n]] = mounts'[n]
    <3>1. CASE n = m
      BY <1>7, <2>1, <2>2, <3>1
    <3>2. CASE n # m
      <4>1. \A u \in Callers : ~Cached(u, n)
        BY <1>1, <3>2 DEF Cached
      <4> QED BY <1>1, <1>10, <2>2, <3>2, <4>1 DEF Agree
    <3> QED BY <3>1, <3>2
  <2>3. ASSUME NEW e \in Drives, e \notin gone, caches[e] # None
        PROVE  \E n \in Running' : mounts'[n] = caches[e]
    <3>1. CASE e = Drive[m]
      BY <1>7, <1>10, <2>1, <2>3, <3>1
    <3>2. CASE e # Drive[m]
      <4>1. driveOf[caches[e]] = e
        BY <1>1, <2>3 DEF Owned
      <4>2. \A u \in Callers : thread[u].inst # caches[e]
        BY <1>1, <1>4, <3>2, <4>1
      <4>3. PICK n \in Running : mounts[n] = caches[e]
        BY <1>1, <2>3, <4>2 DEF Agree
      <4>4. n # m
        BY <1>1, <3>2, <4>1, <4>3 DEF Owned, Listed
      <4> QED BY <1>10, <4>3, <4>4
    <3> QED BY <3>1, <3>2
  <2>4. \A u \in Callers : thread'[u].at # "cached"
    BY <1>1, <1>6, <1>9
  <2> QED BY <1>2, <2>2, <2>3, <2>4 DEF Agree
<1>14. Queues'
  <2>1. ASSUME NEW e, Waits(e)'
        PROVE  Waits(e) /\ (m \in Running => Drive[m] # e)
    <3>1. e \in saved /\ e \notin gone
      BY <1>2, <2>1 DEF Waits
    <3>2. \A j \in 1..started : driveOf[j] = e => host'[j] # "dropped"
      BY <1>2, <2>1 DEF Waits, NoDrop
    <3>3. NoDrop(e)
      BY <1>1, <1>7, <3>2, Numbers DEF NoDrop
    <3>4. m \in Running => Drive[m] # e
      <4>1. m \in Running => /\ mounts[m] \in 1..started /\ mounts[m] \in Instances
                             /\ driveOf[mounts[m]] = Drive[m]
        BY <1>1, Numbers DEF Owned, Listed
      <4>2. m \in Running => host'[mounts[m]] = "dropped"
        BY <1>7, <4>1
      <4> QED BY <3>2, <4>1, <4>2
    <3> QED BY <3>1, <3>3, <3>4 DEF Waits
  <2>2. ASSUME NEW n \in Running', Waits(Drive[n])', processor[mounts'[n]] = "running"
        PROVE  mounts'[n] \in queued
    <3>1. CASE n = m
      <4>1. Waits(Drive[m]) /\ mounts[m] = None
        BY <1>3, <2>1, <2>2, <3>1 DEF Running
      <4>2. thread[t].at \in Built
        BY <1>2 DEF Built
      <4> QED BY <1>1, <1>7, <2>2, <3>1, <4>1, <4>2 DEF Queues
    <3>2. CASE n # m
      <4>1. n \in Running /\ mounts'[n] = mounts[n] /\ Waits(Drive[n])
        BY <1>10, <2>1, <2>2, <3>2
      <4>2. \A u \in Callers : ~QueuedBy(u, Drive[n])
        <5> SUFFICES ASSUME Drive[m] = Drive[n]
                     PROVE  FALSE
          BY <1>1, <1>4 DEF QueuedBy
        <5>1. Drive[n] \notin gone
          BY <4>1 DEF Waits
        <5> QED BY <1>9, <3>2, <4>1, <5>1, OneMount
      <4> QED BY <1>1, <2>2, <4>1, <4>2 DEF Queues
    <3> QED BY <3>1, <3>2
  <2>3. \A u \in Callers : thread'[u].at \notin Built
    BY <1>1, <1>6, <1>9
  <2> QED BY <1>2, <2>2, <2>3 DEF Queues
<1> QED BY <1>8, <1>11, <1>12, <1>13, <1>14 DEF Inv

LEMMA StartKeepsInv ==
  ASSUME Inv, OneCaller, NEW t \in Threads, StartStep(t)
  PROVE  Inv'
<1>1. thread[t].at \in {"start"} \cup StartSteps
  BY DEF StartStep, StartCheck, StartSpawn, StartHost, StartCache, StartList, Step, At, StartSteps
<1>2. t \in Callers
  BY <1>1 DEF Inv, LoopsStopGone, Threads, StartSteps, StopSteps
<1> QED BY <1>2, CheckKeepsInv, SpawnKeepsInv, HostKeepsInv, CacheKeepsInv, ListKeepsInv DEF StartStep

-----------------------------------------------------------------------------
(* The invariant.                                                          *)

LEMMA InitInv == Init => Inv
<1> SUFFICES ASSUME Init
             PROVE  Inv
  OBVIOUS
<1>1. /\ started = 0 /\ MaxInstances \in Nat /\ None \in 0..started /\ None = 0
      /\ mounts = [m \in MountIds |-> None] /\ caches = [d \in Drives |-> None]
      /\ host = [i \in Instances |-> "none"] /\ processor = [i \in Instances |-> "none"]
      /\ thread = [t \in Threads |-> Idle] /\ loop = [l \in Loops |-> NoLoop]
      /\ config \subseteq MountIds /\ \A m, n \in config : Drive[m] = Drive[n] => m = n
      /\ authenticated = FALSE /\ launched = FALSE
  BY MountsConstants DEF Init, None
<1>2. /\ Idle \in ThreadRec(started) /\ Idle.at = "idle" /\ Idle.cmd = "none"
      /\ Idle.todo = {} /\ Idle.mount = NoMount /\ Idle.inst = None
  BY <1>1 DEF Idle, ThreadRec, Steps, Between, Commands, Mounted
<1>3. NoLoop \in LoopRec(started) /\ NoLoop.rows = {} /\ NoLoop.todo = {} /\ NoLoop.at = "none"
  BY DEF NoLoop, LoopRec
<1>4. Types
  <2>1. driveOf = [i \in Instances |-> driveOf[i]]
    BY DEF Init
  <2> QED BY <1>1, <1>2, <1>3, <2>1 DEF Types
<1>5. /\ Running = {} /\ \A t \in Threads : thread[t] = Idle
      /\ \A t \in Callers : thread[t] = Idle
      /\ \A l \in Loops : loop[l] = NoLoop /\ thread[l] = Idle
      /\ \A d \in Drives : caches[d] = None
  BY <1>1 DEF Running, Threads
<1>6. "idle" \notin Built \cup StopSteps \cup StartSteps \cup Hosted
  BY DEF Built, StopSteps, StartSteps, Hosted
<1>7. Owned
  BY <1>1, <1>2, <1>5, <1>6 DEF Owned
<1>8. LoopsStopGone
  BY <1>2, <1>3, <1>5 DEF LoopsStopGone
<1>9. Configs
  BY <1>1, <1>2, <1>5, <1>6 DEF Configs, Works
<1>10. Agree /\ Sessions
  BY <1>1, <1>2, <1>3, <1>5, <1>6 DEF Agree, Sessions
<1>11. Queues
  BY <1>2, <1>5, <1>6 DEF Queues
<1> QED BY <1>4, <1>7, <1>8, <1>9, <1>10, <1>11 DEF Inv

LEMMA StepKeepsInv == OneCaller /\ Inv /\ [Next]_vars => Inv'
<1> SUFFICES ASSUME OneCaller, Inv, [Next]_vars
             PROVE  Inv'
  OBVIOUS
<1>1. CASE UNCHANGED vars
  <2>1. /\ config' = config /\ authenticated' = authenticated /\ mounts' = mounts /\ caches' = caches
        /\ started' = started /\ driveOf' = driveOf /\ host' = host /\ processor' = processor
        /\ queued' = queued /\ saved' = saved /\ thread' = thread /\ loop' = loop
        /\ gone' = gone /\ launched' = launched
    BY <1>1 DEF vars, settings, tables, instances, world
  <2>2. Types' /\ LoopsStopGone'
    BY <2>1 DEF Inv, Types, LoopsStopGone
  <2>3. Owned'
    BY <2>1 DEF Inv, Owned, Listed, InHand, Owner, Running
  <2>4. Configs' /\ Agree' /\ Sessions'
    BY <2>1 DEF Inv, Configs, Works, Removing, Agree, Cached, Sessions, Running
  <2>5. Queues'
    BY <2>1 DEF Inv, Queues, Waits, NoDrop, QueuedBy, Running
  <2> QED BY <2>2, <2>3, <2>4, <2>5 DEF Inv
<1>2. ASSUME NEW t \in Threads, StopStep(t) \/ StartStep(t)
      PROVE  Inv'
  BY <1>2, StopKeepsInv, StartKeepsInv
<1>3. ASSUME NEW t \in Callers, Launch(t) \/ Command(t) \/ CommandEnds(t)
      PROVE  Inv'
  BY <1>3, LaunchKeepsInv, CommandKeepsInv, CommandEndKeepsInv
<1>4. ASSUME NEW l \in Loops, LoopStep(l)
      PROVE  Inv'
  BY <1>4, LoopKeepsInv, TickKeepsInv DEF LoopStep
<1>5. ASSUME NEW i \in Instances, ProcessorStep(i) \/ Save(i)
      PROVE  Inv'
  <2>1. Types' /\ Owned' /\ LoopsStopGone' /\ Configs' /\ Agree' /\ Sessions'
    BY <1>5, ProcessorKeepsInv
  <2>2. Queues'
    BY <1>5, RecoverKeepsQueues, LeavingKeepsQueues, SaveKeepsQueues DEF ProcessorStep
  <2> QED BY <2>1, <2>2 DEF Inv
<1>6. CASE DriveDeleted
  BY <1>6, DriveDeletedKeepsInv
<1> QED BY <1>1, <1>2, <1>3, <1>4, <1>5, <1>6 DEF Next

LEMMA InvAlways ==
  ASSUME OneCaller
  PROVE  Spec => []Inv
<1>1. Inv /\ [Next]_vars => Inv'
  BY StepKeepsInv
<1> QED BY InitInv, <1>1, PTL DEF Spec

(* With no thread at work every host that is up is a listed one.           *)
LEMMA QuietOwned ==
  ASSUME Inv, Quiet
  PROVE  /\ \A t \in Threads : thread[t].at \notin Hosted \cup StopSteps \cup {"cached", "unlisted"}
         /\ \A i \in Instances : host[i] = "up" => \E m \in Running : mounts[m] = i
<1>1. \A t \in Threads : thread[t].at \notin Hosted \cup StopSteps \cup {"cached", "unlisted"}
  BY DEF Quiet, At, Hosted, StopSteps
<1> QED BY <1>1 DEF Inv, Owned, Owner

LEMMA InvUnmounted == Inv => SignedOutIsUnmounted
<1> SUFFICES ASSUME Inv, Quiet, ~authenticated
             PROVE  /\ Running = {} /\ \A i \in Instances : host[i] # "up"
                    /\ \A l \in Loops : loop[l].at = "none" \/ loop[l].cancelled
  BY DEF SignedOutIsUnmounted
<1>1. \A t \in Callers : thread[t].cmd = "none"
  BY DEF Inv, Sessions, Quiet, At, Threads
<1>2. Running = {}
  BY <1>1 DEF Inv, Sessions
<1> QED BY <1>2, QuietOwned DEF Inv, Sessions

LEMMA InvAgree == Inv => TablesAgree
<1> SUFFICES ASSUME Inv, Quiet, gone = {}
             PROVE  /\ \A m \in Running : caches[Drive[m]] = mounts[m] /\ host[mounts[m]] = "up"
                    /\ \A d \in Drives : caches[d] # None => \E m \in Running : mounts[m] = caches[d]
                    /\ \A i \in Instances : host[i] = "up" => \E m \in Running : mounts[m] = i
  BY DEF TablesAgree
<1>1. \A t \in Callers : thread[t].at \notin {"cached", "unlisted"}
  BY QuietOwned DEF Threads
<1>2. \A m \in Running : caches[Drive[m]] = mounts[m]
  BY <1>1 DEF Inv, Agree, Cached
<1>3. \A m \in Running : host[mounts[m]] = "up"
  BY DEF Inv, Owned, Listed
<1>4. \A d \in Drives : caches[d] # None => \E m \in Running : mounts[m] = caches[d]
  BY <1>1 DEF Inv, Agree
<1> QED BY <1>2, <1>3, <1>4, QuietOwned

LEMMA InvQueued == Inv => SavedIsQueued
<1> SUFFICES ASSUME Inv, NEW m \in Running, Drive[m] \in saved \ gone,
                    processor[mounts[m]] = "running",
                    \A i \in 1..started : driveOf[i] = Drive[m] => host[i] # "dropped"
             PROVE  \E i \in queued : driveOf[i] = Drive[m] /\ processor[i] \in {"recovering", "running"}
  BY DEF SavedIsQueued
<1>1. Waits(Drive[m])
  BY DEF Waits, NoDrop
<1>2. CASE mounts[m] \in queued
  BY <1>2 DEF Inv, Owned, Listed
<1>3. ASSUME NEW t \in Callers, QueuedBy(t, Drive[m])
      PROVE  \E i \in queued : driveOf[i] = Drive[m] /\ processor[i] \in {"recovering", "running"}
  <2>1. t \in Threads /\ thread[t].at \in Built
    BY <1>3 DEF QueuedBy, Hosted, Built, Threads
  <2>2. processor[thread[t].inst] \in Serving
    BY <2>1 DEF Inv, Owned, InHand
  <2> QED BY <1>3, <2>2 DEF QueuedBy, Serving
<1> QED BY <1>1, <1>2, <1>3 DEF Inv, Queues

(* Sign-out leaves nothing mounted, whatever was mounted and by whom: no   *)
(* listed mount, no host that serves, no delta loop that begins a round.   *)
(* sign_out, logout_cleanup and stop_all_mounts unmount what AppState has, *)
(* and no later command mounts without a session.                          *)
THEOREM SignOutAlwaysUnmounts ==
  ASSUME OneCaller
  PROVE  Spec => []SignedOutIsUnmounted
BY InvAlways, InvUnmounted, PTL

(* Between commands the two tables of AppState name the same instances,    *)
(* which are the ones that serve, as long as no drive is deleted.          *)
THEOREM TablesAlwaysAgree ==
  ASSUME OneCaller
  PROVE  Spec => []TablesAgree
BY InvAlways, InvAgree, PTL

(* A save that is not uploaded waits in a queue of its drive, at every     *)
(* moment of every start and stop.                                         *)
THEOREM SavesAlwaysQueued ==
  ASSUME OneCaller
  PROVE  Spec => []SavedIsQueued
BY InvAlways, InvQueued, PTL
================================================================================
