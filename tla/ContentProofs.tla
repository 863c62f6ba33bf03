----------------------------- MODULE ContentProofs -----------------------------
(***************************************************************************)
(* Theorems about the contents in the disk cache.                          *)
(*                                                                         *)
(* The first part is about ContentCache, the entry of one file: that eTags,*)
(* contents and what is loaded agree, for any number of readers, revisions *)
(* and restarts, as long as no two threads overlap at the entry.           *)
(*                                                                         *)
(* The second is about OfflinePins, for any tree of folders and files, any *)
(* pins in it and any number of downloads, evictions, listings, remote     *)
(* changes and restarts: no eviction takes what a download has kept, and   *)
(* the query of health() finds every file, until a download severs the     *)
(* rows.                                                                   *)
(*                                                                         *)
(* The two components share this module and nothing else: each theorem     *)
(* speaks of the variables and the constants of one of them.               *)
(***************************************************************************)
EXTENDS ContentCache, OfflinePins, TLAPS

------------------------------------------------------------------------------
(* The entry of a file                                                     *)

(* Steps between the look-up or download of an entry and its end.          *)
Slow == {"comparing", "putting", "putting row"}
SlowTask == {"putting", "putting row"}
InEntry(r) == thread[r].step \in Slow
TaskInEntry(r) == task[r].step \in SlowTask

(* Versions the server has had by the time it is at n, and None.           *)
UpTo(n) == None..n

Steps == {"idle", "asking", "offline", "checking", "missed", "dropping", "dropping row",
          "loaded"} \cup Slow
Threads(n) ==
  [step : Steps, opening : BOOLEAN, content : BOOLEAN, item : UpTo(n), got : UpTo(n)]
TaskSteps == {"none", "downloading", "clearing"} \cup SlowTask
Tasks(n) == [step : TaskSteps, content : UpTo(n), tag : UpTo(n)]

DeltaPhases == {"idle", "comparing", "dropping", "dropping row", "storing", "applying"}
Deltas(n) == [step : DeltaPhases, etag : UpTo(n), token : UpTo(n)]

(* Nothing anybody knows of is newer than the server.                      *)
TypesAt(n) ==
  /\ n \in Int /\ n >= 0
  /\ memory \subseteq UpTo(n) /\ sqlite \subseteq UpTo(n) /\ sqlite # {}
  /\ file \subseteq UpTo(n) /\ row \subseteq UpTo(n)
  /\ thread \in [Readers -> Threads(n)] /\ task \in [Readers -> Tasks(n)]
  /\ delta \in Deltas(n)
Types == TypesAt(server)

(* One thread at most is at the entry.                                     *)
Alone ==
  \A r, s \in Readers : /\ InEntry(r) /\ InEntry(s) => r = s
                        /\ TaskInEntry(r) /\ TaskInEntry(s) => r = s
                        /\ ~(InEntry(r) /\ TaskInEntry(s))

(* What a thread holds is no older than the eTag of the entry it will be   *)
(* compared with or put over, and than the eTag it will be put under.      *)
FreshThread(t, stored, etags) ==
  /\ t.step = "comparing" => \A e \in etags : e <= t.got
  /\ t.step = "putting" => t.item <= t.got /\ \A e \in etags : e <= t.got
  /\ t.step = "putting row" => t.item <= t.got /\ \A v \in stored : v = t.got
  /\ t.step = "loaded" => t.item <= t.got
FreshTask(k, stored, etags) ==
  /\ k.step = "putting" => k.tag <= k.content /\ \A e \in etags : e <= k.content
  /\ k.step = "putting row" => k.tag <= k.content /\ \A v \in stored : v = k.content
Fresh ==
  \A r \in Readers : FreshThread(thread[r], file, row) /\ FreshTask(task[r], file, row)

Entry == Alone /\ Fresh /\ TagNotNewer
Inv == Types /\ (~overlapped => Entry)

-----------------------------------------------------------------------------
(* The entry.                                                              *)

(* A step that at most drops the file or the row, and brings nobody to the *)
(* entry.                                                                  *)
Quiet ==
  /\ file' \subseteq file /\ row' \subseteq row
  /\ \A r \in Readers : \/ thread'[r] = thread[r]
                        \/ /\ thread'[r].step \notin Slow
                           /\ thread'[r].step = "loaded" => thread'[r].item <= thread'[r].got
  /\ \A r \in Readers : task'[r] = task[r] \/ task'[r].step \notin SlowTask

LEMMA QuietKeepsEntry ==
  ASSUME Entry, Quiet, ~overlapped
  PROVE  Entry'
<1>1. Alone'
  BY DEF Entry, Alone, Quiet, InEntry, TaskInEntry
<1>2. \A e \in row, v \in file : e <= v
  BY DEF Entry, TagNotNewer
<1>3. TagNotNewer'
  BY <1>2 DEF Quiet, TagNotNewer
<1>4. ASSUME NEW r \in Readers
      PROVE  FreshThread(thread'[r], file', row') /\ FreshTask(task'[r], file', row')
  <2>1. FreshThread(thread[r], file, row) /\ FreshTask(task[r], file, row)
    BY DEF Entry, Fresh
  <2>2. FreshThread(thread'[r], file', row')
    BY <2>1 DEF Quiet, FreshThread, Slow
  <2>3. FreshTask(task'[r], file', row')
    BY <2>1 DEF Quiet, FreshTask, SlowTask
  <2> QED BY <2>2, <2>3
<1> QED BY <1>1, <1>3, <1>4 DEF Entry, Fresh

LEMMA BusyMeans == Busy <=> \E r \in Readers : InEntry(r) \/ TaskInEntry(r)
<1>1. \A r \in Readers : InEntry(r) => Busy
  BY Zenon DEF Busy, InEntry, Slow
<1>2. \A r \in Readers : TaskInEntry(r) => Busy
  BY Zenon DEF Busy, TaskInEntry, SlowTask
<1>3. Busy => \E r \in Readers : InEntry(r) \/ TaskInEntry(r)
  BY Zenon DEF Busy, InEntry, TaskInEntry, Slow, SlowTask
<1> QED BY <1>1, <1>2, <1>3

(* A reader comes to an entry where nobody is.                             *)
LEMMA ReaderEnters ==
  ASSUME Entry, NEW r \in Readers, ~Busy, UNCHANGED <<file, row, task>>,
         \A s \in Readers \ {r} : thread'[s] = thread[s],
         FreshThread(thread'[r], file, row), ~overlapped
  PROVE  Entry'
<1>1. \A s \in Readers : ~InEntry(s) /\ ~TaskInEntry(s)
  BY BusyMeans
<1>2. Alone'
  BY <1>1 DEF Alone, InEntry, TaskInEntry
<1>3. TagNotNewer'
  BY DEF Entry, TagNotNewer
<1>4. Fresh'
  <2> SUFFICES ASSUME NEW s \in Readers
               PROVE  FreshThread(thread'[s], file', row') /\ FreshTask(task'[s], file', row')
    BY DEF Fresh
  <2>1. FreshThread(thread[s], file, row) /\ FreshTask(task[s], file, row)
    BY DEF Entry, Fresh
  <2>2. thread'[s] = thread[s] \/ s = r
    OBVIOUS
  <2> QED BY <2>1, <2>2
<1> QED BY <1>2, <1>3, <1>4 DEF Entry

LEMMA TaskEnters ==
  ASSUME Entry, NEW r \in Readers, ~Busy, UNCHANGED <<file, row, thread>>,
         \A s \in Readers \ {r} : task'[s] = task[s],
         FreshTask(task'[r], file, row), ~overlapped
  PROVE  Entry'
<1>1. \A s \in Readers : ~InEntry(s) /\ ~TaskInEntry(s)
  BY BusyMeans
<1>2. Alone'
  BY <1>1 DEF Alone, InEntry, TaskInEntry
<1>3. TagNotNewer'
  BY DEF Entry, TagNotNewer
<1>4. Fresh'
  BY DEF Entry, Fresh, FreshTask, FreshThread
<1> QED BY <1>2, <1>3, <1>4 DEF Entry

(* The reader that is at the entry goes on with it.                        *)
LEMMA ReaderGoesOn ==
  ASSUME Entry, NEW r \in Readers, InEntry(r), UNCHANGED task,
         \A s \in Readers \ {r} : thread'[s] = thread[s],
         FreshThread(thread'[r], file', row'),
         \A e \in row', v \in file' : e <= v, ~overlapped
  PROVE  Entry'
<1>1. \A s \in Readers : (s # r => ~InEntry(s)) /\ ~TaskInEntry(s)
  BY DEF Entry, Alone
<1>2. Alone'
  BY <1>1 DEF Alone, InEntry, TaskInEntry
<1>3. TagNotNewer'
  BY DEF TagNotNewer
<1>4. ASSUME NEW s \in Readers
      PROVE  FreshThread(thread'[s], file', row') /\ FreshTask(task'[s], file', row')
  <2>1. FreshThread(thread[s], file, row)
    BY DEF Entry, Fresh
  <2>2. FreshTask(task'[s], file', row')
    BY <1>1 DEF TaskInEntry, FreshTask, SlowTask
  <2>3. s # r => FreshThread(thread'[s], file', row')
    BY <1>1, <2>1 DEF InEntry, FreshThread, Slow
  <2> QED BY <2>2, <2>3
<1> QED BY <1>2, <1>3, <1>4 DEF Entry, Fresh

LEMMA TaskGoesOn ==
  ASSUME Entry, NEW r \in Readers, TaskInEntry(r), UNCHANGED thread,
         \A s \in Readers \ {r} : task'[s] = task[s],
         FreshTask(task'[r], file', row'),
         \A e \in row', v \in file' : e <= v, ~overlapped
  PROVE  Entry'
<1>1. \A s \in Readers : (s # r => ~TaskInEntry(s)) /\ ~InEntry(s)
  BY DEF Entry, Alone
<1>2. Alone'
  BY <1>1 DEF Alone, InEntry, TaskInEntry
<1>3. TagNotNewer'
  BY DEF TagNotNewer
<1>4. ASSUME NEW s \in Readers
      PROVE  FreshThread(thread'[s], file', row') /\ FreshTask(task'[s], file', row')
  <2>1. FreshThread(thread[s], file, row)
    BY DEF Entry, Fresh
  <2>2. FreshThread(thread'[s], file', row')
    BY <1>1, <2>1 DEF InEntry, FreshThread, Slow
  <2>3. s # r => FreshTask(task'[s], file', row')
    BY <1>1 DEF TaskInEntry, FreshTask, SlowTask
  <2> QED BY <2>2, <2>3
<1> QED BY <1>2, <1>3, <1>4 DEF Entry, Fresh

-----------------------------------------------------------------------------
(* Threads, tasks and stores.                                              *)
LEMMA UpToGrows ==
  ASSUME NEW n \in Int, NEW m \in Int, n <= m
  PROVE  /\ UpTo(n) \subseteq UpTo(m) /\ Threads(n) \subseteq Threads(m)
         /\ Tasks(n) \subseteq Tasks(m) /\ Deltas(n) \subseteq Deltas(m)
<1>1. UpTo(n) \subseteq UpTo(m)
  BY DEF UpTo, None
<1> QED BY <1>1 DEF Threads, Tasks, Deltas

LEMMA Bounded ==
  ASSUME Types
  PROVE  /\ server \in Int /\ server >= 0 /\ server \in UpTo(server) /\ None \in UpTo(server)
         /\ 0 \in UpTo(server)
         /\ Known \in UpTo(server)
<1>1. server \in Int /\ server >= 0
  BY DEF Types, TypesAt
<1>2. server \in UpTo(server) /\ None \in UpTo(server) /\ 0 \in UpTo(server)
  BY <1>1 DEF UpTo, None
<1>3. Known \in UpTo(server)
  <2> DEFINE S == IF memory # {} THEN memory ELSE sqlite
  <2>1. S # {} /\ S \subseteq UpTo(server)
    BY DEF Types, TypesAt
  <2>2. Known = CHOOSE e \in S : TRUE
    BY DEF Known
  <2> HIDE DEF S
  <2> QED BY <2>1, <2>2
<1> QED BY <1>1, <1>2, <1>3

LEMMA ThreadRecord ==
  ASSUME NEW n, NEW step \in Steps, NEW opening \in BOOLEAN, NEW content \in BOOLEAN,
         NEW item \in UpTo(n), NEW got \in UpTo(n),
         NEW x, x = [step |-> step, opening |-> opening, content |-> content,
                     item |-> item, got |-> got]
  PROVE  x \in Threads(n) /\ x.step = step
BY DEF Threads

LEMMA AtRestTyped ==
  ASSUME NEW n, None \in UpTo(n)
  PROVE  AtRest \in Threads(n) /\ AtRest.step = "idle"
<1> DEFINE step == "idle"
           no == FALSE
<1>1. AtRest = [step |-> step, opening |-> no, content |-> no, item |-> None, got |-> None]
  BY DEF AtRest
<1>2. step \in Steps
  BY DEF Steps
<1>3. no \in BOOLEAN
  OBVIOUS
<1> HIDE DEF step, no
<1>4. AtRest \in Threads(n) /\ AtRest.step = step
  BY <1>1, <1>2, <1>3, ThreadRecord
<1> QED BY <1>4 DEF step

LEMMA NoTaskTyped ==
  ASSUME NEW n, None \in UpTo(n)
  PROVE  NoTask \in Tasks(n) /\ NoTask.step = "none"
BY DEF NoTask, Tasks, TaskSteps

(* One thread becomes x.                                                   *)
LEMMA BecomeOne ==
  ASSUME Types, NEW r \in Readers, NEW x \in Threads(server), Become(r, x)
  PROVE  /\ thread' \in [Readers -> Threads(server)] /\ thread'[r] = x
         /\ \A s \in Readers \ {r} : thread'[s] = thread[s]
BY DEF Types, TypesAt, Become

LEMMA GotoOne ==
  ASSUME Types, NEW r \in Readers, NEW step \in Steps, Goto(r, step)
  PROVE  /\ thread' \in [Readers -> Threads(server)]
         /\ thread'[r].step = step /\ thread'[r].item = thread[r].item
         /\ thread'[r].got = thread[r].got
         /\ \A s \in Readers \ {r} : thread'[s] = thread[s]
<1> DEFINE x == [thread[r] EXCEPT !.step = step]
<1>1. /\ x \in Threads(server) /\ x.step = step /\ x.item = thread[r].item
      /\ x.got = thread[r].got
  BY DEF Types, TypesAt, Threads
<1>2. Become(r, x)
  BY DEF Goto, Become
<1> HIDE DEF x
<1> QED BY <1>1, <1>2, BecomeOne

LEMMA LookUpOne ==
  ASSUME Types, NEW r \in Readers, NEW t \in Threads(server), NEW online \in Steps,
         LookUp(r, t, online)
  PROVE  /\ thread' \in [Readers -> Threads(server)]
         /\ thread'[r].step \in {"offline", online}
         /\ \A s \in Readers \ {r} : thread'[s] = thread[s]
         /\ memory' \subseteq UpTo(server)
<1> DEFINE step == IF offline THEN "offline" ELSE online
           item == Known
           x == [t EXCEPT !.item = item, !.step = step]
<1>1. step \in Steps /\ step \in {"offline", online} /\ item \in UpTo(server)
  BY Bounded DEF Steps
<1>2. Become(r, x) /\ memory' = IF memory # {} THEN memory ELSE sqlite
  BY DEF LookUp
<1> HIDE DEF step, item
<1>3. x \in Threads(server) /\ x.step = step
  <2> DEFINE n == server
  <2>1. t \in Threads(n) /\ item \in UpTo(n)
    BY <1>1
  <2> HIDE DEF n
  <2>2. x \in Threads(n) /\ x.step = step
    BY <1>1, <2>1 DEF Threads
  <2> QED BY <2>2 DEF n
<1> HIDE DEF x
<1>4. /\ thread' \in [Readers -> Threads(server)] /\ thread'[r] = x
      /\ \A s \in Readers \ {r} : thread'[s] = thread[s]
  BY <1>2, <1>3, BecomeOne
<1> QED BY <1>1, <1>2, <1>3, <1>4 DEF Types, TypesAt

LEMMA TaskOne ==
  ASSUME Types, NEW r \in Readers, NEW x \in Tasks(server), task' = [task EXCEPT ![r] = x]
  PROVE  /\ task' \in [Readers -> Tasks(server)] /\ task'[r] = x
         /\ \A s \in Readers \ {r} : task'[s] = task[s]
BY DEF Types, TypesAt

(* The stores and the delta response stay or get what somebody knows.      *)
StoresTyped ==
  /\ server' = server /\ delta' \in Deltas(server)
  /\ memory' \subseteq UpTo(server) /\ sqlite' \subseteq UpTo(server) /\ sqlite' # {}
  /\ file' \subseteq UpTo(server) /\ row' \subseteq UpTo(server)
LEMMA StillTyped ==
  ASSUME Types, StoresTyped, thread' \in [Readers -> Threads(server)],
         task' \in [Readers -> Tasks(server)]
  PROVE  Types'
BY DEF Types, TypesAt, StoresTyped

-----------------------------------------------------------------------------
(* The steps of a reader.                                                  *)
QuietOf(r) ==
  /\ overlapped' = overlapped
  /\ StoresTyped /\ file' \subseteq file /\ row' \subseteq row
  /\ thread' \in [Readers -> Threads(server)] /\ task' \in [Readers -> Tasks(server)]
  /\ \A s \in Readers \ {r} : thread'[s] = thread[s] /\ task'[s] = task[s]

LEMMA QuietKeeps ==
  ASSUME Inv, NEW r \in Readers, QuietOf(r),
         ~overlapped => \/ thread'[r] = thread[r]
                        \/ /\ thread'[r].step \notin Slow
                           /\ thread'[r].step = "loaded" => thread'[r].item <= thread'[r].got,
         task'[r] = task[r] \/ task'[r].step \notin SlowTask
  PROVE  Inv'
<1>1. Types'
  BY StillTyped DEF Inv, QuietOf
<1>2. ASSUME ~overlapped'
      PROVE  Entry'
  <2>1. ~overlapped /\ Entry
    BY <1>2 DEF Inv, QuietOf
  <2>2. Quiet
    BY <2>1 DEF Quiet, QuietOf
  <2> QED BY <2>1, <2>2, QuietKeepsEntry
<1> QED BY <1>1, <1>2 DEF Inv

(* The stores of a step that leaves all of them alone.                     *)
LEMMA StoresKept ==
  ASSUME Types, UNCHANGED <<tags, disk, server, delta>>
  PROVE  StoresTyped /\ file' \subseteq file /\ row' \subseteq row
BY DEF Types, TypesAt, StoresTyped, tags, disk

(* Steps that only go to another step, or back to rest, of readers that    *)
(* are not at the entry or leave it.                                       *)
LEMMA GotoKeeps ==
  ASSUME Inv, NEW r \in Readers, NEW step \in Steps \ Slow, Goto(r, step),
         StoresTyped, file' \subseteq file, row' \subseteq row, UNCHANGED <<task, overlapped>>,
         ~overlapped /\ step = "loaded" => thread[r].item <= thread[r].got
  PROVE  Inv'
<1>1. Types /\ task \in [Readers -> Tasks(server)]
  BY DEF Inv, Types, TypesAt
<1>2. /\ thread' \in [Readers -> Threads(server)]
      /\ thread'[r].step = step /\ thread'[r].item = thread[r].item
      /\ thread'[r].got = thread[r].got
      /\ \A s \in Readers \ {r} : thread'[s] = thread[s]
  BY <1>1, GotoOne
<1>3. QuietOf(r)
  BY <1>1, <1>2 DEF QuietOf
<1> QED BY <1>2, <1>3, QuietKeeps

LEMMA RestKeeps ==
  ASSUME Inv, NEW r \in Readers, Become(r, AtRest),
         StoresTyped, file' \subseteq file, row' \subseteq row, UNCHANGED <<task, overlapped>>
  PROVE  Inv'
<1>1. Types /\ task \in [Readers -> Tasks(server)]
  BY DEF Inv, Types, TypesAt
<1>2. AtRest \in Threads(server) /\ AtRest.step = "idle"
  BY <1>1, Bounded, AtRestTyped
<1>3. /\ thread' \in [Readers -> Threads(server)] /\ thread'[r] = AtRest
      /\ \A s \in Readers \ {r} : thread'[s] = thread[s]
  BY <1>1, <1>2, BecomeOne
<1>4. QuietOf(r)
  BY <1>1, <1>3 DEF QuietOf
<1> QED BY <1>2, <1>3, <1>4, QuietKeeps DEF Slow

LEMMA OpenSteps ==
  ASSUME Inv, NEW r \in Readers,
         OpenLookUp(r) \/ OpenAsk(r) \/ OpenAskFails(r) \/ OpenStream(r)
  PROVE  Inv'
<1>1. Types /\ task \in [Readers -> Tasks(server)] /\ thread \in [Readers -> Threads(server)]
  BY DEF Inv, Types, TypesAt
<1>2. CASE OpenLookUp(r)
  <2> DEFINE yes == TRUE
             rest == AtRest
             t == [rest EXCEPT !.opening = yes]
  <2>1. rest \in Threads(server) /\ yes \in BOOLEAN
    BY <1>1, Bounded, AtRestTyped
  <2>2. LookUp(r, t, "asking") /\ UNCHANGED <<sqlite, disk, task>> /\ OthersUnchanged
    BY <1>2 DEF OpenLookUp
  <2> HIDE DEF yes, rest
  <2>3. t \in Threads(server)
    BY <2>1 DEF Threads
  <2> HIDE DEF t
  <2>4. "asking" \in Steps
    BY DEF Steps
  <2>5. /\ thread' \in [Readers -> Threads(server)]
        /\ thread'[r].step \in {"offline", "asking"}
        /\ \A s \in Readers \ {r} : thread'[s] = thread[s]
        /\ memory' \subseteq UpTo(server)
    BY <1>1, <2>2, <2>3, <2>4, LookUpOne
  <2>6. QuietOf(r)
    BY <1>1, <2>2, <2>5 DEF QuietOf, StoresTyped, Types, TypesAt, OthersUnchanged,
      WorldUnchanged, disk
  <2> QED BY <2>2, <2>5, <2>6, QuietKeeps DEF Slow
<1>3. CASE OpenAsk(r)
  <2> DEFINE n == server
             t == thread[r]
             step == "checking"
             x == [t EXCEPT !.item = n, !.step = step]
  <2>1. Become(r, x)
    BY <1>3 DEF OpenAsk
  <2>2. t \in Threads(n) /\ n \in UpTo(n) /\ step \in Steps
    BY <1>1, Bounded DEF Steps
  <2>3. x \in Threads(n) /\ x.step = step
    <3> HIDE DEF n, t, step
    <3> QED BY <2>2 DEF Threads
  <2> HIDE DEF x
  <2>4. /\ thread' \in [Readers -> Threads(server)] /\ thread'[r] = x
        /\ \A s \in Readers \ {r} : thread'[s] = thread[s]
    BY <1>1, <2>1, <2>3, BecomeOne
  <2>5. QuietOf(r) /\ task' = task
    <3>1. /\ memory' \in {memory, {server}} /\ sqlite' \in {sqlite, {server}}
          /\ UNCHANGED <<file, row, task, server, delta, overlapped>>
      BY <1>3 DEF OpenAsk, tags, disk, OthersUnchanged, WorldUnchanged
    <3> QED BY <1>1, <2>2, <2>4, <3>1 DEF QuietOf, StoresTyped, Types, TypesAt
  <2> QED BY <2>3, <2>4, <2>5, QuietKeeps DEF Slow
<1>4. CASE OpenAskFails(r)
  <2>1. /\ Goto(r, "checking") /\ UNCHANGED <<tags, disk, task, server, delta, overlapped>>
        /\ "checking" \in Steps \ Slow
    BY <1>4 DEF OpenAskFails, OthersUnchanged, WorldUnchanged, Steps, Slow
  <2> QED BY <1>1, <2>1, StoresKept, GotoKeeps
<1>5. CASE OpenStream(r)
  <2> DEFINE step == "downloading"
             tag == thread[r].item
             none == NoTask
             x == [none EXCEPT !.step = step, !.tag = tag]
  <2>1. /\ Become(r, AtRest) /\ task' = [task EXCEPT ![r] = x]
        /\ UNCHANGED <<tags, disk, server, delta, overlapped>>
    BY <1>5 DEF OpenStream, OthersUnchanged, WorldUnchanged
  <2>2. none \in Tasks(server) /\ tag \in UpTo(server) /\ step \in TaskSteps
    BY <1>1, Bounded, NoTaskTyped DEF TaskSteps, Threads
  <2>3. x \in Tasks(server) /\ x.step = step
    <3> HIDE DEF step, tag, none
    <3> QED BY <2>2 DEF Tasks
  <2> HIDE DEF x
  <2>4. /\ task' \in [Readers -> Tasks(server)] /\ task'[r] = x
        /\ \A s \in Readers \ {r} : task'[s] = task[s]
    BY <1>1, <2>1, <2>3, TaskOne
  <2>5. AtRest \in Threads(server) /\ AtRest.step = "idle"
    BY <1>1, Bounded, AtRestTyped
  <2>6. /\ thread' \in [Readers -> Threads(server)] /\ thread'[r] = AtRest
        /\ \A s \in Readers \ {r} : thread'[s] = thread[s]
    BY <1>1, <2>1, <2>5, BecomeOne
  <2>7. QuietOf(r)
    BY <1>1, <2>1, <2>4, <2>6, StoresKept DEF QuietOf
  <2> QED BY <2>3, <2>4, <2>5, <2>6, <2>7, QuietKeeps DEF Slow, SlowTask
<1> QED BY <1>2, <1>3, <1>4, <1>5

LEMMA EntrySteps ==
  ASSUME Inv, NEW r \in Readers,
         \/ CompareTag(r) \/ DropFile(r) \/ DropRow(r) \/ ReadOffline(r)
         \/ ReadStale(r) \/ ContentLookUp(r) \/ ContentFetchFails(r) \/ Load(r) \/ Close(r)
  PROVE  Inv'
<1>1. Types /\ task \in [Readers -> Tasks(server)] /\ thread \in [Readers -> Threads(server)]
  BY DEF Inv, Types, TypesAt
<1>2. CASE CompareTag(r)
  <2>1. /\ Goto(r, IF Good(r) THEN "loaded" ELSE "dropping") /\ At(r, "comparing")
        /\ UNCHANGED <<tags, disk, task, server, delta, overlapped>>
    BY <1>2 DEF CompareTag, OthersUnchanged, WorldUnchanged
  <2>2. "loaded" \in Steps \ Slow /\ "dropping" \in Steps \ Slow
    BY DEF Steps, Slow
  <2>3. ~overlapped /\ Good(r) => thread[r].item <= thread[r].got
    BY <2>1 DEF Inv, Entry, Fresh, FreshThread, Good, At
  <2>4. CASE Good(r)
    BY <1>1, <2>1, <2>2, <2>3, <2>4, StoresKept, GotoKeeps
  <2>5. CASE ~Good(r)
    BY <1>1, <2>1, <2>2, <2>5, StoresKept, GotoKeeps
  <2> QED BY <2>4, <2>5
<1>3. CASE DropFile(r)
  <2>1. /\ Goto(r, "dropping row") /\ file' = {}
        /\ UNCHANGED <<tags, row, task, server, delta, overlapped>>
        /\ "dropping row" \in Steps \ Slow
    BY <1>3 DEF DropFile, OthersUnchanged, WorldUnchanged, Steps, Slow
  <2>2. StoresTyped
    BY <1>1, <2>1 DEF StoresTyped, Types, TypesAt, tags
  <2> QED BY <2>1, <2>2, GotoKeeps
<1>4. CASE DropRow(r)
  <2>1. /\ Goto(r, "missed") /\ row' = {}
        /\ UNCHANGED <<tags, file, task, server, delta, overlapped>>
        /\ "missed" \in Steps \ Slow
    BY <1>4 DEF DropRow, OthersUnchanged, WorldUnchanged, Steps, Slow
  <2>2. StoresTyped
    BY <1>1, <2>1 DEF StoresTyped, Types, TypesAt, tags
  <2> QED BY <2>1, <2>2, GotoKeeps
<1>5. CASE ReadOffline(r)
  <2>1. UNCHANGED <<tags, disk, task, server, delta, overlapped>>
    BY <1>5 DEF ReadOffline, OthersUnchanged, WorldUnchanged
  <2>2. ASSUME NEW v \in file,
               Become(r, [thread[r] EXCEPT !.got = v, !.item = None, !.step = "loaded"])
        PROVE  Inv'
    <3> DEFINE t == thread[r]
               step == "loaded"
               x == [t EXCEPT !.got = v, !.item = None, !.step = step]
    <3>1. /\ t \in Threads(server) /\ v \in UpTo(server) /\ None \in UpTo(server)
          /\ step \in Steps /\ v \in Int
      BY <1>1, Bounded DEF Types, TypesAt, Steps, UpTo
    <3>2. x \in Threads(server) /\ x.step = step /\ x.item = None /\ x.got = v
      <4> DEFINE n == server
      <4>1. t \in Threads(n) /\ v \in UpTo(n) /\ None \in UpTo(n)
        BY <3>1
      <4> HIDE DEF n, t, step
      <4>2. x \in Threads(n) /\ x.step = step /\ x.item = None /\ x.got = v
        BY <3>1, <4>1 DEF Threads
      <4> QED BY <4>2 DEF n
    <3> HIDE DEF x
    <3>3. Become(r, x)
      BY <2>2 DEF x
    <3>4. /\ thread' \in [Readers -> Threads(server)] /\ thread'[r] = x
          /\ \A s \in Readers \ {r} : thread'[s] = thread[s]
      BY <1>1, <3>2, <3>3, BecomeOne
    <3>5. QuietOf(r)
      BY <1>1, <2>1, <3>4, StoresKept DEF QuietOf
    <3>6. x.item <= x.got /\ x.step \notin Slow
      BY <3>1, <3>2 DEF UpTo, None, Slow
    <3> QED BY <2>1, <3>4, <3>5, <3>6, QuietKeeps
  <2>3. CASE Become(r, AtRest)
    BY <1>1, <2>1, <2>3, StoresKept, RestKeeps
  <2> QED BY <1>5, <2>2, <2>3 DEF ReadOffline
<1>6. CASE ReadStale(r)
  <2>1. /\ Goto(r, "missed") /\ UNCHANGED <<tags, disk, task, server, delta, overlapped>>
        /\ "missed" \in Steps \ Slow
    BY <1>6 DEF ReadStale, OthersUnchanged, WorldUnchanged, Steps, Slow
  <2> QED BY <1>1, <2>1, StoresKept, GotoKeeps
<1>7. CASE ContentLookUp(r)
  <2> DEFINE yes == TRUE
             old == thread[r]
             t == [old EXCEPT !.content = yes]
  <2>1. old \in Threads(server) /\ yes \in BOOLEAN
    BY <1>1
  <2>2. LookUp(r, t, "checking") /\ UNCHANGED <<sqlite, disk, task>> /\ OthersUnchanged
    BY <1>7 DEF ContentLookUp
  <2> HIDE DEF yes, old
  <2>3. t \in Threads(server)
    BY <2>1 DEF Threads
  <2> HIDE DEF t
  <2>4. "checking" \in Steps
    BY DEF Steps
  <2>5. /\ thread' \in [Readers -> Threads(server)]
        /\ thread'[r].step \in {"offline", "checking"}
        /\ \A s \in Readers \ {r} : thread'[s] = thread[s]
        /\ memory' \subseteq UpTo(server)
    BY <1>1, <2>2, <2>3, <2>4, LookUpOne
  <2>6. QuietOf(r)
    BY <1>1, <2>2, <2>5 DEF QuietOf, StoresTyped, Types, TypesAt, OthersUnchanged,
      WorldUnchanged, disk
  <2> QED BY <2>2, <2>5, <2>6, QuietKeeps DEF Slow
<1>8. CASE ContentFetchFails(r)
  <2>1. Become(r, AtRest) /\ UNCHANGED <<tags, disk, task, server, delta, overlapped>>
    BY <1>8 DEF ContentFetchFails, OthersUnchanged, WorldUnchanged
  <2> QED BY <1>1, <2>1, StoresKept, RestKeeps
<1>9. CASE Load(r)
  <2>1. Become(r, AtRest) /\ UNCHANGED <<tags, disk, task, server, delta, overlapped>>
    BY <1>9 DEF Load, OthersUnchanged, WorldUnchanged
  <2> QED BY <1>1, <2>1, StoresKept, RestKeeps
<1>10. CASE Close(r)
  <2> DEFINE x == IF \E h \in handle[r] : h.streaming THEN NoTask ELSE task[r]
  <2>1. /\ task' = [task EXCEPT ![r] = x]
        /\ UNCHANGED <<tags, disk, thread, server, delta, overlapped>>
    BY <1>10 DEF Close, OthersUnchanged, WorldUnchanged
  <2>2. x \in Tasks(server) /\ (x = task[r] \/ x.step = "none")
    BY <1>1, Bounded, NoTaskTyped
  <2> HIDE DEF x
  <2>3. /\ task' \in [Readers -> Tasks(server)] /\ task'[r] = x
        /\ \A s \in Readers \ {r} : task'[s] = task[s]
    BY <1>1, <2>1, <2>2, TaskOne
  <2>4. QuietOf(r)
    BY <1>1, <2>1, <2>3, StoresKept DEF QuietOf
  <2> QED BY <2>1, <2>2, <2>3, <2>4, QuietKeeps DEF SlowTask
<1> QED BY <1>2, <1>3, <1>4, <1>5, <1>6, <1>7, <1>8, <1>9, <1>10

(* Steps to the entry and at it: the look at its file, a download, a put.  *)
LEMMA BusySteps ==
  ASSUME Inv, NEW r \in Readers,
         CheckFile(r) \/ ContentFetch(r) \/ PutFile(r) \/ PutRow(r)
  PROVE  Inv'
<1>1. Types /\ task \in [Readers -> Tasks(server)] /\ thread \in [Readers -> Threads(server)]
  BY DEF Inv, Types, TypesAt
<1> DEFINE t == thread[r]
<1>2. t \in Threads(server) /\ t.item \in Int /\ t.got \in Int /\ t.item <= server
      /\ t.item \in UpTo(server) /\ t.got \in UpTo(server)
  <2>1. t \in Threads(server) /\ t.item \in UpTo(server) /\ t.got \in UpTo(server)
    BY <1>1 DEF Threads
  <2> QED BY <2>1, <1>1, Bounded DEF UpTo, None
<1> HIDE DEF t
<1>3. \A e \in row : e \in Int /\ e <= server
  BY <1>1 DEF Types, TypesAt, UpTo, None
<1>4. ASSUME NEW step \in {"comparing", "putting"}, NEW got \in UpTo(server),
             Become(r, [t EXCEPT !.got = got, !.step = step]), Join,
             UNCHANGED <<tags, disk, task, server, delta>>,
             ~overlapped => /\ \A e \in row : e <= got
                            /\ step = "putting" => t.item <= got
      PROVE  Inv'
  <2> DEFINE x == [t EXCEPT !.got = got, !.step = step]
  <2>1. x \in Threads(server) /\ x.step = step /\ x.item = t.item /\ x.got = got
    <3> DEFINE n == server
    <3>1. t \in Threads(n) /\ got \in UpTo(n) /\ step \in Steps
      BY <1>2 DEF Steps, Slow
    <3> HIDE DEF n
    <3>2. x \in Threads(n) /\ x.step = step /\ x.item = t.item /\ x.got = got
      BY <3>1 DEF Threads
    <3> QED BY <3>2 DEF n
  <2> HIDE DEF x
  <2>2. Become(r, x)
    BY <1>4 DEF x
  <2>3. /\ thread' \in [Readers -> Threads(server)] /\ thread'[r] = x
        /\ \A s \in Readers \ {r} : thread'[s] = thread[s]
    BY <1>1, <2>1, <2>2, BecomeOne
  <2>4. Types'
    BY <1>1, <1>4, <2>3, StoresKept, StillTyped
  <2>5. ASSUME ~overlapped'
        PROVE  Entry'
    <3>1. ~overlapped /\ ~Busy /\ Entry
      BY <1>4, <2>5 DEF Join, Inv
    <3>2. FreshThread(thread'[r], file, row)
      BY <1>4, <2>1, <2>3, <3>1 DEF FreshThread
    <3> QED BY <1>4, <2>3, <3>1, <3>2, ReaderEnters DEF disk
  <2> QED BY <2>4, <2>5 DEF Inv
<1>5. CASE CheckFile(r)
  <2>1. UNCHANGED <<tags, disk, task, server, delta>>
    BY <1>5 DEF CheckFile, WorldUnchanged
  <2>2. ASSUME NEW v \in file, Become(r, [t EXCEPT !.got = v, !.step = "comparing"]), Join
        PROVE  Inv'
    <3>1. v \in UpTo(server)
      BY <1>1 DEF Types, TypesAt
    <3>2. ~overlapped => \A e \in row : e <= v
      BY DEF Inv, Entry, TagNotNewer
    <3> QED BY <1>4, <2>1, <2>2, <3>1, <3>2
  <2>3. CASE Goto(r, "missed") /\ overlapped' = overlapped
    <3>1. "missed" \in Steps \ Slow
      BY DEF Steps, Slow
    <3> QED BY <1>1, <2>1, <2>3, <3>1, StoresKept, GotoKeeps
  <2> QED BY <1>5, <2>2, <2>3 DEF CheckFile, t
<1>6. CASE ContentFetch(r)
  <2>1. /\ Become(r, [t EXCEPT !.got = server, !.step = "putting"]) /\ Join
        /\ UNCHANGED <<tags, disk, task, server, delta>>
    BY <1>6 DEF ContentFetch, WorldUnchanged, t
  <2>2. server \in UpTo(server)
    BY <1>1, Bounded
  <2> QED BY <1>2, <1>3, <1>4, <2>1, <2>2
<1>7. CASE PutFile(r)
  <2>1. /\ UNCHANGED <<tags, row, task, server, delta, overlapped>> /\ t.step = "putting"
        /\ \/ file' = {t.got} /\ Goto(r, "putting row")
           \/ file' = file /\ Goto(r, "loaded")
    BY <1>7 DEF PutFile, OthersUnchanged, WorldUnchanged, At, t
  <2>2. ~overlapped => t.item <= t.got /\ \A e \in row : e <= t.got
    BY <2>1 DEF Inv, Entry, Fresh, FreshThread, t
  <2>3. CASE file' = file /\ Goto(r, "loaded")
    <3>1. "loaded" \in Steps \ Slow
      BY DEF Steps, Slow
    <3> QED BY <1>1, <2>1, <2>2, <2>3, <3>1, StoresKept, GotoKeeps DEF disk, t
  <2>4. CASE file' = {t.got} /\ Goto(r, "putting row")
    <3>1. "putting row" \in Steps
      BY DEF Steps, Slow
    <3>2. /\ thread' \in [Readers -> Threads(server)]
          /\ thread'[r].step = "putting row" /\ thread'[r].item = t.item
          /\ thread'[r].got = t.got
          /\ \A s \in Readers \ {r} : thread'[s] = thread[s]
      BY <1>1, <2>4, <3>1, GotoOne DEF t
    <3>3. Types'
      BY <1>1, <1>2, <2>1, <2>4, <3>2, StillTyped DEF StoresTyped, Types, TypesAt, tags
    <3>4. ASSUME ~overlapped'
          PROVE  Entry'
      <4>1. ~overlapped /\ Entry
        BY <2>1, <3>4 DEF Inv
      <4>2. InEntry(r)
        BY <2>1 DEF InEntry, Slow, t
      <4>3. FreshThread(thread'[r], file', row')
        BY <2>2, <2>4, <3>2, <4>1 DEF FreshThread
      <4>4. \A e \in row', v \in file' : e <= v
        BY <2>1, <2>2, <2>4, <4>1
      <4> QED BY <2>1, <3>2, <4>1, <4>2, <4>3, <4>4, ReaderGoesOn
    <3> QED BY <3>3, <3>4 DEF Inv
  <2> QED BY <2>1, <2>3, <2>4
<1>8. CASE PutRow(r)
  <2>1. /\ UNCHANGED <<tags, file, task, server, delta, overlapped>> /\ t.step = "putting row"
        /\ row' = {t.item} /\ Goto(r, "loaded") /\ "loaded" \in Steps
    BY <1>8 DEF PutRow, OthersUnchanged, WorldUnchanged, At, t, Steps
  <2>2. ~overlapped => t.item <= t.got /\ \A v \in file : v = t.got
    BY <2>1 DEF Inv, Entry, Fresh, FreshThread, t
  <2>3. /\ thread' \in [Readers -> Threads(server)]
        /\ thread'[r].step = "loaded" /\ thread'[r].item = t.item
        /\ thread'[r].got = t.got
        /\ \A s \in Readers \ {r} : thread'[s] = thread[s]
    BY <1>1, <2>1, GotoOne DEF t
  <2>4. Types'
    BY <1>1, <1>2, <2>1, <2>3, StillTyped DEF StoresTyped, Types, TypesAt, tags
  <2>5. ASSUME ~overlapped'
        PROVE  Entry'
    <3>1. ~overlapped /\ Entry
      BY <2>1, <2>5 DEF Inv
    <3>2. InEntry(r)
      BY <2>1 DEF InEntry, Slow, t
    <3>3. FreshThread(thread'[r], file', row')
      BY <2>2, <2>3, <3>1 DEF FreshThread
    <3>4. \A e \in row', v \in file' : e <= v
      BY <2>1, <2>2, <3>1
    <3> QED BY <2>1, <2>3, <3>1, <3>2, <3>3, <3>4, ReaderGoesOn
  <2> QED BY <2>4, <2>5 DEF Inv
<1> QED BY <1>5, <1>6, <1>7, <1>8

-----------------------------------------------------------------------------
(* The steps of a streaming download.                                      *)
LEMMA DownloadSteps ==
  ASSUME Inv, NEW r \in Readers, TaskStep(r)
  PROVE  Inv'
<1>1. Types /\ task \in [Readers -> Tasks(server)] /\ thread \in [Readers -> Threads(server)]
  BY DEF Inv, Types, TypesAt
<1> DEFINE k == task[r]
<1>2. /\ k \in Tasks(server) /\ k.tag \in UpTo(server) /\ k.content \in UpTo(server)
      /\ k.tag \in Int /\ k.tag <= server /\ server \in UpTo(server)
  <2>1. k \in Tasks(server) /\ k.tag \in UpTo(server) /\ k.content \in UpTo(server)
    BY <1>1 DEF Tasks
  <2> QED BY <2>1, <1>1, Bounded DEF UpTo, None
<1>3. \A e \in row : e \in Int /\ e <= server
  BY <1>1 DEF Types, TypesAt, UpTo, None
<1> HIDE DEF k
<1>4. ASSUME NEW step \in TaskSteps, TaskGoto(r, step)
      PROVE  /\ task' \in [Readers -> Tasks(server)]
             /\ task'[r].step = step /\ task'[r].tag = k.tag /\ task'[r].content = k.content
             /\ \A s \in Readers \ {r} : task'[s] = task[s]
  <2> DEFINE x == [k EXCEPT !.step = step]
  <2>1. x \in Tasks(server) /\ x.step = step /\ x.tag = k.tag /\ x.content = k.content
    BY <1>2 DEF Tasks
  <2>2. task' = [task EXCEPT ![r] = x]
    BY <1>4 DEF TaskGoto, k
  <2> HIDE DEF x
  <2> QED BY <1>1, <2>1, <2>2, TaskOne
<1>5. ASSUME task' = [task EXCEPT ![r] = NoTask],
             UNCHANGED <<tags, disk, thread, server, delta, overlapped>>
      PROVE  Inv'
  <2>1. NoTask \in Tasks(server) /\ NoTask.step \notin SlowTask
    BY <1>1, Bounded, NoTaskTyped DEF SlowTask
  <2>2. /\ task' \in [Readers -> Tasks(server)] /\ task'[r] = NoTask
        /\ \A s \in Readers \ {r} : task'[s] = task[s]
    BY <1>1, <1>5, <2>1, TaskOne
  <2>3. QuietOf(r)
    BY <1>1, <1>5, <2>2, StoresKept DEF QuietOf
  <2> QED BY <1>5, <2>1, <2>2, <2>3, QuietKeeps
<1>6. CASE TaskFetch(r)
  <2> DEFINE step == "putting"
             x1 == [k EXCEPT !.step = step]
             x == [x1 EXCEPT !.content = server]
  <2>1. task' = [task EXCEPT ![r] = x] /\ Join /\ UNCHANGED <<tags, disk, thread, server, delta>>
    BY <1>6 DEF TaskFetch, k
  <2>2. step \in TaskSteps
    BY DEF TaskSteps, SlowTask
  <2>3. x \in Tasks(server) /\ x.step = step /\ x.tag = k.tag /\ x.content = server
    <3> DEFINE n == server
    <3>1. k \in Tasks(n) /\ n \in UpTo(n)
      BY <1>2
    <3> HIDE DEF n, step
    <3>2. LET y == [x1 EXCEPT !.content = n]
          IN  y \in Tasks(n) /\ y.step = step /\ y.tag = k.tag /\ y.content = n
      BY <3>1, <2>2 DEF Tasks
    <3> QED BY <3>2 DEF n
  <2> HIDE DEF x
  <2>4. /\ task' \in [Readers -> Tasks(server)] /\ task'[r] = x
        /\ \A s \in Readers \ {r} : task'[s] = task[s]
    BY <1>1, <2>1, <2>3, TaskOne
  <2>5. Types'
    BY <1>1, <2>1, <2>4, StoresKept, StillTyped
  <2>6. ASSUME ~overlapped'
        PROVE  Entry'
    <3>1. ~overlapped /\ ~Busy /\ Entry
      BY <2>1, <2>6 DEF Join, Inv
    <3>2. FreshTask(task'[r], file, row)
      BY <1>2, <1>3, <2>3, <2>4 DEF FreshTask
    <3> QED BY <2>1, <2>4, <3>1, <3>2, TaskEnters DEF disk
  <2> QED BY <2>5, <2>6 DEF Inv
<1>7. CASE TaskFails(r)
  BY <1>5, <1>7 DEF TaskFails
<1>8. CASE TaskPutFile(r)
  <2>1. /\ UNCHANGED <<tags, row, thread, server, delta, overlapped>> /\ k.step = "putting"
        /\ file' = {k.content} /\ TaskGoto(r, "putting row") /\ "putting row" \in TaskSteps
    BY <1>8 DEF TaskPutFile, k, TaskSteps, SlowTask
  <2>2. ~overlapped => k.tag <= k.content /\ \A e \in row : e <= k.content
    BY <2>1 DEF Inv, Entry, Fresh, FreshTask, k
  <2>3. /\ task' \in [Readers -> Tasks(server)] /\ task'[r].step = "putting row"
        /\ task'[r].tag = k.tag /\ task'[r].content = k.content
        /\ \A s \in Readers \ {r} : task'[s] = task[s]
    BY <1>4, <2>1
  <2>4. Types'
    BY <1>1, <1>2, <2>1, <2>3, StillTyped DEF StoresTyped, Types, TypesAt, tags
  <2>5. ASSUME ~overlapped'
        PROVE  Entry'
    <3>1. ~overlapped /\ Entry /\ TaskInEntry(r)
      BY <2>1, <2>5 DEF Inv, TaskInEntry, SlowTask, k
    <3>2. FreshTask(task'[r], file', row')
      BY <2>1, <2>2, <2>3, <3>1 DEF FreshTask
    <3>3. \A e \in row', v \in file' : e <= v
      BY <2>1, <2>2, <3>1
    <3> QED BY <2>1, <2>3, <3>1, <3>2, <3>3, TaskGoesOn
  <2> QED BY <2>4, <2>5 DEF Inv
<1>9. CASE TaskPutRow(r)
  <2>1. /\ UNCHANGED <<tags, file, thread, server, delta, overlapped>> /\ k.step = "putting row"
        /\ row' = {k.tag} /\ TaskGoto(r, "clearing") /\ "clearing" \in TaskSteps
    BY <1>9 DEF TaskPutRow, k, TaskSteps
  <2>2. ~overlapped => k.tag <= k.content /\ \A v \in file : v = k.content
    BY <2>1 DEF Inv, Entry, Fresh, FreshTask, k
  <2>3. /\ task' \in [Readers -> Tasks(server)] /\ task'[r].step = "clearing"
        /\ \A s \in Readers \ {r} : task'[s] = task[s]
    BY <1>4, <2>1
  <2>4. Types'
    BY <1>1, <1>2, <2>1, <2>3, StillTyped DEF StoresTyped, Types, TypesAt, tags
  <2>5. ASSUME ~overlapped'
        PROVE  Entry'
    <3>1. ~overlapped /\ Entry /\ TaskInEntry(r)
      BY <2>1, <2>5 DEF Inv, TaskInEntry, SlowTask, k
    <3>2. FreshTask(task'[r], file', row')
      BY <2>3 DEF FreshTask
    <3>3. \A e \in row', v \in file' : e <= v
      BY <2>1, <2>2, <3>1
    <3> QED BY <2>1, <2>3, <3>1, <3>2, <3>3, TaskGoesOn
  <2> QED BY <2>4, <2>5 DEF Inv
<1>10. CASE TaskClear(r)
  <2>1. task' = [task EXCEPT ![r] = NoTask]
        /\ UNCHANGED <<tags, disk, thread, server, delta, overlapped>>
    BY <1>10 DEF TaskClear
  <2> QED BY <1>5, <2>1
<1> QED BY <1>6, <1>7, <1>8, <1>9, <1>10 DEF TaskStep

-----------------------------------------------------------------------------
(* Delta sync and the world.  None of them is at the entry.                *)
LEMMA OthersKeep ==
  ASSUME Inv, TypesAt(server)', file' \subseteq file, row' \subseteq row,
         UNCHANGED <<thread, task, overlapped>>
  PROVE  Inv'
<1>1. ASSUME ~overlapped'
      PROVE  Entry'
  <2>1. ~overlapped /\ Entry
    BY <1>1 DEF Inv
  <2>2. Quiet
    BY DEF Quiet
  <2> QED BY <2>1, <2>2, QuietKeepsEntry
<1> QED BY <1>1 DEF Inv, Types

LEMMA DeltaSteps ==
  ASSUME Inv, DeltaStep
  PROVE  Inv'
<1>1. /\ Types /\ server \in UpTo(server) /\ None \in UpTo(server)
      /\ delta \in Deltas(server) /\ delta.etag \in UpTo(server)
  BY Bounded DEF Inv, Types, TypesAt, Deltas
<1>2. server' = server /\ UNCHANGED <<thread, task, overlapped>>
  BY DEF DeltaStep, DeltaQuery, DeltaCompare, DeltaDropFile, DeltaMark, DeltaStore, DeltaApply,
    ThreadsUnchanged
<1>3. /\ memory' \in {memory, {delta.etag}} /\ sqlite' \in {sqlite, {delta.etag}}
      /\ file' \in {file, {}} /\ row' \in {row, {}}
  BY DEF DeltaStep, DeltaQuery, DeltaCompare, DeltaDropFile, DeltaMark, DeltaStore, DeltaApply, tags,
    disk
<1>4. delta' \in Deltas(server)
  <2>1. CASE DeltaApply
    <3> DEFINE etag == delta.etag
               idle == "idle"
    <3>1. delta' = [step |-> idle, etag |-> None, token |-> etag] /\ idle \in DeltaPhases
      BY <2>1 DEF DeltaApply, DeltaPhases
    <3>2. etag \in UpTo(server)
      BY <1>1
    <3> HIDE DEF etag, idle
    <3> QED BY <1>1, <3>1, <3>2 DEF Deltas
  <2>2. CASE DeltaCompare \/ DeltaDropFile \/ DeltaMark \/ DeltaStore
    <3>1. PICK step \in DeltaPhases : delta' = [delta EXCEPT !.step = step]
      BY <2>2 DEF DeltaCompare, DeltaDropFile, DeltaMark, DeltaStore, DeltaGoto, DeltaPhases
    <3> QED BY <1>1, <3>1 DEF Deltas
  <2>3. CASE DeltaQuery
    <3>1. \/ delta' = delta
          \/ \E step \in DeltaPhases : delta' = [delta EXCEPT !.etag = server, !.step = step]
      BY <2>3 DEF DeltaQuery, DeltaPhases
    <3>2. ASSUME NEW step \in DeltaPhases, delta' = [delta EXCEPT !.etag = server, !.step = step]
          PROVE  delta' \in Deltas(server)
      <4> DEFINE n == server
      <4>1. delta \in Deltas(n) /\ n \in UpTo(n) /\ delta' = [delta EXCEPT !.etag = n, !.step = step]
        BY <1>1, <3>2
      <4> HIDE DEF n
      <4>2. delta' \in Deltas(n)
        BY <4>1 DEF Deltas
      <4> QED BY <4>2 DEF n
    <3> QED BY <1>1, <3>1, <3>2
  <2> QED BY <2>1, <2>2, <2>3 DEF DeltaStep
<1>5. TypesAt(server)'
  BY <1>1, <1>2, <1>3, <1>4 DEF Types, TypesAt
<1>6. file' \subseteq file /\ row' \subseteq row
  BY <1>3
<1> QED BY <1>2, <1>5, <1>6, OthersKeep

LEMMA WorldSteps ==
  ASSUME Inv, RemoteEdit \/ OwnUpload \/ MemoryExpires \/ EvictFile \/ EvictRow \/ Restart
  PROVE  Inv'
<1>1. Types
  BY DEF Inv
<1>2. CASE RemoteEdit \/ OwnUpload
  <2> DEFINE n == server + 1
  <2>1. /\ n \in Int /\ n >= 0 /\ server <= n /\ n \in UpTo(n) /\ server \in Int
        /\ UpTo(server) \subseteq UpTo(n)
        /\ Threads(server) \subseteq Threads(n) /\ Tasks(server) \subseteq Tasks(n)
        /\ Deltas(server) \subseteq Deltas(n)
    <3>1. server \in Int /\ server >= 0
      BY <1>1 DEF Types, TypesAt
    <3>2. n \in Int /\ n >= 0 /\ server <= n /\ n \in UpTo(n)
      BY <3>1 DEF UpTo, None
    <3> QED BY <3>1, <3>2, UpToGrows
  <2>2. /\ server' = n /\ memory' \in {memory, {n}}
        /\ UNCHANGED <<sqlite, file, row, delta, thread, task, overlapped>>
    BY <1>2 DEF RemoteEdit, OwnUpload, ThreadsUnchanged, tags, disk
  <2> HIDE DEF n
  <2>3. TypesAt(server)'
    <3>1. TypesAt(server)
      BY <1>1 DEF Types
    <3>2. thread \in [Readers -> Threads(n)] /\ task \in [Readers -> Tasks(n)]
      BY <2>1, <3>1 DEF TypesAt
    <3> QED BY <2>1, <2>2, <3>1, <3>2 DEF TypesAt
  <2> QED BY <2>2, <2>3, OthersKeep
<1>3. CASE MemoryExpires \/ EvictFile \/ EvictRow
  <2>1. /\ UNCHANGED <<server, sqlite, delta, thread, task, overlapped>>
        /\ memory' \in {memory, {}} /\ file' \in {file, {}} /\ row' \in {row, {}}
    BY <1>3 DEF MemoryExpires, EvictFile, EvictRow, ThreadsUnchanged, tags, disk
  <2>2. TypesAt(server)'
    BY <1>1, <2>1 DEF Types, TypesAt
  <2>3. file' \subseteq file /\ row' \subseteq row
    BY <2>1
  <2> QED BY <2>1, <2>2, <2>3, OthersKeep
<1>4. CASE Restart
  <2>1. /\ UNCHANGED <<server, sqlite, file, row, overlapped>> /\ memory' = {}
        /\ thread' = [r \in Readers |-> AtRest] /\ task' = [r \in Readers |-> NoTask]
    BY <1>4 DEF Restart, disk
  <2>2. /\ AtRest \in Threads(server) /\ AtRest.step = "idle"
        /\ NoTask \in Tasks(server) /\ NoTask.step = "none" /\ None \in UpTo(server)
    BY <1>1, Bounded, AtRestTyped, NoTaskTyped
  <2>3. delta' \in Deltas(server)
    <3> DEFINE idle == "idle"
    <3>1. delta' = [delta EXCEPT !.step = idle, !.etag = None] /\ idle \in DeltaPhases
      BY <1>4 DEF Restart, DeltaPhases
    <3>2. delta \in Deltas(server)
      BY <1>1 DEF Types, TypesAt
    <3> HIDE DEF idle
    <3> QED BY <2>2, <3>1, <3>2 DEF Deltas
  <2>4. TypesAt(server)'
    BY <1>1, <2>1, <2>2, <2>3 DEF Types, TypesAt
  <2>5. Quiet
    BY <2>1, <2>2 DEF Quiet, Slow, SlowTask
  <2>6. ASSUME ~overlapped'
        PROVE  Entry'
    BY <2>1, <2>5, <2>6, QuietKeepsEntry DEF Inv
  <2> QED BY <2>4, <2>6 DEF Inv, Types
<1> QED BY <1>2, <1>3, <1>4

-----------------------------------------------------------------------------
LEMMA InvInit == ASSUME Init PROVE Inv
<1>1. server = 0 /\ memory = {} /\ sqlite = {0} /\ file = {} /\ row = {}
      /\ thread = [r \in Readers |-> AtRest] /\ task = [r \in Readers |-> NoTask]
      /\ delta = [step |-> "idle", etag |-> None, token |-> 0]
  BY DEF Init
<1>2. server \in Int /\ server >= 0 /\ None \in UpTo(server) /\ 0 \in UpTo(server)
  BY <1>1 DEF UpTo, None
<1>3. /\ AtRest \in Threads(server) /\ AtRest.step = "idle"
      /\ NoTask \in Tasks(server) /\ NoTask.step = "none"
  BY <1>2, AtRestTyped, NoTaskTyped
<1>4. Types
  <2>1. delta \in Deltas(server)
    BY <1>1, <1>2 DEF Deltas, DeltaPhases
  <2> QED BY <1>1, <1>2, <1>3, <2>1 DEF Types, TypesAt
<1>5. \A r \in Readers : ~InEntry(r) /\ ~TaskInEntry(r)
  BY <1>1, <1>3 DEF InEntry, TaskInEntry, Slow, SlowTask
<1>6. Alone /\ TagNotNewer
  BY <1>1, <1>5 DEF Alone, TagNotNewer
<1>7. Fresh
  BY <1>1, <1>3 DEF Fresh, FreshThread, FreshTask
<1> QED BY <1>4, <1>6, <1>7 DEF Inv, Entry

LEMMA InvKept == Spec => []Inv
<1>1. Inv /\ [Next]_vars => Inv'
  <2> SUFFICES ASSUME Inv, [Next]_vars PROVE Inv'
    OBVIOUS
  <2>1. ASSUME NEW r \in Readers, ReaderStep(r)
        PROVE  Inv'
    BY <2>1, OpenSteps, EntrySteps, BusySteps DEF ReaderStep
  <2>2. ASSUME NEW r \in Readers, TaskStep(r)
        PROVE  Inv'
    BY <2>2, DownloadSteps
  <2>3. CASE DeltaStep
    BY <2>3, DeltaSteps
  <2>4. CASE RemoteEdit \/ OwnUpload \/ MemoryExpires \/ EvictFile \/ EvictRow \/ Restart
    BY <2>4, WorldSteps
  <2>5. CASE UNCHANGED vars
    BY <2>5 DEF vars, tags, disk, Inv, Types, TypesAt, Entry, Alone, Fresh, FreshThread,
       FreshTask, TagNotNewer, InEntry, TaskInEntry
  <2> QED BY <2>1, <2>2, <2>3, <2>4, <2>5 DEF Next
<1> QED BY <1>1, InvInit, PTL DEF Spec

(* The content file is never older than its eTag, whoever put, dropped or  *)
(* evicted either, and wherever the program was stopped between the two.   *)
THEOREM TagNeverNewer == Spec => []TagNotNewer
<1>1. Inv => TagNotNewer
  BY DEF Inv, Entry, TagNotNewer
<1> QED BY <1>1, InvKept, PTL

(* What an open or a refresh loads is never older than the eTag it went by.*)
THEOREM LoadedAlwaysCurrent == Spec => []LoadedIsCurrent
<1>1. Inv => LoadedIsCurrent
  <2> SUFFICES ASSUME Inv, ~overlapped, NEW r \in Readers, At(r, "loaded")
               PROVE  thread[r].got >= thread[r].item
    BY DEF LoadedIsCurrent
  <2>1. thread[r].item <= thread[r].got
    BY DEF Inv, Entry, Fresh, FreshThread, At
  <2>2. thread[r].item \in Int /\ thread[r].got \in Int
    BY DEF Inv, Types, TypesAt, Threads, UpTo, None
  <2> QED BY <2>1, <2>2
<1> QED BY <1>1, InvKept, PTL

------------------------------------------------------------------------------
(* Pins                                                                    *)

Temps == {"pin", "resume"} \X Nat
PinRows == [inode : Inodes, parent : SUBSET Inodes]
Frames == [folder : Folders, left : SUBSET Items, parent : Inodes]
Downloads ==
  [step : {"none", "pinned", "listing", "children", "fetching"}, stack : Seq(Frames),
   base : {"pin", "resume"}, next : Nat, file : Files \cup {NoItem}]

(* A download at work has a folder on its stack, and what is left of a     *)
(* folder are children of it.                                              *)
Stacked(d) ==
  /\ d.step \in {"none", "pinned"} <=> d.stack = <<>>
  /\ d.step = "fetching" => d.file \in Files
  /\ \A k \in 1..Len(d.stack) : d.stack[k].left \subseteq Children(d.stack[k].folder)

(* The inode is the key of the table.                                      *)
OneRowPerInode ==
  \A i, j \in Items : \A r \in rows[i], s \in rows[j] :
    (i = j /\ r = s) \/ (i # j /\ r.inode # s.inode)

PinTypes ==
  /\ pins \in [Pinnable -> {"none", "valid", "expired"}]
  /\ rows \in [Items -> SUBSET PinRows] /\ inode \in [Items -> Inodes]
  /\ contents \subseteq Files /\ tracked \subseteq Files /\ redo \subseteq Files
  /\ download \in [Pinnable -> Downloads] /\ \A p \in Pinnable : Stacked(download[p])
  /\ kept \in [Pinnable -> SUBSET Files] /\ whole \in [Pinnable -> BOOLEAN]
  /\ severed \in BOOLEAN
  /\ evictor = [left |-> evictor.left, victim |-> evictor.victim, free |-> evictor.free]

Forgotten == \A p \in Pinnable : pins[p] # "valid" => kept[p] = {}

(* Until a download has severed something, a folder has the inode of the   *)
(* mount, and so a row's parent is the folder it is in.                    *)
Own(i) == IF i \in Folders THEN {Vfs(i)} ELSE {Vfs(i)} \cup Temps
Numbered ==
  \A i \in Items :
    /\ inode[i] \in Own(i)
    /\ \A r \in rows[i] : r.inode \in Own(i) /\ r.parent \in {{}, {Vfs(Parent[i])}}

(* What a download has still to look at of the folder at k of its stack.   *)
Ahead(d, k) ==
  IF d.step = "listing" /\ k = Len(d.stack) THEN Children(d.stack[k].folder) ELSE d.stack[k].left

Reaches(d, x) == \E k \in 1..Len(d.stack) : \E c \in Ahead(d, k) : x \in Tree(c)

(* The folders a download is in are rows below its pin, so is the file it  *)
(* fetches, and each of the files that are its goal is or will be, ...     *)
FramedAt(d, goal, stored, below) ==
  /\ \A k \in 1..Len(d.stack) :
       /\ d.stack[k].parent = Vfs(d.stack[k].folder)
       /\ d.stack[k].folder \in stored \cap below
  /\ d.step = "fetching" => d.file \in below
  /\ d.stack # <<>> => \A x \in goal : x \in below \/ Reaches(d, x)
Rowed == {i \in Items : rows[i] # {}}
Framed == \A p \in Pinnable : FramedAt(download[p], FilesUnder(p), Rowed, Subtree(p))

(* ... therefore also what it has kept, which no eviction has picked, and  *)
(* all the files when it has ended well.                                   *)
KeptSafe ==
  \A p \in Pinnable :
    /\ kept[p] \subseteq Subtree(p) \cap contents
    /\ evictor.victim \notin kept[p]
    /\ whole[p] => FilesUnder(p) \subseteq Subtree(p)

PinsInv ==
  /\ PinTypes /\ OneRowPerInode /\ Forgotten
  /\ ~severed => Numbered /\ Framed /\ KeptSafe

------------------------------------------------------------------------------
(* Rows lead up and down the same way                                      *)

(* The row of i has the inode of j's as its parent.                        *)
Link(i, j) == \E c \in rows[i], r \in rows[j] : c.parent = {r.inode}

LEMMA SubtreeRoot == ASSUME NEW p \in Items PROVE p \in Subtree(p)
BY DEF Subtree

LEMMA SubtreeStep ==
  ASSUME NEW p, NEW j \in Subtree(p), NEW i \in Items, Link(i, j)
  PROVE  i \in Subtree(p)
<1>1. j \in Items /\ i \in Below({j})
  BY DEF Subtree, Below, Link
<1>2. ASSUME NEW S \in SUBSET Items, p \in S, Below(S) \subseteq S PROVE i \in S
  <2>1. j \in S
    BY <1>2 DEF Subtree
  <2> QED BY <1>1, <1>2, <2>1 DEF Below
<1> QED BY <1>2 DEF Subtree

LEMMA TreeRoot == ASSUME NEW p \in Items PROVE p \in Tree(p)
BY DEF Tree

LEMMA TreeStep ==
  ASSUME NEW p, NEW i \in Items, Parent[i] \in Tree(p)
  PROVE  i \in Tree(p)
BY DEF Tree

(* Everything in a tree but its root is in a folder of the tree.           *)
LEMMA TreeParent ==
  ASSUME NEW p \in Items, NEW i \in Tree(p), i # p
  PROVE  Parent[i] \in Tree(p)
<1> SUFFICES ASSUME Parent[i] \notin Tree(p) PROVE FALSE
  OBVIOUS
<1> DEFINE S == Tree(p) \ {i}
<1>1. S \in SUBSET Items /\ p \in S /\ i \in Items
  BY TreeRoot DEF Tree
<1>2. ASSUME NEW c \in Items, Parent[c] \in S PROVE c \in S
  BY <1>2, TreeStep
<1>3. \A T \in SUBSET Items : p \in T /\ (\A c \in Items : Parent[c] \in T => c \in T) => i \in T
  BY DEF Tree
<1> HIDE DEF S
<1>4. i \in S
  BY <1>1, <1>2, <1>3
<1> QED BY <1>4 DEF S

(* A pin is above whatever is below it.                                    *)
LEMMA Climb ==
  ASSUME NEW p \in Items, NEW x \in Subtree(p)
  PROVE  p \in Ancestors(x)
<1>1. SUFFICES ASSUME NEW S \in SUBSET Items, x \in S, Above(S) \subseteq S, p \notin S
               PROVE  FALSE
  BY DEF Ancestors
<1> DEFINE D == Items \ S
<1>2. ASSUME NEW i \in Below(D) PROVE i \in D
  <2>1. PICK j \in D : \E c \in rows[i], r \in rows[j] : c.parent = {r.inode}
    BY <1>2 DEF Below
  <2>2. ASSUME i \in S PROVE FALSE
    <3>1. j \in Above(S)
      BY <2>1, <2>2 DEF Above
    <3> QED BY <1>1, <2>1, <3>1
  <2> QED BY <1>2, <2>2 DEF Below
<1>3. D \in SUBSET Items /\ p \in D
  BY <1>1
<1> HIDE DEF D
<1>4. x \in D
  BY <1>2, <1>3 DEF Subtree
<1> QED BY <1>1, <1>4 DEF D

------------------------------------------------------------------------------
(* Links                                                                   *)

LEMMA VfsApart ==
  /\ \A i, j : Vfs(i) = Vfs(j) => i = j
  /\ \A i : Vfs(i) \notin Temps
  /\ \A i \in Items \cup {NoItem} : Vfs(i) \in Inodes
  /\ \A base \in {"pin", "resume"}, n \in Nat : Temp(base, n) \in Temps /\ Temp(base, n) \in Inodes
BY DEF Vfs, Temps, Temp, Inodes

LEMMA OwnApart ==
  ASSUME NEW i \in Items, NEW j, NEW n \in Own(i), n = Vfs(j)
  PROVE  i = j
BY VfsApart DEF Own

(* A link leads to the folder an item is in.                               *)
LEMMA LinkIsTrue ==
  ASSUME Numbered, NEW i \in Items, NEW j \in Items, Link(i, j)
  PROVE  j = Parent[i]
<1>1. PICK c \in rows[i], r \in rows[j] : c.parent = {r.inode}
  BY DEF Link
<1>2. c.parent = {Vfs(Parent[i])} /\ r.inode \in Own(j)
  BY <1>1 DEF Numbered
<1>3. r.inode = Vfs(Parent[i])
  BY <1>1, <1>2
<1> QED BY <1>2, <1>3, OwnApart

LEMMA SubtreeInTree ==
  ASSUME Numbered, NEW p \in Items
  PROVE  Subtree(p) \subseteq Tree(p)
<1>1. Tree(p) \in SUBSET Items /\ p \in Tree(p)
  BY TreeRoot DEF Tree
<1>2. ASSUME NEW i \in Below(Tree(p)) PROVE i \in Tree(p)
  <2>1. PICK j \in Tree(p) : i \in Items /\ j \in Items /\ Link(i, j)
    BY <1>2 DEF Below, Link, Tree
  <2> QED BY <2>1, LinkIsTrue, TreeStep
<1> QED BY <1>1, <1>2 DEF Subtree

(* What is below a pin stays below it while links stay, ...                *)
LEMMA SubtreeStays ==
  ASSUME \A i, j \in Items : Link(i, j) => Link(i, j)', NEW p
  PROVE  Subtree(p) \subseteq Subtree(p)'
<1> SUFFICES ASSUME NEW x \in Subtree(p), NEW S \in SUBSET Items, p \in S, (Below(S) \subseteq S)'
             PROVE  x \in S
  BY DEF Subtree
<1>1. Below(S) \subseteq S
  BY DEF Below, Link
<1> QED BY <1>1 DEF Subtree

(* ... and also when one link is cut that leads up from q: as long as q is *)
(* the pin itself or not in its tree.                                      *)
LEMMA SubtreeStaysBelow ==
  ASSUME Numbered, NEW p \in Items, NEW q \in Items, q = p \/ q \notin Tree(p),
         \A i \in Items \ {q}, j \in Items : Link(i, j) => Link(i, j)'
  PROVE  Subtree(p) \subseteq Subtree(p)'
<1> SUFFICES ASSUME NEW x \in Subtree(p), NEW S \in SUBSET Items, p \in S, (Below(S) \subseteq S)'
             PROVE  x \in S
  BY DEF Subtree
<1> DEFINE D == S \cup (Items \ Tree(p))
<1>1. ASSUME NEW i \in Below(D) PROVE i \in D
  <2>1. PICK j \in D : i \in Items /\ j \in Items /\ Link(i, j)
    BY <1>1 DEF Below, Link
  <2>2. CASE i = p \/ i \notin Tree(p)
    BY <2>1, <2>2
  <2>3. CASE i # p /\ i \in Tree(p)
    <3>1. j \in Tree(p)
      BY <2>1, <2>3, LinkIsTrue, TreeParent
    <3>2. j \in S /\ i # q
      BY <2>3, <3>1
    <3>3. Link(i, j)'
      BY <2>1, <3>2
    <3>4. i \in Below(S)'
      BY <2>1, <3>2, <3>3 DEF Below, Link
    <3> QED BY <3>4
  <2> QED BY <2>2, <2>3
<1>2. D \in SUBSET Items /\ p \in D
  OBVIOUS
<1> HIDE DEF D
<1>3. x \in D
  BY <1>1, <1>2 DEF Subtree
<1>4. x \in Tree(p)
  BY SubtreeInTree
<1> QED BY <1>3, <1>4 DEF D

------------------------------------------------------------------------------
(* The items table                                                         *)

(* Upsert changes one row at most, and never an inode.                     *)
LEMMA UpsertRows ==
  ASSUME PinTypes, OneRowPerInode, NEW i \in Items, NEW n \in Inodes, NEW P \in SUBSET Inodes,
         rows' = Upsert(i, n, P)
  PROVE  /\ rows' \in [Items -> SUBSET PinRows]
         /\ OneRowPerInode'
         /\ \A j \in Items \ {i} : rows'[j] = rows[j]
         /\ \A r \in rows'[i] : r.parent = P
         /\ rows[i] # {} => \A n2 : (\E r \in rows'[i] : r.inode = n2) <=> (\E r \in rows[i] : r.inode = n2)
         /\ rows[i] = {} => \A r \in rows'[i] : r.inode = n
<1>1. CASE rows[i] # {}
  <2> DEFINE new == {[w EXCEPT !.parent = P] : w \in rows[i]}
  <2>1. rows' = [rows EXCEPT ![i] = new]
    BY <1>1 DEF Upsert
  <2>2. rows[i] \in SUBSET PinRows /\ rows \in [Items -> SUBSET PinRows]
    BY DEF PinTypes
  <2>3. /\ new \in SUBSET PinRows
        /\ \A r \in new : r.parent = P /\ \E s \in rows[i] : r = [s EXCEPT !.parent = P] /\ r.inode = s.inode
    <3> SUFFICES ASSUME NEW s \in rows[i]
                 PROVE  LET r == [s EXCEPT !.parent = P]
                        IN  r \in PinRows /\ r.parent = P /\ r.inode = s.inode
      OBVIOUS
    <3>1. s \in [inode : Inodes, parent : SUBSET Inodes]
      BY <2>2 DEF PinRows
    <3> QED BY <3>1 DEF PinRows
  <2>4. ASSUME NEW s \in rows[i] PROVE \E r \in new : r.inode = s.inode
    <3>1. s \in [inode : Inodes, parent : SUBSET Inodes]
      BY <2>2 DEF PinRows
    <3>2. [s EXCEPT !.parent = P] \in new /\ [s EXCEPT !.parent = P].inode = s.inode
      BY <3>1
    <3> QED BY <3>2
  <2>5. rows'[i] = new /\ \A j \in Items \ {i} : rows'[j] = rows[j]
    BY <2>1, <2>2
  <2> HIDE DEF new
  <2>6. rows' \in [Items -> SUBSET PinRows]
    BY <2>1, <2>2, <2>3
  <2>7. \A r, s \in new : r = s
    BY <2>3 DEF OneRowPerInode
  <2>8. OneRowPerInode'
    <3> SUFFICES ASSUME NEW j \in Items, NEW k \in Items, NEW r \in rows'[j], NEW s \in rows'[k]
                 PROVE  (j = k /\ r = s) \/ (j # k /\ r.inode # s.inode)
      BY DEF OneRowPerInode
    <3>1. \E t \in rows[j] : t.inode = r.inode
      BY <2>3, <2>5
    <3>2. \E t \in rows[k] : t.inode = s.inode
      BY <2>3, <2>5
    <3>3. j # k => r.inode # s.inode
      BY <3>1, <3>2 DEF OneRowPerInode
    <3>4. j = k => r = s
      BY <2>5, <2>7 DEF OneRowPerInode
    <3> QED BY <3>3, <3>4
  <2> QED BY <1>1, <2>3, <2>4, <2>5, <2>6, <2>8
<1>2. CASE rows[i] = {} /\ \E j \in Items : \E w \in rows[j] : w.inode = n
  <2>1. rows' = rows
    BY <1>2 DEF Upsert
  <2> QED BY <1>2, <2>1 DEF PinTypes, OneRowPerInode
<1>3. CASE rows[i] = {} /\ ~\E j \in Items : \E w \in rows[j] : w.inode = n
  <2> DEFINE w == [inode |-> n, parent |-> P]
  <2>1. rows' = [rows EXCEPT ![i] = {w}]
    BY <1>3 DEF Upsert
  <2>2. w \in PinRows /\ w.inode = n /\ w.parent = P
    BY DEF PinRows
  <2> HIDE DEF w
  <2>3. rows' \in [Items -> SUBSET PinRows] /\ rows'[i] = {w} /\ \A j \in Items \ {i} : rows'[j] = rows[j]
    BY <2>1, <2>2 DEF PinTypes
  <2>4. OneRowPerInode'
    BY <1>3, <2>2, <2>3 DEF OneRowPerInode
  <2> QED BY <1>3, <2>2, <2>3, <2>4
<1> QED BY <1>1, <1>2, <1>3
(* What Upsert keeps while nothing is severed.                             *)
LEMMA UpsertNumbered ==
  ASSUME PinTypes, OneRowPerInode, Numbered, NEW i \in Items, NEW n \in Inodes,
         NEW P \in {{}, {Vfs(Parent[i])}}, P \in SUBSET Inodes, rows' = Upsert(i, n, P),
         \A r \in rows'[i] : r.inode \in Own(i), inode' = inode
  PROVE  Numbered'
<1> SUFFICES ASSUME NEW j \in Items
             PROVE  /\ inode'[j] \in Own(j)
                    /\ \A r \in rows'[j] : r.inode \in Own(j) /\ r.parent \in {{}, {Vfs(Parent[j])}}
  BY DEF Numbered, Own
<1>1. (\A r \in rows'[i] : r.parent = P) /\ (j # i => rows'[j] = rows[j])
  BY UpsertRows
<1> QED BY <1>1 DEF Numbered

LEMMA UpsertLinks ==
  ASSUME PinTypes, OneRowPerInode, Numbered, NEW i \in Items, NEW n \in Inodes,
         NEW P \in SUBSET Inodes, rows' = Upsert(i, n, P)
  PROVE  /\ \A k, j \in Items : Link(k, j) /\ (k # i \/ P = {Vfs(Parent[i])}) => Link(k, j)'
         /\ Rowed \subseteq Rowed'
<1>0. /\ \A j \in Items \ {i} : rows'[j] = rows[j]
      /\ \A r \in rows'[i] : r.parent = P
      /\ rows[i] # {} => \A n2 : (\E r \in rows'[i] : r.inode = n2) <=> (\E r \in rows[i] : r.inode = n2)
  BY UpsertRows
<1>1. ASSUME NEW j \in Items, NEW r \in rows[j] PROVE \E s \in rows'[j] : s.inode = r.inode
  BY <1>0, <1>1
<1>2. ASSUME NEW k \in Items, NEW j \in Items, Link(k, j), k # i \/ P = {Vfs(Parent[i])}
      PROVE  Link(k, j)'
  <2>1. PICK c \in rows[k], r \in rows[j] : c.parent = {r.inode}
    BY <1>2 DEF Link
  <2>2. PICK s \in rows'[j] : s.inode = r.inode
    BY <1>1
  <2>3. c.parent = {Vfs(Parent[k])}
    BY <2>1 DEF Numbered
  <2>4. \E d \in rows'[k] : d.parent = c.parent
    BY <1>0, <1>1, <1>2, <2>3
  <2> QED BY <2>1, <2>2, <2>4 DEF Link
<1>3. Rowed \subseteq Rowed'
  BY <1>1 DEF Rowed
<1> QED BY <1>2, <1>3

(* The rows of a step that stores, cached one with its true parent.                *)
LEMMA UpsertGrows ==
  ASSUME PinTypes, OneRowPerInode, Numbered, NEW i \in Items, NEW n \in Inodes,
         rows' = Upsert(i, n, {Vfs(Parent[i])}), {Vfs(Parent[i])} \in SUBSET Inodes
  PROVE  Rowed \subseteq Rowed' /\ \A p \in Pinnable : Subtree(p) \subseteq Subtree(p)'
<1>1. Rowed \subseteq Rowed' /\ \A k, j \in Items : Link(k, j) => Link(k, j)'
  BY UpsertLinks
<1> QED BY <1>1, SubtreeStays

LEMMA StoredInodeIs ==
  ASSUME NEW table, NEW i, \A r, s \in table[i] : r = s, NEW n
  PROVE  /\ table[i] = {} => StoredInode(table, i, n) = n
         /\ \A r \in table[i] : r.inode = StoredInode(table, i, n)
<1>1. ASSUME NEW r \in table[i] PROVE (CHOOSE e \in table[i] : TRUE) = r
  <2> DEFINE x == CHOOSE e \in table[i] : TRUE
  <2>1. x \in table[i]
    BY <1>1
  <2> HIDE DEF x
  <2>2. x = r
    BY <2>1
  <2> QED BY <2>2 DEF x
<1> QED BY <1>1 DEF StoredInode

LEMMA StoredInodeType ==
  ASSUME NEW table, NEW i \in Items, NEW n \in Inodes, table \in [Items -> SUBSET PinRows]
  PROVE  StoredInode(table, i, n) \in Inodes
<1>1. ASSUME NEW r \in table[i] PROVE r.inode \in Inodes
  BY DEF PinRows
<1>2. CASE table[i] # {}
  <2> DEFINE x == CHOOSE e \in table[i] : TRUE
  <2>1. x \in table[i]
    BY <1>2
  <2> HIDE DEF x
  <2>2. x.inode \in Inodes
    BY <1>1, <2>1
  <2> QED BY <1>2, <2>2 DEF StoredInode, x
<1>3. CASE table[i] = {}
  BY <1>3 DEF StoredInode
<1> QED BY <1>2, <1>3

(* While a download has folder f open, the new row of a child is below f.  *)
LEMMA UpsertParent ==
  ASSUME PinTypes, OneRowPerInode, NEW i \in Items, NEW n \in Inodes, NEW P \in SUBSET Inodes,
         rows' = Upsert(i, n, P)
  PROVE  \A r \in rows'[i] : r.parent = P
BY UpsertRows

LEMMA UpsertInode ==
  ASSUME PinTypes, OneRowPerInode, NEW i \in Items, NEW n \in Inodes, NEW P \in SUBSET Inodes,
         rows' = Upsert(i, n, P)
  PROVE  /\ rows[i] # {} => \A n2 : (\E r \in rows'[i] : r.inode = n2) <=> (\E r \in rows[i] : r.inode = n2)
         /\ rows[i] = {} => \A r \in rows'[i] : r.inode = n
BY UpsertRows

LEMMA ChildLinked ==
  ASSUME PinTypes, OneRowPerInode, Numbered, Numbered', NEW c \in Items, NEW n \in Inodes,
         Parent[c] \in Rowed \cap Folders,
         rows' = Upsert(c, n, {Vfs(Parent[c])}), rows'[c] # {}
  PROVE  Link(c, Parent[c])'
<1>1. {Vfs(Parent[c])} \in SUBSET Inodes /\ Parent[c] \in Items
  BY VfsApart DEF Rowed
<1>2. \A r \in rows'[c] : r.parent = {Vfs(Parent[c])}
  BY <1>1, UpsertParent
<1>3. rows'[Parent[c]] # {}
  BY <1>1, UpsertLinks DEF Rowed
<1>4. \A r \in rows'[Parent[c]] : r.inode = Vfs(Parent[c])
  BY <1>1 DEF Numbered, Own
<1> QED BY <1>2, <1>3, <1>4 DEF Link

------------------------------------------------------------------------------
(* The stack of a download                                                 *)

(* What is below a folder is below one of its children; below a file is    *)
(* nothing.                                                                *)
LEMMA TreeSplits ==
  ASSUME NEW f \in Items, NEW x \in Tree(f), x # f
  PROVE  \E c \in Children(f) : x \in Tree(c)
<1> DEFINE S == {f} \cup {i \in Items : \E c \in Children(f) : i \in Tree(c)}
<1>1. ASSUME NEW i \in Items, Parent[i] \in S PROVE i \in S
  <2>1. CASE Parent[i] = f
    <3>1. i \in Children(f) /\ i \in Tree(i)
      BY <2>1, TreeRoot DEF Children
    <3> QED BY <3>1
  <2>2. CASE Parent[i] # f
    <3>1. PICK c \in Children(f) : Parent[i] \in Tree(c)
      BY <1>1, <2>2
    <3>2. i \in Tree(c)
      BY <3>1, TreeStep
    <3> QED BY <3>2
  <2> QED BY <2>1, <2>2
<1>2. S \in SUBSET Items /\ f \in S
  OBVIOUS
<1> HIDE DEF S
<1>3. x \in S
  BY <1>1, <1>2 DEF Tree
<1> QED BY <1>3 DEF S

LEMMA TreeOfFile ==
  ASSUME NEW c \in Files, NEW x \in Tree(c)
  PROVE  x = c
<1>1. {c} \in SUBSET Items /\ \A i \in Items : Parent[i] \in {c} => i \in {c}
  BY OfflinePinsConstants DEF Items
<1>2. x \in {c}
  BY <1>1 DEF Tree
<1> QED BY <1>2

(* A download that has just come to its first folder.                      *)
LEMMA ReachesFirst ==
  ASSUME NEW p \in Pinnable, NEW d, d.step = "listing", Len(d.stack) = 1, d.stack[1].folder = p,
         NEW x \in FilesUnder(p)
  PROVE  Reaches(d, x)
<1>1. p \in Items /\ x \in Tree(p) /\ x # p
  BY OfflinePinsConstants DEF FilesUnder, Items
<1>2. PICK c \in Children(p) : x \in Tree(c)
  BY <1>1, TreeSplits
<1>3. 1 \in 1..Len(d.stack) /\ c \in Ahead(d, 1)
  BY <1>2 DEF Ahead
<1> QED BY <1>2, <1>3 DEF Reaches

LEMMA FramedAtGrows ==
  ASSUME NEW d, NEW G, NEW K, NEW K2, NEW B, NEW B2, K \subseteq K2, B \subseteq B2,
         FramedAt(d, G, K, B)
  PROVE  FramedAt(d, G, K2, B2)
BY DEF FramedAt

LEMMA TopIs ==
  ASSUME PinTypes, NEW p \in Pinnable, download[p].step \notin {"none", "pinned"}
  PROVE  /\ download[p] \in Downloads /\ Len(download[p].stack) \in Nat \ {0}
         /\ Top(p) = download[p].stack[Len(download[p].stack)]
         /\ Top(p) \in Frames /\ Top(p).left \subseteq Children(Top(p).folder)
<1>1. download[p] \in Downloads /\ download[p].stack # <<>> /\ Stacked(download[p])
  BY DEF PinTypes, Stacked
<1>2. download[p].stack \in Seq(Frames)
  BY <1>1 DEF Downloads
<1>3. Len(download[p].stack) \in Nat \ {0}
  BY <1>1, <1>2
<1>4. Top(p) = download[p].stack[Len(download[p].stack)]
  BY DEF Top, Last
<1> QED BY <1>1, <1>2, <1>3, <1>4 DEF Stacked

LEMMA ListedIs ==
  ASSUME NEW d \in Downloads, d.stack # <<>>, NEW S \in SUBSET Items
  PROVE  LET e == Listed(d, S)
         IN  /\ e \in Downloads /\ e.stack # <<>>
             /\ e.step = d.step /\ e.base = d.base /\ e.next = d.next /\ e.file = d.file
             /\ Len(e.stack) = Len(d.stack)
             /\ \A k \in 1..Len(d.stack) :
                  /\ e.stack[k].folder = d.stack[k].folder /\ e.stack[k].parent = d.stack[k].parent
                  /\ e.stack[k].left = IF k = Len(d.stack) THEN S ELSE d.stack[k].left
<1> DEFINE n == Len(d.stack)
           frame == [d.stack[n] EXCEPT !.left = S]
           stack == [d.stack EXCEPT ![n] = frame]
<1>1. d.stack \in Seq(Frames) /\ n \in Nat \ {0}
  BY DEF Downloads
<1>2. d.stack[n] \in Frames
  BY <1>1
<1>3. frame \in Frames /\ frame.folder = d.stack[n].folder /\ frame.parent = d.stack[n].parent /\ frame.left = S
  BY <1>2 DEF Frames
<1>4. Listed(d, S) = [d EXCEPT !.stack = stack]
  BY DEF Listed
<1> HIDE DEF frame
<1>5. stack \in Seq(Frames) /\ Len(stack) = n /\ stack # <<>>
  BY <1>1, <1>3
<1>6. \A k \in 1..n : stack[k] = IF k = n THEN frame ELSE d.stack[k]
  BY <1>1
<1> HIDE DEF stack, n
<1>7. /\ Listed(d, S) \in Downloads /\ Listed(d, S).stack = stack
      /\ Listed(d, S).step = d.step /\ Listed(d, S).base = d.base
      /\ Listed(d, S).next = d.next /\ Listed(d, S).file = d.file
  BY <1>4, <1>5 DEF Downloads
<1> QED BY <1>3, <1>5, <1>6, <1>7 DEF n
------------------------------------------------------------------------------
(* Steps that change no row                                                *)

LEMMA RowsKept ==
  ASSUME UNCHANGED rows
  PROVE  /\ Rowed' = Rowed /\ \A p : Subtree(p)' = Subtree(p)
         /\ OneRowPerInode => OneRowPerInode'
         /\ Numbered /\ UNCHANGED inode => Numbered'
<1>1. Rowed' = Rowed
  BY DEF Rowed
<1>2. \A p : Subtree(p)' = Subtree(p)
  BY DEF Subtree, Below
<1>3. OneRowPerInode => OneRowPerInode'
  BY DEF OneRowPerInode
<1>4. Numbered /\ UNCHANGED inode => Numbered'
  BY DEF Numbered, Own
<1> QED BY <1>1, <1>2, <1>3, <1>4

(* A pin ends, is extended or listed.                                      *)
LEMMA PinChange ==
  ASSUME PinsInv, UNCHANGED <<rows, contents, tracked, inode, download, redo, evictor, severed>>,
         pins' \in [Pinnable -> {"none", "valid", "expired"}],
         kept' \in [Pinnable -> SUBSET Files], whole' \in [Pinnable -> BOOLEAN],
         \A p \in Pinnable : /\ kept'[p] \subseteq kept[p]
                             /\ whole'[p] => whole[p]
                             /\ pins'[p] # "valid" => kept'[p] = {}
  PROVE  PinsInv'
<1>1. PinTypes' /\ Forgotten'
  BY DEF PinsInv, PinTypes, Forgotten, Stacked
<1>2. OneRowPerInode'
  BY RowsKept DEF PinsInv
<1>3. ASSUME ~severed' PROVE Numbered' /\ Framed' /\ KeptSafe'
  <2>1. Numbered /\ Framed /\ KeptSafe
    BY <1>3 DEF PinsInv
  <2>2. Numbered'
    BY <2>1, RowsKept
  <2>3. Framed'
    BY <2>1, RowsKept DEF Framed
  <2>4. KeptSafe'
    BY <2>1, RowsKept DEF KeptSafe
  <2> QED BY <2>2, <2>3, <2>4
<1> QED BY <1>1, <1>2, <1>3 DEF PinsInv

LEMMA ForgetKeeps ==
  ASSUME PinsInv, NEW p \in Pinnable, NEW v \in {"none", "expired"},
         pins' = [pins EXCEPT ![p] = v], Forget(p),
         UNCHANGED <<rows, contents, tracked, inode, download, redo, evictor>>
  PROVE  PinsInv'
<1>1. /\ pins' \in [Pinnable -> {"none", "valid", "expired"}]
      /\ kept' \in [Pinnable -> SUBSET Files] /\ whole' \in [Pinnable -> BOOLEAN]
      /\ UNCHANGED severed
  BY DEF PinsInv, PinTypes, Forget
<1>2. ASSUME NEW q \in Pinnable
      PROVE  /\ kept'[q] \subseteq kept[q]
             /\ whole'[q] => whole[q]
             /\ pins'[q] # "valid" => kept'[q] = {}
  <2>1. CASE q = p
    BY <2>1 DEF PinsInv, PinTypes, Forget
  <2>2. CASE q # p
    BY <2>2 DEF PinsInv, PinTypes, Forgotten, Forget
  <2> QED BY <2>1, <2>2
<1> QED BY <1>1, <1>2, PinChange

LEMMA UnpinKeeps == ASSUME PinsInv, NEW p \in Pinnable, Unpin(p) PROVE PinsInv'
BY ForgetKeeps DEF Unpin, stores, cached, workers

LEMMA ExpireKeeps == ASSUME PinsInv, NEW p \in Pinnable, Expire(p) PROVE PinsInv'
BY ForgetKeeps DEF Expire, stores, cached, workers

LEMMA UnpinExpiredKeeps == ASSUME PinsInv, NEW p \in Pinnable, UnpinExpired(p) PROVE PinsInv'
BY ForgetKeeps DEF UnpinExpired, stores, cached, workers

LEMMA ExtendKeeps == ASSUME PinsInv, NEW p \in Pinnable, Extend(p) PROVE PinsInv'
<1>1. /\ pins' \in [Pinnable -> {"none", "valid", "expired"}]
      /\ kept' \in [Pinnable -> SUBSET Files] /\ whole' \in [Pinnable -> BOOLEAN]
      /\ \A q \in Pinnable : pins'[q] # "valid" => pins[q] # "valid"
  BY DEF PinsInv, PinTypes, Extend, history
<1> QED BY <1>1, PinChange DEF Extend, stores, cached, workers, history, PinsInv,
        Forgotten

LEMMA ListExpiredKeeps == ASSUME PinsInv, ListExpired PROVE PinsInv'
<1>1. /\ pins' \in [Pinnable -> {"none", "valid", "expired"}]
      /\ kept' \in [Pinnable -> SUBSET Files] /\ whole' \in [Pinnable -> BOOLEAN]
  BY DEF PinsInv, PinTypes, ListExpired, history
<1> QED BY <1>1, PinChange DEF ListExpired, stores, cached, history, PinsInv, Forgotten

(* A download goes to d.                                                   *)
LEMMA DownloadSet ==
  ASSUME PinTypes, NEW p \in Pinnable, NEW d \in Downloads, Stacked(d),
         download' = [download EXCEPT ![p] = d]
  PROVE  /\ download' \in [Pinnable -> Downloads] /\ \A q \in Pinnable : Stacked(download'[q])
         /\ download'[p] = d /\ \A q \in Pinnable \ {p} : download'[q] = download[q]
BY DEF PinTypes

LEMMA DownloadKeeps ==
  ASSUME PinsInv, NEW p \in Pinnable, NEW d \in Downloads, Stacked(d),
         download' = [download EXCEPT ![p] = d],
         ~severed' => ~severed /\ FramedAt(d, FilesUnder(p), Rowed, Subtree(p)), severed' \in BOOLEAN,
         UNCHANGED <<rows, contents, tracked, inode, redo, evictor, kept>>,
         pins' \in [Pinnable -> {"none", "valid", "expired"}], whole' \in [Pinnable -> BOOLEAN],
         \A q \in Pinnable : /\ pins'[q] # "valid" => pins[q] # "valid"
                             /\ ~severed /\ whole'[q] => whole[q] \/ FilesUnder(q) \subseteq Subtree(q)
  PROVE  PinsInv'
<1>1. PinTypes'
  BY DownloadSet DEF PinsInv, PinTypes
<1>2. OneRowPerInode'
  BY RowsKept DEF PinsInv
<1>3. Forgotten'
  BY DEF PinsInv, Forgotten
<1>4. ASSUME ~severed' PROVE Numbered' /\ Framed' /\ KeptSafe'
  <2>1. Numbered /\ Framed /\ KeptSafe
    BY <1>4 DEF PinsInv
  <2>2. Numbered'
    BY <2>1, RowsKept
  <2>3. Framed'
    BY <1>4, <2>1, RowsKept, DownloadSet DEF Framed, PinsInv
  <2>4. KeptSafe'
    <3> SUFFICES ASSUME NEW q \in Pinnable
                 PROVE  /\ kept'[q] \subseteq Subtree(q)' \cap contents'
                        /\ evictor'.victim \notin kept'[q]
                        /\ whole'[q] => FilesUnder(q) \subseteq Subtree(q)'
      BY DEF KeptSafe, FilesUnder, Tree
    <3>1. Subtree(q)' = Subtree(q)
      BY RowsKept
    <3> QED BY <1>4, <2>1, <3>1 DEF KeptSafe
  <2> QED BY <2>2, <2>3, <2>4
<1> QED BY <1>1, <1>2, <1>3, <1>4 DEF PinsInv

LEMMA NoDownloadType ==
  /\ NoDownload \in Downloads /\ Stacked(NoDownload)
  /\ \A G, K, B : FramedAt(NoDownload, G, K, B)
BY DEF NoDownload, Downloads, Stacked, FramedAt

LEMMA PinFolderKeeps == ASSUME PinsInv, NEW p \in Pinnable, PinFolder(p) PROVE PinsInv'
<1> DEFINE d == [NoDownload EXCEPT !.step = "pinned"]
<1>0. d = [step |-> "pinned", stack |-> <<>>, base |-> "pin", next |-> 0, file |-> NoItem]
  BY DEF NoDownload
<1>2. download' = [download EXCEPT ![p] = d]
  BY DEF PinFolder
<1> HIDE DEF d
<1>1. d \in Downloads /\ Stacked(d) /\ \A G, K, B : FramedAt(d, G, K, B)
  BY <1>0 DEF Downloads, Stacked, FramedAt
<1> HIDE DEF d
<1>3. /\ pins' \in [Pinnable -> {"none", "valid", "expired"}]
      /\ \A q \in Pinnable : pins'[q] # "valid" => pins[q] # "valid"
  BY DEF PinsInv, PinTypes, PinFolder
<1>4. /\ UNCHANGED <<rows, contents, tracked, inode, redo, evictor, kept, whole, severed>>
      /\ severed \in BOOLEAN /\ whole \in [Pinnable -> BOOLEAN]
  BY DEF PinFolder, stores, cached, history, PinsInv, PinTypes
<1> QED BY <1>1, <1>2, <1>3, <1>4, DownloadKeeps

LEMMA SamePins ==
  ASSUME PinsInv, UNCHANGED <<pins, whole>>
  PROVE  /\ pins' \in [Pinnable -> {"none", "valid", "expired"}] /\ whole' \in [Pinnable -> BOOLEAN]
         /\ \A q \in Pinnable : /\ pins'[q] # "valid" => pins[q] # "valid"
                                /\ ~severed /\ whole'[q] => whole[q] \/ FilesUnder(q) \subseteq Subtree(q)
BY DEF PinsInv, PinTypes

LEMMA ListKeeps == ASSUME PinsInv, NEW p \in Pinnable, List(p) PROVE PinsInv'
<1> DEFINE d == download[p]
           t == [d EXCEPT !.step = "children"]
           S == Children(Top(p).folder)
           e == Listed(t, S)
<1>1. d \in Downloads /\ d.step = "listing" /\ d.stack # <<>> /\ S \in SUBSET Items
  BY TopIs DEF List, PinsInv, PinTypes, Stacked, Children
<1>2. /\ t \in Downloads /\ t.step = "children" /\ t.stack = d.stack
  BY <1>1 DEF Downloads
<1>3. download' = [download EXCEPT ![p] = e]
  BY DEF List
<1>4. Top(p) = d.stack[Len(d.stack)] /\ Stacked(d)
  BY TopIs DEF List, PinsInv, PinTypes
<1> HIDE DEF d, t, S
<1>5. /\ e \in Downloads /\ e.stack # <<>> /\ e.step = "children" /\ Len(e.stack) = Len(d.stack)
      /\ \A k \in 1..Len(d.stack) :
           /\ e.stack[k].folder = d.stack[k].folder /\ e.stack[k].parent = d.stack[k].parent
           /\ e.stack[k].left = IF k = Len(d.stack) THEN S ELSE d.stack[k].left
  BY <1>1, <1>2, ListedIs
<1> HIDE DEF e
<1>6. Stacked(e)
  BY <1>4, <1>5 DEF Stacked, S
<1>7. ~severed' => ~severed /\ FramedAt(e, FilesUnder(p), Rowed, Subtree(p))
  <2> SUFFICES ASSUME ~severed' PROVE ~severed /\ FramedAt(e, FilesUnder(p), Rowed, Subtree(p))
    OBVIOUS
  <2>1. ~severed /\ FramedAt(d, FilesUnder(p), Rowed, Subtree(p))
    BY DEF PinsInv, Framed, List, history, d
  <2>2. S = Children(d.stack[Len(d.stack)].folder)
    BY <1>4 DEF S
  <2>3. ASSUME NEW x, Reaches(d, x) PROVE Reaches(e, x)
    <3>1. PICK k \in 1..Len(d.stack) : \E c \in Ahead(d, k) : x \in Tree(c)
      BY <2>3 DEF Reaches
    <3>2. Ahead(e, k) = Ahead(d, k)
      BY <1>1, <1>5, <2>2 DEF Ahead
    <3> QED BY <1>5, <3>1, <3>2 DEF Reaches
  <2> QED BY <1>1, <1>5, <2>1, <2>3 DEF FramedAt
<1>8. UNCHANGED <<rows, contents, tracked, inode, redo, evictor, kept, pins, whole, severed>> /\ severed \in BOOLEAN
  BY DEF List, stores, cached, history, PinsInv, PinTypes
<1> QED BY <1>3, <1>5, <1>6, <1>7, <1>8, SamePins, DownloadKeeps

LEMMA DownloadFailsKeeps == ASSUME PinsInv, NEW p \in Pinnable, DownloadFails(p) PROVE PinsInv'
<1>1. UNCHANGED <<rows, contents, tracked, inode, redo, evictor, kept, pins, whole, severed>> /\ severed \in BOOLEAN
  BY DEF DownloadFails, stores, cached, history, PinsInv, PinTypes
<1>2. download' = [download EXCEPT ![p] = NoDownload]
  BY DEF DownloadFails
<1> QED BY <1>1, <1>2, NoDownloadType, SamePins, DownloadKeeps

LEMMA FolderDoneKeeps == ASSUME PinsInv, NEW p \in Pinnable, FolderDone(p) PROVE PinsInv'
<1> DEFINE d == download[p]
           rest == Front(d.stack)
<1>1. UNCHANGED <<rows, contents, tracked, inode, redo, evictor, kept, pins, severed>> /\ severed \in BOOLEAN
  BY DEF FolderDone, stores, cached, PinsInv, PinTypes
<1>2. d \in Downloads /\ Stacked(d) /\ d.step = "children" /\ Len(d.stack) \in Nat \ {0}
  BY TopIs DEF FolderDone, PinsInv, PinTypes
<1>2a. Top(p) = d.stack[Len(d.stack)] /\ Top(p).left = {}
  BY TopIs DEF FolderDone, PinsInv, PinTypes
<1>2b. ~severed' => ~severed /\ FramedAt(d, FilesUnder(p), Rowed, Subtree(p))
  BY <1>1 DEF PinsInv, Framed
<1>2c. ASSUME NEW x, Reaches(d, x)
       PROVE  \E k \in 1..(Len(d.stack) - 1) : \E c \in d.stack[k].left : x \in Tree(c)
  <2>1. PICK k \in 1..Len(d.stack) : \E c \in Ahead(d, k) : x \in Tree(c)
    BY <1>2c DEF Reaches
  <2>2. Ahead(d, k) = d.stack[k].left
    BY <1>2 DEF Ahead
  <2>3. k # Len(d.stack)
    BY <1>2a, <2>1, <2>2
  <2>4. k \in 1..(Len(d.stack) - 1)
    BY <1>2, <2>3
  <2> QED BY <2>1, <2>2, <2>4
<1>3. CASE rest # <<>>
  <2> DEFINE e == [d EXCEPT !.stack = rest]
  <2>1. download' = [download EXCEPT ![p] = e] /\ UNCHANGED whole
    BY <1>3 DEF FolderDone
  <2>2. /\ rest \in Seq(Frames) /\ Len(rest) = Len(d.stack) - 1
        /\ \A k \in 1..Len(rest) : k \in 1..Len(d.stack) /\ rest[k] = d.stack[k]
    <3>1. d.stack \in Seq(Frames)
      BY <1>2 DEF Downloads
    <3>2. rest = [k \in 1..(Len(d.stack) - 1) |-> d.stack[k]]
      BY <1>2 DEF Front
    <3> HIDE DEF d, rest
    <3> QED BY <1>2, <3>1, <3>2
  <2>3. e \in Downloads /\ e.stack = rest /\ e.step = "children"
    BY <1>2, <2>2 DEF Downloads
  <2> HIDE DEF e, rest
  <2>4. Stacked(e)
    BY <1>2, <1>3, <2>2, <2>3 DEF Stacked
  <2>5. ~severed' => ~severed /\ FramedAt(e, FilesUnder(p), Rowed, Subtree(p))
    <3>1. ASSUME NEW x, Reaches(d, x) PROVE Reaches(e, x)
      <4>1. PICK k \in 1..Len(e.stack) : \E c \in d.stack[k].left : x \in Tree(c)
        BY <1>2c, <2>2, <2>3, <3>1
      <4>2. Ahead(e, k) = d.stack[k].left
        BY <2>2, <2>3, <4>1 DEF Ahead
      <4> QED BY <4>1, <4>2 DEF Reaches
    <3>2. ASSUME ~severed' PROVE FramedAt(e, FilesUnder(p), Rowed, Subtree(p))
      <4>1. FramedAt(d, FilesUnder(p), Rowed, Subtree(p)) /\ d.stack # <<>>
        BY <1>2, <1>2b, <3>2 DEF Stacked
      <4>2. \A x \in FilesUnder(p) : x \in Subtree(p) \/ Reaches(e, x)
        BY <3>1, <4>1 DEF FramedAt
      <4>3. \A k \in 1..Len(e.stack) : e.stack[k] = d.stack[k] /\ k \in 1..Len(d.stack)
        BY <2>2, <2>3
      <4> QED BY <2>3, <4>1, <4>2, <4>3 DEF FramedAt
    <3> QED BY <1>2b, <3>2
  <2> QED BY <1>1, <2>1, <2>3, <2>4, <2>5, SamePins, DownloadKeeps
<1>4. CASE rest = <<>>
  <2>0. d.stack # <<>> /\ Len(d.stack) = 1
    <3>1. d.stack \in Seq(Frames)
      BY <1>2 DEF Downloads
    <3>2. rest = [k \in 1..(Len(d.stack) - 1) |-> d.stack[k]]
      BY <1>2 DEF Front
    <3> HIDE DEF d, rest
    <3>3. rest \in Seq(Frames) /\ Len(rest) = Len(d.stack) - 1
      BY <1>2, <3>1, <3>2
    <3> QED BY <1>2, <1>4, <3>1, <3>3
  <2>1. download' = [download EXCEPT ![p] = NoDownload] /\ whole' = [whole EXCEPT ![p] = TRUE]
    BY <1>4 DEF FolderDone
  <2>2. ~severed => FilesUnder(p) \subseteq Subtree(p)
    <3> SUFFICES ASSUME ~severed, NEW x \in FilesUnder(p) PROVE x \in Subtree(p)
      OBVIOUS
    <3>1. x \in Subtree(p) \/ Reaches(d, x)
      BY <1>1, <1>2b, <2>0 DEF FramedAt
    <3>2. ~Reaches(d, x)
      BY <1>2c, <2>0
    <3> QED BY <3>1, <3>2
  <2>3. /\ pins' \in [Pinnable -> {"none", "valid", "expired"}] /\ whole' \in [Pinnable -> BOOLEAN]
        /\ \A q \in Pinnable : pins'[q] # "valid" => pins[q] # "valid"
    BY <1>1, <2>1 DEF PinsInv, PinTypes
  <2>4. ASSUME NEW q \in Pinnable, ~severed, whole'[q]
        PROVE  whole[q] \/ FilesUnder(q) \subseteq Subtree(q)
    BY <2>1, <2>2, <2>4 DEF PinsInv, PinTypes
  <2> QED BY <1>1, <2>1, <2>3, <2>4, NoDownloadType, DownloadKeeps
<1> QED BY <1>3, <1>4

LEMMA ResumedIs ==
  ASSUME NEW s
  PROVE  [NoDownload EXCEPT !.step = "listing", !.base = "resume", !.stack = s] =
         [step |-> "listing", stack |-> s, base |-> "resume", next |-> 0, file |-> NoItem]
<1> DEFINE d1 == [NoDownload EXCEPT !.step = "listing"]
           d2 == [d1 EXCEPT !.base = "resume"]
<1>1. d1 = [step |-> "listing", stack |-> <<>>, base |-> "pin", next |-> 0, file |-> NoItem]
  BY DEF NoDownload
<1>2. [NoDownload EXCEPT !.step = "listing", !.base = "resume", !.stack = s] = [d2 EXCEPT !.stack = s]
  OBVIOUS
<1> HIDE DEF d1
<1>3. d2 = [step |-> "listing", stack |-> <<>>, base |-> "resume", next |-> 0, file |-> NoItem]
  BY <1>1
<1> HIDE DEF d2
<1> QED BY <1>2, <1>3

LEMMA ResumeKeeps == ASSUME PinsInv, NEW p \in Pinnable, Resume(p) PROVE PinsInv'
<1> DEFINE n == StoredInode(rows, p, Temp("resume", 0))
           e == [NoDownload EXCEPT !.step = "listing", !.base = "resume", !.stack = <<Frame(p, n)>>]
<1>0. UNCHANGED <<rows, contents, tracked, inode, redo, evictor, pins>> /\ severed \in BOOLEAN
  BY DEF Resume, stores, cached, PinsInv, PinTypes
<1>1. CASE UNCHANGED <<download, history>>
  <2>1. /\ pins' \in [Pinnable -> {"none", "valid", "expired"}]
        /\ kept' \in [Pinnable -> SUBSET Files] /\ whole' \in [Pinnable -> BOOLEAN]
    BY <1>0, <1>1 DEF PinsInv, PinTypes, history
  <2> QED BY <1>0, <1>1, <2>1, PinChange DEF history, PinsInv, Forgotten
<1>2. CASE download' = [download EXCEPT ![p] = e] /\ Severs(n # inode[p])
  <2>0. p \in Items /\ p \in Folders
    BY OfflinePinsConstants DEF Items
  <2>1. n \in Inodes
    BY <2>0, StoredInodeType, VfsApart DEF PinsInv, PinTypes
  <2>2. rows[p] = {} => n \in Temps
    BY VfsApart DEF StoredInode
  <2> HIDE DEF n
  <2>3. /\ e \in Downloads /\ e.step = "listing" /\ Len(e.stack) = 1 /\ e.stack # <<>>
        /\ e.stack[1] = Frame(p, n)
    <3>1. Frame(p, n) \in Frames
      BY <2>0, <2>1 DEF Frame, Frames
    <3> DEFINE F == <<Frame(p, n)>>
    <3>2. F \in Seq(Frames) /\ Len(F) = 1 /\ F # <<>> /\ F[1] = Frame(p, n)
      BY <3>1
    <3> HIDE DEF F
    <3>3. e = [step |-> "listing", stack |-> F, base |-> "resume", next |-> 0, file |-> NoItem]
      BY ResumedIs DEF F
    <3> HIDE DEF e
    <3> QED BY <3>2, <3>3 DEF Downloads
  <2> HIDE DEF e
  <2>4. Stacked(e)
    BY <2>3 DEF Stacked, Frame
  <2>5. ASSUME ~severed' PROVE ~severed /\ FramedAt(e, FilesUnder(p), Rowed, Subtree(p))
    <3>1. ~severed /\ n = inode[p]
      BY <1>2, <2>5 DEF Severs
    <3>2. n = Vfs(p)
      BY <2>0, <3>1 DEF PinsInv, Numbered, Own
    <3>3. rows[p] # {}
      BY <2>2, <3>2, VfsApart
    <3>4. p \in Rowed \cap Subtree(p)
      BY <2>0, <3>3, SubtreeRoot DEF Rowed
    <3>5. \A x \in FilesUnder(p) : Reaches(e, x)
      BY <2>3, ReachesFirst DEF Frame
    <3> QED BY <2>3, <3>1, <3>2, <3>4, <3>5 DEF FramedAt, Frame
  <2>6. UNCHANGED <<kept, whole>> /\ severed' \in BOOLEAN
    BY <1>0, <1>2 DEF Severs
  <2> QED BY <1>0, <1>2, <2>3, <2>4, <2>5, <2>6, SamePins, DownloadKeeps
<1> QED BY <1>1, <1>2 DEF Resume

------------------------------------------------------------------------------
(* Steps on the contents                                                   *)

(* No row, no download and no pin changes.                                 *)
LEMMA ContentKeeps ==
  ASSUME PinsInv, UNCHANGED <<pins, rows, inode, download, severed, whole>>,
         contents' \subseteq Files, tracked' \subseteq Files, redo' \subseteq Files,
         kept' \in [Pinnable -> SUBSET Files], \A q \in Pinnable : kept'[q] \subseteq kept[q],
         evictor' = [left |-> evictor'.left, victim |-> evictor'.victim, free |-> evictor'.free],
         Numbered /\ Framed /\ KeptSafe =>
           \A q \in Pinnable : kept'[q] \subseteq contents' /\ evictor'.victim \notin kept'[q]
  PROVE  PinsInv'
<1>1. PinTypes' /\ Forgotten'
  BY DEF PinsInv, PinTypes, Stacked, Forgotten
<1>2. OneRowPerInode'
  BY RowsKept DEF PinsInv
<1>4. ASSUME ~severed' PROVE Numbered' /\ Framed' /\ KeptSafe'
  <2>1. Numbered /\ Framed /\ KeptSafe
    BY <1>4 DEF PinsInv
  <2>2. Numbered'
    BY <2>1, RowsKept
  <2>3. Framed'
    BY <2>1, RowsKept DEF Framed
  <2>4. KeptSafe'
    BY <2>1, RowsKept DEF KeptSafe, FilesUnder, Tree
  <2> QED BY <2>2, <2>3, <2>4
<1> QED BY <1>1, <1>2, <1>4 DEF PinsInv

LEMMA KeptSame ==
  ASSUME PinsInv, UNCHANGED kept
  PROVE  kept' \in [Pinnable -> SUBSET Files] /\ \A q \in Pinnable : kept'[q] \subseteq kept[q]
BY DEF PinsInv, PinTypes

LEMMA PutContentIs ==
  ASSUME PinTypes, NEW x \in Files, PutContent(x)
  PROVE  contents' \subseteq Files /\ tracked' \subseteq Files /\ contents \subseteq contents' /\ x \in contents'
BY DEF PinTypes, PutContent

LEMMA RemoveContentIs ==
  ASSUME PinTypes, NEW x \in Files, RemoveContent(x)
  PROVE  /\ contents' \subseteq Files /\ tracked' \subseteq Files /\ contents \ {x} \subseteq contents'
BY DEF PinTypes, RemoveContent

LEMMA OpenKeeps == ASSUME PinsInv, NEW x \in Files, Open(x) PROVE PinsInv'
<1>1. UNCHANGED <<pins, rows, inode, download, severed, whole, redo, kept, evictor>> /\ PinTypes
  BY DEF PinsInv, Open, workers, history
<1>2. evictor = [left |-> evictor.left, victim |-> evictor.victim, free |-> evictor.free] /\ redo \subseteq Files
  BY <1>1 DEF PinTypes
<1>3. contents' \subseteq Files /\ tracked' \subseteq Files /\ contents \subseteq contents'
  BY <1>1, PutContentIs DEF Open
<1> QED BY <1>1, <1>2, <1>3, KeptSame, ContentKeeps DEF KeptSafe

(* What a download kept is not asked for any more once it is not current.  *)
LEMMA NotCurrentIs ==
  ASSUME PinTypes, NEW x \in Files, NotCurrent(x)
  PROVE  /\ kept' \in [Pinnable -> SUBSET Files] /\ UNCHANGED <<whole, severed>>
         /\ \A q \in Pinnable : kept'[q] \subseteq kept[q] \ {x}
BY DEF PinTypes, NotCurrent

LEMMA DropStaleKeeps == ASSUME PinsInv, NEW x \in Files, DropStale(x) PROVE PinsInv'
<1>1. UNCHANGED <<pins, rows, inode, download, redo, evictor>> /\ PinTypes
  BY DEF PinsInv, DropStale, workers
<1>2. evictor = [left |-> evictor.left, victim |-> evictor.victim, free |-> evictor.free] /\ redo \subseteq Files
  BY <1>1 DEF PinTypes
<1>3. contents' \subseteq Files /\ tracked' \subseteq Files /\ contents \ {x} \subseteq contents'
  BY <1>1, RemoveContentIs DEF DropStale
<1>4. /\ kept' \in [Pinnable -> SUBSET Files] /\ UNCHANGED <<whole, severed>>
      /\ \A q \in Pinnable : kept'[q] \subseteq kept[q] \ {x}
  BY <1>1, NotCurrentIs DEF DropStale
<1>5. ASSUME KeptSafe, NEW q \in Pinnable
      PROVE  kept'[q] \subseteq contents' /\ evictor'.victim \notin kept'[q]
  BY <1>1, <1>3, <1>4, <1>5 DEF KeptSafe
<1> QED BY <1>1, <1>2, <1>3, <1>4, <1>5, ContentKeeps

LEMMA RedownloadKeeps == ASSUME PinsInv, NEW x \in Files, Redownload(x) PROVE PinsInv'
<1>1. /\ UNCHANGED <<pins, rows, inode, download, evictor, kept, whole, severed>> /\ PinTypes
      /\ PutContent(x) \/ UNCHANGED <<contents, tracked>>
      /\ redo' \subseteq redo
  BY DEF PinsInv, Redownload, history, cached
<1>2. /\ evictor = [left |-> evictor.left, victim |-> evictor.victim, free |-> evictor.free]
      /\ redo' \subseteq Files /\ contents \subseteq Files /\ tracked \subseteq Files
  BY <1>1 DEF PinTypes
<1>3. contents' \subseteq Files /\ tracked' \subseteq Files /\ contents \subseteq contents'
  BY <1>1, <1>2, PutContentIs
<1> QED BY <1>1, <1>2, <1>3, KeptSame, ContentKeeps DEF KeptSafe

LEMMA GoOnIs ==
  ASSUME NEW l, NEW v, NEW f
  PROVE  LET e == GoOn([left |-> l, victim |-> v, free |-> f])
         IN  /\ e = [left |-> e.left, victim |-> e.victim, free |-> e.free]
             /\ e.victim \in {v, NoItem}
BY DEF GoOn, NoEviction

LEMMA PickedIs ==
  ASSUME PinTypes, NEW l2, NEW v2
  PROVE  [evictor EXCEPT !.left = l2, !.victim = v2] = [left |-> l2, victim |-> v2, free |-> evictor.free]
<1>1. PICK l, v, f : evictor = [left |-> l, victim |-> v, free |-> f]
  BY DEF PinTypes
<1>2. [evictor EXCEPT !.left = l2] = [left |-> l2, victim |-> v, free |-> f] /\ evictor.free = f
  BY <1>1
<1>3. [[left |-> l2, victim |-> v, free |-> f] EXCEPT !.victim = v2] = [left |-> l2, victim |-> v2, free |-> f]
  OBVIOUS
<1> QED BY <1>2, <1>3

LEMMA RemovedIs ==
  ASSUME PinTypes, NEW f2, NEW v2
  PROVE  [evictor EXCEPT !.victim = v2, !.free = f2] = [left |-> evictor.left, victim |-> v2, free |-> f2]
<1>1. PICK l, v, f : evictor = [left |-> l, victim |-> v, free |-> f]
  BY DEF PinTypes
<1>2. [evictor EXCEPT !.victim = v2] = [left |-> l, victim |-> v2, free |-> f] /\ evictor.left = l
  BY <1>1
<1>3. [[left |-> l, victim |-> v2, free |-> f] EXCEPT !.free = f2] = [left |-> l, victim |-> v2, free |-> f2]
  OBVIOUS
<1> QED BY <1>2, <1>3

LEMMA NoItemApart == ASSUME PinTypes, NEW q \in Pinnable PROVE NoItem \notin kept[q]
BY OfflinePinsConstants DEF PinTypes, Items

LEMMA EvictStartKeeps == ASSUME PinsInv, EvictStart PROVE PinsInv'
<1>1. /\ UNCHANGED <<pins, rows, inode, download, severed, whole, contents, tracked, redo, kept>>
      /\ contents \subseteq Files /\ tracked \subseteq Files /\ redo \subseteq Files /\ PinTypes
  BY DEF PinsInv, PinTypes, EvictStart, stores, cached, history
<1>2. evictor' = [left |-> evictor'.left, victim |-> evictor'.victim, free |-> evictor'.free] /\ evictor'.victim = NoItem
  BY DEF EvictStart, NoEviction
<1> QED BY <1>1, <1>2, NoItemApart, KeptSame, ContentKeeps DEF KeptSafe

LEMMA EvictPickKeeps == ASSUME PinsInv, NEW x \in Files, EvictPick(x) PROVE PinsInv'
<1>1. /\ UNCHANGED <<pins, rows, inode, download, severed, whole, contents, tracked, redo, kept>>
      /\ contents \subseteq Files /\ tracked \subseteq Files /\ redo \subseteq Files /\ PinTypes
  BY DEF PinsInv, PinTypes, EvictPick, stores, cached, history
<1>2. PICK v \in {NoItem, x} :
        /\ v = IF IsProtected(x) THEN NoItem ELSE x
        /\ evictor' = GoOn([evictor EXCEPT !.left = @ \ {x}, !.victim = v])
  BY DEF EvictPick
<1>3. [evictor EXCEPT !.left = @ \ {x}, !.victim = v] = [left |-> evictor.left \ {x}, victim |-> v, free |-> evictor.free]
  BY <1>1, PickedIs
<1>4. /\ evictor' = [left |-> evictor'.left, victim |-> evictor'.victim, free |-> evictor'.free]
      /\ evictor'.victim \in {v, NoItem}
  BY <1>2, <1>3, GoOnIs
<1>5. ASSUME Numbered /\ Framed /\ KeptSafe, NEW q \in Pinnable
      PROVE  kept[q] \subseteq contents' /\ evictor'.victim \notin kept[q]
  <2>1. ASSUME x \in kept[q] PROVE IsProtected(x)
    <3>1. pins[q] = "valid"
      BY <2>1 DEF PinsInv, Forgotten
    <3>2. q \in Items /\ x \in Subtree(q)
      BY <1>5, <2>1, OfflinePinsConstants DEF KeptSafe, Items
    <3> QED BY <3>1, <3>2, Climb DEF IsProtected, Valid
  <2>2. v \notin kept[q]
    BY <1>1, <1>2, <2>1, NoItemApart
  <2>3. kept[q] \subseteq contents'
    BY <1>1, <1>5 DEF KeptSafe
  <2> QED BY <1>1, <1>4, <2>2, <2>3, NoItemApart
<1> QED BY <1>1, <1>4, <1>5, KeptSame, ContentKeeps

LEMMA EvictRemoveKeeps == ASSUME PinsInv, EvictRemove PROVE PinsInv'
<1>1. /\ UNCHANGED <<pins, rows, inode, download, severed, whole, redo, kept>>
      /\ contents' \subseteq Files /\ tracked' \subseteq Files /\ redo \subseteq Files /\ PinTypes
  BY DEF PinsInv, PinTypes, EvictRemove, history
<1>3. [evictor EXCEPT !.victim = NoItem, !.free = @ - 1] = [left |-> evictor.left, victim |-> NoItem, free |-> evictor.free - 1]
  BY <1>1, RemovedIs
<1>4. /\ evictor' = [left |-> evictor'.left, victim |-> evictor'.victim, free |-> evictor'.free]
      /\ evictor'.victim = NoItem
  BY <1>3, GoOnIs DEF EvictRemove
<1>5. ASSUME KeptSafe, NEW q \in Pinnable
      PROVE  kept[q] \subseteq contents' /\ evictor'.victim \notin kept[q]
  BY <1>1, <1>4, <1>5, NoItemApart DEF KeptSafe, EvictRemove
<1> QED BY <1>1, <1>4, <1>5, KeptSame, ContentKeeps

LEMMA KeepKeeps ==
  ASSUME PinsInv, NEW p \in Pinnable, NEW c \in Files, Keep(p, c), UNCHANGED <<pins, evictor>>
  PROVE  /\ kept' \in [Pinnable -> SUBSET Files] /\ Forgotten' /\ UNCHANGED whole
         /\ KeptSafe /\ c \in contents' /\ contents \subseteq contents'
              /\ (\A q \in Pinnable : Subtree(q) \subseteq Subtree(q)') /\ c \in Subtree(p)'
            => KeptSafe'
<1>0. UNCHANGED whole /\ kept \in [Pinnable -> SUBSET Files]
  BY DEF Keep, PinsInv, PinTypes
<1>1. PICK K \in {kept[p], kept[p] \cup {c}} :
        /\ kept' = [kept EXCEPT ![p] = K]
        /\ K # kept[p] => pins[p] = "valid" /\ evictor.victim # c
  BY DEF Keep
<1>2. kept' \in [Pinnable -> SUBSET Files] /\ kept'[p] = K /\ \A q \in Pinnable \ {p} : kept'[q] = kept[q]
  BY <1>0, <1>1
<1>3. Forgotten'
  BY <1>1, <1>2 DEF PinsInv, Forgotten
<1>4. ASSUME KeptSafe, c \in contents', contents \subseteq contents',
             \A q \in Pinnable : Subtree(q) \subseteq Subtree(q)', c \in Subtree(p)', NEW q \in Pinnable
      PROVE  /\ kept'[q] \subseteq Subtree(q)' \cap contents'
             /\ evictor'.victim \notin kept'[q]
             /\ whole'[q] => FilesUnder(q) \subseteq Subtree(q)'
  <2>1. CASE q # p
    BY <1>0, <1>2, <1>4, <2>1 DEF KeptSafe
  <2>2. CASE q = p
    <3>1. kept'[p] \subseteq Subtree(p)' \cap contents' /\ evictor'.victim \notin kept'[p]
      BY <1>1, <1>2, <1>4 DEF KeptSafe
    <3>2. whole'[p] => FilesUnder(p) \subseteq Subtree(p)'
      BY <1>0, <1>4 DEF KeptSafe
    <3> QED BY <1>2, <2>2, <3>1, <3>2
  <2> QED BY <2>1, <2>2
<1>5. FilesUnder(p)' = FilesUnder(p)
  BY DEF FilesUnder, Tree
<1> QED BY <1>0, <1>2, <1>3, <1>4 DEF KeptSafe, FilesUnder, Tree

LEMMA ChildContentKeeps == ASSUME PinsInv, NEW p \in Pinnable, ChildContent(p) PROVE PinsInv'
<1> DEFINE d == download[p]
           c == d.file
           e == [d EXCEPT !.step = "children", !.file = NoItem]
<1>1. d \in Downloads /\ Stacked(d) /\ d.step = "fetching" /\ c \in Files /\ PinTypes
  BY DEF ChildContent, PinsInv, PinTypes, Stacked
<1>2. /\ UNCHANGED <<pins, rows, inode, redo, evictor, severed>> /\ Keep(p, c)
      /\ PutContent(c)
  BY DEF ChildContent
<1>2a. contents' \subseteq Files /\ tracked' \subseteq Files /\ contents \subseteq contents' /\ c \in contents'
  BY <1>1, <1>2, PutContentIs
<1>3. download' = [download EXCEPT ![p] = e]
  <2>1. [download EXCEPT ![p].step = "children", ![p].file = NoItem] = [download EXCEPT ![p] = e]
    BY <1>1 DEF PinTypes
  <2> QED BY <2>1 DEF ChildContent
<1>4. e \in Downloads /\ e.step = "children" /\ e.stack = d.stack
  BY <1>1 DEF Downloads
<1> HIDE DEF e
<1>5. Stacked(e)
  BY <1>1, <1>4 DEF Stacked
<1>6. kept' \in [Pinnable -> SUBSET Files] /\ Forgotten' /\ UNCHANGED whole
  BY <1>1, <1>2, KeepKeeps
<1>7. PinTypes'
  BY <1>1, <1>2, <1>2a, <1>3, <1>4, <1>5, <1>6, DownloadSet DEF PinTypes
<1>8. OneRowPerInode'
  BY <1>2, RowsKept DEF PinsInv
<1>9. ASSUME ~severed' PROVE Numbered' /\ Framed' /\ KeptSafe'
  <2>1. Numbered /\ Framed /\ KeptSafe
    BY <1>2, <1>9 DEF PinsInv
  <2>2. Numbered'
    BY <1>2, <2>1, RowsKept
  <2>3. c \in Subtree(p) /\ FramedAt(e, FilesUnder(p), Rowed, Subtree(p))
    BY <1>1, <1>4, <2>1 DEF Framed, FramedAt, Reaches, Ahead
  <2>4. Framed'
    BY <1>1, <1>2, <1>3, <1>4, <1>5, <2>1, <2>3, RowsKept, DownloadSet DEF Framed
  <2>5. KeptSafe'
    BY <1>1, <1>2, <1>2a, <2>1, <2>3, KeepKeeps, RowsKept
  <2> QED BY <2>2, <2>4, <2>5
<1> QED BY <1>6, <1>7, <1>8, <1>9 DEF PinsInv

------------------------------------------------------------------------------
(* Steps that store rows                                                   *)

LEMMA FramedKeeps ==
  ASSUME Framed, NEW p \in Pinnable, Rowed \subseteq Rowed',
         \A q \in Pinnable : Subtree(q) \subseteq Subtree(q)',
         \A q \in Pinnable \ {p} : download'[q] = download[q],
         FramedAt(download'[p], FilesUnder(p), Rowed', Subtree(p)')
  PROVE  Framed'
BY FramedAtGrows DEF Framed

(* A row stored through the mount or by delta sync.                        *)
LEMMA ParentInodeIs ==
  ASSUME PinTypes, NEW i \in Items
  PROVE  /\ ParentInode(i) \in Inodes /\ inode[i] \in Inodes
         /\ Numbered => ParentInode(i) = Vfs(Parent[i]) /\ inode[i] \in Own(i)
<1>1. Parent[i] = NoItem \/ (Parent[i] \in Items /\ Parent[i] \in Folders)
  BY OfflinePinsConstants DEF Items
<1> QED BY <1>1, VfsApart DEF ParentInode, PinTypes, Inodes, Numbered, Own, Vfs

LEMMA StoreKeeps ==
  ASSUME PinTypes, OneRowPerInode, NEW i \in Items,
         rows' = Upsert(i, inode[i], {ParentInode(i)}), UNCHANGED inode
  PROVE  /\ rows' \in [Items -> SUBSET PinRows] /\ OneRowPerInode'
         /\ Numbered => /\ Numbered' /\ Rowed \subseteq Rowed'
                        /\ \A p \in Pinnable : Subtree(p) \subseteq Subtree(p)'
<1>1. ParentInode(i) \in Inodes /\ inode[i] \in Inodes /\ {ParentInode(i)} \in SUBSET Inodes
  BY ParentInodeIs
<1>2. /\ rows' \in [Items -> SUBSET PinRows] /\ OneRowPerInode'
      /\ rows[i] # {} => \A n2 : (\E r \in rows'[i] : r.inode = n2) <=> (\E r \in rows[i] : r.inode = n2)
      /\ rows[i] = {} => \A r \in rows'[i] : r.inode = inode[i]
  <2> DEFINE n == inode[i]
             P == {ParentInode(i)}
  <2>1. n \in Inodes /\ P \in SUBSET Inodes /\ rows' = Upsert(i, n, P)
    BY <1>1
  <2> HIDE DEF n, P
  <2>2. /\ rows' \in [Items -> SUBSET PinRows] /\ OneRowPerInode'
        /\ rows[i] # {} => \A n2 : (\E r \in rows'[i] : r.inode = n2) <=> (\E r \in rows[i] : r.inode = n2)
        /\ rows[i] = {} => \A r \in rows'[i] : r.inode = n
    BY <2>1, UpsertRows
  <2> QED BY <2>2 DEF n
<1>3. ASSUME Numbered
      PROVE  /\ Numbered' /\ Rowed \subseteq Rowed'
             /\ \A p \in Pinnable : Subtree(p) \subseteq Subtree(p)'
  <2>1. ParentInode(i) = Vfs(Parent[i]) /\ inode[i] \in Own(i)
    BY <1>3, ParentInodeIs
  <2>2. \A r \in rows'[i] : r.inode \in Own(i)
    BY <1>2, <1>3, <2>1 DEF Numbered
  <2>3. Numbered'
    BY <1>1, <1>3, <2>1, <2>2, UpsertNumbered
  <2>4. Rowed \subseteq Rowed' /\ \A p \in Pinnable : Subtree(p) \subseteq Subtree(p)'
    BY <1>1, <1>3, <2>1, UpsertGrows
  <2> QED BY <2>3, <2>4
<1> QED BY <1>2, <1>3

LEMMA BrowseKeeps == ASSUME PinsInv, NEW i \in Items, Browse(i) PROVE PinsInv'
<1>1. /\ rows' = Upsert(i, inode[i], {ParentInode(i)})
      /\ UNCHANGED <<pins, inode, contents, tracked, download, redo, evictor, kept, whole, severed>>
      /\ PinTypes /\ OneRowPerInode
  BY DEF Browse, workers, history, PinsInv, cached
<1>2. rows' \in [Items -> SUBSET PinRows] /\ OneRowPerInode'
  BY <1>1, StoreKeeps
<1>3. PinTypes' /\ Forgotten'
  BY <1>1, <1>2 DEF PinTypes, Stacked, PinsInv, Forgotten
<1>4. ASSUME ~severed' PROVE Numbered' /\ Framed' /\ KeptSafe'
  <2>1. Numbered /\ Framed /\ KeptSafe
    BY <1>1, <1>4 DEF PinsInv
  <2>2. /\ Numbered' /\ Rowed \subseteq Rowed'
        /\ \A p \in Pinnable : Subtree(p) \subseteq Subtree(p)'
    BY <1>1, <2>1, StoreKeeps
  <2>3. Framed'
    BY <1>1, <2>1, <2>2, FramedAtGrows DEF Framed
  <2>4. KeptSafe'
    BY <1>1, <2>1, <2>2 DEF KeptSafe, FilesUnder, Tree
  <2> QED BY <2>2, <2>3, <2>4
<1> QED BY <1>2, <1>3, <1>4 DEF PinsInv

LEMMA RemoteChangeKeeps == ASSUME PinsInv, NEW x \in Files, RemoteChange(x) PROVE PinsInv'
<1>1. /\ rows' = Upsert(x, inode[x], {ParentInode(x)})
      /\ UNCHANGED <<pins, inode, download, evictor, severed>>
      /\ RemoveContent(x) \/ UNCHANGED <<contents, tracked>>
      /\ redo' = {x} /\ NotCurrent(x)
      /\ PinTypes /\ OneRowPerInode /\ x \in Items
  BY DEF RemoteChange, PinsInv, Items, NotCurrent, cached
<1>1a. contents' \subseteq Files /\ tracked' \subseteq Files /\ contents \ {x} \subseteq contents'
  BY <1>1, RemoveContentIs DEF PinTypes
<1>2. rows' \in [Items -> SUBSET PinRows] /\ OneRowPerInode'
  BY <1>1, StoreKeeps
<1>3. /\ kept' \in [Pinnable -> SUBSET Files] /\ UNCHANGED <<whole, severed>>
      /\ \A q \in Pinnable : kept'[q] \subseteq kept[q] \ {x}
  BY <1>1, NotCurrentIs
<1>4. PinTypes' /\ Forgotten'
  BY <1>1, <1>1a, <1>2, <1>3 DEF PinTypes, Stacked, PinsInv, Forgotten
<1>5. ASSUME ~severed' PROVE Numbered' /\ Framed' /\ KeptSafe'
  <2>1. Numbered /\ Framed /\ KeptSafe
    BY <1>1, <1>5 DEF PinsInv
  <2>2. /\ Numbered' /\ Rowed \subseteq Rowed'
        /\ \A p \in Pinnable : Subtree(p) \subseteq Subtree(p)'
    BY <1>1, <2>1, StoreKeeps
  <2>3. Framed'
    BY <1>1, <2>1, <2>2, FramedAtGrows DEF Framed
  <2>4. KeptSafe'
    <3> SUFFICES ASSUME NEW q \in Pinnable
                 PROVE  /\ kept'[q] \subseteq Subtree(q)' \cap contents'
                        /\ evictor'.victim \notin kept'[q]
                        /\ whole'[q] => FilesUnder(q) \subseteq Subtree(q)'
      BY DEF KeptSafe, FilesUnder, Tree
    <3> QED BY <1>1, <1>1a, <1>3, <2>1, <2>2 DEF KeptSafe
  <2> QED BY <2>2, <2>3, <2>4
<1> QED BY <1>2, <1>4, <1>5 DEF PinsInv

LEMMA ClearKeeps == ASSUME PinsInv, Clear PROVE PinsInv'
<1>1. /\ rows' = [i \in Items |-> {}] /\ contents' = {} /\ tracked' = {} /\ inode' = [i \in Items |-> Vfs(i)]
      /\ kept' = [p \in Pinnable |-> {}] /\ whole' = [p \in Pinnable |-> FALSE]
      /\ UNCHANGED <<pins, download, redo, evictor, severed>>
      /\ PinTypes /\ \A p \in Pinnable : download[p].step = "none"
  BY DEF Clear, workers, PinsInv
<1>2. /\ rows' \in [Items -> SUBSET PinRows] /\ inode' \in [Items -> Inodes] /\ contents' \subseteq Files /\ tracked' \subseteq Files
      /\ kept' \in [Pinnable -> SUBSET Files] /\ whole' \in [Pinnable -> BOOLEAN]
  BY <1>1, VfsApart
<1>3. PinTypes' /\ Forgotten' /\ OneRowPerInode'
  BY <1>1, <1>2 DEF PinTypes, Stacked, Forgotten, OneRowPerInode
<1>4. Numbered'
  BY <1>1 DEF Numbered, Own
<1>5. Framed'
  <2>1. ASSUME NEW p \in Pinnable PROVE download[p].stack = <<>>
    BY <1>1 DEF PinTypes, Stacked
  <2> QED BY <1>1, <2>1 DEF Framed, FramedAt
<1>6. KeptSafe'
  BY <1>1 DEF KeptSafe
<1> QED BY <1>3, <1>4, <1>5, <1>6 DEF PinsInv

LEMMA RelaunchKeeps == ASSUME PinsInv, Relaunch PROVE PinsInv'
<1>1. /\ inode' = [i \in Items |-> StoredInode(rows, i, Vfs(i))]
      /\ download' = [p \in Pinnable |-> NoDownload] /\ redo' = {} /\ evictor' = NoEviction
      /\ UNCHANGED <<pins, rows, contents, tracked, kept, whole, severed>>
      /\ PinTypes /\ OneRowPerInode /\ Forgotten
  BY DEF Relaunch, stores, cached, history, PinsInv
<1>2. inode' \in [Items -> Inodes]
  BY <1>1, StoredInodeType, VfsApart DEF PinTypes
<1>3. download' \in [Pinnable -> Downloads] /\ \A p \in Pinnable : Stacked(download'[p])
  BY <1>1, NoDownloadType
<1>4. evictor' = [left |-> evictor'.left, victim |-> evictor'.victim, free |-> evictor'.free] /\ evictor'.victim = NoItem
  BY <1>1 DEF NoEviction
<1>5. PinTypes' /\ Forgotten' /\ OneRowPerInode'
  BY <1>1, <1>2, <1>3, <1>4, RowsKept DEF PinTypes, Forgotten
<1>6. ASSUME ~severed' PROVE Numbered' /\ Framed' /\ KeptSafe'
  <2>1. Numbered /\ Framed /\ KeptSafe
    BY <1>1, <1>6 DEF PinsInv
  <2>2. ASSUME NEW i \in Items PROVE inode'[i] \in Own(i)
    <3>1. \A r, s \in rows[i] : r = s
      BY <1>1 DEF OneRowPerInode
    <3>2. \A r \in rows[i] : r.inode = StoredInode(rows, i, Vfs(i))
      BY <3>1, StoredInodeIs
    <3>3. rows[i] = {} => StoredInode(rows, i, Vfs(i)) = Vfs(i)
      BY DEF StoredInode
    <3>4. inode'[i] = StoredInode(rows, i, Vfs(i))
      BY <1>1
    <3>5. CASE rows[i] = {}
      BY <3>3, <3>4, <3>5 DEF Own
    <3>6. CASE rows[i] # {}
      <4>1. PICK r \in rows[i] : TRUE
        BY <3>6
      <4>2. r.inode \in Own(i)
        BY <2>1 DEF Numbered
      <4> QED BY <3>2, <3>4, <4>2
    <3> QED BY <3>5, <3>6
  <2>3. Numbered'
    BY <1>1, <2>1, <2>2 DEF Numbered, Own
  <2>4. Framed'
    BY <1>1, NoDownloadType DEF Framed
  <2>5. KeptSafe'
    BY <1>1, <1>4, <2>1, NoItemApart, RowsKept DEF KeptSafe, FilesUnder, Tree
  <2> QED BY <2>3, <2>4, <2>5
<1> QED BY <1>5, <1>6 DEF PinsInv

LEMMA PinRootKeeps == ASSUME PinsInv, NEW p \in Pinnable, PinRoot(p) PROVE PinsInv'
<1> DEFINE tmp == Temp("pin", 0)
           n == StoredInode(rows', p, tmp)
           F == <<Frame(p, n)>>
           e == [download[p] EXCEPT !.step = "listing", !.next = 1, !.stack = F]
<1>1. /\ rows' = Upsert(p, tmp, {})
      /\ download' = [download EXCEPT ![p] = e]
      /\ severed' = (severed \/ (n # inode[p] \/ CutsOff(p)))
      /\ UNCHANGED <<pins, contents, tracked, inode, redo, evictor, kept, whole>>
      /\ PinTypes /\ OneRowPerInode /\ Forgotten
  BY DEF PinRoot, Severs, PinsInv, cached
<1>2. p \in Items /\ p \in Folders /\ tmp \in Temps /\ tmp \in Inodes /\ {} \in SUBSET Inodes
  BY OfflinePinsConstants, VfsApart DEF Items
<1> HIDE DEF tmp
<1>3. /\ rows' \in [Items -> SUBSET PinRows]
      /\ OneRowPerInode'
      /\ \A r \in rows'[p] : r.parent = {}
      /\ rows[p] # {} => \A n2 : (\E r \in rows'[p] : r.inode = n2) <=> (\E r \in rows[p] : r.inode = n2)
      /\ rows[p] = {} => \A r \in rows'[p] : r.inode = tmp
  BY <1>1, <1>2, UpsertRows
<1>4. n \in Inodes
  BY <1>2, <1>3, StoredInodeType
<1>5. /\ \A r, s \in rows'[p] : r = s
      /\ rows'[p] = {} => n = tmp
      /\ \A r \in rows'[p] : r.inode = n
  <2>1. \A r, s \in rows'[p] : r = s
    BY <1>2, <1>3 DEF OneRowPerInode
  <2> QED BY <2>1, StoredInodeIs
<1>6. download[p] \in Downloads
  BY <1>1 DEF PinTypes
<1> HIDE DEF n
<1>7. F \in Seq(Frames) /\ Len(F) = 1 /\ F # <<>> /\ F[1] = Frame(p, n)
  <2>1. Frame(p, n) \in Frames
    BY <1>2, <1>4 DEF Frame, Frames
  <2> QED BY <2>1
<1> HIDE DEF F
<1>8. e \in Downloads /\ e.step = "listing" /\ e.stack = F
  BY <1>6, <1>7 DEF Downloads
<1> HIDE DEF e
<1>9. Stacked(e) /\ \A k \in 1..Len(e.stack) : e.stack[k].folder = p /\ e.stack[k].parent = n
  <2>1. \A k \in 1..Len(e.stack) : e.stack[k] = Frame(p, n)
    BY <1>7, <1>8
  <2> QED BY <1>7, <1>8, <2>1 DEF Stacked, Frame
<1>10. PinTypes' /\ Forgotten'
  BY <1>1, <1>3, <1>8, <1>9, DownloadSet DEF PinTypes, Forgotten
<1>11. ASSUME ~severed' PROVE Numbered' /\ Framed' /\ KeptSafe'
  <2>1. Numbered /\ Framed /\ KeptSafe /\ n = inode[p] /\ ~CutsOff(p)
    BY <1>1, <1>11 DEF PinsInv
  <2>2. n = Vfs(p) /\ rows'[p] # {}
    <3>1. inode[p] = Vfs(p)
      BY <1>2, <2>1 DEF Numbered, Own
    <3> QED BY <1>2, <1>5, <2>1, <3>1, VfsApart
  <2>3. Numbered'
    <3>1. \A r \in rows'[p] : r.inode \in Own(p)
      BY <1>5, <2>2 DEF Own
    <3> QED BY <1>1, <1>2, <2>1, <3>1, UpsertNumbered
  <2>4. /\ \A k, j \in Items : Link(k, j) /\ k # p => Link(k, j)'
        /\ Rowed \subseteq Rowed'
    BY <1>1, <1>2, <2>1, UpsertLinks
  <2>5. ASSUME NEW q \in Pinnable PROVE Subtree(q) \subseteq Subtree(q)'
    <3>0. q \in Items
      BY OfflinePinsConstants DEF Items
    <3>1. CASE q = p \/ p \notin Tree(q)
      BY <1>2, <2>1, <2>4, <3>0, <3>1, SubtreeStaysBelow
    <3>2. CASE q # p /\ p \in Tree(q)
      <4>1. \A w \in rows[p] : w.parent = {}
        BY <2>1, <3>2 DEF CutsOff
      <4>2. \A j \in Items : ~Link(p, j)
        BY <4>1 DEF Link
      <4> QED BY <2>4, <4>2, SubtreeStays
    <3> QED BY <3>1, <3>2
  <2>6. Framed'
    <3>1. p \in Rowed' \cap Subtree(p)'
      BY <1>2, <2>2, <2>5, SubtreeRoot DEF Rowed
    <3>2. FramedAt(e, FilesUnder(p), Rowed', Subtree(p)')
      <4>1. Len(e.stack) = 1 /\ e.stack[1].folder = p
        BY <1>7, <1>8, <1>9
      <4>2. \A x \in FilesUnder(p) : Reaches(e, x)
        BY <1>8, <4>1, ReachesFirst
      <4> QED BY <1>8, <1>9, <2>2, <3>1, <4>2 DEF FramedAt
    <3> QED BY <1>1, <1>8, <1>9, <2>1, <2>4, <2>5, <3>2, FramedKeeps, DownloadSet
  <2>7. KeptSafe'
    BY <1>1, <2>1, <2>5 DEF KeptSafe, FilesUnder, Tree
  <2> QED BY <2>3, <2>6, <2>7
<1> QED BY <1>3, <1>10, <1>11 DEF PinsInv

(* A child goes onto the stack, ...                                        *)
LEMMA DescendIs ==
  ASSUME NEW d \in Downloads, NEW F \in Frames
  PROVE  LET e == [d EXCEPT !.step = "listing", !.next = @ + 1, !.stack = Append(@, F)]
         IN  /\ e \in Downloads /\ e.step = "listing" /\ e.stack = Append(d.stack, F)
<1> DEFINE S == Append(d.stack, F)
           d1 == [d EXCEPT !.step = "listing"]
           d2 == [d1 EXCEPT !.next = @ + 1]
           e == [d EXCEPT !.step = "listing", !.next = @ + 1, !.stack = Append(@, F)]
<1>1. S \in Seq(Frames) /\ d.next + 1 \in Nat
  BY DEF Downloads
<1>2. d1 \in Downloads /\ d1.step = "listing" /\ d1.stack = d.stack /\ d1.next = d.next
  BY DEF Downloads
<1>3. e = [[d1 EXCEPT !.next = d.next + 1] EXCEPT !.stack = S]
  OBVIOUS
<1>4. d2 = [d1 EXCEPT !.next = d.next + 1]
  BY <1>2
<1> HIDE DEF S, d1
<1>5. d2 \in Downloads /\ d2.step = "listing" /\ d2.stack = d.stack
  BY <1>1, <1>2, <1>4 DEF Downloads
<1>6. e = [d2 EXCEPT !.stack = S]
  BY <1>3, <1>4
<1> HIDE DEF d2, e
<1>7. e \in Downloads /\ e.step = "listing" /\ e.stack = S
  BY <1>1, <1>5, <1>6 DEF Downloads
<1> QED BY <1>7 DEF S, e

(* ... or is the file to fetch.                                            *)
LEMMA FetchIs ==
  ASSUME NEW d \in Downloads, NEW c \in Files
  PROVE  LET t == [d EXCEPT !.next = @ + 1]
             e == [t EXCEPT !.step = "fetching", !.file = c]
         IN  /\ t \in Downloads /\ t.step = d.step /\ t.stack = d.stack /\ t.file = d.file
             /\ e \in Downloads /\ e.step = "fetching" /\ e.stack = d.stack /\ e.file = c
<1> DEFINE t == [d EXCEPT !.next = @ + 1]
           u == [t EXCEPT !.step = "fetching"]
           e == [t EXCEPT !.step = "fetching", !.file = c]
<1>1. t \in Downloads /\ t.step = d.step /\ t.stack = d.stack /\ t.file = d.file
  BY DEF Downloads
<1>2. e = [u EXCEPT !.file = c]
  OBVIOUS
<1> HIDE DEF t, e
<1>3. u \in Downloads /\ u.step = "fetching" /\ u.stack = d.stack
  BY <1>1 DEF Downloads
<1> HIDE DEF u
<1>4. e \in Downloads /\ e.step = "fetching" /\ e.stack = d.stack /\ e.file = c
  BY <1>2, <1>3 DEF Downloads
<1> QED BY <1>1, <1>4 DEF t, e

(* The row of a child of the folder on top.                                *)
LEMMA ChildRowIs ==
  ASSUME PinsInv, NEW p \in Pinnable, NEW c \in Top(p).left, download[p].step = "children", ChildRow(p, c)
  PROVE  /\ c \in Items /\ Top(p).folder \in Folders /\ Parent[c] = Top(p).folder
         /\ Temp(download[p].base, download[p].next) \in Temps \cap Inodes /\ {Top(p).parent} \in SUBSET Inodes
         /\ rows' \in [Items -> SUBSET PinRows] /\ OneRowPerInode'
         /\ \A r, s \in rows'[c] : r = s
         /\ ~severed => /\ {Top(p).parent} = {Vfs(Parent[c])}
                        /\ Top(p).folder \in Rowed /\ Top(p).folder \in Subtree(p)
<1>0. PinTypes /\ OneRowPerInode
  BY DEF PinsInv
<1>1. /\ download[p] \in Downloads /\ Len(download[p].stack) \in Nat \ {0}
      /\ Top(p) = download[p].stack[Len(download[p].stack)]
      /\ Top(p) \in Frames /\ Top(p).left \subseteq Children(Top(p).folder)
  BY <1>0, TopIs
<1>2. c \in Items /\ Top(p).folder \in Folders /\ Parent[c] = Top(p).folder /\ Top(p).parent \in Inodes
  BY <1>1 DEF Frames, Children
<1>3. Temp(download[p].base, download[p].next) \in Temps \cap Inodes
  BY <1>1, VfsApart DEF Downloads
<1>4. rows' \in [Items -> SUBSET PinRows] /\ OneRowPerInode'
  BY <1>0, <1>2, <1>3, UpsertRows DEF ChildRow
<1>5. \A r, s \in rows'[c] : r = s
  BY <1>2, <1>4 DEF OneRowPerInode
<1>6. ASSUME ~severed
      PROVE  /\ Top(p).parent = Vfs(Top(p).folder)
             /\ Top(p).folder \in Rowed /\ Top(p).folder \in Subtree(p)
  BY <1>1, <1>6 DEF PinsInv, Framed, FramedAt
<1> QED BY <1>2, <1>3, <1>4, <1>5, <1>6

(* It is below the pin, when it is there.                                  *)
LEMMA ChildBelow ==
  ASSUME PinsInv, NEW p \in Pinnable, NEW c \in Top(p).left, download[p].step = "children", ChildRow(p, c),
         ~severed, rows'[c] # {}, \A r \in rows'[c] : r.inode \in Own(c), UNCHANGED inode
  PROVE  /\ Numbered' /\ Rowed \subseteq Rowed' /\ c \in Tree(p) /\ c \in Subtree(p)' /\ c \in Rowed'
         /\ \A q \in Pinnable : Subtree(q) \subseteq Subtree(q)'
<1> DEFINE n == Temp(download[p].base, download[p].next)
<1>1. /\ c \in Items /\ Parent[c] = Top(p).folder /\ Top(p).folder \in Folders /\ n \in Inodes
      /\ {Vfs(Parent[c])} \in SUBSET Inodes /\ Top(p).folder \in Rowed /\ Top(p).folder \in Subtree(p)
      /\ {Top(p).parent} = {Vfs(Parent[c])}
  BY ChildRowIs
<1>2. rows' = Upsert(c, n, {Vfs(Parent[c])})
  BY <1>1 DEF ChildRow
<1> HIDE DEF n
<1>3. PinTypes /\ OneRowPerInode /\ Numbered
  BY DEF PinsInv
<1>4. Numbered'
  BY <1>1, <1>2, <1>3, UpsertNumbered
<1>5. Rowed \subseteq Rowed' /\ \A q \in Pinnable : Subtree(q) \subseteq Subtree(q)'
  BY <1>1, <1>2, <1>3, UpsertGrows
<1>6. Link(c, Parent[c])'
  BY <1>1, <1>2, <1>3, <1>4, ChildLinked
<1>7. Parent[c] \in Subtree(p)'
  BY <1>1, <1>5
<1>8. c \in Subtree(p)'
  <2>1. \E w \in rows'[c], r \in rows'[Parent[c]] : w.parent = {r.inode}
    BY <1>6 DEF Link
  <2>2. ASSUME NEW S \in SUBSET Items, p \in S, (Below(S) \subseteq S)' PROVE c \in S
    <3>1. Parent[c] \in S
      BY <1>7, <2>2 DEF Subtree
    <3>2. c \in Below(S)'
      BY <1>1, <2>1, <3>1 DEF Below
    <3> QED BY <2>2, <3>2
  <2> QED BY <1>1, <2>2 DEF Subtree
<1>9. c \in Tree(p)
  <2>1. p \in Items
    BY OfflinePinsConstants DEF Items
  <2>2. Parent[c] \in Tree(p)
    BY <1>1, <1>3, <2>1, SubtreeInTree
  <2> QED BY <1>1, <2>2, TreeStep
<1> QED BY <1>1, <1>4, <1>5, <1>8, <1>9 DEF Rowed

LEMMA ChildFolderKeeps ==
  ASSUME PinsInv, NEW p \in Pinnable, NEW c \in Items, ChildFolder(p, c) PROVE PinsInv'
<1> DEFINE d == download[p]
           tmp == Temp(d.base, d.next)
           n == StoredInode(rows', c, tmp)
           F == Frame(c, n)
           l == Listed(d, Top(p).left \ {c})
           e == [l EXCEPT !.step = "listing", !.next = @ + 1, !.stack = Append(@, F)]
<1>0. /\ c \in Top(p).left /\ c \in Folders /\ d.step = "children" /\ ChildRow(p, c)
      /\ PinTypes /\ OneRowPerInode /\ Forgotten
  BY DEF ChildFolder, PinsInv
<1>1. /\ download' = [download EXCEPT ![p] = e]
      /\ severed' = (severed \/ n # inode[c])
      /\ UNCHANGED <<pins, contents, tracked, inode, redo, evictor, kept, whole>>
  <2>1. download' = [download EXCEPT ![p] = e]
    BY DEF ChildFolder
  <2>2. severed' = (severed \/ n # inode[c]) /\ UNCHANGED <<kept, whole>>
    BY DEF ChildFolder, Severs
  <2>3. UNCHANGED <<pins, contents, tracked, inode, redo, evictor>>
    BY DEF ChildFolder, cached
  <2> QED BY <2>1, <2>2, <2>3
<1>2. /\ tmp \in Temps \cap Inodes
      /\ rows' \in [Items -> SUBSET PinRows] /\ OneRowPerInode' /\ \A r, s \in rows'[c] : r = s
  BY <1>0, ChildRowIs
<1>3. /\ d \in Downloads /\ d.stack # <<>> /\ Stacked(d) /\ Top(p).left \ {c} \in SUBSET Items
      /\ Top(p) = d.stack[Len(d.stack)] /\ Len(d.stack) \in Nat \ {0}
  BY <1>0, TopIs DEF PinTypes, Stacked, Frames
<1> HIDE DEF tmp
<1>4. /\ n \in Inodes
      /\ rows'[c] = {} => n = tmp
      /\ \A r \in rows'[c] : r.inode = n
  BY <1>2, StoredInodeType, StoredInodeIs
<1> HIDE DEF n
<1>5. F \in Frames /\ F.folder = c /\ F.parent = n /\ F.left = {}
  <2>1. c \in Folders /\ n \in Inodes
    BY <1>0, <1>4
  <2>2. F = [folder |-> c, left |-> {}, parent |-> n]
    BY DEF Frame
  <2> HIDE DEF F
  <2> QED BY <2>1, <2>2 DEF Frames
<1> HIDE DEF F
<1>6. /\ l \in Downloads /\ l.stack # <<>> /\ Len(l.stack) = Len(d.stack)
      /\ \A k \in 1..Len(d.stack) :
           /\ l.stack[k].folder = d.stack[k].folder /\ l.stack[k].parent = d.stack[k].parent
           /\ l.stack[k].left = IF k = Len(d.stack) THEN Top(p).left \ {c} ELSE d.stack[k].left
  BY <1>3, ListedIs
<1> HIDE DEF l
<1>7. e \in Downloads /\ e.step = "listing" /\ e.stack = Append(l.stack, F)
  BY <1>5, <1>6, DescendIs
<1> HIDE DEF e
<1>8. /\ Len(e.stack) = Len(d.stack) + 1 /\ e.stack # <<>> /\ e.stack[Len(d.stack) + 1] = F
      /\ \A k \in 1..Len(d.stack) : e.stack[k] = l.stack[k]
  <2>1. l.stack \in Seq(Frames)
    BY <1>6 DEF Downloads
  <2> DEFINE s == l.stack
             g == Append(s, F)
             m == Len(d.stack)
  <2>2. s \in Seq(Frames) /\ Len(s) = m /\ m \in Nat \ {0} /\ F \in Frames
    BY <1>3, <1>5, <1>6, <2>1
  <2>3. e.stack = g
    BY <1>7
  <2> HIDE DEF s, m
  <2>4. Len(g) = m + 1 /\ g # <<>> /\ g[m + 1] = F /\ \A k \in 1..m : g[k] = s[k]
    BY <2>2
  <2> QED BY <2>3, <2>4 DEF s, m
<1>9. \A k \in 1..Len(e.stack) :
        \/ k \in 1..Len(d.stack) /\ e.stack[k] = l.stack[k]
        \/ k = Len(d.stack) + 1 /\ e.stack[k] = F
  BY <1>3, <1>8
<1>10. Stacked(e)
  <2>1. ASSUME NEW k \in 1..Len(e.stack) PROVE e.stack[k].left \subseteq Children(e.stack[k].folder)
    <3>1. CASE e.stack[k] = F
      BY <1>5, <3>1
    <3>2. CASE k \in 1..Len(d.stack) /\ e.stack[k] = l.stack[k]
      <4>1. d.stack[k].left \subseteq Children(d.stack[k].folder)
        BY <1>3, <3>2 DEF Stacked
      <4>2. l.stack[k].left \subseteq d.stack[k].left
        BY <1>3, <1>6, <3>2
      <4> QED BY <1>6, <3>2, <4>1, <4>2
    <3> QED BY <1>9, <3>1, <3>2
  <2> QED BY <1>7, <1>8, <2>1 DEF Stacked
<1>11. PinTypes' /\ Forgotten'
  <2>1. severed' \in BOOLEAN
    BY <1>0, <1>1 DEF PinTypes
  <2> QED BY <1>0, <1>1, <1>2, <1>7, <1>10, <2>1, DownloadSet DEF PinTypes, Forgotten
<1>12. ASSUME ~severed' PROVE Numbered' /\ Framed' /\ KeptSafe'
  <2>1. Numbered /\ Framed /\ KeptSafe /\ n = inode[c] /\ ~severed
    BY <1>1, <1>12 DEF PinsInv
  <2>2. n = Vfs(c)
    BY <1>0, <2>1 DEF Numbered, Own
  <2>3. rows'[c] # {} /\ \A r \in rows'[c] : r.inode \in Own(c)
    BY <1>2, <1>4, <2>2, VfsApart DEF Own
  <2>4. /\ Numbered' /\ Rowed \subseteq Rowed' /\ c \in Subtree(p)' /\ c \in Rowed'
        /\ \A q \in Pinnable : Subtree(q) \subseteq Subtree(q)'
    BY <1>0, <1>1, <2>1, <2>3, ChildBelow
  <2>5. ASSUME NEW k \in 1..Len(e.stack)
        PROVE  e.stack[k].parent = Vfs(e.stack[k].folder) /\ e.stack[k].folder \in Rowed' \cap Subtree(p)'
    <3>1. CASE e.stack[k] = F
      BY <1>5, <2>2, <2>4, <3>1
    <3>2. CASE k \in 1..Len(d.stack) /\ e.stack[k] = l.stack[k]
      <4>1. d.stack[k].parent = Vfs(d.stack[k].folder) /\ d.stack[k].folder \in Rowed \cap Subtree(p)
        BY <2>1, <3>2 DEF Framed, FramedAt
      <4> QED BY <1>6, <2>4, <3>2, <4>1
    <3> QED BY <1>9, <3>1, <3>2
  <2>6. FramedAt(e, FilesUnder(p), Rowed', Subtree(p)')
    <3>1. FramedAt(d, FilesUnder(p), Rowed, Subtree(p))
      BY <2>1 DEF Framed
    <3>2. ASSUME NEW x \in FilesUnder(p), Reaches(d, x) PROVE Reaches(e, x)
      <4>1. PICK k \in 1..Len(d.stack) : \E i \in Ahead(d, k) : x \in Tree(i)
        BY <3>2 DEF Reaches
      <4>2. PICK i \in d.stack[k].left : x \in Tree(i)
        BY <1>0, <4>1 DEF Ahead
      <4>3. CASE k = Len(d.stack) /\ i = c
        <5>1. c \in Items /\ x # c
          BY <1>0, OfflinePinsConstants DEF FilesUnder, Items
        <5>2. PICK b \in Children(c) : x \in Tree(b)
          BY <4>2, <4>3, <5>1, TreeSplits
        <5>3. Len(e.stack) \in 1..Len(e.stack) /\ b \in Ahead(e, Len(e.stack))
          BY <1>3, <1>5, <1>7, <1>8, <5>2 DEF Ahead
        <5> QED BY <5>2, <5>3 DEF Reaches
      <4>4. CASE ~(k = Len(d.stack) /\ i = c)
        <5>1. k \in 1..Len(e.stack) /\ k # Len(e.stack) /\ e.stack[k] = l.stack[k]
          BY <1>3, <1>8
        <5>2. i \in l.stack[k].left
          BY <1>3, <1>6, <4>2, <4>4
        <5>3. i \in Ahead(e, k)
          BY <5>1, <5>2 DEF Ahead
        <5> QED BY <4>2, <5>1, <5>3 DEF Reaches
      <4> QED BY <4>3, <4>4
    <3>3. \A x \in FilesUnder(p) : x \in Subtree(p)' \/ Reaches(e, x)
      BY <1>3, <2>4, <3>1, <3>2 DEF FramedAt
    <3> QED BY <1>7, <2>5, <3>3 DEF FramedAt
  <2>7. Framed'
    BY <1>0, <1>1, <1>7, <1>10, <2>1, <2>4, <2>6, FramedKeeps, DownloadSet
  <2>8. KeptSafe'
    BY <1>1, <2>1, <2>4 DEF KeptSafe, FilesUnder, Tree
  <2> QED BY <2>4, <2>7, <2>8
<1> QED BY <1>2, <1>11, <1>12 DEF PinsInv

LEMMA ChildFileKeeps ==
  ASSUME PinsInv, NEW p \in Pinnable, NEW c \in Items, ChildFile(p, c) PROVE PinsInv'
<1> DEFINE d == download[p]
           l == Listed(d, Top(p).left \ {c})
           t == [l EXCEPT !.next = @ + 1]
           f == [t EXCEPT !.step = "fetching", !.file = c]
<1>0. /\ c \in Top(p).left /\ c \in Files /\ d.step = "children" /\ ChildRow(p, c)
      /\ PinTypes /\ OneRowPerInode /\ Forgotten
  BY DEF ChildFile, PinsInv
<1>1. /\ severed' = (severed \/ rows'[c] = {})
      /\ UNCHANGED <<pins, contents, tracked, inode, redo, evictor>>
  BY DEF ChildFile, cached
<1>2. PICK e \in {t, f} :
        /\ download' = [download EXCEPT ![p] = e]
        /\ \/ e = t /\ c \in contents /\ Keep(p, c)
           \/ e = f /\ UNCHANGED <<kept, whole>>
  BY DEF ChildFile
<1>3. /\ Temp(d.base, d.next) \in Temps \cap Inodes
      /\ rows' \in [Items -> SUBSET PinRows] /\ OneRowPerInode'
  BY <1>0, ChildRowIs
<1>4. /\ d \in Downloads /\ d.stack # <<>> /\ Stacked(d) /\ Top(p).left \ {c} \in SUBSET Items
      /\ Top(p) = d.stack[Len(d.stack)] /\ Len(d.stack) \in Nat \ {0}
  BY <1>0, TopIs DEF PinTypes, Stacked, Frames
<1>5. /\ l \in Downloads /\ l.stack # <<>> /\ Len(l.stack) = Len(d.stack) /\ l.step = "children"
      /\ \A k \in 1..Len(d.stack) :
           /\ l.stack[k].folder = d.stack[k].folder /\ l.stack[k].parent = d.stack[k].parent
           /\ l.stack[k].left = IF k = Len(d.stack) THEN Top(p).left \ {c} ELSE d.stack[k].left
  BY <1>0, <1>4, ListedIs
<1> HIDE DEF l
<1>6. /\ e \in Downloads /\ e.stack = l.stack /\ e.step \in {"children", "fetching"}
      /\ e.step = "fetching" => e.file = c
  <2>1. /\ t \in Downloads /\ t.step = l.step /\ t.stack = l.stack
        /\ f \in Downloads /\ f.step = "fetching" /\ f.stack = l.stack /\ f.file = c
    <3>1. l \in Downloads /\ c \in Files
      BY <1>0, <1>5
    <3> QED BY <3>1, FetchIs
  <2> HIDE DEF t, f
  <2> QED BY <1>2, <1>5, <2>1
<1> HIDE DEF t, f
<1>7. Stacked(e)
  <2>1. ASSUME NEW k \in 1..Len(e.stack) PROVE e.stack[k].left \subseteq Children(e.stack[k].folder)
    <3>1. d.stack[k].left \subseteq Children(d.stack[k].folder)
      BY <1>4, <1>5, <1>6 DEF Stacked
    <3>2. l.stack[k].left \subseteq d.stack[k].left
      BY <1>4, <1>5, <1>6
    <3> QED BY <1>5, <1>6, <3>1, <3>2
  <2> QED BY <1>0, <1>5, <1>6, <2>1 DEF Stacked
<1>8. kept' \in [Pinnable -> SUBSET Files] /\ Forgotten' /\ UNCHANGED whole
  <2>1. CASE Keep(p, c)
    BY <1>0, <1>1, <2>1, KeepKeeps
  <2>2. CASE UNCHANGED <<kept, whole>>
    BY <1>0, <1>1, <2>2 DEF PinTypes, Forgotten
  <2> QED BY <1>2, <2>1, <2>2
<1>9. PinTypes'
  <2>1. severed' \in BOOLEAN
    BY <1>0, <1>1 DEF PinTypes
  <2> QED BY <1>0, <1>1, <1>2, <1>3, <1>6, <1>7, <1>8, <2>1, DownloadSet DEF PinTypes
<1>10. ASSUME ~severed' PROVE Numbered' /\ Framed' /\ KeptSafe'
  <2>1. Numbered /\ Framed /\ KeptSafe /\ rows'[c] # {} /\ ~severed
    BY <1>1, <1>10 DEF PinsInv
  <2>2. \A r \in rows'[c] : r.inode \in Own(c)
    <3>1. {Top(p).parent} \in SUBSET Inodes /\ Temp(d.base, d.next) \in Own(c) /\ Temp(d.base, d.next) \in Inodes
      BY <1>0, <1>3, ChildRowIs, OfflinePinsConstants DEF Own
    <3>2. rows' = Upsert(c, Temp(d.base, d.next), {Top(p).parent})
      BY <1>0 DEF ChildRow
    <3>3. /\ rows[c] # {} => \A n2 : (\E r \in rows'[c] : r.inode = n2) <=> (\E r \in rows[c] : r.inode = n2)
          /\ rows[c] = {} => \A r \in rows'[c] : r.inode = Temp(d.base, d.next)
      <4> DEFINE n == Temp(d.base, d.next)
                 P == {Top(p).parent}
      <4>1. n \in Inodes /\ P \in SUBSET Inodes /\ rows' = Upsert(c, n, P)
        BY <3>1, <3>2
      <4>2. PinTypes /\ OneRowPerInode
        BY <1>0
      <4> HIDE DEF n, P
      <4>3. /\ rows[c] # {} => \A n2 : (\E r \in rows'[c] : r.inode = n2) <=> (\E r \in rows[c] : r.inode = n2)
            /\ rows[c] = {} => \A r \in rows'[c] : r.inode = n
        BY <4>1, <4>2, UpsertInode
      <4> QED BY <4>3 DEF n
    <3> QED BY <2>1, <3>1, <3>3 DEF Numbered
  <2>3. /\ Numbered' /\ Rowed \subseteq Rowed' /\ c \in Tree(p) /\ c \in Subtree(p)'
        /\ \A q \in Pinnable : Subtree(q) \subseteq Subtree(q)'
    BY <1>0, <1>1, <2>1, <2>2, ChildBelow
  <2>4. ASSUME NEW k \in 1..Len(e.stack)
        PROVE  e.stack[k].parent = Vfs(e.stack[k].folder) /\ e.stack[k].folder \in Rowed' \cap Subtree(p)'
    <3>1. d.stack[k].parent = Vfs(d.stack[k].folder) /\ d.stack[k].folder \in Rowed \cap Subtree(p)
      BY <1>5, <1>6, <2>1 DEF Framed, FramedAt
    <3> QED BY <1>5, <1>6, <2>3, <3>1
  <2>5. FramedAt(e, FilesUnder(p), Rowed', Subtree(p)')
    <3>1. FramedAt(d, FilesUnder(p), Rowed, Subtree(p))
      BY <2>1 DEF Framed
    <3>2. ASSUME NEW x \in FilesUnder(p), Reaches(d, x), x # c PROVE Reaches(e, x)
      <4>1. PICK k \in 1..Len(d.stack) : \E i \in Ahead(d, k) : x \in Tree(i)
        BY <3>2 DEF Reaches
      <4>2. PICK i \in d.stack[k].left : x \in Tree(i)
        BY <1>0, <4>1 DEF Ahead
      <4>3. i # c
        BY <1>0, <3>2, <4>2, TreeOfFile
      <4>4. k \in 1..Len(e.stack) /\ i \in e.stack[k].left
        BY <1>4, <1>5, <1>6, <4>2, <4>3
      <4>5. i \in Ahead(e, k)
        BY <1>6, <4>4 DEF Ahead
      <4> QED BY <4>2, <4>4, <4>5 DEF Reaches
    <3>3. \A x \in FilesUnder(p) : x \in Subtree(p)' \/ Reaches(e, x)
      BY <1>4, <2>3, <3>1, <3>2 DEF FramedAt
    <3> QED BY <1>6, <2>3, <2>4, <3>3 DEF FramedAt
  <2>6. Framed'
    BY <1>0, <1>2, <1>6, <1>7, <2>1, <2>3, <2>5, FramedKeeps, DownloadSet
  <2>7. KeptSafe'
    <3>1. CASE c \in contents /\ Keep(p, c)
      BY <1>0, <1>1, <2>1, <2>3, <3>1, KeepKeeps
    <3>2. CASE UNCHANGED <<kept, whole>>
      BY <1>1, <2>1, <2>3, <3>2 DEF KeptSafe, FilesUnder, Tree
    <3> QED BY <1>2, <3>1, <3>2
  <2> QED BY <2>3, <2>6, <2>7
<1> QED BY <1>3, <1>8, <1>9, <1>10 DEF PinsInv

------------------------------------------------------------------------------
(* The theorems                                                            *)

LEMMA PinsInitHolds == ASSUME PinsInit PROVE PinsInv
<1>1. /\ pins \in [Pinnable -> {"none", "valid", "expired"}]
      /\ rows \in [Items -> SUBSET PinRows] /\ inode \in [Items -> Inodes]
      /\ kept \in [Pinnable -> SUBSET Files] /\ whole \in [Pinnable -> BOOLEAN]
      /\ download \in [Pinnable -> Downloads] /\ \A p \in Pinnable : Stacked(download[p])
  BY VfsApart, NoDownloadType DEF PinsInit
<1>2. evictor = [left |-> evictor.left, victim |-> evictor.victim, free |-> evictor.free]
  BY DEF PinsInit, NoEviction
<1>3. PinTypes
  BY <1>1, <1>2 DEF PinTypes, PinsInit
<1>4. OneRowPerInode /\ Forgotten /\ Numbered
  BY DEF PinsInit, OneRowPerInode, Forgotten, Numbered, Own
<1>5. Framed
  BY NoDownloadType DEF PinsInit, Framed
<1>6. KeptSafe
  BY DEF PinsInit, KeptSafe
<1> QED BY <1>3, <1>4, <1>5, <1>6 DEF PinsInv

LEMMA PinsStutter == ASSUME PinsInv, UNCHANGED pinsVars PROVE PinsInv'
<1>1. /\ UNCHANGED <<pins, rows, inode, contents, tracked, download, redo, evictor, kept, whole, severed>>
      /\ kept \in [Pinnable -> SUBSET Files]
  BY DEF pinsVars, stores, cached, workers, history, PinsInv, PinTypes
<1> QED BY <1>1, PinChange DEF PinsInv, PinTypes, Forgotten

LEMMA PinsStep == ASSUME PinsInv, [PinsNext]_pinsVars PROVE PinsInv'
<1>1. CASE \E p \in Pinnable : DownloadStep(p)
  <2> SUFFICES ASSUME NEW p \in Pinnable, DownloadStep(p) PROVE PinsInv'
    BY <1>1
  <2>1. CASE \E c \in Items : ChildFolder(p, c) \/ ChildFile(p, c)
    BY <2>1, ChildFolderKeeps, ChildFileKeeps
  <2>2. CASE PinRoot(p) \/ List(p) \/ ChildContent(p) \/ FolderDone(p) \/ DownloadFails(p)
    BY <2>2, PinRootKeeps, ListKeeps, ChildContentKeeps, FolderDoneKeeps,
      DownloadFailsKeeps
  <2> QED BY <2>1, <2>2 DEF DownloadStep
<1>2. CASE \E p \in Pinnable : PinStep(p)
  BY <1>2, PinFolderKeeps, UnpinKeeps, ExtendKeeps, ExpireKeeps, UnpinExpiredKeeps,
    ResumeKeeps DEF PinStep
<1>3. CASE ListExpired \/ EvictStep
  BY <1>3, ListExpiredKeeps, EvictStartKeeps, EvictRemoveKeeps, EvictPickKeeps
    DEF EvictStep
<1>4. CASE \E i \in Items : Browse(i)
  BY <1>4, BrowseKeeps
<1>5. CASE \E x \in Files : FileStep(x)
  BY <1>5, DropStaleKeeps, OpenKeeps, RemoteChangeKeeps, RedownloadKeeps DEF FileStep
<1>6. CASE Clear \/ Relaunch
  BY <1>6, ClearKeeps, RelaunchKeeps
<1>7. CASE UNCHANGED pinsVars
  BY <1>7, PinsStutter
<1> QED BY <1>1, <1>2, <1>3, <1>4, <1>5, <1>6, <1>7 DEF PinsNext

(* The invariant: folders stay under the inodes of the mount, downloads    *)
(* stay below their pins and have every file behind them or ahead, and     *)
(* what they kept stays linked and, while it is current, on disk.          *)
THEOREM PinsInvariant == PinsSpec => []PinsInv
<1>1. PinsInit => PinsInv
  BY PinsInitHolds
<1>2. PinsInv /\ [PinsNext]_pinsVars => PinsInv'
  BY PinsStep
<1> QED BY <1>1, <1>2, PTL DEF PinsSpec

(* Types, and the key of the items table (offline.rs, sqlite.rs).          *)
THEOREM PinsTypes == PinsSpec => []TypeOK
<1>1. PinsInv => TypeOK
  BY DEF PinsInv, PinTypes, OneRowPerInode, TypeOK, PinRows
<1> QED BY <1>1, PinsInvariant, PTL

(* is_protected finds the pin of every file a download of it has kept.     *)
THEOREM KeptAlwaysProtected == PinsSpec => []KeptIsProtected
<1>1. ASSUME PinsInv, ~severed, NEW p \in Valid, NEW x \in kept[p] PROVE IsProtected(x)
  <2>1. p \in Pinnable /\ p \in Items /\ x \in Subtree(p)
    BY <1>1, OfflinePinsConstants DEF Valid, Items, PinsInv, KeptSafe
  <2> QED BY <2>1, Climb DEF IsProtected
<1>2. PinsInv => KeptIsProtected
  BY <1>1 DEF KeptIsProtected
<1> QED BY <1>2, PinsInvariant, PTL

(* No eviction takes the content of such a file: what is missing has been  *)
(* found not to be current, or the cache was cleared.                      *)
THEOREM EvictionAlwaysSparesKept == PinsSpec => []EvictionSparesKept
<1>1. PinsInv => EvictionSparesKept
  BY DEF EvictionSparesKept, PinsInv, KeptSafe, Valid
<1> QED BY <1>1, PinsInvariant, PTL

(* After a download that ended well the recursive query of health() counts *)
(* exactly the files of the folder.                                        *)
THEOREM HealthAlwaysCountsAll == PinsSpec => []HealthCountsAll
<1>1. ASSUME PinsInv, ~severed, NEW p \in Valid, whole[p]
      PROVE  TotalFiles(p) = FilesUnder(p)
  <2>1. p \in Pinnable /\ p \in Items /\ Numbered /\ KeptSafe
    BY <1>1, OfflinePinsConstants DEF Valid, Items, PinsInv
  <2>2. Subtree(p) \subseteq Tree(p)
    BY <2>1, SubtreeInTree
  <2>3. FilesUnder(p) \subseteq Subtree(p)
    BY <1>1, <2>1 DEF KeptSafe
  <2> QED BY <2>2, <2>3 DEF TotalFiles, FilesUnder
<1>2. PinsInv => HealthCountsAll
  BY <1>1 DEF HealthCountsAll
<1> QED BY <1>2, PinsInvariant, PTL

================================================================================
