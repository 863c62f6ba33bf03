------------------------------ MODULE Directories ------------------------------
(***************************************************************************)
(* Which names a folder of a mounted drive shows: find_child,              *)
(* list_children, create_file, mkdir, unlink, rmdir and rename of          *)
(* carminedesktop-vfs/src/core_ops.rs as the WinFsp callbacks use them     *)
(* (winfsp_fs.rs), the entries and children maps of the memory cache       *)
(* (memory.rs), the items and tombstones tables (sqlite.rs), delta sync    *)
(* (sync.rs) and the upload of a new file (sync_processor.rs).             *)
(*                                                                         *)
(* Every call on a cache and every request to the server is a step of its  *)
(* own, and driver threads, delta sync, the upload and other users of the  *)
(* drive interleave; the driver lets a change of names run alone, next to  *)
(* no lookup and no listing.  An item is identified with its inode (module *)
(* ItemStore has the table of both), and of an item only its place is      *)
(* kept: the folder it is in and its name.  Folders are always there and   *)
(* always found; a folder made here is an item nobody looks into.          *)
(***************************************************************************)
EXTENDS Naturals

CONSTANTS
  Items,       (* ids of the server                                         *)
  Locals,      (* local: ids of files created here                          *)
  Folders, Names,
  Threads,     (* threads of the driver                                     *)
  None,        (* no id, no folder, no name                                 *)
  MaxChanges, MaxJobs   (* bounds of the model: changes by others, callbacks *)

ASSUME DirectoriesConstants ==
  /\ Items \cap Locals = {} /\ None \notin Items \cup Locals \cup Folders
  /\ {MaxChanges, MaxJobs} \subseteq Nat

Ids == Items \cup Locals
Places == [in : Folders, name : Names]
Nowhere == [in |-> None, name |-> None]

VARIABLES
  server,      (* place of each item on the server                          *)
  used,        (* ids that exist or have existed                            *)
  ghost,       (* places where listings still report deleted items          *)
  unseen,      (* changed since the last applied delta token                *)
  row,         (* the items table: place by id                              *)
  tombs,       (* the tombstones table                                      *)
  cached,      (* ids with an entry in the memory                           *)
  called,      (* place of each local file                                  *)
  kids,        (* the children map of each folder's memory entry            *)
  delta,       (* the delta response being handled                          *)
  thread,      (* what each driver thread does                              *)
  upload,      (* the upload of a new file                                  *)
  changes,     (* by others                                                 *)
  jobs,        (* callbacks so far                                          *)
  gone,        (* history: items deleted on the server by this program      *)
  astray,      (* history: items stored from an answer that delta sync had  *)
               (* overtaken, hidden although they could not be deleted, or  *)
               (* deleted without a tombstone, until delta sync stores them *)
  behind       (* history: folders whose map was stored from such an answer *)
               (* or lost a name another item had taken meanwhile           *)

remote == <<server, used, ghost, unseen, changes>>
sqlite == <<row, tombs>>
memory == <<cached, called, kids>>
history == <<gone, astray, behind>>
vars == <<remote, sqlite, memory, delta, thread, upload, jobs, history>>

NoMap == [n \in {} |-> None]
EmptyMap == [n \in Names |-> None]
NoAnswer == [i \in Items |-> Nowhere]
NoDelta == [seen |-> NoAnswer, todo |-> {}, item |-> None, inserts |-> {}, drops |-> {}]
Idle == [job |-> "none", at |-> "idle", from |-> Nowhere, to |-> Nowhere,
         look |-> Nowhere, item |-> None, other |-> None,
         answer |-> NoAnswer, map |-> EmptyMap, overtaken |-> {}]
NoUpload == [file |-> None, item |-> None, overtaken |-> {}]

Init ==
  /\ server \in [Items -> Places \cup {Nowhere}]
  /\ \A i, j \in Items : server[i] = server[j] /\ server[i] # Nowhere => i = j
  /\ used = {i \in Items : server[i] # Nowhere}
  /\ ghost = NoAnswer /\ unseen = {} /\ changes = 0 /\ jobs = 0
  /\ row = [id \in Ids |-> IF id \in Items THEN server[id] ELSE Nowhere] /\ tombs = {}
  /\ cached = {} /\ called = [id \in Locals |-> Nowhere]
  /\ kids = [f \in Folders |-> NoMap]
  /\ delta = NoDelta /\ thread = [t \in Threads |-> Idle] /\ upload = NoUpload
  /\ gone = {} /\ astray = {} /\ behind = {}

------------------------------------------------------------------------------
(* The server.                                                             *)

Free(place) == \A i \in Items : server[i] # place

(* Somebody else creates, renames, moves or deletes an item.               *)
RemoteChange(i, place) ==
  /\ changes < MaxChanges
  /\ place # server[i]
  /\ server[i] = Nowhere => i \notin used
  /\ place # Nowhere => Free(place)
  /\ server' = [server EXCEPT ![i] = place]
  /\ used' = used \cup {i}
  /\ unseen' = unseen \cup {i}
  /\ changes' = changes + 1
  /\ UNCHANGED <<ghost, sqlite, memory, delta, thread, upload, history>>

(* What a listing of the folder answers: deleted items may linger in it.   *)
Listing(f) ==
  [i \in Items |-> IF server[i].in = f THEN server[i]
                   ELSE IF ghost[i].in = f THEN ghost[i]
                   ELSE Nowhere]

------------------------------------------------------------------------------
(* The caches.                                                             *)

(* lookup_item knows the item.                                             *)
Known(id) == id \in cached \/ row[id] # Nowhere
OnlyRow(id) == id \notin cached /\ row[id] # Nowhere

Mapped(f) == kids[f] # NoMap
Kids(f) == {kids[f][n] : n \in DOMAIN kids[f]} \ {None}
RowsOf(f) == {id \in Ids : row[id].in = f}

(* add_child and remove_child touch a map only where there is one.         *)
AddChild(map, place, id) ==
  [f \in Folders |-> IF f = place.in /\ map[f] # NoMap
                       THEN [map[f] EXCEPT ![place.name] = id] ELSE map[f]]
RemoveChild(map, place) == AddChild(map, place, None)
Invalidate(F) == [f \in Folders |-> IF f \in F THEN NoMap ELSE kids[f]]

(* Maps that show what an answer delta sync has overtaken said, or an item *)
(* delta sync has found elsewhere, as long as they are there.              *)
Showing(S) == {f \in Folders : Kids(f) \cap S # {}}
(* A map may say that a name has been taken by another item meanwhile.     *)
Taken(place, id) ==
  {f \in {place.in} : Mapped(f) /\ kids[f][place.name] \notin {None, id}}
Behind(F) == behind' = {f \in behind \cup F : kids'[f] # NoMap}

(* Reading rows also fills the memory: from rows delta sync is about to    *)
(* delete, too.                                                            *)
Reads(S) ==
  /\ cached' = cached \cup S
  /\ behind' = behind \cup Showing(S \cap delta.drops)

(* upsert_item leaves an item with a tombstone alone.                      *)
Upsert(t, id, place, really) ==
  /\ row' = IF really /\ id \notin tombs THEN [row EXCEPT ![id] = place] ELSE row
  /\ astray' = IF really /\ id \in thread[t].overtaken THEN astray \cup {id} ELSE astray

(* Entries older than the TTL are dropped, a map with its folder's entry.  *)
Expire ==
  /\ \/ \E f \in Folders : Mapped(f) /\ kids' = Invalidate({f}) /\ UNCHANGED cached
     \/ \E id \in cached : cached' = cached \ {id} /\ UNCHANGED kids
  /\ Behind({})
  /\ UNCHANGED <<remote, sqlite, called, delta, thread, upload, gone, astray>>

------------------------------------------------------------------------------
(* Delta sync.                                                             *)

(* Tombstones older than 300 s are purged, then the server is asked; no    *)
(* listing lags behind its answer, nor for 300 s.                          *)
DeltaQuery ==
  /\ delta = NoDelta /\ unseen # {}
  /\ tombs' \in {tombs, {i \in tombs \cap Items : ghost[i] # Nowhere}}
  /\ delta' = [NoDelta EXCEPT !.todo = unseen,
                 !.seen = [i \in Items |-> IF i \in unseen THEN server[i] ELSE Nowhere]]
  /\ ghost' = [i \in Items |-> IF i \in unseen THEN Nowhere ELSE ghost[i]]
  /\ unseen' = {}
  /\ UNCHANGED <<server, used, changes, row, memory, thread, upload, history>>

(* Between the answer of the server and what is stored from it.            *)
UnderWay == {"store", "upsert", "remap", "enter"}
(* Answers under way are older than what delta sync says of the item.      *)
OvertakeUpload(i) ==
  upload' = IF upload = NoUpload THEN upload
            ELSE [upload EXCEPT !.overtaken = @ \cup {i}]
Overtake(i) ==
  /\ thread' = [t \in Threads |-> IF thread[t].at \in UnderWay
                  THEN [thread[t] EXCEPT !.overtaken = @ \cup {i}] ELSE thread[t]]
  /\ OvertakeUpload(i)

(* A deleted item is invalidated together with the folder its row names.   *)
DeltaDeleted(i) ==
  /\ i \in delta.todo /\ delta.item = None /\ delta.seen[i] = Nowhere
  /\ cached' = cached \ {i}
  /\ kids' = Invalidate({row[i].in})
  /\ delta' = [delta EXCEPT !.todo = @ \ {i}, !.drops = @ \cup {i}]
  /\ Overtake(i) /\ Behind({})
  /\ UNCHANGED <<remote, sqlite, called, gone, astray>>

(* A changed item is skipped when it has a tombstone, ...                  *)
DeltaCheck(i) ==
  /\ i \in delta.todo /\ delta.item = None /\ delta.seen[i] # Nowhere
  /\ delta' = [delta EXCEPT !.todo = @ \ {i}, !.item = IF i \in tombs THEN None ELSE i]
  /\ UNCHANGED <<remote, sqlite, memory, thread, upload, history>>

(* ... else inserted, and the folders F are invalidated.                   *)
InsertAnd(F) ==
  LET i == delta.item
  IN /\ i # None
     /\ cached' = cached \cup {i}
     /\ kids' = Invalidate(F)
     /\ delta' = [delta EXCEPT !.item = None, !.inserts = @ \cup {i}]
     /\ Overtake(i) /\ Behind(Showing({i}))
     /\ UNCHANGED <<remote, sqlite, called, gone, astray>>

(* Mutant: the listing of its folder stays.                                *)
DeltaInsertQuietly == InsertAnd({})

(* The folder it is in now is invalidated, not the one it was in.          *)
DeltaInsert == InsertAnd({delta.seen[delta.item].in})

Handled == delta # NoDelta /\ delta.todo = {} /\ delta.item = None
Reported == delta.inserts \cup delta.drops

(* The transaction of apply_delta.  What was deleted without a tombstone   *)
(* stays astray until it is dropped.                                       *)
DeltaApply ==
  /\ Handled
  /\ row' = [id \in Ids |-> IF id \in delta.drops THEN Nowhere
                            ELSE IF id \in delta.inserts \ tombs THEN delta.seen[id]
                            ELSE row[id]]
  /\ tombs' = tombs \ delta.drops
  /\ astray' = astray \ (delta.drops \cup (delta.inserts \ (tombs \cup gone)))
  /\ delta' = NoDelta
  /\ UNCHANGED <<remote, memory, thread, upload, gone, behind>>

(* Mutant: the token is stored all the same.                               *)
DeltaFailsForgetful ==
  /\ Handled
  /\ delta' = NoDelta
  /\ UNCHANGED <<remote, sqlite, memory, thread, upload, history>>

(* It fails as a whole, and the next query answers the same again.         *)
DeltaFails ==
  /\ Handled
  /\ unseen' = unseen \cup {i \in Items : i \in Reported \/ delta.seen[i] # Nowhere}
  /\ delta' = NoDelta
  /\ UNCHANGED <<server, used, ghost, changes, sqlite, memory, thread, upload, history>>

------------------------------------------------------------------------------
(* A callback of the driver: it looks a name up, then does its job.        *)

At(t, at) == thread[t].at = at
Do(t, to) == thread' = [thread EXCEPT ![t] = to]
Ends(t) == Do(t, Idle)

Changing == {"delete", "rename", "create", "mkdir"}
(* Changes of names exclude everything else of a volume's names.           *)
Begin(t, job, from, to) ==
  /\ At(t, "idle") /\ jobs < MaxJobs
  /\ jobs' = jobs + 1
  /\ \A o \in Threads \ {t} :
       ~At(o, "idle") => job \notin Changing /\ thread[o].job \notin Changing
  /\ job = "rename" <=> to # Nowhere
  /\ from # to
  /\ Do(t, [Idle EXCEPT !.job = job, !.at = "look", !.from = from, !.to = to,
                        !.look = from])
  /\ UNCHANGED <<remote, sqlite, memory, delta, upload, history>>

(* What follows when the name stands for id, None when it stands for no    *)
(* item: a rename looks its target up and then removes another item there. *)
Then(t, id) ==
  LET me == [thread[t] EXCEPT !.answer = NoAnswer, !.map = EmptyMap, !.overtaken = {}]
      here == CASE me.job \in {"find", "list"} -> Idle
                [] me.job \in {"create", "mkdir"} ->
                     IF id = None THEN [me EXCEPT !.at = me.job] ELSE Idle
                [] me.job = "delete" ->
                     IF id = None THEN Idle
                     ELSE [me EXCEPT !.at = "remove", !.other = id]
                [] me.job = "rename" /\ me.item = None ->
                     IF id = None THEN Idle
                     ELSE [me EXCEPT !.item = id, !.look = me.to, !.at = "look"]
                [] OTHER ->
                     IF id \in {None, me.item} THEN [me EXCEPT !.at = "move"]
                     ELSE [me EXCEPT !.other = id, !.at = "remove"]
  IN Do(t, here)

(* The memory: the children map, and an item for the child it names.  A    *)
(* listing takes what the map has.                                         *)
Look(t) ==
  LET p == thread[t].look
      id == IF Mapped(p.in) THEN kids[p.in][p.name] ELSE None
  IN /\ At(t, "look")
     /\ IF thread[t].job = "list"
          THEN /\ Reads({k \in Kids(p.in) : OnlyRow(k)})
               /\ IF Mapped(p.in) THEN Ends(t) ELSE Do(t, [thread[t] EXCEPT !.at = "rows"])
          ELSE /\ Reads({k \in {id} \ {None} : OnlyRow(k)})
               /\ IF id # None /\ Known(id) THEN Then(t, id)
                  ELSE Do(t, [thread[t] EXCEPT !.at = "rows"])
     /\ UNCHANGED <<remote, sqlite, called, kids, delta, upload, gone, astray>>

(* SQLite: a listing takes the rows of the folder, if there are any.       *)
Rows(t) ==
  LET p == thread[t].look
      hits == IF thread[t].job = "list" THEN RowsOf(p.in) ELSE {id \in Ids : row[id] = p}
  IN /\ At(t, "rows")
     /\ \/ /\ hits = {}
           /\ Do(t, [thread[t] EXCEPT !.at = "ask"])
           /\ UNCHANGED <<cached, behind>>
        \/ \E id \in hits :
             /\ Reads(IF thread[t].job = "list" THEN hits ELSE {id})
             /\ Then(t, id)
     /\ UNCHANGED <<remote, sqlite, called, kids, delta, upload, gone, astray>>

(* The server, unless it cannot be reached.                                *)
Ask(t) ==
  /\ At(t, "ask")
  /\ \/ Do(t, [thread[t] EXCEPT !.at = "store", !.answer = Listing(thread[t].look.in)])
     \/ Then(t, None)
  /\ UNCHANGED <<remote, sqlite, memory, delta, upload, history>>

(* Each item of the answer, unless it has a tombstone: in the memory, in   *)
(* the new map, and by a listing in SQLite.                                *)
StoreItem(t, i) ==
  LET place == thread[t].answer[i]
      rest == [thread[t] EXCEPT !.answer[i] = Nowhere]
  IN /\ At(t, "store") /\ place # Nowhere
     /\ IF i \in tombs
          THEN /\ Do(t, rest)
               /\ UNCHANGED <<row, cached, astray, behind>>
          ELSE /\ Do(t, [rest EXCEPT !.map[place.name] = i])
               /\ cached' = cached \cup {i}
               /\ Upsert(t, i, place, thread[t].job = "list")
               /\ behind' = behind \cup Showing({i} \cap thread[t].overtaken)
     /\ UNCHANGED <<remote, tombs, called, kids, delta, upload, gone>>

StoreMap(t) ==
  LET f == thread[t].look.in
  IN /\ At(t, "store") /\ thread[t].answer = NoAnswer
     /\ kids' = [kids EXCEPT ![f] = thread[t].map]
     /\ behind' = IF thread[t].overtaken = {} THEN behind \ {f} ELSE behind \cup {f}
     /\ Then(t, thread[t].map[thread[t].look.name])
     /\ UNCHANGED <<remote, sqlite, cached, called, delta, upload, gone, astray>>

------------------------------------------------------------------------------
(* unlink, rmdir, and the target of a rename.                              *)

(* The server deletes the item, and listings may report it for a while.    *)
DeletedRemotely(i) ==
  /\ server' = [server EXCEPT ![i] = Nowhere]
  /\ ghost' \in {ghost, [ghost EXCEPT ![i] = server[i]]}
  /\ unseen' = unseen \cup {i}
  /\ gone' = gone \cup {i}
  /\ UNCHANGED <<used, changes>>

(* A local file is not on the server.  A delete that fails, or a folder    *)
(* that is not empty, ends unlink and rmdir; rename does not look whether  *)
(* the delete failed, and ends where the copy of a target somebody else    *)
(* has changed cannot be stored.                                           *)
Remove(t) ==
  LET i == thread[t].other
      forget == Do(t, [thread[t] EXCEPT !.at = "forget"])
  IN /\ At(t, "remove")
     /\ \/ /\ i \in Items /\ server[i] # Nowhere
           /\ DeletedRemotely(i) /\ OvertakeUpload(i) /\ forget
        \/ /\ i \in Locals \/ thread[t].job = "rename"
           /\ forget /\ UNCHANGED <<remote, upload, gone>>
        \/ i \in Items /\ Ends(t) /\ UNCHANGED <<remote, upload, gone>>
     /\ UNCHANGED <<sqlite, memory, delta, astray, behind>>

(* remove_child, and the entry is invalidated.                             *)
Forget(t) ==
  /\ At(t, "forget")
  /\ kids' = RemoveChild(kids, thread[t].look)
  /\ cached' = cached \ {thread[t].other}
  /\ Behind(Taken(thread[t].look, thread[t].other))
  /\ Do(t, [thread[t] EXCEPT !.at = "tombstone"])
  /\ UNCHANGED <<remote, sqlite, called, delta, upload, gone, astray>>

Removed(t) ==
  IF thread[t].job = "rename" THEN Do(t, [thread[t] EXCEPT !.at = "move", !.other = None])
                              ELSE Ends(t)

(* Mutant: the row goes, and nothing says that the item has been deleted.  *)
DeletePlain(t) ==
  /\ At(t, "tombstone")
  /\ row' = [row EXCEPT ![thread[t].other] = Nowhere]
  /\ Removed(t)
  /\ UNCHANGED <<remote, tombs, memory, delta, upload, history>>

(* delete_with_tombstone.                                                  *)
DeleteWithTombstone(t) ==
  /\ At(t, "tombstone")
  /\ tombs' = tombs \cup {thread[t].other}
  /\ row' = [row EXCEPT ![thread[t].other] = Nowhere]
  /\ astray' = astray \cup ({thread[t].other} \ gone)
  /\ Removed(t)
  /\ UNCHANGED <<remote, memory, delta, upload, gone, behind>>

(* It fails, which is only logged: the row stays, and the item is hidden   *)
(* only where a map has lost its name.                                     *)
TombstoneFails(t) ==
  LET i == thread[t].other
  IN /\ At(t, "tombstone")
     /\ Removed(t)
     /\ UNCHANGED <<remote, sqlite, memory, delta, upload, gone>>
     /\ astray' = astray \cup {i}
     /\ Behind({f \in Folders : i \in Items /\ server[i].in = f})

------------------------------------------------------------------------------
(* The rest of rename: the server, SQLite and memory, the children maps.   *)

Move(t) ==
  LET i == thread[t].item
      moved == Do(t, [thread[t] EXCEPT !.at = "upsert"])
  IN /\ At(t, "move")
     /\ \/ i \in Locals /\ moved /\ UNCHANGED remote
        \/ /\ i \in Items /\ server[i] # Nowhere /\ Free(thread[t].to)
           /\ server' = [server EXCEPT ![i] = thread[t].to]
           /\ unseen' = unseen \cup {i}
           /\ moved
           /\ UNCHANGED <<used, ghost, changes>>
        \/ i \in Items /\ Ends(t) /\ UNCHANGED remote
     /\ UNCHANGED <<sqlite, memory, delta, upload, history>>

UpsertMoved(t) ==
  LET i == thread[t].item
  IN /\ At(t, "upsert")
     /\ Upsert(t, i, thread[t].to, TRUE)
     /\ cached' = cached \cup {i}
     /\ called' = IF i \in Locals THEN [called EXCEPT ![i] = thread[t].to] ELSE called
     /\ behind' = behind \cup Showing({i} \cap thread[t].overtaken)
     /\ Do(t, [thread[t] EXCEPT !.at = "remap"])
     /\ UNCHANGED <<remote, tombs, kids, delta, upload, gone>>

Remap(t) ==
  LET me == thread[t]
  IN /\ At(t, "remap")
     /\ kids' = AddChild(RemoveChild(kids, me.from), me.to, me.item)
     /\ Behind((IF me.overtaken = {} THEN {} ELSE {me.to.in})
                 \cup Taken(me.from, me.item) \cup Taken(me.to, me.item))
     /\ Ends(t)
     /\ UNCHANGED <<remote, sqlite, cached, called, delta, upload, gone, astray>>

------------------------------------------------------------------------------
(* New folders and files.                                                  *)

(* mkdir asks the server, which refuses a name that is taken, ...          *)
CreateFolder(t) ==
  /\ At(t, "mkdir")
  /\ \/ \E i \in Items \ used :
          /\ Free(thread[t].from)
          /\ server' = [server EXCEPT ![i] = thread[t].from]
          /\ used' = used \cup {i}
          /\ unseen' = unseen \cup {i}
          /\ Do(t, [thread[t] EXCEPT !.at = "enter", !.item = i])
          /\ UNCHANGED <<ghost, changes>>
     \/ Ends(t) /\ UNCHANGED remote
  /\ UNCHANGED <<sqlite, memory, delta, upload, history>>

(* ... create_file does not.                                               *)
CreateFile(t) ==
  /\ At(t, "create")
  /\ \E id \in Locals \ used :
       /\ used' = used \cup {id}
       /\ Do(t, [thread[t] EXCEPT !.at = "enter", !.item = id])
  /\ UNCHANGED <<server, ghost, unseen, changes, sqlite, memory, delta, upload, history>>

(* Both enter it in the memory only.                                       *)
Enter(t) ==
  LET me == thread[t]
  IN /\ At(t, "enter")
     /\ cached' = cached \cup {me.item}
     /\ called' = IF me.item \in Locals THEN [called EXCEPT ![me.item] = me.from] ELSE called
     /\ kids' = AddChild(kids, me.from, me.item)
     /\ Behind((IF me.overtaken = {} THEN {} ELSE {me.from.in} \cup Showing({me.item}))
                 \cup Taken(me.from, me.item))
     /\ Ends(t)
     /\ UNCHANGED <<remote, sqlite, delta, upload, gone, astray>>

(* The upload of a new file puts it under its name: in the item that has   *)
(* the name by then, or in a new one.  Without metadata there is none.     *)
UploadNew(id, i) ==
  LET place == called[id]
  IN /\ upload = NoUpload
     /\ id \in used \ tombs /\ Known(id)
     /\ \/ server[i] = place /\ UNCHANGED <<server, used>>
        \/ /\ i \notin used /\ Free(place)
           /\ server' = [server EXCEPT ![i] = place]
           /\ used' = used \cup {i}
     /\ unseen' = unseen \cup {i}
     /\ upload' = [NoUpload EXCEPT !.file = id, !.item = i]
     /\ UNCHANGED <<ghost, changes, sqlite, memory, delta, thread, history>>

(* The inode of the file stands for the item of the server from here on,   *)
(* in the children maps as well.                                           *)
UploadEnds ==
  LET id == upload.file
  IN /\ upload # NoUpload
     /\ cached' = (cached \ {id}) \cup {upload.item}
     /\ kids' = [f \in Folders |-> [n \in DOMAIN kids[f] |->
                  IF kids[f][n] = id THEN upload.item ELSE kids[f][n]]]
     /\ Behind(IF upload.overtaken = {} THEN {} ELSE Showing({id, upload.item}))
     /\ upload' = NoUpload
     /\ UNCHANGED <<remote, sqlite, called, delta, thread, gone, astray>>

------------------------------------------------------------------------------
Jobs == {"find", "list", "delete", "rename", "create", "mkdir"}

Calls(t) ==
  \E job \in Jobs, from \in Places, to \in Places \cup {Nowhere} : Begin(t, job, from, to)

Driver(t) ==
  \/ Look(t) \/ Rows(t) \/ Ask(t)
  \/ \E i \in Items : StoreItem(t, i)
  \/ StoreMap(t)
  \/ Remove(t) \/ Forget(t) \/ DeleteWithTombstone(t) \/ TombstoneFails(t)
  \/ Move(t) \/ UpsertMoved(t) \/ Remap(t)
  \/ CreateFolder(t) \/ CreateFile(t) \/ Enter(t)

DeltaSync ==
  \/ DeltaQuery
  \/ \E i \in Items : DeltaDeleted(i) \/ DeltaCheck(i)
  \/ DeltaInsert \/ DeltaApply \/ DeltaFails

Steps ==
  \/ \E i \in Items, place \in Places \cup {Nowhere} : RemoteChange(i, place)
  \/ Expire
  \/ DeltaSync
  \/ \E t \in Threads : Driver(t)
  \/ \E id \in Locals, i \in Items : UploadNew(id, i)
  \/ UploadEnds

Next == (Steps /\ UNCHANGED jobs) \/ \E t \in Threads : Calls(t)

Spec == Init /\ [][Next]_vars

------------------------------------------------------------------------------
(* Correctness.                                                            *)

(* Nothing is under way and delta sync has reported every change.          *)
Settled ==
  /\ unseen = {} /\ delta = NoDelta /\ upload = NoUpload
  /\ \A t \in Threads : At(t, "idle")

(* What a listing of the folder shows from memory.                         *)
Shown(f) == {id \in Kids(f) : Known(id)}

(* Once delta sync has caught up, SQLite has every item in the place the   *)
(* server has it, however requests, failed transactions and tombstones     *)
(* crossed.  Left out are rows stored from an answer delta sync overtook   *)
(* and items that were hidden or deleted only half (astray).               *)
RowsConverge == Settled => \A i \in Items \ astray : row[i] = server[i]

(* Then, too, a folder whose names are in memory shows every item that is  *)
(* in it, and none that does not exist any more.                           *)
ListingsConverge ==
  Settled => \A f \in Folders : Mapped(f) /\ f \notin behind =>
    /\ \A i \in Items \ astray : server[i].in = f => i \in Shown(f)
    /\ \A i \in Shown(f) \cap Items : server[i] # Nowhere

(* An item deleted here is never listed, found or stored again, not even   *)
(* while delta sync has an older answer or the server still lists it, if   *)
(* its tombstone could be stored.                                          *)
DeletedStaysDeleted ==
  \A i \in gone \ astray :
    (\A t \in Threads : thread[t].other # i) =>
      /\ row[i] = Nowhere
      /\ \A f \in Folders : f \in behind \/ i \notin Shown(f)
      /\ \A t \in Threads, n \in Names :
           thread[t].map[n] = i => i \in thread[t].overtaken
================================================================================
