------------------------------- MODULE ItemStore -------------------------------
(***************************************************************************)
(* Which inode stands for which item: the inode table of a mounted drive   *)
(* (carminedesktop-vfs/src/inode.rs), the items and tombstones tables of   *)
(* SQLite (carminedesktop-cache/src/sqlite.rs), and everybody who changes  *)
(* them next to each other: delta sync, directory listings, unlink, the     *)
(* upload of a new file, offline pins and the next start of the program.   *)
(*                                                                         *)
(* The two maps of the table are behind one lock and every statement of    *)
(* SQLite is a transaction, so each call on either is one step; the steps  *)
(* of different threads interleave.  Names, parents, eTags and contents    *)
(* are left out, and so is the memory cache: it is filled together with    *)
(* the table and forgets on its own.                                       *)
(***************************************************************************)
EXTENDS Naturals

CONSTANTS
  Items,      (* ids the server can give                                    *)
  Uploads,    (* those of them it gives to files uploaded here              *)
  Locals,     (* local: ids of files created here and not uploaded yet      *)
  None,       (* no id                                                      *)
  TempBase,   (* first inode of an offline pin, 1_000_000 in the code       *)
  MaxInode    (* bound of the model on inodes                               *)

Ids == Items \cup Locals

ASSUME StoreConstants ==
  /\ Uploads \subseteq Items
  /\ Items \cap Locals = {}
  /\ None \notin Ids
  /\ TempBase \in Nat /\ MaxInode \in Nat \ {0}
  /\ 2 < TempBase

Inodes == 2..MaxInode     (* 1 is the root, which never changes             *)
NoInode == 0

VARIABLES
  server,      (* items that exist on the server                            *)
  used,        (* ids that exist or have existed                            *)
  unreported,  (* changed or deleted since the last applied delta token     *)
  ino_of,      (* InodeTable::item_to_inode                                 *)
  item_of,     (* InodeTable::inode_to_item                                 *)
  next,        (* InodeTable::next_inode                                    *)
  row,         (* inode of each row of items, by item id                    *)
  tombstones,  (* item ids of the tombstones table                          *)
  delta,       (* a delta response being handled                            *)
  response,    (* an item of a list or rename response being stored         *)
  unlink,      (* a delete being made                                       *)
  upload,      (* a new file that the server has and the table not yet      *)
  stray        (* history: items of the server that only the table forgot   *)

tableVars == <<ino_of, item_of, next>>
sqlVars == <<row, tombstones>>
worldVars == <<server, used, unreported>>
procVars == <<delta, response, unlink, upload>>
vars == <<worldVars, tableVars, sqlVars, procVars, stray>>

NoDelta == [changed |-> {}, deleted |-> {}, todo |-> {},
            ino |-> [id \in Items |-> NoInode]]
NoResponse == [stage |-> "idle", item |-> None, ino |-> NoInode]
NoUnlink == [stage |-> "idle", id |-> None]
NoUpload == [ino |-> NoInode, item |-> None]

Init ==
  /\ server \in SUBSET (Items \ Uploads)
  /\ used = server /\ unreported = server
  /\ ino_of = [id \in Ids |-> NoInode]
  /\ item_of = [n \in Inodes |-> None]
  /\ next = 2
  /\ row = [id \in Ids |-> NoInode]
  /\ tombstones = {}
  /\ delta = NoDelta /\ response = NoResponse
  /\ unlink = NoUnlink /\ upload = NoUpload
  /\ stray = {}

------------------------------------------------------------------------------
(* The inode table.                                                        *)

(* allocate, and the inode it returns.                                     *)
Allocate(id) ==
  \/ /\ ino_of[id] # NoInode
     /\ UNCHANGED tableVars
  \/ /\ ino_of[id] = NoInode
     /\ next <= MaxInode
     /\ ino_of' = [ino_of EXCEPT ![id] = next]
     /\ item_of' = [item_of EXCEPT ![next] = id]
     /\ next' = next + 1

(* Mutant: the counter is read after it was moved on.                      *)
AllocatedAfter(id) == IF ino_of[id] = NoInode THEN next + 1 ELSE ino_of[id]

Allocated(id) == IF ino_of[id] = NoInode THEN next ELSE ino_of[id]

RemoveByItemId(id) ==
  /\ ino_of' = [ino_of EXCEPT ![id] = NoInode]
  /\ item_of' = [n \in Inodes |-> IF n = ino_of[id] THEN None ELSE item_of[n]]
  /\ UNCHANGED next

(* Mutant: the old id keeps its inode.                                     *)
ReassignKeepsOld(n, id) ==
  /\ ino_of' = [ino_of EXCEPT ![id] = n]
  /\ item_of' = [item_of EXCEPT ![n] = id]
  /\ UNCHANGED next

(* The inode's old id loses it; an inode the new id already had keeps      *)
(* pointing at it.                                                         *)
Reassign(n, id) ==
  /\ ino_of' = [j \in Ids |-> IF j = id THEN n
                              ELSE IF j = item_of[n] THEN NoInode
                              ELSE ino_of[j]]
  /\ item_of' = [item_of EXCEPT ![n] = id]
  /\ UNCHANGED next

------------------------------------------------------------------------------
(* SQLite.  The inode is the primary key of items and item_id is unique:   *)
(* an upsert keeps the inode of an existing row and fails when another row *)
(* has the inode.                                                          *)

Taken(n) == \E id \in Ids : row[id] = n

(* Mutant: the tombstone is not looked at.                                 *)
UpsertUnguarded(n, id) ==
  row' = IF row[id] = NoInode /\ ~Taken(n) THEN [row EXCEPT ![id] = n] ELSE row

(* Every caller ignores a failure.                                         *)
Upsert(n, id) ==
  row' = IF id \notin tombstones /\ row[id] = NoInode /\ ~Taken(n)
           THEN [row EXCEPT ![id] = n] ELSE row

(* delete_with_tombstone.                                                  *)
DeleteWithTombstone(id) ==
  /\ tombstones' = tombstones \cup {id}
  /\ row' = [row EXCEPT ![id] = NoInode]

------------------------------------------------------------------------------
(* Delta sync.                                                             *)

(* Tombstones older than 300 s are purged, then the server is asked.  No   *)
(* response is stored 300 s after it was made.                             *)
DeltaQuery ==
  /\ delta = NoDelta
  /\ unreported # {}
  /\ \E old \in SUBSET tombstones :
       /\ response.item \notin old
       /\ tombstones' = tombstones \ old
  /\ delta' = [NoDelta EXCEPT !.changed = unreported \cap server,
                              !.deleted = unreported \ server,
                              !.todo = unreported]
  /\ unreported' = {}
  /\ UNCHANGED <<server, used, tableVars, row, response, unlink, upload, stray>>

(* Every reported item gets an inode, a deleted one to be invalidated in   *)
(* memory and a changed one to be stored; one with a tombstone is skipped. *)
DeltaItem(id) ==
  /\ id \in delta.todo
  /\ IF id \in delta.changed \cap tombstones
       THEN delta' = [delta EXCEPT !.todo = @ \ {id}] /\ UNCHANGED tableVars
       ELSE /\ Allocate(id)
            /\ delta' = [delta EXCEPT !.todo = @ \ {id},
                 !.ino[id] = IF id \in delta.changed THEN Allocated(id) ELSE NoInode]
  /\ UNCHANGED <<worldVars, sqlVars, response, unlink, upload, stray>>

Inserts ==
  {id \in Items : delta.ino[id] # NoInode /\ id \notin tombstones /\ row[id] = NoInode}
Collide ==
  \E id \in Inserts :
    \/ Taken(delta.ino[id])
    \/ \E other \in Inserts \ {id} : delta.ino[other] = delta.ino[id]

(* The transaction of apply_delta.                                         *)
DeltaApply ==
  /\ delta # NoDelta /\ delta.todo = {}
  /\ ~Collide
  /\ row' = [id \in Ids |-> IF id \in delta.deleted THEN NoInode
                            ELSE IF id \in Inserts THEN delta.ino[id]
                            ELSE row[id]]
  /\ tombstones' = tombstones \ delta.deleted
  /\ delta' = NoDelta
  /\ UNCHANGED <<worldVars, tableVars, response, unlink, upload, stray>>

(* It fails as a whole on one key collision, and the delta token stays.    *)
DeltaFails ==
  /\ delta # NoDelta /\ delta.todo = {}
  /\ Collide
  /\ unreported' = unreported \cup delta.changed \cup delta.deleted
  /\ delta' = NoDelta
  /\ UNCHANGED <<server, used, tableVars, sqlVars, response, unlink, upload, stray>>

------------------------------------------------------------------------------
(* list_children and rename: the server answers, and each item of the      *)
(* answer is stored some time later.                                       *)

Listed(id) ==
  /\ response = NoResponse
  /\ id \in server
  /\ response' = [NoResponse EXCEPT !.stage = "listed", !.item = id]
  /\ UNCHANGED <<worldVars, tableVars, sqlVars, delta, unlink, upload, stray>>

(* The tombstone check and the inode, ...                                  *)
ListedAllocate ==
  /\ response.stage = "listed"
  /\ IF response.item \in tombstones
       THEN response' = NoResponse /\ UNCHANGED tableVars
       ELSE /\ Allocate(response.item)
            /\ response' = [response EXCEPT !.stage = "store",
                                           !.ino = Allocated(response.item)]
  /\ UNCHANGED <<worldVars, sqlVars, delta, unlink, upload, stray>>

(* ... a rename of an item of the server, which has an inode, ...          *)
Renamed(id) ==
  /\ response = NoResponse
  /\ id \in server /\ ino_of[id] # NoInode
  /\ unreported' = unreported \cup {id}
  /\ response' = [stage |-> "store", item |-> id, ino |-> ino_of[id]]
  /\ UNCHANGED <<server, used, tableVars, sqlVars, delta, unlink, upload, stray>>

(* ... and the row.                                                        *)
StoreItem ==
  /\ response.stage = "store"
  /\ Upsert(response.ino, response.item)
  /\ response' = NoResponse
  /\ UNCHANGED <<worldVars, tableVars, tombstones, delta, unlink, upload, stray>>

(* find_child: an item found in SQLite or on the server gets an inode and  *)
(* no row.                                                                 *)
FindChild(id) ==
  /\ row[id] # NoInode \/ (id \in server /\ id \notin tombstones)
  /\ ino_of[id] = NoInode
  /\ Allocate(id)
  /\ UNCHANGED <<worldVars, sqlVars, procVars, stray>>

------------------------------------------------------------------------------
(* unlink, rmdir and a rename over the item: the server (which has no      *)
(* local file), the table, SQLite.  unlink and rmdir give up when the       *)
(* server refuses; a rename goes on whatever it says.                       *)

UnlinkBegin(id) ==
  /\ unlink = NoUnlink
  /\ ino_of[id] # NoInode
  /\ unlink' = [stage |-> "deleted", id |-> id]
  /\ UNCHANGED <<used, tableVars, sqlVars, delta, response, upload, stray>>

UnlinkRemote(id) ==
  /\ UnlinkBegin(id)
  /\ server' = server \ {id}
  /\ unreported' = unreported \cup ({id} \cap server)

RenameOverRefused(id) ==
  /\ id \in server
  /\ UnlinkBegin(id)
  /\ UNCHANGED <<server, unreported>>

UnlinkForget ==
  /\ unlink.stage = "deleted"
  /\ RemoveByItemId(unlink.id)
  /\ unlink' = [unlink EXCEPT !.stage = "forgotten"]
  /\ UNCHANGED <<worldVars, sqlVars, delta, response, upload, stray>>

UnlinkTombstone ==
  /\ unlink.stage = "forgotten"
  /\ DeleteWithTombstone(unlink.id)
  /\ unlink' = NoUnlink
  /\ UNCHANGED <<worldVars, tableVars, delta, response, upload, stray>>

(* SQLite fails, which is logged: the row stays, without a tombstone.      *)
UnlinkTombstoneFails ==
  /\ unlink.stage = "forgotten"
  /\ unlink' = NoUnlink
  /\ stray' = stray \cup ({unlink.id} \cap server)
  /\ UNCHANGED <<worldVars, tableVars, sqlVars, delta, response, upload>>

------------------------------------------------------------------------------
(* Files created here.                                                     *)

CreateFile(id) ==
  /\ id \in Locals \ used
  /\ Allocate(id)
  /\ used' = used \cup {id}
  /\ UNCHANGED <<server, unreported, sqlVars, procVars, stray>>

(* Before its upload a rename gives the file a row under its local id.     *)
RenameLocal(id) ==
  /\ id \in Locals
  /\ ino_of[id] # NoInode
  /\ Upsert(ino_of[id], id)
  /\ UNCHANGED <<worldVars, tableVars, tombstones, procVars, stray>>

(* The server stores the new file under an id of its own, ...              *)
UploadNew(id, new) ==
  /\ upload = NoUpload
  /\ id \in Locals /\ ino_of[id] # NoInode
  /\ new \in Uploads \ used
  /\ server' = server \cup {new}
  /\ used' = used \cup {new}
  /\ unreported' = unreported \cup {new}
  /\ upload' = [ino |-> ino_of[id], item |-> new]
  /\ UNCHANGED <<tableVars, sqlVars, delta, response, unlink, stray>>

(* ... and flush_inode_async gives the inode that id.                      *)
UploadReassign ==
  /\ upload # NoUpload
  /\ Reassign(upload.ino, upload.item)
  /\ upload' = NoUpload
  /\ UNCHANGED <<worldVars, sqlVars, delta, response, unlink, stray>>

------------------------------------------------------------------------------
(* An offline pin numbers the items of its folder from TempBase, every pin *)
(* anew, and stores each under its number.                                 *)
PinItem(id) ==
  /\ id \in server
  /\ \E n \in TempBase..MaxInode : Upsert(n, id)
  /\ UNCHANGED <<worldVars, tableVars, tombstones, procVars, stray>>

------------------------------------------------------------------------------
(* The next start: the table is built from SQLite.                         *)

(* Mutants: seeded but counting from 2; counting on but not seeded.        *)
SeededFromTwo ==
  /\ ino_of' = row
  /\ item_of' = [n \in Inodes |->
       IF Taken(n) THEN CHOOSE id \in Ids : row[id] = n ELSE None]
  /\ next' = 2

NotSeeded ==
  /\ ino_of' = [id \in Ids |-> NoInode]
  /\ item_of' = [n \in Inodes |-> None]
  /\ \E m \in 2..(MaxInode + 1) :
       /\ \A id \in Ids : row[id] < m
       /\ m = 2 \/ Taken(m - 1)
       /\ next' = m

(* new_starting_after(max_inode) and seed(all_inode_pairs).                *)
Seeded ==
  /\ ino_of' = row
  /\ item_of' = [n \in Inodes |->
       IF Taken(n) THEN CHOOSE id \in Ids : row[id] = n ELSE None]
  /\ \E m \in 2..(MaxInode + 1) :
       /\ \A id \in Ids : row[id] < m
       /\ m = 2 \/ Taken(m - 1)
       /\ next' = m

Restart ==
  /\ Seeded
  /\ unreported' = unreported \cup delta.changed \cup delta.deleted
  /\ delta' = NoDelta /\ response' = NoResponse
  /\ unlink' = NoUnlink /\ upload' = NoUpload
  /\ stray' = {}
  /\ UNCHANGED <<server, used, sqlVars>>

------------------------------------------------------------------------------
(* Other people.                                                           *)

RemoteChange(id) ==
  /\ id \in server \/ id \in Items \ (Uploads \cup used)
  /\ server' = server \cup {id}
  /\ used' = used \cup {id}
  /\ unreported' = unreported \cup {id}
  /\ UNCHANGED <<tableVars, sqlVars, procVars, stray>>

RemoteDelete(id) ==
  /\ id \in server
  /\ server' = server \ {id}
  /\ unreported' = unreported \cup {id}
  /\ UNCHANGED <<used, tableVars, sqlVars, procVars, stray>>

------------------------------------------------------------------------------
DeltaSync == DeltaQuery \/ DeltaApply \/ DeltaFails \/ \E id \in Items : DeltaItem(id)

Responses ==
  \/ ListedAllocate \/ StoreItem
  \/ \E id \in Items : Listed(id) \/ Renamed(id)
  \/ \E id \in Ids : FindChild(id)

Unlink ==
  \/ UnlinkForget \/ UnlinkTombstone \/ UnlinkTombstoneFails
  \/ \E id \in Ids : UnlinkRemote(id) \/ RenameOverRefused(id)

NewFiles ==
  \/ UploadReassign
  \/ \E id \in Locals : CreateFile(id) \/ RenameLocal(id)
  \/ \E id \in Locals, new \in Items : UploadNew(id, new)

World == \E id \in Items : RemoteChange(id) \/ RemoteDelete(id) \/ PinItem(id)

Next == DeltaSync \/ Responses \/ Unlink \/ NewFiles \/ Restart \/ World

Spec == Init /\ [][Next]_vars

------------------------------------------------------------------------------
(* Correctness.                                                            *)

InodesOrNone == {NoInode} \cup Inodes

TypeOK ==
  /\ server \subseteq Items /\ used \subseteq Ids /\ unreported \subseteq Items
  /\ ino_of \in [Ids -> InodesOrNone]
  /\ item_of \in [Inodes -> Ids \cup {None}]
  /\ next \in 2..(MaxInode + 1)
  /\ row \in [Ids -> InodesOrNone]
  /\ tombstones \subseteq Ids
  /\ delta \in [changed : SUBSET Items, deleted : SUBSET Items, todo : SUBSET Items,
                ino : [Items -> InodesOrNone]]
  /\ response \in [stage : {"idle", "listed", "store"}, item : Items \cup {None},
                   ino : InodesOrNone]
  /\ unlink \in [stage : {"idle", "deleted", "forgotten"}, id : Ids \cup {None}]
  /\ upload \in [ino : InodesOrNone, item : Items \cup {None}]
  /\ stray \subseteq Items

(* While an item deleted here has its tombstone, no listing, delta         *)
(* response, rename or pin brings its row back.                            *)
TombstonesHold == \A id \in tombstones : row[id] = NoInode

(* The inode the table gives for an item is an inode of that item, so a    *)
(* file opened by name is read, written and uploaded under its own id.     *)
TableAgrees ==
  \A id \in Ids : ino_of[id] # NoInode => item_of[ino_of[id]] = id

(* The inode of a row, unless an offline pin gave it, is never the inode   *)
(* of another item: a row is found, and a parent's children are listed, by *)
(* that number.                                                            *)
RowsKeepTheirInode ==
  \A id \in Items :
    row[id] \in Inodes /\ row[id] < TempBase => item_of[row[id]] \in {id, None}

(* An item the server has, unless an upload created it or a pin stored    *)
(* it, has the same inode in the table and in SQLite, whatever unlink,     *)
(* listing and delta sync did in between: a folder's children are stored   *)
(* under the one and looked up under the other.  Excepted are an item the  *)
(* server refused to delete between the two steps of the rename over it,   *)
(* and one whose row could not be deleted then, until the next start.      *)
FoldersAgree ==
  \A id \in server \ (Uploads \cup stray \cup {unlink.id}) :
    row[id] \in Inodes /\ row[id] < TempBase /\ ino_of[id] # NoInode
      => ino_of[id] = row[id]
==============================================================================
