---------------------------- MODULE ItemStoreProofs ----------------------------
(***************************************************************************)
(* Proofs about ItemStore for any number of items and inodes: the types,   *)
(* that tombstones hold, that the inode table agrees with itself, and that *)
(* an item has one inode in the table and in SQLite.                       *)
(*                                                                         *)
(* The two maps agree because an inode that was given out is below the     *)
(* counter, so allocate never hands it out again, and because SQLite has   *)
(* at most one row per inode, so a restart seeds the maps consistently.    *)
(***************************************************************************)
EXTENDS ItemStore, TLAPS

BelowCounter == \A id \in Ids : ino_of[id] < next

OneRowPerInode ==
  \A i, j \in Ids : row[i] # NoInode /\ row[i] = row[j] => i = j

(* The part of the invariant about the table, and the one about SQLite.    *)
TableInv ==
  /\ ino_of \in [Ids -> InodesOrNone]
  /\ item_of \in [Inodes -> Ids \cup {None}]
  /\ next \in 2..(MaxInode + 1)
  /\ TableAgrees /\ BelowCounter

SqlInv ==
  /\ row \in [Ids -> InodesOrNone]
  /\ tombstones \subseteq Ids
  /\ TombstonesHold /\ OneRowPerInode

(* What the threads hold between two of their steps.                       *)
DeltaInv ==
  delta \in [changed : SUBSET Items, deleted : SUBSET Items, todo : SUBSET Items,
             ino : [Items -> InodesOrNone]]

ResponseInv ==
  /\ response \in [stage : {"idle", "listed", "store"}, item : Items \cup {None},
                   ino : InodesOrNone]
  /\ response.stage # "idle" => response.item \in Items

UnlinkInv ==
  /\ unlink \in [stage : {"idle", "deleted", "forgotten"}, id : Ids \cup {None}]
  /\ unlink.stage # "idle" => unlink.id \in Ids
  /\ stray \subseteq Items

UploadInv ==
  /\ upload \in [ino : InodesOrNone, item : Items \cup {None}]
  /\ upload # NoUpload => upload.ino \in 2..(next - 1) /\ upload.item \in Items

WorldInv ==
  /\ server \subseteq Items /\ used \subseteq Ids /\ unreported \subseteq Items

IInv == TableInv /\ SqlInv /\ DeltaInv /\ ResponseInv /\ UnlinkInv /\ UploadInv /\ WorldInv

(* The table's operations keep its part of the invariant; an inode just    *)
(* allocated is one of the model's.                                        *)
LEMMA AllocateKeeps ==
  ASSUME NEW id \in Ids, TableInv, Allocate(id)
  PROVE  TableInv' /\ Allocated(id) \in Inodes /\ next' \in Nat /\ next <= next'
<1> USE StoreConstants DEF TableInv, Inodes, InodesOrNone, NoInode
<1>1. CASE ino_of[id] # NoInode /\ UNCHANGED tableVars
  BY <1>1 DEF Allocated, TableAgrees, BelowCounter, tableVars
<1>2. CASE /\ ino_of[id] = NoInode
           /\ next <= MaxInode
           /\ ino_of' = [ino_of EXCEPT ![id] = next]
           /\ item_of' = [item_of EXCEPT ![next] = id]
           /\ next' = next + 1
  <2>1. next \in Inodes /\ Allocated(id) = next
    BY <1>2 DEF Allocated
  <2>2. /\ ino_of' \in [Ids -> InodesOrNone]
        /\ item_of' \in [Inodes -> Ids \cup {None}]
        /\ next' \in 2..(MaxInode + 1)
    BY <1>2, <2>1
  <2>3. TableAgrees' /\ BelowCounter'
    BY <1>2, <2>1 DEF TableAgrees, BelowCounter
  <2> QED BY <1>2, <2>1, <2>2, <2>3
<1> QED BY <1>1, <1>2 DEF Allocate

LEMMA RemoveKeeps ==
  ASSUME NEW id \in Ids, TableInv, RemoveByItemId(id)
  PROVE  TableInv'
BY StoreConstants
   DEF RemoveByItemId, TableInv, TableAgrees, BelowCounter, Inodes, InodesOrNone,
   NoInode

LEMMA ReassignKeeps ==
  ASSUME NEW id \in Ids, NEW n \in 2..(next - 1), TableInv, Reassign(n, id)
  PROVE  TableInv'
<1> USE StoreConstants DEF TableInv, Inodes, InodesOrNone, NoInode, Reassign
<1>1. n \in Inodes
  OBVIOUS
<1>2. /\ ino_of' \in [Ids -> InodesOrNone]
      /\ item_of' \in [Inodes -> Ids \cup {None}]
  BY <1>1
<1>3. TableAgrees'
  BY <1>1 DEF TableAgrees
<1>4. BelowCounter'
  BY <1>1 DEF BelowCounter
<1> QED BY <1>2, <1>3, <1>4

(* SQLite's statements keep its part.                                      *)
LEMMA UpsertKeeps ==
  ASSUME NEW id \in Ids, NEW n \in InodesOrNone, SqlInv, Upsert(n, id),
         UNCHANGED tombstones
  PROVE  SqlInv'
BY StoreConstants DEF SqlInv, Upsert, Taken, TombstonesHold, OneRowPerInode,
   InodesOrNone, NoInode

LEMMA DeleteKeeps ==
  ASSUME NEW id \in Ids, SqlInv, DeleteWithTombstone(id)
  PROVE  SqlInv'
BY StoreConstants DEF SqlInv, DeleteWithTombstone, TombstonesHold, OneRowPerInode,
   InodesOrNone, NoInode

LEMMA ApplyKeeps ==
  ASSUME SqlInv, DeltaInv, DeltaApply
  PROVE  SqlInv'
<1> USE StoreConstants DEF SqlInv, DeltaInv, InodesOrNone, NoInode, Ids
<1>1. row' \in [Ids -> InodesOrNone]
  BY DEF DeltaApply, Inserts
<1>2. tombstones' \subseteq Ids /\ TombstonesHold'
  BY DEF DeltaApply, Inserts, TombstonesHold
<1>3. OneRowPerInode'
  BY DEF DeltaApply, Inserts, Collide, Taken, OneRowPerInode
<1> QED BY <1>1, <1>2, <1>3

LEMMA SeededKeeps ==
  ASSUME SqlInv, Seeded
  PROVE  TableInv'
<1> USE StoreConstants DEF SqlInv, InodesOrNone, NoInode
<1>1. ino_of' \in [Ids -> InodesOrNone] /\ next' \in 2..(MaxInode + 1)
  BY DEF Seeded
<1>2. item_of' \in [Inodes -> Ids \cup {None}]
  BY DEF Seeded, Taken
<1>3. TableAgrees'
  <2> SUFFICES ASSUME NEW id \in Ids, row[id] # NoInode
               PROVE  item_of'[row[id]] = id
    BY DEF Seeded, TableAgrees
  <2>1. row[id] \in Inodes /\ Taken(row[id])
    BY DEF Taken
  <2>2. item_of'[row[id]] = CHOOSE i \in Ids : row[i] = row[id]
    BY <2>1 DEF Seeded
  <2> QED BY <2>2 DEF OneRowPerInode
<1>4. BelowCounter'
  BY DEF Seeded, BelowCounter
<1> QED BY <1>1, <1>2, <1>3, <1>4 DEF TableInv

LEMMA InvInit == Init => IInv
<1> USE StoreConstants DEF Inodes, InodesOrNone, NoInode
<1> SUFFICES ASSUME Init PROVE IInv
  OBVIOUS
<1>1. TableInv
  BY DEF Init, TableInv, TableAgrees, BelowCounter, Ids
<1>2. SqlInv
  BY DEF Init, SqlInv, TombstonesHold, OneRowPerInode
<1>3. DeltaInv /\ ResponseInv
  BY DEF Init, DeltaInv, ResponseInv, NoDelta, NoResponse
<1>4. UnlinkInv /\ UploadInv
  BY DEF Init, UnlinkInv, UploadInv, NoUnlink, NoUpload
<1>5. WorldInv
  BY DEF Init, WorldInv, Ids
<1> QED BY <1>1, <1>2, <1>3, <1>4, <1>5 DEF IInv

(* Every step keeps the invariant: one lemma per group of actions.         *)
LEMMA DeltaSyncKeeps ==
  ASSUME IInv, DeltaSync
  PROVE  IInv'
<1> USE StoreConstants DEF IInv
<1>1. CASE DeltaQuery
  <2>1. SqlInv'
    BY <1>1 DEF DeltaQuery, SqlInv, TombstonesHold, OneRowPerInode
  <2>2. DeltaInv' /\ WorldInv'
    BY <1>1 DEF DeltaQuery, DeltaInv, NoDelta, WorldInv, InodesOrNone, NoInode
  <2>3. TableInv' /\ ResponseInv' /\ UnlinkInv' /\ UploadInv'
    BY <1>1 DEF DeltaQuery, TableInv, TableAgrees, BelowCounter, ResponseInv,
       UnlinkInv, UploadInv, tableVars
  <2> QED BY <2>1, <2>2, <2>3
<1>2. CASE DeltaApply
  <2>1. SqlInv'
    BY <1>2, ApplyKeeps
  <2>2. DeltaInv'
    BY <1>2 DEF DeltaApply, DeltaInv, NoDelta, InodesOrNone
  <2>3. TableInv' /\ ResponseInv' /\ UnlinkInv' /\ UploadInv' /\ WorldInv'
    BY <1>2 DEF DeltaApply, TableInv, TableAgrees, BelowCounter, ResponseInv,
       UnlinkInv, UploadInv, WorldInv, tableVars, worldVars
  <2> QED BY <2>1, <2>2, <2>3
<1>3. CASE DeltaFails
  <2>1. DeltaInv' /\ WorldInv'
    BY <1>3 DEF DeltaFails, DeltaInv, NoDelta, WorldInv, InodesOrNone
  <2>2. TableInv' /\ SqlInv' /\ ResponseInv' /\ UnlinkInv' /\ UploadInv'
    BY <1>3 DEF DeltaFails, TableInv, TableAgrees, BelowCounter, SqlInv,
       TombstonesHold, OneRowPerInode, ResponseInv, UnlinkInv, UploadInv, tableVars,
       sqlVars
  <2> QED BY <2>1, <2>2
<1>4. ASSUME NEW id \in Items, DeltaItem(id) PROVE IInv'
  <2>1. TableInv' /\ UploadInv'
    <3>1. CASE UNCHANGED tableVars
      BY <1>4, <3>1 DEF DeltaItem, TableInv, TableAgrees, BelowCounter, UploadInv,
        tableVars
    <3>2. CASE Allocate(id)
      <4>1. TableInv' /\ next' \in Nat /\ next <= next'
        BY <3>2, AllocateKeeps DEF Ids
      <4> QED BY <1>4, <4>1 DEF DeltaItem, UploadInv, TableInv
    <3> QED BY <1>4, <3>1, <3>2 DEF DeltaItem
  <2>2. DeltaInv'
    <3>1. CASE id \in delta.changed \cap tombstones
      BY <1>4, <3>1 DEF DeltaItem, DeltaInv
    <3>2. CASE id \notin delta.changed \cap tombstones
      <4>1. Allocated(id) \in InodesOrNone
        BY <1>4, <3>2, AllocateKeeps DEF DeltaItem, Ids, InodesOrNone
      <4> DEFINE n == IF id \in delta.changed THEN Allocated(id) ELSE NoInode
      <4>2. n \in InodesOrNone
        BY <4>1 DEF InodesOrNone
      <4>3. delta' = [delta EXCEPT !.todo = @ \ {id}, !.ino[id] = n]
        BY <1>4, <3>2 DEF DeltaItem
      <4> HIDE DEF n
      <4>4. [delta.ino EXCEPT ![id] = n] \in [Items -> InodesOrNone]
        BY <4>2 DEF DeltaInv
      <4>5. delta' = [changed |-> delta.changed, deleted |-> delta.deleted,
                      todo |-> delta.todo \ {id}, ino |-> [delta.ino EXCEPT ![id] = n]]
        BY <4>3 DEF DeltaInv
      <4> QED BY <4>4, <4>5 DEF DeltaInv
    <3> QED BY <3>1, <3>2
  <2>3. SqlInv' /\ ResponseInv' /\ UnlinkInv' /\ WorldInv'
    BY <1>4 DEF DeltaItem, SqlInv, TombstonesHold, OneRowPerInode, ResponseInv,
       UnlinkInv, WorldInv, sqlVars, worldVars
  <2> QED BY <2>1, <2>2, <2>3
<1> QED BY <1>1, <1>2, <1>3, <1>4 DEF DeltaSync

LEMMA ResponsesKeep ==
  ASSUME IInv, Responses
  PROVE  IInv'
<1> USE StoreConstants DEF IInv
<1>1. CASE ListedAllocate
  <2>1. response.item \in Ids
    BY <1>1 DEF ListedAllocate, ResponseInv, Ids
  <2>2. TableInv' /\ UploadInv' /\ ResponseInv'
    <3>1. CASE response.item \in tombstones
      BY <1>1, <3>1 DEF ListedAllocate, TableInv, TableAgrees, BelowCounter, UploadInv,
         ResponseInv, NoResponse, InodesOrNone, tableVars
    <3>2. CASE response.item \notin tombstones
      <4>1. /\ TableInv' /\ next' \in Nat /\ next <= next'
            /\ Allocated(response.item) \in Inodes
        BY <1>1, <2>1, <3>2, AllocateKeeps DEF ListedAllocate
      <4>2. UploadInv'
        BY <1>1, <4>1 DEF ListedAllocate, UploadInv, TableInv
      <4>3. ResponseInv'
        BY <1>1, <3>2, <4>1 DEF ListedAllocate, ResponseInv, InodesOrNone
      <4> QED BY <4>1, <4>2, <4>3
    <3> QED BY <3>1, <3>2
  <2>3. SqlInv' /\ DeltaInv' /\ UnlinkInv' /\ WorldInv'
    BY <1>1 DEF ListedAllocate, SqlInv, TombstonesHold, OneRowPerInode, DeltaInv,
       UnlinkInv, WorldInv, sqlVars, worldVars
  <2> QED BY <2>2, <2>3
<1>2. CASE StoreItem
  <2>1. response.item \in Ids /\ response.ino \in InodesOrNone
    BY <1>2 DEF StoreItem, ResponseInv, Ids
  <2>2. SqlInv'
    BY <1>2, <2>1, UpsertKeeps DEF StoreItem
  <2>3. ResponseInv'
    BY <1>2 DEF StoreItem, ResponseInv, NoResponse, InodesOrNone
  <2>4. TableInv' /\ DeltaInv' /\ UnlinkInv' /\ UploadInv' /\ WorldInv'
    BY <1>2 DEF StoreItem, TableInv, TableAgrees, BelowCounter, DeltaInv, UnlinkInv,
       UploadInv, WorldInv, tableVars, worldVars
  <2> QED BY <2>2, <2>3, <2>4
<1>3. ASSUME NEW id \in Items, Listed(id) \/ Renamed(id) PROVE IInv'
  <2>1. CASE Listed(id)
    BY <2>1 DEF Listed, ResponseInv, NoResponse, InodesOrNone, WorldInv, TableInv,
       TableAgrees, BelowCounter, SqlInv, TombstonesHold, OneRowPerInode, DeltaInv,
       UnlinkInv, UploadInv, worldVars, tableVars, sqlVars
  <2>2. CASE Renamed(id)
    <3>1. ino_of[id] \in InodesOrNone
      BY DEF TableInv, Ids
    <3>2. ResponseInv' /\ WorldInv'
      BY <2>2, <3>1 DEF Renamed, ResponseInv, WorldInv
    <3>3. TableInv' /\ SqlInv' /\ DeltaInv' /\ UnlinkInv' /\ UploadInv'
      BY <2>2 DEF Renamed, TableInv, TableAgrees, BelowCounter, SqlInv,
         TombstonesHold, OneRowPerInode, DeltaInv, UnlinkInv, UploadInv, tableVars,
         sqlVars
    <3> QED BY <3>2, <3>3
  <2> QED BY <1>3, <2>1, <2>2
<1>4. ASSUME NEW id \in Ids, FindChild(id) PROVE IInv'
  <2>1. TableInv' /\ next' \in Nat /\ next <= next'
    BY <1>4, AllocateKeeps DEF FindChild
  <2>2. UploadInv'
    BY <1>4, <2>1 DEF FindChild, UploadInv, TableInv, procVars
  <2>3. SqlInv' /\ DeltaInv' /\ ResponseInv' /\ UnlinkInv' /\ WorldInv'
    BY <1>4 DEF FindChild, SqlInv, TombstonesHold, OneRowPerInode, DeltaInv,
       ResponseInv, UnlinkInv, WorldInv, sqlVars, worldVars, procVars
  <2> QED BY <2>1, <2>2, <2>3
<1> QED BY <1>1, <1>2, <1>3, <1>4 DEF Responses

LEMMA UnlinkKeeps ==
  ASSUME IInv, Unlink
  PROVE  IInv'
<1> USE StoreConstants DEF IInv
<1>1. CASE UnlinkForget
  <2>1. unlink.id \in Ids
    BY <1>1 DEF UnlinkForget, UnlinkInv
  <2>2. TableInv' /\ next' = next
    BY <1>1, <2>1, RemoveKeeps DEF UnlinkForget, RemoveByItemId
  <2>3. UnlinkInv' /\ UploadInv'
    BY <1>1, <2>1, <2>2 DEF UnlinkForget, UnlinkInv, UploadInv
  <2>4. SqlInv' /\ DeltaInv' /\ ResponseInv' /\ WorldInv'
    BY <1>1 DEF UnlinkForget, SqlInv, TombstonesHold, OneRowPerInode, DeltaInv,
       ResponseInv, WorldInv, sqlVars, worldVars
  <2> QED BY <2>2, <2>3, <2>4
<1>2. CASE UnlinkTombstone
  <2>1. unlink.id \in Ids
    BY <1>2 DEF UnlinkTombstone, UnlinkInv
  <2>2. SqlInv'
    BY <1>2, <2>1, DeleteKeeps DEF UnlinkTombstone
  <2>3. UnlinkInv' /\ WorldInv'
    BY <1>2, <2>1 DEF UnlinkTombstone, UnlinkInv, NoUnlink, WorldInv, worldVars
  <2>4. TableInv' /\ DeltaInv' /\ ResponseInv' /\ UploadInv'
    BY <1>2 DEF UnlinkTombstone, TableInv, TableAgrees, BelowCounter, DeltaInv,
       ResponseInv, UploadInv, tableVars
  <2> QED BY <2>2, <2>3, <2>4
<1>3. ASSUME NEW id \in Ids, UnlinkRemote(id) \/ RenameOverRefused(id) PROVE IInv'
  <2>1. UnlinkInv' /\ WorldInv'
    BY <1>3 DEF UnlinkRemote, RenameOverRefused, UnlinkBegin, UnlinkInv, WorldInv
  <2>2. TableInv' /\ SqlInv' /\ DeltaInv' /\ ResponseInv' /\ UploadInv'
    BY <1>3 DEF UnlinkRemote, RenameOverRefused, UnlinkBegin, TableInv, TableAgrees,
      BelowCounter, SqlInv,
       TombstonesHold, OneRowPerInode, DeltaInv, ResponseInv, UploadInv, tableVars,
       sqlVars
  <2> QED BY <2>1, <2>2
<1>4. CASE UnlinkTombstoneFails
  <2>1. UnlinkInv' /\ WorldInv'
    BY <1>4 DEF UnlinkTombstoneFails, UnlinkInv, NoUnlink, WorldInv, worldVars
  <2>2. TableInv' /\ SqlInv' /\ DeltaInv' /\ ResponseInv' /\ UploadInv'
    BY <1>4 DEF UnlinkTombstoneFails, TableInv, TableAgrees, BelowCounter, SqlInv,
       TombstonesHold, OneRowPerInode, DeltaInv, ResponseInv, UploadInv, tableVars,
       sqlVars
  <2> QED BY <2>1, <2>2
<1> QED BY <1>1, <1>2, <1>3, <1>4 DEF Unlink

LEMMA NewFilesKeep ==
  ASSUME IInv, NewFiles
  PROVE  IInv'
<1> USE StoreConstants DEF IInv
<1>1. CASE UploadReassign
  <2>1. upload.ino \in 2..(next - 1) /\ upload.item \in Ids
    BY <1>1 DEF UploadReassign, UploadInv, Ids
  <2>2. TableInv'
    BY <1>1, <2>1, ReassignKeeps DEF UploadReassign
  <2>3. UploadInv'
    BY <1>1 DEF UploadReassign, UploadInv, NoUpload, InodesOrNone
  <2>4. SqlInv' /\ DeltaInv' /\ ResponseInv' /\ UnlinkInv' /\ WorldInv'
    BY <1>1 DEF UploadReassign, SqlInv, TombstonesHold, OneRowPerInode, DeltaInv,
       ResponseInv, UnlinkInv, WorldInv, sqlVars, worldVars
  <2> QED BY <2>2, <2>3, <2>4
<1>2. ASSUME NEW id \in Locals, CreateFile(id) PROVE IInv'
  <2>1. id \in Ids
    BY DEF Ids
  <2>2. TableInv' /\ next' \in Nat /\ next <= next'
    BY <1>2, <2>1, AllocateKeeps DEF CreateFile
  <2>3. UploadInv'
    BY <1>2, <2>2 DEF CreateFile, UploadInv, TableInv, procVars
  <2>4. SqlInv' /\ DeltaInv' /\ ResponseInv' /\ UnlinkInv' /\ WorldInv'
    BY <1>2, <2>1 DEF CreateFile, SqlInv, TombstonesHold, OneRowPerInode, DeltaInv,
       ResponseInv, UnlinkInv, WorldInv, sqlVars, procVars
  <2> QED BY <2>2, <2>3, <2>4
<1>3. ASSUME NEW id \in Locals, RenameLocal(id) PROVE IInv'
  <2>1. id \in Ids /\ ino_of[id] \in InodesOrNone
    BY DEF Ids, TableInv
  <2>2. SqlInv'
    BY <1>3, <2>1, UpsertKeeps DEF RenameLocal
  <2>3. /\ TableInv' /\ DeltaInv' /\ ResponseInv'
        /\ UnlinkInv' /\ UploadInv' /\ WorldInv'
    BY <1>3 DEF RenameLocal, TableInv, TableAgrees, BelowCounter, DeltaInv, ResponseInv,
       UnlinkInv, UploadInv, WorldInv, tableVars, worldVars, procVars
  <2> QED BY <2>2, <2>3
<1>4. ASSUME NEW id \in Locals, NEW new \in Items, UploadNew(id, new) PROVE IInv'
  <2>1. ino_of[id] \in 2..(next - 1)
    BY <1>4 DEF UploadNew, TableInv, BelowCounter, InodesOrNone, Inodes, NoInode, Ids
  <2>2. ino_of[id] \in InodesOrNone
    BY DEF TableInv, Ids
  <2>3. UploadInv'
    BY <1>4, <2>1, <2>2 DEF UploadNew, UploadInv, tableVars
  <2>4. WorldInv'
    BY <1>4 DEF UploadNew, WorldInv, Ids
  <2>5. TableInv' /\ SqlInv' /\ DeltaInv' /\ ResponseInv' /\ UnlinkInv'
    BY <1>4 DEF UploadNew, TableInv, TableAgrees, BelowCounter, SqlInv, TombstonesHold,
       OneRowPerInode, DeltaInv, ResponseInv, UnlinkInv, tableVars, sqlVars
  <2> QED BY <2>3, <2>4, <2>5
<1> QED BY <1>1, <1>2, <1>3, <1>4 DEF NewFiles

LEMMA RestartKeeps ==
  ASSUME IInv, Restart
  PROVE  IInv'
<1>1. TableInv'
  BY SeededKeeps DEF IInv, Restart
<1>2. SqlInv'
  BY DEF IInv, Restart, SqlInv, TombstonesHold, OneRowPerInode, sqlVars
<1>3. WorldInv'
  BY DEF IInv, Restart, WorldInv, DeltaInv
<1>4. DeltaInv' /\ ResponseInv' /\ UnlinkInv' /\ UploadInv'
  BY StoreConstants DEF Restart, DeltaInv, ResponseInv, UnlinkInv, UploadInv, NoDelta,
     NoResponse, NoUnlink, NoUpload, InodesOrNone
<1> QED BY <1>1, <1>2, <1>3, <1>4 DEF IInv

LEMMA WorldKeeps ==
  ASSUME IInv, World
  PROVE  IInv'
<1> USE StoreConstants DEF IInv
<1>1. ASSUME NEW id \in Items, RemoteChange(id) \/ RemoteDelete(id) PROVE IInv'
  <2>1. WorldInv'
    BY <1>1 DEF RemoteChange, RemoteDelete, WorldInv, Ids
  <2>2. /\ TableInv' /\ SqlInv' /\ DeltaInv'
        /\ ResponseInv' /\ UnlinkInv' /\ UploadInv'
    BY <1>1 DEF RemoteChange, RemoteDelete, TableInv, TableAgrees, BelowCounter, SqlInv,
       TombstonesHold, OneRowPerInode, DeltaInv, ResponseInv, UnlinkInv, UploadInv,
       tableVars, sqlVars, procVars
  <2> QED BY <2>1, <2>2
<1>2. ASSUME NEW id \in Items, PinItem(id) PROVE IInv'
  <2>1. PICK n \in TempBase..MaxInode : Upsert(n, id)
    BY <1>2 DEF PinItem
  <2>2. n \in InodesOrNone /\ id \in Ids
    BY DEF InodesOrNone, Inodes, Ids
  <2>3. SqlInv'
    BY <1>2, <2>1, <2>2, UpsertKeeps DEF PinItem
  <2>4. /\ TableInv' /\ DeltaInv' /\ ResponseInv'
        /\ UnlinkInv' /\ UploadInv' /\ WorldInv'
    BY <1>2 DEF PinItem, TableInv, TableAgrees, BelowCounter, DeltaInv, ResponseInv,
       UnlinkInv, UploadInv, WorldInv, tableVars, worldVars, procVars
  <2> QED BY <2>3, <2>4
<1> QED BY <1>1, <1>2 DEF World

LEMMA InvNext == IInv /\ [Next]_vars => IInv'
<1> SUFFICES ASSUME IInv, [Next]_vars PROVE IInv'
  OBVIOUS
<1>1. CASE UNCHANGED vars
  BY <1>1 DEF IInv, TableInv, TableAgrees, BelowCounter, SqlInv, TombstonesHold,
     OneRowPerInode, DeltaInv, ResponseInv, UnlinkInv, UploadInv, WorldInv,
     vars, tableVars, sqlVars, worldVars, procVars
<1>2. CASE Next
  BY <1>2, DeltaSyncKeeps, ResponsesKeep, UnlinkKeeps, NewFilesKeep, RestartKeeps,
     WorldKeeps DEF Next
<1> QED BY <1>1, <1>2

(* The inductive invariant holds of the system.                            *)
THEOREM StoreInvariant == Spec => []IInv
BY InvInit, InvNext, PTL DEF Spec

(* Type correctness of the table, SQLite and the requests in flight.       *)
THEOREM StoreTypes == Spec => []TypeOK
<1>1. IInv => TypeOK
  BY DEF IInv, TableInv, SqlInv, DeltaInv, ResponseInv, UnlinkInv, UploadInv, WorldInv,
     TypeOK
<1> QED BY <1>1, StoreInvariant, PTL

(* No listing, delta response, rename or pin stores an item that has its   *)
(* tombstone: upsert_item, apply_delta and delete_with_tombstone.          *)
THEOREM TombstonesAlwaysHold == Spec => []TombstonesHold
<1>1. IInv => TombstonesHold
  BY DEF IInv, SqlInv
<1> QED BY <1>1, StoreInvariant, PTL

(* The inode of an item is an inode of that item in every interleaving of  *)
(* allocate, remove_by_item_id, reassign and seed.                         *)
THEOREM TableAlwaysAgrees == Spec => []TableAgrees
<1>1. IInv => TableAgrees
  BY DEF IInv, TableInv
<1> QED BY <1>1, StoreInvariant, PTL

(* Two items never share a row's inode, the precondition of seeding.       *)
THEOREM OneItemPerRow == Spec => []OneRowPerInode
<1>1. IInv => OneRowPerInode
  BY DEF IInv, SqlInv
<1> QED BY <1>1, StoreInvariant, PTL

(***************************************************************************)
(* Rows keep their inode.  An inode that is in a row, or that a thread is  *)
(* about to store, was given out for its item: until the next start it is  *)
(* that item's or nobody's, and it is never the inode of an upload in      *)
(* flight, which reassign gives to another item.                           *)
(***************************************************************************)
Held(n, x) ==
  n \in Inodes /\ n < TempBase =>
    /\ n < next /\ item_of[n] \in {x, None}
    /\ upload # NoUpload => n # upload.ino

OwnInv ==
  /\ \A x \in Items : Held(row[x], x) /\ Held(delta.ino[x], x)
  /\ response.stage = "store" => Held(response.ino, response.item)
  /\ upload # NoUpload => item_of[upload.ino] \in Locals \cup {None}

(* What allocate gives out is held, and what was held stays so.            *)
LEMMA AllocateHolds ==
  ASSUME IInv, OwnInv, NEW id \in Ids, Allocate(id), UNCHANGED upload
  PROVE  /\ \A x \in Items : \A n : Held(n, x) => Held(n, x)'
         /\ \A n : id \in Items /\ n = Allocated(id) => Held(n, id)'
         /\ upload # NoUpload => item_of'[upload.ino] \in Locals \cup {None}
<1> USE StoreConstants DEF Inodes, InodesOrNone, NoInode
<1>1. CASE ino_of[id] # NoInode /\ UNCHANGED tableVars
  <2>1. id \in Items => Held(ino_of[id], id)
    <3>1. ino_of[id] < next /\ item_of[ino_of[id]] = id
      BY <1>1 DEF IInv, TableInv, TableAgrees, BelowCounter
    <3>2. id \in Items /\ upload # NoUpload => ino_of[id] # upload.ino
      BY <3>1 DEF OwnInv, Ids
    <3> QED BY <3>1, <3>2 DEF Held
  <2> QED BY <1>1, <2>1 DEF Held, Allocated, tableVars, OwnInv
<1>2. CASE ino_of[id] = NoInode /\ ~(ino_of[id] # NoInode /\ UNCHANGED tableVars)
  <2>1. /\ next \in Inodes /\ Allocated(id) = next /\ next' = next + 1
        /\ item_of' = [item_of EXCEPT ![next] = id]
    BY <1>2 DEF Allocate, Allocated, IInv, TableInv
  <2>2. upload # NoUpload => upload.ino < next /\ upload.ino \in Inodes
    BY DEF IInv, UploadInv, TableInv
  <2>3. item_of \in [Inodes -> Ids \cup {None}]
    BY DEF IInv, TableInv
  <2>4. ASSUME NEW x \in Items, NEW n, Held(n, x) PROVE Held(n, x)'
    BY <2>1, <2>3, <2>4 DEF Held
  <2>5. ASSUME NEW n, n = next PROVE Held(n, id)'
    BY <2>1, <2>2, <2>3, <2>5 DEF Held
  <2>6. upload # NoUpload => item_of'[upload.ino] \in Locals \cup {None}
    BY <2>1, <2>2, <2>3 DEF OwnInv
  <2> QED BY <2>1, <2>4, <2>5, <2>6
<1> QED BY <1>1, <1>2 DEF Allocate

LEMMA RemoveHolds ==
  ASSUME IInv, OwnInv, NEW id \in Ids, RemoveByItemId(id), UNCHANGED upload
  PROVE  /\ \A x \in Items : \A n : Held(n, x) => Held(n, x)'
         /\ upload # NoUpload => item_of'[upload.ino] \in Locals \cup {None}
<1>1. upload # NoUpload => upload.ino \in Inodes
  BY StoreConstants DEF IInv, UploadInv, TableInv, Inodes
<1> QED BY <1>1, StoreConstants DEF RemoveByItemId, Held, OwnInv

LEMMA ReassignHolds ==
  ASSUME IInv, OwnInv, UploadReassign
  PROVE  OwnInv'
<1>1. ASSUME NEW x \in Items, NEW n, Held(n, x) PROVE Held(n, x)'
  <2>1. item_of \in [Inodes -> Ids \cup {None}] /\ upload.ino \in Inodes
    BY StoreConstants DEF IInv, TableInv, UploadReassign, UploadInv, Inodes
  <2> QED BY <1>1, <2>1 DEF UploadReassign, Reassign, Held, NoUpload
<1>2. response.stage = "store" => response.item \in Items
  BY DEF IInv, ResponseInv
<1> QED BY <1>1, <1>2 DEF OwnInv, UploadReassign, sqlVars

(* An upsert stores what is held, or a number of a pin.                    *)
LEMMA UpsertHolds ==
  ASSUME IInv, OwnInv, NEW id \in Ids, NEW n \in InodesOrNone, Upsert(n, id),
         id \in Items => Held(n, id),
         UNCHANGED tableVars, UNCHANGED upload
  PROVE  \A x \in Items : Held(row[x], x)'
<1> SUFFICES ASSUME NEW x \in Items PROVE Held(row[x], x)'
  OBVIOUS
<1>1. \A m, y : Held(m, y) => (m \in Inodes /\ m < TempBase =>
                               /\ m < next' /\ item_of'[m] \in {y, None}
                               /\ upload' # NoUpload => m # upload'.ino)
  BY DEF Held, tableVars
<1>2. row'[x] = row[x] \/ (x = id /\ row'[x] = n)
  BY DEF Upsert, IInv, SqlInv, Ids
<1>3. Held(row[x], x)
  BY DEF OwnInv
<1>4. row'[x] \in Inodes /\ row'[x] < TempBase =>
        /\ row'[x] < next' /\ item_of'[row'[x]] \in {x, None}
        /\ upload' # NoUpload => row'[x] # upload'.ino
  BY <1>1, <1>2, <1>3
<1> QED BY <1>4 DEF Held

LEMMA SameTableHolds ==
  ASSUME UNCHANGED tableVars, UNCHANGED upload
  PROVE  \A x \in Items : \A n : Held(n, x) => Held(n, x)'
BY DEF Held, tableVars

(* When what was held stays held, whatever is not newly held is as before. *)
LEMMA OwnKeeps ==
  ASSUME IInv, OwnInv,
         \A x \in Items : \A n : Held(n, x) => Held(n, x)',
         upload' # NoUpload => item_of'[upload'.ino] \in Locals \cup {None},
         \A x \in Items : row'[x] \in {row[x], NoInode} \/ Held(row[x], x)',
         \A x \in Items : delta'.ino[x] \in {delta.ino[x], NoInode} \/ Held(delta.ino[x], x)',
         response'.stage = "store" =>
           response' = response \/ Held(response.ino, response.item)'
  PROVE  OwnInv'
<1>1. \A x : Held(NoInode, x)'
  BY StoreConstants DEF Held, Inodes, NoInode
<1>2. ASSUME NEW x \in Items PROVE Held(row[x], x)' /\ Held(delta.ino[x], x)'
  <2>1. Held(row[x], x) /\ Held(delta.ino[x], x)
    BY DEF OwnInv
  <2>2. Held(row[x], x)'
    <3>1. CASE row'[x] = row[x]
      BY <2>1, <3>1 DEF Held
    <3>2. CASE row'[x] = NoInode
      BY <1>1, <3>2 DEF Held
    <3> QED BY <3>1, <3>2
  <2>3. Held(delta.ino[x], x)'
    <3>1. CASE delta'.ino[x] = delta.ino[x]
      BY <2>1, <3>1 DEF Held
    <3>2. CASE delta'.ino[x] = NoInode
      BY <1>1, <3>2 DEF Held
    <3> QED BY <3>1, <3>2
  <2> QED BY <2>2, <2>3
<1>3. response'.stage = "store" => Held(response.ino, response.item)'
  <2>1. CASE response' = response /\ response.stage = "store"
    <3>1. response.item \in Items /\ Held(response.ino, response.item)
      BY <2>1 DEF IInv, ResponseInv, OwnInv
    <3> QED BY <2>1, <3>1 DEF Held
  <2> QED BY <2>1
<1> QED BY <1>2, <1>3 DEF OwnInv

LEMMA OwnInit == Init => OwnInv
BY StoreConstants DEF Init, OwnInv, Held, NoDelta, NoResponse, NoUpload, Inodes,
   NoInode, Ids

LEMMA OwnDeltaSync ==
  ASSUME IInv, OwnInv, DeltaSync
  PROVE  OwnInv'
<1>1. CASE DeltaQuery \/ DeltaFails
  <2>1. delta'.ino = [id \in Items |-> NoInode]
    <3>1. CASE DeltaFails
      BY <3>1 DEF DeltaFails, NoDelta
    <3>2. CASE DeltaQuery
      <4>1. delta' = [NoDelta EXCEPT !.changed = unreported \cap server,
                                    !.deleted = unreported \ server,
                                    !.todo = unreported]
        BY <3>2 DEF DeltaQuery
      <4>2. delta'.ino = NoDelta.ino
        BY <4>1 DEF NoDelta
      <4> QED BY <4>2 DEF NoDelta
    <3> QED BY <1>1, <3>1, <3>2
  <2> QED BY <1>1, <2>1, SameTableHolds, OwnKeeps
        DEF DeltaQuery, DeltaFails, OwnInv, tableVars, sqlVars
<1>2. CASE DeltaApply
  <2>1. \A x \in Items : delta'.ino[x] = NoInode
    BY <1>2 DEF DeltaApply, NoDelta
  <2>2. ASSUME NEW x \in Items
        PROVE  row'[x] \in {row[x], NoInode} \/ Held(row[x], x)'
    <3>1. row'[x] \in {row[x], NoInode, delta.ino[x]}
      BY <1>2 DEF DeltaApply, Ids
    <3>2. Held(delta.ino[x], x)
      BY DEF OwnInv
    <3>3. CASE row'[x] = delta.ino[x]
      BY <1>2, <3>2, <3>3 DEF DeltaApply, Held, tableVars
    <3> QED BY <3>1, <3>3
  <2> QED BY <1>2, <2>1, <2>2, SameTableHolds, OwnKeeps
          DEF DeltaApply, OwnInv, tableVars
<1>3. ASSUME NEW id \in Items, DeltaItem(id) PROVE OwnInv'
  <2>1. delta \in [changed : SUBSET Items, deleted : SUBSET Items, todo : SUBSET Items,
                   ino : [Items -> InodesOrNone]]
    BY DEF IInv, DeltaInv
  <2>2. CASE id \in delta.changed \cap tombstones
    <3>1. delta'.ino = delta.ino
      BY <1>3, <2>1, <2>2 DEF DeltaItem
    <3> QED BY <1>3, <2>2, <3>1, SameTableHolds, OwnKeeps
          DEF DeltaItem, OwnInv, tableVars, sqlVars
  <2>3. CASE id \notin delta.changed \cap tombstones
    <3>1. /\ \A x \in Items : \A n : Held(n, x) => Held(n, x)'
          /\ \A n : n = Allocated(id) => Held(n, id)'
          /\ upload # NoUpload => item_of'[upload.ino] \in Locals \cup {None}
      BY <1>3, <2>3, AllocateHolds DEF DeltaItem, Ids
    <3>2. /\ delta'.ino[id] \in {Allocated(id), NoInode}
          /\ \A x \in Items \ {id} : delta'.ino[x] = delta.ino[x]
      <4> DEFINE n == IF id \in delta.changed THEN Allocated(id) ELSE NoInode
      <4>1. delta' = [delta EXCEPT !.todo = @ \ {id}, !.ino[id] = n]
        BY <1>3, <2>3 DEF DeltaItem
      <4>2. n \in {Allocated(id), NoInode}
        OBVIOUS
      <4> HIDE DEF n
      <4>3. delta'.ino = [delta.ino EXCEPT ![id] = n]
        BY <2>1, <4>1
      <4> QED BY <2>1, <4>2, <4>3
    <3>3. delta'.ino[id] = NoInode \/ Held(delta.ino[id], id)'
      BY <3>1, <3>2 DEF Held
    <3> QED BY <1>3, <3>1, <3>2, <3>3, OwnKeeps DEF DeltaItem, sqlVars
  <2> QED BY <2>2, <2>3
<1> QED BY <1>1, <1>2, <1>3 DEF DeltaSync

LEMMA OwnResponses ==
  ASSUME IInv, OwnInv, Responses
  PROVE  OwnInv'
<1>1. CASE ListedAllocate
  <2>1. response.item \in Items
    BY <1>1 DEF IInv, ResponseInv, ListedAllocate
  <2>2. CASE response.item \in tombstones
    BY <1>1, <2>2, SameTableHolds, OwnKeeps
       DEF ListedAllocate, OwnInv, NoResponse, tableVars, sqlVars
  <2>3. CASE response.item \notin tombstones
    <3>1. PICK x \in Items : x = response.item
      BY <2>1
    <3>2. /\ \A y \in Items : \A n : Held(n, y) => Held(n, y)'
          /\ \A n : n = Allocated(x) => Held(n, x)'
          /\ upload # NoUpload => item_of'[upload.ino] \in Locals \cup {None}
      BY <1>1, <2>3, <3>1, AllocateHolds DEF ListedAllocate, Ids
    <3>3. response'.ino = Allocated(x) /\ response'.item = x
      BY <1>1, <2>3, <3>1 DEF ListedAllocate, IInv, ResponseInv
    <3>4. Held(response.ino, response.item)'
      BY <3>2, <3>3 DEF Held
    <3> QED BY <1>1, <3>2, <3>4, OwnKeeps DEF ListedAllocate, sqlVars
  <2> QED BY <2>2, <2>3
<1>2. CASE StoreItem
  <2>1. /\ response.item \in Items /\ response.ino \in InodesOrNone
        /\ Held(response.ino, response.item)
    BY <1>2 DEF StoreItem, IInv, ResponseInv, OwnInv
  <2>2. \A x \in Items : Held(row[x], x)'
    BY <1>2, <2>1, UpsertHolds DEF StoreItem, Ids
  <2> QED BY <1>2, <2>2, SameTableHolds, OwnKeeps
        DEF StoreItem, OwnInv, NoResponse, tableVars
<1>3. ASSUME NEW id \in Items, Listed(id) PROVE OwnInv'
  BY <1>3, SameTableHolds, OwnKeeps DEF Listed, NoResponse, OwnInv, tableVars, sqlVars
<1>4. ASSUME NEW id \in Items, Renamed(id) PROVE OwnInv'
  <2>1. ino_of[id] < next /\ item_of[ino_of[id]] = id
    BY <1>4 DEF Renamed, IInv, TableInv, TableAgrees, BelowCounter, Ids
  <2>2. upload # NoUpload => ino_of[id] # upload.ino
    BY <2>1, StoreConstants DEF OwnInv, Ids
  <2>3. Held(response.ino, response.item)'
    BY <1>4, <2>1, <2>2 DEF Renamed, Held, tableVars
  <2> QED BY <1>4, <2>3, SameTableHolds, OwnKeeps
          DEF Renamed, OwnInv, tableVars, sqlVars
<1>5. ASSUME NEW id \in Ids, FindChild(id) PROVE OwnInv'
  BY <1>5, AllocateHolds, OwnKeeps DEF FindChild, sqlVars, procVars
<1> QED BY <1>1, <1>2, <1>3, <1>4, <1>5 DEF Responses

LEMMA OwnUnlink ==
  ASSUME IInv, OwnInv, Unlink
  PROVE  OwnInv'
<1>1. CASE UnlinkForget
  <2>1. PICK id \in Ids : id = unlink.id
    BY <1>1 DEF UnlinkForget, IInv, UnlinkInv
  <2>2. /\ \A x \in Items : \A n : Held(n, x) => Held(n, x)'
        /\ upload # NoUpload => item_of'[upload.ino] \in Locals \cup {None}
    BY <1>1, <2>1, RemoveHolds DEF UnlinkForget
  <2> QED BY <1>1, <2>2, OwnKeeps DEF UnlinkForget, sqlVars
<1>2. CASE UnlinkTombstone
  <2>1. \A x \in Items : row'[x] \in {row[x], NoInode}
    BY <1>2 DEF UnlinkTombstone, DeleteWithTombstone, IInv, SqlInv, Ids
  <2> QED BY <1>2, <2>1, SameTableHolds, OwnKeeps DEF UnlinkTombstone, OwnInv, tableVars
<1>3. ASSUME NEW id \in Ids, UnlinkRemote(id) \/ RenameOverRefused(id) PROVE OwnInv'
  BY <1>3, SameTableHolds, OwnKeeps
     DEF UnlinkRemote, RenameOverRefused, UnlinkBegin, OwnInv, tableVars, sqlVars
<1>4. CASE UnlinkTombstoneFails
  BY <1>4, SameTableHolds, OwnKeeps DEF UnlinkTombstoneFails, OwnInv, tableVars, sqlVars
<1> QED BY <1>1, <1>2, <1>3, <1>4 DEF Unlink

LEMMA OwnNewFiles ==
  ASSUME IInv, OwnInv, NewFiles
  PROVE  OwnInv'
<1>1. CASE UploadReassign
  BY <1>1, ReassignHolds
<1>2. ASSUME NEW id \in Locals, CreateFile(id) PROVE OwnInv'
  BY <1>2, AllocateHolds, OwnKeeps DEF CreateFile, sqlVars, procVars, Ids
<1>3. ASSUME NEW id \in Locals, RenameLocal(id) PROVE OwnInv'
  <2>1. id \in Ids /\ id \notin Items /\ ino_of[id] \in InodesOrNone
    BY StoreConstants DEF Ids, IInv, TableInv
  <2>2. \A x \in Items : Held(row[x], x)'
    BY <1>3, <2>1, UpsertHolds DEF RenameLocal, procVars
  <2> QED BY <1>3, <2>2, SameTableHolds, OwnKeeps
          DEF RenameLocal, OwnInv, tableVars, procVars
<1>4. ASSUME NEW id \in Locals, NEW new \in Items, UploadNew(id, new) PROVE OwnInv'
  <2>1. ino_of[id] \in Inodes /\ item_of[ino_of[id]] = id
    BY <1>4 DEF UploadNew, IInv, TableInv, TableAgrees, InodesOrNone, Ids
  <2>2. upload' = [ino |-> ino_of[id], item |-> new] /\ upload = NoUpload
    BY <1>4 DEF UploadNew
  <2>3. ASSUME NEW x \in Items, NEW n, Held(n, x) PROVE Held(n, x)'
    BY <1>4, <2>1, <2>2, <2>3, StoreConstants DEF UploadNew, Held, tableVars, Ids
  <2> QED BY <1>4, <2>1, <2>2, <2>3, OwnKeeps DEF UploadNew, OwnInv, tableVars, sqlVars
<1> QED BY <1>1, <1>2, <1>3, <1>4 DEF NewFiles

(* After a restart every row's inode is the one of its item.               *)
LEMMA OwnRestart ==
  ASSUME IInv, OwnInv, Restart
  PROVE  OwnInv'
<1>1. TableInv'
  BY RestartKeeps DEF IInv
<1>2. ASSUME NEW x \in Items PROVE Held(row[x], x)'
  <2>1. row' = row /\ ino_of' = row /\ upload' = NoUpload
    BY DEF Restart, Seeded, sqlVars
  <2>2. row[x] \in Inodes => row[x] < next' /\ item_of'[row[x]] = x
    BY <1>1, <2>1, StoreConstants
       DEF TableInv, TableAgrees, BelowCounter, Ids, Inodes, NoInode
  <2> QED BY <2>1, <2>2 DEF Held
<1>3. \A x \in Items : Held(delta.ino[x], x)'
  BY StoreConstants DEF Restart, NoDelta, Held, Inodes, NoInode
<1> QED BY <1>2, <1>3 DEF Restart, NoResponse, NoUpload, OwnInv

LEMMA OwnWorld ==
  ASSUME IInv, OwnInv, World
  PROVE  OwnInv'
<1>1. ASSUME NEW id \in Items, RemoteChange(id) \/ RemoteDelete(id) PROVE OwnInv'
  BY <1>1, SameTableHolds, OwnKeeps
     DEF RemoteChange, RemoteDelete, OwnInv, tableVars, sqlVars, procVars
<1>2. ASSUME NEW id \in Items, PinItem(id) PROVE OwnInv'
  <2>1. PICK n \in TempBase..MaxInode : Upsert(n, id)
    BY <1>2 DEF PinItem
  <2>2. n \in InodesOrNone /\ id \in Ids /\ Held(n, id)
    BY StoreConstants DEF InodesOrNone, Inodes, Ids, Held
  <2>3. \A x \in Items : Held(row[x], x)'
    BY <1>2, <2>1, <2>2, UpsertHolds DEF PinItem, procVars
  <2> QED BY <1>2, <2>3, SameTableHolds, OwnKeeps
          DEF PinItem, OwnInv, tableVars, procVars
<1> QED BY <1>1, <1>2 DEF World

LEMMA OwnNext == IInv /\ OwnInv /\ [Next]_vars => OwnInv'
<1> SUFFICES ASSUME IInv, OwnInv, [Next]_vars PROVE OwnInv'
  OBVIOUS
<1>1. CASE UNCHANGED vars
  BY <1>1, SameTableHolds, OwnKeeps DEF OwnInv, vars, tableVars, sqlVars, procVars
<1>2. CASE Next
  BY <1>2, OwnDeltaSync, OwnResponses, OwnUnlink, OwnNewFiles, OwnRestart, OwnWorld
     DEF Next
<1> QED BY <1>1, <1>2

(* The inode of a row that no pin gave stands for the row's item or for    *)
(* none: neither a reassign nor a later allocate gives it to another item, *)
(* however delta sync, listings, unlink, uploads and restarts interleave.  *)
THEOREM RowsAlwaysKeepTheirInode == Spec => []RowsKeepTheirInode
<1>1. OwnInv => RowsKeepTheirInode
  BY DEF OwnInv, Held, RowsKeepTheirInode
<1> QED BY <1>1, OwnInit, OwnNext, StoreInvariant, PTL DEF Spec

(***************************************************************************)
(* Folders agree.  An item of the server leaves the table only in a rename *)
(* over it that the server refused.  Until its row is deleted it is not    *)
(* covered, nor after that has failed; when it has worked, its tombstone   *)
(* keeps whatever a thread still holds for it from being stored, and it is *)
(* purged only when no thread can hold something so old.                   *)
(***************************************************************************)
UsedInv ==
  /\ server \cup unreported \subseteq used
  /\ delta.todo \cup delta.changed \cup delta.deleted \subseteq used
  /\ delta.deleted \cap server = {}
  /\ \A x \in Items : ino_of[x] # NoInode \/ row[x] # NoInode \/ delta.ino[x] # NoInode
                        => x \in used
  /\ response.stage # "idle" => response.item \in used
  /\ upload # NoUpload => upload.item \in Uploads \cap used

Covered == server \ (Uploads \cup stray \cup {unlink.id})

Agree(x, n) == n \in Inodes /\ n < TempBase => ino_of[x] = n

AgreeInv ==
  /\ UsedInv
  /\ \A x \in Covered :
       /\ Agree(x, row[x])
       /\ x \notin tombstones => Agree(x, delta.ino[x])
  /\ response.stage = "store" /\ response.item \in Covered \ tombstones
       => Agree(response.item, response.ino)

(* Allocate gives nobody else an inode and moves nobody.                   *)
LEMMA AllocateStays ==
  ASSUME TableInv, NEW id \in Ids, Allocate(id)
  PROVE  /\ \A x \in Ids : ino_of[x] # NoInode \/ x # id => ino_of'[x] = ino_of[x]
         /\ ino_of'[id] = Allocated(id)
BY DEF TableInv, Allocate, Allocated, tableVars

LEMMA InitAgrees == Init => AgreeInv
BY StoreConstants DEF Init, AgreeInv, UsedInv, Covered, Agree, NoDelta, NoResponse,
  NoUnlink, NoUpload,
   Ids, Inodes, NoInode

(* What may change without disturbing the agreement.                       *)
LEMMA AgreeKeeps ==
  ASSUME IInv, AgreeInv, UsedInv', server' \subseteq Items,
         Covered' \subseteq Covered \cup (Items \ used),
         \A x \in Items : ino_of'[x] = ino_of[x] \/ ino_of[x] = NoInode \/ x \notin Covered',
         \A x \in Covered' \cap tombstones :
           \/ x \in tombstones'
           \/ delta'.ino[x] = NoInode /\ (response'.stage = "store" => response'.item # x),
         \A x \in Covered' : \A n : n = row'[x] =>
           n \in {row[x], NoInode} \/ Agree(x, n)',
         \A x \in Covered' : \A n : n = delta'.ino[x] =>
           n \in {delta.ino[x], NoInode} \/ Agree(x, n)',
         response'.stage = "store" =>
           response' = response \/ \A x, n : x = response'.item /\ n = response'.ino => Agree(x, n)'
  PROVE  AgreeInv'
<1> USE StoreConstants DEF Inodes, NoInode
<1>0. Covered \subseteq Items /\ Covered' \subseteq Items
  BY DEF IInv, WorldInv, Covered
<1>1. ASSUME NEW x \in Covered', NEW n, Agree(x, n)
      PROVE  Agree(x, n)'
  BY <1>0, <1>1 DEF Agree
<1>2. \A x \in Covered' : x \notin Covered => row[x] = NoInode /\ delta.ino[x] = NoInode
  BY <1>0 DEF AgreeInv, UsedInv
<1>3. ASSUME NEW x \in Covered'
      PROVE  Agree(x, row[x])' /\ (x \notin tombstones' => Agree(x, delta.ino[x])')
  <2>1. \A n : n = row'[x] => Agree(x, n)'
    BY <1>1, <1>2, <1>3 DEF AgreeInv, Agree
  <2>2. ASSUME x \notin tombstones', NEW n, n = delta'.ino[x] PROVE Agree(x, n)'
    <3>1. CASE n = NoInode
      BY <3>1 DEF Agree
    <3>2. CASE n # NoInode
      <4>1. x \notin tombstones
        BY <2>2, <3>2
      <4>2. Agree(x, delta.ino[x])
        BY <1>2, <4>1 DEF AgreeInv, Agree
      <4>3. n = delta.ino[x] \/ Agree(x, n)'
        BY <1>3, <2>2, <3>2
      <4> QED  BY <1>1, <1>3, <4>2, <4>3
    <3> QED  BY <3>1, <3>2
  <2> QED  BY <2>1, <2>2 DEF Agree
<1>4. ASSUME response'.stage = "store", response'.item \in Covered' \ tombstones'
      PROVE  Agree(response.item, response.ino)'
  <2>1. CASE response' = response
    <3>1. response.item \in Covered \/ response.item \in Items \ used
      BY <1>4, <2>1
    <3>2. response.item \in Covered \ tombstones
      BY <1>4, <2>1, <3>1 DEF AgreeInv, UsedInv
    <3>3. \A x, n : x = response.item /\ n = response.ino => Agree(x, n)'
      BY <1>1, <1>4, <2>1, <3>2 DEF AgreeInv
    <3> QED  BY <2>1, <3>3 DEF Agree
  <2>2. CASE \A x, n : x = response'.item /\ n = response'.ino => Agree(x, n)'
    BY <2>2 DEF Agree
  <2> QED  BY <1>4, <2>1, <2>2
<1> QED  BY <1>3, <1>4 DEF AgreeInv

LEMMA AgreeDeltaSync ==
  ASSUME IInv, AgreeInv, DeltaSync
  PROVE  AgreeInv'
<1>0. delta \in [changed : SUBSET Items, deleted : SUBSET Items, todo : SUBSET Items,
                 ino : [Items -> InodesOrNone]]
  BY DEF IInv, DeltaInv
<1>1. CASE DeltaQuery \/ DeltaFails
  <2>1. /\ \A x \in Items : delta'.ino[x] = NoInode
        /\ delta'.todo \cup delta'.changed \cup delta'.deleted \subseteq unreported
        /\ delta'.deleted \cap server = {}
        /\ unreported' \subseteq unreported \cup delta.changed \cup delta.deleted
        /\ \A x \in tombstones : x \in tombstones' \/ response.item # x
    <3>1. CASE DeltaFails
      BY <3>1 DEF DeltaFails, NoDelta, sqlVars
    <3>2. CASE DeltaQuery
      <4>1. delta' = [[[NoDelta EXCEPT !.changed = unreported \cap server]
                         EXCEPT !.deleted = unreported \ server] EXCEPT !.todo = unreported]
        BY <3>2 DEF DeltaQuery
      <4>2. /\ delta'.changed = unreported \cap server
            /\ delta'.deleted = unreported \ server
            /\ delta'.todo = unreported
            /\ delta'.ino = [x \in Items |-> NoInode]
        BY <4>1 DEF NoDelta
      <4>3. \A x \in tombstones : x \in tombstones' \/ response.item # x
        BY <3>2 DEF DeltaQuery
      <4> QED  BY <3>2, <4>2, <4>3 DEF DeltaQuery
    <3> QED  BY <1>1, <3>1, <3>2
  <2>2. UNCHANGED <<server, used, tableVars, row, response, unlink, upload, stray>>
    BY <1>1 DEF DeltaQuery, DeltaFails, sqlVars
  <2>3. UsedInv'
    BY <2>1, <2>2 DEF AgreeInv, UsedInv, tableVars
  <2>4. server' \subseteq Items /\ Covered' = Covered /\ Covered \subseteq Items
    BY <2>2 DEF Covered, IInv, WorldInv
  <2> QED  BY <2>1, <2>2, <2>3, <2>4, AgreeKeeps DEF tableVars
<1>2. CASE DeltaApply
  <2>1. delta' = NoDelta /\ UNCHANGED <<worldVars, tableVars, response, unlink, upload, stray>>
    BY <1>2 DEF DeltaApply
  <2>2. \A x \in Items : row'[x] \in {row[x], NoInode, delta.ino[x]}
    BY <1>2 DEF DeltaApply, Ids
  <2>3. UsedInv'
    BY <2>1, <2>2 DEF AgreeInv, UsedInv, tableVars, worldVars, NoDelta
  <2>4. server' \subseteq Items /\ Covered' = Covered /\ Covered \subseteq Items
    BY <2>1 DEF Covered, worldVars, IInv, WorldInv
  <2>5. ASSUME NEW x \in Covered', NEW n, n = row'[x]
        PROVE  n \in {row[x], NoInode} \/ Agree(x, n)'
    <3>1. CASE x \in tombstones
      BY <1>2, <2>4, <2>5, <3>1 DEF DeltaApply, Inserts, Ids
    <3>2. CASE x \notin tombstones
      BY <2>1, <2>2, <2>4, <2>5, <3>2 DEF AgreeInv, Agree, tableVars
    <3> QED  BY <3>1, <3>2
  <2>6. \A x \in Covered' \cap tombstones : x \in tombstones'
    BY <1>2, <2>4 DEF DeltaApply, AgreeInv, UsedInv, Covered
  <2> QED  BY <2>1, <2>3, <2>4, <2>5, <2>6, AgreeKeeps DEF tableVars, NoDelta
<1>3. ASSUME NEW id \in Items, DeltaItem(id) PROVE AgreeInv'
  <2>1. id \in used /\ UNCHANGED <<worldVars, sqlVars, response, unlink, upload, stray>>
    BY <1>3 DEF DeltaItem, AgreeInv, UsedInv
  <2>2. CASE id \in delta.changed \cap tombstones
    <3>1. /\ delta'.ino = delta.ino /\ delta'.todo \subseteq delta.todo
          /\ delta'.changed = delta.changed /\ delta'.deleted = delta.deleted
      BY <1>0, <1>3, <2>2 DEF DeltaItem
    <3>2. UNCHANGED tableVars
      BY <1>3, <2>2 DEF DeltaItem
    <3>3. UsedInv'
      BY <2>1, <3>1, <3>2 DEF AgreeInv, UsedInv, worldVars, sqlVars, tableVars
    <3> QED  BY <2>1, <3>1, <3>2, <3>3, AgreeKeeps
            DEF Covered, worldVars, sqlVars, tableVars, IInv, WorldInv
  <2>3. CASE id \notin delta.changed \cap tombstones
    <3>1. /\ \A x \in Ids : ino_of[x] # NoInode \/ x # id => ino_of'[x] = ino_of[x]
          /\ ino_of'[id] = Allocated(id)
      BY <1>3, <2>3, AllocateStays DEF DeltaItem, Ids, IInv
    <3>2. /\ delta'.ino[id] \in {Allocated(id), NoInode}
          /\ \A x \in Items \ {id} : delta'.ino[x] = delta.ino[x]
          /\ delta'.todo \subseteq delta.todo
          /\ delta'.changed = delta.changed /\ delta'.deleted = delta.deleted
      <4> DEFINE n == IF id \in delta.changed THEN Allocated(id) ELSE NoInode
      <4>1. delta' = [delta EXCEPT !.todo = @ \ {id}, !.ino[id] = n]
        BY <1>3, <2>3 DEF DeltaItem
      <4>2. n \in {Allocated(id), NoInode}
        OBVIOUS
      <4> HIDE DEF n
      <4>3. /\ delta'.ino = [delta.ino EXCEPT ![id] = n] /\ delta'.todo = delta.todo \ {id}
            /\ delta'.changed = delta.changed /\ delta'.deleted = delta.deleted
        BY <1>0, <4>1
      <4> QED  BY <1>0, <4>2, <4>3
    <3>3. UsedInv'
      BY <2>1, <3>1, <3>2 DEF AgreeInv, UsedInv, worldVars, sqlVars, Ids
    <3>4. ASSUME NEW x \in Covered', NEW n, n = delta'.ino[x]
          PROVE  n \in {delta.ino[x], NoInode} \/ Agree(x, n)'
      BY <2>1, <3>1, <3>2, <3>4 DEF Agree, Covered, IInv, WorldInv, worldVars
    <3> QED  BY <2>1, <3>1, <3>3, <3>4, AgreeKeeps
            DEF Covered, worldVars, sqlVars, Ids, IInv, WorldInv
  <2> QED  BY <2>2, <2>3
<1> QED  BY <1>1, <1>2, <1>3 DEF DeltaSync

LEMMA AgreeResponses ==
  ASSUME IInv, AgreeInv, Responses
  PROVE  AgreeInv'
<1>1. CASE ListedAllocate
  <2>1. UNCHANGED <<worldVars, sqlVars, delta, unlink, upload, stray>> /\ response.stage = "listed"
    BY <1>1 DEF ListedAllocate
  <2>2. PICK id \in Items : id = response.item /\ id \in used
    BY <2>1 DEF IInv, ResponseInv, AgreeInv, UsedInv
  <2>3. CASE id \in tombstones
    <3>1. UNCHANGED tableVars /\ response' = NoResponse
      BY <1>1, <2>2, <2>3 DEF ListedAllocate
    <3>2. UsedInv'
      BY <2>1, <3>1 DEF AgreeInv, UsedInv, worldVars, sqlVars, tableVars, NoResponse
    <3> QED  BY <2>1, <3>1, <3>2, AgreeKeeps
            DEF Covered, worldVars, sqlVars, tableVars, NoResponse, IInv, WorldInv
  <2>4. CASE id \notin tombstones
    <3>1. /\ \A x \in Ids : ino_of[x] # NoInode \/ x # id => ino_of'[x] = ino_of[x]
          /\ ino_of'[id] = Allocated(id)
      BY <1>1, <2>2, <2>4, AllocateStays DEF ListedAllocate, Ids, IInv
    <3>2. response'.item = id /\ response'.ino = Allocated(id)
      BY <1>1, <2>2, <2>4 DEF ListedAllocate, IInv, ResponseInv
    <3>3. UsedInv'
      BY <2>1, <2>2, <3>1, <3>2 DEF AgreeInv, UsedInv, worldVars, sqlVars, Ids
    <3>4. \A x, n : x = response'.item /\ n = response'.ino => Agree(x, n)'
      BY <3>1, <3>2 DEF Agree
    <3> QED  BY <2>1, <3>1, <3>3, <3>4, AgreeKeeps
            DEF Covered, worldVars, sqlVars, Ids, IInv, WorldInv
  <2> QED  BY <2>3, <2>4
<1>2. CASE StoreItem
  <2>1. /\ UNCHANGED <<worldVars, tableVars, tombstones, delta, unlink, upload, stray>>
        /\ response' = NoResponse
        /\ response.stage = "store" /\ response.item \in Items \cap used
    BY <1>2 DEF StoreItem, IInv, ResponseInv, AgreeInv, UsedInv
  <2>2. \A x \in Items : row'[x] = row[x] \/ (x = response.item /\ row'[x] = response.ino)
    BY <1>2 DEF StoreItem, Upsert, IInv, SqlInv, Ids
  <2>3. UsedInv'
    BY <2>1, <2>2 DEF AgreeInv, UsedInv, worldVars, tableVars, NoResponse
  <2>4. ASSUME NEW x \in Covered', NEW n, n = row'[x]
        PROVE  n \in {row[x], NoInode} \/ Agree(x, n)'
    <3>1. x \in Items /\ x \in Covered
      BY <2>1 DEF Covered, IInv, WorldInv, worldVars
    <3>2. CASE row'[x] # row[x]
      <4>1. x = response.item /\ n = response.ino /\ x \notin tombstones
        BY <1>2, <2>4, <3>1, <3>2 DEF StoreItem, Upsert, IInv, SqlInv, Ids
      <4>2. Agree(x, n)
        BY <2>1, <3>1, <4>1 DEF AgreeInv
      <4> QED  BY <2>1, <4>2 DEF Agree, tableVars
    <3> QED  BY <2>4, <3>2
  <2> QED  BY <2>1, <2>3, <2>4, AgreeKeeps
          DEF Covered, worldVars, tableVars, NoResponse, IInv, WorldInv
<1>3. ASSUME NEW id \in Items, Listed(id) PROVE AgreeInv'
  <2>1. /\ UNCHANGED <<worldVars, tableVars, sqlVars, delta, unlink, upload, stray>>
        /\ response'.stage = "listed" /\ response'.item = id /\ id \in used
    BY <1>3 DEF Listed, NoResponse, AgreeInv, UsedInv
  <2>2. UsedInv'
    BY <2>1 DEF AgreeInv, UsedInv, worldVars, sqlVars, tableVars
  <2> QED  BY <2>1, <2>2, AgreeKeeps
          DEF Covered, worldVars, sqlVars, tableVars, IInv, WorldInv
<1>4. ASSUME NEW id \in Items, Renamed(id) PROVE AgreeInv'
  <2>1. /\ UNCHANGED <<server, used, tableVars, sqlVars, delta, unlink, upload, stray>>
        /\ response'.item = id /\ response'.ino = ino_of[id] /\ id \in used
        /\ unreported' = unreported \cup {id}
    BY <1>4 DEF Renamed, AgreeInv, UsedInv
  <2>2. UsedInv'
    BY <2>1 DEF AgreeInv, UsedInv, sqlVars, tableVars
  <2>3. \A x, n : x = response'.item /\ n = response'.ino => Agree(x, n)'
    BY <2>1 DEF Agree, tableVars
  <2> QED  BY <2>1, <2>2, <2>3, AgreeKeeps
          DEF Covered, sqlVars, tableVars, IInv, WorldInv
<1>5. ASSUME NEW id \in Ids, FindChild(id) PROVE AgreeInv'
  <2>1. /\ UNCHANGED <<worldVars, sqlVars, procVars, stray>> /\ id \in used \cup Locals
        /\ \A x \in Ids : ino_of[x] # NoInode \/ x # id => ino_of'[x] = ino_of[x]
    BY <1>5, AllocateStays DEF FindChild, AgreeInv, UsedInv, IInv, Ids
  <2>2. UsedInv'
    BY <2>1, StoreConstants DEF AgreeInv, UsedInv, worldVars, sqlVars, procVars, Ids
  <2> QED  BY <2>1, <2>2, AgreeKeeps
          DEF Covered, worldVars, sqlVars, procVars, Ids, IInv, WorldInv
<1> QED  BY <1>1, <1>2, <1>3, <1>4, <1>5 DEF Responses

LEMMA AgreeUnlink ==
  ASSUME IInv, AgreeInv, Unlink
  PROVE  AgreeInv'
<1>1. CASE UnlinkForget
  <2>1. /\ UNCHANGED <<worldVars, sqlVars, delta, response, upload, stray>>
        /\ unlink'.id = unlink.id
        /\ \A x \in Ids : ino_of'[x] = IF x = unlink.id THEN NoInode ELSE ino_of[x]
    BY <1>1 DEF UnlinkForget, RemoveByItemId, IInv, UnlinkInv, TableInv
  <2>2. UsedInv'
    BY <2>1 DEF AgreeInv, UsedInv, worldVars, sqlVars, Ids
  <2> QED  BY <2>1, <2>2, AgreeKeeps
          DEF Covered, worldVars, sqlVars, Ids, IInv, WorldInv
<1>2. CASE UnlinkTombstone
  <2>1. /\ UNCHANGED <<worldVars, tableVars, delta, response, upload, stray>>
        /\ unlink' = NoUnlink /\ unlink.id \in Ids
        /\ tombstones' = tombstones \cup {unlink.id}
        /\ \A x \in Items : row'[x] = IF x = unlink.id THEN NoInode ELSE row[x]
    BY <1>2 DEF UnlinkTombstone, DeleteWithTombstone, IInv, SqlInv, UnlinkInv, Ids
  <2>2. UsedInv'
    BY <2>1 DEF AgreeInv, UsedInv, worldVars, tableVars
  <2>3. Covered' \subseteq Items /\ Covered' \subseteq Covered \cup {unlink.id}
    BY <2>1 DEF Covered, worldVars, IInv, WorldInv
  <2>4. ASSUME NEW x \in Covered'
        PROVE  Agree(x, row[x])' /\ (x \notin tombstones' => Agree(x, delta.ino[x])')
    <3>1. CASE x = unlink.id
      BY <2>1, <2>3, <3>1, StoreConstants DEF Agree, Inodes, NoInode
    <3>2. CASE x # unlink.id
      BY <2>1, <2>3, <3>2 DEF Agree, AgreeInv, tableVars
    <3> QED  BY <3>1, <3>2
  <2>5. response'.stage = "store" /\ response'.item \in Covered' \ tombstones'
          => Agree(response.item, response.ino)'
    BY <2>1, <2>3 DEF Agree, AgreeInv, tableVars
  <2> QED  BY <2>2, <2>4, <2>5 DEF AgreeInv
<1>3. ASSUME NEW id \in Ids, UnlinkRemote(id) \/ RenameOverRefused(id) PROVE AgreeInv'
  <2>1. /\ UNCHANGED <<used, tableVars, sqlVars, delta, response, upload, stray>>
        /\ unlink = NoUnlink /\ server' \subseteq server
        /\ unreported' \subseteq unreported \cup server
    BY <1>3 DEF UnlinkRemote, RenameOverRefused, UnlinkBegin
  <2>2. UsedInv'
    BY <2>1 DEF AgreeInv, UsedInv, tableVars, sqlVars
  <2>3. Covered' \subseteq Covered
    BY <2>1, StoreConstants DEF Covered, NoUnlink, IInv, WorldInv, Ids
  <2> QED  BY <2>1, <2>2, <2>3, AgreeKeeps DEF tableVars, sqlVars, IInv, WorldInv
<1>4. CASE UnlinkTombstoneFails
  <2>1. /\ UNCHANGED <<worldVars, tableVars, sqlVars, delta, response, upload>>
        /\ stray' = stray \cup ({unlink.id} \cap server)
    BY <1>4 DEF UnlinkTombstoneFails
  <2>2. UsedInv'
    BY <2>1 DEF AgreeInv, UsedInv, worldVars, tableVars, sqlVars
  <2>3. Covered' \subseteq Covered
    BY <2>1 DEF Covered, worldVars
  <2> QED  BY <2>1, <2>2, <2>3, AgreeKeeps
          DEF worldVars, tableVars, sqlVars, IInv, WorldInv
<1> QED  BY <1>1, <1>2, <1>3, <1>4 DEF Unlink

LEMMA AgreeNewFiles ==
  ASSUME IInv, OwnInv, AgreeInv, NewFiles
  PROVE  AgreeInv'
<1>1. CASE UploadReassign
  <2>1. /\ UNCHANGED <<worldVars, sqlVars, delta, response, unlink, stray>>
        /\ upload # NoUpload /\ upload' = NoUpload
        /\ Reassign(upload.ino, upload.item)
        /\ upload.item \in Uploads \cap used
        /\ item_of[upload.ino] \in Locals \cup {None}
    BY <1>1 DEF UploadReassign, AgreeInv, UsedInv, OwnInv
  <2>2. \A x \in Items : x # upload.item => ino_of'[x] = ino_of[x]
    BY <2>1, StoreConstants DEF Reassign, Ids
  <2>3. UsedInv'
    BY <2>1, <2>2 DEF AgreeInv, UsedInv, worldVars, sqlVars
  <2> QED  BY <2>1, <2>2, <2>3, AgreeKeeps
          DEF Covered, worldVars, sqlVars, IInv, WorldInv
<1>2. ASSUME NEW id \in Locals, CreateFile(id) PROVE AgreeInv'
  <2>1. /\ UNCHANGED <<server, unreported, sqlVars, procVars, stray>> /\ used' = used \cup {id}
        /\ \A x \in Ids : x # id => ino_of'[x] = ino_of[x]
    BY <1>2, AllocateStays DEF CreateFile, IInv, Ids
  <2>2. UsedInv'
    BY <2>1, StoreConstants DEF AgreeInv, UsedInv, sqlVars, procVars, Ids
  <2> QED  BY <2>1, <2>2, AgreeKeeps, StoreConstants
          DEF Covered, sqlVars, procVars, Ids, IInv, WorldInv
<1>3. ASSUME NEW id \in Locals, RenameLocal(id) PROVE AgreeInv'
  <2>1. /\ UNCHANGED <<worldVars, tableVars, tombstones, procVars, stray>>
        /\ \A x \in Items : row'[x] = row[x]
    BY <1>3, StoreConstants DEF RenameLocal, Upsert, IInv, SqlInv, Ids
  <2>2. UsedInv'
    BY <2>1 DEF AgreeInv, UsedInv, worldVars, tableVars, procVars
  <2> QED  BY <2>1, <2>2, AgreeKeeps
          DEF Covered, worldVars, tableVars, procVars, IInv, WorldInv
<1>4. ASSUME NEW id \in Locals, NEW new \in Items, UploadNew(id, new) PROVE AgreeInv'
  <2>1. /\ UNCHANGED <<tableVars, sqlVars, delta, response, unlink, stray>>
        /\ server' = server \cup {new} /\ used' = used \cup {new}
        /\ unreported' = unreported \cup {new} /\ new \in Uploads \ used
        /\ upload'.item = new
    BY <1>4 DEF UploadNew
  <2>2. UsedInv'
    BY <2>1 DEF AgreeInv, UsedInv, tableVars, sqlVars
  <2> QED  BY <2>1, <2>2, AgreeKeeps DEF Covered, tableVars, sqlVars, IInv, WorldInv
<1> QED  BY <1>1, <1>2, <1>3, <1>4 DEF NewFiles

LEMMA AgreeRestart ==
  ASSUME IInv, AgreeInv, Restart
  PROVE  AgreeInv'
<1>1. /\ UNCHANGED <<server, used, sqlVars>> /\ ino_of' = row
      /\ unreported' = unreported \cup delta.changed \cup delta.deleted
      /\ delta' = NoDelta /\ response' = NoResponse
      /\ unlink' = NoUnlink /\ upload' = NoUpload
  BY DEF Restart, Seeded
<1>2. UsedInv'
  BY <1>1 DEF AgreeInv, UsedInv, sqlVars, NoDelta, NoResponse, NoUnlink
<1>3. \A x \in Items : Agree(x, row[x])' /\ Agree(x, delta.ino[x])'
  BY <1>1, StoreConstants DEF Agree, sqlVars, NoDelta, NoInode, Inodes
<1> QED  BY <1>1, <1>2, <1>3 DEF AgreeInv, Covered, IInv, WorldInv, NoResponse, NoUnlink

LEMMA AgreeWorld ==
  ASSUME IInv, AgreeInv, World
  PROVE  AgreeInv'
<1>1. ASSUME NEW id \in Items, RemoteChange(id) PROVE AgreeInv'
  <2>1. /\ UNCHANGED <<tableVars, sqlVars, procVars, stray>>
        /\ server' = server \cup {id} /\ used' = used \cup {id}
        /\ unreported' = unreported \cup {id}
        /\ id \in server \/ id \in Items \ used
    BY <1>1 DEF RemoteChange
  <2>2. UsedInv'
    BY <2>1 DEF AgreeInv, UsedInv, tableVars, sqlVars, procVars
  <2> QED  BY <2>1, <2>2, AgreeKeeps
          DEF Covered, tableVars, sqlVars, procVars, IInv, WorldInv
<1>2. ASSUME NEW id \in Items, RemoteDelete(id) PROVE AgreeInv'
  <2>1. /\ UNCHANGED <<used, tableVars, sqlVars, procVars, stray>>
        /\ server' = server \ {id} /\ unreported' = unreported \cup {id} /\ id \in server
    BY <1>2 DEF RemoteDelete
  <2>2. UsedInv'
    BY <2>1 DEF AgreeInv, UsedInv, tableVars, sqlVars, procVars
  <2> QED  BY <2>1, <2>2, AgreeKeeps
          DEF Covered, tableVars, sqlVars, procVars, IInv, WorldInv
<1>3. ASSUME NEW id \in Items, PinItem(id) PROVE AgreeInv'
  <2>1. PICK n \in TempBase..MaxInode : Upsert(n, id)
    BY <1>3 DEF PinItem
  <2>2. /\ UNCHANGED <<worldVars, tableVars, tombstones, procVars, stray>> /\ id \in server
        /\ \A x \in Items : row'[x] = row[x] \/ (x = id /\ row'[x] = n)
    BY <1>3, <2>1 DEF PinItem, Upsert, IInv, SqlInv, Ids
  <2>3. UsedInv'
    BY <2>2 DEF AgreeInv, UsedInv, worldVars, tableVars, procVars
  <2>4. \A x : Agree(x, n)'
    BY <2>1, StoreConstants DEF Agree
  <2> QED  BY <2>2, <2>3, <2>4, AgreeKeeps
          DEF Covered, worldVars, tableVars, procVars, IInv, WorldInv
<1> QED  BY <1>1, <1>2, <1>3 DEF World

LEMMA AgreeNext == IInv /\ OwnInv /\ AgreeInv /\ [Next]_vars => AgreeInv'
<1> SUFFICES ASSUME IInv, OwnInv, AgreeInv, [Next]_vars PROVE AgreeInv'
  OBVIOUS
<1>1. CASE UNCHANGED vars
  BY <1>1 DEF AgreeInv, UsedInv, Covered, Agree, vars, worldVars, tableVars, sqlVars,
    procVars
<1>2. CASE Next
  BY <1>2, AgreeDeltaSync, AgreeResponses, AgreeUnlink, AgreeNewFiles, AgreeRestart,
     AgreeWorld DEF Next
<1> QED BY <1>1, <1>2

(* An item of the server that no upload here created and no pin stored has *)
(* the same inode in the table and in SQLite, whatever unlink, listing and *)
(* delta sync did in between.                                              *)
THEOREM FoldersAlwaysAgree == Spec => []FoldersAgree
<1>1. AgreeInv /\ IInv => FoldersAgree
  BY DEF AgreeInv, Agree, Covered, FoldersAgree, IInv, WorldInv, Ids
<1>2. IInv /\ OwnInv /\ AgreeInv /\ [Next]_vars => OwnInv' /\ AgreeInv'
  BY OwnNext, AgreeNext
<1> QED BY <1>1, <1>2, OwnInit, InitAgrees, StoreInvariant, PTL DEF Spec
================================================================================
