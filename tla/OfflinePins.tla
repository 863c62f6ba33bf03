------------------------------ MODULE OfflinePins ------------------------------
(***************************************************************************)
(* Pinned folders: OfflineManager (offline.rs) and PinStore (pin_store.rs) *)
(* next to what else changes the rows and contents they rely on: the       *)
(* eviction of DiskCache and its filter (disk.rs, manager.rs), listings    *)
(* and opens through the mount, delta sync and its re-download, the expiry *)
(* of pins, clear_cache (commands.rs) and restarts.                        *)
(*                                                                         *)
(* The tree on the server does not change, only the contents of its files. *)
(* A row of the items table is its inode and its parent's inode.  Every    *)
(* content has size 1; eTags are left out, so that any open and any delta  *)
(* may find a content not current (ContentCache has them).                 *)
(***************************************************************************)
EXTENDS Integers, Sequences, FiniteSets, SequencesExt

CONSTANTS
  Folders, Files,   (* the items below the root of the drive                *)
  Parent,           (* their folder, NoItem in the root                     *)
  Pinnable,         (* the folders a user pins                              *)
  NoItem,
  Budget,           (* max_size_bytes of the disk cache, 0 for no limit     *)
  MaxEvents         (* bound of the model, see events                       *)

Items == Folders \cup Files

ASSUME OfflinePinsConstants ==
  /\ Folders \cap Files = {} /\ NoItem \notin Items
  /\ Parent \in [Items -> Folders \cup {NoItem}]
  /\ Pinnable \subseteq Folders
  /\ {Budget, MaxEvents} \subseteq Nat

VARIABLES
  pins,       (* pinned_folders: "none", "valid", "expired"                 *)
  rows,       (* items: a row or none                                       *)
  inode,      (* what the InodeTable of the mount gives an item             *)
  contents,   (* files that have their content in the disk cache            *)
  tracked,    (* files that have a row in cache_entries                     *)
  download,   (* the recursive_download of each pin                         *)
  redo,       (* changed files redownload_changed_items still has to do     *)
  lapsed,     (* the pins process_expired has listed                        *)
  evictor,    (* evict_if_needed: entries left, its victim, how many to go  *)
  resuming,   (* pins resume_incomplete has still to look at                *)
  events,     (* pins made, restarts, cleared caches, remote changes so far *)
  (* history *)
  kept,       (* files a download of the pin has put or found on disk, and  *)
              (* nobody has found not to be current since                   *)
  whole,      (* a download of the pin has ended well                       *)
  severed     (* a download found a folder under another inode than the     *)
              (* mount's, could not store the row of a file, or took a pin  *)
              (* from below another one                                     *)

cached == <<contents, tracked>>
stores == <<rows, cached>>
workers == <<download, redo, lapsed, evictor, resuming>>
history == <<kept, whole, severed>>
pinsVars == <<pins, stores, inode, workers, events, history>>

Vfs(i) == <<"vfs", i>>
(* next_inode of a download: it counts from 1_000_000 in pin_folder, from  *)
(* 2_000_000 in resume_incomplete.                                         *)
Temp(base, n) == <<base, n>>

Children(f) == {i \in Items : Parent[i] = f}

NoDownload == [step |-> "none", stack |-> <<>>, base |-> "pin", next |-> 0, file |-> NoItem]
NoEviction == [left |-> {}, victim |-> NoItem, free |-> 0]

PinsInit ==
  /\ pins = [p \in Pinnable |-> "none"]
  /\ rows = [i \in Items |-> {}]
  /\ inode = [i \in Items |-> Vfs(i)]
  /\ contents = {} /\ tracked = {}
  /\ download = [p \in Pinnable |-> NoDownload]
  /\ redo = {} /\ lapsed = {} /\ resuming = {}
  /\ evictor = NoEviction
  /\ events = 0
  /\ kept = [p \in Pinnable |-> {}]
  /\ whole = [p \in Pinnable |-> FALSE]
  /\ severed = FALSE

------------------------------------------------------------------------------
(* The items table *)

(* upsert_item: a row there is keeps its inode, whatever the new one; a    *)
(* new row needs one that no other row has.                                *)
Upsert(i, n, parent) ==
  IF rows[i] # {}
    THEN [rows EXCEPT ![i] = {[row EXCEPT !.parent = parent] : row \in @}]
    ELSE IF \E j \in Items : \E row \in rows[j] : row.inode = n
      THEN rows
      ELSE [rows EXCEPT ![i] = {[inode |-> n, parent |-> parent]}]

(* get_inode(i), or n when there is no row.                                *)
StoredInode(table, i, n) ==
  IF table[i] = {} THEN n ELSE (CHOOSE row \in table[i] : TRUE).inode

(* The item whose row has the inode a row of S names as parent.            *)
Above(S) ==
  {j \in Items : \E i \in S : \E c \in rows[i], p \in rows[j] : c.parent = {p.inode}}

Below(S) ==
  {i \in Items : \E j \in S : \E c \in rows[i], p \in rows[j] : c.parent = {p.inode}}

(* What the walk of is_protected comes to, were it not to give up after 50 *)
(* levels: the least set with i that is closed under Above.                *)
Ancestors(i) ==
  LET closed == {S \in SUBSET Items : i \in S /\ Above(S) \subseteq S}
  IN  {j \in Items : \A S \in closed : j \in S}

(* Mutant: files in folders of the folder are not counted.                 *)
SubtreeShallow(p) == {p} \cup Below({p})

(* The recursive query of health: the rows below p, and p.                 *)
Subtree(p) ==
  LET closed == {S \in SUBSET Items : p \in S /\ Below(S) \subseteq S}
  IN  {i \in Items : \A S \in closed : i \in S}

Valid == {p \in Pinnable : pins[p] = "valid"}

(* Mutant: only the folder of the item is looked at.                       *)
IsProtectedShallow(i) == Above({i}) \cap Valid # {}

IsProtected(i) == Ancestors(i) \cap Valid # {}

(* health(): files of the subtree, and those of them cache_entries has.    *)
TotalFiles(p) == Subtree(p) \cap Files
CachedFiles(p) == TotalFiles(p) \cap tracked

------------------------------------------------------------------------------
(* The disk cache                                                          *)

(* put: the file, then its row, which an error or a crash may leave out.   *)
PutContent(x) ==
  /\ contents' = contents \cup {x}
  /\ tracked' \in {tracked, tracked \cup {x}}

(* remove: the file, then its row.                                         *)
RemoveContent(x) ==
  /\ contents' = contents \ {x}
  /\ tracked' \in {tracked, tracked \ {x}}

------------------------------------------------------------------------------
(* pin, unpin, extend, expire *)

(* What is below p on the server, and p.                                   *)
Tree(p) ==
  LET closed == {S \in SUBSET Items :
                   p \in S /\ \A i \in Items : Parent[i] \in S => i \in S}
  IN  {i \in Items : \A S \in closed : i \in S}

FilesUnder(p) == Tree(p) \cap Files

Forget(p) ==
  /\ kept' = [kept EXCEPT ![p] = {}]
  /\ UNCHANGED <<whole, severed>>

(* pin_folder, once get_item has shown a folder that is not too large.     *)
(* Bound: a folder is not pinned again while its download still runs.      *)
PinFolder(p) ==
  /\ events < MaxEvents
  /\ events' = events + 1
  /\ download[p].step = "none"
  /\ pins' = [pins EXCEPT ![p] = "valid"]
  /\ download' = [download EXCEPT ![p] = [NoDownload EXCEPT !.step = "pinned"]]
  /\ UNCHANGED <<stores, inode, redo, lapsed, evictor, resuming, history>>

Frame(f, n) == [folder |-> f, left |-> {}, parent |-> n]

(* A download goes on with a row that is not what the properties need.     *)
Severs(amiss) ==
  /\ severed' = (severed \/ amiss)
  /\ UNCHANGED <<kept, whole>>

(* The row of pin p led up to another pin.                                 *)
CutsOff(p) ==
  /\ \E row \in rows[p] : row.parent # {}
  /\ \E q \in Pinnable \ {p} : p \in Tree(q)

(* The row of the folder, without a parent, and the download.              *)
PinRoot(p) ==
  /\ download[p].step = "pinned"
  /\ rows' = Upsert(p, Temp("pin", 0), {})
  /\ LET n == StoredInode(rows', p, Temp("pin", 0)) IN
       /\ download' = [download EXCEPT ![p] =
            [@ EXCEPT !.step = "listing", !.next = 1, !.stack = <<Frame(p, n)>>]]
       /\ Severs(n # inode[p] \/ CutsOff(p))
  /\ UNCHANGED <<pins, cached, inode, redo, lapsed, evictor, resuming, events>>

(* The download goes on.                                                   *)
Unpin(p) ==
  /\ pins[p] # "none"
  /\ pins' = [pins EXCEPT ![p] = "none"]
  /\ Forget(p)
  /\ UNCHANGED <<stores, inode, workers, events>>

Extend(p) ==
  /\ pins[p] = "expired"
  /\ pins' = [pins EXCEPT ![p] = "valid"]
  /\ UNCHANGED <<stores, inode, workers, events, history>>

(* expires_at passes.                                                      *)
Expire(p) ==
  /\ pins[p] = "valid"
  /\ pins' = [pins EXCEPT ![p] = "expired"]
  /\ Forget(p)
  /\ UNCHANGED <<stores, inode, workers, events>>

(* process_expired: the list, then one unpin after the other.              *)
ListExpired ==
  /\ lapsed = {}
  /\ lapsed' = {p \in Pinnable : pins[p] = "expired"}
  /\ lapsed' # {}
  /\ UNCHANGED <<pins, stores, inode, download, redo, evictor, resuming, events, history>>

UnpinExpired(p) ==
  /\ p \in lapsed
  /\ lapsed' = lapsed \ {p}
  /\ pins' = [pins EXCEPT ![p] = "none"]
  /\ Forget(p)
  /\ UNCHANGED <<stores, inode, download, redo, evictor, resuming, events>>

------------------------------------------------------------------------------
(* recursive_download *)

Top(p) == Last(download[p].stack)
Listed(t, S) == [t EXCEPT !.stack[Len(t.stack)].left = S]

(* list_children of the folder on top.                                     *)
List(p) ==
  /\ download[p].step = "listing"
  /\ download' = [download EXCEPT ![p] =
       Listed([@ EXCEPT !.step = "children"], Children(Top(p).folder))]
  /\ UNCHANGED <<pins, stores, inode, redo, lapsed, evictor, resuming, events, history>>

(* A file counts as kept unless an eviction has already picked it.         *)
Keep(p, c) ==
  /\ kept' = [kept EXCEPT ![p] =
       IF pins[p] = "valid" /\ evictor.victim # c THEN @ \cup {c} ELSE @]
  /\ UNCHANGED whole

(* upsert_item of a child.                                                 *)
ChildRow(p, c) ==
  rows' = Upsert(c, Temp(download[p].base, download[p].next), {Top(p).parent})

(* One child: its row, and then what is below a folder, ...                *)
ChildFolder(p, c) ==
  /\ download[p].step = "children" /\ c \in Top(p).left \cap Folders
  /\ ChildRow(p, c)
  /\ LET n == StoredInode(rows', c, Temp(download[p].base, download[p].next))
         t == Listed(download[p], Top(p).left \ {c})
     IN /\ download' = [download EXCEPT ![p] =
             [t EXCEPT !.step = "listing", !.next = @ + 1, !.stack = Append(@, Frame(c, n))]]
        /\ Severs(n # inode[c])
  /\ UNCHANGED <<pins, cached, inode, redo, lapsed, evictor, resuming, events>>

(* Mutant: folders are not told from files.                                *)
ChildFileAny(p, c) ==
  /\ download[p].step = "children" /\ c \in Top(p).left
  /\ ChildRow(p, c)
  /\ download' = [download EXCEPT ![p] =
       [Listed(@, Top(p).left \ {c}) EXCEPT !.next = @ + 1, !.step = "fetching", !.file = c]]
  /\ UNCHANGED <<pins, cached, inode, redo, lapsed, evictor, resuming, events, history>>

(* ... or the content of a file, unless the disk has one.                  *)
ChildFile(p, c) ==
  /\ download[p].step = "children" /\ c \in Top(p).left \cap Files
  /\ ChildRow(p, c)
  /\ LET t == [Listed(download[p], Top(p).left \ {c}) EXCEPT !.next = @ + 1] IN
     IF c \in contents
       THEN /\ download' = [download EXCEPT ![p] = t]
            /\ Keep(p, c)
       ELSE /\ download' = [download EXCEPT ![p] = [t EXCEPT !.step = "fetching", !.file = c]]
            /\ UNCHANGED <<kept, whole>>
  /\ severed' = (severed \/ rows'[c] = {})
  /\ UNCHANGED <<pins, cached, inode, redo, lapsed, evictor, resuming, events>>

ChildContent(p) ==
  /\ download[p].step = "fetching"
  /\ PutContent(download[p].file)
  /\ Keep(p, download[p].file)
  /\ UNCHANGED severed
  /\ download' = [download EXCEPT ![p].step = "children", ![p].file = NoItem]
  /\ UNCHANGED <<pins, rows, inode, redo, lapsed, evictor, resuming, events>>

(* A folder is done, and at last the whole download.                       *)
FolderDone(p) ==
  /\ download[p].step = "children" /\ Top(p).left = {}
  /\ LET rest == Front(download[p].stack) IN
     IF rest # <<>>
       THEN /\ download' = [download EXCEPT ![p].stack = rest]
            /\ UNCHANGED whole
       ELSE /\ download' = [download EXCEPT ![p] = NoDownload]
            /\ whole' = [whole EXCEPT ![p] = TRUE]
  /\ UNCHANGED <<pins, stores, inode, redo, lapsed, evictor, resuming, events, kept, severed>>

(* The first error ends it; nobody starts it again before a restart.       *)
DownloadFails(p) ==
  /\ download[p].step \in {"listing", "fetching"}
  /\ download' = [download EXCEPT ![p] = NoDownload]
  /\ UNCHANGED <<pins, stores, inode, redo, lapsed, evictor, resuming, events, history>>

------------------------------------------------------------------------------
(* evict_if_needed, after any put *)

EvictStart ==
  /\ evictor = NoEviction
  /\ Budget > 0 /\ Cardinality(tracked) > Budget
  /\ evictor' = [NoEviction EXCEPT !.left = tracked, !.free = Cardinality(tracked) - Budget]
  /\ UNCHANGED <<pins, stores, inode, download, redo, lapsed, resuming, events, history>>

(* The loop ends when enough is gone or no entry is left.                  *)
GoOn(e) == IF e.victim = NoItem /\ (e.free = 0 \/ e.left = {}) THEN NoEviction ELSE e

(* Mutant: the filter is not asked.                                        *)
EvictPickAny(x) ==
  /\ evictor.free > 0 /\ evictor.victim = NoItem
  /\ x \in evictor.left
  /\ evictor' = GoOn([evictor EXCEPT !.left = @ \ {x}, !.victim = x])
  /\ UNCHANGED <<pins, stores, inode, download, redo, lapsed, resuming, events, history>>

(* The next entry; last_access may order them in any way.                  *)
EvictPick(x) ==
  /\ evictor.free > 0 /\ evictor.victim = NoItem
  /\ x \in evictor.left
  /\ evictor' = GoOn([evictor EXCEPT !.left = @ \ {x},
                                     !.victim = IF IsProtected(x) THEN NoItem ELSE x])
  /\ UNCHANGED <<pins, stores, inode, download, redo, lapsed, resuming, events, history>>

(* The file and the row go, unless that fails; both are counted as freed.  *)
EvictRemove ==
  /\ evictor.victim # NoItem
  /\ contents' \in {contents, contents \ {evictor.victim}}
  /\ tracked' \in {tracked, tracked \ {evictor.victim}}
  /\ evictor' = GoOn([evictor EXCEPT !.victim = NoItem, !.free = @ - 1])
  /\ UNCHANGED <<pins, rows, inode, download, redo, lapsed, resuming, events, history>>

------------------------------------------------------------------------------
(* The mount, delta sync, clear_cache and restarts *)

ParentInode(i) == IF Parent[i] = NoItem THEN <<"vfs", NoItem>> ELSE inode[Parent[i]]

(* A listing through the mount, or delta sync, stores the row of an item.  *)
Browse(i) ==
  /\ rows' = Upsert(i, inode[i], {ParentInode(i)})
  /\ rows' # rows
  /\ UNCHANGED <<pins, cached, inode, workers, events, history>>

(* x is not what a download has kept any more.                             *)
NotCurrent(x) ==
  /\ kept' = [p \in Pinnable |-> kept[p] \ {x}]
  /\ UNCHANGED <<whole, severed>>

(* open_file or read_content finds the size or the eTag on disk to differ  *)
(* from what the server, or the memory when the server did not answer, has *)
(* (a file uploaded here, say, whose old content is still on disk), ...    *)
DropStale(x) ==
  /\ x \in contents
  /\ RemoveContent(x)
  /\ NotCurrent(x)
  /\ UNCHANGED <<pins, rows, inode, workers, events>>

(* ... and downloads it, if the server answers.                            *)
Open(x) ==
  /\ PutContent(x)
  /\ UNCHANGED <<pins, rows, inode, workers, events, history>>

(* Delta sync has heard of a new content of a file it has a row for; it    *)
(* ignores that the old one could not be removed.                          *)
RemoteChange(x) ==
  /\ events < MaxEvents
  /\ events' = events + 1
  /\ rows[x] # {} /\ redo = {}
  /\ RemoveContent(x) \/ UNCHANGED cached
  /\ rows' = Upsert(x, inode[x], {ParentInode(x)})
  /\ redo' = {x}
  /\ NotCurrent(x)
  /\ UNCHANGED <<pins, inode, download, lapsed, evictor, resuming>>

(* redownload_changed_items: the first error ends it.                      *)
Redownload(x) ==
  /\ x \in redo
  /\ IF IsProtected(x)
       THEN \/ PutContent(x) /\ redo' = redo \ {x}
            \/ redo' = {} /\ UNCHANGED cached
       ELSE redo' = redo \ {x} /\ UNCHANGED cached
  /\ UNCHANGED <<pins, rows, inode, download, lapsed, evictor, resuming, events, history>>

(* clear_cache: contents and rows go, the pins stay.  The downloads that   *)
(* run are not told (bound: none does).                                    *)
Clear ==
  /\ events < MaxEvents
  /\ \A p \in Pinnable : download[p].step = "none"
  /\ events' = events + 1
  /\ rows' = [i \in Items |-> {}]
  /\ contents' = {} /\ tracked' = {}
  /\ inode' = [i \in Items |-> Vfs(i)]
  /\ kept' = [p \in Pinnable |-> {}]
  /\ whole' = [p \in Pinnable |-> FALSE]
  /\ UNCHANGED <<pins, workers, severed>>

(* The program stops anywhere; at the next start the InodeTable is seeded  *)
(* with the rows.                                                          *)
Relaunch ==
  /\ events < MaxEvents
  /\ events' = events + 1
  /\ inode' = [i \in Items |-> StoredInode(rows, i, Vfs(i))]
  /\ download' = [p \in Pinnable |-> NoDownload]
  /\ redo' = {} /\ lapsed' = {}
  /\ evictor' = NoEviction
  /\ resuming' = Valid
  /\ UNCHANGED <<pins, stores, history>>

(* resume_incomplete *)
Resume(p) ==
  /\ p \in resuming
  /\ resuming' = resuming \ {p}
  /\ IF pins[p] # "valid" \/ (TotalFiles(p) # {} /\ CachedFiles(p) = TotalFiles(p))
       THEN UNCHANGED <<download, history>>
       ELSE /\ download[p].step = "none"
            /\ LET n == StoredInode(rows, p, Temp("resume", 0)) IN
                 /\ download' = [download EXCEPT ![p] =
                      [NoDownload EXCEPT !.step = "listing", !.base = "resume",
                         !.stack = <<Frame(p, n)>>]]
                 /\ Severs(n # inode[p])
  /\ UNCHANGED <<pins, stores, inode, redo, lapsed, evictor, events>>

------------------------------------------------------------------------------

DownloadStep(p) ==
  \/ PinRoot(p) \/ List(p) \/ ChildContent(p) \/ FolderDone(p) \/ DownloadFails(p)
  \/ \E c \in Items : ChildFolder(p, c) \/ ChildFile(p, c)

PinStep(p) ==
  PinFolder(p) \/ Unpin(p) \/ Extend(p) \/ Expire(p) \/ UnpinExpired(p) \/ Resume(p)

EvictStep == EvictStart \/ EvictRemove \/ \E x \in Files : EvictPick(x)

FileStep(x) == DropStale(x) \/ Open(x) \/ RemoteChange(x) \/ Redownload(x)

PinsNext ==
  \/ \E p \in Pinnable : DownloadStep(p) \/ PinStep(p)
  \/ ListExpired \/ EvictStep
  \/ \E i \in Items : Browse(i)
  \/ \E x \in Files : FileStep(x)
  \/ Clear \/ Relaunch

PinsSpec == PinsInit /\ [][PinsNext]_pinsVars

------------------------------------------------------------------------------

Inodes == {<<"vfs", i>> : i \in Items \cup {NoItem}} \cup
          ({"pin", "resume"} \X Nat)

(* Types; a row's inode is its own: it is the key of the table.            *)
TypeOK ==
  /\ pins \in [Pinnable -> {"none", "valid", "expired"}]
  /\ rows \in [Items -> SUBSET [inode : Inodes, parent : SUBSET Inodes]]
  /\ \A i, j \in Items : \A r \in rows[i], s \in rows[j] :
       (i = j /\ r = s) \/ (i # j /\ r.inode # s.inode)
  /\ contents \subseteq Files /\ tracked \subseteq Files
  /\ \A p \in Pinnable : kept[p] \subseteq Files

(* As long as the downloads found the folders under the inodes the mount   *)
(* gives them, could store the rows of files and cut no pin off another,   *)
(* the content of a file that a download of a valid pin has put or found   *)
(* is protected from eviction: the rows lead from the file to the pin,     *)
(* whatever listings, delta sync, resumes and other pins stored in between.*)
KeptIsProtected ==
  ~severed => \A p \in Valid : \A x \in kept[p] : IsProtected(x)

(* No eviction removes it, as long as the pin is valid: it is on disk      *)
(* until an open or delta sync finds it not to be current, or the cache is *)
(* cleared.  Excepted is a file an eviction had picked before the download *)
(* found it on disk.                                                       *)
EvictionSparesKept ==
  ~severed => \A p \in Valid : kept[p] \subseteq contents

(* After a download that ended well, health() counts all the files of the  *)
(* folder and no other, although it finds them by parent inodes that       *)
(* listings, delta sync, other pins and restarts have rewritten.           *)
HealthCountsAll ==
  ~severed => \A p \in Valid : whole[p] => TotalFiles(p) = FilesUnder(p)

==============================================================================
