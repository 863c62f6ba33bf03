---------------------------- MODULE OpenFilesProofs ----------------------------
(***************************************************************************)
(* Proofs about OpenFiles for any number of handles, lengths and changes:  *)
(* its types, that a write no flush has confirmed stays in the buffer of   *)
(* its handle, and that a save is what the handle's operations meant.      *)
(*                                                                         *)
(* The second is not inductive: a refresh replaces the buffer long after   *)
(* it saw that the handle is not dirty.  Nothing may write to the handle   *)
(* in between, which holds because a call that writes, be it for another   *)
(* handle of the file, never runs next to a read.  Nor is the third: a     *)
(* buffer must hold nothing past its logical size.                         *)
(***************************************************************************)
EXTENDS OpenFiles, TLAPS

Exclusive == {"flush", "overwrite", "overwriting", "cleanup"}

(* No call that changes a buffer runs next to a read, and a handle that is *)
(* being refreshed has nothing to lose.                                    *)
ReadsAlone ==
  \A g, h \in open : call[g] = "reading" => call[h] \notin Exclusive /\ ~file[g].dirty

HistoryOK == unsaved \in [Handles -> [1..MaxLen -> 0..MaxChanges]]

IInv == TypeOK /\ HistoryOK /\ ReadsAlone /\ UnsavedWritesKept

------------------------------------------------------------------------------
(* Contents *)

(* A content is a sequence of at most MaxLen cells.                        *)
LEMMA ContentIsSequence ==
  ASSUME NEW s \in Contents
  PROVE  /\ s \in Seq(Cells) /\ Len(s) \in 0..MaxLen /\ DOMAIN s = 1..Len(s)
         /\ \A i \in 1..Len(s) : s[i] \in Cells
<1>1. PICK n \in 0..MaxLen : s \in [1..n -> Cells]
  BY DEF Contents
<1> QED  BY <1>1, OpenFilesConstants

LEMMA SequenceIsContent ==
  ASSUME NEW n \in 0..MaxLen, NEW s \in [1..n -> Cells]
  PROVE  s \in Contents /\ s \in Seq(Cells) /\ Len(s) = n
BY OpenFilesConstants DEF Contents

(* The cells of a content, past its end too, are cells.                    *)
LEMMA CellIsCell ==
  ASSUME NEW s \in Contents, NEW i \in Int
  PROVE  Cell(s, i) \in Cells
BY ContentIsSequence, OpenFilesConstants DEF Cell, Cells

(* What resize, put and cut return, cell by cell.                          *)
LEMMA ResizeCells ==
  ASSUME NEW s \in Contents, NEW n \in 0..MaxLen
  PROVE  /\ Resize(s, n) \in Contents /\ Len(Resize(s, n)) = n
         /\ \A i \in Int : Cell(Resize(s, n), i) = IF i \in 1..n THEN Cell(s, i) ELSE 0
<1>1. Resize(s, n) \in [1..n -> Cells]
  BY CellIsCell DEF Resize
<1>2. Resize(s, n) \in Contents /\ Len(Resize(s, n)) = n
  BY <1>1, SequenceIsContent
<1>3. ASSUME NEW i \in Int
      PROVE  Cell(Resize(s, n), i) = IF i \in 1..n THEN Cell(s, i) ELSE 0
  BY DEF Resize, Cell
<1> QED  BY <1>2, <1>3

LEMMA PutCells ==
  ASSUME NEW s \in Contents, NEW i \in 1..MaxLen, NEW v \in Cells
  PROVE  /\ Put(s, i, v) \in Contents /\ Len(Put(s, i, v)) = Longer(Len(s), i)
         /\ \A j \in Int : Cell(Put(s, i, v), j) = IF j = i THEN v ELSE Cell(s, j)
<1> DEFINE n == Longer(Len(s), i)
<1>1. n \in 0..MaxLen /\ Len(s) <= n /\ i <= n
  BY ContentIsSequence, OpenFilesConstants DEF Longer
<1>2. Put(s, i, v) \in [1..n -> Cells]
  BY <1>1, CellIsCell DEF Put
<1>3. Put(s, i, v) \in Contents /\ Len(Put(s, i, v)) = n
  BY <1>1, <1>2, SequenceIsContent
<1>4. ASSUME NEW j \in Int
      PROVE  Cell(Put(s, i, v), j) = IF j = i THEN v ELSE Cell(s, j)
  BY <1>1, ContentIsSequence, OpenFilesConstants DEF Put, Cell
<1> QED  BY <1>3, <1>4

LEMMA CutCells ==
  ASSUME NEW s \in Contents, NEW n \in 0..MaxLen
  PROVE  /\ Cut(s, n) \in Contents
         /\ \A i \in Int : Cell(Cut(s, n), i) = IF i <= n THEN Cell(s, i) ELSE 0
<1> DEFINE m == Shorter(Len(s), n)
<1>1. m \in 0..MaxLen /\ m <= Len(s) /\ m <= n /\ (m = Len(s) \/ m = n)
  BY ContentIsSequence, OpenFilesConstants DEF Shorter
<1>2. Cut(s, n) = [i \in 1..m |-> s[i]]
  BY <1>1, ContentIsSequence, OpenFilesConstants DEF Cut
<1>3. Cut(s, n) \in [1..m -> Cells]
  BY <1>1, <1>2, ContentIsSequence, OpenFilesConstants
<1>4. Cut(s, n) \in Contents
  BY <1>1, <1>3, SequenceIsContent
<1>5. ASSUME NEW i \in Int
      PROVE  Cell(Cut(s, n), i) = IF i <= n THEN Cell(s, i) ELSE 0
  BY <1>1, <1>2, ContentIsSequence, OpenFilesConstants DEF Cell
<1> QED  BY <1>4, <1>5

(* A save is a content: the buffer, up to the logical size if one is set.  *)
LEMMA SavedCells ==
  ASSUME NEW f \in OpenFile
  PROVE  /\ Saved(f) \in Contents
         /\ \A i \in Int : Cell(Saved(f), i) =
              IF f.logical_size = None \/ i <= f.logical_size THEN Cell(f.content, i) ELSE 0
<1>1. f.content \in Contents /\ (f.logical_size = None \/ f.logical_size \in 0..MaxLen)
  BY OpenFilesConstants DEF OpenFile, Sizes, None
<1> QED  BY <1>1, CutCells DEF Saved

LEMMA FreshIsFile ==
  ASSUME NEW s \in Contents, NEW state \in {"complete", "streaming", "arrived", "failed"}
  PROVE  Fresh(state, s) \in OpenFile
BY OpenFilesConstants DEF Fresh, OpenFile, Sizes, None

LEMMA EmptyIsContent == <<>> \in Contents
<1>1. 0 \in 0..MaxLen /\ <<>> \in [1..0 -> Cells]
  BY OpenFilesConstants
<1> QED  BY <1>1, SequenceIsContent

LEMMA RevisionIsContent ==
  ASSUME NEW k \in 0..MaxChanges, NEW n \in Lengths
  PROVE  Revision(k, n) \in Contents
<1>1. n \in 0..MaxLen /\ -(k + 1) \in Cells
  BY OpenFilesConstants DEF Cells
<1>2. Revision(k, n) \in [1..n -> Cells]
  BY <1>1 DEF Revision
<1> QED  BY <1>1, <1>2, SequenceIsContent

------------------------------------------------------------------------------
(* What an action does to one handle *)

LEMMA IsFile ==
  ASSUME NEW state \in {"complete", "streaming", "arrived", "failed"},
         NEW s \in Contents, NEW dirty \in BOOLEAN, NEW stale \in BOOLEAN, NEW n \in Sizes
  PROVE  [state |-> state, content |-> s, dirty |-> dirty, stale |-> stale,
          logical_size |-> n] \in OpenFile
BY DEF OpenFile

(* The updates of a file, field by field.                                  *)
LEMMA TruncatedRecord ==
  ASSUME NEW f \in OpenFile, NEW x, NEW y, NEW t
  PROVE  [Complete(f) EXCEPT !.content = x, !.dirty = t, !.logical_size = y] =
         [state |-> "complete", content |-> x, dirty |-> t, stale |-> f.stale,
          logical_size |-> y]
<1> DEFINE c == Complete(f)
           d == [c EXCEPT !.content = x]
           e == [d EXCEPT !.dirty = t]
<1>1. c = [state |-> "complete", content |-> f.content, dirty |-> f.dirty,
           stale |-> f.stale, logical_size |-> f.logical_size]
  BY DEF Complete, OpenFile
<1> HIDE DEF c
<1>2. d = [state |-> "complete", content |-> x, dirty |-> f.dirty, stale |-> f.stale,
           logical_size |-> f.logical_size]
  BY <1>1
<1>3. [c EXCEPT !.content = x, !.dirty = t, !.logical_size = y] =
      [d EXCEPT !.dirty = t, !.logical_size = y]
  OBVIOUS
<1> HIDE DEF d
<1>4. e = [state |-> "complete", content |-> x, dirty |-> t, stale |-> f.stale,
           logical_size |-> f.logical_size]
  BY <1>2
<1>5. [d EXCEPT !.dirty = t, !.logical_size = y] = [e EXCEPT !.logical_size = y]
  OBVIOUS
<1> HIDE DEF e
<1>6. [e EXCEPT !.logical_size = y] =
      [state |-> "complete", content |-> x, dirty |-> t, stale |-> f.stale, logical_size |-> y]
  BY <1>4
<1> QED  BY <1>3, <1>5, <1>6 DEF c

LEMMA RefreshedRecord ==
  ASSUME NEW f \in OpenFile, NEW x, NEW t
  PROVE  [f EXCEPT !.state = "complete", !.content = x, !.stale = t] =
         [state |-> "complete", content |-> x, dirty |-> f.dirty, stale |-> t,
          logical_size |-> f.logical_size]
<1> DEFINE d == [f EXCEPT !.state = "complete"]
           e == [d EXCEPT !.content = x]
<1>1. d = [state |-> "complete", content |-> f.content, dirty |-> f.dirty,
           stale |-> f.stale, logical_size |-> f.logical_size]
  BY DEF OpenFile
<1>2. [f EXCEPT !.state = "complete", !.content = x, !.stale = t] =
      [d EXCEPT !.content = x, !.stale = t]
  OBVIOUS
<1> HIDE DEF d
<1>3. e = [state |-> "complete", content |-> x, dirty |-> f.dirty, stale |-> f.stale,
           logical_size |-> f.logical_size]
  BY <1>1
<1>4. [d EXCEPT !.content = x, !.stale = t] = [e EXCEPT !.stale = t]
  OBVIOUS
<1> HIDE DEF e
<1>5. [e EXCEPT !.stale = t] =
      [state |-> "complete", content |-> x, dirty |-> f.dirty, stale |-> t,
       logical_size |-> f.logical_size]
  BY <1>3
<1> QED  BY <1>2, <1>4, <1>5

LEMMA FieldsOfFile ==
  ASSUME NEW f \in OpenFile
  PROVE  /\ f.state \in {"complete", "streaming", "arrived", "failed"}
         /\ f.content \in Contents /\ f.dirty \in BOOLEAN /\ f.stale \in BOOLEAN
         /\ f.logical_size \in Sizes
         /\ f.logical_size = None \/ f.logical_size \in 0..MaxLen
BY OpenFilesConstants DEF OpenFile, Sizes, None

(* A write at cell i: the file stays one; ...                              *)
LEMMA WrittenIsFile ==
  ASSUME NEW f \in OpenFile, NEW i \in 1..MaxLen, NEW v \in Cells
  PROVE  /\ WrittenTo(f, i, v) \in OpenFile
         /\ WrittenTo(f, i, v).dirty = TRUE /\ WrittenTo(f, i, v).state = "complete"
         /\ WrittenTo(f, i, v).content = Put(f.content, i, v)
         /\ WrittenTo(f, i, v).logical_size =
              IF f.logical_size = None THEN None ELSE Longer(f.logical_size, i)
<1> DEFINE n == IF f.logical_size = None THEN None ELSE Longer(f.logical_size, i)
<1> DEFINE c == Complete(f)
<1>0. c = [state |-> "complete", content |-> f.content, dirty |-> f.dirty,
           stale |-> f.stale, logical_size |-> f.logical_size]
  BY DEF Complete, OpenFile
<1>1. WrittenTo(f, i, v) =
        [state |-> "complete", content |-> Put(f.content, i, v), dirty |-> TRUE,
         stale |-> f.stale, logical_size |-> n]
  <2>1. WrittenTo(f, i, v) =
          [c EXCEPT !.content = Put(f.content, i, v), !.dirty = TRUE,
             !.logical_size = IF @ = None THEN None ELSE Longer(@, i)]
    BY DEF WrittenTo
  <2> HIDE DEF c
  <2>2. c.logical_size = f.logical_size
    BY <1>0
  <2> QED  BY <1>0, <2>1, <2>2
<1>2. Put(f.content, i, v) \in Contents
  BY FieldsOfFile, PutCells
<1>3. n \in Sizes
  BY FieldsOfFile, OpenFilesConstants DEF Longer, Sizes, None
<1>4. f.stale \in BOOLEAN
  BY FieldsOfFile
<1> HIDE DEF n
<1>5. WrittenTo(f, i, v) \in OpenFile
  BY <1>1, <1>2, <1>3, <1>4, IsFile
<1>6. /\ WrittenTo(f, i, v).dirty = TRUE /\ WrittenTo(f, i, v).state = "complete"
      /\ WrittenTo(f, i, v).content = Put(f.content, i, v)
      /\ WrittenTo(f, i, v).logical_size = n
  BY <1>1
<1> QED  BY <1>5, <1>6 DEF n

(* ... a save then has v there and keeps every other cell.                 *)
LEMMA WrittenCells ==
  ASSUME NEW f \in OpenFile, NEW g \in OpenFile, NEW i \in 1..MaxLen, NEW v \in Cells,
         g.content = Put(f.content, i, v),
         g.logical_size = IF f.logical_size = None THEN None ELSE Longer(f.logical_size, i)
  PROVE  /\ Cell(Saved(g), i) = v
         /\ \A j \in 1..MaxLen : j # i /\ Cell(Saved(f), j) # 0 =>
              Cell(Saved(g), j) = Cell(Saved(f), j)
<1>1. f.content \in Contents /\ i \in Int
  BY FieldsOfFile
<1>2. /\ f.logical_size = None => g.logical_size = None
      /\ f.logical_size # None => i <= g.logical_size
      /\ \A j \in Int : f.logical_size # None /\ j <= f.logical_size => j <= g.logical_size
  BY FieldsOfFile, OpenFilesConstants DEF Longer, None
<1>3. Cell(Saved(g), i) = v
  <2>1. Cell(g.content, i) = v
    BY <1>1, PutCells
  <2>2. g.logical_size = None \/ i <= g.logical_size
    BY <1>2
  <2> QED  BY <1>1, <2>1, <2>2, SavedCells
<1>4. ASSUME NEW j \in 1..MaxLen, j # i, Cell(Saved(f), j) # 0
      PROVE  Cell(Saved(g), j) = Cell(Saved(f), j)
  <2>1. j \in Int
    OBVIOUS
  <2>2. Cell(g.content, j) = Cell(f.content, j)
    BY <1>1, <1>4, <2>1, PutCells
  <2>3. /\ f.logical_size = None \/ j <= f.logical_size
        /\ Cell(Saved(f), j) = Cell(f.content, j)
    BY <1>4, <2>1, SavedCells
  <2>4. g.logical_size = None \/ j <= g.logical_size
    BY <1>2, <2>1, <2>3
  <2> QED  BY <2>1, <2>2, <2>3, <2>4, SavedCells
<1> QED  BY <1>3, <1>4

(* A resize saves what was there, up to the new length.                    *)
LEMMA TruncatedCells ==
  ASSUME NEW f \in OpenFile, NEW g \in OpenFile, NEW n \in 0..MaxLen,
         g.content = Resize(f.content, n), g.logical_size = n
  PROVE  \A j \in 1..n : Cell(Saved(f), j) # 0 => Cell(Saved(g), j) = Cell(Saved(f), j)
<1>1. f.content \in Contents
  BY DEF OpenFile
<1>2. ASSUME NEW j \in 1..n, Cell(Saved(f), j) # 0
      PROVE  Cell(Saved(g), j) = Cell(Saved(f), j)
  <2>1. j \in Int /\ j <= n
    OBVIOUS
  <2>2. Cell(Saved(g), j) = Cell(g.content, j)
    BY <2>1, SavedCells
  <2>3. Cell(g.content, j) = Cell(f.content, j)
    BY <1>1, <2>1, ResizeCells
  <2>4. Cell(Saved(f), j) = Cell(f.content, j)
    BY <1>2, <2>1, SavedCells
  <2> QED  BY <2>2, <2>3, <2>4
<1> QED  BY <1>2

(* A new allocation size only ever appends zeros.                          *)
LEMMA AllocatedCells ==
  ASSUME NEW f \in OpenFile, NEW g \in OpenFile, NEW n \in 0..MaxLen,
         g.content = Resize(f.content, Longer(Len(f.content), n)),
         g.logical_size = f.logical_size
  PROVE  \A j \in 1..MaxLen : Cell(Saved(g), j) = Cell(Saved(f), j)
<1> DEFINE m == Longer(Len(f.content), n)
<1>1. f.content \in Contents
  BY DEF OpenFile
<1>2. m \in 0..MaxLen /\ Len(f.content) <= m /\ Len(f.content) \in Nat
      /\ DOMAIN f.content = 1..Len(f.content)
  BY <1>1, ContentIsSequence, OpenFilesConstants DEF Longer
<1>3. ASSUME NEW j \in 1..MaxLen
      PROVE  Cell(Saved(g), j) = Cell(Saved(f), j)
  <2>1. j \in Int
    OBVIOUS
  <2>2. Cell(g.content, j) = IF j \in 1..m THEN Cell(f.content, j) ELSE 0
    BY <1>1, <1>2, <2>1, ResizeCells
  <2>3. j \notin 1..m => Cell(f.content, j) = 0
    BY <1>2, <2>1 DEF Cell
  <2> QED  BY <2>1, <2>2, <2>3, SavedCells
<1> QED  BY <1>3

------------------------------------------------------------------------------
(* The invariant, handle by handle *)

Keeps(f, u) ==
  \A i \in 1..MaxLen : u[i] # 0 => f.dirty /\ Cell(Saved(f), i) = u[i]

World ==
  /\ {server, writeback, uploading} \subseteq SUBSET Contents
  /\ requested \in BOOLEAN /\ changed \in BOOLEAN
  /\ fetched \in [Handles -> SUBSET Contents]
  /\ answer \in [Handles -> SUBSET BOOLEAN]
  /\ {edits, remotes, edits + remotes} \subseteq 0..MaxChanges

Table ==
  /\ open \subseteq Handles
  /\ file \in [Handles -> OpenFile]
  /\ \A h \in open : file[h].dirty => file[h].state = "complete"
  /\ call \in [Handles -> Calls]
  /\ HistoryOK /\ ReadsAlone
  /\ \A h \in open : Keeps(file[h], unsaved[h])

LEMMA InTwoParts == IInv <=> World /\ Table
BY DEF IInv, World, Table, TypeOK, Keeps, UnsavedWritesKept

(* A step that changes the file of one handle keeps the table, if what the *)
(* handle loses is not missed and no read is going on that it would hurt.  *)
LEMMA OneHandle ==
  ASSUME Table, NEW k \in open, NEW g \in OpenFile, g.dirty => g.state = "complete",
         file' = [file EXCEPT ![k] = g], open' = open,
         NEW u \in [1..MaxLen -> 0..MaxChanges], unsaved' = [unsaved EXCEPT ![k] = u],
         Keeps(g, u), call' \in [Handles -> Calls], ReadsAlone'
  PROVE  Table'
<1> USE DEF Table, HistoryOK
<1>1. file' \in [Handles -> OpenFile] /\ unsaved' \in [Handles -> [1..MaxLen -> 0..MaxChanges]]
  OBVIOUS
<1>2. ASSUME NEW h \in open'
      PROVE  (file'[h].dirty => file'[h].state = "complete") /\ Keeps(file'[h], unsaved'[h])
  <2>1. CASE h = k
    <3>1. file'[h] = g /\ unsaved'[h] = u
      BY <2>1
    <3> QED  BY <3>1
  <2>2. CASE h # k
    <3>1. file'[h] = file[h] /\ unsaved'[h] = unsaved[h] /\ h \in open
      BY <1>2, <2>2
    <3> QED  BY <3>1
  <2> QED  BY <2>1, <2>2
<1>3. open' \subseteq Handles
  OBVIOUS
<1> QED  BY <1>1, <1>2, <1>3

(* A step that leaves files and writes alone.                              *)
LEMMA NoHandle ==
  ASSUME Table, UNCHANGED <<open, file, unsaved>>, call' \in [Handles -> Calls], ReadsAlone'
  PROVE  Table'
BY DEF Table, HistoryOK, Keeps, Saved, Cut, Cell

(* While a call runs alone nothing is being read.                          *)
LEMMA NoReads ==
  ASSUME \A h \in open' : call'[h] # "reading"
  PROVE  ReadsAlone'
BY DEF ReadsAlone

------------------------------------------------------------------------------
(* The actions *)

LEMMA InitEstablishes == Init => IInv
<1> SUFFICES ASSUME Init PROVE World /\ Table
  BY InTwoParts
<1> USE OpenFilesConstants DEF Init
<1>1. \A n \in Lengths : Revision(0, n) \in Contents
  BY RevisionIsContent
<1>2. World
  <2>1. server \subseteq Contents
    BY <1>1
  <2>2. writeback \subseteq Contents /\ uploading \subseteq Contents
    OBVIOUS
  <2>3. fetched \in [Handles -> SUBSET Contents] /\ answer \in [Handles -> SUBSET BOOLEAN]
    OBVIOUS
  <2>4. {edits, remotes, edits + remotes} \subseteq 0..MaxChanges
    OBVIOUS
  <2> QED  BY <2>1, <2>2, <2>3, <2>4 DEF World
<1>3. Fresh("complete", <<>>) \in OpenFile
  BY EmptyIsContent, FreshIsFile
<1>4. file \in [Handles -> OpenFile] /\ call \in [Handles -> Calls]
  BY <1>3 DEF Calls
<1>5. HistoryOK
  BY DEF HistoryOK, NoWrites
<1> QED  BY <1>2, <1>4, <1>5 DEF Table, ReadsAlone

(* An opened handle has nothing to lose.                                   *)
LEMMA InsertKeeps ==
  ASSUME World, Table, NEW h \in Handles, NEW s \in Contents,
         NEW state \in {"complete", "streaming"}, Insert(h, state, s)
  PROVE  World' /\ Table'
<1> USE OpenFilesConstants DEF Insert
<1>1. World'
  BY DEF World, storeVars, counts
<1>2. Fresh(state, s) \in OpenFile /\ Fresh(state, s).dirty = FALSE
  BY FreshIsFile DEF Fresh
<1>3. NoWrites \in [1..MaxLen -> 0..MaxChanges]
  BY DEF NoWrites
<1>4. /\ open' \subseteq Handles /\ file' \in [Handles -> OpenFile]
      /\ call' \in [Handles -> Calls] /\ HistoryOK'
  BY <1>2, <1>3 DEF Table, HistoryOK, Calls
<1>5. file'[h] = Fresh(state, s) /\ unsaved'[h] = NoWrites /\ call'[h] = "idle"
  BY DEF Table, HistoryOK
<1>6. \A g \in Handles : g # h =>
        file'[g] = file[g] /\ unsaved'[g] = unsaved[g] /\ call'[g] = call[g] /\ (g \in open' => g \in open)
  BY DEF Table, HistoryOK
<1>7. ReadsAlone'
  BY <1>2, <1>4, <1>5, <1>6 DEF Table, ReadsAlone, Exclusive
<1>8. ASSUME NEW g \in open'
      PROVE  (file'[g].dirty => file'[g].state = "complete") /\ Keeps(file'[g], unsaved'[g])
  <2>1. CASE g = h
    <3>1. Keeps(Fresh(state, s), NoWrites)
      BY DEF Keeps, NoWrites
    <3> QED  BY <1>2, <1>5, <2>1, <3>1
  <2>2. CASE g # h
    BY <1>4, <1>6, <2>2 DEF Table
  <2> QED  BY <2>1, <2>2
<1> QED  BY <1>1, <1>4, <1>7, <1>8 DEF Table

(* A write, an append: the cell is written and every other unsaved write   *)
(* of the handle stays.                                                    *)
LEMMA WriteKeeps ==
  ASSUME World, Table, NEW h \in open, NEW i \in 1..MaxLen, Alone, WriteAt(h, i)
  PROVE  World' /\ Table'
<1> USE OpenFilesConstants DEF WriteAt, Edit
<1> DEFINE v == edits + 1
           g == WrittenTo(file[h], i, v)
           u == [unsaved[h] EXCEPT ![i] = v]
<1>1. v \in 1..MaxChanges /\ v \in Cells
  BY DEF World, Cells
<1>2. World'
  BY DEF World, storeVars
<1>3. file[h] \in OpenFile /\ h \in Handles /\ unsaved[h] \in [1..MaxLen -> 0..MaxChanges]
  BY DEF Table, HistoryOK
<1>4. /\ g \in OpenFile /\ g.dirty = TRUE /\ g.state = "complete"
      /\ g.content = Put(file[h].content, i, v)
      /\ g.logical_size =
           IF file[h].logical_size = None THEN None ELSE Longer(file[h].logical_size, i)
  BY <1>1, <1>3, WrittenIsFile
<1>5. file' = [file EXCEPT ![h] = g] /\ unsaved' = [unsaved EXCEPT ![h] = u]
  BY <1>3 DEF Table, HistoryOK
<1>6. u \in [1..MaxLen -> 0..MaxChanges]
  BY <1>1, <1>3
<1> HIDE DEF g
<1>7. /\ Cell(Saved(g), i) = v
      /\ \A j \in 1..MaxLen : j # i /\ Cell(Saved(file[h]), j) # 0 =>
           Cell(Saved(g), j) = Cell(Saved(file[h]), j)
  BY <1>1, <1>3, <1>4, WrittenCells
<1>8. Keeps(g, u)
  <2> SUFFICES ASSUME NEW j \in 1..MaxLen, u[j] # 0
               PROVE  g.dirty /\ Cell(Saved(g), j) = u[j]
    BY DEF Keeps
  <2>1. CASE j = i
    BY <1>3, <1>4, <1>7, <2>1
  <2>2. CASE j # i
    <3>1. u[j] = unsaved[h][j]
      BY <1>3, <2>2
    <3>2. Cell(Saved(file[h]), j) = u[j]
      BY <3>1 DEF Table, Keeps
    <3> QED  BY <1>4, <1>7, <2>2, <3>2
  <2> QED  BY <2>1, <2>2
<1>9. ReadsAlone' /\ call' \in [Handles -> Calls]
  BY NoReads DEF Alone, Table
<1> QED  BY <1>2, <1>4, <1>5, <1>6, <1>8, <1>9, OneHandle

(* The file a truncation leaves in the handle it finds.                    *)
LEMMA TruncatedFile ==
  ASSUME Table, NEW k \in open, NEW n \in 0..MaxLen,
         file' = [file EXCEPT ![k] =
           [Complete(file[k]) EXCEPT !.content = Resize(@, n), !.dirty = TRUE, !.logical_size = n]]
  PROVE  \E g \in OpenFile :
           /\ file' = [file EXCEPT ![k] = g]
           /\ g.content = Resize(file[k].content, n) /\ g.logical_size = n
           /\ g.dirty = TRUE /\ g.state = "complete"
<1> USE OpenFilesConstants
<1> DEFINE f == file[k]
           g == [state |-> "complete", content |-> Resize(f.content, n), dirty |-> TRUE,
                 stale |-> f.stale, logical_size |-> n]
<1>1. file[k] \in OpenFile
  BY DEF Table
<1>2. [Complete(f) EXCEPT !.content = Resize(f.content, n), !.dirty = TRUE, !.logical_size = n] = g
  BY <1>1, TruncatedRecord
<1>3. Complete(f).content = f.content
  BY <1>1 DEF Complete, OpenFile
<1>4. Resize(f.content, n) \in Contents /\ n \in Sizes /\ f.stale \in BOOLEAN
  BY <1>1, FieldsOfFile, ResizeCells DEF Sizes, None
<1>5. g \in OpenFile
  BY <1>4, IsFile
<1>6. g.content = Resize(f.content, n) /\ g.logical_size = n /\ g.dirty = TRUE /\ g.state = "complete"
  OBVIOUS
<1> HIDE DEF g
<1>7. file' = [file EXCEPT ![k] = g]
  BY <1>2, <1>3
<1> QED  BY <1>5, <1>6, <1>7

(* A truncation of whichever handle is found: what it cuts off is gone by  *)
(* the wish of its caller, the rest stays.                                 *)
LEMMA TruncateKeeps ==
  ASSUME World, Table, NEW h \in open, NEW n \in 0..MaxLen, TruncateFor(h, n),
         ReadsAlone', call' \in [Handles -> Calls], open' = open,
         UNCHANGED <<storeVars, fetched, answer, remotes>>
  PROVE  World' /\ Table'
<1> USE OpenFilesConstants
<1>1. PICK k \in open :
        /\ file' = [file EXCEPT ![k] =
             [Complete(file[k]) EXCEPT !.content = Resize(@, n), !.dirty = TRUE, !.logical_size = n]]
        /\ unsaved' = [unsaved EXCEPT ![k] = [i \in 1..MaxLen |-> IF i > n THEN 0 ELSE @[i]]]
  BY DEF TruncateFor
<1>2. World'
  BY DEF World, TruncateFor, Edit, storeVars
<1>3. file[k] \in OpenFile /\ k \in Handles /\ unsaved[k] \in [1..MaxLen -> 0..MaxChanges]
  BY DEF Table, HistoryOK
<1>4. PICK g \in OpenFile :
        /\ file' = [file EXCEPT ![k] = g]
        /\ g.content = Resize(file[k].content, n) /\ g.logical_size = n
        /\ g.dirty = TRUE /\ g.state = "complete"
  BY <1>1, TruncatedFile
<1> DEFINE u == [i \in 1..MaxLen |-> IF i > n THEN 0 ELSE unsaved[k][i]]
<1>5. unsaved' = [unsaved EXCEPT ![k] = u]
  BY <1>1
<1>6. u \in [1..MaxLen -> 0..MaxChanges]
  BY <1>3
<1>7. Keeps(g, u)
  <2> SUFFICES ASSUME NEW j \in 1..MaxLen, u[j] # 0
               PROVE  g.dirty /\ Cell(Saved(g), j) = u[j]
    BY DEF Keeps
  <2>1. j \in 1..n /\ u[j] = unsaved[k][j]
    OBVIOUS
  <2>2. Cell(Saved(file[k]), j) = u[j]
    BY <2>1 DEF Table, Keeps
  <2>3. Cell(Saved(g), j) = Cell(Saved(file[k]), j)
    BY <1>3, <1>4, <2>1, <2>2, TruncatedCells
  <2> QED  BY <1>4, <2>2, <2>3
<1> QED  BY <1>2, <1>4, <1>5, <1>6, <1>7, OneHandle

(* The file an allocation leaves in the handle it finds.                   *)
LEMMA AllocatedFile ==
  ASSUME Table, NEW k \in open, NEW n \in 0..MaxLen,
         file' = [file EXCEPT ![k] =
           [Complete(file[k]) EXCEPT !.content = Resize(@, Longer(Len(@), n))]]
  PROVE  \E g \in OpenFile :
           /\ file' = [file EXCEPT ![k] = g]
           /\ g.content = Resize(file[k].content, Longer(Len(file[k].content), n))
           /\ g.logical_size = file[k].logical_size
           /\ g.dirty = file[k].dirty /\ g.state = "complete"
<1> USE OpenFilesConstants
<1> DEFINE f == file[k]
           m == Longer(Len(f.content), n)
           g == [state |-> "complete", content |-> Resize(f.content, m), dirty |-> f.dirty,
                 stale |-> f.stale, logical_size |-> f.logical_size]
<1>1. file[k] \in OpenFile
  BY DEF Table
<1>2. Complete(f) = [state |-> "complete", content |-> f.content, dirty |-> f.dirty,
                     stale |-> f.stale, logical_size |-> f.logical_size]
  BY <1>1 DEF Complete, OpenFile
<1>3. [Complete(f) EXCEPT !.content = Resize(@, Longer(Len(@), n))] = g
  BY <1>2
<1>4. /\ f.content \in Contents /\ f.stale \in BOOLEAN /\ f.dirty \in BOOLEAN
      /\ f.logical_size \in Sizes
  BY <1>1, FieldsOfFile
<1>5. m \in 0..MaxLen
  BY <1>4, ContentIsSequence DEF Longer
<1>6. g \in OpenFile
  BY <1>4, <1>5, ResizeCells, IsFile
<1>7. /\ g.content = Resize(f.content, m) /\ g.logical_size = f.logical_size
      /\ g.dirty = f.dirty /\ g.state = "complete"
  OBVIOUS
<1> HIDE DEF g
<1>8. file' = [file EXCEPT ![k] = g]
  BY <1>3
<1> QED  BY <1>6, <1>7, <1>8

LEMMA AllocateKeeps ==
  ASSUME World, Table, NEW h \in open, NEW n \in 0..MaxLen, Allocate(h, n)
  PROVE  World' /\ Table'
<1> USE OpenFilesConstants
<1>1. PICK k \in open :
        file' = [file EXCEPT ![k] = [Complete(file[k]) EXCEPT !.content = Resize(@, Longer(Len(@), n))]]
  BY DEF Allocate
<1>2. World'
  BY DEF World, Allocate, Edit, storeVars
<1>3. file[k] \in OpenFile /\ k \in Handles /\ unsaved[k] \in [1..MaxLen -> 0..MaxChanges]
  BY DEF Table, HistoryOK
<1>4. PICK g \in OpenFile :
        /\ file' = [file EXCEPT ![k] = g]
        /\ g.content = Resize(file[k].content, Longer(Len(file[k].content), n))
        /\ g.logical_size = file[k].logical_size
        /\ g.dirty = file[k].dirty /\ g.state = "complete"
  BY <1>1, AllocatedFile
<1>5. unsaved' = [unsaved EXCEPT ![k] = unsaved[k]]
  BY DEF Table, HistoryOK, Allocate
<1>6. \A j \in 1..MaxLen : Cell(Saved(g), j) = Cell(Saved(file[k]), j)
  BY <1>3, <1>4, AllocatedCells
<1>7. Keeps(g, unsaved[k])
  BY <1>4, <1>6 DEF Keeps, Table
<1>8. g.dirty => g.state = "complete"
  BY <1>4
<1>9. ReadsAlone' /\ call' \in [Handles -> Calls] /\ open' = open
  BY NoReads DEF Allocate, Alone, Table
<1> QED  BY <1>2, <1>3, <1>4, <1>5, <1>7, <1>8, <1>9, OneHandle

------------------------------------------------------------------------------
(* Reads, flushes and closes                                               *)

LEMMA OpenKeeps ==
  ASSUME World, Table, NEW h \in Handles, Create(h) \/ OpenLocal(h) \/ OpenRemote(h)
  PROVE  World' /\ Table'
<1>1. CASE Create(h)
  BY <1>1, EmptyIsContent, InsertKeeps DEF Create
<1>2. CASE OpenLocal(h)
  <2>1. \E s \in Contents : Insert(h, "complete", s)
    <3>1. CASE \E g \in open : Insert(h, "complete", file[g].content)
      BY <3>1, FieldsOfFile DEF Table
    <3>2. CASE \E s \in writeback : Insert(h, "complete", s)
      BY <3>2 DEF World
    <3> QED  BY <1>2, <3>1, <3>2 DEF OpenLocal
  <2> QED  BY <2>1, InsertKeeps
<1>3. CASE OpenRemote(h)
  <2>1. \E s \in Contents, state \in {"complete", "streaming"} : Insert(h, state, s)
    BY <1>3 DEF OpenRemote, World
  <2> QED  BY <2>1, InsertKeeps
<1> QED  BY <1>1, <1>2, <1>3

LEMMA StreamEndsKeeps ==
  ASSUME World, Table, NEW h \in Handles, StreamEnds(h)
  PROVE  World' /\ Table'
<1>1. PICK state \in {"arrived", "failed"} : file' = [file EXCEPT ![h].state = state]
  BY DEF StreamEnds
<1>2. /\ h \in open /\ file[h] \in OpenFile /\ file[h].state = "streaming"
      /\ unsaved[h] \in [1..MaxLen -> 0..MaxChanges]
  BY DEF StreamEnds, Table, HistoryOK
<1> DEFINE g == [file[h] EXCEPT !.state = state]
<1>3. g \in OpenFile /\ g.dirty = FALSE
  BY <1>2 DEF OpenFile, Table
<1>4. file' = [file EXCEPT ![h] = g] /\ unsaved' = [unsaved EXCEPT ![h] = unsaved[h]]
  BY <1>1, <1>2 DEF Table, HistoryOK, StreamEnds, history
<1>5. Keeps(g, unsaved[h])
  BY <1>2 DEF Table, Keeps
<1>6. call' \in [Handles -> Calls] /\ open' = open
  BY DEF Table, StreamEnds
<1>7. ReadsAlone'
  BY <1>2, <1>3, <1>4 DEF Table, ReadsAlone, StreamEnds
<1>8. World'
  BY DEF World, StreamEnds, storeVars, counts
<1> HIDE DEF g
<1> QED  BY <1>2, <1>3, <1>4, <1>5, <1>6, <1>7, <1>8, OneHandle

LEMMA ReadStaleKeeps ==
  ASSUME World, Table, NEW h \in Handles, ReadStale(h)
  PROVE  World' /\ Table'
<1> USE DEF ReadStale, Fetch
<1>1. World'
  BY DEF World, storeVars, counts
<1>2. call' \in [Handles -> Calls]
  BY DEF Table, Calls
<1>3. \A g \in open : call'[g] \in {"idle", "reading", "cleaned"}
  BY DEF Table, Shared
<1>4. \A g \in open : call'[g] = "reading" => ~file[g].dirty
  BY DEF Table, ReadsAlone
<1>5. ReadsAlone'
  BY <1>3, <1>4 DEF ReadsAlone, Exclusive
<1> QED  BY <1>1, <1>2, <1>5, NoHandle DEF history

(* What a refresh replaces has nothing unsaved, however long it took.      *)
LEMMA ReadRefreshKeeps ==
  ASSUME World, Table, NEW h \in open, ReadRefresh(h)
  PROVE  World' /\ Table'
<1> USE DEF ReadRefresh
<1>1. World'
  BY DEF World, storeVars, counts, Table
<1>2. call' \in [Handles -> Calls] /\ open' = open /\ h \in Handles
  BY DEF Table, Calls
<1>3. ~file[h].dirty /\ file[h] \in OpenFile /\ unsaved[h] \in [1..MaxLen -> 0..MaxChanges]
  BY DEF Table, ReadsAlone, HistoryOK
<1>4. unsaved' = unsaved
  OBVIOUS
<1>5. CASE UNCHANGED file
  <2>1. ReadsAlone'
    BY <1>2, <1>5 DEF Table, ReadsAlone, Exclusive
  <2> QED  BY <1>1, <1>2, <1>4, <1>5, <2>1, NoHandle
<1>6. CASE ~UNCHANGED file
  <2>1. PICK s \in fetched[h] :
          file' = [file EXCEPT ![h].state = "complete", ![h].content = s, ![h].stale = FALSE]
    BY <1>6
  <2> DEFINE g == [state |-> "complete", content |-> s, dirty |-> file[h].dirty,
                   stale |-> FALSE, logical_size |-> file[h].logical_size]
  <2>2. file' = [file EXCEPT ![h] = g] /\ unsaved' = [unsaved EXCEPT ![h] = unsaved[h]]
    <3>1. [file[h] EXCEPT !.state = "complete", !.content = s, !.stale = FALSE] = g
      BY <1>3, RefreshedRecord
    <3> HIDE DEF g
    <3>2. file' = [file EXCEPT ![h] =
                    [file[h] EXCEPT !.state = "complete", !.content = s, !.stale = FALSE]]
      BY <1>2, <2>1 DEF Table
    <3> QED  BY <1>4, <3>1, <3>2 DEF Table, HistoryOK
  <2>3. s \in Contents
    BY <1>2, <2>1 DEF World
  <2>4. g \in OpenFile
    BY <1>3, <2>3, FieldsOfFile, IsFile
  <2>5. g.dirty = file[h].dirty /\ g.state = "complete"
    OBVIOUS
  <2> HIDE DEF g
  <2>6. Keeps(g, unsaved[h])
    BY <1>3 DEF Table, Keeps
  <2>7. \A k \in Handles : file'[k].dirty = file[k].dirty
    BY <1>2, <2>2, <2>5 DEF Table
  <2>8. ReadsAlone'
    BY <1>2, <2>7 DEF Table, ReadsAlone, Exclusive
  <2> QED  BY <1>1, <1>2, <1>3, <2>2, <2>4, <2>5, <2>6, <2>8, OneHandle
<1> QED  BY <1>5, <1>6

(* A save copies the buffer and keeps it.                                  *)
LEMMA FlushSaveKeeps ==
  ASSUME World, Table, NEW h \in Handles, FlushSave(h)
  PROVE  World' /\ Table'
<1> USE DEF FlushSave, Idle
<1>1. Saved(file[h]) \in Contents
  BY SavedCells DEF Table
<1>2. World'
  BY <1>1 DEF World, counts
<1>3. PICK c \in {"flush", "overwrite", "cleanup"} : call' = [call EXCEPT ![h] = c]
  OBVIOUS
<1>4. call' \in [Handles -> Calls] /\ ReadsAlone'
  BY <1>3, NoReads DEF Table, Calls, Alone
<1> QED  BY <1>2, <1>4, NoHandle

LEMMA ThenCalls ==
  ASSUME Table, NEW h \in Waiting, call' = Then(h), open' = open
  PROVE  call' \in [Handles -> Calls] /\ ReadsAlone'
<1>1. h \in open /\ h \in Handles /\ call[h] \in {"flush", "overwrite", "cleanup"}
  BY DEF Waiting, Table
<1>2. call' \in [Handles -> Calls] /\ call'[h] # "reading"
      /\ \A g \in Handles \ {h} : call'[g] = call[g]
  BY <1>1 DEF Table, Then, Calls
<1>3. \A g \in open : call[g] # "reading"
  BY <1>1 DEF Table, ReadsAlone, Exclusive
<1> QED  BY <1>2, <1>3, NoReads DEF Table

(* What the server has is no longer missed.                                *)
LEMMA FlushDoneKeeps ==
  ASSUME World, Table, NEW h \in Handles, FlushDone(h)
  PROVE  World' /\ Table'
<1> USE DEF FlushDone
<1>1. World'
  BY DEF World, storeVars, counts
<1>2. h \in open /\ file[h] \in OpenFile
  BY DEF Waiting, Table
<1> DEFINE g == [file[h] EXCEPT !.dirty = FALSE]
<1>3. g \in OpenFile /\ g.dirty = FALSE
  BY <1>2 DEF OpenFile
<1>4. file' = [file EXCEPT ![h] = g]
  BY <1>2 DEF Table
<1>5. NoWrites \in [1..MaxLen -> 0..MaxChanges] /\ Keeps(g, NoWrites)
  BY OpenFilesConstants DEF NoWrites, Keeps
<1>6. call' \in [Handles -> Calls] /\ ReadsAlone'
  BY ThenCalls
<1> HIDE DEF g
<1> QED  BY <1>1, <1>2, <1>3, <1>4, <1>5, <1>6, OneHandle

LEMMA FlushFailsKeeps ==
  ASSUME World, Table, NEW h \in Handles, FlushFails(h)
  PROVE  World' /\ Table'
<1> USE DEF FlushFails
<1>1. World'
  BY DEF World, storeVars, counts
<1>2. call' \in [Handles -> Calls] /\ ReadsAlone'
  BY ThenCalls
<1> QED  BY <1>1, <1>2, NoHandle DEF history

(* An overwrite whose flush has just ended still runs alone.               *)
LEMMA ResizesKeep ==
  ASSUME World, Table, NEW h \in Handles,
         Overwrite(h) \/ \E n \in 0..MaxLen : Truncate(h, n)
  PROVE  World' /\ Table'
<1>1. CASE Overwrite(h)
  <2> USE DEF Overwrite
  <2>1. 0 \in 0..MaxLen /\ h \in open /\ call' = [call EXCEPT ![h] = "idle"]
    BY <1>1, OpenFilesConstants DEF Idle
  <2>2. \A g \in open : call[g] # "reading"
    BY <1>1 DEF Alone, Table, ReadsAlone, Exclusive
  <2>3. call' \in [Handles -> Calls] /\ open' = open /\ ReadsAlone'
    BY <1>1, <2>1, <2>2, NoReads DEF Table, Calls
  <2> QED  BY <1>1, <2>1, <2>3, TruncateKeeps
<1>2. ASSUME NEW n \in 0..MaxLen, Truncate(h, n)
      PROVE  World' /\ Table'
  <2>1. /\ h \in open /\ call' \in [Handles -> Calls] /\ open' = open /\ ReadsAlone'
    BY <1>2, NoReads DEF Truncate, Idle, Alone, Table
  <2> QED  BY <1>2, <2>1, TruncateKeeps DEF Truncate
<1> QED  BY <1>1, <1>2

LEMMA WritesKeep ==
  ASSUME World, Table, NEW h \in Handles,
         AppendTo(h) \/ \E i \in 1..MaxLen : Write(h, i)
  PROVE  World' /\ Table'
<1>1. ASSUME NEW i \in 1..MaxLen, Write(h, i)
      PROVE  World' /\ Table'
  BY <1>1, WriteKeeps DEF Write, Idle
<1>2. CASE AppendTo(h)
  <2>1. PICK g \in open : ContentSize(file[g]) < MaxLen /\ WriteAt(h, ContentSize(file[g]) + 1)
    BY <1>2 DEF AppendTo
  <2>2. file[g].content \in Contents
        /\ (file[g].logical_size = None \/ file[g].logical_size \in 0..MaxLen)
    BY FieldsOfFile DEF Table
  <2>3. ContentSize(file[g]) + 1 \in 1..MaxLen
    BY <2>1, <2>2, ContentIsSequence, OpenFilesConstants DEF ContentSize
  <2> QED  BY <1>2, <2>1, <2>3, WriteKeeps DEF AppendTo, Idle
<1> QED  BY <1>1, <1>2

LEMMA CleanupAtOnceKeeps ==
  ASSUME World, Table, NEW h \in Handles, CleanupAtOnce(h)
  PROVE  World' /\ Table'
<1> USE DEF CleanupAtOnce
<1>1. World'
  BY DEF World, storeVars, counts
<1>2. call' \in [Handles -> Calls] /\ ReadsAlone'
  BY NoReads DEF Table, Calls, Idle, Alone
<1> QED  BY <1>1, <1>2, NoHandle DEF history

(* A closed handle is in the table no more; the others stay as they are.   *)
LEMMA CloseKeeps ==
  ASSUME World, Table, NEW h \in Handles, Close(h)
  PROVE  World' /\ Table'
<1> USE DEF Close
<1>1. Saved(file[h]) \in Contents
  BY SavedCells DEF Table
<1>2. World'
  BY <1>1 DEF World, counts
<1>3. Fresh("complete", <<>>) \in OpenFile
  BY EmptyIsContent, FreshIsFile
<1>4. /\ open' \subseteq Handles /\ file' \in [Handles -> OpenFile]
      /\ call' \in [Handles -> Calls] /\ HistoryOK'
  BY <1>3, OpenFilesConstants DEF Table, HistoryOK, Calls, NoWrites
<1>5. \A g \in open' : g \in open /\ file'[g] = file[g] /\ unsaved'[g] = unsaved[g] /\ call'[g] = call[g]
  BY DEF Table, HistoryOK
<1>6. ReadsAlone'
  BY <1>5 DEF Table, ReadsAlone
<1>7. \A g \in open' : (file'[g].dirty => file'[g].state = "complete") /\ Keeps(file'[g], unsaved'[g])
  BY <1>5 DEF Table
<1> QED  BY <1>2, <1>4, <1>6, <1>7 DEF Table

------------------------------------------------------------------------------
(* Sync processor, server and delta sync: the handles do not notice, but   *)
(* for the stale mark.                                                     *)

LEMMA OutsideKeeps ==
  ASSUME World, Table, UploadStarts \/ UploadEnds \/ UploadFails \/ RemoteEdit
  PROVE  World' /\ Table'
<1>1. \A b \in BOOLEAN : Answer(b) => answer' \in [Handles -> SUBSET BOOLEAN]
  BY DEF World, Answer
<1>2. World'
  <2>1. CASE UploadStarts
    BY <1>1, <2>1 DEF UploadStarts, World, counts
  <2>2. CASE UploadEnds
    BY <1>1, <2>2 DEF UploadEnds, World, counts
  <2>3. CASE UploadFails
    BY <1>1, <2>3 DEF UploadFails, World, counts
  <2>4. CASE RemoteEdit
    <3>1. PICK n \in Lengths : server' = {Revision(remotes + 1, n)}
      BY <2>4 DEF RemoteEdit
    <3>2. remotes + 1 \in 0..MaxChanges /\ {edits', remotes', edits' + remotes'} \subseteq 0..MaxChanges
      BY <2>4, OpenFilesConstants DEF RemoteEdit, World
    <3>3. Revision(remotes + 1, n) \in Contents
      BY <3>2, RevisionIsContent
    <3> QED  BY <2>4, <3>1, <3>2, <3>3 DEF RemoteEdit, World
  <2> QED  BY <2>1, <2>2, <2>3, <2>4
<1>3. UNCHANGED <<open, file, call, unsaved>>
  BY DEF UploadStarts, UploadEnds, UploadFails, RemoteEdit, history
<1>4. ReadsAlone' /\ call' \in [Handles -> Calls]
  BY <1>3 DEF Table, ReadsAlone
<1> QED  BY <1>2, <1>3, <1>4, NoHandle

LEMMA MarkStaleKeeps ==
  ASSUME World, Table, MarkStale
  PROVE  World' /\ Table'
<1> USE DEF MarkStale
<1>1. World'
  BY DEF World, counts
<1>2. \A f \in OpenFile :
        /\ [f EXCEPT !.stale = TRUE] \in OpenFile
        /\ [f EXCEPT !.stale = TRUE].dirty = f.dirty /\ [f EXCEPT !.stale = TRUE].state = f.state
        /\ [f EXCEPT !.stale = TRUE].content = f.content
        /\ [f EXCEPT !.stale = TRUE].logical_size = f.logical_size
  BY DEF OpenFile
<1>3. file' \in [Handles -> OpenFile]
      /\ \A h \in Handles : /\ file'[h].dirty = file[h].dirty /\ file'[h].state = file[h].state
                             /\ file'[h].content = file[h].content
                             /\ file'[h].logical_size = file[h].logical_size
  BY <1>2 DEF Table
<1>4. UNCHANGED <<open, call, unsaved>>
  BY DEF history
<1>5. \A h \in open : Saved(file'[h]) = Saved(file[h])
  BY <1>3 DEF Saved, Table
<1>6. ASSUME NEW h \in open
      PROVE  Keeps(file'[h], unsaved'[h])
  <2>1. Keeps(file[h], unsaved[h]) /\ h \in Handles
    BY DEF Table
  <2>2. Saved(file'[h]) = Saved(file[h]) /\ file'[h].dirty = file[h].dirty
    BY <1>3, <1>5, <2>1
  <2> QED  BY <1>4, <2>1, <2>2 DEF Keeps
<1>7. ReadsAlone' /\ HistoryOK'
  BY <1>3, <1>4 DEF Table, ReadsAlone, HistoryOK
<1> QED  BY <1>1, <1>3, <1>4, <1>6, <1>7 DEF Table

LEMMA NextKeeps == IInv /\ [Next]_vars => IInv'
<1> SUFFICES ASSUME World, Table, [Next]_vars PROVE World' /\ Table'
  BY InTwoParts DEF IInv, World, Table, TypeOK, Keeps, UnsavedWritesKept, HistoryOK, ReadsAlone
<1>1. CASE UNCHANGED vars
  <2>1. World'
    BY <1>1 DEF vars, World, storeVars, counts
  <2>2. ReadsAlone' /\ call' \in [Handles -> Calls]
    BY <1>1 DEF vars, Table, ReadsAlone
  <2> QED  BY <1>1, <2>1, <2>2, NoHandle DEF vars, history
<1>2. ASSUME NEW h \in Handles, HandleStep(h)
      PROVE  World' /\ Table'
  <2>1. CASE Create(h) \/ OpenLocal(h) \/ OpenRemote(h)
    BY <2>1, OpenKeeps
  <2>2. CASE StreamEnds(h)
    BY <2>2, StreamEndsKeeps
  <2>3. CASE ReadStale(h)
    BY <2>3, ReadStaleKeeps
  <2>4. CASE ReadRefresh(h)
    BY <2>4, ReadRefreshKeeps DEF ReadRefresh
  <2>5. CASE AppendTo(h) \/ \E i \in 1..MaxLen : Write(h, i)
    BY <2>5, WritesKeep
  <2>6. CASE Overwrite(h) \/ \E n \in 0..MaxLen : Truncate(h, n)
    BY <2>6, ResizesKeep
  <2>7. CASE \E n \in 0..MaxLen : Allocate(h, n)
    BY <2>7, AllocateKeeps DEF Allocate, Idle
  <2>8. CASE FlushSave(h)
    BY <2>8, FlushSaveKeeps
  <2>9. CASE FlushDone(h)
    BY <2>9, FlushDoneKeeps
  <2>10. CASE FlushFails(h)
    BY <2>10, FlushFailsKeeps
  <2>11. CASE CleanupAtOnce(h)
    BY <2>11, CleanupAtOnceKeeps
  <2>12. CASE Close(h)
    BY <2>12, CloseKeeps
  <2> QED  BY <1>2, <2>1, <2>2, <2>3, <2>4, <2>5, <2>6, <2>7, <2>8, <2>9, <2>10, <2>11, <2>12
           DEF HandleStep
<1> QED  BY <1>1, <1>2, OutsideKeeps, MarkStaleKeeps DEF Next

LEMMA HandlesInvariant == Spec => []IInv
BY InitEstablishes, NextKeeps, PTL DEF Spec

(* OpenFiles keeps its types, whatever the handles, lengths and number of  *)
(* changes; a dirty handle is complete, so that flush_handle and           *)
(* release_file find a whole buffer to save.                               *)
THEOREM HandleTypes == Spec => []TypeOK
BY HandlesInvariant, PTL DEF IInv

(* A write that no flush has confirmed is in its handle's buffer, within   *)
(* the size a save keeps, and the handle is dirty: refreshes, failed and   *)
(* timed out flushes and calls on the other handles do not lose it.        *)
THEOREM UnsavedWritesAlwaysKept == Spec => []UnsavedWritesKept
BY HandlesInvariant, PTL DEF IInv

------------------------------------------------------------------------------
(* What a handle would save is what its operations meant.  That needs the  *)
(* buffer to hold nothing past a logical size, or a write past the size    *)
(* would bring back what a truncation cut off, and one content at a time   *)
(* to refresh from.                                                        *)

One(S) == \A s, t \in S : s = t

Rounded(f) ==
  f.logical_size # None =>
    /\ f.logical_size <= Len(f.content)
    /\ \A i \in 1..MaxLen : i > f.logical_size => Cell(f.content, i) = 0

Faithful(f, m) == \A s \in m : s = Saved(f) /\ Rounded(f)

Sources ==
  One(server) /\ One(writeback) /\ One(uploading) /\ \A h \in Handles : One(fetched[h])

MeantInv ==
  /\ meant \in [Handles -> SUBSET Contents]
  /\ \A h \in open : Faithful(file[h], meant[h])
  /\ Sources
  /\ SavesAreMeant

LEMMA SameCells ==
  ASSUME NEW s \in Contents, NEW t \in Contents, Len(s) = Len(t),
         \A i \in 1..MaxLen : Cell(s, i) = Cell(t, i)
  PROVE  s = t
<1>1. /\ s \in Seq(Cells) /\ DOMAIN s = 1..Len(s) /\ Len(s) \in 0..MaxLen
      /\ t \in Seq(Cells) /\ DOMAIN t = 1..Len(s)
  BY ContentIsSequence
<1>2. ASSUME NEW i \in 1..Len(s) PROVE s[i] = t[i]
  BY <1>1, <1>2, OpenFilesConstants DEF Cell
<1> QED  BY <1>1, <1>2

(* What a save keeps of such a file.                                       *)
LEMMA RoundedSaves ==
  ASSUME NEW f \in OpenFile, Rounded(f)
  PROVE  /\ Len(Saved(f)) = ContentSize(f)
         /\ \A i \in 1..MaxLen : Cell(Saved(f), i) = Cell(f.content, i)
<1>1. f.content \in Contents /\ (f.logical_size = None \/ f.logical_size \in 0..MaxLen)
  BY FieldsOfFile
<1>2. Len(Saved(f)) = ContentSize(f)
  <2>1. CASE f.logical_size = None
    BY <2>1 DEF Saved, ContentSize
  <2>2. CASE f.logical_size # None
    <3>1. f.logical_size \in 0..MaxLen /\ f.logical_size <= Len(f.content)
      BY <1>1, <2>2 DEF Rounded
    <3>2. Saved(f) = SubSeq(f.content, 1, f.logical_size)
      BY <1>1, <2>2, <3>1, ContentIsSequence, OpenFilesConstants DEF Saved, Cut, Shorter
    <3> QED  BY <1>1, <2>2, <3>1, <3>2, ContentIsSequence, OpenFilesConstants DEF ContentSize
  <2> QED  BY <2>1, <2>2
<1>3. ASSUME NEW i \in 1..MaxLen PROVE Cell(Saved(f), i) = Cell(f.content, i)
  BY <1>1, <1>3, SavedCells, OpenFilesConstants DEF Rounded
<1> QED  BY <1>2, <1>3

(* A buffer of just that size.                                             *)
LEMMA OfThatSize ==
  ASSUME NEW s \in Contents, NEW g, g.content = s, g.logical_size = Len(s)
  PROVE  Saved(g) = s /\ Rounded(g)
<1>1. s \in Seq(Cells) /\ Len(s) \in Nat /\ DOMAIN s = 1..Len(s)
  BY ContentIsSequence, OpenFilesConstants
<1>2. Cut(s, Len(s)) = s
  BY <1>1 DEF Cut, Shorter
<1>3. \A i \in 1..MaxLen : i > Len(s) => Cell(s, i) = 0
  BY <1>1, OpenFilesConstants DEF Cell
<1> QED  BY <1>1, <1>2, <1>3 DEF Saved, Rounded, None

LEMMA SameSave ==
  ASSUME NEW f, NEW g, g.content = f.content, g.logical_size = f.logical_size,
         NEW m, Faithful(f, m)
  PROVE  Faithful(g, m)
BY DEF Faithful, Rounded, Saved

(* Writing, then saving is saving, then writing.                           *)
LEMMA WrittenIsPut ==
  ASSUME NEW f \in OpenFile, NEW g \in OpenFile, NEW i \in 1..MaxLen, NEW v \in Cells,
         g.content = Put(f.content, i, v),
         g.logical_size = IF f.logical_size = None THEN None ELSE Longer(f.logical_size, i),
         Rounded(f)
  PROVE  Rounded(g) /\ Saved(g) = Put(Saved(f), i, v)
<1>1. /\ f.content \in Contents /\ Saved(f) \in Contents /\ Saved(g) \in Contents
      /\ (f.logical_size = None \/ f.logical_size \in 0..MaxLen)
      /\ Len(f.content) \in 0..MaxLen
  BY FieldsOfFile, SavedCells, ContentIsSequence
<1>2. Len(g.content) = Longer(Len(f.content), i)
      /\ \A j \in 1..MaxLen : Cell(g.content, j) = IF j = i THEN v ELSE Cell(f.content, j)
  <2>1. \A j \in Int : Cell(g.content, j) = IF j = i THEN v ELSE Cell(f.content, j)
    BY <1>1, PutCells
  <2>2. \A j \in 1..MaxLen : j \in Int
    OBVIOUS
  <2>3. Len(g.content) = Longer(Len(f.content), i)
    BY <1>1, PutCells
  <2> QED  BY <2>1, <2>2, <2>3
<1>3. Rounded(g)
  <2> SUFFICES ASSUME g.logical_size # None
               PROVE  /\ g.logical_size <= Len(g.content)
                      /\ \A j \in 1..MaxLen : j > g.logical_size => Cell(g.content, j) = 0
    BY DEF Rounded
  <2>1. /\ f.logical_size \in 0..MaxLen /\ g.logical_size = Longer(f.logical_size, i)
        /\ f.logical_size <= Len(f.content)
        /\ \A j \in 1..MaxLen : j > f.logical_size => Cell(f.content, j) = 0
    BY <1>1 DEF Rounded
  <2> QED  BY <1>1, <1>2, <2>1, OpenFilesConstants DEF Longer
<1>4. Len(Saved(g)) = Len(Put(Saved(f), i, v))
  <2>1. Len(Put(Saved(f), i, v)) = Longer(ContentSize(f), i)
    BY <1>1, PutCells, RoundedSaves
  <2>2. Len(Saved(g)) = ContentSize(g)
    BY <1>3, RoundedSaves
  <2>3. ContentSize(g) = Longer(ContentSize(f), i)
    BY <1>1, <1>2, OpenFilesConstants DEF ContentSize, Longer, None
  <2> QED  BY <2>1, <2>2, <2>3
<1>5. \A j \in 1..MaxLen : Cell(Saved(g), j) = Cell(Put(Saved(f), i, v), j)
  <2>1. \A j \in 1..MaxLen : Cell(Put(Saved(f), i, v), j) = IF j = i THEN v ELSE Cell(Saved(f), j)
    BY <1>1, PutCells
  <2> QED  BY <1>2, <1>3, <2>1, RoundedSaves
<1>6. Put(Saved(f), i, v) \in Contents
  BY <1>1, PutCells
<1> QED  BY <1>1, <1>3, <1>4, <1>5, <1>6, SameCells

(* Resizing, then saving is saving, then resizing.                         *)
LEMMA TruncatedIsResized ==
  ASSUME NEW f \in OpenFile, NEW g \in OpenFile, NEW n \in 0..MaxLen,
         g.content = Resize(f.content, n), g.logical_size = n
  PROVE  Rounded(g) /\ (Rounded(f) => Saved(g) = Resize(Saved(f), n))
<1>1. f.content \in Contents /\ Saved(f) \in Contents /\ Saved(g) \in Contents
  BY FieldsOfFile, SavedCells
<1>2. Len(g.content) = n
      /\ \A j \in 1..MaxLen : Cell(g.content, j) = IF j \in 1..n THEN Cell(f.content, j) ELSE 0
  BY <1>1, ResizeCells
<1>3. Rounded(g)
  BY <1>2 DEF Rounded
<1>4. ASSUME Rounded(f) PROVE Saved(g) = Resize(Saved(f), n)
  <2>1. Len(Saved(g)) = n
    BY <1>3, RoundedSaves DEF ContentSize, None
  <2>2. Resize(Saved(f), n) \in Contents /\ Len(Resize(Saved(f), n)) = n
        /\ \A j \in 1..MaxLen : Cell(Resize(Saved(f), n), j) =
                               IF j \in 1..n THEN Cell(Saved(f), j) ELSE 0
    BY <1>1, ResizeCells
  <2>3. \A j \in 1..MaxLen : Cell(Saved(g), j) = Cell(Resize(Saved(f), n), j)
    BY <1>2, <1>3, <1>4, <2>2, RoundedSaves
  <2> QED  BY <1>1, <2>1, <2>2, <2>3, SameCells
<1> QED  BY <1>3, <1>4

(* An allocation within the file, or of a file with a size, saves as much. *)
LEMMA AllocatedIsSame ==
  ASSUME NEW f \in OpenFile, NEW g \in OpenFile, NEW n \in 0..MaxLen,
         g.content = Resize(f.content, Longer(Len(f.content), n)),
         g.logical_size = f.logical_size, Rounded(f),
         ~(f.logical_size = None /\ Len(f.content) < n)
  PROVE  Rounded(g) /\ Saved(g) = Saved(f)
<1> DEFINE m == Longer(Len(f.content), n)
<1>1. /\ f.content \in Contents /\ Saved(f) \in Contents /\ Saved(g) \in Contents
      /\ (f.logical_size = None \/ f.logical_size \in 0..MaxLen)
      /\ Len(f.content) \in 0..MaxLen /\ DOMAIN f.content = 1..Len(f.content)
  BY FieldsOfFile, SavedCells, ContentIsSequence
<1>2. m \in 0..MaxLen /\ Len(f.content) <= m
  BY <1>1, OpenFilesConstants DEF Longer
<1>3. Len(g.content) = m
      /\ \A j \in 1..MaxLen : Cell(g.content, j) = IF j \in 1..m THEN Cell(f.content, j) ELSE 0
  <2>0. g.content = Resize(f.content, m)
    OBVIOUS
  <2> HIDE DEF m
  <2>1. Len(g.content) = m
    BY <1>1, <1>2, <2>0, ResizeCells
  <2>2. \A j \in Int : Cell(g.content, j) = IF j \in 1..m THEN Cell(f.content, j) ELSE 0
    <3> DEFINE s == f.content
    <3>1. s \in Contents /\ m \in 0..MaxLen
      BY <1>1, <1>2
    <3> HIDE DEF s
    <3>2. \A j \in Int : Cell(Resize(s, m), j) = IF j \in 1..m THEN Cell(s, j) ELSE 0
      BY <3>1, ResizeCells
    <3> QED  BY <2>0, <3>2 DEF s
  <2>3. \A j \in 1..MaxLen : j \in Int
    OBVIOUS
  <2> QED  BY <2>1, <2>2, <2>3
<1>4. \A j \in 1..MaxLen : Cell(g.content, j) = Cell(f.content, j)
  <2>1. \A j \in 1..MaxLen : j \notin 1..m => Cell(f.content, j) = 0
    BY <1>1, <1>2, OpenFilesConstants DEF Cell
  <2> QED  BY <1>3, <2>1
<1>5. Rounded(g)
  BY <1>1, <1>2, <1>3, <1>4, OpenFilesConstants DEF Rounded
<1>6. ContentSize(g) = ContentSize(f)
  BY <1>1, <1>3, OpenFilesConstants DEF ContentSize, Longer
<1> QED  BY <1>1, <1>4, <1>5, <1>6, RoundedSaves, SameCells

(* A step on one handle, after which no other handle means more.           *)
LEMMA OneHandleFaithful ==
  ASSUME Table, MeantInv, NEW k \in open, NEW g, file' = [file EXCEPT ![k] = g],
         open' \subseteq open,
         \A x \in Handles \ {k} : meant'[x] \subseteq meant[x],
         Faithful(g, meant'[k])
  PROVE  \A x \in open' : Faithful(file'[x], meant'[x])
<1> SUFFICES ASSUME NEW x \in open' PROVE Faithful(file'[x], meant'[x])
  OBVIOUS
<1>1. CASE x = k
  <2>1. file'[x] = g
    BY <1>1 DEF Table
  <2> QED  BY <1>1, <2>1
<1>2. CASE x # k
  <2>1. file'[x] = file[x] /\ meant'[x] \subseteq meant[x] /\ x \in open
    BY <1>2 DEF Table
  <2> QED  BY <2>1 DEF MeantInv, Faithful
<1> QED  BY <1>1, <1>2

(* Steps that leave buffers and what they mean alone.                      *)
LEMMA BuffersAlone ==
  ASSUME Table, MeantInv, open' \subseteq open, UNCHANGED meant,
         \A h \in open : file'[h].content = file[h].content
                        /\ file'[h].logical_size = file[h].logical_size
  PROVE  meant' \in [Handles -> SUBSET Contents]
         /\ \A h \in open' : Faithful(file'[h], meant'[h])
<1>1. ASSUME NEW h \in open' PROVE Faithful(file'[h], meant'[h])
  <2>1. h \in open /\ Faithful(file[h], meant[h]) /\ meant'[h] = meant[h]
    BY DEF MeantInv
  <2> QED  BY <2>1, SameSave
<1> QED  BY <1>1 DEF MeantInv

LEMMA InsertMeans ==
  ASSUME World, Table, MeantInv, NEW h \in Handles, NEW s \in Contents,
         NEW state \in {"complete", "streaming"}, Insert(h, state, s)
  PROVE  MeantInv'
<1> USE DEF Insert
<1>1. meant' \in [Handles -> SUBSET Contents] /\ Sources' /\ SavesAreMeant'
  BY DEF MeantInv, Sources, SavesAreMeant, storeVars
<1>2. ASSUME NEW x \in open' PROVE Faithful(file'[x], meant'[x])
  <2>1. CASE x = h
    <3>1. file'[x] = Fresh(state, s) /\ meant'[x] = {s}
      BY <2>1 DEF Table, MeantInv
    <3>2. Faithful(Fresh(state, s), {s})
      BY DEF Faithful, Fresh, Saved, Rounded
    <3> QED  BY <3>1, <3>2
  <2>2. CASE x # h
    BY <2>2 DEF Table, MeantInv
  <2> QED  BY <2>1, <2>2
<1> QED  BY <1>1, <1>2 DEF MeantInv

LEMMA OpenMeans ==
  ASSUME World, Table, MeantInv, NEW h \in Handles,
         Create(h) \/ OpenLocal(h) \/ OpenRemote(h)
  PROVE  MeantInv'
<1>1. CASE Create(h)
  BY <1>1, EmptyIsContent, InsertMeans DEF Create
<1>2. CASE OpenLocal(h)
  <2>1. \E s \in Contents : Insert(h, "complete", s)
    <3>1. CASE \E g \in open : Insert(h, "complete", file[g].content)
      BY <3>1, FieldsOfFile DEF Table
    <3>2. CASE \E s \in writeback : Insert(h, "complete", s)
      BY <3>2 DEF World
    <3> QED  BY <1>2, <3>1, <3>2 DEF OpenLocal
  <2> QED  BY <2>1, InsertMeans
<1>3. CASE OpenRemote(h)
  <2>1. \E s \in Contents, state \in {"complete", "streaming"} : Insert(h, state, s)
    BY <1>3 DEF OpenRemote, World
  <2> QED  BY <2>1, InsertMeans
<1> QED  BY <1>1, <1>2, <1>3

(* A refresh puts the one content that was read where a handle without a   *)
(* size, or of that very size, meant it.                                   *)
LEMMA ReadsMean ==
  ASSUME World, Table, MeantInv, NEW h \in Handles,
         StreamEnds(h) \/ ReadStale(h) \/ ReadRefresh(h)
  PROVE  MeantInv'
<1>1. CASE StreamEnds(h)
  <2>1. \A x \in open : file'[x].content = file[x].content
                       /\ file'[x].logical_size = file[x].logical_size
    BY <1>1 DEF StreamEnds, Table, OpenFile
  <2> QED  BY <1>1, <2>1, BuffersAlone
           DEF StreamEnds, MeantInv, Sources, SavesAreMeant, storeVars, history
<1>2. CASE ReadStale(h)
  <2>1. Sources'
    BY <1>2 DEF ReadStale, Fetch, MeantInv, Sources, storeVars, World
  <2> QED  BY <1>2, <2>1, BuffersAlone
           DEF ReadStale, Fetch, MeantInv, SavesAreMeant, storeVars, history
<1>3. CASE ReadRefresh(h)
  <2> USE <1>3 DEF ReadRefresh
  <2>1. Sources' /\ SavesAreMeant' /\ h \in open /\ open' = open
    <3>1. ASSUME NEW x \in Handles PROVE One(fetched'[x])
      BY DEF MeantInv, Sources, One, World
    <3> QED  BY <3>1 DEF MeantInv, Sources, SavesAreMeant, storeVars
  <2>2. CASE UNCHANGED <<file, meant>>
    BY <2>1, <2>2, BuffersAlone DEF MeantInv
  <2>3. CASE ~UNCHANGED <<file, meant>>
    <3>1. PICK s \in fetched[h] :
            /\ file' = [file EXCEPT ![h].state = "complete", ![h].content = s, ![h].stale = FALSE]
            /\ meant' = [meant EXCEPT ![h] =
                 {t \in fetched[h] : file[h].logical_size \in {None, Len(t)}}]
      BY <2>3
    <3> DEFINE g == [state |-> "complete", content |-> s, dirty |-> file[h].dirty,
                     stale |-> FALSE, logical_size |-> file[h].logical_size]
    <3>2. file[h] \in OpenFile /\ s \in Contents /\ fetched[h] \subseteq Contents
      BY <2>1, <3>1 DEF Table, World
    <3>3. file' = [file EXCEPT ![h] = g]
      <4>1. [file[h] EXCEPT !.state = "complete", !.content = s, !.stale = FALSE] = g
        BY <3>2, RefreshedRecord
      <4> HIDE DEF g
      <4>2. file' = [file EXCEPT ![h] =
                      [file[h] EXCEPT !.state = "complete", !.content = s, !.stale = FALSE]]
        BY <3>1 DEF Table
      <4> QED  BY <4>1, <4>2
    <3>4. g.content = s /\ g.logical_size = file[h].logical_size
      OBVIOUS
    <3> HIDE DEF g
    <3>5. /\ meant' \in [Handles -> SUBSET Contents]
          /\ \A x \in Handles \ {h} : meant'[x] \subseteq meant[x]
          /\ meant'[h] = {t \in fetched[h] : file[h].logical_size \in {None, Len(t)}}
      BY <3>1, <3>2 DEF MeantInv
    <3>6. Faithful(g, meant'[h])
      <4> SUFFICES ASSUME NEW t \in meant'[h] PROVE t = Saved(g) /\ Rounded(g)
        BY DEF Faithful
      <4>1. t = s /\ file[h].logical_size \in {None, Len(s)}
        <5>1. t \in fetched[h] /\ file[h].logical_size \in {None, Len(t)} /\ One(fetched[h])
          BY <2>1, <3>5 DEF MeantInv, Sources, Table
        <5>2. t = s
          BY <3>1, <5>1 DEF One
        <5> QED  BY <5>1, <5>2
      <4>2. CASE file[h].logical_size = None
        BY <3>4, <4>1, <4>2 DEF Saved, Rounded
      <4>3. CASE file[h].logical_size = Len(s)
        BY <3>2, <3>4, <4>1, <4>3, OfThatSize
      <4> QED  BY <4>1, <4>2, <4>3
    <3>7. \A x \in open' : Faithful(file'[x], meant'[x])
      BY <2>1, <3>3, <3>5, <3>6, OneHandleFaithful
    <3> QED  BY <2>1, <3>5, <3>7 DEF MeantInv
  <2> QED  BY <2>2, <2>3
<1> QED  BY <1>1, <1>2, <1>3

LEMMA WritesMean ==
  ASSUME World, Table, MeantInv, NEW h \in open, NEW i \in 1..MaxLen, WriteAt(h, i),
         NEW m \in SUBSET Contents, meant' = [meant EXCEPT ![h] = m],
         \A s \in m : \E t \in meant[h] : s = Put(t, i, edits + 1)
  PROVE  MeantInv'
<1> USE OpenFilesConstants DEF WriteAt, Edit
<1> DEFINE v == edits + 1
           g == WrittenTo(file[h], i, v)
<1>1. v \in Cells
  BY DEF World, Cells
<1>2. file[h] \in OpenFile /\ h \in Handles
  BY DEF Table
<1>3. /\ g \in OpenFile
      /\ g.content = Put(file[h].content, i, v)
      /\ g.logical_size =
           IF file[h].logical_size = None THEN None ELSE Longer(file[h].logical_size, i)
  BY <1>1, <1>2, WrittenIsFile
<1>4. file' = [file EXCEPT ![h] = g]
  BY <1>2 DEF Table
<1> HIDE DEF g
<1>5. /\ meant' \in [Handles -> SUBSET Contents] /\ meant'[h] = m
      /\ \A x \in Handles \ {h} : meant'[x] \subseteq meant[x]
  BY <1>2 DEF MeantInv
<1>6. Faithful(g, m)
  <2> SUFFICES ASSUME NEW s \in m PROVE s = Saved(g) /\ Rounded(g)
    BY DEF Faithful
  <2>1. PICK t \in meant[h] : s = Put(t, i, v)
    OBVIOUS
  <2>2. t = Saved(file[h]) /\ Rounded(file[h])
    BY <2>1 DEF MeantInv, Faithful
  <2> QED  BY <1>1, <1>2, <1>3, <2>1, <2>2, WrittenIsPut
<1>7. \A x \in open' : Faithful(file'[x], meant'[x])
  <2>1. open' \subseteq open
    OBVIOUS
  <2>2. Faithful(g, meant'[h])
    BY <1>5, <1>6
  <2>3. \A x \in Handles \ {h} : meant'[x] \subseteq meant[x]
    BY <1>5
  <2>4. Table /\ MeantInv /\ h \in open
    OBVIOUS
  <2> QED  BY ONLY <1>4, <2>1, <2>2, <2>3, <2>4, OneHandleFaithful
<1> QED  BY <1>5, <1>7 DEF MeantInv, Sources, SavesAreMeant, storeVars

(* An append finds the end of its own handle, or its meaning is given up.  *)
LEMMA WriteAndAppendMean ==
  ASSUME World, Table, MeantInv, NEW h \in Handles,
         AppendTo(h) \/ \E i \in 1..MaxLen : Write(h, i)
  PROVE  MeantInv'
<1>0. edits < MaxChanges => edits + 1 \in Cells
  BY OpenFilesConstants DEF World, Cells
<1>1. ASSUME NEW i \in 1..MaxLen, Write(h, i)
      PROVE  MeantInv'
  <2> DEFINE m == {Put(s, i, edits + 1) : s \in meant[h]}
  <2>1. h \in open /\ WriteAt(h, i) /\ meant' = [meant EXCEPT ![h] = m]
    BY <1>1 DEF Write, Idle
  <2>2. edits + 1 \in Cells
    BY <2>1, OpenFilesConstants DEF WriteAt, Edit, World, Cells
  <2>3. m \in SUBSET Contents
    BY <2>2, PutCells DEF MeantInv
  <2> QED  BY <2>1, <2>3, WritesMean
<1>2. CASE AppendTo(h)
  <2>1. PICK g \in open :
          /\ ContentSize(file[g]) < MaxLen
          /\ WriteAt(h, ContentSize(file[g]) + 1)
          /\ meant' = [meant EXCEPT ![h] =
               {Put(s, Len(s) + 1, edits + 1) : s \in IF g = h THEN @ ELSE {}}]
    BY <1>2 DEF AppendTo
  <2> DEFINE i == ContentSize(file[g]) + 1
             m == {Put(s, Len(s) + 1, edits + 1) : s \in IF g = h THEN meant[h] ELSE {}}
  <2>2. file[g] \in OpenFile /\ h \in open
    BY <1>2 DEF Table, AppendTo, Idle
  <2>3. i \in 1..MaxLen
    BY <2>1, <2>2, FieldsOfFile, ContentIsSequence, OpenFilesConstants DEF ContentSize
  <2>4. edits + 1 \in Cells
    BY <2>1, OpenFilesConstants DEF WriteAt, Edit, World, Cells
  <2>5. ASSUME NEW s \in m
        PROVE  s \in Contents /\ \E t \in meant[h] : s = Put(t, i, edits + 1)
    <3>1. PICK t \in meant[h] : s = Put(t, Len(t) + 1, edits + 1) /\ g = h
      OBVIOUS
    <3>2. t = Saved(file[h]) /\ Rounded(file[h]) /\ t \in Contents
      BY <2>2, <3>1 DEF MeantInv, Faithful, Table
    <3>3. Len(t) + 1 = i
      BY <2>2, <3>1, <3>2, RoundedSaves
    <3>4. Put(t, i, edits + 1) \in Contents
      BY <2>3, <2>4, <3>2, PutCells
    <3> QED  BY <3>1, <3>3, <3>4
  <2>6. meant' = [meant EXCEPT ![h] = m]
    BY <2>1
  <2>7. m \in SUBSET Contents
    BY <2>5
  <2>8. WriteAt(h, i)
    BY <2>1
  <2>9. World /\ Table /\ MeantInv
    OBVIOUS
  <2>10. \A s \in m : \E t \in meant[h] : s = Put(t, i, edits + 1)
    BY <2>5
  <2> HIDE DEF m, i
  <2> QED  BY ONLY <2>2, <2>3, <2>6, <2>7, <2>8, <2>9, <2>10, WritesMean
<1> QED  BY <1>1, <1>2

(* A truncation keeps the meaning of its handle when it found that handle, *)
(* and of every third one.                                                 *)
LEMMA TruncateMeans ==
  ASSUME World, Table, MeantInv, NEW h \in open, NEW n \in 0..MaxLen, TruncateFor(h, n),
         open' = open, UNCHANGED <<storeVars, fetched, intended>>
  PROVE  MeantInv'
<1>1. PICK k \in open :
        /\ file' = [file EXCEPT ![k] =
             [Complete(file[k]) EXCEPT !.content = Resize(@, n), !.dirty = TRUE, !.logical_size = n]]
        /\ meant' = [x \in Handles |->
             IF k = h /\ x = h THEN {Resize(s, n) : s \in meant[h]}
             ELSE IF x \in {k, h} THEN {} ELSE meant[x]]
  BY DEF TruncateFor
<1>2. file[k] \in OpenFile /\ k \in Handles /\ h \in Handles
  BY DEF Table
<1>3. PICK g \in OpenFile :
        /\ file' = [file EXCEPT ![k] = g]
        /\ g.content = Resize(file[k].content, n) /\ g.logical_size = n
        /\ g.dirty = TRUE /\ g.state = "complete"
  BY <1>1, TruncatedFile
<1>4. \A s \in Contents : Resize(s, n) \in Contents
  BY ResizeCells
<1>5. meant' \in [Handles -> SUBSET Contents]
  BY <1>1, <1>2, <1>4 DEF MeantInv
<1>6. \A x \in Handles \ {k} : meant'[x] \subseteq meant[x]
  BY <1>1
<1>7. Faithful(g, meant'[k])
  <2> SUFFICES ASSUME NEW s \in meant'[k] PROVE s = Saved(g) /\ Rounded(g)
    BY DEF Faithful
  <2>1. PICK t \in meant[k] : s = Resize(t, n)
    BY <1>1, <1>2
  <2>2. t = Saved(file[k]) /\ Rounded(file[k])
    BY <2>1 DEF MeantInv, Faithful
  <2> QED  BY <1>2, <1>3, <2>1, <2>2, TruncatedIsResized
<1>8. \A x \in open' : Faithful(file'[x], meant'[x])
  BY <1>3, <1>6, <1>7, OneHandleFaithful
<1> QED  BY <1>5, <1>8 DEF MeantInv, Sources, SavesAreMeant, storeVars

LEMMA ResizesMean ==
  ASSUME World, Table, MeantInv, NEW h \in Handles,
         Overwrite(h) \/ \E n \in 0..MaxLen : Truncate(h, n) \/ Allocate(h, n)
  PROVE  MeantInv'
<1>1. CASE Overwrite(h)
  BY <1>1, TruncateMeans, OpenFilesConstants DEF Overwrite, Idle
<1>2. ASSUME NEW n \in 0..MaxLen, Truncate(h, n)
      PROVE  MeantInv'
  BY <1>2, TruncateMeans DEF Truncate, Idle
<1>3. ASSUME NEW n \in 0..MaxLen, Allocate(h, n)
      PROVE  MeantInv'
  <2>1. PICK k \in open :
          /\ file' = [file EXCEPT ![k] =
               [Complete(file[k]) EXCEPT !.content = Resize(@, Longer(Len(@), n))]]
          /\ meant' = [meant EXCEPT ![k] =
               IF file[k].logical_size = None /\ Len(file[k].content) < n THEN {} ELSE @]
    BY <1>3 DEF Allocate
  <2>2. PICK g \in OpenFile :
          /\ file' = [file EXCEPT ![k] = g]
          /\ g.content = Resize(file[k].content, Longer(Len(file[k].content), n))
          /\ g.logical_size = file[k].logical_size
          /\ g.dirty = file[k].dirty /\ g.state = "complete"
    BY <2>1, AllocatedFile
  <2>3. file[k] \in OpenFile /\ k \in Handles
    BY DEF Table
  <2>4. /\ meant' \in [Handles -> SUBSET Contents]
        /\ \A x \in Handles \ {k} : meant'[x] \subseteq meant[x]
        /\ meant'[k] = IF file[k].logical_size = None /\ Len(file[k].content) < n
                        THEN {} ELSE meant[k]
    BY <2>1, <2>3 DEF MeantInv
  <2>5. Faithful(g, meant'[k])
    <3> SUFFICES ASSUME NEW s \in meant'[k] PROVE s = Saved(g) /\ Rounded(g)
      BY DEF Faithful
    <3>1. s \in meant[k] /\ ~(file[k].logical_size = None /\ Len(file[k].content) < n)
      BY <2>4
    <3>2. s = Saved(file[k]) /\ Rounded(file[k])
      BY <3>1 DEF MeantInv, Faithful
    <3> QED  BY <2>2, <2>3, <3>1, <3>2, AllocatedIsSame
  <2>6. \A x \in open' : Faithful(file'[x], meant'[x])
    BY <1>3, <2>2, <2>4, <2>5, OneHandleFaithful DEF Allocate
  <2> QED  BY <1>3, <2>4, <2>6 DEF Allocate, MeantInv, Sources, SavesAreMeant, storeVars
<1> QED  BY <1>1, <1>2, <1>3

(* A save that means something saves just that.                            *)
LEMMA SaveMeans ==
  ASSUME Table, MeantInv, NEW h \in open
  PROVE  Meant(h) = {Saved(file[h])}
BY DEF MeantInv, Faithful, Meant

LEMMA FlushesMean ==
  ASSUME World, Table, MeantInv, NEW h \in Handles,
         FlushSave(h) \/ FlushDone(h) \/ FlushFails(h) \/ CleanupAtOnce(h)
  PROVE  MeantInv'
<1>1. \A x \in open : /\ file'[x].content = file[x].content
                      /\ file'[x].logical_size = file[x].logical_size
  <2>1. CASE FlushDone(h)
    BY <2>1 DEF FlushDone, Waiting, Table, OpenFile
  <2>2. CASE ~FlushDone(h)
    BY <2>2 DEF FlushSave, FlushFails, CleanupAtOnce, history
  <2> QED  BY <2>1, <2>2
<1>2. meant' \in [Handles -> SUBSET Contents] /\ \A x \in open' : Faithful(file'[x], meant'[x])
  BY <1>1, BuffersAlone DEF FlushSave, FlushDone, FlushFails, CleanupAtOnce, history
<1>3. CASE FlushSave(h)
  <2>1. writeback' = {Saved(file[h])} /\ intended' = writeback'
    BY <1>3, SaveMeans DEF FlushSave, Idle
  <2> QED  BY <1>2, <1>3, <2>1 DEF FlushSave, MeantInv, Sources, One, SavesAreMeant
<1>4. CASE ~FlushSave(h)
  BY <1>2, <1>4
     DEF FlushDone, FlushFails, CleanupAtOnce, MeantInv, Sources, SavesAreMeant, storeVars, history
<1> QED  BY <1>3, <1>4

LEMMA CloseMeans ==
  ASSUME World, Table, MeantInv, NEW h \in Handles, Close(h)
  PROVE  MeantInv'
<1> USE DEF Close
<1>1. h \in open /\ meant' \in [Handles -> SUBSET Contents]
  BY DEF MeantInv
<1>2. ASSUME NEW x \in open' PROVE Faithful(file'[x], meant'[x])
  BY DEF Table, MeantInv
<1>3. SavesAreMeant' /\ One(writeback')
  BY <1>1, SaveMeans DEF MeantInv, Sources, SavesAreMeant, One
<1> QED  BY <1>1, <1>2, <1>3 DEF MeantInv, Sources

LEMMA OutsideMeans ==
  ASSUME World, Table, MeantInv,
         UploadStarts \/ UploadEnds \/ UploadFails \/ RemoteEdit \/ MarkStale
  PROVE  MeantInv'
<1>1. UNCHANGED <<open, meant, fetched>>
  BY DEF UploadStarts, UploadEnds, UploadFails, RemoteEdit, MarkStale, history
<1>2. \A x \in open : /\ file'[x].content = file[x].content
                      /\ file'[x].logical_size = file[x].logical_size
  BY DEF UploadStarts, UploadEnds, UploadFails, RemoteEdit, MarkStale, Table, OpenFile
<1>3. Sources' /\ SavesAreMeant'
  BY <1>1 DEF UploadStarts, UploadEnds, UploadFails, RemoteEdit, MarkStale, history,
              MeantInv, Sources, One, SavesAreMeant
<1> QED  BY <1>1, <1>2, <1>3, BuffersAlone DEF MeantInv

LEMMA InitMeans == Init => MeantInv
<1> SUFFICES ASSUME Init PROVE MeantInv
  OBVIOUS
<1>1. One(server)
  BY DEF Init, One
<1> QED  BY <1>1 DEF Init, MeantInv, Sources, One, SavesAreMeant

LEMMA NextMeans == IInv /\ MeantInv /\ [Next]_vars => MeantInv'
<1> SUFFICES ASSUME World, Table, MeantInv, [Next]_vars PROVE MeantInv'
  BY InTwoParts
<1>1. CASE UNCHANGED vars
  BY <1>1, BuffersAlone
     DEF vars, storeVars, history, MeantInv, Sources, SavesAreMeant
<1>2. ASSUME NEW h \in Handles, HandleStep(h)
      PROVE  MeantInv'
  <2>1. CASE Create(h) \/ OpenLocal(h) \/ OpenRemote(h)
    BY <2>1, OpenMeans
  <2>2. CASE StreamEnds(h) \/ ReadStale(h) \/ ReadRefresh(h)
    BY <2>2, ReadsMean
  <2>3. CASE AppendTo(h) \/ \E i \in 1..MaxLen : Write(h, i)
    BY <2>3, WriteAndAppendMean
  <2>4. CASE Overwrite(h) \/ \E n \in 0..MaxLen : Truncate(h, n) \/ Allocate(h, n)
    BY <2>4, ResizesMean
  <2>5. CASE FlushSave(h) \/ FlushDone(h) \/ FlushFails(h) \/ CleanupAtOnce(h)
    BY <2>5, FlushesMean
  <2>6. CASE Close(h)
    BY <2>6, CloseMeans
  <2> QED  BY <1>2, <2>1, <2>2, <2>3, <2>4, <2>5, <2>6 DEF HandleStep
<1> QED  BY <1>1, <1>2, OutsideMeans DEF Next

LEMMA MeantInvariant == Spec => []MeantInv
BY InitMeans, NextMeans, HandlesInvariant, PTL DEF Spec

(* What a handle would save is what its own operations make of the content *)
(* it opened or was last refreshed to, as long as meant[h] says that none  *)
(* of the three known disturbances (README, section 4) came in between.    *)
THEOREM BufferAlwaysTheFile == Spec => []BufferIsTheFile
<1>1. MeantInv => BufferIsTheFile
  BY DEF MeantInv, Faithful, BufferIsTheFile
<1> QED  BY <1>1, MeantInvariant, PTL

(* What waits for upload is what its handle meant when it saved last: a    *)
(* save by flush or close takes the buffer up to logical_size, neither     *)
(* what a truncation cut off nor less than what was written.               *)
THEOREM SavesAlwaysMeant == Spec => []SavesAreMeant
BY MeantInvariant, PTL DEF MeantInv
==============================================================================
