--------------------------- MODULE DirectoriesProofs ---------------------------
(***************************************************************************)
(* Proofs about Directories for any number of items, local files, folders, *)
(* names, threads, changes by others and callbacks: that SQLite and the    *)
(* listings converge with the server, and that what was deleted here stays *)
(* deleted.                                                                *)
(*                                                                         *)
(* All three rest on one idea.  Delta sync is behind on the items that are *)
(* Due; whatever a cache or an answer under way says of an item that is    *)
(* not due is what the server says, or delta sync has found it out of date *)
(* (overtaken), which is remembered until the answer is stored.            *)
(***************************************************************************)
EXTENDS Directories, TLAPS

Spots == Places \cup {Nowhere}
Answers == [Items -> Spots]
Maps == [Names -> Ids \cup {None}]
Stages == {"idle", "look", "rows", "ask", "store", "remove", "forget", "tombstone", "move",
           "upsert", "remap", "create", "mkdir", "enter"}
Records ==
  [job : Jobs \cup {"none"}, at : Stages, from : Spots, to : Spots, look : Spots,
   item : Ids \cup {None}, other : Ids \cup {None}, answer : Answers,
   map : [Names -> Items \cup {None}], overtaken : SUBSET Items]
Responses ==
  [seen : Answers, todo : SUBSET Items, item : Items \cup {None},
   inserts : SUBSET Items, drops : SUBSET Items]
UploadRecords == [file : Locals \cup {None}, item : Items \cup {None}, overtaken : SUBSET Items]

ServerTypes == server \in Answers /\ ghost \in Answers /\ used \subseteq Ids /\ unseen \subseteq Items
CacheTypes ==
  /\ row \in [Ids -> Spots] /\ tombs \subseteq Ids
  /\ cached \subseteq Ids /\ called \in [Locals -> Spots] /\ kids \in [Folders -> Maps \cup {NoMap}]
HistoryTypes == gone \subseteq Items /\ astray \subseteq Ids /\ behind \subseteq Folders
Types ==
  /\ ServerTypes /\ CacheTypes /\ HistoryTypes
  /\ delta \in Responses /\ thread \in [Threads -> Records] /\ upload \in UploadRecords

------------------------------------------------------------------------------
(* Types.                                                                  *)

LEMMA SpotsType ==
  /\ Nowhere \in Spots /\ NoAnswer \in Answers /\ Places \subseteq Spots
  /\ Nowhere.in = None /\ Nowhere.name = None
BY DEF Spots, NoAnswer, Answers, Nowhere

LEMMA PlaceFields ==
  ASSUME DirectoriesConstants, NEW p \in Spots
  PROVE  /\ p \in Places <=> p # Nowhere
         /\ p \in Places => p.in \in Folders /\ p.name \in Names
         /\ p.in \in Folders => p \in Places
BY DEF Spots, Places, Nowhere, DirectoriesConstants

LEMMA EmptyTypes ==
  /\ EmptyMap \in Maps /\ EmptyMap \in [Names -> Items \cup {None}]
  /\ Idle \in Records /\ NoDelta \in Responses /\ NoUpload \in UploadRecords
BY SpotsType DEF EmptyMap, Maps, Idle, Records, Stages, NoDelta, Responses, NoUpload,
  UploadRecords

LEMMA Fields ==
  ASSUME NEW me \in Records
  PROVE  /\ me.job \in Jobs \cup {"none"} /\ me.at \in Stages
         /\ me.from \in Spots /\ me.to \in Spots /\ me.look \in Spots
         /\ me.item \in Ids \cup {None} /\ me.other \in Ids \cup {None}
         /\ me.answer \in Answers /\ me.map \in [Names -> Items \cup {None}]
         /\ me.overtaken \in SUBSET Items
BY DEF Records

(* One thread goes on.                                                     *)
LEMMA DoOne ==
  ASSUME thread \in [Threads -> Records], NEW t \in Threads, NEW to \in Records, Do(t, to)
  PROVE  /\ thread' \in [Threads -> Records] /\ thread'[t] = to
         /\ \A o \in Threads \ {t} : thread'[o] = thread[o]
BY DEF Do

(* What a thread in a place of the control may have in hand.               *)
Controlled(me) ==
  /\ me.at = "idle" => me = Idle
  /\ me.at # "idle" => /\ me.job \in Jobs /\ me.from \in Places /\ me.look \in Places
                       /\ me.from # me.to /\ (me.job = "rename" => me.to \in Places)
  /\ me.at # "store" => me.answer = NoAnswer /\ me.map = EmptyMap
  /\ me.at \notin UnderWay => me.overtaken = {}
  /\ me.at \in {"remove", "forget", "tombstone"} => me.job \in {"delete", "rename"} /\ me.other \in Ids
                                                /\ (me.job = "rename" => me.item \in Ids)
  /\ me.at \in {"move", "upsert", "remap"} => me.job = "rename" /\ me.item \in Ids
  /\ me.at \in {"create", "mkdir"} => me.job = me.at
  /\ me.at = "enter" => me.job \in {"create", "mkdir"} /\ me.item \in Ids

(* A change of names runs alone.                                           *)
Alone ==
  \A t \in Threads : thread[t].job \in Changing =>
    \A o \in Threads \ {t} : thread[o].at = "idle"
Control == (\A t \in Threads : Controlled(thread[t])) /\ Alone

(* A thread that has neither an answer nor a half-done change in hand.     *)
Calm(me) == Controlled(me) /\ me.at \notin UnderWay \cup {"forget", "tombstone"}
Goes(t, to) == Do(t, to) /\ Controlled(to) /\ to.job \in {thread[t].job, "none"}
GoesCalm(t) == \E to \in Records : Goes(t, to) /\ Calm(to)

LEMMA IdleCalm == Idle \in Records /\ Calm(Idle) /\ Idle.job = "none" /\ Idle.at = "idle"
BY EmptyTypes DEF Idle, Calm, Controlled, UnderWay

LEMMA EndsCalm ==
  ASSUME NEW t \in Threads, Ends(t)
  PROVE  GoesCalm(t)
BY IdleCalm DEF Ends, GoesCalm, Goes, Calm

LEMMA AtSteps ==
  ASSUME NEW me \in Records, Controlled(me), me.at # "idle", NEW a \in {"rows", "ask"},
         me.at \notin UnderWay
  PROVE  /\ [me EXCEPT !.at = a] \in Records /\ Calm([me EXCEPT !.at = a])
         /\ [me EXCEPT !.at = a].job = me.job
BY DEF Records, Stages, Calm, Controlled, UnderWay

LEMMA ThenCalm ==
  ASSUME DirectoriesConstants, NEW t \in Threads, thread[t] \in Records, Controlled(thread[t]),
         thread[t].at # "idle", NEW id \in Ids \cup {None}, Then(t, id)
  PROVE  GoesCalm(t)
<1> DEFINE old == thread[t]
           me == [old EXCEPT !.answer = NoAnswer, !.map = EmptyMap, !.overtaken = {}]
<1>1. /\ me \in Records /\ me.answer = NoAnswer /\ me.map = EmptyMap /\ me.overtaken = {}
      /\ me.job = old.job /\ me.from = old.from /\ me.to = old.to /\ me.look = old.look
      /\ me.item = old.item /\ me.other = old.other
  BY EmptyTypes, SpotsType DEF Records
<1>2. /\ me.job \in Jobs /\ me.from \in Places /\ me.look \in Places
      /\ me.from # me.to /\ (me.job = "rename" => me.to \in Places)
  BY <1>1 DEF Controlled
<1>3. Do(t, CASE me.job \in {"find", "list"} -> Idle
              [] me.job \in {"create", "mkdir"} ->
                   IF id = None THEN [me EXCEPT !.at = me.job] ELSE Idle
              [] me.job = "delete" ->
                   IF id = None THEN Idle
                   ELSE [me EXCEPT !.at = "remove", !.other = id]
              [] me.job = "rename" /\ me.item = None ->
                   IF id = None THEN Idle
                   ELSE [me EXCEPT !.item = id, !.look = me.to, !.at = "look"]
              [] OTHER ->
                   IF id \in {None, me.item} THEN [me EXCEPT !.at = "move"]
                   ELSE [me EXCEPT !.other = id, !.at = "remove"])
  BY DEF Then
<1> HIDE DEF me
<1> DEFINE Fine(to) == to \in Records /\ Calm(to) /\ to.job \in {old.job, "none"}
<1>4. Fine(Idle)
  BY IdleCalm
<1>5. CASE me.job \in {"find", "list"}
  BY <1>3, <1>4, <1>5 DEF GoesCalm, Goes, Calm
<1>6. CASE me.job \in {"create", "mkdir"}
  <2> DEFINE to == [me EXCEPT !.at = me.job]
  <2>1. Fine(to)
    BY <1>1, <1>2, <1>6 DEF Records, Stages, Calm, Controlled, UnderWay
  <2> HIDE DEF to
  <2>2. Do(t, to) \/ Do(t, Idle)
    BY <1>3, <1>6 DEF to
  <2> QED BY <1>4, <2>1, <2>2 DEF GoesCalm, Goes, Calm
<1>7. CASE me.job = "delete"
  <2> DEFINE to == [me EXCEPT !.at = "remove", !.other = id]
  <2>1. id # None => Fine(to)
    BY <1>1, <1>2, <1>7 DEF Records, Stages, Calm, Controlled, UnderWay
  <2> HIDE DEF to
  <2>2. (id # None /\ Do(t, to)) \/ Do(t, Idle)
    BY <1>3, <1>7 DEF to
  <2> QED BY <1>4, <2>1, <2>2 DEF GoesCalm, Goes, Calm
<1>8. CASE me.job = "rename" /\ me.item = None
  <2> DEFINE to == [me EXCEPT !.item = id, !.look = me.to, !.at = "look"]
  <2>1. to \in Records /\ to.at = "look" /\ to.look = me.to /\ to.item = id
        /\ to.job = me.job /\ to.from = me.from /\ to.to = me.to /\ to.answer = NoAnswer
        /\ to.map = EmptyMap /\ to.overtaken = {}
    <3>1. me.to \in Spots /\ me.job \in Jobs \cup {"none"} /\ me.from \in Spots
          /\ me.other \in Ids \cup {None}
      BY <1>1, Fields
    <3>2. "look" \in Stages
      BY DEF Stages
    <3> QED BY <1>1, <3>1, <3>2 DEF Records
  <2>2. me.to \in Places
    BY <1>2, <1>8
  <2> HIDE DEF to
  <2>3. Fine(to)
    BY <1>1, <1>2, <1>8, <2>1, <2>2 DEF Calm, Controlled, UnderWay
  <2>4. Do(t, to) \/ Do(t, Idle)
    BY <1>3, <1>8 DEF to
  <2> QED BY <1>4, <2>3, <2>4 DEF GoesCalm, Goes, Calm
<1>9. CASE me.job = "rename" /\ me.item # None
  <2> DEFINE move == [me EXCEPT !.at = "move"]
             remove == [me EXCEPT !.other = id, !.at = "remove"]
  <2>1. Fine(move)
    BY <1>1, <1>2, <1>9, Fields DEF Records, Stages, Calm, Controlled, UnderWay
  <2>2. id # None => Fine(remove)
    BY <1>1, <1>2, <1>9 DEF Records, Stages, Calm, Controlled, UnderWay
  <2> HIDE DEF move, remove
  <2>3. Do(t, move) \/ (id # None /\ Do(t, remove))
    BY <1>3, <1>9 DEF move, remove
  <2> QED BY <2>1, <2>2, <2>3 DEF GoesCalm, Goes, Calm
<1> QED BY <1>2, <1>5, <1>6, <1>7, <1>8, <1>9 DEF Jobs

------------------------------------------------------------------------------
(* What each step does to its thread.                                      *)

LEMMA ControlKept ==
  ASSUME Types, Control, NEW t \in Threads, thread[t].at # "idle", NEW to \in Records, Goes(t, to)
  PROVE  /\ thread' \in [Threads -> Records] /\ Control'
         /\ thread'[t] = to /\ \A o \in Threads \ {t} : thread'[o] = thread[o]
<1>1. thread' \in [Threads -> Records] /\ thread'[t] = to
      /\ \A o \in Threads \ {t} : thread'[o] = thread[o]
  BY DoOne DEF Types, Goes
<1>2. \A o \in Threads : Controlled(thread'[o])
  BY <1>1 DEF Goes, Control
<1>3. Alone'
  <2> SUFFICES ASSUME NEW u \in Threads, thread'[u].job \in Changing, NEW o \in Threads \ {u}
               PROVE  thread'[o].at = "idle"
    BY DEF Alone
  <2>1. CASE u = t
    <3>1. thread[t].job \in Changing
      BY <1>1, <2>1 DEF Goes, Changing
    <3> QED BY <1>1, <2>1, <3>1 DEF Control, Alone
  <2>2. CASE u # t
    BY <1>1, <2>2 DEF Control, Alone
  <2> QED BY <2>1, <2>2
<1> QED BY <1>1, <1>2, <1>3 DEF Control

(* A look at the caches reads rows into the memory.                        *)
Browses ==
  /\ \E S \in SUBSET Ids : (\A k \in S : row[k] # Nowhere) /\ Reads(S)
  /\ UNCHANGED <<remote, sqlite, called, kids, delta, upload, gone, astray>>

LEMMA KidsAreIds ==
  ASSUME DirectoriesConstants, CacheTypes, NEW f \in Folders
  PROVE  Kids(f) \subseteq Ids /\ (~Mapped(f) => Kids(f) = {})
         /\ (Mapped(f) => kids[f] \in Maps /\ \A i \in Ids : i \in Kids(f) <=> \E n \in Names : kids[f][n] = i)
BY DEF CacheTypes, Maps, NoMap, Kids, Mapped, Ids, DirectoriesConstants

LEMMA Looking ==
  ASSUME DirectoriesConstants, Types, Control, NEW t \in Threads, thread[t].at # "idle"
  PROVE  /\ thread[t] \in Records /\ Controlled(thread[t])
         /\ thread[t].look \in Places /\ thread[t].look.in \in Folders /\ thread[t].look.name \in Names
         /\ thread[t].job \in Jobs
<1>1. thread[t] \in Records /\ Controlled(thread[t])
  BY DEF Types, Control
<1>2. thread[t].look \in Places /\ thread[t].job \in Jobs
  BY <1>1 DEF Controlled
<1> QED BY <1>1, <1>2 DEF Places

LEMMA LookGoes ==
  ASSUME DirectoriesConstants, Types, Control, NEW t \in Threads, Look(t)
  PROVE  thread[t].at # "idle" /\ GoesCalm(t) /\ Browses
<1> DEFINE p == thread[t].look
           id == IF Mapped(p.in) THEN kids[p.in][p.name] ELSE None
           rows == [thread[t] EXCEPT !.at = "rows"]
<1>1. thread[t].at = "look"
  BY DEF Look, At
<1>2. thread[t] \in Records /\ Controlled(thread[t]) /\ p.in \in Folders /\ p.name \in Names
  BY <1>1, Looking
<1>3. id \in Ids \cup {None} /\ Kids(p.in) \subseteq Ids
  BY <1>2, KidsAreIds DEF Types, Maps
<1>5. Do(t, rows) => GoesCalm(t)
  BY <1>1, <1>2, AtSteps DEF Goes, UnderWay, Calm, GoesCalm
<1>6. Then(t, id) => GoesCalm(t)
  BY <1>1, <1>2, <1>3, ThenCalm
<1>7. Ends(t) => GoesCalm(t)
  BY EndsCalm
<1>8. GoesCalm(t)
  BY <1>5, <1>6, <1>7 DEF Look
<1>9. UNCHANGED <<remote, sqlite, called, kids, delta, upload, gone, astray>>
  BY DEF Look
<1>10. Reads({k \in Kids(p.in) : OnlyRow(k)}) \/ Reads({k \in {id} \ {None} : OnlyRow(k)})
  BY DEF Look
<1> HIDE DEF id, p
<1>11. \E S \in SUBSET Ids : (\A k \in S : row[k] # Nowhere) /\ Reads(S)
  <2>1. CASE Reads({k \in Kids(p.in) : OnlyRow(k)})
    <3> DEFINE S == {k \in Kids(p.in) : OnlyRow(k)}
    <3>1. S \in SUBSET Ids /\ (\A k \in S : row[k] # Nowhere) /\ Reads(S)
      BY <1>3, <2>1 DEF OnlyRow
    <3> QED BY <3>1
  <2>2. CASE Reads({k \in {id} \ {None} : OnlyRow(k)})
    <3> DEFINE S == {k \in {id} \ {None} : OnlyRow(k)}
    <3>1. S \in SUBSET Ids /\ (\A k \in S : row[k] # Nowhere) /\ Reads(S)
      BY <1>3, <2>2 DEF OnlyRow
    <3> QED BY <3>1
  <2> QED BY <1>10, <2>1, <2>2
<1> QED BY <1>1, <1>8, <1>9, <1>11 DEF Browses

LEMMA RowsGoes ==
  ASSUME DirectoriesConstants, Types, Control, NEW t \in Threads, Rows(t)
  PROVE  thread[t].at # "idle" /\ GoesCalm(t) /\ Browses
<1> DEFINE p == thread[t].look
           hits == IF thread[t].job = "list" THEN RowsOf(p.in) ELSE {id \in Ids : row[id] = p}
           ask == [thread[t] EXCEPT !.at = "ask"]
<1>1. thread[t].at = "rows"
  BY DEF Rows, At
<1>2. thread[t] \in Records /\ Controlled(thread[t]) /\ p \in Places /\ p.in \in Folders
  BY <1>1, Looking
<1>3. hits \in SUBSET Ids /\ \A k \in hits : row[k] # Nowhere
  <2>1. Nowhere.in \notin Folders /\ Nowhere \notin Places
    BY SpotsType DEF DirectoriesConstants, Places
  <2> QED BY <1>2, <2>1 DEF RowsOf
<1>4. Do(t, ask) => GoesCalm(t)
  BY <1>1, <1>2, AtSteps DEF Goes, UnderWay, Calm, GoesCalm
<1>5. \A id \in hits : Then(t, id) => GoesCalm(t)
  BY <1>1, <1>2, <1>3, ThenCalm
<1>6. UNCHANGED <<remote, sqlite, called, kids, delta, upload, gone, astray>>
  BY DEF Rows
<1>7. \/ Do(t, ask) /\ UNCHANGED <<cached, behind>>
      \/ \E id \in hits : Reads(IF thread[t].job = "list" THEN hits ELSE {id}) /\ Then(t, id)
  BY DEF Rows
<1> HIDE DEF hits, ask
<1>8. CASE Do(t, ask) /\ UNCHANGED <<cached, behind>>
  <2>1. Reads({})
    BY <1>8 DEF Reads, Showing
  <2> QED BY <1>1, <1>4, <1>6, <1>8, <2>1 DEF Browses
<1>9. CASE \E id \in hits : Reads(IF thread[t].job = "list" THEN hits ELSE {id}) /\ Then(t, id)
  <2>1. PICK id \in hits : Reads(IF thread[t].job = "list" THEN hits ELSE {id}) /\ Then(t, id)
    BY <1>9
  <2>2. Reads(hits) \/ Reads({id})
    BY <2>1
  <2>3. \E S \in SUBSET Ids : (\A k \in S : row[k] # Nowhere) /\ Reads(S)
    BY <1>3, <2>2
  <2> QED BY <1>1, <1>5, <1>6, <2>1, <2>3 DEF Browses
<1> QED BY <1>7, <1>8, <1>9

(* A thread goes on to another step with what it has.                      *)
Same(to, me) ==
  /\ to.job = me.job /\ to.from = me.from /\ to.to = me.to /\ to.look = me.look
  /\ to.item = me.item /\ to.other = me.other /\ to.overtaken = me.overtaken
LEMMA AtOnly ==
  ASSUME NEW me \in Records, NEW a \in Stages
  PROVE  /\ [me EXCEPT !.at = a] \in Records /\ Same([me EXCEPT !.at = a], me)
         /\ [me EXCEPT !.at = a].at = a /\ [me EXCEPT !.at = a].answer = me.answer
         /\ [me EXCEPT !.at = a].map = me.map
BY DEF Records, Same

LEMMA ListingType ==
  ASSUME DirectoriesConstants, ServerTypes, NEW f \in Folders
  PROVE  /\ Listing(f) \in Answers
         /\ \A i \in Items : /\ server[i].in = f => Listing(f)[i] = server[i]
                             /\ server[i].in # f /\ ghost[i].in = f => Listing(f)[i] = ghost[i]
                             /\ server[i].in # f /\ ghost[i].in # f => Listing(f)[i] = Nowhere
BY SpotsType DEF ServerTypes, Answers, Listing

LEMMA AskGoes ==
  ASSUME DirectoriesConstants, Types, Control, NEW t \in Threads, Ask(t)
  PROVE  /\ thread[t].at = "ask" /\ UNCHANGED <<remote, sqlite, memory, delta, upload, history>>
         /\ \/ GoesCalm(t)
            \/ \E to \in Records :
                 /\ Goes(t, to) /\ to.at = "store" /\ to.look = thread[t].look
                 /\ to.answer = Listing(thread[t].look.in) /\ to.map = EmptyMap /\ to.overtaken = {}
<1> DEFINE f == thread[t].look.in
           to == [thread[t] EXCEPT !.at = "store", !.answer = Listing(f)]
<1>1. thread[t].at = "ask" /\ UNCHANGED <<remote, sqlite, memory, delta, upload, history>>
  BY DEF Ask, At
<1>2. thread[t] \in Records /\ Controlled(thread[t]) /\ f \in Folders
  BY <1>1, Looking
<1>3. Then(t, None) => GoesCalm(t)
  BY <1>1, <1>2, ThenCalm
<1>4. Listing(f) \in Answers
  BY <1>2, ListingType DEF Types
<1> HIDE DEF f
<1>5. thread[t].map = EmptyMap /\ thread[t].overtaken = {}
  BY <1>1, <1>2 DEF Controlled, UnderWay
<1>6. to \in Records /\ Same(to, thread[t]) /\ to.at = "store" /\ to.answer = Listing(f)
      /\ to.map = thread[t].map
  BY <1>2, <1>4 DEF Records, Stages, Same
<1>7. Do(t, to) \/ Then(t, None)
  BY DEF Ask, f
<1> HIDE DEF to
<1>8. Controlled(to)
  BY <1>1, <1>2, <1>5, <1>6 DEF Controlled, Same, UnderWay
<1>9. Do(t, to) => Goes(t, to) /\ to.look = thread[t].look /\ to.overtaken = {}
  BY <1>5, <1>6, <1>8 DEF Goes, Same
<1> QED BY <1>1, <1>3, <1>5, <1>6, <1>7, <1>9 DEF f

LEMMA Working ==
  ASSUME Types, Control, NEW t \in Threads
  PROVE  thread[t] \in Records /\ Controlled(thread[t])
BY DEF Types, Control

LEMMA StoreItemGoes ==
  ASSUME DirectoriesConstants, Types, Control, NEW t \in Threads, NEW i \in Items, StoreItem(t, i)
  PROVE  /\ thread[t].at = "store" /\ thread[t].answer[i] \in Places
         /\ \E to \in Records :
              /\ Goes(t, to) /\ to.at = "store" /\ Same(to, thread[t])
              /\ to.answer = [thread[t].answer EXCEPT ![i] = Nowhere]
              /\ to.map = IF i \in tombs THEN thread[t].map
                          ELSE [thread[t].map EXCEPT ![thread[t].answer[i].name] = i]
<1> DEFINE me == thread[t]
           place == me.answer[i]
           rest == [me EXCEPT !.answer[i] = Nowhere]
           full == [rest EXCEPT !.map[place.name] = i]
<1>1. me.at = "store" /\ place # Nowhere
  BY DEF StoreItem, At
<1>2. me \in Records /\ Controlled(me)
  BY Working
<1>3. place \in Places /\ place.name \in Names
  BY <1>1, <1>2, PlaceFields DEF Records, Answers
<1>4. rest \in Records /\ Same(rest, me) /\ rest.at = "store" /\ rest.map = me.map
      /\ rest.answer = [me.answer EXCEPT ![i] = Nowhere]
  <2>1. [me.answer EXCEPT ![i] = Nowhere] \in Answers
    BY <1>2, SpotsType, Fields DEF Answers
  <2> QED BY <1>1, <1>2, <2>1 DEF Records, Same
<1> HIDE DEF rest
<1>5. full \in Records /\ Same(full, rest) /\ full.at = "store" /\ full.answer = rest.answer
      /\ full.map = [rest.map EXCEPT ![place.name] = i]
  <2>1. [rest.map EXCEPT ![place.name] = i] \in [Names -> Items \cup {None}]
    BY <1>3, <1>4, Fields
  <2> QED BY <1>4, <2>1 DEF Records, Same
<1>6. IF i \in tombs THEN Do(t, rest) ELSE Do(t, full)
  BY DEF StoreItem, rest
<1> HIDE DEF full
<1>7. Controlled(rest) /\ Controlled(full)
  BY <1>1, <1>2, <1>4, <1>5 DEF Controlled, Same, UnderWay
<1>8. Same(full, me)
  BY <1>4, <1>5 DEF Same
<1>9. CASE i \in tombs
  BY <1>1, <1>3, <1>4, <1>6, <1>7, <1>9 DEF Goes, Same
<1>10. CASE i \notin tombs
  <2>1. Do(t, full)
    BY <1>6, <1>10
  <2>2. full.map = [me.map EXCEPT ![me.answer[i].name] = i]
    BY <1>4, <1>5
  <2>3. full.answer = [me.answer EXCEPT ![i] = Nowhere]
    BY <1>4, <1>5
  <2> QED BY <1>1, <1>3, <1>5, <1>7, <1>8, <1>10, <2>1, <2>2, <2>3 DEF Goes, Same
<1> QED BY <1>9, <1>10

LEMMA StoreMapGoes ==
  ASSUME DirectoriesConstants, Types, Control, NEW t \in Threads, StoreMap(t)
  PROVE  /\ thread[t].at = "store" /\ thread[t].look.in \in Folders /\ GoesCalm(t)
         /\ thread[t].map \in Maps
<1>1. thread[t].at = "store"
  BY DEF StoreMap, At
<1>2. thread[t] \in Records /\ Controlled(thread[t]) /\ thread[t].look.in \in Folders
      /\ thread[t].look.name \in Names
  BY <1>1, Looking
<1>3. thread[t].map \in Maps /\ thread[t].map[thread[t].look.name] \in Ids \cup {None}
  BY <1>2, Fields DEF Maps, Ids
<1>4. Then(t, thread[t].map[thread[t].look.name])
  BY DEF StoreMap
<1> QED BY <1>1, <1>2, <1>3, <1>4, ThenCalm

(* A thread goes on to the next step of a change of names.                 *)
GoesOn(t, at) ==
  \E to \in Records : /\ Goes(t, to) /\ to.at = at /\ Same(to, thread[t])
                      /\ to.answer = NoAnswer /\ to.map = EmptyMap
LEMMA OneOn ==
  ASSUME Types, Control, NEW t \in Threads,
         NEW pair \in {<<"remove", "forget">>, <<"forget", "tombstone">>, <<"move", "upsert">>,
                       <<"upsert", "remap">>},
         thread[t].at = pair[1], Do(t, [thread[t] EXCEPT !.at = pair[2]])
  PROVE  GoesOn(t, pair[2])
<1> DEFINE to == [thread[t] EXCEPT !.at = pair[2]]
<1>1. thread[t] \in Records /\ Controlled(thread[t])
  BY Working
<1>2. pair[2] \in Stages
  BY DEF Stages
<1>3. to \in Records /\ Same(to, thread[t]) /\ to.at = pair[2] /\ to.answer = thread[t].answer
      /\ to.map = thread[t].map
  BY <1>1, <1>2, AtOnly
<1> HIDE DEF to
<1>4. to.answer = NoAnswer /\ to.map = EmptyMap
  BY <1>1, <1>3 DEF Controlled
<1>5. Controlled(to)
  BY <1>1, <1>3, <1>4 DEF Controlled, Same, UnderWay
<1> QED BY <1>3, <1>4, <1>5 DEF GoesOn, Goes, Same, to

LEMMA RemoveGoes ==
  ASSUME Types, Control, NEW t \in Threads, Remove(t)
  PROVE  /\ thread[t].at = "remove" /\ thread[t].job \in Changing /\ thread[t].other \in Ids
         /\ UNCHANGED <<sqlite, memory, delta, astray, behind>>
         /\ \/ /\ thread[t].other \in Items /\ server[thread[t].other] # Nowhere
               /\ DeletedRemotely(thread[t].other) /\ OvertakeUpload(thread[t].other)
               /\ GoesOn(t, "forget")
            \/ GoesOn(t, "forget") /\ UNCHANGED <<remote, upload, gone>>
            \/ GoesCalm(t) /\ UNCHANGED <<remote, upload, gone>>
<1>1. thread[t].at = "remove"
  BY DEF Remove, At
<1>2. thread[t].job \in Changing /\ thread[t].other \in Ids
  BY <1>1, Working DEF Controlled, Changing
<1>3. Do(t, [thread[t] EXCEPT !.at = "forget"]) => GoesOn(t, "forget")
  <2>1. <<"remove", "forget">>[1] = "remove" /\ <<"remove", "forget">>[2] = "forget"
    OBVIOUS
  <2> QED BY <1>1, <2>1, OneOn
<1>4. Ends(t) => GoesCalm(t)
  BY EndsCalm
<1> QED BY <1>1, <1>2, <1>3, <1>4 DEF Remove

LEMMA ForgetGoes ==
  ASSUME Types, Control, NEW t \in Threads, Forget(t)
  PROVE  /\ thread[t].at = "forget" /\ thread[t].job \in Changing /\ thread[t].other \in Ids
         /\ thread[t].look \in Places /\ GoesOn(t, "tombstone")
<1>1. thread[t].at = "forget" /\ Do(t, [thread[t] EXCEPT !.at = "tombstone"])
  BY DEF Forget, At
<1>2. <<"forget", "tombstone">>[1] = "forget" /\ <<"forget", "tombstone">>[2] = "tombstone"
  OBVIOUS
<1>3. GoesOn(t, "tombstone")
  BY <1>1, <1>2, OneOn
<1> QED BY <1>1, <1>3, Working DEF Controlled, Changing

LEMMA TombstoneGoes ==
  ASSUME Types, Control, NEW t \in Threads, DeleteWithTombstone(t) \/ TombstoneFails(t)
  PROVE  /\ thread[t].at = "tombstone" /\ thread[t].job \in Changing /\ thread[t].other \in Ids
         /\ GoesCalm(t)
<1>1. thread[t].at = "tombstone" /\ Removed(t)
  BY DEF DeleteWithTombstone, TombstoneFails, At
<1>2. thread[t] \in Records /\ Controlled(thread[t])
  BY Working
<1>3. Ends(t) => GoesCalm(t)
  BY EndsCalm
<1>4. ASSUME thread[t].job = "rename", Do(t, [thread[t] EXCEPT !.at = "move", !.other = None])
      PROVE  GoesCalm(t)
  <2> DEFINE to == [thread[t] EXCEPT !.at = "move", !.other = None]
  <2>1. to \in Records /\ to.at = "move" /\ to.job = thread[t].job /\ to.from = thread[t].from
        /\ to.to = thread[t].to /\ to.look = thread[t].look /\ to.item = thread[t].item
        /\ to.answer = thread[t].answer /\ to.map = thread[t].map /\ to.overtaken = thread[t].overtaken
    BY <1>2 DEF Records, Stages
  <2> HIDE DEF to
  <2>2. Calm(to)
    BY <1>1, <1>2, <1>4, <2>1 DEF Calm, Controlled, UnderWay
  <2> QED BY <1>4, <2>1, <2>2 DEF GoesCalm, Goes, Calm, to
<1>5. GoesCalm(t)
  BY <1>1, <1>3, <1>4 DEF Removed
<1> QED BY <1>1, <1>2, <1>5 DEF Controlled, Changing

LEMMA MoveGoes ==
  ASSUME DirectoriesConstants, Types, Control, NEW t \in Threads, Move(t)
  PROVE  /\ thread[t].at = "move" /\ thread[t].job \in Changing /\ thread[t].item \in Ids
         /\ thread[t].to \in Places /\ UNCHANGED <<sqlite, memory, delta, upload, history>>
         /\ \/ thread[t].item \in Locals /\ GoesOn(t, "upsert") /\ UNCHANGED remote
            \/ /\ thread[t].item \in Items /\ GoesOn(t, "upsert")
               /\ server[thread[t].item] # Nowhere /\ Free(thread[t].to)
               /\ server' = [server EXCEPT ![thread[t].item] = thread[t].to]
               /\ unseen' = unseen \cup {thread[t].item} /\ UNCHANGED <<used, ghost, changes>>
            \/ GoesCalm(t) /\ UNCHANGED remote
<1>1. thread[t].at = "move"
  BY DEF Move, At
<1>2. thread[t].job \in Changing /\ thread[t].item \in Ids /\ thread[t].to \in Places
  BY <1>1, Working DEF Controlled, Changing
<1>3. Do(t, [thread[t] EXCEPT !.at = "upsert"]) => GoesOn(t, "upsert")
  <2>1. <<"move", "upsert">>[1] = "move" /\ <<"move", "upsert">>[2] = "upsert"
    OBVIOUS
  <2> QED BY <1>1, <2>1, OneOn
<1>4. Ends(t) => GoesCalm(t)
  BY EndsCalm
<1> QED BY <1>1, <1>2, <1>3, <1>4 DEF Move

LEMMA UpsertMovedGoes ==
  ASSUME Types, Control, NEW t \in Threads, UpsertMoved(t)
  PROVE  /\ thread[t].at = "upsert" /\ thread[t].job \in Changing /\ thread[t].item \in Ids
         /\ thread[t].to \in Places /\ GoesOn(t, "remap")
<1>1. thread[t].at = "upsert" /\ Do(t, [thread[t] EXCEPT !.at = "remap"])
  BY DEF UpsertMoved, At
<1>2. <<"upsert", "remap">>[1] = "upsert" /\ <<"upsert", "remap">>[2] = "remap"
  OBVIOUS
<1>3. GoesOn(t, "remap")
  BY <1>1, <1>2, OneOn
<1> QED BY <1>1, <1>3, Working DEF Controlled, Changing

LEMMA RemapGoes ==
  ASSUME Types, Control, NEW t \in Threads, Remap(t)
  PROVE  /\ thread[t].at = "remap" /\ thread[t].job \in Changing /\ thread[t].item \in Ids
         /\ thread[t].to \in Places /\ thread[t].from \in Places /\ thread[t].from # thread[t].to
         /\ GoesCalm(t)
<1>1. thread[t].at = "remap" /\ GoesCalm(t)
  BY EndsCalm DEF Remap, At
<1> QED BY <1>1, Working DEF Controlled, Changing

LEMMA EnterGoes ==
  ASSUME Types, Control, NEW t \in Threads, Enter(t)
  PROVE  /\ thread[t].at = "enter" /\ thread[t].job \in Changing /\ thread[t].item \in Ids
         /\ thread[t].from \in Places /\ GoesCalm(t)
<1>1. thread[t].at = "enter" /\ GoesCalm(t)
  BY EndsCalm DEF Enter, At
<1> QED BY <1>1, Working DEF Controlled, Changing

(* A new folder or file is about to be entered.                            *)
GoesEntering(t, id) ==
  \E to \in Records :
    /\ Goes(t, to) /\ to.at = "enter" /\ to.item = id /\ to.from = thread[t].from
    /\ to.other = thread[t].other
    /\ to.answer = NoAnswer /\ to.map = EmptyMap /\ to.overtaken = {}
LEMMA EnteringGoes ==
  ASSUME Types, Control, NEW t \in Threads, thread[t].at \in {"create", "mkdir"}, NEW id \in Ids,
         Do(t, [thread[t] EXCEPT !.at = "enter", !.item = id])
  PROVE  GoesEntering(t, id)
<1> DEFINE to == [thread[t] EXCEPT !.at = "enter", !.item = id]
<1>1. thread[t] \in Records /\ Controlled(thread[t])
  BY Working
<1>2. to \in Records /\ to.at = "enter" /\ to.job = thread[t].job /\ to.from = thread[t].from
      /\ to.to = thread[t].to /\ to.look = thread[t].look /\ to.item = id /\ to.other = thread[t].other
      /\ to.answer = thread[t].answer /\ to.map = thread[t].map /\ to.overtaken = thread[t].overtaken
  BY <1>1 DEF Records, Stages
<1> HIDE DEF to
<1>3. to.answer = NoAnswer /\ to.map = EmptyMap /\ to.overtaken = {}
  BY <1>1, <1>2 DEF Controlled, UnderWay
<1>4. Controlled(to)
  BY <1>1, <1>2, <1>3 DEF Controlled, UnderWay
<1> QED BY <1>2, <1>3, <1>4 DEF GoesEntering, Goes, to

LEMMA CreateFolderGoes ==
  ASSUME Types, Control, NEW t \in Threads, CreateFolder(t)
  PROVE  /\ thread[t].at = "mkdir" /\ thread[t].job \in Changing /\ thread[t].from \in Places
         /\ UNCHANGED <<sqlite, memory, delta, upload, history>>
         /\ \/ \E i \in Items \ used :
                 /\ Free(thread[t].from) /\ server' = [server EXCEPT ![i] = thread[t].from]
                 /\ used' = used \cup {i} /\ unseen' = unseen \cup {i} /\ UNCHANGED <<ghost, changes>>
                 /\ GoesEntering(t, i)
            \/ GoesCalm(t) /\ UNCHANGED remote
<1>1. thread[t].at = "mkdir" /\ UNCHANGED <<sqlite, memory, delta, upload, history>>
  BY DEF CreateFolder, At
<1>2. thread[t].job \in Changing /\ thread[t].from \in Places
  BY <1>1, Working DEF Controlled, Changing
<1>3. CASE Ends(t) /\ UNCHANGED remote
  BY <1>1, <1>2, <1>3, EndsCalm
<1>4. ASSUME NEW i \in Items \ used, Free(thread[t].from), 
             server' = [server EXCEPT ![i] = thread[t].from],
             used' = used \cup {i}, unseen' = unseen \cup {i}, UNCHANGED <<ghost, changes>>,
             Do(t, [thread[t] EXCEPT !.at = "enter", !.item = i])
      PROVE  GoesEntering(t, i)
  <2>1. i \in Ids /\ thread[t].at \in {"create", "mkdir"}
    BY <1>1 DEF Ids
  <2> QED BY <1>4, <2>1, EnteringGoes
<1>5. (\E i \in Items \ used :
          /\ Free(thread[t].from) /\ server' = [server EXCEPT ![i] = thread[t].from]
          /\ used' = used \cup {i} /\ unseen' = unseen \cup {i}
          /\ Do(t, [thread[t] EXCEPT !.at = "enter", !.item = i]) /\ UNCHANGED <<ghost, changes>>)
      \/ (Ends(t) /\ UNCHANGED remote)
  BY DEF CreateFolder
<1> QED BY <1>1, <1>2, <1>3, <1>4, <1>5

LEMMA CreateFileGoes ==
  ASSUME DirectoriesConstants, Types, Control, NEW t \in Threads, CreateFile(t)
  PROVE  /\ thread[t].at = "create" /\ thread[t].job \in Changing
         /\ \E id \in Locals \ used :
              /\ used' = used \cup {id}
              /\ GoesEntering(t, id)
<1>1. thread[t].at = "create"
  BY DEF CreateFile, At
<1>2. thread[t].job \in Changing
  BY <1>1, Working DEF Controlled, Changing
<1>3. PICK id \in Locals \ used : /\ used' = used \cup {id}
                                  /\ Do(t, [thread[t] EXCEPT !.at = "enter", !.item = id])
  BY DEF CreateFile
<1>4. id \in Ids
  BY DEF Ids
<1>5. GoesEntering(t, id)
  BY <1>1, <1>3, <1>4, EnteringGoes
<1> QED BY <1>1, <1>2, <1>3, <1>5

(* A callback begins: it alone, if it is to change names.                  *)
LEMMA BeginGoes ==
  ASSUME DirectoriesConstants, Types, Control, NEW t \in Threads, NEW job \in Jobs,
         NEW from \in Places, NEW to \in Places \cup {Nowhere}, Begin(t, job, from, to)
  PROVE  /\ thread[t] = Idle /\ thread' \in [Threads -> Records] /\ Control'
         /\ Calm(thread'[t]) /\ thread'[t].other = None
         /\ \A o \in Threads \ {t} : thread'[o] = thread[o]
<1> DEFINE new == [Idle EXCEPT !.job = job, !.at = "look", !.from = from, !.to = to, !.look = from]
<1>1. thread[t] = Idle /\ Do(t, new)
  BY Working DEF Begin, At, Controlled
<1>2. new \in Records /\ new.at = "look" /\ new.job = job /\ new.from = from /\ new.to = to
      /\ new.look = from /\ new.item = None /\ new.other = None /\ new.answer = NoAnswer
      /\ new.map = EmptyMap /\ new.overtaken = {}
  <2>1. from \in Spots /\ to \in Spots
    BY DEF Spots
  <2> QED BY <2>1, EmptyTypes DEF Records, Stages, Idle
<1> HIDE DEF new
<1>3. Calm(new)
  <2>1. from # to /\ (job = "rename" => to \in Places)
    BY DEF Begin
  <2> QED BY <1>2, <2>1 DEF Calm, Controlled, UnderWay
<1>4. thread' \in [Threads -> Records] /\ thread'[t] = new
      /\ \A o \in Threads \ {t} : thread'[o] = thread[o]
  BY <1>1, <1>2, DoOne DEF Types
<1>5. \A o \in Threads : Controlled(thread'[o])
  BY <1>3, <1>4, Working DEF Calm
<1>6. Alone'
  <2> SUFFICES ASSUME NEW u \in Threads, thread'[u].job \in Changing, NEW o \in Threads \ {u}
               PROVE  thread'[o].at = "idle"
    BY DEF Alone
  <2>1. CASE u = t
    <3>1. thread[o].at = "idle"
      BY <1>2, <1>4, <2>1 DEF Begin, At
    <3> QED BY <1>4, <2>1, <3>1
  <2>2. CASE u # t
    <3>1. thread[u].job \in Changing
      BY <1>4, <2>2
    <3>2. thread[u].at # "idle"
      <4>1. thread[u].at = "idle" => thread[u].job = "none"
        BY Working, IdleCalm DEF Controlled
      <4> QED BY <3>1, <4>1 DEF Changing
    <3> QED BY <2>2, <3>1, <3>2 DEF Begin, At
  <2> QED BY <2>1, <2>2
<1> QED BY <1>1, <1>2, <1>3, <1>4, <1>5, <1>6 DEF Control

------------------------------------------------------------------------------
(* The inductive invariant.                                                *)

(* What the server changed and delta sync has not looked at yet, and what  *)
(* it is to store or has not looked at.                                    *)
Due == unseen \cup delta.todo \cup {delta.item}
Pending == Due \cup Reported
Named == delta.todo \cup {delta.item} \cup Reported

(* Only one item is at a place; what exists has been made, and what was    *)
(* deleted here is gone, though a listing may report it.                   *)
Unique == \A i, j \in Items : server[i] = server[j] /\ server[i] # Nowhere => i = j
Existing == (\A i \in Items : server[i] # Nowhere => i \in used) /\ unseen \subseteq used
GoneIsGone == \A i \in gone : server[i] = Nowhere /\ i \in used
GhostsAreGone == \A i \in Items : ghost[i] # Nowhere => i \in unseen /\ i \in gone
GhostsAreAlone == \A i, j \in Items : ghost[j] # Nowhere /\ server[i] = ghost[j] => i \in unseen
TombsHaveReasons == tombs \cap Items \subseteq gone \cup astray
LocalsAreCalled == \A id \in Locals : id \in cached \/ row[id] # Nowhere => called[id] # Nowhere
Server ==
  /\ Unique /\ Existing /\ GoneIsGone /\ GhostsAreGone /\ GhostsAreAlone
  /\ TombsHaveReasons /\ LocalsAreCalled

(* The response under way says of an item what the server says, unless the *)
(* item has changed since.                                                 *)
Parted ==
  /\ delta.drops \cap delta.inserts = {}
  /\ Reported \cap (delta.todo \cup {delta.item}) = {} /\ delta.item \notin delta.todo
SeenWell ==
  /\ delta.item # None => delta.seen[delta.item] # Nowhere
  /\ \A i \in delta.inserts : delta.seen[i] # Nowhere
  /\ \A i \in delta.drops : delta.seen[i] = Nowhere
SeenTrue == \A i \in Items \cap Named : i \notin unseen => delta.seen[i] = server[i]
SeenDead ==
  \A i \in delta.todo \cup delta.drops : delta.seen[i] = Nowhere =>
    server[i] = Nowhere /\ ghost[i] = Nowhere /\ i \in used /\ i \notin unseen
SeenUsed == \A i \in Items : delta.seen[i] # Nowhere => i \in used
Response == Parted /\ SeenWell /\ SeenTrue /\ SeenDead /\ SeenUsed

(* What is in hand and not overtaken is on the server, and there where it  *)
(* is said to be if delta sync has nothing to say of it and no hidden      *)
(* target of a rename stays there.                                         *)
Alive(i) == server[i] # Nowhere \/ i \in Due
Trusted(i) == i \notin Due /\ (i \in astray => i \in Reported)
Placed(i, place) == Alive(i) /\ (Trusted(i) => server[i] = place)
Asked(me) ==
  /\ me.at = "store" =>
       /\ \A i \in Items : me.answer[i] # Nowhere =>
            me.answer[i].in = me.look.in /\ (i \notin me.overtaken => Placed(i, me.answer[i]))
       /\ \A n \in Names : me.map[n] \in Items \ me.overtaken => Alive(me.map[n])
  /\ me.at \in {"upsert", "remap"} /\ me.item \in Items \ me.overtaken => Placed(me.item, me.to)
  /\ me.at = "enter" /\ me.item \in Items \ me.overtaken => Placed(me.item, me.from)
Requests == \A t \in Threads : Asked(thread[t])

Uploading ==
  upload # NoUpload =>
    /\ upload.file \in Locals /\ upload.item \in Items
    /\ upload.item \notin upload.overtaken => Alive(upload.item)
    /\ upload.item \in gone => upload.item \in upload.overtaken

RowsInv == \A i \in Items \ (astray \cup Pending) : row[i] = server[i]

(* An item deleted here has left SQLite and the memory, but for the thread *)
(* that is deleting it, and its tombstone keeps older answers away, unless *)
(* it could not be stored: it is astray until delta sync drops it.         *)
Deleting(i, ats) == \E t \in Threads : thread[t].other = i /\ thread[t].at \in ats
Hidden == {"forget", "tombstone"}
NoRow == \A i \in gone \ astray : ~Deleting(i, Hidden) => row[i] = Nowhere
NoName ==
  \A i \in gone : (i \in astray => Deleting(i, {"tombstone"})) /\ ~Deleting(i, {"forget"}) /\ i \in cached =>
    \A f \in Folders : i \in Kids(f) => f \in behind
NoInsert ==
  \A i \in gone \cap Named : delta.seen[i] # Nowhere => i \in tombs \cup astray \/ Deleting(i, Hidden)
Reportable(i) == ghost[i] # Nowhere \/ (i \in delta.todo /\ delta.seen[i] = Nowhere)
Spared(me) ==
  /\ \A i \in gone \ me.overtaken : me.answer[i] # Nowhere => i \in tombs \cup astray /\ Reportable(i)
  /\ \A n \in Names : me.map[n] \in gone \ me.overtaken => me.map[n] \in astray /\ Reportable(me.map[n])
  /\ me.at \in {"upsert", "remap", "enter"} => me.item \notin gone
NoAnswerOf == \A t \in Threads : Spared(thread[t])
NoGhost == \A i \in Items : ghost[i] # Nowhere => i \in tombs \cup astray \/ Deleting(i, Hidden)
GoneInv == NoRow /\ NoName /\ NoInsert /\ NoAnswerOf /\ NoGhost

(* An item that does not exist any more is in no map, or in one that is    *)
(* known to be behind, unless nothing would show it.                       *)
Dead(i) == server[i] = Nowhere /\ i \notin Due
DeadInv ==
  \A i \in Items : Dead(i) /\ (i \in cached \/ (row[i] # Nowhere /\ i \notin delta.drops)) =>
    \A f \in Folders : i \in Kids(f) => f \in behind

(* A map has what is in its folder, and so does an answer that may become  *)
(* one.                                                                    *)
Reliable(i) == i \notin Due /\ (i \in astray => i \in delta.inserts \ (tombs \cup gone))
Listed ==
  \A i \in Items : Reliable(i) /\ server[i] # Nowhere /\ ~Deleting(i, Hidden) =>
    LET f == server[i].in
    IN Mapped(f) => f \in behind \/ kids[f][server[i].name] = i
Complete(me) ==
  /\ me.at = "store" /\ me.overtaken = {} =>
       \A i \in Items : Reliable(i) /\ server[i].in = me.look.in =>
         /\ me.answer[i] = server[i] \/ (me.answer[i] = Nowhere /\ me.map[server[i].name] = i)
         /\ \A j \in Items \ {i} : me.answer[j] # server[i]
  /\ me.at \in {"upsert", "remap"} /\ me.item \in Items \cap me.overtaken
       /\ Reliable(me.item) /\ server[me.item] # Nowhere
     => ~Mapped(server[me.item].in) \/ server[me.item].in \in behind
Completing == \A t \in Threads : Complete(thread[t])
ListInv == Listed /\ Completing

IInv ==
  /\ Types /\ Control /\ Server /\ Response /\ Requests /\ Uploading
  /\ RowsInv /\ GoneInv /\ DeadInv /\ ListInv

------------------------------------------------------------------------------
(* What all steps of a kind keep.                                          *)

LEMMA CalmClauses ==
  ASSUME DirectoriesConstants, gone' \subseteq Items, NEW t \in Threads,
         Controlled(thread'[t]), thread'[t].at \notin UnderWay
  PROVE  Asked(thread[t])' /\ Spared(thread[t])' /\ Complete(thread[t])'
<1>1. thread'[t].answer = NoAnswer /\ thread'[t].map = EmptyMap
      /\ thread'[t].at \notin {"store", "upsert", "remap", "enter"}
  BY DEF Calm, Controlled, UnderWay
<1>2. (\A i \in gone' : thread'[t].answer[i] = Nowhere) /\ (\A n \in Names : thread'[t].map[n] \notin gone')
  BY <1>1 DEF NoAnswer, EmptyMap, DirectoriesConstants
<1>3. Asked(thread[t])'
  BY <1>1 DEF Asked
<1>4. Spared(thread[t])'
  BY <1>1, <1>2 DEF Spared, Reportable
<1>5. Complete(thread[t])'
  BY <1>1 DEF Complete
<1> QED BY <1>3, <1>4, <1>5

(* A thread that changes names is alone.                                   *)
LEMMA AloneCalm ==
  ASSUME Types, Control, NEW t \in Threads, thread[t].job \in Changing
  PROVE  \A o \in Threads \ {t} : Calm(thread[o]) /\ thread[o].at = "idle"
<1> SUFFICES ASSUME NEW o \in Threads \ {t}
             PROVE  Calm(thread[o]) /\ thread[o].at = "idle"
  OBVIOUS
<1>1. thread[o].at = "idle" /\ Controlled(thread[o])
  BY DEF Control, Alone
<1> QED BY <1>1 DEF Calm, UnderWay

LEMMA CalmStep ==
  ASSUME Types, Control, NEW t \in Threads, thread[t].at # "idle", GoesCalm(t)
  PROVE  /\ thread' \in [Threads -> Records] /\ Control' /\ Calm(thread'[t])
         /\ \A o \in Threads \ {t} : thread'[o] = thread[o]
<1>1. PICK to \in Records : Goes(t, to) /\ Calm(to)
  BY DEF GoesCalm
<1> QED BY <1>1, ControlKept

LEMMA OnStep ==
  ASSUME Types, Control, NEW t \in Threads, thread[t].at # "idle", NEW a, GoesOn(t, a)
  PROVE  /\ thread' \in [Threads -> Records] /\ Control' /\ thread'[t].at = a
         /\ Same(thread'[t], thread[t]) /\ thread'[t].answer = NoAnswer /\ thread'[t].map = EmptyMap
         /\ \A o \in Threads \ {t} : thread'[o] = thread[o]
<1>1. PICK to \in Records : /\ Goes(t, to) /\ to.at = a /\ Same(to, thread[t])
                            /\ to.answer = NoAnswer /\ to.map = EmptyMap
  BY DEF GoesOn
<1>2. thread'[t] = to /\ thread' \in [Threads -> Records] /\ Control'
      /\ \A o \in Threads \ {t} : thread'[o] = thread[o]
  BY <1>1, ControlKept
<1> QED BY <1>1, <1>2

(* Who deletes what stays.                                                 *)
LEMMA DeletingSame ==
  ASSUME \A t \in Threads :
           \/ thread'[t].at = thread[t].at /\ thread'[t].other = thread[t].other
           \/ thread'[t].at \notin Hidden /\ thread[t].at \notin Hidden,
         NEW i
  PROVE  /\ Deleting(i, Hidden)' <=> Deleting(i, Hidden)
         /\ Deleting(i, {"forget"})' <=> Deleting(i, {"forget"})
         /\ Deleting(i, {"tombstone"})' <=> Deleting(i, {"tombstone"})
BY DEF Deleting, Hidden

(* Some maps go, and folders that are behind stay so as long as they have  *)
(* a map.                                                                  *)
Shrinks ==
  \A f \in Folders : /\ kids'[f] = kids[f] \/ kids'[f] = NoMap
                     /\ f \in behind /\ kids'[f] # NoMap => f \in behind'
LEMMA ShrinkFacts ==
  ASSUME Shrinks, NEW f \in Folders
  PROVE  /\ \A i : i \in Kids(f)' => i \in Kids(f) /\ kids'[f] = kids[f] /\ kids'[f] # NoMap
         /\ Mapped(f)' => Mapped(f) /\ kids'[f] = kids[f] /\ (f \in behind => f \in behind')
<1>1. \A i : i \in Kids(f)' => kids'[f] # NoMap
  BY DEF Kids, NoMap
<1> QED BY <1>1 DEF Shrinks, Kids, Mapped

LEMMA BehindShrinks ==
  ASSUME CacheTypes, NEW F, kids' = Invalidate(F), NEW B, Behind(B)
  PROVE  /\ Shrinks /\ (\A f \in Folders \cap F : kids'[f] = NoMap)
         /\ \A f \in Folders : (f \in behind \cup B /\ kids'[f] # NoMap) <=> f \in behind'
<1>1. \A f \in Folders : kids'[f] = IF f \in F THEN NoMap ELSE kids[f]
  BY DEF Invalidate
<1>2. \A f \in Folders : (f \in behind \cup B /\ kids'[f] # NoMap) <=> f \in behind'
  BY DEF Behind
<1> QED BY <1>1, <1>2 DEF Shrinks

(* The server changes one item, which delta sync has still to report.      *)
ServerChanges(i, place) ==
  /\ server' = [server EXCEPT ![i] = place] /\ unseen' = unseen \cup {i} /\ used' = used \cup {i}
  /\ \A j \in Items \ {i} : place # Nowhere => server[j] # place
  /\ i \notin gone /\ (server[i] = Nowhere => i \notin used)
  /\ UNCHANGED <<row, tombs, cached, called, kids, delta, astray, behind>>
  /\ \A j \in Items \ {i} : ghost'[j] = ghost[j]
  /\ ghost'[i] \in {ghost[i], server[i]} /\ gone \subseteq gone'

LEMMA ServerChangeFacts ==
  ASSUME Types, NEW i \in Items, NEW place \in Spots, ServerChanges(i, place)
  PROVE  /\ \A j \in Items \ {i} : server'[j] = server[j]
         /\ server'[i] = place /\ Due' = Due \cup {i} /\ Named' = Named /\ Pending' = Pending \cup {i}
         /\ \A j \in Items : /\ Alive(j) => Alive(j)'
                             /\ Trusted(j)' => Trusted(j) /\ j # i
                             /\ Reliable(j)' => Reliable(j) /\ j # i
<1>1. (\A j \in Items \ {i} : server'[j] = server[j]) /\ server'[i] = place
  BY DEF ServerChanges, Types, ServerTypes, Answers
<1>2. Due' = Due \cup {i} /\ Named' = Named /\ Pending' = Pending \cup {i} /\ Reported' = Reported
  BY DEF ServerChanges, Due, Named, Pending, Reported
<1> QED BY <1>1, <1>2 DEF Alive, Trusted, Reliable, ServerChanges

LEMMA ServerChangeKeeps ==
  ASSUME Types, Server, Response, RowsInv, DeadInv,
         NEW i \in Items, NEW place \in Spots, ServerChanges(i, place)
  PROVE  Unique' /\ Existing' /\ GhostsAreAlone' /\ Response' /\ RowsInv' /\ DeadInv'
<1>1. (\A j \in Items \ {i} : server'[j] = server[j]) /\ server'[i] = place
      /\ Due' = Due \cup {i} /\ Named' = Named /\ Pending' = Pending \cup {i}
  BY ServerChangeFacts
<1>2. Unique'
  BY <1>1 DEF Server, Unique, ServerChanges
<1>3. Existing'
  BY <1>1 DEF Server, Existing, ServerChanges
<1>4. Response'
  <2>1. Parted' /\ SeenWell'
    BY DEF Response, Parted, SeenWell, ServerChanges, Reported
  <2>2. SeenTrue'
    BY <1>1 DEF Response, SeenTrue, ServerChanges
  <2>3. SeenDead'
    BY <1>1 DEF Response, SeenDead, ServerChanges, Types, Responses
  <2>4. SeenUsed'
    BY DEF Response, SeenUsed, ServerChanges
  <2> QED BY <2>1, <2>2, <2>3, <2>4 DEF Response
<1>5. RowsInv'
  BY <1>1 DEF RowsInv, ServerChanges
<1>6. DeadInv'
  BY <1>1 DEF DeadInv, Dead, ServerChanges, Kids
<1>7. GhostsAreAlone'
  <2> SUFFICES ASSUME NEW k \in Items, NEW j \in Items, ghost'[j] # Nowhere, server'[k] = ghost'[j], k # i
               PROVE  k \in unseen
    BY DEF GhostsAreAlone, ServerChanges
  <2>1. server[k] = ghost'[j]
    BY <1>1
  <2>2. CASE ghost'[j] = ghost[j]
    BY <2>1, <2>2 DEF Server, GhostsAreAlone
  <2>3. CASE j = i /\ ghost'[j] = server[i]
    BY <2>1, <2>3 DEF Server, Unique
  <2> QED BY <2>2, <2>3 DEF ServerChanges
<1> QED BY <1>2, <1>3, <1>4, <1>5, <1>6, <1>7

LEMMA ServerChangeListed ==
  ASSUME Types, ListInv, NEW i \in Items, NEW place \in Spots, ServerChanges(i, place),
         \A j \in Items : Deleting(j, Hidden) => Deleting(j, Hidden)'
  PROVE  Listed'
<1>1. \A j \in Items : Reliable(j)' => Reliable(j) /\ server'[j] = server[j]
  BY ServerChangeFacts
<1> QED BY <1>1 DEF ListInv, Listed, ServerChanges, Mapped

LEMMA ServerChangeThread ==
  ASSUME Types, NEW i \in Items, NEW place \in Spots, ServerChanges(i, place), gone \subseteq gone',
         NEW o \in Threads, thread'[o] = thread[o], Asked(thread[o]), Complete(thread[o])
  PROVE  Asked(thread[o])' /\ Complete(thread[o])'
<1>1. \A j \in Items : /\ Alive(j) => Alive(j)'
                       /\ Trusted(j)' => Trusted(j) /\ server'[j] = server[j]
                       /\ Reliable(j)' => Reliable(j) /\ server'[j] = server[j]
  BY ServerChangeFacts
<1>2. \A j \in Items : \A p : Placed(j, p) => Placed(j, p)'
  BY <1>1 DEF Placed
<1>3. Asked(thread[o])'
  BY <1>1, <1>2 DEF Asked
<1>4. Complete(thread[o])'
  BY <1>1 DEF Complete, ServerChanges, Mapped
<1> QED BY <1>3, <1>4

------------------------------------------------------------------------------
(* Every step keeps the invariant.                                         *)

LEMMA SpotPlaces == ASSUME NEW p \in Places \cup {Nowhere} PROVE p \in Spots
BY DEF Spots

LEMMA RemoteChangeKeeps ==
  ASSUME DirectoriesConstants, IInv, NEW i \in Items, NEW place \in Places \cup {Nowhere},
         RemoteChange(i, place)
  PROVE  IInv'
<1> USE DEF IInv
<1>1. UNCHANGED <<ghost, row, tombs, cached, called, kids, delta, thread, upload, gone, astray, behind>>
  BY DEF RemoteChange, sqlite, memory, history
<1>2. i \notin gone
  BY DEF RemoteChange, Server, GoneIsGone
<1>3. place \in Spots /\ ServerChanges(i, place)
  BY <1>1, <1>2, SpotPlaces DEF RemoteChange, ServerChanges, Free
<1>4. Types'
  BY <1>1, <1>3 DEF Types, ServerTypes, CacheTypes, HistoryTypes, ServerChanges,
    Answers, Ids
<1>5. Control'
  BY <1>1 DEF Control, Alone
<1>6. Unique' /\ Existing' /\ GhostsAreAlone' /\ Response' /\ RowsInv' /\ DeadInv'
  BY <1>3, ServerChangeKeeps
<1>7. Server'
  BY <1>1, <1>2, <1>3, <1>6, ServerChangeFacts
     DEF Server, GoneIsGone, GhostsAreGone, GhostsAreAlone, TombsHaveReasons,
     LocalsAreCalled, ServerChanges, Types, HistoryTypes
<1>8. \A j \in Items : Alive(j) => Alive(j)'
  BY <1>3, ServerChangeFacts
<1>9. Uploading'
  BY <1>1, <1>8 DEF Uploading
<1>10. Requests' /\ Completing'
  BY <1>1, <1>3, ServerChangeThread DEF Requests, Completing, ListInv
<1>11. \A j : Deleting(j, Hidden)' <=> Deleting(j, Hidden)
  BY <1>1 DEF Deleting
<1>12. Listed'
  BY <1>3, <1>11, ServerChangeListed
<1>13. GoneInv'
  BY <1>1 DEF GoneInv, NoRow, NoName, NoInsert, NoAnswerOf, NoGhost, Spared,
    Reportable, Deleting, Named, Reported, Kids
<1> QED BY <1>4, <1>5, <1>6, <1>7, <1>9, <1>10, <1>12, <1>13 DEF ListInv

LEMMA RequestsSame ==
  ASSUME UNCHANGED <<server, unseen, delta, astray, thread>>, Requests
  PROVE  Requests'
<1>1. \A j : (Alive(j)' <=> Alive(j)) /\ (Trusted(j)' <=> Trusted(j))
  BY DEF Alive, Trusted, Due, Reported
<1> QED BY <1>1 DEF Requests, Asked, Placed

(* Nothing changes but the memory, and there it only loses.                *)
LEMMA ExpireKeeps ==
  ASSUME DirectoriesConstants, IInv, Expire
  PROVE  IInv'
<1> USE DEF IInv
<1>1. /\ UNCHANGED <<server, used, ghost, unseen, row, tombs, called, delta, thread, upload, gone, astray>>
      /\ Behind({})
  BY DEF Expire, remote, sqlite
<1>2. Shrinks /\ cached' \subseteq cached /\ kids' \in [Folders -> Maps \cup {NoMap}]
      /\ behind' \subseteq behind
  <2>1. behind' \subseteq behind
    BY <1>1 DEF Behind
  <2>2. CASE \E f \in Folders : Mapped(f) /\ kids' = Invalidate({f}) /\ UNCHANGED cached
    <3>1. PICK f \in Folders : kids' = Invalidate({f}) /\ UNCHANGED cached
      BY <2>2
    <3>2. Shrinks
      BY <1>1, <3>1, BehindShrinks DEF Types
    <3> QED BY <2>1, <3>1, <3>2 DEF Invalidate, Types, CacheTypes
  <2>3. CASE \E id \in cached : cached' = cached \ {id} /\ UNCHANGED kids
    <3>1. Shrinks
      BY <1>1, <2>3 DEF Shrinks, Behind
    <3> QED BY <2>1, <2>3, <3>1 DEF Types, CacheTypes
  <2> QED BY <2>2, <2>3 DEF Expire
<1>3. Types'
  BY <1>1, <1>2 DEF Types, ServerTypes, CacheTypes, HistoryTypes
<1>4. Control' /\ Response' /\ Requests' /\ RowsInv' /\ Uploading'
  <2>1. Control' /\ Response' /\ RowsInv' /\ Uploading'
    BY <1>1 DEF Control, Alone, Response, Parted, SeenWell, SeenTrue, SeenDead,
      SeenUsed, Named, Reported,
       Alive, Due, RowsInv, Pending, Uploading
  <2>2. Requests'
    BY <1>1, RequestsSame
  <2> QED BY <2>1, <2>2
<1>5. Server'
  BY <1>1, <1>2 DEF Server, Unique, Existing, GoneIsGone, GhostsAreGone,
    GhostsAreAlone, TombsHaveReasons, LocalsAreCalled
<1>6. \A f \in Folders : /\ \A i : i \in Kids(f)' => i \in Kids(f) /\ kids'[f] # NoMap
                         /\ Mapped(f)' => Mapped(f) /\ kids'[f] = kids[f]
                         /\ f \in behind /\ kids'[f] # NoMap => f \in behind'
  BY <1>2, ShrinkFacts DEF Shrinks
<1>7. GoneInv'
  <2>1. NoRow' /\ NoInsert' /\ NoAnswerOf' /\ NoGhost'
    BY <1>1 DEF GoneInv, NoRow, NoInsert, NoAnswerOf, NoGhost, Spared, Reportable,
      Deleting, Named, Reported
  <2>2. NoName'
    BY <1>1, <1>2, <1>6 DEF GoneInv, NoName, Deleting
  <2> QED BY <2>1, <2>2 DEF GoneInv
<1>8. DeadInv'
  BY <1>1, <1>2, <1>6 DEF DeadInv, Dead, Due
<1>9. ListInv'
  <2>1. \A i : Reliable(i)' <=> Reliable(i)
    BY <1>1 DEF Reliable, Due
  <2>2. \A i \in Items : server[i] # Nowhere => server[i].in \in Folders
    BY PlaceFields DEF Types, ServerTypes, Answers
  <2>3. Listed'
    BY <1>1, <1>6, <2>1, <2>2 DEF ListInv, Listed, Deleting, Mapped
  <2>4. Completing'
    BY <1>1, <1>6, <2>1, <2>2 DEF ListInv, Completing, Complete, Mapped
  <2> QED BY <2>3, <2>4 DEF ListInv
<1> QED BY <1>3, <1>4, <1>5, <1>7, <1>8, <1>9

LEMMA DeltaQueryKeeps ==
  ASSUME DirectoriesConstants, IInv, DeltaQuery
  PROVE  IInv'
<1> USE DEF IInv
<1> DEFINE seen == [i \in Items |-> IF i \in unseen THEN server[i] ELSE Nowhere]
<1>1. UNCHANGED <<server, used, row, cached, called, kids, thread, upload, gone, astray, behind>>
  BY DEF DeltaQuery, memory, history
<1>2. /\ delta.todo = {} /\ delta.item = None /\ delta.inserts = {} /\ delta.drops = {} /\ Reported = {}
      /\ delta' = [NoDelta EXCEPT !.todo = unseen, !.seen = seen] /\ unseen' = {}
  BY DEF DeltaQuery, NoDelta, Reported
<1>3. /\ delta'.todo = unseen /\ delta'.item = None /\ delta'.inserts = {} /\ delta'.drops = {}
      /\ delta'.seen = seen /\ Reported' = {}
  BY <1>2 DEF NoDelta, Reported
<1>4. /\ \A i \in Items : /\ i \in unseen => ghost'[i] = Nowhere
                          /\ i \notin unseen => ghost'[i] = ghost[i]
      /\ ghost' = [i \in Items |-> IF i \in unseen THEN Nowhere ELSE ghost[i]]
  BY DEF DeltaQuery
<1>5. tombs' \subseteq tombs /\ \A i \in tombs \cap Items : ghost[i] # Nowhere => i \in tombs'
  BY DEF DeltaQuery
<1>6. unseen \subseteq Items /\ None \notin Items
  BY DEF Types, ServerTypes, DirectoriesConstants
<1>7. Due' = Due /\ Pending' = Pending /\ Named' = unseen \cup {None}
  BY <1>2, <1>3 DEF Due, Pending, Named
<1>8. Types'
  <2>1. seen \in Answers
    BY SpotsType DEF Types, ServerTypes, Answers
  <2>2. delta' \in Responses
    BY <1>2, <1>6, <2>1, EmptyTypes DEF Responses
  <2>3. ghost' \in Answers
    BY <1>4, SpotsType DEF Types, ServerTypes, Answers
  <2> QED BY <1>1, <1>2, <1>5, <2>2, <2>3
          DEF Types, ServerTypes, CacheTypes, HistoryTypes
<1>9. Control'
  BY <1>1 DEF Control, Alone
<1>10. Server'
  <2>1. GhostsAreGone'
    BY <1>1, <1>4 DEF Server, GhostsAreGone
  <2>2. GhostsAreAlone'
    <3> SUFFICES ASSUME NEW i \in Items, NEW j \in Items, ghost'[j] # Nowhere, server[i] = ghost'[j]
                 PROVE  FALSE
      BY <1>1 DEF GhostsAreAlone
    <3> QED BY <1>4 DEF Server, GhostsAreGone
  <2> QED BY <1>1, <1>2, <1>5, <2>1, <2>2
     DEF Server, Unique, Existing, GoneIsGone, TombsHaveReasons, LocalsAreCalled
<1>11. Response'
  <2>1. Parted' /\ SeenWell'
    BY <1>2, <1>3, <1>6 DEF Parted, SeenWell
  <2>2. SeenTrue'
    BY <1>1, <1>3, <1>6, <1>7 DEF SeenTrue
  <2>3. SeenDead'
    BY <1>1, <1>2, <1>3, <1>4, <1>6 DEF SeenDead, Server, Existing
  <2>4. SeenUsed'
    BY <1>1, <1>3 DEF SeenUsed, Server, Existing
  <2> QED BY <2>1, <2>2, <2>3, <2>4 DEF Response
<1>12. \A i : (Alive(i)' <=> Alive(i)) /\ (Trusted(i)' <=> Trusted(i)) /\ (Reliable(i)' <=> Reliable(i))
              /\ (Dead(i)' <=> Dead(i))
  BY <1>1, <1>2, <1>3, <1>7 DEF Alive, Trusted, Reliable, Dead
<1>13. Requests' /\ Uploading' /\ RowsInv'
  BY <1>1, <1>7, <1>12 DEF Requests, Asked, Placed, Uploading, RowsInv
<1>14. GoneInv'
  <2>1. NoRow' /\ NoName'
    BY <1>1 DEF GoneInv, NoRow, NoName, Deleting, Kids
  <2>2. NoInsert'
    BY <1>1, <1>3, <1>7 DEF NoInsert, Server, GoneIsGone, Types, HistoryTypes
  <2>5. ASSUME NEW i \in Items, ghost[i] # Nowhere
        PROVE  Reportable(i)'
    BY <1>3, <2>5 DEF Reportable, Server, GhostsAreGone, GoneIsGone
  <2>3. ASSUME NEW t \in Threads
        PROVE  Spared(thread[t])'
    <3>1. Spared(thread[t])
      BY DEF GoneInv, NoAnswerOf
    <3>2. ASSUME NEW i \in gone \ thread[t].overtaken, thread[t].answer[i] # Nowhere
          PROVE  i \in tombs' \cup astray' /\ Reportable(i)'
      <4>1. i \in tombs \cup astray /\ ghost[i] # Nowhere /\ i \in Items
        BY <1>2, <3>1, <3>2 DEF Spared, Reportable, Types, HistoryTypes
      <4> QED BY <1>1, <1>5, <2>5, <4>1
    <3>3. ASSUME NEW n \in Names, thread[t].map[n] \in gone \ thread[t].overtaken
          PROVE  thread[t].map[n] \in astray /\ Reportable(thread[t].map[n])'
      <4> DEFINE i == thread[t].map[n]
      <4>1. i \in astray /\ ghost[i] # Nowhere /\ i \in Items
        BY <1>2, <3>1, <3>3 DEF Spared, Reportable, Types, HistoryTypes
      <4>2. Reportable(i)' /\ i' = i
        BY <1>1, <2>5, <4>1 DEF Reportable
      <4> QED BY <1>1, <4>1, <4>2
    <3>4. thread'[t] = thread[t] /\ gone' = gone /\ astray' = astray
      BY <1>1
    <3>5. \A n \in Names : thread[t].map[n] \in gone \ thread[t].overtaken =>
            thread[t].map[n] \in astray /\ Reportable(thread[t].map[n])'
      BY <3>3
    <3>6. \A i \in gone \ thread[t].overtaken : thread[t].answer[i] # Nowhere =>
            i \in tombs' \cup astray' /\ Reportable(i)'
      BY <3>2
    <3> HIDE DEF Reportable
    <3> QED BY <3>1, <3>4, <3>5, <3>6 DEF Spared
  <2>4. NoGhost'
    BY <1>1, <1>4 DEF NoGhost, Server, GhostsAreGone
  <2> QED BY <2>1, <2>2, <2>3, <2>4 DEF GoneInv, NoAnswerOf
<1>15. DeadInv'
  BY <1>1, <1>2, <1>3, <1>12 DEF DeadInv, Kids
<1>16. ListInv'
  BY <1>1, <1>12 DEF ListInv, Listed, Completing, Complete, Deleting, Mapped
<1> QED BY <1>8, <1>9, <1>10, <1>11, <1>13, <1>14, <1>15, <1>16

(* Delta sync has looked at an item.                                       *)
LEMMA OvertakeFacts ==
  ASSUME Types, Control, NEW i \in Items, Overtake(i)
  PROVE  /\ thread' \in [Threads -> Records] /\ upload' \in UploadRecords /\ Control'
         /\ \A t \in Threads :
              /\ thread'[t].at = thread[t].at /\ thread'[t].look = thread[t].look
              /\ thread'[t].from = thread[t].from /\ thread'[t].to = thread[t].to
              /\ thread'[t].item = thread[t].item /\ thread'[t].other = thread[t].other
              /\ thread'[t].answer = thread[t].answer /\ thread'[t].map = thread[t].map
              /\ thread'[t].overtaken = IF thread[t].at \in UnderWay THEN thread[t].overtaken \cup {i}
                                        ELSE thread[t].overtaken
         /\ upload' # NoUpload => /\ upload # NoUpload /\ upload'.file = upload.file
                                  /\ upload'.item = upload.item
                                  /\ upload'.overtaken = upload.overtaken \cup {i}
<1>1. ASSUME NEW t \in Threads
      PROVE  /\ thread'[t] \in Records /\ Controlled(thread'[t]) /\ thread'[t].job = thread[t].job
             /\ thread'[t].at = thread[t].at /\ thread'[t].look = thread[t].look
             /\ thread'[t].from = thread[t].from /\ thread'[t].to = thread[t].to
             /\ thread'[t].item = thread[t].item /\ thread'[t].other = thread[t].other
             /\ thread'[t].answer = thread[t].answer /\ thread'[t].map = thread[t].map
             /\ thread'[t].overtaken = IF thread[t].at \in UnderWay THEN thread[t].overtaken \cup {i}
                                       ELSE thread[t].overtaken
  <2>1. thread[t] \in Records /\ Controlled(thread[t])
    BY Working
  <2>2. thread'[t] = IF thread[t].at \in UnderWay
                       THEN [thread[t] EXCEPT !.overtaken = @ \cup {i}] ELSE thread[t]
    BY DEF Overtake
  <2>3. CASE thread[t].at \notin UnderWay
    BY <2>1, <2>2, <2>3
  <2>4. CASE thread[t].at \in UnderWay
    <3> DEFINE new == [thread[t] EXCEPT !.overtaken = @ \cup {i}]
    <3>1. /\ new \in Records /\ new.job = thread[t].job
          /\ new.at = thread[t].at /\ new.look = thread[t].look
          /\ new.from = thread[t].from /\ new.to = thread[t].to
          /\ new.item = thread[t].item /\ new.other = thread[t].other
          /\ new.answer = thread[t].answer /\ new.map = thread[t].map
          /\ new.overtaken = thread[t].overtaken \cup {i}
      BY <2>1 DEF Records
    <3>2. new = thread'[t]
      BY <2>2, <2>4
    <3> HIDE DEF new
    <3>3. Controlled(new)
      BY <2>1, <2>4, <3>1 DEF Controlled, UnderWay
    <3> QED BY <2>4, <3>1, <3>2, <3>3
  <2> QED BY <2>3, <2>4
<1>2. thread' \in [Threads -> Records]
  BY <1>1 DEF Overtake
<1>3. Control'
  <2>1. \A t \in Threads : Controlled(thread'[t])
    BY <1>1
  <2>2. \A t \in Threads : thread'[t].job = thread[t].job /\ thread'[t].at = thread[t].at
    BY <1>1
  <2>3. Alone'
    BY <2>2 DEF Control, Alone
  <2> QED BY <2>1, <2>3 DEF Control
<1>4. upload' \in UploadRecords
  BY DEF Overtake, OvertakeUpload, Types, UploadRecords
<1>5. upload' # NoUpload => /\ upload # NoUpload /\ upload'.file = upload.file
                            /\ upload'.item = upload.item
                            /\ upload'.overtaken = upload.overtaken \cup {i}
  BY DEF Overtake, OvertakeUpload, Types, UploadRecords
<1> QED BY <1>1, <1>2, <1>3, <1>4, <1>5

(* Delta sync has looked at item i: what is in hand of it is overtaken,    *)
(* and of others nothing changes.                                          *)
LooksAt(i) ==
  /\ Overtake(i) /\ Shrinks
  /\ UNCHANGED <<server, used, ghost, unseen, row, tombs, called, gone, astray>>
  /\ delta'.seen = delta.seen
  /\ delta'.todo \ {i} = delta.todo \ {i} /\ delta'.inserts \ {i} = delta.inserts \ {i}
  /\ delta'.drops \ {i} = delta.drops \ {i} /\ (Due' \cap Items) \ {i} = (Due \cap Items) \ {i}
  /\ Named' = Named \cup {None} /\ delta'.item = None
  /\ server[i] # Nowhere /\ Reliable(i)' => ~Mapped(server[i].in)'

LEMMA LooksAtFacts ==
  ASSUME Types, Control, NEW i \in Items, LooksAt(i)
  PROVE  /\ \A j \in Items \ {i} : /\ j \in Due' <=> j \in Due
                                   /\ j \in Reported' <=> j \in Reported
                                   /\ Alive(j)' <=> Alive(j)
                                   /\ Trusted(j)' <=> Trusted(j)
                                   /\ Reliable(j)' <=> Reliable(j)
                                   /\ Dead(j)' <=> Dead(j)
         /\ \A j : /\ Deleting(j, Hidden)' <=> Deleting(j, Hidden)
                   /\ Deleting(j, {"forget"})' <=> Deleting(j, {"forget"})
                   /\ Deleting(j, {"tombstone"})' <=> Deleting(j, {"tombstone"})
<1>1. \A j \in Items \ {i} : /\ j \in Due' <=> j \in Due
                             /\ j \in Reported' <=> j \in Reported
                             /\ j \in delta'.inserts <=> j \in delta.inserts
  BY DEF LooksAt, Reported
<1>2. \A j \in Items \ {i} : /\ Alive(j)' <=> Alive(j)
                             /\ Trusted(j)' <=> Trusted(j)
                             /\ Reliable(j)' <=> Reliable(j)
                             /\ Dead(j)' <=> Dead(j)
  BY <1>1 DEF LooksAt, Alive, Trusted, Reliable, Dead
<1>3. \A t \in Threads : thread'[t].at = thread[t].at /\ thread'[t].other = thread[t].other
  BY OvertakeFacts DEF LooksAt
<1> QED BY <1>1, <1>2, <1>3 DEF Deleting, Hidden

LEMMA LooksAtKeeps ==
  ASSUME DirectoriesConstants, IInv, NEW i \in Items, LooksAt(i)
  PROVE  Requests' /\ Uploading' /\ NoRow' /\ NoInsert' /\ NoAnswerOf' /\ NoGhost' /\ ListInv'
<1> USE DEF IInv
<1>1. /\ \A t \in Threads :
           /\ thread'[t].at = thread[t].at /\ thread'[t].look = thread[t].look
           /\ thread'[t].from = thread[t].from /\ thread'[t].to = thread[t].to
           /\ thread'[t].item = thread[t].item /\ thread'[t].other = thread[t].other
           /\ thread'[t].answer = thread[t].answer /\ thread'[t].map = thread[t].map
           /\ thread'[t].overtaken = IF thread[t].at \in UnderWay THEN thread[t].overtaken \cup {i}
                                     ELSE thread[t].overtaken
      /\ upload' # NoUpload => /\ upload # NoUpload /\ upload'.file = upload.file
                               /\ upload'.item = upload.item
                               /\ upload'.overtaken = upload.overtaken \cup {i}
  BY OvertakeFacts DEF LooksAt
<1>2. /\ \A j \in Items \ {i} : /\ Alive(j)' <=> Alive(j)
                                /\ Trusted(j)' <=> Trusted(j)
                                /\ Reliable(j)' <=> Reliable(j)
      /\ \A j : /\ Deleting(j, Hidden)' <=> Deleting(j, Hidden)
                /\ Deleting(j, {"forget"})' <=> Deleting(j, {"forget"})
                /\ Deleting(j, {"tombstone"})' <=> Deleting(j, {"tombstone"})
  BY LooksAtFacts
<1>3. /\ UNCHANGED <<server, used, ghost, unseen, row, tombs, called, gone, astray>>
      /\ delta'.seen = delta.seen /\ delta'.todo \ {i} = delta.todo \ {i}
      /\ Named' = Named \cup {None}
      /\ server[i] # Nowhere /\ Reliable(i)' => ~Mapped(server[i].in)'
  BY DEF LooksAt
<1>4. \A j \in Items \ {i} : \A p : Placed(j, p)' <=> Placed(j, p)
  BY <1>2, <1>3 DEF Placed
<1>5. Requests'
  <2> SUFFICES ASSUME NEW t \in Threads
               PROVE  Asked(thread[t])'
    BY DEF Requests
  <2>1. Asked(thread[t])
    BY DEF Requests
  <2>2. thread[t].at \in UnderWay => \A j \in Items : j \notin thread'[t].overtaken =>
          j # i /\ j \notin thread[t].overtaken
    BY <1>1
  <2>3. thread[t].at \in {"store", "upsert", "remap", "enter"} => thread[t].at \in UnderWay
    BY DEF UnderWay
  <2>4. thread[t] \in Records
    BY Working
  <2>5. CASE thread[t].at = "store"
    <3>1. \A j \in Items : thread[t].answer[j] # Nowhere =>
            /\ thread[t].answer[j].in = thread[t].look.in
            /\ j \notin thread'[t].overtaken => Placed(j, thread[t].answer[j])'
      <4> SUFFICES ASSUME NEW j \in Items, thread[t].answer[j] # Nowhere
                   PROVE  /\ thread[t].answer[j].in = thread[t].look.in
                          /\ j \notin thread'[t].overtaken => Placed(j, thread[t].answer[j])'
        OBVIOUS
      <4>1. PICK p : p = thread[t].answer[j] /\ p = thread'[t].answer[j]
        BY <1>1
      <4>2. p.in = thread[t].look.in /\ (j \notin thread'[t].overtaken => Placed(j, p))
        BY <2>1, <2>2, <2>3, <2>5, <4>1 DEF Asked, Placed
      <4>3. j \notin thread'[t].overtaken => Placed(j, p)'
        BY <1>4, <2>2, <2>3, <2>5, <4>2
      <4>4. Placed(j, p)' => Placed(j, thread[t].answer[j])'
        BY <4>1 DEF Placed
      <4> QED BY <4>1, <4>2, <4>3, <4>4
    <3>2. \A n \in Names : thread[t].map[n] \in Items \ thread'[t].overtaken => Alive(thread[t].map[n])'
      <4> SUFFICES ASSUME NEW n \in Names, NEW j \in Items, j = thread[t].map[n], j = thread'[t].map[n],
                          j \notin thread'[t].overtaken
                   PROVE  Alive(j)'
        BY <1>1 DEF Alive
      <4> QED BY <1>2, <2>1, <2>2, <2>3, <2>5 DEF Asked, Alive
    <3> QED BY <1>1, <2>5, <3>1, <3>2 DEF Asked, Placed, Alive, Trusted
  <2>6. CASE thread[t].at \in {"upsert", "remap", "enter"}
    <3> DEFINE q == IF thread[t].at = "enter" THEN thread[t].from ELSE thread[t].to
    <3> SUFFICES ASSUME NEW j \in Items, j = thread[t].item, j \notin thread'[t].overtaken
                 PROVE  Placed(j, q)'
      BY <1>1, <2>6 DEF Asked, Placed, Alive, Trusted
    <3>1. Placed(j, q)
      BY <2>1, <2>2, <2>3, <2>6 DEF Asked
    <3>2. q' = q
      BY <1>1
    <3> QED BY <1>1, <1>2, <1>3, <2>2, <2>3, <2>6, <3>1, <3>2 DEF Placed
  <2>7. CASE thread[t].at \notin {"store", "upsert", "remap", "enter"}
    BY <1>1, <2>7 DEF Asked
  <2> QED BY <2>5, <2>6, <2>7
<1>6. Uploading'
  BY <1>1, <1>2, <1>3 DEF Uploading
<1>7. NoRow'
  BY <1>2, <1>3 DEF GoneInv, NoRow
<1>8. NoInsert'
  BY <1>2, <1>3 DEF GoneInv, NoInsert, Types, HistoryTypes, DirectoriesConstants
<1>9. NoAnswerOf'
  <2> SUFFICES ASSUME NEW t \in Threads
               PROVE  Spared(thread[t])'
    BY DEF NoAnswerOf
  <2>1. Spared(thread[t]) /\ Controlled(thread[t])
    BY Working DEF GoneInv, NoAnswerOf
  <2>2. thread[t].at \notin UnderWay => thread[t].answer = NoAnswer /\ thread[t].map = EmptyMap
    BY <2>1 DEF Controlled, UnderWay
  <2>3. gone' = gone /\ gone \subseteq Items /\ None \notin Items /\ tombs' = tombs /\ ghost' = ghost
    BY <1>3 DEF Types, HistoryTypes, DirectoriesConstants
  <2>4. ASSUME NEW j \in gone \ thread'[t].overtaken, thread[t].answer[j] # Nowhere
        PROVE  j \in tombs \cup astray /\ Reportable(j)'
    <3>1. thread[t].at \in UnderWay
      BY <2>2, <2>3, <2>4 DEF NoAnswer
    <3>2. j # i /\ j \notin thread[t].overtaken
      BY <1>1, <2>4, <3>1
    <3>3. j \in tombs \cup astray /\ Reportable(j)
      BY <2>1, <2>4, <3>2 DEF Spared
    <3> QED BY <1>3, <3>2, <3>3 DEF Reportable
  <2>5. ASSUME NEW n \in Names, NEW j \in gone \ thread'[t].overtaken, j = thread[t].map[n]
        PROVE  j \in astray /\ Reportable(j)'
    <3>1. thread[t].at \in UnderWay
      BY <2>2, <2>3, <2>5 DEF EmptyMap
    <3>2. j # i /\ j \notin thread[t].overtaken
      BY <1>1, <2>5, <3>1
    <3>3. j \in astray /\ Reportable(j)
      BY <2>1, <2>5, <3>2 DEF Spared
    <3> QED BY <1>3, <3>2, <3>3 DEF Reportable
  <2>6. thread[t].at \in {"upsert", "remap", "enter"} => thread[t].item \notin gone
    BY <2>1 DEF Spared, Reportable
  <2> QED BY <1>1, <1>3, <2>3, <2>4, <2>5, <2>6 DEF Spared
<1>10. Shrinks
  BY DEF LooksAt
<1>11. \A f \in Folders : kids'[f] # NoMap => Mapped(f) /\ kids'[f] = kids[f] /\ (f \in behind => f \in behind')
  BY <1>10, ShrinkFacts DEF Mapped
<1>12. \A j \in Items : server[j] # Nowhere => server[j].in \in Folders
  BY PlaceFields DEF Types, ServerTypes, Answers
<1>13. Listed'
  <2> SUFFICES ASSUME NEW j \in Items, Reliable(j)', server[j] # Nowhere, ~Deleting(j, Hidden),
                      kids'[server[j].in] # NoMap
               PROVE  server[j].in \in behind' \/ kids'[server[j].in][server[j].name] = j
    BY <1>2, <1>3 DEF Listed, Mapped
  <2>1. j # i /\ Reliable(j)
    BY <1>2, <1>3 DEF Mapped
  <2> QED BY <1>11, <1>12, <2>1 DEF ListInv, Listed
<1>14. Completing'
  <2> SUFFICES ASSUME NEW t \in Threads
               PROVE  Complete(thread[t])'
    BY DEF Completing
  <2>1. Complete(thread[t])
    BY DEF ListInv, Completing
  <2>2. CASE thread[t].at = "store"
    BY <1>1, <2>2 DEF Complete, UnderWay
  <2>5. thread'[t].overtaken \subseteq thread[t].overtaken \cup {i}
    BY <1>1
  <2>3. CASE thread[t].at \in {"upsert", "remap"}
    <3> SUFFICES ASSUME NEW j \in Items, j = thread[t].item, j \in thread'[t].overtaken, Reliable(j)',
                        server[j] # Nowhere, kids'[server[j].in] # NoMap
                 PROVE  server[j].in \in behind'
      BY <1>1, <1>3, <2>3 DEF Complete, Reliable, Mapped, Due
    <3>1. j # i /\ Reliable(j)
      BY <1>2, <1>3 DEF Mapped
    <3>2. j \in thread[t].overtaken
      BY <2>5, <3>1
    <3>3. Mapped(server[j].in) /\ (server[j].in \in behind => server[j].in \in behind')
      BY <1>11, <1>12
    <3> QED BY <2>1, <2>3, <3>1, <3>2, <3>3 DEF Complete, Reliable, Due
  <2>4. CASE thread[t].at \notin {"store", "upsert", "remap"}
    BY <1>1, <2>4 DEF Complete
  <2> QED BY <2>2, <2>3, <2>4
<1>15. NoGhost'
  BY <1>2, <1>3 DEF GoneInv, NoGhost
<1> QED BY <1>5, <1>6, <1>7, <1>8, <1>9, <1>13, <1>14, <1>15 DEF ListInv

LEMMA DeltaDeletedKeeps ==
  ASSUME DirectoriesConstants, IInv, NEW i \in Items, DeltaDeleted(i)
  PROVE  IInv'
<1> USE DEF IInv
<1>1. /\ UNCHANGED <<server, used, ghost, unseen, row, tombs, called, gone, astray>>
      /\ i \in delta.todo /\ delta.item = None /\ delta.seen[i] = Nowhere
      /\ delta' = [delta EXCEPT !.todo = @ \ {i}, !.drops = @ \cup {i}]
      /\ cached' = cached \ {i} /\ kids' = Invalidate({row[i].in}) /\ Overtake(i) /\ Behind({})
  BY DEF DeltaDeleted, remote, sqlite
<1>2. /\ delta'.todo = delta.todo \ {i} /\ delta'.drops = delta.drops \cup {i} /\ delta'.item = None
      /\ delta'.inserts = delta.inserts /\ delta'.seen = delta.seen /\ delta' \in Responses
  BY <1>1 DEF Types, Responses
<1>3. Shrinks /\ \A f \in Folders : f \in behind' => f \in behind
  BY <1>1, BehindShrinks DEF Types
<1>4. server[i] = Nowhere /\ ghost[i] = Nowhere /\ i \in used /\ i \notin unseen /\ None \notin Items
  BY <1>1 DEF Response, SeenDead, DirectoriesConstants
<1>5. Named' = Named /\ (Due' \cap Items) \ {i} = (Due \cap Items) \ {i} /\ i \notin Due' /\ Pending' = Pending
  BY <1>1, <1>2, <1>4 DEF Named, Reported, Due, Pending
<1>6. LooksAt(i)
  BY <1>1, <1>2, <1>3, <1>4, <1>5 DEF LooksAt, Named
<1>7. Requests' /\ Uploading' /\ NoRow' /\ NoInsert' /\ NoAnswerOf' /\ NoGhost' /\ ListInv'
  BY <1>6, LooksAtKeeps
<1>8. Types' /\ Control'
  <2>1. thread' \in [Threads -> Records] /\ upload' \in UploadRecords /\ Control'
    BY <1>1, OvertakeFacts
  <2>2. kids' \in [Folders -> Maps \cup {NoMap}] /\ behind' \subseteq Folders
    BY <1>1 DEF Types, CacheTypes, HistoryTypes, Invalidate, Behind
  <2> QED BY <1>1, <1>2, <2>1, <2>2 DEF Types, ServerTypes, CacheTypes, HistoryTypes
<1>9. Server'
  BY <1>1 DEF Server, Unique, Existing, GoneIsGone, GhostsAreGone, GhostsAreAlone,
    TombsHaveReasons, LocalsAreCalled
<1>10. Response'
  <2>1. Parted' /\ SeenWell'
    BY <1>1, <1>2, <1>4 DEF Response, Parted, SeenWell, Reported
  <2>2. SeenTrue' /\ SeenDead' /\ SeenUsed'
    BY <1>1, <1>2, <1>5 DEF Response, SeenTrue, SeenDead, SeenUsed
  <2> QED BY <2>1, <2>2 DEF Response
<1>11. RowsInv'
  BY <1>1, <1>5 DEF RowsInv
<1>12. \A f \in Folders : \A j : j \in Kids(f)' => j \in Kids(f) /\ (f \in behind => f \in behind')
  BY <1>3, ShrinkFacts DEF Shrinks
<1>13. NoName'
  BY <1>1, <1>6, <1>12, LooksAtFacts DEF GoneInv, NoName
<1>14. DeadInv'
  <2> SUFFICES ASSUME NEW j \in Items, Dead(j)', j \in cached' \/ (row'[j] # Nowhere /\ j \notin delta'.drops),
                      NEW f \in Folders, j \in Kids(f)'
               PROVE  f \in behind'
    BY DEF DeadInv
  <2>1. j # i /\ Dead(j)
    BY <1>1, <1>2, <1>6, LooksAtFacts
  <2> QED BY <1>1, <1>2, <1>12, <2>1 DEF DeadInv
<1> QED BY <1>7, <1>8, <1>9, <1>10, <1>11, <1>13, <1>14 DEF GoneInv

LEMMA DeltaInsertKeeps ==
  ASSUME DirectoriesConstants, IInv, DeltaInsert
  PROVE  IInv'
<1> USE DEF IInv
<1>d. delta \in Responses /\ None \notin Items /\ delta.item # None
  BY DEF DeltaInsert, InsertAnd, Types, DirectoriesConstants
<1>i. PICK i \in Items : i = delta.item
  BY <1>d DEF Responses
<1>p. PICK place \in Spots : place = delta.seen[i]
  BY <1>d DEF Responses, Answers
<1>0. i = delta.item /\ place = delta.seen[i]
  BY <1>i, <1>p
<1>1. /\ UNCHANGED <<server, used, ghost, unseen, row, tombs, called, gone, astray>>
      /\ i # None /\ cached' = cached \cup {i} /\ kids' = Invalidate({place.in})
      /\ delta' = [delta EXCEPT !.item = None, !.inserts = @ \cup {i}]
      /\ Overtake(i) /\ Behind(Showing({i}))
  BY <1>i, <1>p DEF DeltaInsert, InsertAnd, remote, sqlite
<1>2. /\ delta'.todo = delta.todo /\ delta'.drops = delta.drops /\ delta'.item = None
      /\ delta'.inserts = delta.inserts \cup {i} /\ delta'.seen = delta.seen /\ delta' \in Responses
      /\ i \in Items /\ place \in Spots /\ None \notin Items
  BY <1>1, <1>d DEF Responses
<1>3. /\ Shrinks /\ (\A f \in Folders \cap {place.in} : kids'[f] = NoMap)
      /\ \A f \in Folders : f \in Showing({i}) /\ kids'[f] # NoMap => f \in behind'
  <2>1. CacheTypes
    BY DEF Types
  <2>2. Shrinks /\ (\A f \in Folders \cap {place.in} : kids'[f] = NoMap)
        /\ \A f \in Folders : (f \in behind \cup Showing({i}) /\ kids'[f] # NoMap) <=> f \in behind'
    BY ONLY <1>1, <2>1, BehindShrinks
  <2> QED BY <2>2
<1>4. place # Nowhere /\ i \notin delta.todo /\ i \notin delta.inserts /\ i \notin delta.drops
      /\ place.in \in Folders
  BY <1>0, <1>1, <1>2, PlaceFields DEF Response, Parted, SeenWell, Reported
<1>5. Named' = Named \cup {None} /\ (Due' \cap Items) \ {i} = (Due \cap Items) \ {i} /\ (i \in Due' => i \in unseen)
      /\ Pending' = Pending \cup {None}
  <2>1. Reported' = Reported \cup {i}
    BY <1>2 DEF Reported
  <2>2. i \in Named /\ i \in Pending
    BY <1>0 DEF Named, Pending, Due
  <2>3. Due' = unseen \cup delta.todo \cup {None} /\ Due = unseen \cup delta.todo \cup {i}
    BY <1>0, <1>1, <1>2 DEF Due
  <2>4. Named' = delta.todo \cup {None} \cup Reported' /\ Named = delta.todo \cup {i} \cup Reported
    BY <1>0, <1>1, <1>2 DEF Named
  <2>5. Named' = Named \cup {None} /\ (Due' \cap Items) \ {i} = (Due \cap Items) \ {i} /\ (i \in Due' => i \in unseen)
    BY <1>2, <1>4, <2>1, <2>3, <2>4
  <2>6. Pending' = Pending \cup {None}
    BY <2>1, <2>3 DEF Pending
  <2> QED BY <2>5, <2>6
<1>6. i \notin unseen => server[i] = place
  BY <1>0, <1>2 DEF Response, SeenTrue, Named
<1>7. LooksAt(i)
  <2>1. Reliable(i)' => i \notin unseen
    BY <1>1 DEF Reliable, Due
  <2>2. Reliable(i)' => ~Mapped(server[i].in)'
    <3>1. Reliable(i)' => server' = server /\ server[i].in \in Folders \cap {place.in}
      BY <1>1, <1>4, <1>6, <2>1
    <3> QED BY <1>3, <3>1 DEF Mapped
  <2> QED BY <1>1, <1>2, <1>3, <1>5, <2>2 DEF LooksAt
<1>8. Requests' /\ Uploading' /\ NoRow' /\ NoInsert' /\ NoAnswerOf' /\ NoGhost' /\ ListInv'
  BY <1>2, <1>7, LooksAtKeeps
<1>9. Types' /\ Control'
  <2>1. thread' \in [Threads -> Records] /\ upload' \in UploadRecords /\ Control'
    BY <1>1, <1>2, OvertakeFacts
  <2>2. kids' \in [Folders -> Maps \cup {NoMap}] /\ behind' \subseteq Folders
    BY <1>1 DEF Types, CacheTypes, HistoryTypes, Invalidate, Behind, Showing
  <2> QED BY <1>1, <1>2, <2>1, <2>2
          DEF Types, ServerTypes, CacheTypes, HistoryTypes, Ids
<1>10. Server'
  <2>1. LocalsAreCalled'
    BY <1>1, <1>2 DEF Server, LocalsAreCalled, DirectoriesConstants
  <2> QED BY <1>1, <2>1 DEF Server, Unique, Existing, GoneIsGone, GhostsAreGone,
          GhostsAreAlone, TombsHaveReasons
<1>11. Response'
  <2>1. Parted' /\ SeenWell'
    BY <1>0, <1>1, <1>2, <1>4 DEF Response, Parted, SeenWell, Reported, Types, Responses
  <2>2. SeenTrue' /\ SeenDead' /\ SeenUsed'
    BY <1>0, <1>1, <1>2, <1>5 DEF Response, SeenTrue, SeenDead, SeenUsed
  <2> QED BY <2>1, <2>2 DEF Response
<1>12. RowsInv'
  BY <1>1, <1>5 DEF RowsInv
<1>13. \A f \in Folders :
         /\ \A j : j \in Kids(f)' => j \in Kids(f) /\ (f \in behind => f \in behind')
         /\ i \in Kids(f)' => f \in behind'
  <2>1. \A f \in Folders : \A j : j \in Kids(f)' => j \in Kids(f) /\ kids'[f] # NoMap /\ (f \in behind => f \in behind')
    BY <1>3, ShrinkFacts DEF Shrinks
  <2>2. \A f \in Folders : i \in Kids(f) => f \in Showing({i})
    BY DEF Showing
  <2> QED BY <1>3, <2>1, <2>2
<1>14. NoName'
  BY <1>1, <1>2, <1>7, <1>13, LooksAtFacts DEF GoneInv, NoName
<1>15. DeadInv'
  <2> SUFFICES ASSUME NEW j \in Items, Dead(j)', j \in cached' \/ (row'[j] # Nowhere /\ j \notin delta'.drops),
                      NEW f \in Folders, j \in Kids(f)'
               PROVE  f \in behind'
    BY DEF DeadInv
  <2>1. CASE j = i
    BY <1>13, <2>1
  <2>2. CASE j # i
    <3>1. Dead(j)
      BY <1>2, <1>7, <2>2, LooksAtFacts
    <3> QED BY <1>1, <1>2, <1>13, <2>2, <3>1 DEF DeadInv
  <2> QED BY <2>1, <2>2
<1> QED BY <1>8, <1>9, <1>10, <1>11, <1>12, <1>14, <1>15 DEF GoneInv

(* A changed item with a tombstone is one that a rename has hidden.        *)
LEMMA DeltaCheckKeeps ==
  ASSUME DirectoriesConstants, IInv, NEW i \in Items, DeltaCheck(i)
  PROVE  IInv'
<1> USE DEF IInv
<1>1. /\ UNCHANGED <<server, used, ghost, unseen, row, tombs, cached, called, kids, thread, upload,
                     gone, astray, behind>>
      /\ i \in delta.todo /\ delta.item = None /\ delta.seen[i] # Nowhere
      /\ delta' = [delta EXCEPT !.todo = @ \ {i}, !.item = IF i \in tombs THEN None ELSE i]
  BY DEF DeltaCheck, remote, sqlite, memory, history
<1>2. /\ delta'.todo = delta.todo \ {i} /\ delta'.drops = delta.drops
      /\ delta'.item = (IF i \in tombs THEN None ELSE i)
      /\ delta'.inserts = delta.inserts /\ delta'.seen = delta.seen /\ delta' \in Responses
      /\ Reported' = Reported /\ None \notin Items
  BY <1>1 DEF Types, Responses, Reported, DirectoriesConstants
<1>3. i \notin Reported
  BY <1>1 DEF Response, Parted
<1>4. i \in tombs /\ i \notin unseen => server[i] # Nowhere /\ i \in astray /\ i \notin gone
  <2>1. i \notin unseen => server[i] # Nowhere
    BY <1>1 DEF Response, SeenTrue, Named
  <2> QED BY <2>1 DEF Server, TombsHaveReasons, GoneIsGone
<1>5. \A j \in Items : /\ j # i => (j \in Due' <=> j \in Due)
                       /\ i \notin tombs => (j \in Due' <=> j \in Due)
                       /\ j \in Due => j \in Due' \/ (j = i /\ i \in tombs /\ i \notin unseen)
                       /\ j \in Due' => j \in Due
  BY <1>1, <1>2 DEF Due
<1>6. \A j \in Items : /\ Alive(j) => Alive(j)'
                       /\ Trusted(j)' => Trusted(j)
                       /\ Reliable(j)' => Reliable(j)
                       /\ Dead(j)' => Dead(j)
  BY <1>1, <1>2, <1>3, <1>4, <1>5 DEF Alive, Trusted, Reliable, Dead, Reported
<1>7. Types' /\ Control' /\ Server'
  BY <1>1, <1>2 DEF Types, ServerTypes, CacheTypes, HistoryTypes, Control, Alone,
    Server, Unique, Existing,
     GoneIsGone, GhostsAreGone, GhostsAreAlone, TombsHaveReasons, LocalsAreCalled
<1>8. \A j \in Items : j \in Named' => j \in Named
  BY <1>1, <1>2 DEF Named
<1>9. Response'
  <2>1. Parted' /\ SeenWell'
    BY <1>1, <1>2, <1>3 DEF Response, Parted, SeenWell, Types, Responses
  <2>2. SeenTrue' /\ SeenDead' /\ SeenUsed'
    BY <1>1, <1>2, <1>8 DEF Response, SeenTrue, SeenDead, SeenUsed
  <2> QED BY <2>1, <2>2 DEF Response
<1>10. Requests' /\ Uploading'
  BY <1>1, <1>6 DEF Requests, Asked, Placed, Uploading
<1>11. RowsInv'
  BY <1>1, <1>2, <1>4, <1>5 DEF RowsInv, Pending
<1>12. GoneInv'
  <2>1. NoRow' /\ NoName'
    BY <1>1 DEF GoneInv, NoRow, NoName, Deleting, Kids
  <2>2. NoInsert'
    BY <1>1, <1>2, <1>8 DEF GoneInv, NoInsert, Deleting, Types, HistoryTypes
  <2>3. NoAnswerOf'
    BY <1>1, <1>2 DEF GoneInv, NoAnswerOf, Spared, Reportable
  <2>4. NoGhost'
    BY <1>1 DEF GoneInv, NoGhost, Deleting
  <2> QED BY <2>1, <2>2, <2>3, <2>4 DEF GoneInv
<1>13. DeadInv'
  BY <1>1, <1>2, <1>6 DEF DeadInv, Kids
<1>14. ListInv'
  BY <1>1, <1>6 DEF ListInv, Listed, Completing, Complete, Deleting, Mapped
<1> QED BY <1>7, <1>9, <1>10, <1>11, <1>12, <1>13, <1>14

LEMMA NoDeltaFacts ==
  ASSUME DirectoriesConstants, delta' = NoDelta
  PROVE  /\ delta'.todo = {} /\ delta'.item = None /\ delta'.inserts = {} /\ delta'.drops = {}
         /\ delta' \in Responses /\ Reported' = {} /\ Named' = {None} /\ None \notin Items /\ Response'
         /\ Due' = unseen' \cup {None} /\ Pending' = Due'
<1>1. /\ delta'.todo = {} /\ delta'.item = None /\ delta'.inserts = {} /\ delta'.drops = {}
      /\ delta'.seen = NoAnswer /\ delta' \in Responses
  BY EmptyTypes DEF NoDelta
<1>2. Reported' = {} /\ Named' = {None} /\ Due' = unseen' \cup {None} /\ Pending' = Due' /\ None \notin Items
  BY <1>1 DEF Reported, Named, Due, Pending, DirectoriesConstants
<1>3. Response'
  BY <1>1, <1>2 DEF Response, Parted, SeenWell, SeenTrue, SeenDead, SeenUsed, NoAnswer
<1> QED BY <1>1, <1>2, <1>3

LEMMA DeltaApplyKeeps ==
  ASSUME DirectoriesConstants, IInv, DeltaApply
  PROVE  IInv'
<1> USE DEF IInv
<1> DEFINE stored == delta.inserts \ tombs
<1>1. /\ UNCHANGED <<server, used, ghost, unseen, cached, called, kids, thread, upload, gone, behind>>
      /\ delta.todo = {} /\ delta.item = None /\ delta' = NoDelta
      /\ tombs' = tombs \ delta.drops /\ astray' = astray \ (delta.drops \cup (stored \ gone))
      /\ \A id \in Ids : row'[id] = IF id \in delta.drops THEN Nowhere
                                    ELSE IF id \in stored THEN delta.seen[id] ELSE row[id]
      /\ row' = [id \in Ids |-> row'[id]]
  <2>1. stored \ gone = delta.inserts \ (tombs \cup gone)
    OBVIOUS
  <2> QED BY <2>1 DEF DeltaApply, Handled, remote, memory
<1>2. /\ Reported' = {} /\ Named' = {None} /\ None \notin Items /\ Response' /\ Due' = unseen' \cup {None}
      /\ Pending' = Due' /\ delta' \in Responses
      /\ delta'.todo = {} /\ delta'.item = None /\ delta'.inserts = {} /\ delta'.drops = {}
  BY <1>1, NoDeltaFacts
<1>3. delta.drops \subseteq Items /\ stored \subseteq Items /\ delta.seen \in Answers /\ Items \subseteq Ids
      /\ Items \cap Locals = {} /\ gone \subseteq Items
  BY DEF Types, Responses, HistoryTypes, Ids, DirectoriesConstants
<1>4. Due' = Due
  BY <1>1, <1>2 DEF Due
<1>5. \A j \in delta.drops : delta.seen[j] = Nowhere /\ server[j] = Nowhere /\ ghost[j] = Nowhere /\ j \notin Due
  <2>1. \A j \in delta.drops : delta.seen[j] = Nowhere /\ j \notin unseen /\ j # None
    BY <1>2, <1>3 DEF Response, SeenWell, SeenDead
  <2> QED BY <1>1, <2>1 DEF Response, SeenDead, Due
<1>6. \A j \in stored : delta.seen[j] # Nowhere /\ (j \notin Due => server[j] = delta.seen[j])
  <2>1. \A j \in stored : j \in Items \cap Named
    BY <1>3 DEF Named, Reported
  <2> QED BY <1>3, <2>1 DEF Response, SeenWell, SeenTrue, Due
<1>7. \A j \in Items : /\ Alive(j)' <=> Alive(j)
                       /\ Dead(j)' <=> Dead(j)
                       /\ Trusted(j)' => Trusted(j)
                       /\ Reliable(j)' /\ server[j] # Nowhere => Reliable(j)
  BY <1>1, <1>2, <1>4, <1>5 DEF Alive, Dead, Trusted, Reliable, Reported
<1> HIDE DEF stored
<1>8. Types' /\ Control'
  <2>1. row' \in [Ids -> Spots]
    BY <1>1, <1>3, SpotsType DEF Types, CacheTypes, Answers
  <2> QED BY <1>1, <1>2, <2>1 DEF Types, ServerTypes, CacheTypes, HistoryTypes,
          Control, Alone
<1>9. Server'
  <2>1. TombsHaveReasons'
    <3> SUFFICES ASSUME NEW j \in tombs' \cap Items, j \notin gone
                 PROVE  j \in astray'
      BY <1>1 DEF TombsHaveReasons
    <3>1. j \in astray
      BY <1>1 DEF Server, TombsHaveReasons
    <3> QED BY <1>1, <3>1 DEF stored
  <2>2. LocalsAreCalled'
    BY <1>1, <1>3 DEF Server, LocalsAreCalled, Ids
  <2> QED BY <1>1, <2>1, <2>2 DEF Server, Unique, Existing, GoneIsGone, GhostsAreGone,
          GhostsAreAlone
<1>10. Requests' /\ Uploading'
  BY <1>1, <1>7 DEF Requests, Asked, Placed, Uploading
<1>11. RowsInv'
  <2> SUFFICES ASSUME NEW j \in Items, j \notin astray', j \notin Due
               PROVE  row'[j] = server[j]
    BY <1>1, <1>2, <1>4 DEF RowsInv
  <2>1. CASE j \in delta.drops
    BY <1>1, <1>3, <1>5, <2>1
  <2>2. CASE j \notin delta.drops /\ j \in stored
    BY <1>1, <1>3, <1>6, <2>2
  <2>3. CASE j \notin delta.drops /\ j \notin stored
    <3>1. row'[j] = row[j] /\ j \notin astray
      BY <1>1, <1>3, <2>3
    <3>2. CASE j \notin delta.inserts
      <4>1. j \notin Pending
        BY <2>3, <3>2 DEF Pending, Reported
      <4> QED BY <3>1, <4>1 DEF RowsInv
    <3>3. CASE j \in delta.inserts
      <4>1. j \in gone
        BY <2>3, <3>1, <3>3 DEF Server, TombsHaveReasons, stored
      <4>2. delta.seen[j] # Nowhere /\ (j \notin unseen => server[j] = delta.seen[j])
        BY <3>3 DEF Response, SeenWell, SeenTrue, Named, Reported
      <4> QED BY <4>1, <4>2 DEF Server, GoneIsGone, Due
    <3> QED BY <3>2, <3>3
  <2> QED BY <2>1, <2>2, <2>3
<1>12. \A j \in gone \cap stored : Deleting(j, Hidden) \/ j \in astray
  BY <1>3, <1>6 DEF GoneInv, NoInsert, Named, Reported, stored
<1>13. NoRow'
  <2> SUFFICES ASSUME NEW j \in gone, j \notin astray', ~Deleting(j, Hidden)
               PROVE  row'[j] = Nowhere
    BY <1>1 DEF NoRow, Deleting
  <2>1. CASE j \in delta.drops
    BY <1>1, <1>3, <2>1
  <2>2. CASE j \notin delta.drops
    <3>1. j \notin astray
      BY <1>1, <2>2
    <3>2. j \notin stored /\ row'[j] = row[j]
      BY <1>1, <1>3, <1>12, <2>2, <3>1
    <3> QED BY <3>1, <3>2 DEF GoneInv, NoRow
  <2> QED BY <2>1, <2>2
<1>14. NoName'
  <2> SUFFICES ASSUME NEW j \in gone, j \in astray' => Deleting(j, {"tombstone"}),
                      ~Deleting(j, {"forget"}), j \in cached, NEW f \in Folders, j \in Kids(f)
               PROVE  f \in behind
    BY <1>1 DEF NoName, Deleting, Kids
  <2>1. CASE j \in delta.drops
    <3>1. Dead(j) /\ j \in Items
      BY <1>3, <1>5, <2>1 DEF Dead
    <3> QED BY <3>1 DEF DeadInv
  <2>2. CASE j \notin delta.drops /\ j \in stored
    <3>1. Deleting(j, Hidden) \/ Deleting(j, {"tombstone"})
      BY <1>1, <1>12, <2>2
    <3>2. Deleting(j, {"tombstone"})
      BY <3>1 DEF Deleting, Hidden
    <3> QED BY <3>2 DEF GoneInv, NoName
  <2>3. CASE j \notin delta.drops /\ j \notin stored
    BY <1>1, <2>3 DEF GoneInv, NoName
  <2> QED BY <2>1, <2>2, <2>3
<1>15. NoInsert'
  BY <1>1, <1>2, <1>3 DEF NoInsert
<1>16. NoAnswerOf'
  <2> SUFFICES ASSUME NEW t \in Threads
               PROVE  Spared(thread[t])'
    BY DEF NoAnswerOf
  <2>1. Spared(thread[t])
    BY DEF GoneInv, NoAnswerOf
  <2>2. \A j \in gone : Reportable(j) =>
          /\ Reportable(j)' /\ j \notin delta.drops
          /\ (j \in tombs => j \in tombs') /\ (j \in astray => j \in astray')
    BY <1>1, <1>5 DEF Reportable
  <2> QED BY <1>1, <2>1, <2>2 DEF Spared
<1>17. DeadInv'
  <2> SUFFICES ASSUME NEW j \in Items, Dead(j), j \in cached \/ row'[j] # Nowhere,
                      NEW f \in Folders, j \in Kids(f)
               PROVE  f \in behind
    BY <1>1, <1>2, <1>7 DEF DeadInv, Kids
  <2>1. row'[j] # Nowhere => j \notin delta.drops /\ row[j] # Nowhere
    BY <1>1, <1>3, <1>6 DEF Dead
  <2> QED BY <2>1 DEF DeadInv
<1>18. ListInv'
  <2>1. Listed'
    BY <1>1, <1>7 DEF ListInv, Listed, Deleting, Mapped
  <2>2. Completing'
    <3> SUFFICES ASSUME NEW t \in Threads
                 PROVE  Complete(thread[t])'
      BY DEF Completing
    <3>1. Complete(thread[t])
      BY DEF ListInv, Completing
    <3>2. thread[t].at = "store" => thread[t].look.in \in Folders
      BY Looking
    <3>3. \A j \in Items : server[j].in \in Folders => server[j] # Nowhere
      BY PlaceFields DEF Types, ServerTypes, Answers, DirectoriesConstants, Nowhere
    <3> QED BY <1>1, <1>7, <3>1, <3>2, <3>3 DEF Complete, Mapped
  <2> QED BY <2>1, <2>2 DEF ListInv
<1>19. NoGhost'
  <2>1. \A j \in Items : ghost[j] # Nowhere => j \in gone /\ j \notin delta.drops
    BY <1>5 DEF Server, GhostsAreGone
  <2> QED BY <1>1, <2>1 DEF GoneInv, NoGhost, Deleting
<1> QED BY <1>2, <1>8, <1>9, <1>10, <1>11, <1>13, <1>14, <1>15, <1>16, <1>17, <1>18,
        <1>19 DEF GoneInv

LEMMA DeltaFailsKeeps ==
  ASSUME DirectoriesConstants, IInv, DeltaFails
  PROVE  IInv'
<1> USE DEF IInv
<1>1. /\ UNCHANGED <<server, used, ghost, row, tombs, cached, called, kids, thread, upload, gone, astray, behind>>
      /\ delta.todo = {} /\ delta.item = None /\ delta' = NoDelta
      /\ unseen' = unseen \cup {i \in Items : i \in Reported \/ delta.seen[i] # Nowhere}
  BY DEF DeltaFails, Handled, sqlite, memory, history
<1>2. /\ Reported' = {} /\ Named' = {None} /\ None \notin Items /\ Response' /\ Due' = unseen' \cup {None}
      /\ Pending' = Due' /\ delta' \in Responses
      /\ delta'.todo = {} /\ delta'.item = None /\ delta'.inserts = {} /\ delta'.drops = {}
  BY <1>1, NoDeltaFacts
<1>3. Reported \subseteq Items /\ unseen \subseteq Items /\ gone \subseteq Items
  BY DEF Types, Responses, Reported, ServerTypes, HistoryTypes
<1>4. \A j \in Items : /\ j \in Due => j \in Due'
                       /\ j \in Pending => j \in Due'
                       /\ j \in Reported => j \in Due'
  BY <1>1, <1>2 DEF Due, Pending
<1>5. \A j \in Items : /\ Alive(j) => Alive(j)'
                       /\ Dead(j)' => Dead(j) /\ j \notin delta.drops
                       /\ Trusted(j)' => Trusted(j)
                       /\ Reliable(j)' => Reliable(j)
  BY <1>1, <1>2, <1>4 DEF Alive, Dead, Trusted, Reliable, Reported
<1>6. Types' /\ Control'
  BY <1>1, <1>2, <1>3 DEF Types, ServerTypes, CacheTypes, HistoryTypes, Control, Alone
<1>7. Server'
  <2>1. unseen' \subseteq used
    <3>1. \A j \in Reported : j \in used
      BY <1>3 DEF Response, SeenWell, SeenDead, SeenUsed, Reported
    <3> QED BY <1>1, <3>1 DEF Server, Existing, Response, SeenUsed
  <2> QED BY <1>1, <2>1 DEF Server, Unique, Existing, GoneIsGone, GhostsAreGone,
          GhostsAreAlone, TombsHaveReasons, LocalsAreCalled
<1>8. Requests' /\ Uploading'
  BY <1>1, <1>5 DEF Requests, Asked, Placed, Uploading
<1>9. RowsInv'
  BY <1>1, <1>2, <1>4 DEF RowsInv
<1>10. GoneInv'
  <2>1. NoRow' /\ NoName'
    BY <1>1 DEF GoneInv, NoRow, NoName, Deleting, Kids
  <2>2. NoInsert'
    BY <1>1, <1>2, <1>3 DEF NoInsert
  <2>3. NoAnswerOf'
    BY <1>1, <1>2 DEF GoneInv, NoAnswerOf, Spared, Reportable
  <2>4. NoGhost'
    BY <1>1 DEF GoneInv, NoGhost, Deleting
  <2> QED BY <2>1, <2>2, <2>3, <2>4 DEF GoneInv
<1>11. DeadInv'
  BY <1>1, <1>2, <1>5 DEF DeadInv, Kids
<1>12. ListInv'
  BY <1>1, <1>5 DEF ListInv, Listed, Completing, Complete, Deleting, Mapped
<1> QED BY <1>2, <1>6, <1>7, <1>8, <1>9, <1>10, <1>11, <1>12

(* A thread that neither has anything in hand nor deletes goes on in peace,*)
(* after at most a look at rows; then nobody else may be deleting.         *)
LEMMA CalmMoveKeeps ==
  ASSUME DirectoriesConstants, IInv, NEW t \in Threads, thread[t].at \notin Hidden,
         thread' \in [Threads -> Records], Control', Calm(thread'[t]),
         \A o \in Threads \ {t} : thread'[o] = thread[o],
         NEW S \in SUBSET Ids, \A k \in S : row[k] # Nowhere, Reads(S),
         S = {} \/ \A j : ~Deleting(j, Hidden),
         UNCHANGED <<server, used, ghost, unseen, row, tombs, called, kids, delta, upload, gone, astray>>
  PROVE  IInv'
<1> USE DEF IInv
<1>1. UNCHANGED <<server, used, ghost, unseen, row, tombs, called, kids, delta, upload, gone, astray>>
  OBVIOUS
<1>2. cached' = cached \cup S /\ behind' = behind \cup Showing(S \cap delta.drops) /\ gone' \subseteq Items
  BY <1>1 DEF Reads, Types, HistoryTypes
<1>3. \A o \in Threads \ {t} : thread'[o] = thread[o]
  OBVIOUS
<1>4. Controlled(thread'[t]) /\ thread'[t].at \notin UnderWay \cup Hidden
  BY DEF Calm, Hidden
<1>5. Asked(thread[t])' /\ Spared(thread[t])' /\ Complete(thread[t])'
  BY <1>2, <1>4, CalmClauses
<1>6. \A j : /\ Deleting(j, Hidden)' <=> Deleting(j, Hidden)
             /\ Deleting(j, {"forget"})' <=> Deleting(j, {"forget"})
             /\ Deleting(j, {"tombstone"})' <=> Deleting(j, {"tombstone"})
  BY <1>3, <1>4, DeletingSame
<1>7. Types'
  BY <1>1, <1>2 DEF Types, ServerTypes, CacheTypes, HistoryTypes, Showing
<1>8. Server'
  BY <1>1, <1>2 DEF Server, Unique, Existing, GoneIsGone, GhostsAreGone,
    GhostsAreAlone, TombsHaveReasons, LocalsAreCalled
<1>9. Response' /\ Uploading' /\ RowsInv'
  BY <1>1 DEF Response, Parted, SeenWell, SeenTrue, SeenDead, SeenUsed, Named, Reported,
     Uploading, Alive, Due, RowsInv, Pending
<1>10. \A j : /\ Alive(j)' <=> Alive(j)
              /\ Trusted(j)' <=> Trusted(j)
              /\ Reliable(j)' <=> Reliable(j)
              /\ Dead(j)' <=> Dead(j)
  BY <1>1 DEF Alive, Trusted, Reliable, Dead, Due, Reported
<1>11. ASSUME NEW o \in Threads \ {t}
       PROVE  Asked(thread[o])' /\ Spared(thread[o])' /\ Complete(thread[o])'
  <2>1. Asked(thread[o]) /\ Spared(thread[o]) /\ Complete(thread[o])
    BY DEF Requests, GoneInv, NoAnswerOf, ListInv, Completing
  <2>2. Asked(thread[o])'
    BY <1>1, <1>3, <1>10, <2>1 DEF Asked, Placed
  <2>3. Spared(thread[o])'
    BY <1>1, <1>3, <2>1 DEF Spared, Reportable
  <2>4. Complete(thread[o])'
    BY <1>1, <1>2, <1>3, <1>10, <2>1 DEF Complete, Mapped
  <2> QED BY <2>2, <2>3, <2>4
<1>12. Requests' /\ NoAnswerOf' /\ Completing'
  BY <1>5, <1>11 DEF Requests, NoAnswerOf, Completing
<1>13. NoRow' /\ NoInsert' /\ NoGhost'
  BY <1>1, <1>6 DEF GoneInv, NoRow, NoInsert, NoGhost, Named, Reported
<1>14. NoName'
  <2> SUFFICES ASSUME NEW j \in gone, j \in astray => Deleting(j, {"tombstone"}),
                      ~Deleting(j, {"forget"}), j \in cached \/ j \in S, NEW f \in Folders, j \in Kids(f)
               PROVE  f \in behind
    BY <1>1, <1>2, <1>6 DEF NoName, Kids
  <2>1. CASE j \in cached
    BY <2>1 DEF GoneInv, NoName
  <2>2. CASE j \in S
    <3>1. ~Deleting(j, Hidden) /\ row[j] # Nowhere
      BY <2>2
    <3>2. ~Deleting(j, {"tombstone"})
      BY <3>1 DEF Deleting, Hidden
    <3> QED BY <3>1, <3>2 DEF GoneInv, NoRow
  <2> QED BY <2>1, <2>2
<1>15. DeadInv'
  <2>3. \A f : Kids(f)' = Kids(f)
    BY <1>1 DEF Kids
  <2> SUFFICES ASSUME NEW j \in Items, Dead(j), j \in cached \cup S \/ (row[j] # Nowhere /\ j \notin delta.drops),
                      NEW f \in Folders, j \in Kids(f)
               PROVE  f \in behind'
    BY <1>1, <1>2, <1>10, <2>3 DEF DeadInv
  <2>1. CASE j \in S \cap delta.drops
    BY <1>2, <2>1 DEF Showing
  <2>2. CASE j \notin S \cap delta.drops
    BY <1>2, <2>2 DEF DeadInv
  <2> QED BY <2>1, <2>2
<1>16. Listed'
  BY <1>1, <1>2, <1>6, <1>10 DEF ListInv, Listed, Mapped
<1> QED BY <1>7, <1>8, <1>9, <1>12, <1>13, <1>14, <1>15, <1>16 DEF GoneInv, ListInv

LEMMA NoReads == ASSUME UNCHANGED <<cached, behind>>
                 PROVE  Reads({}) /\ {} \in SUBSET Ids /\ \A k \in {} : row[k] # Nowhere
BY DEF Reads, Showing

LEMMA CalmStepKeeps ==
  ASSUME DirectoriesConstants, IInv, NEW t \in Threads, thread[t].at \notin Hidden, thread[t].at # "idle",
         GoesCalm(t), UNCHANGED <<remote, sqlite, memory, delta, upload, history>>
  PROVE  IInv'
<1>1. /\ thread' \in [Threads -> Records] /\ Control' /\ Calm(thread'[t])
      /\ \A o \in Threads \ {t} : thread'[o] = thread[o]
  BY CalmStep DEF IInv
<1>2. Reads({}) /\ {} \in SUBSET Ids /\ \A k \in {} : row[k] # Nowhere
  BY NoReads DEF memory, history
<1>3. UNCHANGED <<server, used, ghost, unseen, row, tombs, called, kids, delta, upload, gone, astray>>
  BY DEF remote, sqlite, memory, history
<1> QED BY <1>1, <1>2, <1>3, CalmMoveKeeps

LEMMA BeginKeeps ==
  ASSUME DirectoriesConstants, IInv, NEW t \in Threads, NEW job \in Jobs,
         NEW from \in Places, NEW to \in Places \cup {Nowhere}, Begin(t, job, from, to)
  PROVE  IInv'
<1>1. /\ thread[t] = Idle /\ thread' \in [Threads -> Records] /\ Control' /\ Calm(thread'[t])
      /\ \A o \in Threads \ {t} : thread'[o] = thread[o]
  BY BeginGoes DEF IInv
<1>2. Reads({}) /\ {} \in SUBSET Ids /\ \A k \in {} : row[k] # Nowhere
  BY NoReads DEF Begin, memory, history
<1>3. UNCHANGED <<server, used, ghost, unseen, row, tombs, called, kids, delta, upload, gone, astray>>
  BY DEF Begin, remote, sqlite, memory, history
<1>4. thread[t].at \notin Hidden
  BY <1>1, IdleCalm DEF Hidden
<1> QED BY <1>1, <1>2, <1>3, <1>4, CalmMoveKeeps

(* While one thread is at something else, none is deleting.                *)
LEMMA NobodyDeletes ==
  ASSUME Types, Control, NEW t \in Threads, thread[t].at \notin Hidden, thread[t].at # "idle", NEW j
  PROVE  ~Deleting(j, Hidden) /\ ~Deleting(j, {"forget"}) /\ ~Deleting(j, {"tombstone"})
<1>1. ASSUME NEW u \in Threads, thread[u].at \in Hidden
      PROVE  FALSE
  <2>1. thread[u].job \in Changing
    BY <1>1, Working DEF Controlled, Hidden, Changing
  <2>2. u # t
    BY <1>1
  <2>3. thread[t].at = "idle"
    BY <2>1, <2>2 DEF Control, Alone
  <2> QED BY <2>3
<1> QED BY <1>1 DEF Deleting, Hidden

LEMMA LookKeeps ==
  ASSUME DirectoriesConstants, IInv, NEW t \in Threads, Look(t) \/ Rows(t)
  PROVE  IInv'
<1>1. thread[t].at # "idle" /\ GoesCalm(t) /\ Browses
  BY LookGoes, RowsGoes DEF IInv
<1>2. thread[t].at \notin Hidden
  BY DEF Look, Rows, At, Hidden
<1>3. /\ thread' \in [Threads -> Records] /\ Control' /\ Calm(thread'[t])
      /\ \A o \in Threads \ {t} : thread'[o] = thread[o]
  BY <1>1, CalmStep DEF IInv
<1>4. \A j : ~Deleting(j, Hidden)
  BY <1>1, <1>2, NobodyDeletes DEF IInv
<1>5. PICK S \in SUBSET Ids : (\A k \in S : row[k] # Nowhere) /\ Reads(S)
  BY <1>1 DEF Browses
<1>6. UNCHANGED <<server, used, ghost, unseen, row, tombs, called, kids, delta, upload, gone, astray>>
  BY <1>1 DEF Browses, remote, sqlite
<1> QED BY <1>2, <1>3, <1>4, <1>5, <1>6, CalmMoveKeeps

(* The server answers a listing: with what it has, and with what is        *)
(* deleted but lingers, which has its tombstone by then.                   *)
LEMMA AskKeeps ==
  ASSUME DirectoriesConstants, IInv, NEW t \in Threads, Ask(t)
  PROVE  IInv'
<1> USE DEF IInv
<1>1. /\ thread[t].at = "ask" /\ UNCHANGED <<remote, sqlite, memory, delta, upload, history>>
      /\ \/ GoesCalm(t)
         \/ \E to \in Records :
              /\ Goes(t, to) /\ to.at = "store" /\ to.look = thread[t].look
              /\ to.answer = Listing(thread[t].look.in) /\ to.map = EmptyMap /\ to.overtaken = {}
  BY AskGoes
<1>2. CASE GoesCalm(t)
  BY <1>1, <1>2, CalmStepKeeps DEF Hidden
<1>3. ASSUME NEW to \in Records, Goes(t, to), to.at = "store", to.look = thread[t].look,
             to.answer = Listing(thread[t].look.in), to.map = EmptyMap, to.overtaken = {}
      PROVE  IInv'
  <2> DEFINE f == to.look.in
  <2>1. thread' \in [Threads -> Records] /\ Control' /\ thread'[t] = to
        /\ \A o \in Threads \ {t} : thread'[o] = thread[o]
    BY <1>1, <1>3, ControlKept
  <2>2. f \in Folders
    BY <1>1, <1>3, Looking
  <2>3. \A i \in Items : /\ server[i].in = f => to.answer[i] = server[i]
                         /\ server[i].in # f /\ ghost[i].in = f => to.answer[i] = ghost[i]
                         /\ server[i].in # f /\ ghost[i].in # f => to.answer[i] = Nowhere
    BY <1>3, <2>2, ListingType DEF Types
  <2> HIDE DEF f
  <2>4. UNCHANGED <<server, used, ghost, unseen, row, tombs, cached, called, kids, delta, upload, gone, astray, behind>>
    BY <1>1 DEF remote, sqlite, memory, history
  <2>5. \A j : /\ Deleting(j, Hidden)' <=> Deleting(j, Hidden)
               /\ Deleting(j, {"forget"})' <=> Deleting(j, {"forget"})
               /\ Deleting(j, {"tombstone"})' <=> Deleting(j, {"tombstone"})
    BY <1>1, <1>3, <2>1, DeletingSame DEF Hidden
  <2>6. \A j : ~Deleting(j, Hidden)
    BY <1>1, NobodyDeletes DEF Hidden
  <2>7. \A i \in Items : to.answer[i] # Nowhere =>
          \/ to.answer[i] = server[i] /\ to.answer[i].in = f
          \/ to.answer[i] = ghost[i] /\ to.answer[i].in = f
    BY <2>3
  <2>8. \A i \in Items : /\ server[i].in = f => server[i] # Nowhere
                         /\ ghost[i].in = f => /\ ghost[i] # Nowhere /\ i \in unseen /\ i \in gone
                                                /\ i \in tombs \cup astray
    <3>1. f # None /\ Nowhere.in = None
      BY <2>2 DEF DirectoriesConstants, Nowhere
    <3> QED BY <2>6, <3>1 DEF Server, GhostsAreGone, GhostsAreAlone, GoneInv, NoGhost
  <2>9. \A j : /\ Alive(j)' <=> Alive(j)
               /\ Trusted(j)' <=> Trusted(j)
               /\ Reliable(j)' <=> Reliable(j)
               /\ Dead(j)' <=> Dead(j)
    BY <2>4 DEF Alive, Trusted, Reliable, Dead, Due, Reported
  <2>10. ASSUME NEW o \in Threads \ {t}
         PROVE  Asked(thread[o])' /\ Spared(thread[o])' /\ Complete(thread[o])'
    <3>1. Asked(thread[o]) /\ Spared(thread[o]) /\ Complete(thread[o])
      BY DEF Requests, GoneInv, NoAnswerOf, ListInv, Completing
    <3>2. Asked(thread[o])'
      BY <2>1, <2>4, <2>9, <3>1 DEF Asked, Placed
    <3>3. Spared(thread[o])'
      BY <2>1, <2>4, <3>1 DEF Spared, Reportable
    <3>4. Complete(thread[o])'
      BY <2>1, <2>4, <2>9, <3>1 DEF Complete, Mapped
    <3> QED BY <3>2, <3>3, <3>4
  <2>11. Asked(thread[t])'
    <3>1. ASSUME NEW i \in Items, to.answer[i] # Nowhere
          PROVE  to.answer[i].in = f /\ Alive(i) /\ (Trusted(i) => server[i] = to.answer[i])
      BY <2>7, <2>8, <3>1 DEF Alive, Trusted, Due
    <3>2. \A n \in Names : to.map[n] \notin Items
      BY <1>3 DEF EmptyMap, DirectoriesConstants
    <3> QED BY <1>3, <2>1, <2>4, <2>9, <3>1, <3>2 DEF Asked, Placed, f
  <2>12. Spared(thread[t])'
    <3>1. ASSUME NEW i \in gone, to.answer[i] # Nowhere
          PROVE  i \in tombs \cup astray /\ ghost[i] # Nowhere
      <4>1. i \in Items /\ server[i] = Nowhere
        BY DEF Server, GoneIsGone, Types, HistoryTypes
      <4> QED BY <2>3, <2>8, <3>1, <4>1
    <3>2. \A n \in Names : to.map[n] \notin gone
      BY <1>3 DEF EmptyMap, DirectoriesConstants, Types, HistoryTypes
    <3> QED BY <1>3, <2>1, <2>4, <3>1, <3>2 DEF Spared, Reportable
  <2>13. Complete(thread[t])'
    <3>1. ASSUME NEW i \in Items, server[i].in = f, NEW j \in Items \ {i}, to.answer[j] = server[i]
          PROVE  ~Reliable(i)
      <4>1. server[i] # Nowhere
        BY <2>8, <3>1
      <4>2. to.answer[j] = ghost[j] /\ ghost[j] # Nowhere
        BY <2>7, <3>1, <4>1 DEF Server, Unique
      <4>3. i \in unseen
        BY <3>1, <4>2 DEF Server, GhostsAreAlone
      <4> QED BY <4>3 DEF Reliable, Due
    <3> QED BY <1>3, <2>1, <2>3, <2>4, <2>9, <3>1 DEF Complete, f
  <2>14. Requests' /\ NoAnswerOf' /\ Completing'
    BY <2>10, <2>11, <2>12, <2>13 DEF Requests, NoAnswerOf, Completing
  <2>15. Types'
    BY <2>1, <2>4 DEF Types, ServerTypes, CacheTypes, HistoryTypes
  <2>16. Server' /\ Response' /\ Uploading' /\ RowsInv'
    BY <2>4 DEF Server, Unique, Existing, GoneIsGone, GhostsAreGone, GhostsAreAlone,
      TombsHaveReasons, LocalsAreCalled,
       Response, Parted, SeenWell, SeenTrue, SeenDead, SeenUsed, Named, Reported,
       Uploading, Alive, Due, RowsInv, Pending
  <2>17. NoRow' /\ NoName' /\ NoInsert' /\ NoGhost'
    BY <2>4, <2>5 DEF GoneInv, NoRow, NoName, NoInsert, NoGhost, Named, Reported, Kids
  <2>18. DeadInv' /\ Listed'
    BY <2>4, <2>5, <2>9 DEF DeadInv, ListInv, Listed, Kids, Mapped
  <2> QED BY <2>1, <2>14, <2>15, <2>16, <2>17, <2>18 DEF GoneInv, ListInv
<1> QED BY <1>1, <1>2, <1>3

(* An item of an answer that has a tombstone is left out: it is gone, or   *)
(* hidden.                                                                 *)
LEMMA SkipItemKeeps ==
  ASSUME DirectoriesConstants, IInv, NEW t \in Threads, NEW i \in Items, StoreItem(t, i), i \in tombs
  PROVE  IInv'
<1> USE DEF IInv
<1>1. /\ thread[t].at = "store" /\ thread[t].answer[i] \in Places
      /\ \E to \in Records :
           /\ Goes(t, to) /\ to.at = "store" /\ Same(to, thread[t])
           /\ to.answer = [thread[t].answer EXCEPT ![i] = Nowhere]
           /\ to.map = IF i \in tombs THEN thread[t].map
                       ELSE [thread[t].map EXCEPT ![thread[t].answer[i].name] = i]
  BY StoreItemGoes
<1>2. PICK to \in Records : /\ Goes(t, to) /\ to.at = "store" /\ Same(to, thread[t])
                            /\ to.answer = [thread[t].answer EXCEPT ![i] = Nowhere] /\ to.map = thread[t].map
  BY <1>1
<1>3. thread' \in [Threads -> Records] /\ Control' /\ thread'[t] = to
      /\ \A o \in Threads \ {t} : thread'[o] = thread[o]
  BY <1>1, <1>2, ControlKept
<1>4. UNCHANGED <<server, used, ghost, unseen, row, tombs, cached, called, kids, delta, upload, gone, astray, behind>>
  BY DEF StoreItem, remote
<1>5. \A j : /\ Deleting(j, Hidden)' <=> Deleting(j, Hidden)
             /\ Deleting(j, {"forget"})' <=> Deleting(j, {"forget"})
             /\ Deleting(j, {"tombstone"})' <=> Deleting(j, {"tombstone"})
  BY <1>1, <1>2, <1>3, DeletingSame DEF Hidden
<1>6. \A j : /\ Alive(j)' <=> Alive(j)
             /\ Trusted(j)' <=> Trusted(j)
             /\ Reliable(j)' <=> Reliable(j)
             /\ Dead(j)' <=> Dead(j)
  BY <1>4 DEF Alive, Trusted, Reliable, Dead, Due, Reported
<1>7. ASSUME NEW o \in Threads \ {t}
      PROVE  Asked(thread[o])' /\ Spared(thread[o])' /\ Complete(thread[o])'
  <2>1. Asked(thread[o]) /\ Spared(thread[o]) /\ Complete(thread[o])
    BY DEF Requests, GoneInv, NoAnswerOf, ListInv, Completing
  <2>2. Asked(thread[o])'
    BY <1>3, <1>4, <1>6, <2>1 DEF Asked, Placed
  <2>3. Spared(thread[o])'
    BY <1>3, <1>4, <2>1 DEF Spared, Reportable
  <2>4. Complete(thread[o])'
    BY <1>3, <1>4, <1>6, <2>1 DEF Complete, Mapped
  <2> QED BY <2>2, <2>3, <2>4
<1>8. Asked(thread[t]) /\ Spared(thread[t]) /\ Complete(thread[t]) /\ thread[t] \in Records
  BY Working DEF Requests, GoneInv, NoAnswerOf, ListInv, Completing
<1>9. /\ \A j \in Items : to.answer[j] # Nowhere => to.answer[j] = thread[t].answer[j]
      /\ \A j \in Items \ {i} : to.answer[j] = thread[t].answer[j]
      /\ to.overtaken = thread[t].overtaken /\ to.look = thread[t].look /\ to.map = thread[t].map
      /\ to.answer[i] = Nowhere
  BY <1>2, <1>8 DEF Same, Records, Answers
<1>10. Asked(thread[t])'
  <2>1. \A j \in Items : to.answer[j] # Nowhere =>
          to.answer[j].in = to.look.in /\ (j \notin to.overtaken => Placed(j, to.answer[j]))
    BY <1>1, <1>8, <1>9 DEF Asked
  <2>2. \A n \in Names : to.map[n] \in Items \ to.overtaken => Alive(to.map[n])
    BY <1>1, <1>8, <1>9 DEF Asked
  <2> QED BY <1>2, <1>3, <1>4, <1>6, <2>1, <2>2 DEF Asked, Placed
<1>11. Spared(thread[t])'
  <2>1. gone \subseteq Items
    BY DEF Types, HistoryTypes
  <2>2. \A j \in gone \ to.overtaken : to.answer[j] # Nowhere => j \in tombs \cup astray /\ Reportable(j)
    BY <1>8, <1>9, <2>1 DEF Spared
  <2>3. \A n \in Names : to.map[n] \in gone \ to.overtaken => to.map[n] \in astray /\ Reportable(to.map[n])
    BY <1>8, <1>9 DEF Spared
  <2>4. \A j : Reportable(j)' <=> Reportable(j)
    BY <1>4 DEF Reportable
  <2> QED BY <1>2, <1>3, <1>4, <2>2, <2>3, <2>4 DEF Spared
<1>12. Complete(thread[t])'
  <2>1. \A j \in Items : server[j].in = thread[t].look.in => server[j] # Nowhere
    BY <1>1, Looking, PlaceFields
      DEF Types, ServerTypes, Answers, DirectoriesConstants, Nowhere
  <2>2. ~Reliable(i) \/ server[i] = Nowhere
    BY DEF Server, TombsHaveReasons, GoneIsGone, Reliable
  <2>3. ASSUME NEW j \in Items, Reliable(j), server[j].in = thread[t].look.in, thread[t].overtaken = {}
        PROVE  /\ to.answer[j] = server[j] \/ (to.answer[j] = Nowhere /\ to.map[server[j].name] = j)
               /\ \A k \in Items \ {j} : to.answer[k] # server[j]
    <3>1. j # i /\ server[j] # Nowhere
      BY <2>1, <2>2, <2>3
    <3>2. /\ thread[t].answer[j] = server[j]
             \/ (thread[t].answer[j] = Nowhere /\ thread[t].map[server[j].name] = j)
          /\ \A k \in Items \ {j} : thread[t].answer[k] # server[j]
      BY <1>1, <1>8, <2>3 DEF Complete
    <3> QED BY <1>9, <3>1, <3>2
  <2>8. /\ thread'[t] = to /\ to.at = "store" /\ server' = server
        /\ to.overtaken = thread[t].overtaken /\ to.look = thread[t].look
    BY <1>2, <1>3, <1>4, <1>9
  <2>9. to.overtaken = {} =>
          \A j \in Items : Reliable(j)' /\ server'[j].in = to.look.in =>
            /\ to.answer[j] = server'[j] \/ (to.answer[j] = Nowhere /\ to.map[server'[j].name] = j)
            /\ \A k \in Items \ {j} : to.answer[k] # server'[j]
    BY <1>6, <2>3, <2>8
  <2> QED BY ONLY <2>8, <2>9 DEF Complete
<1>13. Requests' /\ NoAnswerOf' /\ Completing'
  BY <1>7, <1>10, <1>11, <1>12 DEF Requests, NoAnswerOf, Completing
<1>14. Types'
  BY <1>3, <1>4 DEF Types, ServerTypes, CacheTypes, HistoryTypes
<1>15. Server' /\ Response' /\ Uploading' /\ RowsInv'
  BY <1>4 DEF Server, Unique, Existing, GoneIsGone, GhostsAreGone, GhostsAreAlone,
    TombsHaveReasons, LocalsAreCalled,
     Response, Parted, SeenWell, SeenTrue, SeenDead, SeenUsed, Named, Reported,
     Uploading, Alive, Due, RowsInv, Pending
<1>16. NoRow' /\ NoName' /\ NoInsert' /\ NoGhost'
  BY <1>4, <1>5 DEF GoneInv, NoRow, NoName, NoInsert, NoGhost, Named, Reported, Kids
<1>17. DeadInv' /\ Listed'
  BY <1>4, <1>5, <1>6 DEF DeadInv, ListInv, Listed, Kids, Mapped
<1> QED BY <1>3, <1>13, <1>14, <1>15, <1>16, <1>17 DEF GoneInv, ListInv

LEMMA PutItemKeeps ==
  ASSUME DirectoriesConstants, IInv, NEW t \in Threads, NEW i \in Items, StoreItem(t, i), i \notin tombs
  PROVE  IInv'
<1> USE DEF IInv
<1> DEFINE me == thread[t]
           listing == thread[t].job = "list"
<1>1. /\ thread[t].at = "store" /\ thread[t].answer[i] \in Places
      /\ \E to \in Records :
           /\ Goes(t, to) /\ to.at = "store" /\ Same(to, thread[t])
           /\ to.answer = [thread[t].answer EXCEPT ![i] = Nowhere]
           /\ to.map = IF i \in tombs THEN thread[t].map
                       ELSE [thread[t].map EXCEPT ![thread[t].answer[i].name] = i]
  BY StoreItemGoes
<1>2. PICK to \in Records : /\ Goes(t, to) /\ to.at = "store" /\ Same(to, thread[t])
                            /\ to.answer = [thread[t].answer EXCEPT ![i] = Nowhere]
                            /\ to.map = [thread[t].map EXCEPT ![thread[t].answer[i].name] = i]
  BY <1>1
<1>3. thread' \in [Threads -> Records] /\ Control' /\ thread'[t] = to
      /\ \A o \in Threads \ {t} : thread'[o] = thread[o]
  BY <1>1, <1>2, ControlKept
<1>4. PICK place \in Places : place = thread[t].answer[i]
  BY <1>1
<1>5. /\ UNCHANGED <<server, used, ghost, unseen, tombs, called, kids, delta, upload, gone>>
      /\ cached' = cached \cup {i}
      /\ row' = (IF listing THEN [row EXCEPT ![i] = place] ELSE row)
      /\ astray' = (IF listing /\ i \in me.overtaken THEN astray \cup {i} ELSE astray)
      /\ behind' = behind \cup Showing({i} \cap me.overtaken)
  BY <1>4 DEF StoreItem, Upsert, remote
<1>6. Asked(me) /\ Spared(me) /\ Complete(me) /\ me \in Records
  BY Working DEF Requests, GoneInv, NoAnswerOf, ListInv, Completing
<1> HIDE DEF me, listing
<1>7. me = thread[t] /\ me.at = "store" /\ place = me.answer[i] /\ i \in Ids /\ place # Nowhere
      /\ place.name \in Names
  BY <1>1, <1>4, PlaceFields, SpotsType DEF me, Ids
<1>8. /\ \A j \in Items : to.answer[j] # Nowhere => j # i /\ to.answer[j] = me.answer[j]
      /\ \A j \in Items \ {i} : to.answer[j] = me.answer[j]
      /\ to.overtaken = me.overtaken /\ to.look = me.look
      /\ to.answer[i] = Nowhere
      /\ \A n \in Names : to.map[n] = IF n = place.name THEN i ELSE me.map[n]
  <2>1. me.answer \in [Items -> Spots] /\ me.map \in [Names -> Items \cup {None}]
    BY <1>6, Fields DEF Answers
  <2>2. to.answer = [me.answer EXCEPT ![i] = Nowhere] /\ to.map = [me.map EXCEPT ![place.name] = i]
        /\ to.overtaken = me.overtaken /\ to.look = me.look
    BY <1>2, <1>7 DEF Same
  <2> QED BY ONLY <2>1, <2>2
<1>9. \A j : /\ Deleting(j, Hidden)' <=> Deleting(j, Hidden)
             /\ Deleting(j, {"forget"})' <=> Deleting(j, {"forget"})
             /\ Deleting(j, {"tombstone"})' <=> Deleting(j, {"tombstone"})
  BY <1>1, <1>2, <1>3, DeletingSame DEF Hidden
<1>10. \A j : /\ Alive(j)' <=> Alive(j)
              /\ Trusted(j)' => Trusted(j)
              /\ Reliable(j)' => Reliable(j)
              /\ Dead(j)' <=> Dead(j)
  BY <1>5 DEF Alive, Trusted, Reliable, Dead, Due, Reported
<1>11. astray \subseteq astray' /\ behind \subseteq behind'
       /\ (\A f \in Folders : i \in Kids(f) /\ i \in me.overtaken => f \in behind')
       /\ \A f : Kids(f)' = Kids(f)
  BY <1>5 DEF Showing, Kids
<1>12. i \notin me.overtaken => Alive(i) /\ (Trusted(i) => server[i] = place)
  BY <1>6, <1>7 DEF Asked, Placed
<1>13. i \in gone \ me.overtaken => i \in astray /\ Reportable(i)
  <2>1. i \notin tombs
    OBVIOUS
  <2> QED BY <1>6, <1>7, <2>1 DEF Spared
<1>14. ASSUME NEW o \in Threads \ {t}
       PROVE  Asked(thread[o])' /\ Spared(thread[o])' /\ Complete(thread[o])'
  <2>1. Asked(thread[o]) /\ Spared(thread[o]) /\ Complete(thread[o])
    BY DEF Requests, GoneInv, NoAnswerOf, ListInv, Completing
  <2>2. Asked(thread[o])'
    BY <1>3, <1>5, <1>10, <2>1 DEF Asked, Placed
  <2>3. Spared(thread[o])'
    BY <1>3, <1>5, <2>1 DEF Spared, Reportable
  <2>4. Complete(thread[o])'
    BY <1>3, <1>5, <1>10, <1>11, <2>1 DEF Complete, Mapped
  <2> QED BY <2>2, <2>3, <2>4
<1>15. Asked(thread[t])'
  <2>1. \A j \in Items : to.answer[j] # Nowhere =>
          to.answer[j].in = to.look.in /\ (j \notin to.overtaken => Placed(j, to.answer[j]))
    BY <1>6, <1>7, <1>8 DEF Asked
  <2>2. \A n \in Names : to.map[n] \in Items \ to.overtaken => Alive(to.map[n])
    BY <1>6, <1>7, <1>8, <1>12 DEF Asked
  <2> QED BY <1>2, <1>3, <1>5, <1>10, <2>1, <2>2 DEF Asked, Placed
<1>16. Spared(thread[t])'
  <2>1. gone \subseteq Items
    BY DEF Types, HistoryTypes
  <2>2. \A j \in gone \ to.overtaken : to.answer[j] # Nowhere => j \in tombs \cup astray /\ Reportable(j)
    BY <1>6, <1>8, <2>1 DEF Spared
  <2>3. ASSUME NEW n \in Names, to.map[n] \in gone \ to.overtaken
        PROVE  to.map[n] \in astray /\ Reportable(to.map[n])
    <3>1. CASE n = place.name
      BY <1>8, <1>13, <2>3, <3>1
    <3>2. CASE n # place.name
      BY <1>6, <1>8, <2>3, <3>2 DEF Spared
    <3> QED BY <3>1, <3>2
  <2>4. \A j : Reportable(j)' <=> Reportable(j)
    BY <1>5 DEF Reportable
  <2> QED BY <1>2, <1>3, <1>5, <1>11, <2>2, <2>3, <2>4 DEF Spared
<1>17. Complete(thread[t])'
  <2>1. \A j \in Items : server[j].in = me.look.in => server[j] \in Places
    BY <1>7, Looking, PlaceFields DEF Types, ServerTypes, Answers
  <2>3. ASSUME NEW j \in Items, Reliable(j), server[j].in = me.look.in, me.overtaken = {}
        PROVE  /\ to.answer[j] = server[j] \/ (to.answer[j] = Nowhere /\ to.map[server[j].name] = j)
               /\ \A k \in Items \ {j} : to.answer[k] # server[j]
    <3>1. server[j] \in Places /\ server[j] # Nowhere /\ server[j].name \in Names
      BY <2>1, <2>3, PlaceFields, SpotsType
    <3>2. /\ me.answer[j] = server[j] \/ (me.answer[j] = Nowhere /\ me.map[server[j].name] = j)
          /\ \A k \in Items \ {j} : me.answer[k] # server[j]
      BY <1>6, <1>7, <2>3 DEF Complete
    <3>3. \A k \in Items \ {j} : to.answer[k] # server[j]
      BY <1>8, <3>1, <3>2
    <3>4. CASE j = i
      BY <1>7, <1>8, <3>1, <3>2, <3>4
    <3>5. CASE j # i
      <4>1. server[j].name # place.name
        <5> SUFFICES ASSUME server[j].name = place.name
                     PROVE  FALSE
          OBVIOUS
        <5>1. place.in = me.look.in
          BY <1>6, <1>7 DEF Asked
        <5>2. place = server[j]
          BY <2>3, <3>1, <5>1 DEF Places
        <5> QED BY <1>7, <3>2, <3>5, <5>2
      <4> QED BY <1>8, <3>1, <3>2, <3>3, <3>5, <4>1
    <3> QED BY <3>4, <3>5
  <2>8. /\ thread'[t] = to /\ to.at = "store" /\ server' = server
        /\ to.overtaken = me.overtaken /\ to.look = me.look
    BY <1>2, <1>3, <1>5, <1>8
  <2>9. to.overtaken = {} =>
          \A j \in Items : Reliable(j)' /\ server'[j].in = to.look.in =>
            /\ to.answer[j] = server'[j] \/ (to.answer[j] = Nowhere /\ to.map[server'[j].name] = j)
            /\ \A k \in Items \ {j} : to.answer[k] # server'[j]
    BY <1>10, <2>3, <2>8
  <2> QED BY ONLY <2>8, <2>9 DEF Complete
<1>18. Requests' /\ NoAnswerOf' /\ Completing'
  BY <1>14, <1>15, <1>16, <1>17 DEF Requests, NoAnswerOf, Completing
<1>19. Types'
  <2>1. row' \in [Ids -> Spots] /\ behind' \subseteq Folders /\ astray' \subseteq Ids
    BY <1>5, <1>7, SpotsType DEF Types, CacheTypes, HistoryTypes, Showing
  <2> QED BY <1>3, <1>5, <1>7, <2>1 DEF Types, ServerTypes, CacheTypes, HistoryTypes
<1>20. row'[i] = (IF listing THEN place ELSE row[i]) /\ \A j \in Ids \ {i} : row'[j] = row[j]
  BY <1>5, <1>7 DEF Types, CacheTypes
<1>21. Server'
  <2>1. LocalsAreCalled'
    BY <1>5, <1>20 DEF Server, LocalsAreCalled, DirectoriesConstants, Ids
  <2> QED BY <1>5, <1>11, <2>1 DEF Server, Unique, Existing, GoneIsGone, GhostsAreGone,
          GhostsAreAlone, TombsHaveReasons
<1>22. Response' /\ Uploading'
  BY <1>5 DEF Response, Parted, SeenWell, SeenTrue, SeenDead, SeenUsed, Named, Reported,
     Uploading, Alive, Due
<1>23. RowsInv'
  <2> SUFFICES ASSUME NEW j \in Items, j \notin astray', j \notin Pending
               PROVE  row'[j] = server[j]
    BY <1>5 DEF RowsInv, Pending, Due, Reported
  <2>1. j \notin astray /\ j \in Ids /\ row[j] = server[j]
    BY <1>11 DEF RowsInv, Ids
  <2>2. CASE j = i /\ listing
    <3>1. Trusted(i) /\ i \notin me.overtaken
      BY <1>5, <2>1, <2>2 DEF Trusted, Pending
    <3> QED BY <1>12, <1>20, <2>2, <3>1
  <2>3. CASE j # i \/ ~listing
    BY <1>20, <2>1, <2>3
  <2> QED BY <2>2, <2>3
<1>24. NoRow'
  <2> SUFFICES ASSUME NEW j \in gone, j \notin astray', ~Deleting(j, Hidden)
               PROVE  row'[j] = Nowhere
    BY <1>5, <1>9 DEF NoRow
  <2>1. j \in Ids /\ j \notin astray /\ row[j] = Nowhere
    BY <1>11 DEF GoneInv, NoRow, Types, HistoryTypes, Ids
  <2>2. j # i \/ ~listing
    BY <1>5, <1>13, <2>1
  <2> QED BY <1>20, <2>1, <2>2
<1>25. NoName'
  <2> SUFFICES ASSUME NEW j \in gone, j \in astray' => Deleting(j, {"tombstone"}),
                      ~Deleting(j, {"forget"}), j \in cached', NEW f \in Folders, j \in Kids(f)
               PROVE  f \in behind'
    BY <1>5, <1>9, <1>11 DEF NoName
  <2>1. j \in astray => Deleting(j, {"tombstone"})
    BY <1>11
  <2>2. CASE j = i
    <3>1. j \notin astray
      BY <1>1, <2>1, NobodyDeletes DEF Hidden
    <3> QED BY <1>11, <1>13, <2>2, <3>1
  <2>3. CASE j # i
    BY <1>5, <1>11, <2>1, <2>3 DEF GoneInv, NoName
  <2> QED BY <2>2, <2>3
<1>26. NoInsert' /\ NoGhost'
  BY <1>5, <1>9 DEF GoneInv, NoInsert, NoGhost, Named, Reported
<1>27. DeadInv'
  <2> SUFFICES ASSUME NEW j \in Items, Dead(j), j \in cached' \/ (row'[j] # Nowhere /\ j \notin delta.drops),
                      NEW f \in Folders, j \in Kids(f)
               PROVE  f \in behind'
    BY <1>5, <1>10, <1>11 DEF DeadInv
  <2>1. CASE j = i
    <3>1. i \in me.overtaken
      BY <1>12, <2>1 DEF Alive, Dead
    <3> QED BY <1>11, <2>1, <3>1
  <2>2. CASE j # i
    <3>1. row'[j] = row[j]
      BY <1>20, <2>2 DEF Ids
    <3> QED BY <1>5, <1>11, <2>2, <3>1 DEF DeadInv
  <2> QED BY <2>1, <2>2
<1>28. Listed'
  BY <1>5, <1>9, <1>10, <1>11 DEF ListInv, Listed, Mapped
<1> QED BY <1>3, <1>18, <1>19, <1>21, <1>22, <1>23, <1>24, <1>25, <1>26, <1>27, <1>28
        DEF GoneInv, ListInv

(* A new map has what the answer said, or its folder is behind.            *)
LEMMA StoreMapKeeps ==
  ASSUME DirectoriesConstants, IInv, NEW t \in Threads, StoreMap(t)
  PROVE  IInv'
<1> USE DEF IInv
<1> DEFINE me == thread[t]
<1>1. me.at = "store" /\ me.look.in \in Folders /\ GoesCalm(t) /\ me.map \in Maps
  BY StoreMapGoes
<1>2. /\ thread' \in [Threads -> Records] /\ Control' /\ Calm(thread'[t])
      /\ \A o \in Threads \ {t} : thread'[o] = thread[o]
  BY <1>1, CalmStep
<1>3. PICK f \in Folders : f = me.look.in
  BY <1>1
<1>4. /\ UNCHANGED <<server, used, ghost, unseen, row, tombs, cached, called, delta, upload, gone, astray>>
      /\ me.answer = NoAnswer /\ kids' = [kids EXCEPT ![f] = me.map]
      /\ behind' = (IF me.overtaken = {} THEN behind \ {f} ELSE behind \cup {f})
  BY <1>3 DEF StoreMap, remote, sqlite
<1>5. Asked(me) /\ Spared(me) /\ Complete(me) /\ me \in Records
  BY Working DEF Requests, GoneInv, NoAnswerOf, ListInv, Completing
<1> HIDE DEF me
<1>6. \A g \in Folders \ {f} : kids'[g] = kids[g] /\ (g \in behind' <=> g \in behind)
  BY <1>4 DEF Types, CacheTypes
<1>7. kids'[f] = me.map
  BY <1>4 DEF Types, CacheTypes
<1>8. \A j \in Items : j \in Kids(f)' => \E n \in Names : me.map[n] = j
  BY <1>1, <1>7 DEF Kids, Maps
<1>9. Controlled(thread'[t]) /\ thread'[t].at \notin UnderWay \cup Hidden /\ gone' \subseteq Items
  BY <1>2, <1>4 DEF Calm, Hidden, Types, HistoryTypes
<1>10. Asked(thread[t])' /\ Spared(thread[t])' /\ Complete(thread[t])'
  BY <1>9, CalmClauses
<1>11. \A j : /\ Deleting(j, Hidden)' <=> Deleting(j, Hidden)
              /\ Deleting(j, {"forget"})' <=> Deleting(j, {"forget"})
              /\ Deleting(j, {"tombstone"})' <=> Deleting(j, {"tombstone"})
  BY <1>1, <1>2, <1>9, DeletingSame DEF Hidden, me
<1>12. \A j : /\ Alive(j)' <=> Alive(j)
              /\ Trusted(j)' <=> Trusted(j)
              /\ Reliable(j)' <=> Reliable(j)
              /\ Dead(j)' <=> Dead(j)
  BY <1>4 DEF Alive, Trusted, Reliable, Dead, Due, Reported
<1>13. ASSUME NEW o \in Threads \ {t}
       PROVE  Asked(thread[o])' /\ Spared(thread[o])' /\ Complete(thread[o])'
  <2>1. Asked(thread[o]) /\ Spared(thread[o]) /\ Complete(thread[o])
    BY DEF Requests, GoneInv, NoAnswerOf, ListInv, Completing
  <2>2. Asked(thread[o])'
    BY <1>2, <1>4, <1>12, <2>1 DEF Asked, Placed
  <2>3. Spared(thread[o])'
    BY <1>2, <1>4, <2>1 DEF Spared, Reportable
  <2>4. thread[o].at \notin {"upsert", "remap"}
    <3> SUFFICES ASSUME thread[o].at \in {"upsert", "remap"}
                 PROVE  FALSE
      OBVIOUS
    <3>1. thread[o].job \in Changing
      BY Working DEF Controlled, Changing
    <3>2. thread[t].at = "idle"
      BY <3>1 DEF Control, Alone
    <3> QED BY <1>1, <3>2 DEF me
  <2>5. Complete(thread[o])'
    BY <1>2, <1>4, <1>12, <2>1, <2>4 DEF Complete
  <2> QED BY <2>2, <2>3, <2>5
<1>14. Requests' /\ NoAnswerOf' /\ Completing'
  BY <1>10, <1>13 DEF Requests, NoAnswerOf, Completing
<1>15. Types'
  <2>1. kids' \in [Folders -> Maps \cup {NoMap}] /\ behind' \subseteq Folders
    BY <1>1, <1>4 DEF Types, CacheTypes, HistoryTypes
  <2> QED BY <1>2, <1>4, <2>1 DEF Types, ServerTypes, CacheTypes, HistoryTypes
<1>16. Server' /\ Response' /\ Uploading' /\ RowsInv'
  BY <1>4 DEF Server, Unique, Existing, GoneIsGone, GhostsAreGone, GhostsAreAlone,
    TombsHaveReasons, LocalsAreCalled,
     Response, Parted, SeenWell, SeenTrue, SeenDead, SeenUsed, Named, Reported,
     Uploading, Alive, Due, RowsInv, Pending
<1>17. NoRow' /\ NoInsert' /\ NoGhost'
  BY <1>4, <1>11 DEF GoneInv, NoRow, NoInsert, NoGhost, Named, Reported
<1>18. \A g \in Folders \ {f} : \A j : j \in Kids(g)' => j \in Kids(g)
  BY <1>6 DEF Kids
<1>19. NoName'
  <2> SUFFICES ASSUME NEW j \in gone, j \in astray => Deleting(j, {"tombstone"}),
                      ~Deleting(j, {"forget"}), j \in cached, NEW g \in Folders, j \in Kids(g)'
               PROVE  g \in behind'
    BY <1>4, <1>11 DEF NoName
  <2>1. CASE g = f
    <3>1. j \in Items
      BY DEF Types, HistoryTypes
    <3>2. me.overtaken # {}
      <4>1. j \notin astray
        BY <1>1, NobodyDeletes DEF Hidden, me
      <4> QED BY <1>5, <1>8, <2>1, <3>1, <4>1 DEF Spared
    <3> QED BY <1>4, <2>1, <3>2
  <2>2. CASE g # f
    BY <1>6, <1>18, <2>2 DEF GoneInv, NoName
  <2> QED BY <2>1, <2>2
<1>20. DeadInv'
  <2> SUFFICES ASSUME NEW j \in Items, Dead(j), j \in cached \/ (row[j] # Nowhere /\ j \notin delta.drops),
                      NEW g \in Folders, j \in Kids(g)'
               PROVE  g \in behind'
    BY <1>4, <1>12 DEF DeadInv
  <2>1. CASE g = f
    <3>1. me.overtaken # {}
      BY <1>1, <1>5, <1>8, <2>1 DEF Asked, Alive, Dead
    <3> QED BY <1>4, <2>1, <3>1
  <2>2. CASE g # f
    BY <1>6, <1>18, <2>2 DEF DeadInv
  <2> QED BY <2>1, <2>2
<1>21. Listed'
  <2> SUFFICES ASSUME NEW j \in Items, Reliable(j), server[j] # Nowhere, ~Deleting(j, Hidden),
                      kids'[server[j].in] # NoMap
               PROVE  server[j].in \in behind' \/ kids'[server[j].in][server[j].name] = j
    BY <1>4, <1>11, <1>12 DEF Listed, Mapped
  <2>1. server[j].in \in Folders
    BY PlaceFields DEF Types, ServerTypes, Answers
  <2>2. CASE server[j].in = f /\ me.overtaken = {}
    <3>1. me.answer[j] = server[j] \/ (me.answer[j] = Nowhere /\ me.map[server[j].name] = j)
      BY <1>1, <1>3, <1>5, <2>2 DEF Complete, me
    <3> QED BY <1>4, <1>7, <2>2, <3>1 DEF NoAnswer
  <2>3. CASE server[j].in = f /\ me.overtaken # {}
    BY <1>4, <2>3
  <2>4. CASE server[j].in # f
    BY <1>6, <2>1, <2>4 DEF ListInv, Listed, Mapped
  <2> QED BY <2>2, <2>3, <2>4
<1> QED BY <1>2, <1>14, <1>15, <1>16, <1>17, <1>19, <1>20, <1>21 DEF GoneInv, ListInv

LEMMA CreateFileKeeps ==
  ASSUME DirectoriesConstants, IInv, NEW t \in Threads, CreateFile(t)
  PROVE  IInv'
<1> USE DEF IInv
<1>1. /\ thread[t].at = "create" /\ thread[t].job \in Changing
      /\ \E id \in Locals \ used : used' = used \cup {id} /\ GoesEntering(t, id)
  BY CreateFileGoes
<1>2. PICK id \in Locals \ used : used' = used \cup {id} /\ GoesEntering(t, id)
  BY <1>1
<1>3. PICK to \in Records :
        /\ Goes(t, to) /\ to.at = "enter" /\ to.item = id /\ to.from = thread[t].from
        /\ to.other = thread[t].other
        /\ to.answer = NoAnswer /\ to.map = EmptyMap /\ to.overtaken = {}
  BY <1>2 DEF GoesEntering
<1>4. thread' \in [Threads -> Records] /\ Control' /\ thread'[t] = to
      /\ \A o \in Threads \ {t} : thread'[o] = thread[o]
  BY <1>1, <1>3, ControlKept
<1>5. UNCHANGED <<server, ghost, unseen, row, tombs, cached, called, kids, delta, upload, gone, astray, behind>>
  BY DEF CreateFile, sqlite, memory, history
<1>6. \A j : /\ Deleting(j, Hidden)' <=> Deleting(j, Hidden)
             /\ Deleting(j, {"forget"})' <=> Deleting(j, {"forget"})
             /\ Deleting(j, {"tombstone"})' <=> Deleting(j, {"tombstone"})
  BY <1>1, <1>3, <1>4, DeletingSame DEF Hidden
<1>7. \A j : /\ Alive(j)' <=> Alive(j)
             /\ Trusted(j)' <=> Trusted(j)
             /\ Reliable(j)' <=> Reliable(j)
             /\ Dead(j)' <=> Dead(j)
  BY <1>5 DEF Alive, Trusted, Reliable, Dead, Due, Reported
<1>8. \A o \in Threads \ {t} : Calm(thread[o])
  BY <1>1, AloneCalm
<1>9. gone' \subseteq Items /\ gone \subseteq Items /\ Items \cap Locals = {} /\ None \notin Items
  BY <1>5 DEF Types, HistoryTypes, DirectoriesConstants
<1>10. \A o \in Threads \ {t} : Asked(thread[o])' /\ Spared(thread[o])' /\ Complete(thread[o])'
  BY <1>4, <1>8, <1>9, CalmClauses DEF Calm
<1>11. Asked(thread[t])' /\ Spared(thread[t])' /\ Complete(thread[t])'
  BY <1>3, <1>4, <1>9 DEF Asked, Spared, Reportable, Complete, NoAnswer, EmptyMap
<1>12. Requests' /\ NoAnswerOf' /\ Completing'
  BY <1>10, <1>11 DEF Requests, NoAnswerOf, Completing
<1>13. Types'
  BY <1>2, <1>4, <1>5 DEF Types, ServerTypes, CacheTypes, HistoryTypes, Ids
<1>14. Server' /\ Response' /\ Uploading' /\ RowsInv'
  BY <1>2, <1>5 DEF Server, Unique, Existing, GoneIsGone, GhostsAreGone,
    GhostsAreAlone, TombsHaveReasons, LocalsAreCalled,
     Response, Parted, SeenWell, SeenTrue, SeenDead, SeenUsed, Named, Reported,
     Uploading, Alive, Due, RowsInv, Pending
<1>15. NoRow' /\ NoName' /\ NoInsert' /\ NoGhost'
  BY <1>5, <1>6 DEF GoneInv, NoRow, NoName, NoInsert, NoGhost, Named, Reported, Kids
<1>16. DeadInv' /\ Listed'
  BY <1>5, <1>6, <1>7 DEF DeadInv, ListInv, Listed, Kids, Mapped
<1> QED BY <1>4, <1>12, <1>13, <1>14, <1>15, <1>16 DEF GoneInv, ListInv

(* While a change of names runs, other threads have nothing in hand.       *)
LEMMA AloneClauses ==
  ASSUME DirectoriesConstants, Types, Control, NEW t \in Threads, thread[t].job \in Changing,
         \A o \in Threads \ {t} : thread'[o] = thread[o], gone' \subseteq Items,
         Asked(thread[t])', Spared(thread[t])', Complete(thread[t])'
  PROVE  Requests' /\ NoAnswerOf' /\ Completing'
<1>1. \A o \in Threads \ {t} : Calm(thread[o])
  BY AloneCalm
<1>2. \A o \in Threads \ {t} : Asked(thread[o])' /\ Spared(thread[o])' /\ Complete(thread[o])'
  BY <1>1, CalmClauses DEF Calm
<1> QED BY <1>2 DEF Requests, NoAnswerOf, Completing

LEMMA AloneDeletes ==
  ASSUME Types, Control, NEW t \in Threads, thread[t].job \in Changing, NEW j, NEW ats \in SUBSET Hidden
  PROVE  Deleting(j, ats) <=> thread[t].other = j /\ thread[t].at \in ats
<1>1. \A o \in Threads \ {t} : thread[o].at = "idle"
  BY DEF Control, Alone
<1>2. "idle" \notin ats
  BY DEF Hidden
<1> QED BY <1>1, <1>2 DEF Deleting

(* The same of the next state, for a thread that goes on alone.            *)
LEMMA AloneDeletesNext ==
  ASSUME Types, Control, NEW t \in Threads, thread[t].job \in Changing,
         \A o \in Threads \ {t} : thread'[o] = thread[o], NEW j, NEW ats \in SUBSET Hidden
  PROVE  Deleting(j, ats)' <=> thread'[t].other = j /\ thread'[t].at \in ats
<1>1. \A o \in Threads \ {t} : thread'[o].at = "idle"
  BY DEF Control, Alone
<1>2. "idle" \notin ats
  BY DEF Hidden
<1> QED BY <1>1, <1>2 DEF Deleting

LEMMA HiddenParts == {"forget"} \in SUBSET Hidden /\ {"tombstone"} \in SUBSET Hidden /\ Hidden \in SUBSET Hidden
BY DEF Hidden

(* The server has deleted the item, and the thread is about to hide it.    *)
LEMMA RemoveKeeps ==
  ASSUME DirectoriesConstants, IInv, NEW t \in Threads, Remove(t)
  PROVE  IInv'
<1> USE DEF IInv
<1>1. /\ thread[t].at = "remove" /\ thread[t].job \in Changing /\ thread[t].other \in Ids
      /\ UNCHANGED <<sqlite, memory, delta, astray, behind>>
      /\ \/ /\ thread[t].other \in Items /\ server[thread[t].other] # Nowhere
            /\ DeletedRemotely(thread[t].other) /\ OvertakeUpload(thread[t].other)
            /\ GoesOn(t, "forget")
         \/ GoesOn(t, "forget") /\ UNCHANGED <<remote, upload, gone>>
         \/ GoesCalm(t) /\ UNCHANGED <<remote, upload, gone>>
  BY RemoveGoes
<1>2. CASE GoesCalm(t) /\ UNCHANGED <<remote, upload, gone>>
  <2>1. UNCHANGED <<remote, sqlite, memory, delta, upload, history>>
    BY <1>1, <1>2 DEF history
  <2> QED BY <1>1, <1>2, <2>1, CalmStepKeeps DEF Hidden
<1>3. CASE GoesOn(t, "forget")
  <2>1. /\ thread' \in [Threads -> Records] /\ Control' /\ thread'[t].at = "forget"
        /\ Same(thread'[t], thread[t]) /\ thread'[t].answer = NoAnswer /\ thread'[t].map = EmptyMap
        /\ \A o \in Threads \ {t} : thread'[o] = thread[o]
    BY <1>1, <1>3, OnStep
  <2>2. PICK i \in Ids : i = thread[t].other
    BY <1>1
  <2>3. \A j : /\ ~Deleting(j, Hidden) /\ ~Deleting(j, {"forget"}) /\ ~Deleting(j, {"tombstone"})
               /\ Deleting(j, Hidden)' <=> j = i
               /\ Deleting(j, {"forget"})' <=> j = i
               /\ ~Deleting(j, {"tombstone"})'
    <3>1. thread'[t].other = i /\ thread'[t].at = "forget" /\ thread[t].at = "remove"
      BY <1>1, <2>1, <2>2 DEF Same
    <3> QED BY <1>1, <2>1, <3>1, AloneDeletes, AloneDeletesNext, HiddenParts DEF Hidden
  <2>4. gone' \subseteq Items => Requests' /\ NoAnswerOf' /\ Completing'
    <3> SUFFICES ASSUME gone' \subseteq Items
                 PROVE  Requests' /\ NoAnswerOf' /\ Completing'
      OBVIOUS
    <3>1. Controlled(thread'[t]) /\ thread'[t].at \notin UnderWay
      BY <2>1 DEF Control, UnderWay
    <3>2. Asked(thread[t])' /\ Spared(thread[t])' /\ Complete(thread[t])'
      BY <3>1, CalmClauses
    <3> QED BY <1>1, <2>1, <3>2, AloneClauses
  <2>5. UNCHANGED <<row, tombs, cached, called, kids, delta, astray, behind>>
    BY <1>1 DEF sqlite, memory
  <2>6. gone \subseteq Items
    BY DEF Types, HistoryTypes
  <2>7. CASE UNCHANGED <<remote, upload, gone>>
    <3>1. UNCHANGED <<server, used, ghost, unseen, upload, gone>>
      BY <2>7 DEF remote
    <3>2. Types'
      BY <2>1, <2>5, <3>1 DEF Types, ServerTypes, CacheTypes, HistoryTypes
    <3>3. Server' /\ Response' /\ Uploading' /\ RowsInv' /\ DeadInv'
      BY <2>5, <3>1 DEF Server, Unique, Existing, GoneIsGone, GhostsAreGone,
        GhostsAreAlone, TombsHaveReasons, LocalsAreCalled,
         Response, Parted, SeenWell, SeenTrue, SeenDead, SeenUsed, Named, Reported,
         Uploading, Alive, Due, RowsInv, Pending, DeadInv, Dead, Kids
    <3>4. NoRow' /\ NoName' /\ NoInsert' /\ NoGhost'
      BY <2>3, <2>5, <3>1 DEF GoneInv, NoRow, NoName, NoInsert, NoGhost, Named,
        Reported, Kids
    <3>5. \A j : Reliable(j)' <=> Reliable(j)
      BY <2>5, <3>1 DEF Reliable, Due
    <3>6. Listed'
      BY <2>3, <2>5, <3>1, <3>5 DEF ListInv, Listed, Mapped
    <3> QED BY <2>1, <2>4, <2>6, <3>1, <3>2, <3>3, <3>4, <3>6 DEF GoneInv, ListInv
  <2>8. CASE i \in Items /\ server[i] # Nowhere /\ DeletedRemotely(i) /\ OvertakeUpload(i)
    <3>1. /\ server' = [server EXCEPT ![i] = Nowhere] /\ unseen' = unseen \cup {i} /\ used' = used
          /\ gone' = gone \cup {i} /\ ghost' \in {ghost, [ghost EXCEPT ![i] = server[i]]}
      BY <2>8 DEF DeletedRemotely
    <3>2. i \in used /\ i \notin gone /\ gone' \subseteq Items
      BY <2>6, <2>8, <3>1 DEF Server, Existing, GoneIsGone
    <3>3. ServerChanges(i, Nowhere) /\ Nowhere \in Spots
      BY <2>5, <2>8, <3>1, <3>2, SpotsType
        DEF ServerChanges, Types, ServerTypes, Answers
    <3>4. Unique' /\ Existing' /\ GhostsAreAlone' /\ Response' /\ RowsInv' /\ DeadInv'
      BY <2>8, <3>3, ServerChangeKeeps
    <3>5. /\ \A j \in Items \ {i} : server'[j] = server[j]
          /\ server'[i] = Nowhere /\ Due' = Due \cup {i} /\ Named' = Named /\ Pending' = Pending \cup {i}
          /\ \A j \in Items : Alive(j) => Alive(j)'
      BY <2>8, <3>3, ServerChangeFacts
    <3>6. ghost' \in Answers /\ server' \in Answers
      BY <2>8, <3>1, SpotsType DEF Types, ServerTypes, Answers
    <3>7. /\ upload' \in UploadRecords
          /\ upload' # NoUpload => /\ upload # NoUpload /\ upload'.file = upload.file
                                   /\ upload'.item = upload.item
                                   /\ upload'.overtaken = upload.overtaken \cup {i}
      BY <2>8 DEF OvertakeUpload, Types, UploadRecords
    <3>8. Types'
      BY <2>1, <2>5, <2>8, <3>1, <3>2, <3>6, <3>7
        DEF Types, ServerTypes, CacheTypes, HistoryTypes
    <3>9. Server'
      <4>1. GoneIsGone' /\ GhostsAreGone'
        BY <2>6, <2>8, <3>1, <3>2, <3>5
          DEF Server, GoneIsGone, GhostsAreGone, GhostsAreAlone, Types, ServerTypes,
          Answers
      <4> QED BY <2>5, <3>1, <3>4, <4>1 DEF Server, TombsHaveReasons, LocalsAreCalled
    <3>10. Uploading'
      BY <3>1, <3>5, <3>7 DEF Uploading
    <3>11. NoRow' /\ NoName' /\ NoInsert' /\ NoGhost'
      <4>1. \A j \in Items \ {i} : ghost'[j] = ghost[j]
        BY <3>3 DEF ServerChanges
      <4> QED BY <2>3, <2>5, <3>1, <3>5, <4>1
              DEF GoneInv, NoRow, NoName, NoInsert, NoGhost, Kids
    <3>12. Listed'
      BY <2>3, <2>8, <3>3, ServerChangeListed
    <3> QED BY <2>1, <2>4, <3>2, <3>4, <3>8, <3>9, <3>10, <3>11, <3>12
            DEF GoneInv, ListInv
  <2> QED BY <1>1, <1>2, <2>2, <2>7, <2>8
<1> QED BY <1>1, <1>2, <1>3

LEMMA AddChildFacts ==
  ASSUME DirectoriesConstants, NEW map \in [Folders -> Maps \cup {NoMap}], NEW place \in Places,
         NEW id \in Ids \cup {None}
  PROVE  /\ AddChild(map, place, id) \in [Folders -> Maps \cup {NoMap}]
         /\ place.in \in Folders /\ place.name \in Names
         /\ \A f \in Folders :
              /\ AddChild(map, place, id)[f] = NoMap <=> map[f] = NoMap
              /\ f # place.in => AddChild(map, place, id)[f] = map[f]
              /\ f = place.in /\ map[f] # NoMap =>
                   \A n \in Names : AddChild(map, place, id)[f][n] = IF n = place.name THEN id ELSE map[f][n]
<1>1. place.in \in Folders /\ place.name \in Names
  BY DEF Places
<1>2. ASSUME NEW f \in Folders, f = place.in, map[f] # NoMap
      PROVE  /\ AddChild(map, place, id)[f] \in Maps /\ AddChild(map, place, id)[f] # NoMap
             /\ \A n \in Names : AddChild(map, place, id)[f][n] = IF n = place.name THEN id ELSE map[f][n]
  <2>1. map[f] \in Maps /\ AddChild(map, place, id)[f] = [map[f] EXCEPT ![place.name] = id]
    BY <1>2 DEF AddChild
  <2>2. [map[f] EXCEPT ![place.name] = id] \in Maps
    BY <2>1 DEF Maps
  <2>3. \A m \in Maps : DOMAIN m = Names
    BY DEF Maps
  <2>4. DOMAIN NoMap = {}
    BY DEF NoMap
  <2> QED BY <1>1, <2>1, <2>2, <2>3, <2>4 DEF Maps
<1>3. ASSUME NEW f \in Folders, f # place.in \/ map[f] = NoMap
      PROVE  AddChild(map, place, id)[f] = map[f]
  BY <1>3 DEF AddChild
<1>4. AddChild(map, place, id) \in [Folders -> Maps \cup {NoMap}]
  <2>1. \A f \in Folders : AddChild(map, place, id)[f] \in Maps \cup {NoMap}
    BY <1>2, <1>3
  <2> QED BY <2>1 DEF AddChild
<1> QED BY <1>1, <1>2, <1>3, <1>4

LEMMA InKids ==
  ASSUME DirectoriesConstants, kids' \in [Folders -> Maps \cup {NoMap}], CacheTypes, NEW f \in Folders
  PROVE  /\ \A j \in Ids : j \in Kids(f) <=> kids[f] # NoMap /\ \E n \in Names : kids[f][n] = j
         /\ \A j \in Ids : j \in Kids(f)' <=> kids'[f] # NoMap /\ \E n \in Names : kids'[f][n] = j
<1>1. None \notin Ids
  BY DEF Ids, DirectoriesConstants
<1>2. DOMAIN NoMap = {}
  BY DEF NoMap
<1>3. \A m \in Maps : DOMAIN m = Names
  BY DEF Maps
<1> QED BY <1>1, <1>2, <1>3 DEF CacheTypes, Kids

LEMMA ForgetKeeps ==
  ASSUME DirectoriesConstants, IInv, NEW t \in Threads, Forget(t)
  PROVE  IInv'
<1> USE DEF IInv
<1>1. /\ thread[t].at = "forget" /\ thread[t].job \in Changing /\ thread[t].other \in Ids
      /\ thread[t].look \in Places /\ GoesOn(t, "tombstone")
  BY ForgetGoes
<1>2. /\ thread' \in [Threads -> Records] /\ Control' /\ thread'[t].at = "tombstone"
      /\ Same(thread'[t], thread[t]) /\ thread'[t].answer = NoAnswer /\ thread'[t].map = EmptyMap
      /\ \A o \in Threads \ {t} : thread'[o] = thread[o]
  BY <1>1, OnStep
<1>3. PICK i \in Ids, p \in Places : i = thread[t].other /\ p = thread[t].look
  BY <1>1
<1>4. /\ UNCHANGED <<server, used, ghost, unseen, row, tombs, called, delta, upload, gone, astray>>
      /\ kids' = AddChild(kids, p, None) /\ cached' = cached \ {i} /\ Behind(Taken(p, i))
  BY <1>3 DEF Forget, RemoveChild, remote, sqlite
<1>5. /\ kids' \in [Folders -> Maps \cup {NoMap}] /\ p.in \in Folders /\ p.name \in Names
      /\ \A f \in Folders :
           /\ kids'[f] = NoMap <=> kids[f] = NoMap
           /\ f # p.in => kids'[f] = kids[f]
           /\ f = p.in /\ kids[f] # NoMap =>
                \A n \in Names : kids'[f][n] = IF n = p.name THEN None ELSE kids[f][n]
  BY <1>4, AddChildFacts DEF Types, CacheTypes
<1>6. /\ behind' \subseteq Folders
      /\ \A f \in Folders : f \in behind' <=> f \in behind \cup Taken(p, i) /\ kids'[f] # NoMap
  <2>1. behind \subseteq Folders /\ Taken(p, i) \subseteq Folders
    BY <1>5 DEF Types, HistoryTypes, Taken
  <2> QED BY <1>4, <2>1 DEF Behind
<1>7. \A j : /\ Deleting(j, Hidden) <=> j = i
             /\ Deleting(j, {"forget"}) <=> j = i
             /\ ~Deleting(j, {"tombstone"})
             /\ Deleting(j, Hidden)' <=> j = i
             /\ Deleting(j, {"tombstone"})' <=> j = i
             /\ ~Deleting(j, {"forget"})'
  <2>1. thread'[t].other = i /\ thread'[t].at = "tombstone" /\ thread[t].at = "forget" /\ thread[t].other = i
    BY <1>1, <1>2, <1>3 DEF Same
  <2> QED BY <1>1, <1>2, <2>1, AloneDeletes, AloneDeletesNext, HiddenParts DEF Hidden
<1>8. gone' \subseteq Items /\ gone \subseteq Items /\ Items \subseteq Ids /\ None \notin Ids
  BY <1>4 DEF Types, HistoryTypes, Ids, DirectoriesConstants
<1>9. Requests' /\ NoAnswerOf' /\ Completing'
  <2>1. Controlled(thread'[t]) /\ thread'[t].at \notin UnderWay
    BY <1>2 DEF Control, UnderWay
  <2>2. Asked(thread[t])' /\ Spared(thread[t])' /\ Complete(thread[t])'
    BY <1>8, <2>1, CalmClauses
  <2> QED BY <1>1, <1>2, <1>8, <2>2, AloneClauses
<1>10. \A f \in Folders : \A j \in Ids : j \in Kids(f)' => j \in Kids(f) /\ (f \in behind => f \in behind')
  <2> SUFFICES ASSUME NEW f \in Folders, NEW j \in Ids, j \in Kids(f)'
               PROVE  j \in Kids(f) /\ (f \in behind => f \in behind')
    OBVIOUS
  <2>1. kids'[f] # NoMap /\ \E n \in Names : kids'[f][n] = j
    BY <1>5, InKids DEF Types
  <2>2. kids[f] # NoMap /\ \E n \in Names : kids[f][n] = j
    BY <1>5, <1>8, <2>1
  <2> QED BY <1>5, <1>6, <2>1, <2>2, InKids DEF Types
<1>11. Types'
  BY <1>2, <1>4, <1>5, <1>6 DEF Types, ServerTypes, CacheTypes, HistoryTypes
<1>12. Server' /\ Response' /\ Uploading' /\ RowsInv'
  BY <1>4 DEF Server, Unique, Existing, GoneIsGone, GhostsAreGone, GhostsAreAlone,
    TombsHaveReasons, LocalsAreCalled,
     Response, Parted, SeenWell, SeenTrue, SeenDead, SeenUsed, Named, Reported,
     Uploading, Alive, Due, RowsInv, Pending
<1>13. NoRow' /\ NoInsert' /\ NoGhost'
  BY <1>4, <1>7 DEF GoneInv, NoRow, NoInsert, NoGhost, Named, Reported
<1>14. NoName'
  BY <1>4, <1>7, <1>8, <1>10 DEF GoneInv, NoName
<1>15. \A j : (Dead(j)' <=> Dead(j)) /\ (Reliable(j)' <=> Reliable(j))
  BY <1>4 DEF Dead, Reliable, Due
<1>16. DeadInv'
  BY <1>4, <1>8, <1>10, <1>15 DEF DeadInv
<1>17. Listed'
  <2> SUFFICES ASSUME NEW j \in Items, Reliable(j), server[j] # Nowhere, j # i, kids'[server[j].in] # NoMap
               PROVE  server[j].in \in behind' \/ kids'[server[j].in][server[j].name] = j
    BY <1>4, <1>7, <1>15 DEF Listed, Mapped
  <2>1. server[j].in \in Folders /\ server[j].name \in Names
    BY PlaceFields DEF Types, ServerTypes, Answers
  <2>2. kids[server[j].in] # NoMap
    BY <1>5, <2>1
  <2>3. server[j].in \in behind \/ kids[server[j].in][server[j].name] = j
    BY <1>7, <2>2 DEF ListInv, Listed, Mapped
  <2>4. CASE server[j].in \in behind
    BY <1>6, <2>1, <2>4
  <2>5. CASE kids[server[j].in][server[j].name] = j /\ server[j].in = p.in /\ server[j].name = p.name
    <3>1. server[j].in \in Taken(p, i)
      BY <1>8, <2>2, <2>5 DEF Taken, Mapped
    <3> QED BY <1>6, <2>1, <3>1
  <2>6. CASE kids[server[j].in][server[j].name] = j /\ ~(server[j].in = p.in /\ server[j].name = p.name)
    BY <1>5, <2>1, <2>2, <2>6
  <2> QED BY <2>3, <2>4, <2>5, <2>6
<1> QED BY <1>2, <1>9, <1>11, <1>12, <1>13, <1>14, <1>16, <1>17 DEF GoneInv, ListInv

LEMMA TombstoneKeeps ==
  ASSUME DirectoriesConstants, IInv, NEW t \in Threads, DeleteWithTombstone(t)
  PROVE  IInv'
<1> USE DEF IInv
<1>1. /\ thread[t].at = "tombstone" /\ thread[t].job \in Changing /\ thread[t].other \in Ids
      /\ GoesCalm(t)
  BY TombstoneGoes
<1>2. /\ thread' \in [Threads -> Records] /\ Control' /\ Calm(thread'[t])
      /\ \A o \in Threads \ {t} : thread'[o] = thread[o]
  BY <1>1, CalmStep
<1>3. PICK i \in Ids : i = thread[t].other
  BY <1>1
<1>4. /\ UNCHANGED <<server, used, ghost, unseen, cached, called, kids, delta, upload, gone, behind>>
      /\ tombs' = tombs \cup {i} /\ row' = [row EXCEPT ![i] = Nowhere]
      /\ astray' = astray \cup ({i} \ gone)
  BY <1>3 DEF DeleteWithTombstone, remote, memory
<1>5. \A j : /\ Deleting(j, Hidden) <=> j = i
             /\ Deleting(j, {"tombstone"}) <=> j = i
             /\ ~Deleting(j, {"forget"})
             /\ ~Deleting(j, Hidden)'
             /\ ~Deleting(j, {"tombstone"})'
             /\ ~Deleting(j, {"forget"})'
  <2>1. thread'[t].at \notin Hidden /\ thread[t].at = "tombstone" /\ thread[t].other = i
    BY <1>1, <1>2, <1>3 DEF Calm, Hidden
  <2> QED BY <1>1, <1>2, <2>1, AloneDeletes, AloneDeletesNext, HiddenParts DEF Hidden
<1>6. gone' \subseteq Items /\ gone \subseteq Items /\ Items \subseteq Ids
  BY <1>4 DEF Types, HistoryTypes, Ids
<1>7. Requests' /\ NoAnswerOf' /\ Completing'
  <2>1. Controlled(thread'[t]) /\ thread'[t].at \notin UnderWay
    BY <1>2 DEF Calm
  <2>2. Asked(thread[t])' /\ Spared(thread[t])' /\ Complete(thread[t])'
    BY <1>6, <2>1, CalmClauses
  <2> QED BY <1>1, <1>2, <1>6, <2>2, AloneClauses
<1>8. row' \in [Ids -> Spots] /\ row'[i] = Nowhere /\ \A j \in Ids \ {i} : row'[j] = row[j]
  BY <1>4, SpotsType DEF Types, CacheTypes
<1>9. Types'
  BY <1>2, <1>4, <1>8 DEF Types, ServerTypes, CacheTypes, HistoryTypes
<1>10. Server'
  <2>1. LocalsAreCalled'
    BY <1>4, <1>8 DEF Server, LocalsAreCalled, Ids
  <2> QED BY <1>4, <2>1 DEF Server, Unique, Existing, GoneIsGone, GhostsAreGone,
          GhostsAreAlone, TombsHaveReasons
<1>11. Response' /\ Uploading'
  BY <1>4 DEF Response, Parted, SeenWell, SeenTrue, SeenDead, SeenUsed, Named, Reported,
     Uploading, Alive, Due
<1>12. RowsInv'
  <2> SUFFICES ASSUME NEW j \in Items, j \notin astray', j \notin Pending
               PROVE  row'[j] = server[j]
    BY <1>4 DEF RowsInv, Pending, Due, Reported
  <2>1. CASE j = i
    BY <1>4, <1>8, <2>1 DEF Server, GoneIsGone
  <2>2. CASE j # i
    BY <1>4, <1>6, <1>8, <2>2 DEF RowsInv
  <2> QED BY <2>1, <2>2
<1>13. NoRow'
  BY <1>4, <1>5, <1>6, <1>8 DEF GoneInv, NoRow
<1>14. NoName'
  BY <1>4, <1>5 DEF GoneInv, NoName, Kids
<1>15. NoInsert' /\ NoGhost'
  BY <1>4, <1>5 DEF GoneInv, NoInsert, NoGhost, Named, Reported
<1>16. DeadInv'
  <2>1. \A j \in Items : row'[j] # Nowhere => row[j] # Nowhere
    BY <1>6, <1>8
  <2>2. \A j : Dead(j)' <=> Dead(j)
    BY <1>4 DEF Dead, Due
  <2> QED BY <1>4, <2>1, <2>2 DEF DeadInv, Kids
<1>17. Listed'
  <2> SUFFICES ASSUME NEW j \in Items, Reliable(j)', server[j] # Nowhere, Mapped(server[j].in)
               PROVE  server[j].in \in behind \/ kids[server[j].in][server[j].name] = j
    BY <1>4 DEF Listed, Mapped
  <2>1. j # i
    BY <1>4 DEF Server, GoneIsGone, Reliable
  <2>2. Reliable(j)
    BY <1>4, <2>1 DEF Reliable, Due
  <2> QED BY <1>5, <2>1, <2>2 DEF ListInv, Listed
<1> QED BY <1>2, <1>7, <1>9, <1>10, <1>11, <1>12, <1>13, <1>14, <1>15, <1>16, <1>17
        DEF GoneInv, ListInv

LEMMA TombstoneFailsKeeps ==
  ASSUME DirectoriesConstants, IInv, NEW t \in Threads, TombstoneFails(t)
  PROVE  IInv'
<1> USE DEF IInv
<1>1. /\ thread[t].at = "tombstone" /\ thread[t].job \in Changing /\ thread[t].other \in Ids
      /\ GoesCalm(t)
  BY TombstoneGoes
<1>2. /\ thread' \in [Threads -> Records] /\ Control' /\ Calm(thread'[t])
      /\ \A o \in Threads \ {t} : thread'[o] = thread[o]
  BY <1>1, CalmStep
<1>3. PICK i \in Ids, F \in SUBSET Folders :
        i = thread[t].other /\ F = {f \in Folders : i \in Items /\ server[i].in = f}
  BY <1>1
<1>4. /\ UNCHANGED <<server, used, ghost, unseen, row, tombs, cached, called, kids, delta, upload, gone>>
      /\ astray' = astray \cup {i}
      /\ behind' = {f \in behind \cup F : kids[f] # NoMap}
  BY <1>3 DEF TombstoneFails, Behind, remote, sqlite, memory
<1>5. /\ behind' \subseteq Folders
      /\ \A f \in Folders : f \in behind /\ kids[f] # NoMap => f \in behind'
  BY <1>4 DEF Types, HistoryTypes
<1>6. \A j : /\ Deleting(j, Hidden) <=> j = i
             /\ Deleting(j, {"tombstone"}) <=> j = i
             /\ ~Deleting(j, {"forget"})
             /\ ~Deleting(j, Hidden)'
             /\ ~Deleting(j, {"tombstone"})'
             /\ ~Deleting(j, {"forget"})'
  <2>1. thread'[t].at \notin Hidden /\ thread[t].at = "tombstone" /\ thread[t].other = i
    BY <1>1, <1>2, <1>3 DEF Calm, Hidden
  <2> QED BY <1>1, <1>2, <2>1, AloneDeletes, AloneDeletesNext, HiddenParts DEF Hidden
<1>7. gone' \subseteq Items /\ gone \subseteq Items /\ Items \subseteq Ids
  BY <1>4 DEF Types, HistoryTypes, Ids
<1>8. Requests' /\ NoAnswerOf' /\ Completing'
  <2>1. Controlled(thread'[t]) /\ thread'[t].at \notin UnderWay
    BY <1>2 DEF Calm
  <2>2. Asked(thread[t])' /\ Spared(thread[t])' /\ Complete(thread[t])'
    BY <1>7, <2>1, CalmClauses
  <2> QED BY <1>1, <1>2, <1>7, <2>2, AloneClauses
<1>9. Types'
  BY <1>2, <1>3, <1>4, <1>5 DEF Types, ServerTypes, CacheTypes, HistoryTypes
<1>10. Server'
  BY <1>4 DEF Server, Unique, Existing, GoneIsGone, GhostsAreGone, GhostsAreAlone,
    TombsHaveReasons,
     LocalsAreCalled
<1>11. Response' /\ Uploading'
  BY <1>4 DEF Response, Parted, SeenWell, SeenTrue, SeenDead, SeenUsed, Named, Reported,
     Uploading, Alive, Due
<1>12. RowsInv'
  BY <1>4 DEF RowsInv, Pending, Due, Reported
<1>13. NoRow' /\ NoInsert' /\ NoGhost'
  BY <1>4, <1>6 DEF GoneInv, NoRow, NoInsert, NoGhost, Named, Reported
<1>14. \A f \in Folders, j \in Ids : j \in Kids(f)' => j \in Kids(f) /\ (f \in behind => f \in behind')
  <2>1. \A f \in Folders, j \in Ids : j \in Kids(f) => kids[f] # NoMap
    BY KidsAreIds DEF Types, Mapped
  <2> QED BY <1>4, <1>5, <2>1 DEF Kids
<1>15. NoName'
  <2> SUFFICES ASSUME NEW j \in gone, j \notin astray', j \in cached, NEW f \in Folders, j \in Kids(f)'
               PROVE  f \in behind'
    BY <1>4, <1>6 DEF NoName
  <2>1. j \notin astray /\ j \in Ids /\ j \in Kids(f)
    BY <1>4, <1>7, <1>14
  <2> QED BY <1>6, <1>14, <2>1 DEF GoneInv, NoName
<1>16. DeadInv'
  <2>1. \A j : Dead(j)' <=> Dead(j)
    BY <1>4 DEF Dead, Due
  <2> QED BY <1>4, <1>7, <1>14, <2>1 DEF DeadInv
<1>17. Listed'
  <2> SUFFICES ASSUME NEW j \in Items, Reliable(j)', server[j] # Nowhere, kids[server[j].in] # NoMap
               PROVE  server[j].in \in behind' \/ kids[server[j].in][server[j].name] = j
    BY <1>4 DEF Listed, Mapped
  <2>1. server[j].in \in Folders
    BY PlaceFields DEF Types, ServerTypes, Answers
  <2>2. Reliable(j) /\ j \notin gone
    BY <1>4 DEF Reliable, Due, Server, GoneIsGone
  <2>3. CASE j = i
    BY <1>3, <1>4, <2>1, <2>3
  <2>4. CASE j # i
    <3>1. server[j].in \in behind \/ kids[server[j].in][server[j].name] = j
      BY <1>6, <2>2, <2>4 DEF ListInv, Listed, Mapped
    <3> QED BY <1>5, <2>1, <3>1
  <2> QED BY <2>3, <2>4
<1> QED BY <1>2, <1>8, <1>9, <1>10, <1>11, <1>12, <1>13, <1>15, <1>16, <1>17
        DEF GoneInv, ListInv

LEMMA MoveKeeps ==
  ASSUME DirectoriesConstants, IInv, NEW t \in Threads, Move(t)
  PROVE  IInv'
<1> USE DEF IInv
<1>1. /\ thread[t].at = "move" /\ thread[t].job \in Changing /\ thread[t].item \in Ids
      /\ thread[t].to \in Places /\ UNCHANGED <<sqlite, memory, delta, upload, history>>
      /\ \/ thread[t].item \in Locals /\ GoesOn(t, "upsert") /\ UNCHANGED remote
         \/ /\ thread[t].item \in Items /\ GoesOn(t, "upsert")
            /\ server[thread[t].item] # Nowhere /\ Free(thread[t].to)
            /\ server' = [server EXCEPT ![thread[t].item] = thread[t].to]
            /\ unseen' = unseen \cup {thread[t].item} /\ UNCHANGED <<used, ghost, changes>>
         \/ GoesCalm(t) /\ UNCHANGED remote
  BY MoveGoes
<1>2. CASE GoesCalm(t) /\ UNCHANGED remote
  BY <1>1, <1>2, CalmStepKeeps DEF Hidden
<1>3. CASE GoesOn(t, "upsert")
  <2>1. /\ thread' \in [Threads -> Records] /\ Control' /\ thread'[t].at = "upsert"
        /\ Same(thread'[t], thread[t]) /\ thread'[t].answer = NoAnswer /\ thread'[t].map = EmptyMap
        /\ \A o \in Threads \ {t} : thread'[o] = thread[o]
    BY <1>1, <1>3, OnStep
  <2>2. PICK i \in Ids, to \in Places : i = thread[t].item /\ to = thread[t].to
    BY <1>1
  <2>3. UNCHANGED <<row, tombs, cached, called, kids, delta, upload, gone, astray, behind>>
    BY <1>1 DEF sqlite, memory, history
  <2>4. \A j : /\ Deleting(j, Hidden)' <=> Deleting(j, Hidden)
               /\ Deleting(j, {"forget"})' <=> Deleting(j, {"forget"})
               /\ Deleting(j, {"tombstone"})' <=> Deleting(j, {"tombstone"})
    BY <1>1, <2>1, DeletingSame DEF Hidden
  <2>5. gone' \subseteq Items /\ gone \subseteq Items /\ Items \cap Locals = {} /\ None \notin Items
    BY <2>3 DEF Types, HistoryTypes, DirectoriesConstants
  <2>6. thread[t].overtaken = {} /\ thread'[t].overtaken = {} /\ thread'[t].item = i /\ thread'[t].to = to
    BY <1>1, <2>1, <2>2, Working DEF Controlled, UnderWay, Same
  <2>7. CASE i \in Locals /\ UNCHANGED remote
    <3>1. UNCHANGED <<server, used, ghost, unseen>>
      BY <2>7 DEF remote
    <3>2. Asked(thread[t])' /\ Spared(thread[t])' /\ Complete(thread[t])'
      BY <2>1, <2>5, <2>6, <2>7
        DEF Asked, Spared, Reportable, Complete, NoAnswer, EmptyMap
    <3>3. Requests' /\ NoAnswerOf' /\ Completing'
      BY <1>1, <2>1, <2>5, <3>2, AloneClauses
    <3>4. Types'
      BY <2>1, <2>3, <3>1 DEF Types, ServerTypes, CacheTypes, HistoryTypes
    <3>5. Server' /\ Response' /\ Uploading' /\ RowsInv'
      BY <2>3, <3>1 DEF Server, Unique, Existing, GoneIsGone, GhostsAreGone,
        GhostsAreAlone, TombsHaveReasons, LocalsAreCalled,
         Response, Parted, SeenWell, SeenTrue, SeenDead, SeenUsed, Named, Reported,
         Uploading, Alive, Due, RowsInv, Pending
    <3>6. NoRow' /\ NoName' /\ NoInsert' /\ NoGhost'
      BY <2>3, <2>4, <3>1 DEF GoneInv, NoRow, NoName, NoInsert, NoGhost, Named,
        Reported, Kids
    <3>7. \A j : (Dead(j)' <=> Dead(j)) /\ (Reliable(j)' <=> Reliable(j))
      BY <2>3, <3>1 DEF Dead, Reliable, Due
    <3>8. DeadInv' /\ Listed'
      BY <2>3, <2>4, <3>1, <3>7 DEF DeadInv, ListInv, Listed, Kids, Mapped
    <3> QED BY <2>1, <3>3, <3>4, <3>5, <3>6, <3>8 DEF GoneInv, ListInv
  <2>8. CASE /\ i \in Items /\ server[i] # Nowhere /\ Free(to) /\ server' = [server EXCEPT ![i] = to]
             /\ unseen' = unseen \cup {i} /\ UNCHANGED <<used, ghost, changes>>
    <3>1. i \in used /\ i \notin gone /\ to \in Spots
      BY <2>8 DEF Server, Existing, GoneIsGone, Spots
    <3>2. ServerChanges(i, to)
      BY <2>3, <2>8, <3>1 DEF ServerChanges, Free
    <3>3. Unique' /\ Existing' /\ GhostsAreAlone' /\ Response' /\ RowsInv' /\ DeadInv'
      BY <2>8, <3>1, <3>2, ServerChangeKeeps
    <3>4. /\ \A j \in Items \ {i} : server'[j] = server[j]
          /\ Due' = Due \cup {i} /\ Named' = Named
          /\ \A j \in Items : Alive(j) => Alive(j)'
      BY <2>8, <3>1, <3>2, ServerChangeFacts
    <3>5. Asked(thread[t])'
      <4>1. i \in Due'
        BY <3>4
      <4>2. Placed(i, to)'
        BY <4>1 DEF Placed, Alive, Trusted
      <4> QED BY <2>1, <2>6, <4>2 DEF Asked, Placed, Alive, Trusted
    <3>6. Spared(thread[t])' /\ Complete(thread[t])'
      BY <2>1, <2>3, <2>5, <2>6, <3>1
        DEF Spared, Reportable, Complete, NoAnswer, EmptyMap
    <3>7. Requests' /\ NoAnswerOf' /\ Completing'
      BY <1>1, <2>1, <2>5, <3>5, <3>6, AloneClauses
    <3>8. server' \in Answers
      BY <2>8, <3>1 DEF Types, ServerTypes, Answers
    <3>9. Types'
      BY <2>1, <2>3, <2>8, <3>8 DEF Types, ServerTypes, CacheTypes, HistoryTypes
    <3>10. Server'
      <4>1. GoneIsGone' /\ GhostsAreGone'
        BY <2>3, <2>5, <2>8, <3>1, <3>4 DEF Server, GoneIsGone, GhostsAreGone
      <4> QED BY <2>3, <3>3, <4>1 DEF Server, TombsHaveReasons, LocalsAreCalled
    <3>11. Uploading'
      BY <2>3, <3>4 DEF Uploading
    <3>12. NoRow' /\ NoName' /\ NoInsert' /\ NoGhost'
      BY <2>3, <2>4, <2>8, <3>4 DEF GoneInv, NoRow, NoName, NoInsert, NoGhost, Kids
    <3>13. Listed'
      BY <2>4, <2>8, <3>1, <3>2, ServerChangeListed
    <3> QED BY <2>1, <3>3, <3>7, <3>9, <3>10, <3>11, <3>12, <3>13 DEF GoneInv, ListInv
  <2> QED BY <1>1, <1>2, <2>2, <2>7, <2>8
<1> QED BY <1>1, <1>2, <1>3

(* The moved item is stored where it went, unless it has moved on.         *)
LEMMA UpsertMovedKeeps ==
  ASSUME DirectoriesConstants, IInv, NEW t \in Threads, UpsertMoved(t)
  PROVE  IInv'
<1> USE DEF IInv
<1>1. /\ thread[t].at = "upsert" /\ thread[t].job \in Changing /\ thread[t].item \in Ids
      /\ thread[t].to \in Places /\ GoesOn(t, "remap")
  BY UpsertMovedGoes
<1>2. /\ thread' \in [Threads -> Records] /\ Control' /\ thread'[t].at = "remap"
      /\ Same(thread'[t], thread[t]) /\ thread'[t].answer = NoAnswer /\ thread'[t].map = EmptyMap
      /\ \A o \in Threads \ {t} : thread'[o] = thread[o]
  BY <1>1, OnStep
<1>3. PICK i \in Ids, to \in Places, over \in SUBSET Items :
        i = thread[t].item /\ to = thread[t].to /\ over = thread[t].overtaken
  BY <1>1, Working, Fields
<1>4. /\ UNCHANGED <<server, used, ghost, unseen, tombs, kids, delta, upload, gone>>
      /\ row' = (IF i \notin tombs THEN [row EXCEPT ![i] = to] ELSE row)
      /\ astray' = (IF i \in over THEN astray \cup {i} ELSE astray)
      /\ cached' = cached \cup {i}
      /\ called' = (IF i \in Locals THEN [called EXCEPT ![i] = to] ELSE called)
      /\ behind' = behind \cup Showing({i} \cap over)
  BY <1>3 DEF UpsertMoved, Upsert, remote
<1>5. thread'[t].item = i /\ thread'[t].to = to /\ thread'[t].overtaken = over
  BY <1>2, <1>3 DEF Same
<1>6. Asked(thread[t]) /\ Spared(thread[t]) /\ Complete(thread[t])
  BY DEF Requests, GoneInv, NoAnswerOf, ListInv, Completing
<1>7. /\ i \in Items \ over => Alive(i) /\ (Trusted(i) => server[i] = to)
      /\ i \notin gone
  BY <1>1, <1>3, <1>6 DEF Asked, Placed, Spared, Reportable
<1>8. \A j : /\ Deleting(j, Hidden)' <=> Deleting(j, Hidden)
             /\ Deleting(j, {"forget"})' <=> Deleting(j, {"forget"})
             /\ Deleting(j, {"tombstone"})' <=> Deleting(j, {"tombstone"})
  BY <1>1, <1>2, DeletingSame DEF Hidden
<1>9. \A j : /\ Alive(j)' <=> Alive(j)
             /\ Trusted(j)' => Trusted(j)
             /\ Reliable(j)' => Reliable(j)
             /\ Dead(j)' <=> Dead(j)
  BY <1>4 DEF Alive, Trusted, Reliable, Dead, Due, Reported
<1>10. astray \subseteq astray' /\ behind \subseteq behind'
       /\ (\A f \in Folders : i \in Kids(f) /\ i \in over => f \in behind')
       /\ \A f : Kids(f)' = Kids(f)
  BY <1>4 DEF Showing, Kids
<1>11. gone' \subseteq Items /\ gone \subseteq Items /\ Items \cap Locals = {} /\ None \notin Items /\ Items \subseteq Ids
       /\ to \in Spots /\ to # Nowhere
  BY <1>4, SpotsType, PlaceFields DEF Types, HistoryTypes, DirectoriesConstants, Ids
<1>12. Asked(thread[t])'
  <2>1. i \in Items \ over => Placed(i, to)'
    BY <1>4, <1>7, <1>9 DEF Placed
  <2> QED BY <1>2, <1>5, <2>1 DEF Asked, Placed, Alive, Trusted
<1>13. Spared(thread[t])'
  BY <1>2, <1>4, <1>5, <1>7, <1>11 DEF Spared, Reportable, NoAnswer, EmptyMap
<1>14. Complete(thread[t])'
  <2>1. i \in Items \cap over /\ Reliable(i) /\ server[i] # Nowhere =>
          ~Mapped(server[i].in) \/ server[i].in \in behind
    BY <1>1, <1>3, <1>6 DEF Complete, Reliable
  <2>2. i \in Items \cap over /\ Reliable(i)' /\ server[i] # Nowhere =>
          ~Mapped(server[i].in) \/ server[i].in \in behind'
    BY <1>9, <1>10, <2>1
  <2> QED BY <1>2, <1>4, <1>5, <2>2 DEF Complete, Reliable, Mapped
<1>15. Requests' /\ NoAnswerOf' /\ Completing'
  BY <1>1, <1>2, <1>11, <1>12, <1>13, <1>14, AloneClauses
<1>16. row' \in [Ids -> Spots] /\ called' \in [Locals -> Spots]
       /\ (\A j \in Ids \ {i} : row'[j] = row[j]) /\ row'[i] \in {row[i], to}
       /\ (i \in tombs => row'[i] = row[i]) /\ (i \notin tombs => row'[i] = to)
       /\ (\A j \in Locals : called'[j] = IF j = i THEN to ELSE called[j])
  BY <1>4, <1>11 DEF Types, CacheTypes
<1>17. Types'
  <2>1. behind' \subseteq Folders
    BY <1>4 DEF Types, HistoryTypes, Showing
  <2> QED BY <1>2, <1>4, <1>16, <2>1 DEF Types, ServerTypes, CacheTypes, HistoryTypes
<1>18. Server'
  <2>1. LocalsAreCalled'
    <3> SUFFICES ASSUME NEW j \in Locals, j \in cached' \/ row'[j] # Nowhere
                 PROVE  called'[j] # Nowhere
      BY DEF LocalsAreCalled
    <3>1. CASE j = i
      BY <1>11, <1>16, <3>1
    <3>2. CASE j # i
      BY <1>4, <1>16, <3>2 DEF Server, LocalsAreCalled, Ids
    <3> QED BY <3>1, <3>2
  <2> QED BY <1>4, <1>10, <2>1 DEF Server, Unique, Existing, GoneIsGone, GhostsAreGone,
          GhostsAreAlone, TombsHaveReasons
<1>19. Response' /\ Uploading'
  BY <1>4 DEF Response, Parted, SeenWell, SeenTrue, SeenDead, SeenUsed, Named, Reported,
     Uploading, Alive, Due
<1>20. RowsInv'
  <2> SUFFICES ASSUME NEW j \in Items, j \notin astray', j \notin Pending
               PROVE  row'[j] = server[j]
    BY <1>4 DEF RowsInv, Pending, Due, Reported
  <2>1. row[j] = server[j] /\ j \notin astray
    BY <1>10 DEF RowsInv
  <2>2. CASE j = i
    <3>1. i \notin over /\ Trusted(i)
      BY <1>4, <2>1, <2>2 DEF Trusted, Pending
    <3> QED BY <1>7, <1>16, <2>1, <2>2, <3>1
  <2>3. CASE j # i
    BY <1>11, <1>16, <2>1, <2>3
  <2> QED BY <2>2, <2>3
<1>21. NoRow' /\ NoName'
  <2>1. \A j \in gone : j # i /\ row'[j] = row[j] /\ (j \in astray' <=> j \in astray)
    BY <1>4, <1>7, <1>11, <1>16
  <2> QED BY <1>4, <1>8, <1>10, <2>1 DEF GoneInv, NoRow, NoName
<1>22. NoInsert' /\ NoGhost'
  BY <1>4, <1>8 DEF GoneInv, NoInsert, NoGhost, Named, Reported
<1>23. DeadInv'
  <2> SUFFICES ASSUME NEW j \in Items, Dead(j), j \in cached' \/ (row'[j] # Nowhere /\ j \notin delta.drops),
                      NEW f \in Folders, j \in Kids(f)
               PROVE  f \in behind'
    BY <1>4, <1>9, <1>10 DEF DeadInv
  <2>1. CASE j = i
    <3>1. i \in over
      BY <1>7, <2>1 DEF Alive, Dead
    <3> QED BY <1>10, <2>1, <3>1
  <2>2. CASE j # i
    BY <1>4, <1>10, <1>11, <1>16, <2>2 DEF DeadInv
  <2> QED BY <2>1, <2>2
<1>24. Listed'
  BY <1>4, <1>8, <1>9, <1>10 DEF ListInv, Listed, Mapped
<1> QED BY <1>2, <1>15, <1>17, <1>18, <1>19, <1>20, <1>21, <1>22, <1>23, <1>24
        DEF GoneInv, ListInv

(* The moved item is in the map of its folder, unless it has moved on.     *)
LEMMA RemapKeeps ==
  ASSUME DirectoriesConstants, IInv, NEW t \in Threads, Remap(t)
  PROVE  IInv'
<1> USE DEF IInv
<1>1. /\ thread[t].at = "remap" /\ thread[t].job \in Changing /\ thread[t].item \in Ids
      /\ thread[t].to \in Places /\ thread[t].from \in Places /\ GoesCalm(t)
  BY RemapGoes
<1>2. /\ thread' \in [Threads -> Records] /\ Control' /\ Calm(thread'[t])
      /\ \A o \in Threads \ {t} : thread'[o] = thread[o]
  BY <1>1, CalmStep
<1>3. PICK i \in Ids, from \in Places, to \in Places, over \in SUBSET Items :
        /\ i = thread[t].item /\ from = thread[t].from /\ to = thread[t].to
        /\ over = thread[t].overtaken
  BY <1>1, Working, Fields
<1>4. /\ UNCHANGED <<server, used, ghost, unseen, row, tombs, cached, called, delta, upload, gone, astray>>
      /\ kids' = AddChild(AddChild(kids, from, None), to, i)
      /\ Behind((IF over = {} THEN {} ELSE {to.in}) \cup Taken(from, i) \cup Taken(to, i))
  BY <1>3 DEF Remap, RemoveChild, remote, sqlite
<1>5. /\ kids' \in [Folders -> Maps \cup {NoMap}]
      /\ from.in \in Folders /\ from.name \in Names /\ to.in \in Folders /\ to.name \in Names
      /\ \A f \in Folders :
           /\ kids'[f] = NoMap <=> kids[f] = NoMap
           /\ kids[f] # NoMap => \A n \in Names :
                kids'[f][n] = IF f = to.in /\ n = to.name THEN i
                              ELSE IF f = from.in /\ n = from.name THEN None ELSE kids[f][n]
  <2>1. kids \in [Folders -> Maps \cup {NoMap}]
    BY DEF Types, CacheTypes
  <2>2. PICK mid : mid = AddChild(kids, from, None)
    OBVIOUS
  <2>3. /\ mid \in [Folders -> Maps \cup {NoMap}] /\ from.in \in Folders /\ from.name \in Names
        /\ \A f \in Folders :
             /\ mid[f] = NoMap <=> kids[f] = NoMap
             /\ f # from.in => mid[f] = kids[f]
             /\ f = from.in /\ kids[f] # NoMap =>
                  \A n \in Names : mid[f][n] = IF n = from.name THEN None ELSE kids[f][n]
    BY <2>1, <2>2, AddChildFacts
  <2>4. kids' = AddChild(mid, to, i)
    BY <1>4, <2>2
  <2>5. /\ kids' \in [Folders -> Maps \cup {NoMap}] /\ to.in \in Folders /\ to.name \in Names
        /\ \A f \in Folders :
             /\ kids'[f] = NoMap <=> mid[f] = NoMap
             /\ f # to.in => kids'[f] = mid[f]
             /\ f = to.in /\ mid[f] # NoMap =>
                  \A n \in Names : kids'[f][n] = IF n = to.name THEN i ELSE mid[f][n]
    BY <2>3, <2>4, AddChildFacts
  <2> QED BY ONLY <2>3, <2>5
<1>6. /\ behind' \subseteq Folders
      /\ \A f \in Folders : kids'[f] # NoMap =>
           /\ f \in behind => f \in behind'
           /\ f = to.in /\ over # {} => f \in behind'
           /\ f \in Taken(from, i) \cup Taken(to, i) => f \in behind'
  <2>1. behind \subseteq Folders /\ Taken(from, i) \subseteq Folders /\ Taken(to, i) \subseteq Folders
    BY <1>5 DEF Types, HistoryTypes, Taken
  <2> QED BY <1>4, <1>5, <2>1 DEF Behind
<1>7. Asked(thread[t]) /\ Spared(thread[t]) /\ Complete(thread[t])
  BY DEF Requests, GoneInv, NoAnswerOf, ListInv, Completing
<1>8. /\ i \in Items \ over => Alive(i) /\ (Trusted(i) => server[i] = to)
      /\ i \notin gone
      /\ i \in Items \cap over /\ Reliable(i) /\ server[i] # Nowhere =>
           ~Mapped(server[i].in) \/ server[i].in \in behind
  BY <1>1, <1>3, <1>7 DEF Asked, Placed, Spared, Reportable, Complete
<1>9. \A j : /\ Deleting(j, Hidden)' <=> Deleting(j, Hidden)
             /\ Deleting(j, {"forget"})' <=> Deleting(j, {"forget"})
             /\ Deleting(j, {"tombstone"})' <=> Deleting(j, {"tombstone"})
  BY <1>1, <1>2, DeletingSame DEF Hidden, Calm
<1>10. gone' \subseteq Items /\ gone \subseteq Items /\ Items \subseteq Ids /\ None \notin Ids
  BY <1>4 DEF Types, HistoryTypes, Ids, DirectoriesConstants
<1>11. Requests' /\ NoAnswerOf' /\ Completing'
  <2>1. Controlled(thread'[t]) /\ thread'[t].at \notin UnderWay
    BY <1>2 DEF Calm
  <2>2. Asked(thread[t])' /\ Spared(thread[t])' /\ Complete(thread[t])'
    BY <1>10, <2>1, CalmClauses
  <2> QED BY <1>1, <1>2, <1>10, <2>2, AloneClauses
<1>12. \A f \in Folders : \A j \in Ids : j \in Kids(f)' =>
         kids'[f] # NoMap /\ (j \in Kids(f) \/ (j = i /\ f = to.in))
  <2> SUFFICES ASSUME NEW f \in Folders, NEW j \in Ids, j \in Kids(f)'
               PROVE  kids'[f] # NoMap /\ (j \in Kids(f) \/ (j = i /\ f = to.in))
    OBVIOUS
  <2>1. kids'[f] # NoMap /\ \E n \in Names : kids'[f][n] = j
    BY <1>5, InKids DEF Types
  <2>2. kids[f] # NoMap /\ ((\E n \in Names : kids[f][n] = j) \/ (j = i /\ f = to.in))
    BY <1>5, <1>10, <2>1
  <2> QED BY <1>5, <2>1, <2>2, InKids DEF Types
<1>13. Types'
  BY <1>2, <1>4, <1>5, <1>6 DEF Types, ServerTypes, CacheTypes, HistoryTypes
<1>14. Server' /\ Response' /\ Uploading' /\ RowsInv'
  BY <1>4 DEF Server, Unique, Existing, GoneIsGone, GhostsAreGone, GhostsAreAlone,
    TombsHaveReasons, LocalsAreCalled,
     Response, Parted, SeenWell, SeenTrue, SeenDead, SeenUsed, Named, Reported,
     Uploading, Alive, Due, RowsInv, Pending
<1>15. NoRow' /\ NoInsert' /\ NoGhost'
  BY <1>4, <1>9 DEF GoneInv, NoRow, NoInsert, NoGhost, Named, Reported
<1>16. NoName'
  BY <1>4, <1>6, <1>8, <1>9, <1>10, <1>12 DEF GoneInv, NoName
<1>17. \A j : (Dead(j)' <=> Dead(j)) /\ (Reliable(j)' <=> Reliable(j))
  BY <1>4 DEF Dead, Reliable, Due
<1>18. DeadInv'
  <2> SUFFICES ASSUME NEW j \in Items, Dead(j), j \in cached \/ (row[j] # Nowhere /\ j \notin delta.drops),
                      NEW f \in Folders, j \in Kids(f)'
               PROVE  f \in behind'
    BY <1>4, <1>17 DEF DeadInv
  <2>1. kids'[f] # NoMap /\ (j \in Kids(f) \/ (j = i /\ f = to.in))
    BY <1>10, <1>12
  <2>2. CASE j \in Kids(f)
    BY <1>6, <2>1, <2>2 DEF DeadInv
  <2>3. CASE j = i /\ f = to.in
    <3>1. over # {}
      BY <1>8, <2>3 DEF Alive, Dead
    <3> QED BY <1>6, <2>1, <2>3, <3>1
  <2> QED BY <2>1, <2>2, <2>3
<1>19. Listed'
  <2> SUFFICES ASSUME NEW j \in Items, Reliable(j), server[j] # Nowhere, ~Deleting(j, Hidden),
                      kids'[server[j].in] # NoMap
               PROVE  server[j].in \in behind' \/ kids'[server[j].in][server[j].name] = j
    BY <1>4, <1>9, <1>17 DEF Listed, Mapped
  <2>1. server[j].in \in Folders /\ server[j].name \in Names
    BY PlaceFields DEF Types, ServerTypes, Answers
  <2>2. kids[server[j].in] # NoMap
    BY <1>5, <2>1
  <2>3. server[j].in \in behind \/ kids[server[j].in][server[j].name] = j
    BY <2>2 DEF ListInv, Listed, Mapped
  <2>4. CASE server[j].in \in behind
    BY <1>6, <2>1, <2>4
  <2>5. CASE kids[server[j].in][server[j].name] = j /\ j = i
    <3>1. CASE i \in over
      BY <1>6, <1>8, <2>1, <2>2, <2>5, <3>1 DEF Mapped
    <3>2. CASE i \notin over
      <4>1. server[i] = to
        BY <1>8, <2>5, <3>2 DEF Reliable, Trusted, Reported
      <4> QED BY <1>5, <2>1, <2>2, <2>5, <4>1
    <3> QED BY <3>1, <3>2
  <2>6. CASE kids[server[j].in][server[j].name] = j /\ j # i
    <3>1. CASE server[j].in = from.in /\ server[j].name = from.name
      <4>1. server[j].in \in Taken(from, i)
        BY <1>10, <2>2, <2>6, <3>1 DEF Taken, Mapped
      <4> QED BY <1>6, <2>1, <4>1
    <3>2. CASE server[j].in = to.in /\ server[j].name = to.name
      <4>1. server[j].in \in Taken(to, i)
        BY <1>10, <2>2, <2>6, <3>2 DEF Taken, Mapped
      <4> QED BY <1>6, <2>1, <4>1
    <3> QED BY <1>5, <2>1, <2>2, <2>6, <3>1, <3>2
  <2> QED BY <2>3, <2>4, <2>5, <2>6
<1> QED BY <1>2, <1>11, <1>13, <1>14, <1>15, <1>16, <1>18, <1>19 DEF GoneInv, ListInv

(* A new folder or file is in the memory and in the map of its folder.     *)
LEMMA EnterKeeps ==
  ASSUME DirectoriesConstants, IInv, NEW t \in Threads, Enter(t)
  PROVE  IInv'
<1> USE DEF IInv
<1>1. /\ thread[t].at = "enter" /\ thread[t].job \in Changing /\ thread[t].item \in Ids
      /\ thread[t].from \in Places /\ GoesCalm(t)
  BY EnterGoes
<1>2. /\ thread' \in [Threads -> Records] /\ Control' /\ Calm(thread'[t])
      /\ \A o \in Threads \ {t} : thread'[o] = thread[o]
  BY <1>1, CalmStep
<1>3. PICK i \in Ids, from \in Places, over \in SUBSET Items :
        i = thread[t].item /\ from = thread[t].from /\ over = thread[t].overtaken
  BY <1>1, Working, Fields
<1>4. /\ UNCHANGED <<server, used, ghost, unseen, row, tombs, delta, upload, gone, astray>>
      /\ cached' = cached \cup {i}
      /\ called' = (IF i \in Locals THEN [called EXCEPT ![i] = from] ELSE called)
      /\ kids' = AddChild(kids, from, i)
      /\ Behind((IF over = {} THEN {} ELSE {from.in} \cup Showing({i})) \cup Taken(from, i))
  BY <1>3 DEF Enter, remote, sqlite
<1>5. /\ kids' \in [Folders -> Maps \cup {NoMap}] /\ from.in \in Folders /\ from.name \in Names
      /\ \A f \in Folders :
           /\ kids'[f] = NoMap <=> kids[f] = NoMap
           /\ f # from.in => kids'[f] = kids[f]
           /\ f = from.in /\ kids[f] # NoMap =>
                \A n \in Names : kids'[f][n] = IF n = from.name THEN i ELSE kids[f][n]
  BY <1>4, AddChildFacts DEF Types, CacheTypes
<1>6. /\ behind' \subseteq Folders
      /\ \A f \in Folders : kids'[f] # NoMap =>
           /\ f \in behind => f \in behind'
           /\ over # {} /\ (f = from.in \/ i \in Kids(f)) => f \in behind'
           /\ f \in Taken(from, i) => f \in behind'
  <2>1. behind \subseteq Folders /\ Taken(from, i) \subseteq Folders /\ Showing({i}) \subseteq Folders
        /\ from.in \in Folders
    BY <1>5 DEF Types, HistoryTypes, Taken, Showing
  <2>2. \A f \in Folders : i \in Kids(f) => f \in Showing({i})
    BY DEF Showing
  <2> QED BY <1>4, <2>1, <2>2 DEF Behind
<1>7. Asked(thread[t]) /\ Spared(thread[t])
  BY DEF Requests, GoneInv, NoAnswerOf
<1>8. (i \in Items \ over => Alive(i)) /\ i \notin gone
  BY <1>1, <1>3, <1>7 DEF Asked, Placed, Spared, Reportable
<1>9. \A j : /\ Deleting(j, Hidden)' <=> Deleting(j, Hidden)
             /\ Deleting(j, {"forget"})' <=> Deleting(j, {"forget"})
             /\ Deleting(j, {"tombstone"})' <=> Deleting(j, {"tombstone"})
  BY <1>1, <1>2, DeletingSame DEF Hidden, Calm
<1>10. gone' \subseteq Items /\ gone \subseteq Items /\ Items \subseteq Ids /\ None \notin Ids
       /\ from \in Spots /\ from # Nowhere
  BY <1>4, SpotsType, PlaceFields DEF Types, HistoryTypes, Ids, DirectoriesConstants
<1>11. Requests' /\ NoAnswerOf' /\ Completing'
  <2>1. Controlled(thread'[t]) /\ thread'[t].at \notin UnderWay
    BY <1>2 DEF Calm
  <2>2. Asked(thread[t])' /\ Spared(thread[t])' /\ Complete(thread[t])'
    BY <1>10, <2>1, CalmClauses
  <2> QED BY <1>1, <1>2, <1>10, <2>2, AloneClauses
<1>12. \A f \in Folders : \A j \in Ids : j \in Kids(f)' =>
         kids'[f] # NoMap /\ (j \in Kids(f) \/ (j = i /\ f = from.in))
  <2> SUFFICES ASSUME NEW f \in Folders, NEW j \in Ids, j \in Kids(f)'
               PROVE  kids'[f] # NoMap /\ (j \in Kids(f) \/ (j = i /\ f = from.in))
    OBVIOUS
  <2>1. kids'[f] # NoMap /\ \E n \in Names : kids'[f][n] = j
    BY <1>5, InKids DEF Types
  <2>2. kids[f] # NoMap /\ ((\E n \in Names : kids[f][n] = j) \/ (j = i /\ f = from.in))
    BY <1>5, <2>1
  <2> QED BY <1>5, <2>1, <2>2, InKids DEF Types
<1>13. called' \in [Locals -> Spots] /\ (\A j \in Locals : called'[j] = IF j = i THEN from ELSE called[j])
  BY <1>4, <1>10 DEF Types, CacheTypes
<1>14. Types'
  BY <1>2, <1>4, <1>5, <1>6, <1>13 DEF Types, ServerTypes, CacheTypes, HistoryTypes
<1>15. Server'
  <2>1. LocalsAreCalled'
    BY <1>4, <1>10, <1>13 DEF Server, LocalsAreCalled
  <2> QED BY <1>4, <2>1 DEF Server, Unique, Existing, GoneIsGone, GhostsAreGone,
          GhostsAreAlone, TombsHaveReasons
<1>16. Response' /\ Uploading' /\ RowsInv'
  BY <1>4 DEF Response, Parted, SeenWell, SeenTrue, SeenDead, SeenUsed, Named, Reported,
     Uploading, Alive, Due, RowsInv, Pending
<1>17. NoRow' /\ NoInsert' /\ NoGhost'
  BY <1>4, <1>9 DEF GoneInv, NoRow, NoInsert, NoGhost, Named, Reported
<1>18. NoName'
  BY <1>4, <1>6, <1>8, <1>9, <1>10, <1>12 DEF GoneInv, NoName
<1>19. \A j : (Dead(j)' <=> Dead(j)) /\ (Reliable(j)' <=> Reliable(j))
  BY <1>4 DEF Dead, Reliable, Due
<1>20. DeadInv'
  <2> SUFFICES ASSUME NEW j \in Items, Dead(j), j \in cached' \/ (row[j] # Nowhere /\ j \notin delta.drops),
                      NEW f \in Folders, j \in Kids(f)'
               PROVE  f \in behind'
    BY <1>4, <1>19 DEF DeadInv
  <2>1. kids'[f] # NoMap /\ (j \in Kids(f) \/ (j = i /\ f = from.in))
    BY <1>10, <1>12
  <2>2. CASE j = i
    <3>1. over # {}
      BY <1>8, <2>2 DEF Alive, Dead
    <3> QED BY <1>6, <2>1, <2>2, <3>1
  <2>3. CASE j # i
    BY <1>4, <1>6, <2>1, <2>3 DEF DeadInv
  <2> QED BY <2>2, <2>3
<1>21. Listed'
  <2> SUFFICES ASSUME NEW j \in Items, Reliable(j), server[j] # Nowhere, ~Deleting(j, Hidden),
                      kids'[server[j].in] # NoMap
               PROVE  server[j].in \in behind' \/ kids'[server[j].in][server[j].name] = j
    BY <1>4, <1>9, <1>19 DEF Listed, Mapped
  <2>1. server[j].in \in Folders /\ server[j].name \in Names
    BY PlaceFields DEF Types, ServerTypes, Answers
  <2>2. kids[server[j].in] # NoMap
    BY <1>5, <2>1
  <2>3. server[j].in \in behind \/ kids[server[j].in][server[j].name] = j
    BY <2>2 DEF ListInv, Listed, Mapped
  <2>4. CASE server[j].in \in behind
    BY <1>6, <2>1, <2>4
  <2>5. CASE kids[server[j].in][server[j].name] = j /\ j # i /\ server[j].in = from.in
             /\ server[j].name = from.name
    <3>1. server[j].in \in Taken(from, i)
      BY <1>10, <2>2, <2>5 DEF Taken, Mapped
    <3> QED BY <1>6, <2>1, <3>1
  <2>6. CASE kids[server[j].in][server[j].name] = j
             /\ (j = i \/ ~(server[j].in = from.in /\ server[j].name = from.name))
    BY <1>5, <2>1, <2>2, <2>6
  <2> QED BY <2>3, <2>4, <2>5, <2>6
<1> QED BY <1>2, <1>11, <1>14, <1>15, <1>16, <1>17, <1>18, <1>20, <1>21
        DEF GoneInv, ListInv

(* The server makes the folder, unless it refuses.                         *)
LEMMA CreateFolderKeeps ==
  ASSUME DirectoriesConstants, IInv, NEW t \in Threads, CreateFolder(t)
  PROVE  IInv'
<1> USE DEF IInv
<1>1. /\ thread[t].at = "mkdir" /\ thread[t].job \in Changing /\ thread[t].from \in Places
      /\ UNCHANGED <<sqlite, memory, delta, upload, history>>
      /\ \/ \E i \in Items \ used :
              /\ Free(thread[t].from) /\ server' = [server EXCEPT ![i] = thread[t].from]
              /\ used' = used \cup {i} /\ unseen' = unseen \cup {i} /\ UNCHANGED <<ghost, changes>>
              /\ GoesEntering(t, i)
         \/ GoesCalm(t) /\ UNCHANGED remote
  BY CreateFolderGoes
<1>2. CASE GoesCalm(t) /\ UNCHANGED remote
  BY <1>1, <1>2, CalmStepKeeps DEF Hidden
<1>3. ASSUME NEW i \in Items \ used, Free(thread[t].from),
             server' = [server EXCEPT ![i] = thread[t].from], used' = used \cup {i},
             unseen' = unseen \cup {i}, UNCHANGED <<ghost, changes>>, GoesEntering(t, i)
      PROVE  IInv'
  <2>1. PICK to \in Records :
          /\ Goes(t, to) /\ to.at = "enter" /\ to.item = i /\ to.from = thread[t].from
          /\ to.other = thread[t].other
          /\ to.answer = NoAnswer /\ to.map = EmptyMap /\ to.overtaken = {}
    BY <1>3 DEF GoesEntering
  <2>2. PICK from \in Places : from = thread[t].from
    BY <1>1
  <2>3. thread' \in [Threads -> Records] /\ Control' /\ thread'[t] = to
        /\ \A o \in Threads \ {t} : thread'[o] = thread[o]
    BY <1>1, <2>1, ControlKept
  <2>4. UNCHANGED <<row, tombs, cached, called, kids, delta, upload, gone, astray, behind>>
    BY <1>1 DEF sqlite, memory, history
  <2>5. \A j : /\ Deleting(j, Hidden)' <=> Deleting(j, Hidden)
               /\ Deleting(j, {"forget"})' <=> Deleting(j, {"forget"})
               /\ Deleting(j, {"tombstone"})' <=> Deleting(j, {"tombstone"})
    BY <1>1, <2>1, <2>3, DeletingSame DEF Hidden
  <2>6. gone' \subseteq Items /\ gone \subseteq Items /\ None \notin Items
    BY <2>4 DEF Types, HistoryTypes, DirectoriesConstants
  <2>7. i \notin gone /\ server[i] = Nowhere /\ from \in Spots
    BY <1>3 DEF Server, Existing, GoneIsGone, Spots
  <2>8. ServerChanges(i, from)
    BY <1>3, <2>2, <2>4, <2>7 DEF ServerChanges, Free
  <2>9. Unique' /\ Existing' /\ GhostsAreAlone' /\ Response' /\ RowsInv' /\ DeadInv'
    BY <2>7, <2>8, ServerChangeKeeps
  <2>10. /\ \A j \in Items \ {i} : server'[j] = server[j]
         /\ Due' = Due \cup {i} /\ Named' = Named
         /\ \A j \in Items : Alive(j) => Alive(j)'
    BY <2>7, <2>8, ServerChangeFacts
  <2>11. Placed(i, from)'
    BY <2>10 DEF Placed, Alive, Trusted
  <2>12. Asked(thread[t])'
    BY <2>1, <2>2, <2>3, <2>11 DEF Asked
  <2>13. Spared(thread[t])' /\ Complete(thread[t])'
    BY <2>1, <2>3, <2>4, <2>6, <2>7 DEF Spared, Reportable, Complete, NoAnswer, EmptyMap
  <2>14. Requests' /\ NoAnswerOf' /\ Completing'
    BY <1>1, <2>3, <2>6, <2>12, <2>13, AloneClauses
  <2>15. server' \in Answers
    BY <1>3, <2>2, <2>7 DEF Types, ServerTypes, Answers
  <2>16. Types'
    BY <1>3, <2>3, <2>4, <2>15 DEF Types, ServerTypes, CacheTypes, HistoryTypes, Ids
  <2>17. Server'
    <3>1. GoneIsGone' /\ GhostsAreGone'
      BY <1>3, <2>4, <2>6, <2>7, <2>10 DEF Server, GoneIsGone, GhostsAreGone
    <3> QED BY <2>4, <2>9, <3>1 DEF Server, TombsHaveReasons, LocalsAreCalled
  <2>18. Uploading'
    BY <2>4, <2>10 DEF Uploading
  <2>19. NoRow' /\ NoName' /\ NoInsert' /\ NoGhost'
    BY <1>3, <2>4, <2>5, <2>10 DEF GoneInv, NoRow, NoName, NoInsert, NoGhost, Kids
  <2>20. Listed'
    BY <2>5, <2>7, <2>8, ServerChangeListed
  <2> QED BY <2>3, <2>9, <2>14, <2>16, <2>17, <2>18, <2>19, <2>20 DEF GoneInv, ListInv
<1> QED BY <1>1, <1>2, <1>3

(* A new file is on the server, in its own item or in another one's.       *)
LEMMA UploadNewKeeps ==
  ASSUME DirectoriesConstants, IInv, NEW id \in Locals, NEW i \in Items, UploadNew(id, i)
  PROVE  IInv'
<1> USE DEF IInv
<1>1. PICK place \in Spots : place = called[id]
  BY DEF Types, CacheTypes
<1>2. /\ UNCHANGED <<ghost, row, tombs, cached, called, kids, delta, thread, gone, astray, behind>>
      /\ upload' = [NoUpload EXCEPT !.file = id, !.item = i] /\ unseen' = unseen \cup {i}
      /\ \/ server[i] = place /\ server' = server /\ used' = used
         \/ /\ i \notin used /\ Free(place)
            /\ server' = [server EXCEPT ![i] = place] /\ used' = used \cup {i}
      /\ Known(id)
  BY <1>1 DEF UploadNew, sqlite, memory, history
<1>3. place # Nowhere
  BY <1>1, <1>2 DEF Server, LocalsAreCalled, Known
<1>4. /\ upload' \in UploadRecords /\ upload'.file = id /\ upload'.item = i /\ upload'.overtaken = {}
  BY <1>2 DEF UploadRecords, NoUpload
<1>5. i \notin gone /\ ServerChanges(i, place) /\ (i \in gone => FALSE)
  <2>1. CASE server[i] = place /\ server' = server /\ used' = used
    <3>1. i \in used /\ i \notin gone
      BY <1>3, <2>1 DEF Server, Existing, GoneIsGone
    <3>2. server' = [server EXCEPT ![i] = place] /\ used' = used \cup {i}
      BY <2>1, <3>1 DEF Types, ServerTypes, Answers
    <3>3. \A j \in Items \ {i} : server[j] # place
      BY <1>3, <2>1 DEF Server, Unique
    <3> QED BY <1>2, <1>3, <2>1, <3>1, <3>2, <3>3 DEF ServerChanges
  <2>2. CASE /\ i \notin used /\ Free(place)
             /\ server' = [server EXCEPT ![i] = place] /\ used' = used \cup {i}
    <3>1. i \notin gone
      BY <2>2 DEF Server, GoneIsGone
    <3> QED BY <1>2, <2>2, <3>1 DEF ServerChanges, Free
  <2> QED BY <1>2, <2>1, <2>2
<1>6. Unique' /\ Existing' /\ GhostsAreAlone' /\ Response' /\ RowsInv' /\ DeadInv'
  BY <1>5, ServerChangeKeeps
<1>7. /\ \A j \in Items \ {i} : server'[j] = server[j]
      /\ Due' = Due \cup {i} /\ Named' = Named
  BY <1>5, ServerChangeFacts
<1>8. Types'
  <2>1. server' \in Answers /\ used' \subseteq Ids
    BY <1>2 DEF Types, ServerTypes, Answers, Ids
  <2> QED BY <1>2, <1>4, <2>1 DEF Types, ServerTypes, CacheTypes, HistoryTypes
<1>9. Control'
  BY <1>2 DEF Control, Alone
<1>10. Server'
  <2>1. GoneIsGone' /\ GhostsAreGone'
    BY <1>2, <1>5, <1>7 DEF Server, GoneIsGone, GhostsAreGone, GhostsAreAlone, Types,
      HistoryTypes
  <2> QED BY <1>2, <1>6, <2>1 DEF Server, TombsHaveReasons, LocalsAreCalled
<1>11. Uploading'
  BY <1>2, <1>4, <1>5, <1>7 DEF Uploading, Alive
<1>12. Requests' /\ Completing'
  BY <1>2, <1>5, ServerChangeThread DEF Requests, Completing, ListInv
<1>13. \A j : Deleting(j, Hidden)' <=> Deleting(j, Hidden)
  BY <1>2 DEF Deleting
<1>14. Listed'
  BY <1>5, <1>13, ServerChangeListed
<1>15. GoneInv'
  BY <1>2 DEF GoneInv, NoRow, NoName, NoInsert, NoAnswerOf, NoGhost, Spared,
    Reportable, Deleting, Named, Reported, Kids
<1> QED BY <1>6, <1>8, <1>9, <1>10, <1>11, <1>12, <1>14, <1>15 DEF ListInv

(* The item takes the place of the local file, in the maps as well.        *)
LEMMA UploadEndsKeeps ==
  ASSUME DirectoriesConstants, IInv, UploadEnds
  PROVE  IInv'
<1> USE DEF IInv
<1>1. upload # NoUpload /\ upload' = NoUpload
  BY DEF UploadEnds
<1>2. PICK id \in Locals, u \in Items, over \in SUBSET Items :
        id = upload.file /\ u = upload.item /\ over = upload.overtaken
  BY <1>1 DEF Uploading, Types, UploadRecords
<1>3. /\ UNCHANGED <<server, used, ghost, unseen, row, tombs, called, delta, thread, gone, astray>>
      /\ cached' = (cached \ {id}) \cup {u}
      /\ kids' = [f \in Folders |-> [n \in DOMAIN kids[f] |-> IF kids[f][n] = id THEN u ELSE kids[f][n]]]
      /\ Behind(IF over = {} THEN {} ELSE Showing({id, u}))
  BY <1>2 DEF UploadEnds, remote, sqlite
<1>4. (u \notin over => Alive(u)) /\ (u \in gone => u \in over)
  BY <1>1, <1>2 DEF Uploading
<1>5. /\ id \in Ids /\ u \in Ids /\ id \notin Items /\ Items \subseteq Ids /\ None \notin Ids
      /\ gone \subseteq Items
  BY DEF Ids, DirectoriesConstants, Types, HistoryTypes
<1>6. \A f \in Folders :
        /\ kids'[f] = NoMap <=> kids[f] = NoMap
        /\ kids[f] # NoMap =>
             /\ kids'[f] \in Maps
             /\ \A n \in Names : kids'[f][n] = IF kids[f][n] = id THEN u ELSE kids[f][n]
  <2> SUFFICES ASSUME NEW f \in Folders
               PROVE  /\ kids'[f] = NoMap <=> kids[f] = NoMap
                      /\ kids[f] # NoMap =>
                           /\ kids'[f] \in Maps
                           /\ \A n \in Names : kids'[f][n] = IF kids[f][n] = id THEN u ELSE kids[f][n]
    OBVIOUS
  <2>1. kids'[f] = [n \in DOMAIN kids[f] |-> IF kids[f][n] = id THEN u ELSE kids[f][n]]
    BY <1>3
  <2>2. CASE kids[f] = NoMap
    <3>1. DOMAIN kids[f] = {}
      BY <2>2 DEF NoMap
    <3>2. kids'[f] = NoMap
      BY <2>1, <3>1 DEF NoMap
    <3> QED BY <2>2, <3>2
  <2>3. CASE kids[f] # NoMap
    <3>1. kids[f] \in [Names -> Ids \cup {None}] /\ kids[f] # NoMap
      BY <2>3 DEF Types, CacheTypes, Maps
    <3>2. kids'[f] = [n \in Names |-> IF kids[f][n] = id THEN u ELSE kids[f][n]]
      BY <2>1, <3>1
    <3>3. Names # {}
      BY <3>1 DEF NoMap
    <3>4. kids'[f] # NoMap
      BY <3>2, <3>3 DEF NoMap
    <3>5. kids'[f] \in Maps
      BY <1>5, <3>1, <3>2 DEF Maps
    <3> QED BY <2>3, <3>2, <3>4, <3>5
  <2> QED BY <2>2, <2>3
<1>7. kids' \in [Folders -> Maps \cup {NoMap}]
  <2>1. \A f \in Folders : kids'[f] \in Maps \cup {NoMap}
    BY <1>6
  <2> QED BY <1>3, <2>1
<1>8. /\ behind' \subseteq Folders
      /\ \A f \in Folders : kids'[f] # NoMap =>
           /\ f \in behind => f \in behind'
           /\ over # {} /\ (id \in Kids(f) \/ u \in Kids(f)) => f \in behind'
  <2>1. behind \subseteq Folders /\ Showing({id, u}) \subseteq Folders
    BY DEF Types, HistoryTypes, Showing
  <2>2. \A f \in Folders : id \in Kids(f) \/ u \in Kids(f) => f \in Showing({id, u})
    BY DEF Showing
  <2> QED BY <1>3, <2>1, <2>2 DEF Behind
<1>9. \A f \in Folders : \A j \in Ids : j \in Kids(f)' =>
        kids'[f] # NoMap /\ (j \in Kids(f) \/ (j = u /\ id \in Kids(f)))
  <2> SUFFICES ASSUME NEW f \in Folders, NEW j \in Ids, j \in Kids(f)'
               PROVE  kids'[f] # NoMap /\ (j \in Kids(f) \/ (j = u /\ id \in Kids(f)))
    OBVIOUS
  <2>1. kids'[f] # NoMap /\ \E n \in Names : kids'[f][n] = j
    BY <1>7, InKids DEF Types
  <2>2. kids[f] # NoMap /\ \E n \in Names : kids[f][n] = j \/ (j = u /\ kids[f][n] = id)
    BY <1>6, <2>1
  <2> QED BY <1>5, <1>7, <2>1, <2>2, InKids DEF Types
<1>10. \A j : /\ Deleting(j, Hidden)' <=> Deleting(j, Hidden)
              /\ Deleting(j, {"forget"})' <=> Deleting(j, {"forget"})
              /\ Deleting(j, {"tombstone"})' <=> Deleting(j, {"tombstone"})
  BY <1>3 DEF Deleting
<1>11. \A j : /\ Alive(j)' <=> Alive(j)
              /\ Trusted(j)' <=> Trusted(j)
              /\ Reliable(j)' <=> Reliable(j)
              /\ Dead(j)' <=> Dead(j)
  BY <1>3 DEF Alive, Trusted, Reliable, Dead, Due, Reported
<1>12. Types'
  BY <1>1, <1>3, <1>5, <1>7, <1>8, EmptyTypes
    DEF Types, ServerTypes, CacheTypes, HistoryTypes
<1>13. Control' /\ Uploading'
  BY <1>1, <1>3 DEF Control, Alone, Uploading
<1>14. Server'
  <2>1. LocalsAreCalled'
    BY <1>3, <1>5 DEF Server, LocalsAreCalled, DirectoriesConstants
  <2> QED BY <1>3, <2>1 DEF Server, Unique, Existing, GoneIsGone, GhostsAreGone,
          GhostsAreAlone, TombsHaveReasons
<1>15. Response' /\ RowsInv'
  BY <1>3 DEF Response, Parted, SeenWell, SeenTrue, SeenDead, SeenUsed, Named,
    Reported, Due, RowsInv, Pending
<1>16. NoRow' /\ NoInsert' /\ NoGhost'
  BY <1>3, <1>10 DEF GoneInv, NoRow, NoInsert, NoGhost, Named, Reported
<1>17. Requests' /\ NoAnswerOf' /\ Completing'
  <2> SUFFICES ASSUME NEW o \in Threads
               PROVE  Asked(thread[o])' /\ Spared(thread[o])' /\ Complete(thread[o])'
    BY DEF Requests, NoAnswerOf, Completing
  <2>1. Asked(thread[o]) /\ Spared(thread[o]) /\ Complete(thread[o])
    BY DEF Requests, GoneInv, NoAnswerOf, ListInv, Completing
  <2>2. Asked(thread[o])' /\ Spared(thread[o])'
    BY <1>3, <1>11, <2>1 DEF Asked, Spared, Reportable, Placed
  <2>3. \A i \in Items : server[i] # Nowhere => server[i].in \in Folders
    BY PlaceFields DEF Types, ServerTypes, Answers
  <2>4. Complete(thread[o])'
    BY <1>3, <1>6, <1>8, <1>11, <2>1, <2>3 DEF Complete, Mapped
  <2> QED BY <2>2, <2>4
<1>18. NoName'
  <2> SUFFICES ASSUME NEW j \in gone, j \in astray => Deleting(j, {"tombstone"}),
                      ~Deleting(j, {"forget"}), j \in cached \/ j = u, NEW f \in Folders, j \in Kids(f)'
               PROVE  f \in behind'
    BY <1>3, <1>10 DEF NoName
  <2>1. kids'[f] # NoMap /\ (j \in Kids(f) \/ (j = u /\ id \in Kids(f)))
    BY <1>5, <1>9
  <2>2. CASE j = u
    BY <1>4, <1>8, <2>1, <2>2
  <2>3. CASE j # u
    BY <1>8, <2>1, <2>3 DEF GoneInv, NoName
  <2> QED BY <2>2, <2>3
<1>19. DeadInv'
  <2> SUFFICES ASSUME NEW j \in Items, Dead(j), j \in cached' \/ (row[j] # Nowhere /\ j \notin delta.drops),
                      NEW f \in Folders, j \in Kids(f)'
               PROVE  f \in behind'
    BY <1>3, <1>11 DEF DeadInv
  <2>1. kids'[f] # NoMap /\ (j \in Kids(f) \/ (j = u /\ id \in Kids(f)))
    BY <1>5, <1>9
  <2>2. CASE j = u
    <3>1. over # {}
      BY <1>4, <2>2 DEF Alive, Dead
    <3> QED BY <1>8, <2>1, <2>2, <3>1
  <2>3. CASE j # u
    BY <1>3, <1>8, <2>1, <2>3 DEF DeadInv
  <2> QED BY <2>2, <2>3
<1>20. Listed'
  <2> SUFFICES ASSUME NEW j \in Items, Reliable(j), server[j] # Nowhere, ~Deleting(j, Hidden),
                      kids'[server[j].in] # NoMap
               PROVE  server[j].in \in behind' \/ kids'[server[j].in][server[j].name] = j
    BY <1>3, <1>10, <1>11 DEF Listed, Mapped
  <2>1. server[j].in \in Folders /\ server[j].name \in Names
    BY PlaceFields DEF Types, ServerTypes, Answers
  <2>2. server[j].in \in behind \/ kids[server[j].in][server[j].name] = j
    BY <1>6, <2>1 DEF ListInv, Listed, Mapped
  <2> QED BY <1>5, <1>6, <1>8, <2>1, <2>2
<1> QED BY <1>12, <1>13, <1>14, <1>15, <1>16, <1>17, <1>18, <1>19, <1>20
        DEF GoneInv, ListInv

------------------------------------------------------------------------------
(* From the first state on.                                                *)

LEMMA InitHolds == DirectoriesConstants /\ Init => IInv
<1> SUFFICES ASSUME DirectoriesConstants, Init
             PROVE  IInv
  OBVIOUS
<1>1. /\ server \in Answers /\ ghost = NoAnswer /\ unseen = {} /\ tombs = {} /\ cached = {}
      /\ kids = [f \in Folders |-> NoMap] /\ gone = {} /\ astray = {} /\ behind = {}
      /\ delta = NoDelta /\ thread = [t \in Threads |-> Idle] /\ upload = NoUpload
      /\ used = {i \in Items : server[i] # Nowhere} /\ called = [id \in Locals |-> Nowhere]
  BY DEF Init, Answers, Spots
<1>2. row \in [Ids -> Spots] /\ \A i \in Items : row[i] = server[i]
  BY <1>1, SpotsType DEF Init, Answers, Ids
<1>3. \A id \in Locals : row[id] = Nowhere
  BY DEF Init, Ids, DirectoriesConstants
<1>4. \A t \in Threads : thread[t] = Idle
  BY <1>1
<1>5. \A f \in Folders : kids[f] = NoMap /\ ~Mapped(f) /\ Kids(f) = {}
  BY <1>1 DEF Mapped, Kids, NoMap
<1>6. /\ delta.item = None /\ delta.todo = {} /\ delta.inserts = {} /\ delta.drops = {}
      /\ delta.seen = NoAnswer /\ \A i \in Items : NoAnswer[i] = Nowhere
  BY <1>1 DEF NoDelta, NoAnswer
<1>7. Types
  BY <1>1, <1>2, SpotsType, EmptyTypes
     DEF Types, ServerTypes, CacheTypes, HistoryTypes, Ids
<1>8. Idle.at = "idle" /\ Idle.job = "none" /\ Controlled(Idle)
  BY IdleCalm DEF Calm
<1>9. Control
  BY <1>4, <1>8 DEF Control, Alone
<1>10. Server
  BY <1>1, <1>3, <1>6 DEF Server, Unique, Existing, GoneIsGone, GhostsAreGone,
    GhostsAreAlone, TombsHaveReasons,
     LocalsAreCalled, Init
<1>11. Response
  BY <1>1, <1>6 DEF Response, Parted, SeenWell, SeenTrue, SeenDead, SeenUsed, Reported,
    Named,
     DirectoriesConstants
<1>12. Requests /\ Uploading
  BY <1>1, <1>4, <1>8 DEF Requests, Asked, Uploading
<1>13. RowsInv
  BY <1>2 DEF RowsInv
<1>14. Completing
  BY <1>4, <1>8 DEF Completing, Complete
<1>15. GoneInv
  <2>1. NoAnswerOf
    BY <1>1, <1>4, <1>8 DEF NoAnswerOf, Spared, Reportable, Idle, EmptyMap
  <2> QED BY <1>1, <1>6, <2>1 DEF GoneInv, NoRow, NoName, NoInsert, NoGhost
<1>16. DeadInv /\ Listed
  <2>1. \A i \in Items : server[i] # Nowhere => server[i].in \in Folders
    BY <1>1, PlaceFields DEF Answers
  <2> QED BY <1>1, <1>5, <2>1 DEF DeadInv, Listed
<1> QED BY <1>7, <1>9, <1>10, <1>11, <1>12, <1>13, <1>14, <1>15, <1>16 DEF IInv, ListInv

LEMMA NextKeeps == DirectoriesConstants /\ IInv /\ [Next]_vars => IInv'
<1> SUFFICES ASSUME DirectoriesConstants, IInv, [Next]_vars
             PROVE  IInv'
  OBVIOUS
<1>1. CASE UNCHANGED vars
  <2>1. UNCHANGED <<server, used, ghost, unseen, row, tombs, cached, called, kids, delta, thread, upload,
                    gone, astray, behind>>
    BY <1>1 DEF vars, remote, sqlite, memory, history
  <2>2. Types' /\ Control'
    BY <2>1 DEF IInv, Types, ServerTypes, CacheTypes, HistoryTypes, Control, Alone
  <2>3. Server' /\ Response' /\ RowsInv' /\ Uploading'
    BY <2>1 DEF IInv, Server, Unique, Existing, GoneIsGone, GhostsAreGone,
      GhostsAreAlone, TombsHaveReasons, LocalsAreCalled,
       Response, Parted, SeenWell, SeenTrue, SeenDead, SeenUsed, Named, Reported,
       RowsInv, Pending, Due,
       Uploading, Alive
  <2>4. Requests'
    BY <2>1, RequestsSame DEF IInv
  <2>5. GoneInv'
    BY <2>1 DEF IInv, GoneInv, NoRow, NoName, NoInsert, NoAnswerOf, NoGhost, Spared,
      Reportable, Deleting, Named,
       Reported, Kids
  <2>6. DeadInv' /\ Listed'
    BY <2>1 DEF IInv, DeadInv, Dead, Due, ListInv, Listed, Reliable, Deleting, Mapped,
      Kids
  <2>7. Completing'
    BY <2>1 DEF IInv, Due, ListInv, Completing, Complete, Reliable, Mapped
  <2> QED BY <2>2, <2>3, <2>4, <2>5, <2>6, <2>7 DEF IInv, ListInv
<1>2. CASE \E t \in Threads : Calls(t)
  BY <1>2, BeginKeeps DEF Calls
<1>3. CASE \E i \in Items, place \in Places \cup {Nowhere} : RemoteChange(i, place)
  BY <1>3, RemoteChangeKeeps
<1>4. CASE Expire
  BY <1>4, ExpireKeeps
<1>5. CASE DeltaSync
  BY <1>5, DeltaQueryKeeps, DeltaDeletedKeeps, DeltaCheckKeeps, DeltaInsertKeeps,
    DeltaApplyKeeps,
     DeltaFailsKeeps DEF DeltaSync
<1>6. ASSUME NEW t \in Threads, Driver(t)
      PROVE  IInv'
  <2>1. CASE Look(t) \/ Rows(t) \/ Ask(t)
    BY <2>1, LookKeeps, AskKeeps
  <2>2. CASE \E i \in Items : StoreItem(t, i)
    BY <2>2, SkipItemKeeps, PutItemKeeps
  <2>3. CASE StoreMap(t) \/ Remove(t) \/ Forget(t) \/ DeleteWithTombstone(t) \/ TombstoneFails(t)
    BY <2>3, StoreMapKeeps, RemoveKeeps, ForgetKeeps, TombstoneKeeps,
      TombstoneFailsKeeps
  <2>4. CASE Move(t) \/ UpsertMoved(t) \/ Remap(t)
    BY <2>4, MoveKeeps, UpsertMovedKeeps, RemapKeeps
  <2>5. CASE CreateFolder(t) \/ CreateFile(t) \/ Enter(t)
    BY <2>5, CreateFolderKeeps, CreateFileKeeps, EnterKeeps
  <2> QED BY <1>6, <2>1, <2>2, <2>3, <2>4, <2>5 DEF Driver
<1>7. CASE \E id \in Locals, i \in Items : UploadNew(id, i)
  BY <1>7, UploadNewKeeps
<1>8. CASE UploadEnds
  BY <1>8, UploadEndsKeeps
<1> QED BY <1>1, <1>2, <1>3, <1>4, <1>5, <1>6, <1>7, <1>8 DEF Next, Steps

(* Delta sync, SQLite, the memory, the driver's threads, the upload and    *)
(* what they have in hand agree in every state.                            *)
THEOREM DirectoriesInvariant == Spec => []IInv
<1>1. Init => IInv
  BY InitHolds, DirectoriesConstants
<1>2. IInv /\ [Next]_vars => IInv'
  BY NextKeeps, DirectoriesConstants
<1> QED BY <1>1, <1>2, PTL DEF Spec

LEMMA SettledFacts ==
  ASSUME Settled
  PROVE  /\ Due = {None} /\ Pending = {None} /\ delta.drops = {}
         /\ \A i \in Ids : ~Deleting(i, Hidden)
<1>1. delta.todo = {} /\ delta.item = None /\ delta.inserts = {} /\ delta.drops = {} /\ unseen = {}
  BY DEF Settled, NoDelta
<1>2. Due = {None} /\ Pending = {None}
  BY <1>1 DEF Due, Pending, Reported
<1> QED BY <1>1, <1>2 DEF Settled, At, Deleting, Hidden

(* However lookups, listings, renames, deletes, uploads, failed            *)
(* transactions and other users of the drive crossed: once delta sync has  *)
(* caught up, the rows of SQLite say where the server has the items, and   *)
(* have none of those it does not have.                                    *)
THEOREM RowsAlwaysConverge == Spec => []RowsConverge
<1>1. IInv => RowsConverge
  <2> SUFFICES ASSUME IInv, Settled, NEW i \in Items \ astray
               PROVE  row[i] = server[i]
    BY DEF RowsConverge
  <2>1. i # None
    BY DirectoriesConstants DEF DirectoriesConstants
  <2> QED BY <2>1, SettledFacts DEF IInv, RowsInv
<1> QED BY <1>1, DirectoriesInvariant, PTL

(* Then a folder whose children map is in memory, and was not stored from  *)
(* an answer delta sync had overtaken, lists every item that is in it and  *)
(* no item that does not exist any more.                                   *)
THEOREM ListingsAlwaysConverge == Spec => []ListingsConverge
<1>1. IInv => ListingsConverge
  <2> SUFFICES ASSUME IInv, Settled, NEW f \in Folders, Mapped(f), f \notin behind
               PROVE  /\ \A i \in Items \ astray : server[i].in = f => i \in Shown(f)
                      /\ \A i \in Shown(f) \cap Items : server[i] # Nowhere
    BY DEF ListingsConverge
  <2>1. /\ Items \subseteq Ids /\ None \notin Items /\ None \notin Folders
        /\ kids[f] \in Maps /\ \A i \in Ids : i \in Kids(f) <=> \E n \in Names : kids[f][n] = i
    BY DirectoriesConstants, KidsAreIds DEF IInv, Types, Ids, DirectoriesConstants
  <2>2. ASSUME NEW i \in Items \ astray, server[i].in = f
        PROVE  i \in Shown(f)
    <3>1. server[i] # Nowhere /\ server[i].name \in Names
      BY <2>1, <2>2, SpotsType, PlaceFields, DirectoriesConstants
        DEF IInv, Types, ServerTypes, Answers
    <3>2. Reliable(i) /\ ~Deleting(i, Hidden)
      BY <2>1, SettledFacts DEF Reliable
    <3>3. kids[f][server[i].name] = i
      BY <2>2, <3>1, <3>2 DEF IInv, ListInv, Listed
    <3>4. Known(i)
      BY <2>1, <3>1, SettledFacts DEF IInv, RowsInv, Known
    <3> QED BY <2>1, <3>1, <3>3, <3>4 DEF Shown
  <2>3. ASSUME NEW i \in Shown(f) \cap Items, server[i] = Nowhere
        PROVE  FALSE
    <3>1. Dead(i) /\ delta.drops = {}
      BY <2>1, <2>3, SettledFacts DEF Dead
    <3>2. i \in Kids(f) /\ (i \in cached \/ row[i] # Nowhere)
      BY DEF Shown, Known
    <3> QED BY <3>1, <3>2 DEF IInv, DeadInv
  <2> QED BY <2>2, <2>3
<1> QED BY <1>1, DirectoriesInvariant, PTL

(* What unlink, rmdir or a rename over it has deleted has no row, is shown *)
(* by no folder and is in no listing about to be stored: the tombstone     *)
(* outlives every older answer and every delta response that has the item. *)
THEOREM DeletedAlwaysStaysDeleted == Spec => []DeletedStaysDeleted
<1>1. IInv => DeletedStaysDeleted
  <2> SUFFICES ASSUME IInv, NEW i \in gone \ astray, \A t \in Threads : thread[t].other # i
               PROVE  /\ row[i] = Nowhere
                      /\ \A f \in Folders : f \in behind \/ i \notin Shown(f)
                      /\ \A t \in Threads, n \in Names :
                           thread[t].map[n] = i => i \in thread[t].overtaken
    BY DEF DeletedStaysDeleted
  <2>1. ~Deleting(i, Hidden) /\ ~Deleting(i, {"forget"})
    BY DEF Deleting
  <2>2. row[i] = Nowhere
    BY <2>1 DEF IInv, GoneInv, NoRow
  <2>3. ASSUME NEW f \in Folders, i \in Shown(f)
        PROVE  f \in behind
    <3>1. i \in Kids(f) /\ i \in cached
      BY <2>2, <2>3 DEF Shown, Known
    <3> QED BY <2>1, <3>1 DEF IInv, GoneInv, NoName
  <2>4. ASSUME NEW t \in Threads, NEW n \in Names, thread[t].map[n] = i
        PROVE  i \in thread[t].overtaken
    BY <2>4 DEF IInv, GoneInv, NoAnswerOf, Spared, Reportable
  <2> QED BY <2>2, <2>3, <2>4
<1> QED BY <1>1, DirectoriesInvariant, PTL
================================================================================
