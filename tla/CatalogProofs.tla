---------------------------- MODULE CatalogProofs ----------------------------
(***************************************************************************)
(* Proofs about CatalogPersistence, for any number of sessions and tables  *)
(* and any bounds.                                                         *)
(***************************************************************************)
EXTENDS CatalogPersistence, TLAPS

\* The types the proofs need: no bound occurs in them.
Id == Nat \ {0}
Made == [id : Id, cols : Nat]
Entry == {NoEntry} \cup Made
Statement ==
    {NoStatement} \cup [kind : {"create", "alter"}, tab : Tables, entry : Made]
                  \cup [kind : {"drop"}, tab : Tables]
Image == [kind : {"state"}, tables : [Tables -> Entry], next_id : Nat]
Steps == Saving \cup {"idle", "create", "update", "save", "files", "exit"}

Typed ==
    /\ up \in BOOLEAN
    /\ catalog \in [Tables -> Entry]
    /\ next_id \in Id
    /\ json \in Image \cup {Missing, Empty, Mixed}
    /\ pc \in [Threads -> Steps]
    /\ stmt \in [Sessions -> Statement]
    /\ snap \in [Threads -> Image \cup {NoSnap}]
    /\ alone \in [Threads -> BOOLEAN]
    /\ settled \in BOOLEAN
    /\ acked \in [Tables -> {"nothing", "created", "dropped"} \cup Sessions]

\* What a thread has at hand at each step.
AtHand ==
    /\ \A p \in Threads : pc[p] \in Saving => snap[p] \in Image
    /\ \A s \in Sessions :
          /\ pc[s] = "idle" => stmt[s] = NoStatement
          /\ pc[s] = "create" => stmt[s].kind = "create"
          /\ pc[s] = "update" => stmt[s].kind = "alter"
          /\ pc[s] \in Saving \cup {"save"} => stmt[s].kind \in {"create", "drop"}
          /\ pc[s] = "files" => stmt[s] # NoStatement
          /\ pc[s] # "exit"
    /\ ~ up => \A p \in Threads : pc[p] = "idle"

\* Ids: in the catalog, in the statements in flight, in the images about to be
\* written and in the file, an id belongs to one table and is below the counter
\* that goes with it.
Distinct(tables) == \A t, u \in Tables : tables[t].id # 0 /\ tables[t].id = tables[u].id => t = u
Below(tables, n) == \A t \in Tables : tables[t].id < n
HasEntry(s) == stmt[s].kind \in {"create", "alter"}
MemoryIds ==
    /\ Distinct(catalog) /\ Below(catalog, next_id)
    /\ \A s \in Sessions : HasEntry(s) =>
          /\ stmt[s].entry.id < next_id
          /\ \A t \in Tables : catalog[t].id = stmt[s].entry.id => t = stmt[s].tab
    /\ \A s, r \in Sessions :
          HasEntry(s) /\ HasEntry(r) /\ stmt[s].entry.id = stmt[r].entry.id => stmt[s].tab = stmt[r].tab
ImageIds ==
    /\ \A p \in Threads : pc[p] \in Saving =>
          /\ Distinct(snap[p].tables)
          /\ pc[p] = "ids" => Below(snap[p].tables, next_id)
          /\ pc[p] # "ids" => Below(snap[p].tables, snap[p].next_id) /\ snap[p].next_id # 0
    /\ json.kind = "state" => Distinct(json.tables) /\ Below(json.tables, json.next_id) /\ json.next_id # 0

IdInv == Typed /\ AtHand /\ MemoryIds /\ ImageIds
-----------------------------------------------------------------------------
USE CatalogPersistenceAssumption
USE DEF Threads, Saving, Steps

\* The initial states.
LEMMA InitIds == Init => IdInv
<1> SUFFICES ASSUME Init PROVE IdInv
  OBVIOUS
<1>1. Typed
  BY DEF Init, Typed, Entry, Id, Image, Statement, NoEntry, NoStatement, NoSnap
<1>2. AtHand
  BY DEF Init, AtHand
<1>3. MemoryIds
  BY DEF Init, MemoryIds, Distinct, Below, HasEntry, NoEntry, NoStatement
<1>4. ImageIds
  BY DEF Init, ImageIds, Missing
<1> QED BY <1>1, <1>2, <1>3, <1>4 DEF IdInv

\* A file that parses holds an image.
LEMMA JsonImage == ASSUME Typed, json.kind \in {"missing", "state"} PROVE json = Missing \/ json \in Image
BY DEF Typed, Image, Missing, Empty, Mixed

\* A session that is about to enter its table has the entry.
LEMMA CreateEntry ==
  ASSUME IdInv, NEW s \in Sessions, pc[s] \in {"create", "update"}
  PROVE  stmt[s].tab \in Tables /\ stmt[s].entry \in Made /\ HasEntry(s)
BY DEF IdInv, Typed, AtHand, Statement, NoStatement, HasEntry

\* The types survive every step.
LEMMA TypedStep == ASSUME IdInv, [Next]_vars PROVE Typed'
<1>1. ASSUME NEW s \in Sessions, NEW t \in Tables, BeginCreate(s, t) PROVE Typed'
  BY <1>1
  DEF BeginCreate, Goto, IdInv, Typed, AtHand, Id, Made, Entry, Statement, Image, NoEntry,
      NoStatement, NoSnap, Missing, Empty, Mixed
<1>2. ASSUME NEW s \in Sessions, NEW t \in Tables, DropTable(s, t) PROVE Typed'
  BY <1>2
  DEF DropTable, Goto, IdInv, Typed, AtHand, Id, Made, Entry, Statement, Image, NoEntry,
      NoStatement, NoSnap, Missing, Empty, Mixed
<1>3. ASSUME NEW s \in Sessions, NEW t \in Tables, AlterTable(s, t) PROVE Typed'
  BY <1>3
  DEF AlterTable, Goto, IdInv, Typed, AtHand, Id, Made, Entry, Statement, Image, NoEntry,
      NoStatement, NoSnap, Missing, Empty, Mixed
<1>4. ASSUME NEW s \in Sessions, CreateTable(s) PROVE Typed'
  <2>1. stmt[s].tab \in Tables /\ stmt[s].entry \in Entry
    BY <1>4, CreateEntry DEF CreateTable, Entry
  <2>2. catalog' \in [Tables -> Entry]
    BY <1>4, <2>1 DEF CreateTable, IdInv, Typed
  <2>3. stmt' \in [Sessions -> Statement]
    BY <1>4 DEF CreateTable, IdInv, Typed, Statement
  <2>4. acked' \in [Tables -> {"nothing", "created", "dropped"} \cup Sessions]
    BY <1>4 DEF CreateTable, IdInv, Typed
  <2>5. pc' \in [Threads -> Steps]
    BY <1>4 DEF CreateTable, Goto, IdInv, Typed
  <2> QED BY <1>4, <2>2, <2>3, <2>4, <2>5 DEF CreateTable, IdInv, Typed
<1>5. ASSUME NEW s \in Sessions, UpdateTable(s) PROVE Typed'
  BY <1>5
  DEF UpdateTable, Goto, IdInv, Typed, AtHand, Id, Made, Entry, Statement, Image, NoEntry,
      NoStatement, NoSnap, Missing, Empty, Mixed
<1>6. ASSUME NEW s \in Sessions, TableFile(s) PROVE Typed'
  BY <1>6
  DEF TableFile, Goto, IdInv, Typed, AtHand, Id, Made, Entry, Statement, Image, NoEntry,
      NoStatement, NoSnap, Missing, Empty, Mixed
<1>7. ASSUME NEW p \in Threads, Tick(p) PROVE Typed'
  BY <1>7
  DEF Tick, Goto, IdInv, Typed, AtHand, Id, Made, Entry, Statement, Image, NoEntry,
      NoStatement, NoSnap, Missing, Empty, Mixed
<1>8. ASSUME NEW p \in Threads, CollectTables(p) PROVE Typed'
  BY <1>8
  DEF CollectTables, Goto, CatalogState, IdInv, Typed, AtHand, Id, Made, Entry, Statement,
      Image, NoEntry, NoStatement, NoSnap, Missing, Empty, Mixed
<1>9. ASSUME NEW p \in Threads, LoadNextId(p) PROVE Typed'
  BY <1>9
  DEF LoadNextId, Goto, IdInv, Typed, AtHand, Id, Made, Entry, Statement, Image, NoEntry,
      NoStatement, NoSnap, Missing, Empty, Mixed
<1>10. ASSUME NEW p \in Threads, OpenJson(p) PROVE Typed'
  BY <1>10
  DEF OpenJson, Goto, IdInv, Typed, AtHand, Id, Made, Entry, Statement, Image, NoEntry,
      NoStatement, NoSnap, Missing, Empty, Mixed
<1>11. ASSUME NEW p \in Threads, WriteJson(p) PROVE Typed'
  BY <1>11
  DEF WriteJson, Goto, AfterSave, IdInv, Typed, AtHand, Id, Made, Entry, Statement, Image,
      NoEntry, NoStatement, NoSnap, Missing, Empty, Mixed
<1>12. ASSUME NEW p \in Threads, FailSave(p) PROVE Typed'
  BY <1>12
  DEF FailSave, Goto, AfterSave, IdInv, Typed, AtHand, Id, Made, Entry, Statement, Image,
      NoEntry, NoStatement, NoSnap, Missing, Empty, Mixed
<1>13. ASSUME up, Halt PROVE Typed'
  <2>1. catalog' \in [Tables -> Entry] /\ next_id' \in Id
    BY <1>13 DEF Halt, Entry, Id
  <2>2. stmt' \in [Sessions -> Statement] /\ snap' \in [Threads -> Image \cup {NoSnap}]
    BY <1>13 DEF Halt, Statement
  <2>3. acked' \in [Tables -> {"nothing", "created", "dropped"} \cup Sessions]
    BY <1>13 DEF Halt, IdInv, Typed
  <2>4. pc' \in [Threads -> Steps] /\ alone' \in [Threads -> BOOLEAN] /\ settled' \in BOOLEAN /\ up' \in BOOLEAN
    BY <1>13 DEF Halt, IdInv, Typed
  <2>5. json' \in Image \cup {Missing, Empty, Mixed}
    BY <1>13 DEF Halt, IdInv, Typed
  <2> QED BY <2>1, <2>2, <2>3, <2>4, <2>5 DEF Typed
<1>14. ASSUME Start PROVE Typed'
  <2>1. catalog' \in [Tables -> Entry] /\ next_id' \in Id
    <3>1. json = Missing \/ json \in Image
      BY <1>14, JsonImage DEF Start, IdInv
    <3>2. json \in Image => json.tables \in [Tables -> Entry] /\ json.next_id \in Id
      BY DEF Image, Id, IdInv, ImageIds
    <3> QED BY <1>14, <3>1, <3>2 DEF Start, IdInv, Typed
  <2> QED BY <1>14, <2>1 DEF Start, bounds, IdInv, Typed
<1>15. ASSUME UNCHANGED vars PROVE Typed'
  BY <1>15
  DEF vars, IdInv, Typed, AtHand, Id, Made, Entry, Statement, Image, NoEntry, NoStatement,
      NoSnap, Missing, Empty, Mixed
<1> QED BY <1>1, <1>2, <1>3, <1>4, <1>5, <1>6, <1>7, <1>8, <1>9, <1>10, <1>11, <1>12, <1>13, <1>14, <1>15
    DEF Next, Run, Step, Kill, Exit

\* So does what each thread has at hand.
LEMMA AtHandStep == ASSUME IdInv, [Next]_vars PROVE AtHand'
<1>1. ASSUME NEW s \in Sessions, NEW t \in Tables, BeginCreate(s, t) PROVE AtHand'
  BY <1>1
  DEF BeginCreate, Goto, IdInv, Typed, AtHand, Statement, Image, NoStatement, NoSnap, Missing
<1>2. ASSUME NEW s \in Sessions, NEW t \in Tables, DropTable(s, t) PROVE AtHand'
  BY <1>2
  DEF DropTable, Goto, IdInv, Typed, AtHand, Statement, Image, NoStatement, NoSnap, Missing
<1>3. ASSUME NEW s \in Sessions, NEW t \in Tables, AlterTable(s, t) PROVE AtHand'
  BY <1>3
  DEF AlterTable, Goto, IdInv, Typed, AtHand, Statement, Image, NoStatement, NoSnap, Missing
<1>4. ASSUME NEW s \in Sessions, CreateTable(s) PROVE AtHand'
  BY <1>4
  DEF CreateTable, Goto, IdInv, Typed, AtHand, Statement, Image, NoStatement, NoSnap, Missing
<1>5. ASSUME NEW s \in Sessions, UpdateTable(s) PROVE AtHand'
  BY <1>5
  DEF UpdateTable, Goto, IdInv, Typed, AtHand, Statement, Image, NoStatement, NoSnap, Missing
<1>6. ASSUME NEW s \in Sessions, TableFile(s) PROVE AtHand'
  BY <1>6
  DEF TableFile, Goto, IdInv, Typed, AtHand, Statement, Image, NoStatement, NoSnap, Missing
<1>7. ASSUME NEW p \in Threads, Tick(p) PROVE AtHand'
  BY <1>7 DEF Tick, Goto, IdInv, Typed, AtHand, Statement, Image, NoStatement, NoSnap, Missing
<1>8. ASSUME NEW p \in Threads, CollectTables(p) PROVE AtHand'
  BY <1>8
  DEF CollectTables, Goto, CatalogState, IdInv, Typed, AtHand, Statement, Image, NoStatement,
      NoSnap, Missing
<1>9. ASSUME NEW p \in Threads, LoadNextId(p) PROVE AtHand'
  <2>1. snap'[p] \in Image
    BY <1>9 DEF LoadNextId, IdInv, Typed, AtHand, Image, Id
  <2>2. \A q \in Threads \ {p} : snap'[q] = snap[q] /\ pc'[q] = pc[q]
    BY <1>9 DEF LoadNextId, Goto, IdInv, Typed
  <2>3. pc'[p] = "open" /\ pc[p] = "ids"
    BY <1>9 DEF LoadNextId, Goto, IdInv, Typed
  <2> QED BY <1>9, <2>1, <2>2, <2>3 DEF LoadNextId, IdInv, AtHand
<1>10. ASSUME NEW p \in Threads, OpenJson(p) PROVE AtHand'
  BY <1>10
  DEF OpenJson, Goto, IdInv, Typed, AtHand, Statement, Image, NoStatement, NoSnap, Missing
<1>11. ASSUME NEW p \in Threads, WriteJson(p) PROVE AtHand'
  BY <1>11
  DEF WriteJson, Goto, AfterSave, IdInv, Typed, AtHand, Statement, Image, NoStatement, NoSnap,
      Missing
<1>12. ASSUME NEW p \in Threads, FailSave(p) PROVE AtHand'
  BY <1>12
  DEF FailSave, Goto, AfterSave, IdInv, Typed, AtHand, Statement, Image, NoStatement, NoSnap,
      Missing
<1>13. ASSUME up, Halt PROVE AtHand'
  BY <1>13 DEF Halt, IdInv, Typed, AtHand, Statement, Image, NoStatement, NoSnap, Missing
<1>14. ASSUME Start PROVE AtHand'
  BY <1>14 DEF Start, IdInv, Typed, AtHand, Statement, Image, NoStatement, NoSnap, Missing
<1>15. ASSUME UNCHANGED vars PROVE AtHand'
  BY <1>15 DEF vars, IdInv, Typed, AtHand, Statement, Image, NoStatement, NoSnap, Missing
<1> QED BY <1>1, <1>2, <1>3, <1>4, <1>5, <1>6, <1>7, <1>8, <1>9, <1>10, <1>11, <1>12, <1>13, <1>14, <1>15
    DEF Next, Run, Step, Kill, Exit

\* A step that leaves the images, the file and the counter alone and moves no
\* thread within save.
LEMMA ImageKept ==
  ASSUME IdInv, snap' = snap, json' = json, next_id' = next_id,
         \A q \in Threads : pc'[q] \in Saving => pc'[q] = pc[q]
  PROVE  ImageIds'
BY DEF IdInv, ImageIds, Distinct, Below

\* An id is taken from the counter once, and moves only with its table.
LEMMA MemoryIdsStep == ASSUME IdInv, [Next]_vars PROVE MemoryIds'
<1>1. ASSUME NEW s \in Sessions, NEW t \in Tables, BeginCreate(s, t) PROVE MemoryIds'
  BY <1>1
  DEF BeginCreate, Goto, IdInv, Typed, AtHand, MemoryIds, Distinct, Below, HasEntry, Id, Made,
      Entry, Statement, NoEntry, NoStatement
<1>2. ASSUME NEW s \in Sessions, NEW t \in Tables, DropTable(s, t) PROVE MemoryIds'
  BY <1>2
  DEF DropTable, Goto, IdInv, Typed, AtHand, MemoryIds, Distinct, Below, HasEntry, Id, Made,
      Entry, Statement, NoEntry, NoStatement
<1>3. ASSUME NEW s \in Sessions, NEW t \in Tables, AlterTable(s, t) PROVE MemoryIds'
  BY <1>3
  DEF AlterTable, Goto, IdInv, Typed, AtHand, MemoryIds, Distinct, Below, HasEntry, Id, Made,
      Entry, Statement, NoEntry, NoStatement
<1>4. ASSUME NEW s \in Sessions, CreateTable(s) PROVE MemoryIds'
  <2>1. stmt[s].tab \in Tables /\ stmt[s].entry \in Made /\ HasEntry(s) /\ next_id' = next_id
    BY <1>4, CreateEntry DEF CreateTable
  <2>2. CASE catalog[stmt[s].tab] = NoEntry
    <3>1. catalog' = [catalog EXCEPT ![stmt[s].tab] = stmt[s].entry] /\ stmt' = stmt
      BY <1>4, <2>2 DEF CreateTable
    <3> QED BY <2>1, <3>1 DEF IdInv, Typed, MemoryIds, Distinct, Below, HasEntry, Made
  <2>3. CASE catalog[stmt[s].tab] # NoEntry
    <3>1. catalog' = catalog /\ stmt' = [stmt EXCEPT ![s] = NoStatement]
      BY <1>4, <2>3 DEF CreateTable
    <3> QED BY <2>1, <3>1 DEF IdInv, Typed, MemoryIds, Distinct, Below, HasEntry, NoStatement
  <2> QED BY <2>2, <2>3
<1>5. ASSUME NEW s \in Sessions, UpdateTable(s) PROVE MemoryIds'
  BY <1>5
  DEF UpdateTable, Goto, IdInv, Typed, AtHand, MemoryIds, Distinct, Below, HasEntry, Id, Made,
      Entry, Statement, NoEntry, NoStatement
<1>6. ASSUME NEW s \in Sessions, TableFile(s) PROVE MemoryIds'
  BY <1>6
  DEF TableFile, Goto, IdInv, Typed, AtHand, MemoryIds, Distinct, Below, HasEntry, Id, Made,
      Entry, Statement, NoEntry, NoStatement
<1>7. ASSUME NEW p \in Threads, Tick(p) PROVE MemoryIds'
  BY <1>7
  DEF Tick, Goto, IdInv, Typed, AtHand, MemoryIds, Distinct, Below, HasEntry, Id, Made, Entry,
      Statement, NoEntry, NoStatement
<1>8. ASSUME NEW p \in Threads, CollectTables(p) PROVE MemoryIds'
  BY <1>8
  DEF CollectTables, Goto, CatalogState, IdInv, Typed, AtHand, MemoryIds, Distinct, Below,
      HasEntry, Id, Made, Entry, Statement, NoEntry, NoStatement
<1>9. ASSUME NEW p \in Threads, LoadNextId(p) PROVE MemoryIds'
  BY <1>9
  DEF LoadNextId, Goto, IdInv, Typed, AtHand, MemoryIds, Distinct, Below, HasEntry, Id, Made,
      Entry, Statement, NoEntry, NoStatement
<1>10. ASSUME NEW p \in Threads, OpenJson(p) PROVE MemoryIds'
  BY <1>10
  DEF OpenJson, Goto, IdInv, Typed, AtHand, MemoryIds, Distinct, Below, HasEntry, Id, Made,
      Entry, Statement, NoEntry, NoStatement
<1>11. ASSUME NEW p \in Threads, WriteJson(p) PROVE MemoryIds'
  BY <1>11
  DEF WriteJson, Goto, AfterSave, IdInv, Typed, AtHand, MemoryIds, Distinct, Below, HasEntry,
      Id, Made, Entry, Statement, NoEntry, NoStatement
<1>12. ASSUME NEW p \in Threads, FailSave(p) PROVE MemoryIds'
  BY <1>12
  DEF FailSave, Goto, AfterSave, IdInv, Typed, AtHand, MemoryIds, Distinct, Below, HasEntry,
      Id, Made, Entry, Statement, NoEntry, NoStatement
<1>13. ASSUME up, Halt PROVE MemoryIds'
  BY <1>13
  DEF Halt, IdInv, Typed, AtHand, MemoryIds, Distinct, Below, HasEntry, Id, Made, Entry,
      Statement, NoEntry, NoStatement
<1>14. ASSUME Start PROVE MemoryIds'
  <2>1. \A s \in Sessions : ~ HasEntry(s)'
    BY <1>14 DEF Start, IdInv, AtHand, HasEntry, NoStatement
  <2>2. Distinct(catalog') /\ Below(catalog', next_id')
    <3>1. json = Missing \/ json \in Image
      BY <1>14, JsonImage DEF Start, IdInv
    <3>2. json \in Image => json.kind = "state"
      BY DEF Image
    <3> QED BY <1>14, <3>1, <3>2 DEF Start, IdInv, MemoryIds, ImageIds, Distinct, Below
  <2> QED BY <2>1, <2>2 DEF MemoryIds, Distinct, Below, HasEntry
<1>15. ASSUME UNCHANGED vars PROVE MemoryIds'
  BY <1>15
  DEF vars, IdInv, Typed, AtHand, MemoryIds, Distinct, Below, HasEntry, Id, Made, Entry,
      Statement, NoEntry, NoStatement
<1> QED BY <1>1, <1>2, <1>3, <1>4, <1>5, <1>6, <1>7, <1>8, <1>9, <1>10, <1>11, <1>12, <1>13, <1>14, <1>15
    DEF Next, Run, Step, Kill, Exit

\* An image has the ids of one moment, and a counter read later.
LEMMA ImageIdsStep == ASSUME IdInv, [Next]_vars PROVE ImageIds'
<1>1. ASSUME NEW s \in Sessions, NEW t \in Tables, BeginCreate(s, t) PROVE ImageIds'
  <2>1. snap' = snap /\ json' = json /\ next_id' = next_id + 1 /\ pc' = [pc EXCEPT ![s] = "create"]
    BY <1>1 DEF BeginCreate, Goto
  <2>2. ASSUME NEW q \in Threads, pc'[q] \in Saving
        PROVE  /\ Distinct(snap[q].tables)
               /\ pc[q] = "ids" => Below(snap[q].tables, next_id + 1)
               /\ pc[q] # "ids" => Below(snap[q].tables, snap[q].next_id) /\ snap[q].next_id # 0
               /\ pc'[q] = pc[q]
    <3>1. pc'[q] = pc[q]
      BY <2>1, <2>2 DEF IdInv, Typed
    <3>2. snap[q] \in Image
      BY <2>2, <3>1 DEF IdInv, AtHand
    <3>3. \A u \in Tables : snap[q].tables[u].id \in Nat
      BY <3>2 DEF Image, Entry, Made, NoEntry, Id
    <3>4. Below(snap[q].tables, next_id) => Below(snap[q].tables, next_id + 1)
      BY <3>3 DEF Below, IdInv, Typed, Id
    <3> QED BY <2>2, <3>1, <3>4 DEF IdInv, ImageIds
  <2> QED BY <2>1, <2>2 DEF IdInv, ImageIds, Distinct, Below
<1>2. ASSUME NEW s \in Sessions, NEW t \in Tables, DropTable(s, t) PROVE ImageIds'
  <2>1. \A q \in Threads : pc'[q] \in Saving => pc'[q] = pc[q]
    BY <1>2 DEF DropTable, Goto, IdInv, Typed
  <2> QED BY <1>2, <2>1, ImageKept DEF DropTable
<1>3. ASSUME NEW s \in Sessions, NEW t \in Tables, AlterTable(s, t) PROVE ImageIds'
  <2>1. \A q \in Threads : pc'[q] \in Saving => pc'[q] = pc[q]
    BY <1>3 DEF AlterTable, Goto, IdInv, Typed
  <2> QED BY <1>3, <2>1, ImageKept DEF AlterTable
<1>4. ASSUME NEW s \in Sessions, CreateTable(s) PROVE ImageIds'
  <2>1. \A q \in Threads : pc'[q] \in Saving => pc'[q] = pc[q]
    BY <1>4 DEF CreateTable, Goto, IdInv, Typed
  <2> QED BY <1>4, <2>1, ImageKept DEF CreateTable
<1>5. ASSUME NEW s \in Sessions, UpdateTable(s) PROVE ImageIds'
  <2>1. \A q \in Threads : pc'[q] \in Saving => pc'[q] = pc[q]
    BY <1>5 DEF UpdateTable, Goto, IdInv, Typed
  <2> QED BY <1>5, <2>1, ImageKept DEF UpdateTable
<1>6. ASSUME NEW s \in Sessions, TableFile(s) PROVE ImageIds'
  <2>1. \A q \in Threads : pc'[q] \in Saving => pc'[q] = pc[q]
    BY <1>6 DEF TableFile, Goto, IdInv, Typed
  <2> QED BY <1>6, <2>1, ImageKept DEF TableFile
<1>7. ASSUME NEW p \in Threads, Tick(p) PROVE ImageIds'
  <2>1. \A q \in Threads : pc'[q] \in Saving => pc'[q] = pc[q]
    BY <1>7 DEF Tick, Goto, IdInv, Typed
  <2> QED BY <1>7, <2>1, ImageKept DEF Tick
<1>8. ASSUME NEW p \in Threads, CollectTables(p) PROVE ImageIds'
  <2>1. /\ json' = json /\ next_id' = next_id /\ snap'[p].tables = catalog /\ pc'[p] = "ids"
        /\ \A q \in Threads \ {p} : snap'[q] = snap[q] /\ pc'[q] = pc[q]
    BY <1>8 DEF CollectTables, Goto, CatalogState, IdInv, Typed
  <2>2. Distinct(catalog) /\ Below(catalog, next_id)
    BY DEF IdInv, MemoryIds
  <2> QED BY <2>1, <2>2 DEF IdInv, ImageIds, Distinct, Below
<1>9. ASSUME NEW p \in Threads, LoadNextId(p) PROVE ImageIds'
  BY <1>9
  DEF LoadNextId, Goto, IdInv, Typed, AtHand, MemoryIds, ImageIds, Distinct, Below, Image, Id,
      Missing, Empty, Mixed
<1>10. ASSUME NEW p \in Threads, OpenJson(p) PROVE ImageIds'
  <2>1. /\ json'.kind = "empty" /\ next_id' = next_id /\ snap' = snap
        /\ pc[p] = "open" /\ pc'[p] = "write" /\ \A q \in Threads \ {p} : pc'[q] = pc[q]
    BY <1>10 DEF OpenJson, Goto, Empty, IdInv, Typed
  <2> QED BY <2>1 DEF IdInv, ImageIds, Distinct, Below
<1>11. ASSUME NEW p \in Threads, WriteJson(p) PROVE ImageIds'
  BY <1>11
  DEF WriteJson, Goto, AfterSave, IdInv, Typed, AtHand, MemoryIds, ImageIds, Distinct, Below,
      Image, Id, Missing, Empty, Mixed
<1>12. ASSUME NEW p \in Threads, FailSave(p) PROVE ImageIds'
  BY <1>12
  DEF FailSave, Goto, AfterSave, IdInv, Typed, AtHand, MemoryIds, ImageIds, Distinct, Below,
      Image, Id, Missing, Empty, Mixed
<1>13. ASSUME up, Halt PROVE ImageIds'
  BY <1>13
  DEF Halt, IdInv, Typed, AtHand, MemoryIds, ImageIds, Distinct, Below, Image, Id, Missing,
      Empty, Mixed
<1>14. ASSUME Start PROVE ImageIds'
  BY <1>14
  DEF Start, IdInv, Typed, AtHand, MemoryIds, ImageIds, Distinct, Below, Image, Id, Missing,
      Empty, Mixed
<1>15. ASSUME UNCHANGED vars PROVE ImageIds'
  BY <1>15, ImageKept DEF vars
<1> QED BY <1>1, <1>2, <1>3, <1>4, <1>5, <1>6, <1>7, <1>8, <1>9, <1>10, <1>11, <1>12, <1>13, <1>14, <1>15
    DEF Next, Run, Step, Kill, Exit

\* The invariant about ids is inductive.
LEMMA IdStep == IdInv /\ [Next]_vars => IdInv'
BY TypedStep, AtHandStep, MemoryIdsStep, ImageIdsStep DEF IdInv

\* Ids are unique and below the counter in every reachable state, for any number
\* of sessions, tables, statements, kills and failed saves.
THEOREM IdsUnique == Spec => []UniqueIds
<1>1. IdInv => UniqueIds
  BY DEF IdInv, Typed, MemoryIds, Distinct, Below, UniqueIds, Entry, Made, Id, NoEntry
<1> QED BY <1>1, InitIds, IdStep, PTL DEF Spec

-----------------------------------------------------------------------------
(* What was answered is in the file.                                       *)

\* Once the save of its last statement has collected the tables, and once that
\* save has ended.
Collected(t) ==
    \/ acked[t] \in {"created", "dropped"}
    \/ acked[t] \in Sessions /\ pc[acked[t]] \in Saving \cup {"files"}
Written(t) ==
    \/ acked[t] \in {"created", "dropped"}
    \/ acked[t] \in Sessions /\ pc[acked[t]] = "files"
Agrees(tables, t) == tables[t] = NoEntry <=> catalog[t] = NoEntry
Quiet == settled /\ \A p \in Threads : pc[p] # "write"

\* A thread marked alone is the only one in save, and finds the file as it left
\* it.
AloneInv ==
    \A p \in Threads : pc[p] \in Saving /\ alone[p] =>
        /\ \A q \in Threads \ {p} : pc[q] \notin Saving
        /\ pc[p] = "write" => json = Empty

\* The session that acked names is between its change of the catalog and its
\* answer, and the catalog is as it left it.
ChangeInv ==
    up => \A t \in Tables :
        /\ acked[t] = "created" => catalog[t] # NoEntry
        /\ acked[t] = "dropped" => catalog[t] = NoEntry
        /\ acked[t] \in Sessions =>
              /\ pc[acked[t]] \in Saving \cup {"save", "files"}
              /\ stmt[acked[t]].tab = t
              /\ stmt[acked[t]].kind = IF catalog[t] = NoEntry THEN "drop" ELSE "create"

\* The images on their way to the file, and the file.
FileInv ==
    /\ Quiet => json.kind \in {"missing", "state"}
    /\ up => \A t \in Tables :
          /\ Collected(t) => \A p \in Threads : pc[p] \in Saving /\ alone[p] => Agrees(snap[p].tables, t)
          /\ Written(t) /\ Quiet => json.kind = "state" /\ Agrees(json.tables, t)
    /\ ~ up => \A t \in Tables :
          /\ acked[t] \notin Sessions
          /\ acked[t] \in {"created", "dropped"} =>
                settled /\ json.kind = "state" /\ (json.tables[t] = NoEntry <=> acked[t] = "dropped")

SaveInv == IdInv /\ AloneInv /\ ChangeInv /\ FileInv

\* The initial states.
LEMMA InitSave == Init => SaveInv
<1> SUFFICES ASSUME Init PROVE SaveInv
  OBVIOUS
<1>1. AloneInv /\ ChangeInv
  BY DEF Init, AloneInv, ChangeInv
<1>2. FileInv
  BY DEF Init, FileInv, Quiet, Missing, Collected, Written
<1> QED BY <1>1, <1>2, InitIds DEF SaveInv

\* A save that begins marks every other that is under way, and itself.
LEMMA AloneStep == ASSUME SaveInv, [Next]_vars PROVE AloneInv'
<1>1. ASSUME NEW s \in Sessions, NEW t \in Tables, BeginCreate(s, t) PROVE AloneInv'
  BY <1>1 DEF BeginCreate, Goto, SaveInv, IdInv, Typed, AtHand, AloneInv, Others
<1>2. ASSUME NEW s \in Sessions, NEW t \in Tables, DropTable(s, t) PROVE AloneInv'
  BY <1>2 DEF DropTable, Goto, SaveInv, IdInv, Typed, AtHand, AloneInv, Others
<1>3. ASSUME NEW s \in Sessions, NEW t \in Tables, AlterTable(s, t) PROVE AloneInv'
  BY <1>3 DEF AlterTable, Goto, SaveInv, IdInv, Typed, AtHand, AloneInv, Others
<1>4. ASSUME NEW s \in Sessions, CreateTable(s) PROVE AloneInv'
  BY <1>4 DEF CreateTable, Goto, SaveInv, IdInv, Typed, AtHand, AloneInv, Others
<1>5. ASSUME NEW s \in Sessions, UpdateTable(s) PROVE AloneInv'
  BY <1>5 DEF UpdateTable, Goto, SaveInv, IdInv, Typed, AtHand, AloneInv, Others
<1>6. ASSUME NEW s \in Sessions, TableFile(s) PROVE AloneInv'
  BY <1>6 DEF TableFile, Goto, SaveInv, IdInv, Typed, AtHand, AloneInv, Others
<1>7. ASSUME NEW p \in Threads, Tick(p) PROVE AloneInv'
  BY <1>7 DEF Tick, Goto, SaveInv, IdInv, Typed, AtHand, AloneInv, Others
<1>8. ASSUME NEW p \in Threads, CollectTables(p) PROVE AloneInv'
  BY <1>8 DEF CollectTables, Goto, CatalogState, SaveInv, IdInv, Typed, AtHand, AloneInv, Others
<1>9. ASSUME NEW p \in Threads, LoadNextId(p) PROVE AloneInv'
  BY <1>9 DEF LoadNextId, Goto, SaveInv, IdInv, Typed, AtHand, AloneInv, Others
<1>10. ASSUME NEW p \in Threads, OpenJson(p) PROVE AloneInv'
  BY <1>10 DEF OpenJson, Goto, SaveInv, IdInv, Typed, AtHand, AloneInv, Others
<1>11. ASSUME NEW p \in Threads, WriteJson(p) PROVE AloneInv'
  BY <1>11 DEF WriteJson, Goto, AfterSave, SaveInv, IdInv, Typed, AtHand, AloneInv, Others
<1>12. ASSUME NEW p \in Threads, FailSave(p) PROVE AloneInv'
  BY <1>12 DEF FailSave, Goto, AfterSave, SaveInv, IdInv, Typed, AtHand, AloneInv, Others
<1>13. ASSUME up, Halt PROVE AloneInv'
  BY <1>13 DEF Halt, SaveInv, IdInv, Typed, AtHand, AloneInv, Others
<1>14. ASSUME Start PROVE AloneInv'
  BY <1>14 DEF Start, SaveInv, IdInv, Typed, AtHand, AloneInv, Others
<1>15. ASSUME UNCHANGED vars PROVE AloneInv'
  BY <1>15 DEF vars, SaveInv, IdInv, Typed, AtHand, AloneInv, Others
<1> QED BY <1>1, <1>2, <1>3, <1>4, <1>5, <1>6, <1>7, <1>8, <1>9, <1>10, <1>11, <1>12, <1>13, <1>14, <1>15
    DEF Next, Run, Step, Kill, Exit

\* Every change of an entry names the session that made it.
LEMMA ChangeStep == ASSUME SaveInv, [Next]_vars PROVE ChangeInv'
<1>1. ASSUME NEW s \in Sessions, NEW t \in Tables, BeginCreate(s, t) PROVE ChangeInv'
  BY <1>1
  DEF BeginCreate, Goto, SaveInv, IdInv, Typed, AtHand, ChangeInv, Statement, NoStatement
<1>2. ASSUME NEW s \in Sessions, NEW t \in Tables, DropTable(s, t) PROVE ChangeInv'
  BY <1>2 DEF DropTable, Goto, SaveInv, IdInv, Typed, AtHand, ChangeInv, Statement, NoStatement
<1>3. ASSUME NEW s \in Sessions, NEW t \in Tables, AlterTable(s, t) PROVE ChangeInv'
  BY <1>3 DEF AlterTable, Goto, SaveInv, IdInv, Typed, AtHand, ChangeInv, Statement, NoStatement
<1>4. ASSUME NEW s \in Sessions, CreateTable(s) PROVE ChangeInv'
  <2>1. /\ stmt[s].tab \in Tables /\ stmt[s].entry # NoEntry /\ stmt[s].kind = "create"
        /\ \A u \in Tables : acked[u] # s
    BY <1>4, CreateEntry DEF CreateTable, SaveInv, IdInv, AtHand, ChangeInv, Made, Id, NoEntry
  <2>2. CASE catalog[stmt[s].tab] = NoEntry
    <3>1. /\ catalog' = [catalog EXCEPT ![stmt[s].tab] = stmt[s].entry] /\ stmt' = stmt /\ up
          /\ acked' = [acked EXCEPT ![stmt[s].tab] = s] /\ pc' = [pc EXCEPT ![s] = "save"]
      BY <1>4, <2>2 DEF CreateTable, Goto
    <3> QED BY <2>1, <3>1 DEF SaveInv, IdInv, Typed, ChangeInv
  <2>3. CASE catalog[stmt[s].tab] # NoEntry
    <3>1. /\ catalog' = catalog /\ acked' = acked /\ up
          /\ stmt' = [stmt EXCEPT ![s] = NoStatement] /\ pc' = [pc EXCEPT ![s] = "idle"]
      BY <1>4, <2>3 DEF CreateTable, Goto
    <3> QED BY <2>1, <3>1 DEF SaveInv, IdInv, Typed, ChangeInv
  <2> QED BY <2>2, <2>3
<1>5. ASSUME NEW s \in Sessions, UpdateTable(s) PROVE ChangeInv'
  BY <1>5
  DEF UpdateTable, Goto, SaveInv, IdInv, Typed, AtHand, ChangeInv, Statement, NoStatement
<1>6. ASSUME NEW s \in Sessions, TableFile(s) PROVE ChangeInv'
  <2> DEFINE t == stmt[s].tab
  <2>1. /\ stmt' = [stmt EXCEPT ![s] = NoStatement] /\ pc' = [pc EXCEPT ![s] = "idle"]
        /\ catalog' = catalog /\ up
        /\ acked' = IF acked[t] = s
                     THEN [acked EXCEPT ![t] = IF stmt[s].kind = "create" THEN "created" ELSE "dropped"]
                     ELSE acked
    BY <1>6 DEF TableFile, Goto
  <2>2. t \in Tables
    BY <1>6 DEF TableFile, SaveInv, IdInv, Typed, AtHand, Statement, NoStatement
  <2>3. CASE acked[t] = s
    <3>1. stmt[s].kind = IF catalog[t] = NoEntry THEN "drop" ELSE "create"
      BY <2>1, <2>2, <2>3 DEF SaveInv, ChangeInv
    <3>2. acked' = [acked EXCEPT ![t] = IF catalog[t] = NoEntry THEN "dropped" ELSE "created"]
      BY <2>1, <2>3, <3>1
    <3>3. \A u \in Tables \ {t} : acked[u] # s
      BY <2>1 DEF SaveInv, ChangeInv
    <3> QED BY <2>1, <2>2, <3>2, <3>3 DEF SaveInv, IdInv, Typed, ChangeInv
  <2>4. CASE acked[t] # s
    <3>1. acked' = acked
      BY <2>1, <2>4
    <3>2. \A u \in Tables : acked[u] # s
      BY <2>1, <2>4 DEF SaveInv, ChangeInv
    <3> QED BY <2>1, <3>1, <3>2 DEF SaveInv, IdInv, Typed, ChangeInv
  <2> QED BY <2>3, <2>4
<1>7. ASSUME NEW p \in Threads, Tick(p) PROVE ChangeInv'
  BY <1>7 DEF Tick, Goto, SaveInv, IdInv, Typed, AtHand, ChangeInv, Statement, NoStatement
<1>8. ASSUME NEW p \in Threads, CollectTables(p) PROVE ChangeInv'
  BY <1>8
  DEF CollectTables, Goto, CatalogState, SaveInv, IdInv, Typed, AtHand, ChangeInv, Statement,
      NoStatement
<1>9. ASSUME NEW p \in Threads, LoadNextId(p) PROVE ChangeInv'
  BY <1>9 DEF LoadNextId, Goto, SaveInv, IdInv, Typed, AtHand, ChangeInv, Statement, NoStatement
<1>10. ASSUME NEW p \in Threads, OpenJson(p) PROVE ChangeInv'
  BY <1>10 DEF OpenJson, Goto, SaveInv, IdInv, Typed, AtHand, ChangeInv, Statement, NoStatement
<1>11. ASSUME NEW p \in Threads, WriteJson(p) PROVE ChangeInv'
  BY <1>11
  DEF WriteJson, Goto, AfterSave, SaveInv, IdInv, Typed, AtHand, ChangeInv, Statement,
      NoStatement
<1>12. ASSUME NEW p \in Threads, FailSave(p) PROVE ChangeInv'
  BY <1>12
  DEF FailSave, Goto, AfterSave, SaveInv, IdInv, Typed, AtHand, ChangeInv, Statement,
      NoStatement
<1>13. ASSUME up, Halt PROVE ChangeInv'
  BY <1>13 DEF Halt, SaveInv, IdInv, Typed, AtHand, ChangeInv, Statement, NoStatement
<1>14. ASSUME Start PROVE ChangeInv'
  <2>1. \A t \in Tables : acked'[t] \notin Sessions
    BY <1>14 DEF Start, SaveInv, FileInv
  <2>2. ASSUME NEW t \in Tables, acked[t] \in {"created", "dropped"}
        PROVE  catalog'[t] = NoEntry <=> acked[t] = "dropped"
    <3>1. json.kind = "state" /\ (json.tables[t] = NoEntry <=> acked[t] = "dropped")
      BY <1>14, <2>2 DEF Start, SaveInv, FileInv
    <3> QED BY <1>14, <3>1 DEF Start, Missing
  <2> QED BY <1>14, <2>1, <2>2 DEF Start, ChangeInv
<1>15. ASSUME UNCHANGED vars PROVE ChangeInv'
  BY <1>15 DEF vars, SaveInv, IdInv, Typed, AtHand, ChangeInv, Statement, NoStatement
<1> QED BY <1>1, <1>2, <1>3, <1>4, <1>5, <1>6, <1>7, <1>8, <1>9, <1>10, <1>11, <1>12, <1>13, <1>14, <1>15
    DEF Next, Run, Step, Kill, Exit

\* A step that leaves the images, the file and the marks alone, moves no thread
\* into, within or out of save, and makes no new claim.
LEMMA FileKept ==
  ASSUME SaveInv, up, up', json' = json, snap' = snap, alone' = alone, settled' = settled,
         \A q \in Threads : pc'[q] = pc[q] \/ (pc[q] \notin Saving /\ pc'[q] \notin Saving),
         \A u \in Tables :
            /\ Collected(u)' => Collected(u) /\ catalog'[u] = catalog[u]
            /\ Written(u)' => Written(u) /\ catalog'[u] = catalog[u]
  PROVE  FileInv'
<1>1. Quiet' => Quiet
  BY DEF Quiet
<1> QED BY <1>1 DEF SaveInv, FileInv, Agrees

\* The images and the file keep up with what is answered.
LEMMA FileStep == ASSUME SaveInv, [Next]_vars PROVE FileInv'
<1>1. ASSUME NEW s \in Sessions, NEW t \in Tables, BeginCreate(s, t) PROVE FileInv'
  <2>1. /\ pc[s] \notin Saving /\ pc'[s] \notin Saving \cup {"files"}
        /\ \A q \in Threads \ {s} : pc'[q] = pc[q]
    BY <1>1 DEF BeginCreate, Goto, SaveInv, IdInv, Typed
  <2>2. ASSUME NEW u \in Tables
        PROVE  /\ Collected(u)' => Collected(u) /\ catalog'[u] = catalog[u]
               /\ Written(u)' => Written(u) /\ catalog'[u] = catalog[u]
    BY <1>1, <2>1 DEF BeginCreate, Collected, Written, SaveInv, IdInv, Typed, ChangeInv
  <2> QED BY <1>1, <2>1, <2>2, FileKept DEF BeginCreate, bounds
<1>2. ASSUME NEW s \in Sessions, NEW t \in Tables, DropTable(s, t) PROVE FileInv'
  <2>1. /\ pc[s] \notin Saving /\ pc'[s] \notin Saving \cup {"files"}
        /\ \A q \in Threads \ {s} : pc'[q] = pc[q]
    BY <1>2 DEF DropTable, Goto, SaveInv, IdInv, Typed
  <2>2. ASSUME NEW u \in Tables
        PROVE  /\ Collected(u)' => Collected(u) /\ catalog'[u] = catalog[u]
               /\ Written(u)' => Written(u) /\ catalog'[u] = catalog[u]
    BY <1>2, <2>1 DEF DropTable, Collected, Written, SaveInv, IdInv, Typed, ChangeInv
  <2> QED BY <1>2, <2>1, <2>2, FileKept DEF DropTable, bounds
<1>3. ASSUME NEW s \in Sessions, NEW t \in Tables, AlterTable(s, t) PROVE FileInv'
  <2>1. /\ pc[s] \notin Saving /\ pc'[s] \notin Saving \cup {"files"}
        /\ \A q \in Threads \ {s} : pc'[q] = pc[q]
    BY <1>3 DEF AlterTable, Goto, SaveInv, IdInv, Typed
  <2>2. ASSUME NEW u \in Tables
        PROVE  /\ Collected(u)' => Collected(u) /\ catalog'[u] = catalog[u]
               /\ Written(u)' => Written(u) /\ catalog'[u] = catalog[u]
    BY <1>3, <2>1 DEF AlterTable, Collected, Written, SaveInv, IdInv, Typed, ChangeInv
  <2> QED BY <1>3, <2>1, <2>2, FileKept DEF AlterTable, bounds
<1>4. ASSUME NEW s \in Sessions, CreateTable(s) PROVE FileInv'
  <2>1. stmt[s].tab \in Tables /\ \A u \in Tables : acked[u] # s
    BY <1>4, CreateEntry DEF CreateTable, SaveInv, ChangeInv
  <2>2. /\ up /\ up' /\ json' = json /\ snap' = snap /\ alone' = alone /\ settled' = settled
        /\ \A q \in Threads \ {s} : pc'[q] = pc[q]
        /\ pc[s] = "create" /\ pc'[s] \in {"save", "idle"}
    BY <1>4 DEF CreateTable, Goto, SaveInv, IdInv, Typed
  <2>3. \A u \in Tables \ {stmt[s].tab} : catalog'[u] = catalog[u] /\ acked'[u] = acked[u]
    BY <1>4, <2>1 DEF CreateTable, SaveInv, IdInv, Typed
  <2>4. LET u == stmt[s].tab IN (catalog'[u] = catalog[u] /\ acked'[u] = acked[u]) \/ acked'[u] = s
    BY <1>4, <2>1 DEF CreateTable, SaveInv, IdInv, Typed
  <2>5. ASSUME NEW u \in Tables
        PROVE  /\ Collected(u)' => Collected(u) /\ catalog'[u] = catalog[u]
               /\ Written(u)' => Written(u) /\ catalog'[u] = catalog[u]
    <3>1. CASE acked'[u] = s
      BY <2>2, <3>1 DEF Collected, Written
    <3>2. CASE acked'[u] # s
      <4>1. catalog'[u] = catalog[u] /\ acked'[u] = acked[u]
        BY <2>3, <2>4, <3>2
      <4> QED BY <2>1, <2>2, <4>1 DEF Collected, Written
    <3> QED BY <3>1, <3>2
  <2> QED BY <2>2, <2>5, FileKept
<1>5. ASSUME NEW s \in Sessions, UpdateTable(s) PROVE FileInv'
  <2>1. /\ pc[s] \notin Saving /\ pc'[s] \notin Saving
        /\ \A q \in Threads \ {s} : pc'[q] = pc[q]
    BY <1>5 DEF UpdateTable, Goto, SaveInv, IdInv, Typed
  <2>2. ASSUME NEW u \in Tables
        PROVE  /\ Collected(u)' => Collected(u) /\ catalog'[u] = catalog[u]
               /\ Written(u)' => Written(u) /\ catalog'[u] = catalog[u]
    BY <1>5, <2>1 DEF UpdateTable, Collected, Written, SaveInv, IdInv, Typed, ChangeInv
  <2> QED BY <1>5, <2>1, <2>2, FileKept DEF UpdateTable, bounds
<1>6. ASSUME NEW s \in Sessions, TableFile(s) PROVE FileInv'
  <2> DEFINE t == stmt[s].tab
  <2>1. /\ up /\ up' /\ json' = json /\ snap' = snap /\ alone' = alone /\ settled' = settled /\ catalog' = catalog
        /\ pc' = [pc EXCEPT ![s] = "idle"] /\ pc[s] = "files"
        /\ acked' = IF acked[t] = s
                     THEN [acked EXCEPT ![t] = IF stmt[s].kind = "create" THEN "created" ELSE "dropped"]
                     ELSE acked
    BY <1>6 DEF TableFile, Goto
  <2>2. \A q \in Threads : pc'[q] = pc[q] \/ (pc[q] \notin Saving /\ pc'[q] \notin Saving)
    BY <2>1 DEF SaveInv, IdInv, Typed
  <2>3. ASSUME NEW u \in Tables
        PROVE  (Collected(u)' => Collected(u)) /\ (Written(u)' => Written(u))
    <3>1. CASE acked[u] = s
      BY <2>1, <3>1 DEF Collected, Written
    <3>2. CASE acked[u] # s
      <4>1. acked'[u] = acked[u]
        BY <2>1, <3>2 DEF SaveInv, IdInv, Typed
      <4>2. acked[u] \in Sessions => pc'[acked[u]] = pc[acked[u]]
        BY <2>1, <3>2 DEF SaveInv, IdInv, Typed
      <4> QED BY <4>1, <4>2 DEF Collected, Written
    <3> QED BY <3>1, <3>2
  <2> QED BY <2>1, <2>2, <2>3, FileKept
<1>7. ASSUME NEW p \in Threads, Tick(p) PROVE FileInv'
  <2>1. /\ pc[p] \notin Saving /\ pc'[p] \notin Saving \cup {"files"}
        /\ \A q \in Threads \ {p} : pc'[q] = pc[q]
    BY <1>7 DEF Tick, Goto, SaveInv, IdInv, Typed
  <2>2. ASSUME NEW u \in Tables
        PROVE  /\ Collected(u)' => Collected(u) /\ catalog'[u] = catalog[u]
               /\ Written(u)' => Written(u) /\ catalog'[u] = catalog[u]
    BY <1>7, <2>1 DEF Tick, Collected, Written, SaveInv, IdInv, Typed, ChangeInv
  <2> QED BY <1>7, <2>1, <2>2, FileKept DEF Tick, bounds
<1>8. ASSUME NEW p \in Threads, CollectTables(p) PROVE FileInv'
  <2>1. /\ up /\ up' /\ json' = json /\ settled' = settled /\ catalog' = catalog /\ acked' = acked
        /\ pc[p] = "save" /\ pc'[p] = "ids" /\ snap'[p].tables = catalog
        /\ \A q \in Threads \ {p} :
              /\ pc'[q] = pc[q] /\ snap'[q] = snap[q]
              /\ pc[q] \in Saving => ~ alone'[q]
    BY <1>8 DEF CollectTables, Goto, CatalogState, Others, SaveInv, IdInv, Typed
  <2>2. Quiet' => Quiet
    BY <2>1 DEF Quiet
  <2>3. ASSUME NEW u \in Tables
        PROVE  /\ Written(u)' => Written(u)
               /\ \A q \in Threads : pc'[q] \in Saving /\ alone'[q] => Agrees(snap'[q].tables, u)
    BY <2>1 DEF Written, Agrees
  <2> QED BY <2>1, <2>2, <2>3 DEF SaveInv, FileInv, Agrees
<1>9. ASSUME NEW p \in Threads, LoadNextId(p) PROVE FileInv'
  BY <1>9
  DEF LoadNextId, Goto, SaveInv, IdInv, Typed, AtHand, AloneInv, ChangeInv, FileInv, Collected,
      Written, Agrees, Quiet
<1>10. ASSUME NEW p \in Threads, OpenJson(p) PROVE FileInv'
  <2>1. /\ up' /\ snap' = snap /\ alone' = alone /\ catalog' = catalog /\ acked' = acked
        /\ pc[p] = "open" /\ pc'[p] = "write" /\ \A q \in Threads \ {p} : pc'[q] = pc[q]
    BY <1>10 DEF OpenJson, Goto, SaveInv, IdInv, Typed
  <2>2. ~ Quiet' /\ \A u \in Tables : Collected(u)' => Collected(u)
    BY <2>1 DEF Quiet, Collected
  <2>3. up
    BY <1>10 DEF OpenJson
  <2> QED BY <2>1, <2>2, <2>3 DEF SaveInv, FileInv, Agrees
<1>11. ASSUME NEW p \in Threads, WriteJson(p) PROVE FileInv'
  <2>1. /\ up /\ up' /\ settled' = alone[p] /\ catalog' = catalog /\ acked' = acked
        /\ pc[p] = "write" /\ pc'[p] \notin Saving
        /\ \A q \in Threads \ {p} : pc'[q] = pc[q] /\ snap'[q] = snap[q] /\ alone'[q] = alone[q]
    BY <1>11 DEF WriteJson, Goto, AfterSave, SaveInv, IdInv, Typed
  <2>2. alone[p] => json' = snap[p] /\ json'.kind = "state"
    BY <1>11 DEF WriteJson, SaveInv, AloneInv, IdInv, AtHand, Image
  <2>3. Quiet' => alone[p]
    BY <2>1 DEF Quiet
  <2>4. ASSUME NEW u \in Tables
        PROVE  (Collected(u)' => Collected(u)) /\ (Written(u)' => Collected(u))
    BY <2>1 DEF Collected, Written
  <2>5. ASSUME NEW u \in Tables, Collected(u)
        PROVE  /\ \A q \in Threads : pc'[q] \in Saving /\ alone'[q] => Agrees(snap'[q].tables, u)
               /\ alone[p] => Agrees(json'.tables, u)
    BY <2>1, <2>2, <2>5 DEF SaveInv, FileInv
  <2> QED BY <2>1, <2>2, <2>3, <2>4, <2>5 DEF FileInv, Agrees
<1>12. ASSUME NEW p \in Threads, FailSave(p) PROVE FileInv'
  BY <1>12
  DEF FailSave, Goto, AfterSave, SaveInv, IdInv, Typed, AtHand, AloneInv, ChangeInv, FileInv,
      Collected, Written, Agrees, Quiet
<1>13. ASSUME up, Halt PROVE FileInv'
  <2>1. settled' => Quiet
    BY <1>13 DEF Halt, Quiet
  <2>2. ~ up' /\ json' = json /\ \A t \in Tables : acked'[t] \notin Sessions
    BY <1>13 DEF Halt, SaveInv, IdInv, Typed
  <2>3. ASSUME NEW t \in Tables, acked'[t] \in {"created", "dropped"}
        PROVE  settled' /\ acked[t] = acked'[t]
    BY <1>13, <2>3 DEF Halt
  <2>4. ASSUME NEW t \in Tables, acked'[t] \in {"created", "dropped"}
        PROVE  json.kind = "state" /\ (json.tables[t] = NoEntry <=> acked'[t] = "dropped")
    <3>1. Written(t) /\ Quiet /\ acked[t] = acked'[t]
      BY <2>1, <2>3, <2>4 DEF Written
    <3>2. json.kind = "state" /\ Agrees(json.tables, t)
      BY <1>13, <3>1 DEF SaveInv, FileInv
    <3>3. catalog[t] = NoEntry <=> acked[t] = "dropped"
      BY <1>13, <2>4, <3>1 DEF SaveInv, ChangeInv
    <3> QED BY <3>1, <3>2, <3>3 DEF Agrees
  <2>5. Quiet' => json.kind \in {"missing", "state"}
    BY <2>1 DEF Quiet, SaveInv, FileInv
  <2> QED BY <2>2, <2>3, <2>4, <2>5 DEF FileInv
<1>14. ASSUME Start PROVE FileInv'
  <2>1. /\ ~ up /\ up' /\ json' = json /\ acked' = acked /\ pc' = pc /\ settled' = settled
        /\ json.kind \in {"missing", "state"}
        /\ json # Missing => catalog' = json.tables
    BY <1>14 DEF Start
  <2>2. \A q \in Threads : pc'[q] = "idle"
    BY <2>1 DEF SaveInv, IdInv, AtHand
  <2>3. ASSUME NEW t \in Tables, Written(t)'
        PROVE  json.kind = "state" /\ catalog' = json.tables
    <3>1. acked[t] \in {"created", "dropped"}
      BY <2>1, <2>2, <2>3 DEF Written
    <3> QED BY <2>1, <3>1 DEF SaveInv, FileInv, Missing
  <2> QED BY <2>1, <2>2, <2>3 DEF FileInv, Agrees
<1>15. ASSUME UNCHANGED vars PROVE FileInv'
  <2>1. CASE up
    <3>1. \A u \in Tables : (Collected(u)' <=> Collected(u)) /\ (Written(u)' <=> Written(u))
      BY <1>15 DEF vars, Collected, Written
    <3> QED BY <1>15, <2>1, <3>1, FileKept DEF vars
  <2>2. CASE ~ up
    BY <1>15, <2>2 DEF vars, SaveInv, FileInv, Quiet
  <2> QED BY <2>1, <2>2
<1> QED BY <1>1, <1>2, <1>3, <1>4, <1>5, <1>6, <1>7, <1>8, <1>9, <1>10, <1>11, <1>12, <1>13, <1>14, <1>15
    DEF Next, Run, Step, Kill, Exit

\* The whole invariant is inductive.
LEMMA SaveStep == SaveInv /\ [Next]_vars => SaveInv'
BY IdStep, AloneStep, ChangeStep, FileStep DEF SaveInv

\* An answered CREATE or DROP TABLE is in catalog.json once saves have settled,
\* for any number of sessions that save at the same time as the interval and
\* main, and across kills and restarts.
THEOREM AnswersSaved == Spec => []AckedIsSaved
<1>1. SaveInv => AckedIsSaved
  <2> SUFFICES ASSUME SaveInv, Quiet PROVE
          /\ json.kind \in {"missing", "state"}
          /\ \A t \in Tables :
                /\ acked[t] = "created" => json.kind = "state" /\ json.tables[t] # NoEntry
                /\ acked[t] = "dropped" => json.kind = "state" /\ json.tables[t] = NoEntry
    BY DEF AckedIsSaved, Quiet
  <2>1. CASE up
    BY <2>1 DEF SaveInv, ChangeInv, FileInv, Written, Agrees
  <2>2. CASE ~ up
    BY <2>2 DEF SaveInv, FileInv
  <2> QED BY <2>1, <2>2
<1> QED BY <1>1, InitSave, SaveStep, PTL DEF Spec
==============================================================================
