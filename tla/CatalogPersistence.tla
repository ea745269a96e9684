------------------------- MODULE CatalogPersistence -------------------------
(***************************************************************************)
(* How the catalog reaches catalog.json and comes back (CatalogManager's   *)
(* save and load in crates/fe-catalog/src/catalog.rs, their callers in     *)
(* harness-server/src/ddl_handler.rs and fe_main.rs), beside the table     *)
(* files, which are written separately.                                    *)
(*                                                                         *)
(* Threads: sessions that run CREATE, DROP and ALTER TABLE, the task that  *)
(* saves the catalog every 30 seconds, and main, which saves it once more  *)
(* before the process exits.  All of them may be in save at the same time. *)
(* The process may be killed between any two steps; what was written to a  *)
(* file before stays there (no power failure).                             *)
(***************************************************************************)
EXTENDS Naturals, FiniteSets

CONSTANTS Sessions,     \* client sessions
          Tables,       \* table names, in one database
          MaxDdl,       \* bound: statements started in a behaviour
          MaxStops,     \* bound: kills and shutdowns in a behaviour
          MaxFailures   \* bound: saves that fail with an I/O error

ASSUME CatalogPersistenceAssumption ==
    /\ {"ticker", "main", "nothing", "created", "dropped"} \cap Sessions = {}
    /\ MaxDdl \in Nat /\ MaxStops \in Nat /\ MaxFailures \in Nat

VARIABLES
    up,         \* the server runs
    catalog,    \* databases: catalog[t] is the table's entry
    next_id,    \* the id counter
    json,       \* catalog.json
    files,      \* files[t]: the number of columns in t's data.parquet
    pc,         \* per thread: next step
    stmt,       \* per session: the statement, with the entry it works on
    snap,       \* per thread: the CatalogState it is about to write
    ddl, stops, failures,  \* counters for the bounds
    alone,      \* history, per thread: no other save since its own began
    settled,    \* history: the last save that ended ran alone
    acked       \* history: acked[t]: the session that last created or dropped t, until
                \* it is answered; then what the answer said

vars == <<up, catalog, next_id, json, files, pc, stmt, snap, ddl, stops, failures,
          alone, settled, acked>>

bounds == <<ddl, stops, failures>>

Threads == Sessions \cup {"ticker", "main"}

\* No entry in the catalog; no data.parquet.
NoEntry == [id |-> 0, cols |-> 0]
NoFile == 0

NoStatement == [kind |-> "none"]

\* catalog.json: missing; truncated, nothing written yet; the text of one save
\* over the longer text of another.  The last two do not parse.
Missing == [kind |-> "missing"]
Empty   == [kind |-> "empty"]
Mixed   == [kind |-> "mixed"]
CatalogState(tables, id) == [kind |-> "state", tables |-> tables, next_id |-> id]

NoSnap == Missing

\* The steps inside save.
Saving == {"ids", "open", "write"}

Init ==
    /\ up = TRUE
    /\ catalog = [t \in Tables |-> NoEntry]
    /\ next_id = 1
    /\ json = Missing
    /\ files = [t \in Tables |-> NoFile]
    /\ pc = [p \in Threads |-> "idle"]
    /\ stmt = [s \in Sessions |-> NoStatement]
    /\ snap = [p \in Threads |-> NoSnap]
    /\ ddl = 0 /\ stops = 0 /\ failures = 0
    /\ alone = [p \in Threads |-> TRUE]
    /\ settled = TRUE
    /\ acked = [t \in Tables |-> "nothing"]

Goto(p, step) == pc' = [pc EXCEPT ![p] = step]
-----------------------------------------------------------------------------
(* The statements *)

\* CREATE TABLE takes an id before anything is checked.
BeginCreate(s, t) ==
    /\ up /\ pc[s] = "idle" /\ ddl < MaxDdl
    /\ ddl' = ddl + 1
    /\ stmt' = [stmt EXCEPT ![s] = [kind |-> "create", tab |-> t,
                                    entry |-> [id |-> next_id, cols |-> 1]]]
    /\ next_id' = next_id + 1
    /\ Goto(s, "create")
    /\ UNCHANGED <<up, catalog, json, files, snap, stops, failures, alone, settled, acked>>

\* Mutation: the statement goes on without a save.
CreateTableUnsaved(s) ==
    /\ up /\ pc[s] = "create"
    /\ IF catalog[stmt[s].tab] = NoEntry
       THEN /\ catalog' = [catalog EXCEPT ![stmt[s].tab] = stmt[s].entry]
            /\ acked' = [acked EXCEPT ![stmt[s].tab] = s]
            /\ Goto(s, "files") /\ UNCHANGED stmt
       ELSE /\ stmt' = [stmt EXCEPT ![s] = NoStatement]
            /\ Goto(s, "idle") /\ UNCHANGED <<catalog, acked>>
    /\ UNCHANGED <<up, next_id, json, files, snap, bounds, alone, settled>>

\* CatalogManager::create_table, under the database's guard.
CreateTable(s) ==
    /\ up /\ pc[s] = "create"
    /\ IF catalog[stmt[s].tab] = NoEntry
       THEN /\ catalog' = [catalog EXCEPT ![stmt[s].tab] = stmt[s].entry]
            /\ acked' = [acked EXCEPT ![stmt[s].tab] = s]
            /\ Goto(s, "save") /\ UNCHANGED stmt
       ELSE /\ stmt' = [stmt EXCEPT ![s] = NoStatement]
            /\ Goto(s, "idle") /\ UNCHANGED <<catalog, acked>>
    /\ UNCHANGED <<up, next_id, json, files, snap, bounds, alone, settled>>

\* DROP TABLE: CatalogManager::drop_table.
DropTable(s, t) ==
    /\ up /\ pc[s] = "idle" /\ ddl < MaxDdl
    /\ ddl' = ddl + 1
    /\ catalog[t] # NoEntry
    /\ catalog' = [catalog EXCEPT ![t] = NoEntry]
    /\ stmt' = [stmt EXCEPT ![s] = [kind |-> "drop", tab |-> t]]
    /\ acked' = [acked EXCEPT ![t] = s]
    /\ Goto(s, "save")
    /\ UNCHANGED <<up, next_id, json, files, snap, stops, failures, alone, settled>>

\* Mutation: the column is pushed twice.
AlterTableTwice(s, t) ==
    /\ up /\ pc[s] = "idle" /\ ddl < MaxDdl
    /\ ddl' = ddl + 1
    /\ catalog[t] # NoEntry
    /\ stmt' = [stmt EXCEPT ![s] = [kind |-> "alter", tab |-> t,
                                    entry |-> [catalog[t] EXCEPT !.cols = @ + 2]]]
    /\ Goto(s, "update")
    /\ UNCHANGED <<up, catalog, next_id, json, files, snap, stops, failures, alone,
                   settled, acked>>

\* ALTER TABLE ADD COLUMN: a clone of the entry gets the column ...
AlterTable(s, t) ==
    /\ up /\ pc[s] = "idle" /\ ddl < MaxDdl
    /\ ddl' = ddl + 1
    /\ catalog[t] # NoEntry
    /\ stmt' = [stmt EXCEPT ![s] = [kind |-> "alter", tab |-> t,
                                    entry |-> [catalog[t] EXCEPT !.cols = @ + 1]]]
    /\ Goto(s, "update")
    /\ UNCHANGED <<up, catalog, next_id, json, files, snap, stops, failures, alone,
                   settled, acked>>

\* ... and is written back by update_table, whatever is there by now.  There is
\* no save.
UpdateTable(s) ==
    /\ up /\ pc[s] = "update"
    /\ catalog' = [catalog EXCEPT ![stmt[s].tab] = stmt[s].entry]
    /\ acked' = [acked EXCEPT ![stmt[s].tab] = "nothing"]
    /\ Goto(s, "files")
    /\ UNCHANGED <<up, next_id, json, files, stmt, snap, bounds, alone, settled>>

\* The table's file: made empty, removed, or rewritten with one more column; and
\* the answer to the client.
TableFile(s) ==
    LET t == stmt[s].tab IN
    /\ up /\ pc[s] = "files"
    /\ files' = [files EXCEPT ![t] =
                    CASE stmt[s].kind = "create" -> 1
                      [] stmt[s].kind = "drop"   -> NoFile
                      [] OTHER -> IF files[t] = NoFile THEN NoFile ELSE files[t] + 1]
    /\ acked' = IF acked[t] = s
                THEN [acked EXCEPT ![t] = IF stmt[s].kind = "create" THEN "created" ELSE "dropped"]
                ELSE acked
    /\ stmt' = [stmt EXCEPT ![s] = NoStatement]
    /\ Goto(s, "idle")
    /\ UNCHANGED <<up, catalog, next_id, json, snap, bounds, alone, settled>>
-----------------------------------------------------------------------------
(* save *)

\* The interval's tick, or the signal that makes main save and exit.
Tick(p) ==
    /\ up /\ p \in {"ticker", "main"} /\ pc[p] = "idle"
    /\ p = "main" => stops < MaxStops
    /\ Goto(p, "save")
    /\ UNCHANGED <<up, catalog, next_id, json, files, stmt, snap, bounds, alone, settled,
                   acked>>

\* Mutation: the saving task leaves its loop after one save.
AfterSaveLeave(p) == IF p \in Sessions THEN "files" ELSE "exit"

\* Where a thread goes after save: the statement's file, back to the interval, or
\* out of main.
AfterSave(p) ==
    CASE p \in Sessions -> "files"
      [] p = "ticker"   -> "idle"
      [] OTHER          -> "exit"

\* The other threads in save, who no longer run alone.
Others(p) == {q \in Threads \ {p} : pc[q] \in Saving}

\* The database's entry is cloned under its guard, so the tables are those of one
\* moment ...
CollectTables(p) ==
    /\ up /\ pc[p] = "save"
    /\ snap' = [snap EXCEPT ![p] = CatalogState(catalog, 0)]
    /\ alone' = [q \in Threads |->
                    IF q = p THEN Others(p) = {} ELSE alone[q] /\ q \notin Others(p)]
    /\ Goto(p, "ids")
    /\ UNCHANGED <<up, catalog, next_id, json, files, stmt, bounds, settled, acked>>

\* ... and the counter that of a later one.
LoadNextId(p) ==
    /\ up /\ pc[p] = "ids"
    /\ snap' = [snap EXCEPT ![p].next_id = next_id]
    /\ Goto(p, "open")
    /\ UNCHANGED <<up, catalog, next_id, json, files, stmt, bounds, alone, settled, acked>>

\* fs::write opens the file with truncation, in place ...
OpenJson(p) ==
    /\ up /\ pc[p] = "open"
    /\ json' = Empty
    /\ Goto(p, "write")
    /\ UNCHANGED <<up, catalog, next_id, files, stmt, snap, bounds, alone, settled, acked>>

\* ... and writes from its start, over what another save may have put there since.
WriteJson(p) ==
    /\ up /\ pc[p] = "write"
    /\ json' \in IF json \in {Empty, snap[p]} THEN {snap[p]} ELSE {snap[p], Mixed}
    /\ settled' = alone[p]
    /\ snap' = [snap EXCEPT ![p] = NoSnap]
    /\ alone' = [alone EXCEPT ![p] = TRUE]
    /\ Goto(p, AfterSave(p))
    /\ UNCHANGED <<up, catalog, next_id, files, stmt, bounds, acked>>

\* create_dir_all or the open fails: the error is logged and the caller goes on.
FailSave(p) ==
    /\ up /\ pc[p] = "open" /\ failures < MaxFailures
    /\ failures' = failures + 1
    /\ settled' = FALSE
    /\ snap' = [snap EXCEPT ![p] = NoSnap]
    /\ alone' = [alone EXCEPT ![p] = TRUE]
    /\ Goto(p, AfterSave(p))
    /\ UNCHANGED <<up, catalog, next_id, json, files, stmt, ddl, stops, acked>>
-----------------------------------------------------------------------------
(* Stop and start *)

Halt ==
    /\ up' = FALSE
    /\ stops' = stops + 1
    /\ catalog' = [t \in Tables |-> NoEntry]
    /\ next_id' = 1
    /\ pc' = [p \in Threads |-> "idle"]
    /\ stmt' = [s \in Sessions |-> NoStatement]
    /\ snap' = [p \in Threads |-> NoSnap]
    /\ alone' = [p \in Threads |-> TRUE]
    /\ settled' = (settled /\ \A p \in Threads : pc[p] # "write")
    /\ acked' = [t \in Tables |->
                    IF settled' /\ acked[t] \notin Sessions THEN acked[t] ELSE "nothing"]
    /\ UNCHANGED <<json, files, ddl, failures>>

\* The process is killed.
Kill == up /\ stops < MaxStops /\ Halt

\* main returns after its save, with the sessions wherever they are.
Exit == up /\ pc["main"] = "exit" /\ Halt

\* Mutation: load does not restore the counter.
StartCountingAgain ==
    /\ ~ up /\ json.kind \in {"missing", "state"}
    /\ up' = TRUE
    /\ IF json = Missing
       THEN UNCHANGED <<catalog, next_id>>
       ELSE catalog' = json.tables /\ next_id' = 1
    /\ UNCHANGED <<json, files, pc, stmt, snap, bounds, alone, settled, acked>>

\* CatalogManager::load.  A missing file leaves the empty catalog; one that does
\* not parse ends main with an error.
Start ==
    /\ ~ up /\ json.kind \in {"missing", "state"}
    /\ up' = TRUE
    /\ IF json = Missing
       THEN UNCHANGED <<catalog, next_id>>
       ELSE catalog' = json.tables /\ next_id' = json.next_id
    /\ UNCHANGED <<json, files, pc, stmt, snap, bounds, alone, settled, acked>>

Step(p) ==
    \/ CollectTables(p) \/ LoadNextId(p) \/ OpenJson(p) \/ WriteJson(p) \/ FailSave(p)

Run(s) == CreateTable(s) \/ UpdateTable(s) \/ TableFile(s)

Next ==
    \/ \E s \in Sessions, t \in Tables : BeginCreate(s, t) \/ DropTable(s, t) \/ AlterTable(s, t)
    \/ \E s \in Sessions : Run(s)
    \/ \E p \in Threads : Tick(p) \/ Step(p)
    \/ Kill \/ Exit \/ Start

Spec == Init /\ [][Next]_vars

\* Every thread that can run does, and the interval keeps ticking.
FairSpec ==
    /\ Spec
    /\ \A p \in Threads : WF_vars(Step(p))
    /\ \A s \in Sessions : WF_vars(Run(s))
    /\ WF_vars(Tick("ticker")) /\ WF_vars(Exit)
-----------------------------------------------------------------------------
(* Properties *)

Entries == {NoEntry} \cup [id : 1 .. MaxDdl, cols : 1 .. MaxDdl]
States == [kind : {"state"}, tables : [Tables -> Entries], next_id : 0 .. MaxDdl + 1]

\* Type correctness: in particular catalog.json is missing, empty, mixed up or one
\* whole CatalogState.
TypeOK ==
    /\ up \in BOOLEAN
    /\ catalog \in [Tables -> Entries]
    /\ next_id \in 1 .. MaxDdl + 1
    /\ json \in States \cup {Missing, Empty, Mixed}
    /\ files \in [Tables -> 0 .. MaxDdl]
    /\ pc \in [Threads -> Saving \cup {"idle", "create", "update", "save", "files", "exit"}]
    /\ snap \in [Threads -> States \cup {NoSnap}]
    /\ settled \in BOOLEAN
    /\ acked \in [Tables -> {"nothing", "created", "dropped"} \cup Sessions]

\* No two tables share an id, and the counter is ahead of every id in the catalog,
\* across kills and restarts with the ids of statements in flight lost: save reads
\* the counter after it has collected the tables.
UniqueIds ==
    /\ \A t, u \in Tables : catalog[t] # NoEntry /\ catalog[t].id = catalog[u].id => t = u
    /\ up => \A t \in Tables : catalog[t].id < next_id

\* A CREATE or DROP TABLE that was answered, and that no later statement on the
\* table has overtaken, is in catalog.json, which parses: except while a save is between its truncation and its write, or after saves of
\* two threads overlapped or one failed, until the next one that runs alone.  (A
\* process killed in between loses what it answered: the claim starts afresh.)
AckedIsSaved ==
    settled /\ (\A p \in Threads : pc[p] # "write") =>
        /\ json.kind \in {"missing", "state"}
        /\ \A t \in Tables :
              /\ acked[t] = "created" => json.kind = "state" /\ json.tables[t] # NoEntry
              /\ acked[t] = "dropped" => json.kind = "state" /\ json.tables[t] = NoEntry

\* While the server runs, catalog.json holds the catalog in memory again and again,
\* whatever older or mixed text overlapping saves left in it and although ALTER
\* TABLE never saves: the interval repairs it.
EventuallySaved ==
    []<>(up => json.kind = "state" /\ json.tables = catalog /\ json.next_id = next_id)

\* "Operations are individually atomic" (docs/en/features.md): whenever no
\* statement runs, a table's file has the columns its catalog entry says, after a
\* restart too.
AlterIsAtomic ==
    up /\ (\A s \in Sessions : pc[s] = "idle") =>
        \A t \in Tables :
            catalog[t] # NoEntry /\ files[t] # NoFile => files[t] = catalog[t].cols
=============================================================================
