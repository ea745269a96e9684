---------------------------- MODULE SchemaChange ----------------------------
(***************************************************************************)
(* The DDL and DML handlers (harness-server/src/ddl_handler.rs and         *)
(* dml_handler.rs) over the catalog (CatalogManager, crates/fe-catalog)    *)
(* and the table files (ParquetStorage, crates/fe-storage).                *)
(*                                                                         *)
(* A session runs one statement at a time; sessions interleave.  A call of *)
(* CatalogManager is atomic (a DashMap entry guard), a call of             *)
(* ParquetStorage is atomic (it implements AtomicStore), a handler is not: *)
(* one action is one such call.                                            *)
(*                                                                         *)
(* A catalog column carries an identity next to its name, and a stored     *)
(* value is the identity of the column it was supplied for, so the model   *)
(* can tell when a value shows up under another column.                    *)
(***************************************************************************)
EXTENDS TableOps, FiniteSets

CONSTANTS Sessions,     \* connections
          Tables,       \* table names of the one database
          Statements,   \* the statements clients issue
          Existing,     \* the tables there when the model starts, one row in each
          FirstColumns, \* the names of their columns
          MaxStatements,\* bound: statements started in a behaviour
          MaxOverlap,   \* bound: of these, the first ones may overlap
          MaxFailures   \* bound: storage calls that fail

ASSUME SchemaChangeAssumption ==
    /\ MaxStatements \in Nat
    /\ MaxOverlap \in Nat
    /\ MaxFailures \in Nat
    /\ \A st \in Statements : st.tab \in Tables
    /\ Existing \subseteq Tables

VARIABLES
    database,  \* is the database in the catalog
    catalog,   \* catalog[t]: the table's entry
    files,     \* files[t]: the table's directory
    pc,        \* per session: its next step
    stmt,      \* per session: its statement
    snap,      \* per session: the columns of the clone get_table returned
    res,       \* what the last statement to end returned
    fresh,     \* the last column identity used
    marks,     \* history: what happened to the table that the handlers do not repair
    started,   \* statements started
    failures   \* storage calls that failed

vars == <<database, catalog, files, pc, stmt, snap, res, fresh, marks, started, failures>>

NoEntry == [live |-> FALSE, cols |-> <<>>]
Entry(cols) == [live |-> TRUE, cols |-> cols]
NoStatement == [kind |-> "none"]

\* The names of the fields of a schema built from catalog columns.
Names(cols) == [i \in 1 .. Len(cols) |-> cols[i].name]

\* table.columns.iter().position(|c| c.name == name): 0 for None.
Position(cols, name) ==
    IF \E i \in 1 .. Len(cols) : cols[i].name = name
    THEN CHOOSE i \in 1 .. Len(cols) :
            cols[i].name = name /\ \A j \in 1 .. i - 1 : cols[j].name # name
    ELSE 0

\* New columns get new identities.
NewColumns(names) == [i \in 1 .. Len(names) |-> [name |-> names[i], id |-> fresh + i]]

IsDdl(st) == st.kind \notin {"insert", "update", "delete", "none"}

\* The tables a statement works on.
Targets(st) ==
    CASE st.kind \in {"createdb", "dropdb"} -> Tables
      [] st.kind = "rename"  -> {st.tab, st.to}
      [] st.kind = "replace" -> {st.tab, st.old}
      [] st.kind = "none"    -> {}
      [] OTHER               -> {st.tab}

\* Nobody is in the middle of a statement on t.
Quiet(t) == \A s \in Sessions : pc[s] = "idle" \/ t \notin Targets(stmt[s])

\* A table after CREATE TABLE and INSERT.
FirstEntry == Entry([i \in 1 .. Len(FirstColumns) |-> [name |-> FirstColumns[i], id |-> i]])
FirstFile == File(FirstColumns, << [i \in 1 .. Len(FirstColumns) |-> i] >>)

Init ==
    /\ database = TRUE
    /\ catalog = [t \in Tables |-> IF t \in Existing THEN FirstEntry ELSE NoEntry]
    /\ files = [t \in Tables |-> IF t \in Existing THEN FirstFile ELSE NoDir]
    /\ pc = [s \in Sessions |-> "idle"]
    /\ stmt = [s \in Sessions |-> NoStatement]
    /\ snap = [s \in Sessions |-> <<>>]
    /\ res = "none"
    /\ fresh = Len(FirstColumns)
    /\ marks = [t \in Tables |-> {}]
    /\ started = 0
    /\ failures = 0

-----------------------------------------------------------------------------
(* Steps of a session *)

Mark(t, m) == [marks EXCEPT ![t] = @ \cup {m}]

\* The statement goes on, with a new clone or with the one it has.
Clone(s, cols, step) ==
    /\ pc' = [pc EXCEPT ![s] = step]
    /\ snap' = [snap EXCEPT ![s] = cols]
    /\ UNCHANGED <<stmt, res>>

Goto(s, step) == Clone(s, snap[s], step)

\* The statement ends; its locals are forgotten.
Return(s, r) ==
    /\ pc' = [pc EXCEPT ![s] = "idle"]
    /\ res' = r
    /\ stmt' = [stmt EXCEPT ![s] = NoStatement]
    /\ snap' = [snap EXCEPT ![s] = <<>>]

\* An object that is, or is not, there: IF [NOT] EXISTS makes it a success.
Refuse(s) == Return(s, IF stmt[s].quiet THEN "ok" ELSE "err")

At(s, kinds, step) == pc[s] = step /\ stmt[s].kind \in kinds

\* dispatch_parsed: the session starts a statement.  A statement that meets
\* another one on the same table, one of them DDL, leaves a mark.
Begin(s) == \E st \in Statements :
    /\ pc[s] = "idle"
    /\ started < MaxStatements
    /\ started < MaxOverlap \/ \A q \in Sessions : pc[q] = "idle"
    /\ started' = started + 1
    /\ stmt' = [stmt EXCEPT ![s] = st]
    /\ pc' = [pc EXCEPT ![s] = "start"]
    /\ res' = "none"
    /\ LET meets(t) == \E q \in Sessions \ {s} :
               /\ pc[q] # "idle"
               /\ t \in Targets(stmt[q]) \cap Targets(st)
               /\ IsDdl(st) \/ IsDdl(stmt[q])
       IN  marks' = [t \in Tables |-> IF meets(t) THEN marks[t] \cup {"overlap"} ELSE marks[t]]
    /\ UNCHANGED <<database, catalog, files, snap, fresh, failures>>

\* One call of ParquetStorage for table t: it applies, or has nothing to do, or
\* is rejected, or fails on I/O.  The handlers log what fails and go on.
StorageCall(t, o, repaired) ==
    \/ /\ ~ Rejected(o, files[t])
       /\ ~ NothingToDo(o, files[t])
       /\ files' = [files EXCEPT ![t] = After(o, files[t])]
       /\ marks' = IF repaired THEN [marks EXCEPT ![t] = @ \cap {"overlap"}] ELSE marks
       /\ UNCHANGED failures
    \/ /\ Rejected(o, files[t]) \/ NothingToDo(o, files[t])
       /\ UNCHANGED <<files, marks, failures>>
    \/ /\ failures < MaxFailures
       /\ failures' = failures + 1
       /\ marks' = Mark(t, "failed")
       /\ UNCHANGED files

-----------------------------------------------------------------------------
(* Databases *)

\* CatalogManager::create_database: the check, then (another call) the insert.
CheckDatabase(s) ==
    /\ At(s, {"createdb"}, "start")
    /\ IF database THEN Refuse(s) ELSE Goto(s, "insertdb")
    /\ UNCHANGED <<database, catalog, files, fresh, marks, started, failures>>

\* databases.insert replaces whatever is there by an empty database.
InsertDatabase(s) ==
    /\ At(s, {"createdb"}, "insertdb")
    /\ database' = TRUE
    /\ catalog' = [t \in Tables |-> NoEntry]
    /\ Return(s, "ok")
    /\ UNCHANGED <<files, fresh, marks, started, failures>>

\* Mutation: the database goes, its tables stay.
DropDatabaseOnly(s) ==
    /\ At(s, {"dropdb"}, "start")
    /\ IF database THEN Return(s, "ok") ELSE Refuse(s)
    /\ database' = FALSE
    /\ UNCHANGED <<catalog, files, fresh, marks, started, failures>>

\* drop_database: the catalog only; the directories stay.
DropDatabase(s) ==
    /\ At(s, {"dropdb"}, "start")
    /\ IF database THEN Return(s, "ok") ELSE Refuse(s)
    /\ database' = FALSE
    /\ catalog' = [t \in Tables |-> NoEntry]
    /\ UNCHANGED <<files, fresh, marks, started, failures>>

-----------------------------------------------------------------------------
(* CatalogManager's calls on one table *)

\* Mutation: no check for a table of the same name.
CatalogCreateUnchecked(t, cols) ==
    /\ database
    /\ catalog' = [catalog EXCEPT ![t] = Entry(cols)]

\* create_table: under the database's entry guard.
CatalogCreate(t, cols) ==
    /\ database
    /\ ~ catalog[t].live
    /\ catalog' = [catalog EXCEPT ![t] = Entry(cols)]

\* update_table: no check that the table is there.
CatalogUpdate(t, cols) ==
    /\ database
    /\ catalog' = [catalog EXCEPT ![t] = Entry(cols)]

\* drop_table.
CatalogDrop(t) ==
    /\ catalog[t].live
    /\ catalog' = [catalog EXCEPT ![t] = NoEntry]

-----------------------------------------------------------------------------
(* CREATE TABLE, DROP TABLE, materialized views *)

\* create_table up to catalog.save: IF NOT EXISTS turns every error into Ok.
CreateTable(s) ==
    LET t == stmt[s].tab
        cols == NewColumns(stmt[s].names)
    IN
    /\ At(s, {"create"}, "start")
    /\ \/ /\ stmt[s].names = <<>>
          /\ Return(s, "err")
          /\ UNCHANGED <<catalog, fresh>>
       \/ /\ stmt[s].names # <<>>
          /\ CatalogCreate(t, cols)
          /\ fresh' = fresh + Len(cols)
          /\ Goto(s, "store")
       \/ /\ stmt[s].names # <<>>
          /\ ~ database \/ catalog[t].live
          /\ Refuse(s)
          /\ UNCHANGED <<catalog, fresh>>
    /\ UNCHANGED <<database, files, marks, started, failures>>

\* ... and the empty file, whose failure is only logged.
CreateTableStorage(s) ==
    /\ At(s, {"create"}, "store")
    /\ StorageCall(stmt[s].tab, [kind |-> "create", cols |-> stmt[s].names], TRUE)
    /\ Return(s, "ok")
    /\ UNCHANGED <<database, catalog, fresh, started>>

DropTable(s) ==
    /\ At(s, {"drop"}, "start")
    /\ \/ CatalogDrop(stmt[s].tab) /\ Goto(s, "store")
       \/ /\ ~ catalog[stmt[s].tab].live
          /\ Refuse(s)
          /\ UNCHANGED catalog
    /\ UNCHANGED <<database, files, fresh, marks, started, failures>>

DropTableStorage(s) ==
    /\ At(s, {"drop"}, "store")
    /\ StorageCall(stmt[s].tab, [kind |-> "drop"], FALSE)
    /\ Return(s, "ok")
    /\ UNCHANGED <<database, catalog, fresh, started>>

\* create_materialized_view: a table entry, and no file for it.
CreateMaterializedView(s) ==
    LET t == stmt[s].tab
        cols == NewColumns(stmt[s].names)
    IN
    /\ At(s, {"mview"}, "start")
    /\ \/ /\ CatalogCreate(t, cols)
          /\ fresh' = fresh + Len(cols)
          /\ marks' = Mark(t, "unstored")
          /\ Return(s, "ok")
       \/ /\ ~ database \/ catalog[t].live
          /\ Refuse(s)
          /\ UNCHANGED <<catalog, fresh, marks>>
    /\ UNCHANGED <<database, files, started, failures>>

\* drop_materialized_view: drops any table from the catalog, and no file.
DropMaterializedView(s) ==
    /\ At(s, {"dropmview"}, "start")
    /\ \/ CatalogDrop(stmt[s].tab) /\ Return(s, "ok")
       \/ /\ ~ catalog[stmt[s].tab].live
          /\ Refuse(s)
          /\ UNCHANGED catalog
    /\ UNCHANGED <<database, files, fresh, marks, started, failures>>

-----------------------------------------------------------------------------
(* ALTER TABLE: a clone of the entry, changed and written back *)

Alterations == {"addcol", "addgen", "dropcol", "renamecol", "setprop", "modify", "rename"}

\* get_table, and what needs only the clone.  ADD COLUMN makes the new column
\* here; DROP and MODIFY COLUMN look the column up.
AlterTable(s) ==
    LET st == stmt[s]
        cols == catalog[st.tab].cols
        missing == st.kind \in {"dropcol", "modify"} /\ Position(cols, st.name) = 0
        adds == st.kind \in {"addcol", "addgen"}
    IN
    /\ At(s, Alterations, "start")
    /\ IF ~ catalog[st.tab].live \/ missing
       THEN Return(s, "err") /\ UNCHANGED fresh
       ELSE /\ fresh' = IF adds THEN fresh + 1 ELSE fresh
            /\ Clone(s, IF adds THEN cols \o NewColumns(<<st.name>>) ELSE cols,
                     CASE st.kind = "dropcol" -> "rewrite"
                       [] st.kind = "rename"  -> "dropold"
                       [] OTHER               -> "update")
    /\ UNCHANGED <<database, catalog, files, marks, started, failures>>

\* Mutation: the column is dropped by name from the clone, one place too far.
WrittenBackOffByOne(s) ==
    LET st == stmt[s]
        cols == snap[s]
        at == Position(cols, st.name)
    IN  CASE st.kind = "dropcol" /\ at # 0 -> RemoveAt(cols, (at % Len(cols)) + 1)
          [] OTHER -> cols

\* The columns ALTER TABLE writes back.  SET comment, property, partition and
\* rollup change the properties of the entry only.
WrittenBack(s) ==
    LET st == stmt[s]
        cols == snap[s]
    IN  CASE st.kind = "dropcol"   -> RemoveAt(cols, Position(cols, st.name))
          [] st.kind = "renamecol" ->
                [i \in 1 .. Len(cols) |->
                    IF cols[i].name = st.name THEN [cols[i] EXCEPT !.name = st.to] ELSE cols[i]]
          [] OTHER -> cols

\* update_table.  ADD and MODIFY COLUMN still have the file to rewrite; a
\* generated column never gets into it; RENAME COLUMN leaves the file's names.
AlterTableUpdate(s) ==
    LET st == stmt[s] IN
    /\ At(s, Alterations, "update")
    /\ IF database
       THEN /\ CatalogUpdate(st.tab, WrittenBack(s))
            /\ marks' = CASE st.kind = "addgen"    -> Mark(st.tab, "generated")
                          [] st.kind = "renamecol" -> Mark(st.tab, "renamed")
                          [] OTHER                 -> marks
            /\ IF st.kind \in {"addcol", "modify"}
               THEN /\ Goto(s, IF st.kind = "addcol" THEN "rewrite" ELSE "schema")
               ELSE Return(s, "ok")
       ELSE Return(s, "err") /\ UNCHANGED <<catalog, marks>>
    /\ UNCHANGED <<database, files, fresh, started, failures>>

\* rewrite_parquet_add_column: after the catalog; a failure is only logged.
AddColumnRewrite(s) ==
    /\ At(s, {"addcol"}, "rewrite")
    /\ StorageCall(stmt[s].tab, [kind |-> "addcol", col |-> stmt[s].name], FALSE)
    /\ Return(s, "ok")
    /\ UNCHANGED <<database, catalog, fresh, started>>

\* rewrite_parquet_drop_column: before the catalog, by the clone's index.
DropColumnRewrite(s) ==
    /\ At(s, {"dropcol"}, "rewrite")
    /\ StorageCall(stmt[s].tab,
                   [kind |-> "dropcol", index |-> Position(snap[s], stmt[s].name) - 1], FALSE)
    /\ Goto(s, "update")
    /\ UNCHANGED <<database, catalog, fresh, started>>

\* update_df_table_schema_inner: the entry is read again ...
ModifyColumnSchema(s) ==
    LET e == catalog[stmt[s].tab] IN
    /\ At(s, {"modify"}, "schema")
    /\ IF e.live
       THEN Clone(s, e.cols, "rewrite")
       ELSE Return(s, "ok")
    /\ UNCHANGED <<database, catalog, files, fresh, marks, started, failures>>

\* ... and the file is replaced by an empty one.
ModifyColumnTruncate(s) ==
    /\ At(s, {"modify"}, "rewrite")
    /\ StorageCall(stmt[s].tab, [kind |-> "truncate", cols |-> Names(snap[s])], TRUE)
    /\ Return(s, "ok")
    /\ UNCHANGED <<database, catalog, fresh, started>>

-----------------------------------------------------------------------------
(* ALTER TABLE .. RENAME and .. REPLACE WITH TABLE *)

\* RENAME: the old entry goes ...
RenameDropOld(s) ==
    /\ At(s, {"rename"}, "dropold")
    /\ \/ CatalogDrop(stmt[s].tab) /\ Goto(s, "addnew")
       \/ ~ catalog[stmt[s].tab].live /\ Return(s, "err") /\ UNCHANGED catalog
    /\ UNCHANGED <<database, files, fresh, marks, started, failures>>

\* ... the new one is written, over an entry of that name if there is one ...
RenameAddNew(s) ==
    /\ At(s, {"rename"}, "addnew")
    /\ IF database
       THEN CatalogUpdate(stmt[s].to, snap[s]) /\ Goto(s, "rename")
       ELSE Return(s, "err") /\ UNCHANGED catalog
    /\ UNCHANGED <<database, files, fresh, marks, started, failures>>

\* Mutation: the directory is left under its old name.
RenameNoDirectory(s) ==
    /\ At(s, {"rename"}, "rename")
    /\ Goto(s, "getold")
    /\ UNCHANGED <<database, catalog, files, fresh, marks, started, failures>>

\* ... the directory is renamed, without the table's lock.  rename(2) refuses a
\* target directory that is not empty: the statement fails with the catalog
\* changed, and the new name's entry describes a file that is not its own.
RenameDirectory(s) ==
    LET t == stmt[s].tab
        u == stmt[s].to
    IN
    /\ At(s, {"rename"}, "rename")
    /\ \/ /\ files[t] = NoDir
          /\ marks' = Mark(u, "unstored")
          /\ Goto(s, "getold")
          /\ UNCHANGED <<files, failures>>
       \/ /\ files[t] # NoDir
          /\ \/ t # u /\ files[u].kind = "file" /\ UNCHANGED failures
             \/ failures < MaxFailures /\ failures' = failures + 1
          /\ marks' = Mark(u, "mismatch")
          /\ Return(s, "err")
          /\ UNCHANGED files
       \/ /\ files[t] # NoDir /\ t # u /\ files[u].kind # "file"
          /\ files' = [files EXCEPT ![u] = files[t], ![t] = NoDir]
          /\ marks' = [marks EXCEPT ![u] = marks[t] \cup (marks[u] \cap {"overlap"}),
                                    ![t] = @ \cap {"overlap"}]
          /\ Goto(s, "getold")
          /\ UNCHANGED failures
       \/ /\ files[t] # NoDir /\ t = u
          /\ Goto(s, "getold")
          /\ UNCHANGED <<files, marks, failures>>
    /\ UNCHANGED <<database, catalog, fresh, started>>

\* get_table_schema(old): a table that has the old name by now is taken for the
\* one renamed.  RENAME to the same name always comes here.
RenameGetOld(s) ==
    LET e == catalog[stmt[s].tab] IN
    /\ At(s, {"rename"}, "getold")
    /\ IF e.live
       THEN Clone(s, e.cols, "recreate")
       ELSE Return(s, "ok")
    /\ UNCHANGED <<database, catalog, files, fresh, marks, started, failures>>

RenameRecreate(s) ==
    /\ At(s, {"rename"}, "recreate")
    /\ StorageCall(stmt[s].to, [kind |-> "create", cols |-> Names(snap[s])], FALSE)
    /\ Goto(s, "unlink")
    /\ UNCHANGED <<database, catalog, fresh, started>>

RenameUnlink(s) ==
    LET t == stmt[s].tab IN
    /\ At(s, {"rename"}, "unlink")
    /\ \/ files' = [files EXCEPT ![t] = NoDir] /\ UNCHANGED failures
       \/ failures < MaxFailures /\ failures' = failures + 1 /\ UNCHANGED files
    /\ marks' = Mark(t, "unlinked")
    /\ Return(s, "ok")
    /\ UNCHANGED <<database, catalog, fresh, started>>

\* REPLACE WITH TABLE old: the existence of both, and a clone of this one.
ReplaceTable(s) ==
    LET st == stmt[s] IN
    /\ At(s, {"replace"}, "start")
    /\ IF catalog[st.tab].live /\ catalog[st.old].live
       THEN Clone(s, catalog[st.tab].cols, "update")
       ELSE Return(s, "err")
    /\ UNCHANGED <<database, catalog, files, fresh, marks, started, failures>>

\* update_table under the old table's name.
ReplaceUpdate(s) ==
    /\ At(s, {"replace"}, "update")
    /\ IF database
       THEN /\ CatalogUpdate(stmt[s].old, snap[s])
            /\ marks' = Mark(stmt[s].old, "mismatch")
            /\ Goto(s, "finish")
       ELSE Return(s, "err") /\ UNCHANGED <<catalog, marks>>
    /\ UNCHANGED <<database, files, fresh, started, failures>>

\* swap: create_table under this table's name, which exists, unless somebody has
\* dropped it (the clone of old that is written is read a moment earlier: one
\* step here).  No swap: the old table's entry goes.
ReplaceFinish(s) ==
    LET st == stmt[s] IN
    /\ At(s, {"replace"}, "finish")
    /\ \/ /\ st.swap /\ catalog[st.old].live
          /\ \/ CatalogCreate(st.tab, catalog[st.old].cols) /\ Return(s, "ok")
             \/ catalog[st.tab].live /\ Return(s, "err") /\ UNCHANGED catalog
       \/ st.swap /\ ~ catalog[st.old].live /\ Return(s, "ok") /\ UNCHANGED catalog
       \/ ~ st.swap /\ CatalogDrop(st.old) /\ Return(s, "ok")
       \/ ~ st.swap /\ ~ catalog[st.old].live /\ Return(s, "err") /\ UNCHANGED catalog
    /\ UNCHANGED <<database, files, fresh, marks, started, failures>>

-----------------------------------------------------------------------------
(* TRUNCATE TABLE, indexes *)

\* truncate_table, create_index, drop_index, alter_colocate_group: get_table.
ReadEntry(s) ==
    LET st == stmt[s] IN
    /\ At(s, {"truncate", "index"}, "start")
    /\ IF catalog[st.tab].live
       THEN Clone(s, catalog[st.tab].cols, IF st.kind = "truncate" THEN "rewrite" ELSE "putback")
       ELSE Refuse(s)
    /\ UNCHANGED <<database, catalog, files, fresh, marks, started, failures>>

TruncateStorage(s) ==
    /\ At(s, {"truncate"}, "rewrite")
    /\ StorageCall(stmt[s].tab, [kind |-> "truncate", cols |-> Names(snap[s])], TRUE)
    /\ Goto(s, "reread")
    /\ UNCHANGED <<database, catalog, fresh, started>>

TruncateReread(s) ==
    LET e == catalog[stmt[s].tab] IN
    /\ At(s, {"truncate"}, "reread")
    /\ IF e.live
       THEN Clone(s, e.cols, "putback")
       ELSE Return(s, "ok")
    /\ UNCHANGED <<database, catalog, files, fresh, marks, started, failures>>

\* The clone is put back with create_table, which refuses a name that is taken.
PutBack(s) ==
    /\ At(s, {"truncate", "index"}, "putback")
    /\ \/ CatalogCreate(stmt[s].tab, snap[s]) /\ Return(s, "ok")
       \/ (~ database \/ catalog[stmt[s].tab].live) /\ Return(s, "err") /\ UNCHANGED catalog
    /\ UNCHANGED <<database, files, fresh, marks, started, failures>>

-----------------------------------------------------------------------------
(* INSERT, UPDATE, DELETE *)

\* insert: the schema of the batch comes from the catalog ...
InsertSchema(s) ==
    LET e == catalog[stmt[s].tab] IN
    /\ At(s, {"insert"}, "start")
    /\ IF e.live
       THEN Clone(s, e.cols, "write")
       ELSE Return(s, "err")
    /\ UNCHANGED <<database, catalog, files, fresh, marks, started, failures>>

\* The batch for a VALUES row: by position, or by name with NULL for the columns
\* that are not listed (a name the table does not have is ignored).
Batch(s) ==
    LET cols == snap[s]
        into == stmt[s].into
    IN  [kind |-> "insert",
         cols |-> Names(cols),
         rows |-> << [i \in 1 .. Len(cols) |->
                        IF into = {} \/ cols[i].name \in into THEN cols[i].id ELSE Null] >>]

\* ... and the batch is written to the file as it is by now.  Too few values by
\* position make arrays of unequal length: no batch.
InsertWrite(s) ==
    LET t == stmt[s].tab
        short == stmt[s].into = {} /\ stmt[s].values < Len(snap[s])
    IN
    /\ At(s, {"insert"}, "write")
    /\ \/ /\ ~ short /\ ~ Rejected(Batch(s), files[t])
          /\ files' = [files EXCEPT ![t] = After(Batch(s), files[t])]
          /\ Return(s, "ok")
          /\ UNCHANGED failures
       \/ (short \/ Rejected(Batch(s), files[t])) /\ Return(s, "err") /\ UNCHANGED <<files, failures>>
       \/ /\ failures < MaxFailures
          /\ failures' = failures + 1
          /\ Return(s, "err")
          /\ UNCHANGED files
    /\ UNCHANGED <<database, catalog, fresh, marks, started>>

\* update: the column is looked up by name in the file's own schema.  The value
\* is meant for the catalog's column of that name.
Update(s) ==
    LET t == stmt[s].tab
        c == files[t]
        at == IF c.kind = "file" THEN SelectInSeq(c.cols, LAMBDA n : n = stmt[s].name) ELSE 0
        meant == Position(catalog[t].cols, stmt[s].name)
        value == IF meant = 0 THEN Null ELSE catalog[t].cols[meant].id
    IN
    /\ At(s, {"update"}, "start")
    /\ IF c.kind # "file" \/ at = 0 \/ ExceedsDmlLimit(c)
       THEN Return(s, "err") /\ UNCHANGED <<files, marks>>
       ELSE /\ files' = [files EXCEPT ![t] =
                            File(c.cols, [r \in 1 .. Len(c.rows) |-> [c.rows[r] EXCEPT ![at] = value]])]
            /\ marks' = IF "renamed" \in marks[t] THEN Mark(t, "misnamed") ELSE marks
            /\ Return(s, "ok")
    /\ UNCHANGED <<database, catalog, fresh, started, failures>>

\* delete without WHERE: the file's schema, and no rows.
Delete(s) ==
    LET t == stmt[s].tab
        c == files[t]
    IN
    /\ At(s, {"delete"}, "start")
    /\ IF c.kind # "file" \/ ExceedsDmlLimit(c)
       THEN Return(s, "err") /\ UNCHANGED files
       ELSE files' = [files EXCEPT ![t] = EmptyBatch(c.cols)] /\ Return(s, "ok")
    /\ UNCHANGED <<database, catalog, fresh, marks, started, failures>>

-----------------------------------------------------------------------------
DatabaseStep(s) == CheckDatabase(s) \/ InsertDatabase(s) \/ DropDatabase(s)

TableStep(s) ==
    \/ CreateTable(s) \/ CreateTableStorage(s) \/ DropTable(s) \/ DropTableStorage(s)
    \/ CreateMaterializedView(s) \/ DropMaterializedView(s)
    \/ ReadEntry(s) \/ TruncateStorage(s) \/ TruncateReread(s) \/ PutBack(s)

AlterStep(s) ==
    \/ AlterTable(s) \/ AlterTableUpdate(s) \/ AddColumnRewrite(s) \/ DropColumnRewrite(s)
    \/ ModifyColumnSchema(s) \/ ModifyColumnTruncate(s)
    \/ RenameDropOld(s) \/ RenameAddNew(s) \/ RenameDirectory(s) \/ RenameGetOld(s)
    \/ RenameRecreate(s) \/ RenameUnlink(s)
    \/ ReplaceTable(s) \/ ReplaceUpdate(s) \/ ReplaceFinish(s)

DmlStep(s) == InsertSchema(s) \/ InsertWrite(s) \/ Update(s) \/ Delete(s)

Step(s) == DatabaseStep(s) \/ TableStep(s) \/ AlterStep(s) \/ DmlStep(s)

Next == \E s \in Sessions : Begin(s) \/ Step(s)

Spec == Init /\ [][Next]_vars

-----------------------------------------------------------------------------
(* Properties *)

CatalogColumns == [name : Columns, id : 1 .. fresh]

\* Types; a database that is not in the catalog has no tables; a file is a
\* record batch, never a torn one; a session that is idle holds no clone.
TypeOK ==
    /\ database \in BOOLEAN
    /\ \A t \in Tables :
          /\ catalog[t] = NoEntry \/ (database /\ catalog[t].live)
          /\ \A i \in 1 .. Len(catalog[t].cols) : catalog[t].cols[i] \in CatalogColumns
          /\ files[t] = NoDir \/ (files[t].kind = "file" /\ Rectangular(files[t]))
    /\ \A s \in Sessions : pc[s] = "idle" => snap[s] = <<>>
    /\ res \in {"none", "ok", "err"}

\* What the handlers can keep up: no DDL met another statement on the table, no
\* storage failure was only logged, and none of the statements that leave
\* catalog and file apart (a generated column, a view's entry, REPLACE, RENAME
\* over another table or to itself, an UPDATE by a name RENAME COLUMN moved).
Kept(t) == Quiet(t) /\ marks[t] \subseteq {"renamed"}

\* insert, rewrite_parquet_add_column and rewrite_parquet_drop_column work by
\* position, and the catalog and the file are changed by different calls in
\* different orders: after any sequence of statements a file that has rows still
\* has as many columns as the catalog says, and every stored value is under the
\* column it was supplied for.
ValuesUnderTheirColumns ==
    \A t \in Tables :
        Kept(t) /\ catalog[t].live /\ files[t].kind = "file" /\ files[t].rows # <<>>
        => /\ Len(files[t].cols) = Len(catalog[t].cols)
           /\ \A r \in 1 .. Len(files[t].rows), i \in 1 .. Len(catalog[t].cols) :
                 files[t].rows[r][i] \in {Null, catalog[t].cols[i].id}

\* A table the catalog shows has its file: INSERT never answers "table not
\* found" for a table that CREATE TABLE or RENAME announced.
VisibleTableIsStored ==
    \A t \in Tables : Kept(t) /\ catalog[t].live => files[t].kind = "file"

\* CatalogManager::create_table "prevents silent overwrite": nothing that goes
\* through it (CREATE TABLE, a materialized view, TRUNCATE's and CREATE INDEX's
\* write back, REPLACE's swap) replaces an entry, whoever else is running.
CreateNeverReplaces ==
    [][\A s \in Sessions :
          (CreateTable(s) \/ CreateMaterializedView(s) \/ PutBack(s))
          => \A t \in Tables : catalog[t].live => catalog'[t] = catalog[t]]_vars

\* The tests say of TRUNCATE TABLE on an existing table that it does not return
\* an error.
TruncateDoesNotError ==
    [][\A s \in Sessions :
          /\ stmt[s].kind = "truncate" /\ pc[s] # "start" /\ pc'[s] = "idle"
          /\ marks[stmt[s].tab] = {}
          => res' = "ok"]_vars

\* update_table's comment: it "replaces an existing table in the catalog (used
\* by ALTER TABLE)".  No ALTER of a table's columns or properties brings back a
\* table that was dropped meanwhile.
AlterReplacesExisting ==
    [][\A s \in Sessions : AlterTableUpdate(s)
          => \A t \in Tables : catalog'[t].live => catalog[t].live]_vars

=============================================================================
