------------------------------ MODULE AdbStore ------------------------------
(***************************************************************************)
(* AnalyticDB for MySQL (adb-mysql-protocol/src/handler.rs over            *)
(* storage.rs): connections with a current database, and one table name    *)
(* per database.  Rows have ids from a counter.  UPDATE and DELETE take a  *)
(* snapshot of the rows, evaluate WHERE on the snapshot and then change    *)
(* row after row, UPDATE even column after column, by id.  A query may     *)
(* hold several statements; USE anywhere in it takes effect before its     *)
(* first statement.                                                        *)
(*                                                                         *)
(* `expect' and `foreign' of a running statement are auxiliary: the rows   *)
(* it should leave, and the rows of its snapshot others changed meanwhile. *)
(***************************************************************************)
EXTENDS Integers, Sequences, FiniteSets, SequencesExt

CONSTANTS Clients, Names, MaxHandles, MaxRows,
          Queries      \* sequences of statements

VARIABLES current,     \* connection -> its database, NoName: not connected
          database,    \* name -> handle, 0: none
          table,       \* database handle -> table handle, 0: none
          rows,        \* table handle -> id -> row <<a, b>>, NoRow: absent
          nextRowId, handles, run

adbVars == <<current, database, table, rows, nextRowId, handles, run>>

NoName == "none"
NoRow == <<0, 0>>
Ids == 1..MaxRows
NoRows == [i \in Ids |-> NoRow]
Idle == [at |-> "idle", db |-> "none", stmts |-> << >>, dbh |-> 0, th |-> 0, id |-> 0,
         cells |-> << >>, expect |-> NoRows, foreign |-> {}]

AdbInit ==
    /\ current = [c \in Clients |-> NoName]
    /\ database = [n \in Names |-> IF n = "default" THEN 1 ELSE 0] /\ handles = 1
    /\ table = [h \in 0..MaxHandles |-> 0]
    /\ rows = [h \in 0..MaxHandles |-> NoRows]
    /\ nextRowId = [h \in 0..MaxHandles |-> 1]
    /\ run = [c \in Clients |-> Idle]

(* storage.create_database keeps a database that is there.                 *)
EnsureDatabases(S) ==
    LET new == {n \in S : database[n] = 0} IN
    /\ Cardinality(new) <= 1 /\ handles + Cardinality(new) <= MaxHandles
    /\ handles' = handles + Cardinality(new)
    /\ database' = [n \in Names |-> IF n \in new THEN handles' ELSE database[n]]

OnConnect(c) ==
    /\ current[c] = NoName /\ run[c].at = "idle"
    /\ current' = [current EXCEPT ![c] = "default"]
    /\ UNCHANGED <<database, table, rows, nextRowId, handles, run>>

OnDisconnect(c) ==
    /\ current[c] # NoName /\ run[c].at = "idle"
    /\ current' = [current EXCEPT ![c] = NoName]
    /\ UNCHANGED <<database, table, rows, nextRowId, handles, run>>

(* handle_query: the USE statements first, all of them, then the rest in   *)
(* the database that is current after them.                                *)
Query(c, q) ==
    LET uses == SelectSeq(q, LAMBDA s : s.op = "use") IN
    /\ current[c] # NoName /\ run[c].at = "idle"
    /\ EnsureDatabases({s.name : s \in ToSet(uses)})
    /\ current' = [current EXCEPT ![c] = IF uses = << >> THEN @ ELSE Last(uses).name]
    /\ run' = [run EXCEPT ![c] = [Idle EXCEPT !.at = "statement", !.stmts = q, !.db = current'[c]]]
    /\ UNCHANGED <<table, rows, nextRowId>>

Stmt(c) == Head(run[c].stmts)
Continue(c) == IF Len(run[c].stmts) = 1 THEN Idle
            ELSE [Idle EXCEPT !.at = "statement", !.stmts = Tail(run[c].stmts), !.db = run[c].db]
Goto(c, r) == run' = [run EXCEPT ![c] = r]
At(c, at) == run[c].at = at

(* CREATE TABLE, INSERT, USE and CREATE DATABASE create the database when  *)
(* it is missing; everything then looks it up.                             *)
OpenDatabase(c) ==
    LET s == Stmt(c)
        creates == IF s.op \in {"use", "createDatabase"} THEN {s.name}
                   ELSE IF s.op \in {"createTable", "insert"} THEN {run[c].db} ELSE {}
    IN  /\ At(c, "statement") /\ s.op # "dropDatabase"
        /\ EnsureDatabases(creates)
        /\ Goto(c, IF s.op \in {"use", "createDatabase"} \/ database'[run[c].db] = 0 THEN Continue(c)
                   ELSE [run[c] EXCEPT !.at = "table", !.dbh = database'[run[c].db]])
        /\ UNCHANGED <<current, table, rows, nextRowId>>

DropDatabase(c) ==
    /\ At(c, "statement") /\ Stmt(c).op = "dropDatabase"
    /\ database' = [database EXCEPT ![Stmt(c).name] = 0]
    /\ Goto(c, Continue(c))
    /\ UNCHANGED <<current, table, rows, nextRowId, handles>>

CreateTable(c) ==
    /\ At(c, "table") /\ Stmt(c).op = "createTable"
    /\ IF table[run[c].dbh] # 0 THEN UNCHANGED <<table, handles>>
       ELSE /\ handles < MaxHandles /\ handles' = handles + 1
            /\ table' = [table EXCEPT ![run[c].dbh] = handles']
    /\ Goto(c, Continue(c))
    /\ UNCHANGED <<current, database, rows, nextRowId>>

DropTable(c) ==
    /\ At(c, "table") /\ Stmt(c).op = "dropTable"
    /\ table' = [table EXCEPT ![run[c].dbh] = 0]
    /\ Goto(c, Continue(c))
    /\ UNCHANGED <<current, database, rows, nextRowId, handles>>

(* get_table; a missing table ends the statement without an error.         *)
OpenTable(c) ==
    /\ At(c, "table") /\ Stmt(c).op \in {"insert", "update", "delete", "truncate"}
    /\ Goto(c, IF table[run[c].dbh] = 0 THEN Continue(c)
               ELSE [run[c] EXCEPT !.at = Stmt(c).op, !.th = table[run[c].dbh]])
    /\ UNCHANGED <<current, database, table, rows, nextRowId, handles>>

-----------------------------------------------------------------------------
Told(d, h, i) == run[d].at \in {"cells", "rows"} /\ run[d].th = h
(* A change of row i of table h by c, which goes on as r.  Statements that *)
(* are under way expect a new row to stay, and give up on a changed one.   *)
Change(c, h, i, row, new, r) ==
    /\ rows' = [rows EXCEPT ![h][i] = row]
    /\ run' = [d \in Clients |->
                 IF d = c THEN r
                 ELSE IF ~Told(d, h, i) THEN run[d]
                 ELSE IF new THEN [run[d] EXCEPT !.expect[i] = row, !.foreign = @ \ {i}]
                 ELSE [run[d] EXCEPT !.foreign = @ \cup {i}]]

(* AdbMysqlTable::insert: an id from the counter, then the row.            *)
NewRowId(h) == nextRowId[h]
TakeRowId(c) ==
    /\ At(c, "insert") /\ NewRowId(run[c].th) <= MaxRows
    /\ nextRowId' = [nextRowId EXCEPT ![run[c].th] = @ + 1]
    /\ Goto(c, [run[c] EXCEPT !.at = "store", !.id = NewRowId(run[c].th)])
    /\ UNCHANGED <<current, database, table, rows, handles>>

StoreRow(c) ==
    /\ At(c, "store")
    /\ Change(c, run[c].th, run[c].id, Stmt(c).row, TRUE, Continue(c))
    /\ UNCHANGED <<current, database, table, nextRowId, handles>>

Truncate(c) ==
    /\ At(c, "truncate")
    /\ rows' = [rows EXCEPT ![run[c].th] = NoRows]
    /\ run' = [d \in Clients |-> IF d = c THEN Continue(c)
                                 ELSE IF Told(d, run[c].th, 0) THEN [run[d] EXCEPT !.foreign = Ids] ELSE run[d]]
    /\ UNCHANGED <<current, database, table, nextRowId, handles>>

(* eval_where with `a = value', or no WHERE at all.                        *)
Matches(s, row) == row # NoRow /\ (s.where = 0 \/ row[1] = s.where)

(* execute_update: the cells to write, in the order of row id and of the   *)
(* assignments.                                                            *)
CellsOf(s, ids) ==
    FlattenSeq([k \in DOMAIN ids |-> [j \in DOMAIN s.set |-> <<ids[k], s.set[j][1], s.set[j][2]>>]])
Set(row, x, v) == [row EXCEPT ![x] = v]
Updated(s, row) == FoldLeft(LAMBDA r, a : Set(r, a[1], a[2]), row, s.set)

(* select_all_ordered and WHERE.                                           *)
Snapshot(c) ==
    LET s == Stmt(c)
        seen == rows[run[c].th]
        ids == SelectSeq([i \in Ids |-> i], LAMBDA i : Matches(s, seen[i]))
    IN  /\ At(c, "update") \/ At(c, "delete")
        /\ Goto(c, [run[c] EXCEPT
              !.at = IF s.op = "update" THEN "cells" ELSE "rows",
              !.cells = IF s.op = "update" THEN CellsOf(s, ids) ELSE [k \in DOMAIN ids |-> <<ids[k], 0, 0>>],
              !.expect = [i \in Ids |-> IF ~Matches(s, seen[i]) THEN seen[i]
                                        ELSE IF s.op = "update" THEN Updated(s, seen[i]) ELSE NoRow]])
        /\ UNCHANGED <<current, database, table, rows, nextRowId, handles>>

(* update_row of a row that is gone does nothing; delete_row removes.      *)
ChangeRow(c) ==
    LET r == run[c]
        cell == Head(r.cells)
        row == rows[r.th][cell[1]]
    IN  /\ r.at \in {"cells", "rows"} /\ r.cells # << >>
        /\ Change(c, r.th, cell[1],
                  IF row = NoRow \/ r.at = "rows" THEN NoRow ELSE Set(row, cell[2], cell[3]),
                  FALSE, [r EXCEPT !.cells = Tail(@)])
        /\ UNCHANGED <<current, database, table, nextRowId, handles>>

Answer(c) ==
    /\ run[c].at \in {"cells", "rows"} /\ run[c].cells = << >>
    /\ Goto(c, Continue(c))
    /\ UNCHANGED <<current, database, table, rows, nextRowId, handles>>

AdbNext ==
    \E c \in Clients :
       \/ OnConnect(c) \/ OnDisconnect(c) \/ \E q \in Queries : Query(c, q)
       \/ OpenDatabase(c) \/ DropDatabase(c) \/ CreateTable(c) \/ DropTable(c) \/ OpenTable(c)
       \/ TakeRowId(c) \/ StoreRow(c) \/ Truncate(c) \/ Snapshot(c) \/ ChangeRow(c) \/ Answer(c)

AdbSpec == AdbInit /\ [][AdbNext]_adbVars

AdbTypeOK ==
    /\ current \in [Clients -> Names \cup {NoName}] /\ database \in [Names -> 0..handles]
    /\ table \in [0..MaxHandles -> 0..handles] /\ nextRowId \in [0..MaxHandles -> 1..(MaxRows + 1)]
    /\ \A c \in Clients : run[c].foreign \subseteq Ids

(***************************************************************************)
(* When UPDATE or DELETE answers, every row that no other statement        *)
(* changed since its snapshot is what the statement promises: changed if   *)
(* it matched, as it was if it did not, and a row inserted in the meantime *)
(* is still there as inserted.                                             *)
(***************************************************************************)
ExactOnOwnRows ==
    \A c \in Clients :
        (run[c].at \in {"cells", "rows"} /\ run[c].cells = << >>) =>
            \A i \in Ids \ run[c].foreign : rows[run[c].th][i] = run[c].expect[i]

=============================================================================
