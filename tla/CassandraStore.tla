--------------------------- MODULE CassandraStore ---------------------------
(***************************************************************************)
(* Connections of the Cassandra server: the session keyspace, keyspaces    *)
(* and tables reached through handles, and rows (cassandra-protocol/src/   *)
(* handler.rs over storage.rs, server.rs).  UPDATE reads the row, changes  *)
(* a column and writes the row back; INSERT replaces the row.              *)
(*                                                                         *)
(* `ref' and `mixed' are auxiliary, as in the other stores.                *)
(***************************************************************************)
EXTENDS Integers, Sequences, FiniteSets

CONSTANTS Clients, Keys, MaxHandles,
          Statements   \* the CQL texts clients send, as records

VARIABLES keyspaces,   \* name -> handle, 0: none
          tables,      \* keyspace handle -> table name -> handle, 0: none
          rows,        \* table handle -> key -> row
          handles,
          sessions,    \* client -> its current keyspace
          run,         \* client -> the statement it is in
          ref, mixed   \* (keyspace "ks", table "t") only

cassandraVars == <<keyspaces, tables, rows, handles, sessions, run, ref, mixed>>

KeyspaceNames == {"system", "ks", "EXISTS"}
TableNames == {"t", "EXISTS"}
(* The columns of a row.  The text of the column list starts one character *)
(* into the table name, so the first column is stored under a name of its  *)
(* own, `head'; 0: the column is absent.                                   *)
Columns == {"head", "v"}
NoRow == [x \in Columns |-> -1]
EmptyTable == [k \in Keys |-> NoRow]
Quiet == [op |-> "none", at |-> "idle", h |-> 0, read |-> NoRow]

CassandraInit ==
    /\ keyspaces = [n \in KeyspaceNames |-> IF n = "system" THEN 1 ELSE 0]
    /\ tables = [h \in 0..MaxHandles |-> [t \in TableNames |-> 0]]
    /\ rows = [h \in 0..MaxHandles |-> EmptyTable]
    /\ handles = 1
    /\ sessions = [c \in Clients |-> "system"]
    /\ run = [c \in Clients |-> Quiet]
    /\ ref = EmptyTable /\ mixed = {}

(* The word a statement takes as its name: with IF NOT EXISTS the handler  *)
(* takes the fifth word, which is EXISTS; with IF EXISTS that is the name. *)
NameIn(s) == IF s.op \in {"createKeyspace", "createTable"} /\ s.guarded THEN "EXISTS" ELSE s.name

(* parse_table_name: the session's keyspace unless the name has its own.   *)
KeyspaceOf(c, s) == IF s.ks # "" THEN s.ks ELSE sessions[c]

Ready(c) == run[c] = Quiet

(* USE takes any word.                                                     *)
Use(c, s) ==
    /\ Ready(c) /\ s.op = "use"
    /\ sessions' = [sessions EXCEPT ![c] = s.name]
    /\ UNCHANGED <<keyspaces, tables, rows, handles, run, ref, mixed>>

Fresh(n) == handles < MaxHandles /\ handles' = handles + n

CreateKeyspace(c, s) ==
    /\ Ready(c) /\ s.op = "createKeyspace"
    /\ IF keyspaces[NameIn(s)] # 0 THEN UNCHANGED <<keyspaces, handles>>
       ELSE Fresh(1) /\ keyspaces' = [keyspaces EXCEPT ![NameIn(s)] = handles']
    /\ UNCHANGED <<tables, rows, sessions, run, ref, mixed>>

(* Refused when the keyspace is not there.                                 *)
CreateTable(c, s) ==
    /\ Ready(c) /\ s.op = "createTable"
    /\ LET g == keyspaces[KeyspaceOf(c, s)] IN
       IF g = 0 \/ tables[g][NameIn(s)] # 0 THEN UNCHANGED <<tables, handles>>
       ELSE Fresh(1) /\ tables' = [tables EXCEPT ![g][NameIn(s)] = handles']
    /\ UNCHANGED <<keyspaces, rows, sessions, run, ref, mixed>>

ForgetRows == ref' = EmptyTable /\ mixed' = {}

DropTable(c, s) ==
    /\ Ready(c) /\ s.op = "dropTable"
    /\ LET g == keyspaces[KeyspaceOf(c, s)] IN
       tables' = IF g = 0 THEN tables ELSE [tables EXCEPT ![g][NameIn(s)] = 0]
    /\ IF KeyspaceOf(c, s) = "ks" THEN ForgetRows ELSE UNCHANGED <<ref, mixed>>
    /\ UNCHANGED <<keyspaces, rows, handles, sessions, run>>

DropKeyspace(c, s) ==
    /\ Ready(c) /\ s.op = "dropKeyspace"
    /\ keyspaces' = [keyspaces EXCEPT ![NameIn(s)] = 0]
    /\ IF NameIn(s) = "ks" THEN ForgetRows ELSE UNCHANGED <<ref, mixed>>
    /\ UNCHANGED <<tables, rows, handles, sessions, run>>

TableHandle(c, s) == LET g == keyspaces[KeyspaceOf(c, s)] IN IF g = 0 THEN 0 ELSE tables[g][s.name]
Reachable == IF keyspaces["ks"] = 0 THEN 0 ELSE tables[keyspaces["ks"]]["t"]

(* INSERT, UPDATE and DELETE: the handles first; without a table the       *)
(* statement does nothing.  (The answers of the three carry stream 0,      *)
(* those of the other statements the stream of the request.)               *)
Begin(c, s) ==
    /\ Ready(c) /\ s.op \in {"insert", "update", "delete"}
    /\ LET h == TableHandle(c, s) IN
       run' = IF h = 0 THEN run
              ELSE [run EXCEPT ![c] = [op |-> s.op, at |-> "row", h |-> h, read |-> NoRow,
                                       key |-> s.key, value |-> s.value]]
    /\ UNCHANGED <<keyspaces, tables, rows, handles, sessions, ref, mixed>>

InWindow(c, h, k) ==
    \E d \in Clients \ {c} : run[d].at = "write" /\ run[d].h = h /\ run[d].key = k

PutRow(c, row, refRow) ==
    LET h == run[c].h
        k == run[c].key
    IN  /\ rows' = [rows EXCEPT ![h][k] = row]
        /\ mixed' = mixed \cup {x \in {k} : h = Reachable /\ InWindow(c, h, k)}
        /\ ref' = [ref EXCEPT ![k] = IF k \in mixed' THEN NoRow
                                     ELSE IF h = Reachable THEN refRow ELSE @]
        /\ run' = [run EXCEPT ![c] = Quiet]
        /\ UNCHANGED <<keyspaces, tables, handles, sessions>>

InsertedRow(key, value) == [head |-> key, v |-> value]

InsertKeeps(c) ==                              \* mutation: a row that is there stays
    /\ run[c].at = "row" /\ run[c].op = "insert"
    /\ LET row == InsertedRow(1, run[c].value)
           old == rows[run[c].h][run[c].key]
       IN  PutRow(c, IF old = NoRow THEN row ELSE old, row)
Insert(c) ==
    /\ run[c].at = "row" /\ run[c].op = "insert"
    /\ LET row == InsertedRow(1, run[c].value) IN PutRow(c, row, row)

Delete(c) ==
    /\ run[c].at = "row" /\ run[c].op = "delete"
    /\ PutRow(c, NoRow, NoRow)

(* UPDATE of a row that is not there changes nothing.                      *)
UpdateRead(c) ==
    /\ run[c].at = "row" /\ run[c].op = "update"
    /\ LET row == rows[run[c].h][run[c].key] IN
       run' = [run EXCEPT ![c] = IF row = NoRow THEN Quiet ELSE [@ EXCEPT !.at = "write", !.read = row]]
    /\ UNCHANGED <<keyspaces, tables, rows, handles, sessions, ref, mixed>>

Updated(row, value) == IF row = NoRow THEN NoRow ELSE [row EXCEPT !["v"] = value]

UpdateWrite(c) ==
    /\ run[c].at = "write"
    /\ PutRow(c, Updated(run[c].read, run[c].value), Updated(ref[run[c].key], run[c].value))

(* handle_select: every row of the table, whatever the WHERE clause; no    *)
(* table, no rows.  COUNT counts the same rows.                            *)
SelectRows(ks, t) ==
    LET g == keyspaces[ks] IN
    IF g = 0 THEN EmptyTable ELSE IF tables[g][t] = 0 THEN EmptyTable ELSE rows[tables[g][t]]
SelectCount(ks, t) == Cardinality({k \in Keys : SelectRows(ks, t)[k] # NoRow})

CassandraNext ==
    \E c \in Clients :
       \/ \E s \in Statements :
            \/ Use(c, s) \/ CreateKeyspace(c, s) \/ CreateTable(c, s)
            \/ DropTable(c, s) \/ DropKeyspace(c, s) \/ Begin(c, s)
       \/ Insert(c) \/ Delete(c) \/ UpdateRead(c) \/ UpdateWrite(c)

CassandraSpec == CassandraInit /\ [][CassandraNext]_cassandraVars

CassandraTypeOK ==
    /\ handles \in 1..MaxHandles
    /\ \A n \in KeyspaceNames : keyspaces[n] \in 0..handles
    /\ sessions \in [Clients -> KeyspaceNames]
    /\ mixed \subseteq Keys

(***************************************************************************)
(* What SELECT and COUNT find under the table's name is what the same      *)
(* statements leave when each runs in one step, except for rows on which a *)
(* statement of another connection fell between the read and the write of  *)
(* an UPDATE.                                                              *)
(***************************************************************************)
RowsSerial ==
    LET settled(k) == k \notin mixed /\ \A c \in Clients : ~InWindow(c, Reachable, k) IN
    /\ \A k \in Keys : settled(k) => SelectRows("ks", "t")[k] = ref[k]
    /\ (\A k \in Keys : settled(k)) => SelectCount("ks", "t") = Cardinality({k \in Keys : ref[k] # NoRow})

=============================================================================
