--------------------------- MODULE TablestoreStore ---------------------------
(***************************************************************************)
(* A table of the TableStore server under concurrent HTTP requests         *)
(* (tablestore-protocol/src/handler.rs over storage.rs).  Rows are keyed   *)
(* by a text built from the primary key, and ranges compare those texts.   *)
(* Updating a row reads it, merges the attributes and puts the row back.   *)
(*                                                                         *)
(* `ref' and `mixed' are auxiliary: the rows when each request runs in one *)
(* step, and the rows written inside another request's window.             *)
(***************************************************************************)
EXTENDS Integers, Sequences, FiniteSets

CONSTANTS Clients,
          KeyOrder,    \* the primary keys in the order of their texts
          Attributes, MaxHandles,
          Requests     \* what clients send: <<operation, key, attributes>>

VARIABLES table, rows, handles, run, ref, mixed

tablestoreVars == <<table, rows, handles, run, ref, mixed>>

Keys == {KeyOrder[i] : i \in DOMAIN KeyOrder}
NoRow == [a \in Attributes |-> -1]     \* 0: the row lacks the attribute
Empty == [k \in Keys |-> NoRow]
Idle == [at |-> "idle", h |-> 0, key |-> KeyOrder[1], attrs |-> NoRow, read |-> NoRow]

TablestoreInit ==
    /\ table = 0 /\ handles = 0
    /\ rows = [h \in 0..MaxHandles |-> Empty]
    /\ run = [c \in Clients |-> Idle]
    /\ ref = Empty /\ mixed = {}

(* PUT /tables/{name}: an existing table stays, with its old schema.       *)
CreateTable ==
    /\ table = 0 /\ handles < MaxHandles
    /\ handles' = handles + 1 /\ table' = handles'
    /\ UNCHANGED <<rows, run, ref, mixed>>

DeleteTable ==
    /\ table # 0
    /\ table' = 0 /\ ref' = Empty /\ mixed' = {}
    /\ UNCHANGED <<rows, handles, run>>

(* Every row request looks the table up first; without one it is a 404.    *)
Request(c, at, k, attrs) ==
    /\ run[c].at = "idle" /\ table # 0
    /\ run' = [run EXCEPT ![c] = [at |-> at, h |-> table, key |-> k, attrs |-> attrs, read |-> NoRow]]
    /\ UNCHANGED <<table, rows, handles, ref, mixed>>

InWindow(c, h, k) ==
    \E d \in Clients \ {c} : run[d].at = "merge" /\ run[d].h = h /\ run[d].key = k

Finish(c, row, refRow) ==
    LET h == run[c].h
        k == run[c].key
    IN  /\ rows' = [rows EXCEPT ![h][k] = row]
        /\ mixed' = mixed \cup {x \in {k} : h = table /\ InWindow(c, h, k)}
        /\ ref' = [ref EXCEPT ![k] = IF k \in mixed' THEN NoRow ELSE IF h = table THEN refRow ELSE @]
        /\ run' = [run EXCEPT ![c] = Idle]
        /\ UNCHANGED <<table, handles>>

PutRow(c) == run[c].at = "put" /\ Finish(c, run[c].attrs, run[c].attrs)
DeleteRow(c) == run[c].at = "delete" /\ Finish(c, NoRow, NoRow)

(* POST /tables/{name}/rows/{id}: the key is the one in the body.  A row   *)
(* that is not there is a 404.                                             *)
UpdateRead(c) ==
    /\ run[c].at = "update"
    /\ LET row == rows[run[c].h][run[c].key] IN
       run' = [run EXCEPT ![c] = IF row = NoRow THEN Idle ELSE [@ EXCEPT !.at = "merge", !.read = row]]
    /\ UNCHANGED <<table, rows, handles, ref, mixed>>

Merged(row, attrs) ==
    IF row = NoRow THEN NoRow ELSE [a \in Attributes |-> IF attrs[a] # 0 THEN attrs[a] ELSE row[a]]
UpdateWrite(c) ==
    /\ run[c].at = "merge"
    /\ Finish(c, Merged(run[c].read, run[c].attrs), Merged(ref[run[c].key], run[c].attrs))

TablestoreNext ==
    \/ CreateTable \/ DeleteTable
    \/ \E c \in Clients :
         \/ \E r \in Requests : Request(c, r[1], r[2], r[3])
         \/ PutRow(c) \/ DeleteRow(c) \/ UpdateRead(c) \/ UpdateWrite(c)

TablestoreSpec == TablestoreInit /\ [][TablestoreNext]_tablestoreVars

(* Table::get_row and Table::get_range: from `start' up to, not including, *)
(* `end', in the order of the key texts, at most `limit' rows, and which   *)
(* of them is up to the map.                                               *)
GetRow(k) == IF table = 0 THEN NoRow ELSE rows[table][k]
InRange(start, end) ==
    {KeyOrder[i] : i \in {j \in start..(end - 1) : GetRow(KeyOrder[j]) # NoRow}}
GetRange(start, end, limit) ==
    {S \in SUBSET InRange(start, end) :
        Cardinality(S) = IF Cardinality(InRange(start, end)) < limit
                         THEN Cardinality(InRange(start, end)) ELSE limit}

TablestoreTypeOK ==
    /\ table \in 0..handles /\ mixed \subseteq Keys
    /\ \A c \in Clients : run[c].at \in {"idle", "put", "delete", "update", "merge"}

(***************************************************************************)
(* What GET of a row finds is what the same requests leave when each runs  *)
(* in one step, except for rows on which another request fell between the  *)
(* read and the write of an update; a full range returns exactly those     *)
(* rows, and splitting it at a key loses and repeats none.                 *)
(***************************************************************************)
RowsSerial ==
    LET settled(k) == k \notin mixed /\ ~\E c \in Clients : InWindow(c, table, k)
        n == Len(KeyOrder)
    IN  /\ \A k \in Keys : settled(k) => GetRow(k) = ref[k]
        /\ (\A k \in Keys : settled(k)) =>
              GetRange(1, n + 1, n) = {{k \in Keys : ref[k] # NoRow}}
        /\ \A j \in 1..(n + 1) :
              /\ InRange(1, j) \cup InRange(j, n + 1) = InRange(1, n + 1)
              /\ InRange(1, j) \cap InRange(j, n + 1) = {}

=============================================================================
