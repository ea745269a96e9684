---------------------------- MODULE LindormStore ----------------------------
(***************************************************************************)
(* A table of the Lindorm shell server (lindorm-protocol/src/handler.rs    *)
(* over storage.rs): PUT of a cell under the row's lock, DELETE of a row,  *)
(* GET, SCAN and COUNT.  Tables are never dropped, so a handle stays good. *)
(*                                                                         *)
(* `cells' is auxiliary: the last value put into each cell since its row   *)
(* was last deleted.                                                       *)
(***************************************************************************)
EXTENDS Integers, Sequences, FiniteSets, SequencesExt

CONSTANTS Clients, Rows, Cells, Values    \* rows are numbers, in the order of their names

VARIABLES created, rows, run, cells

lindormVars == <<created, rows, run, cells>>

Idle == [op |-> "none"]
EmptyRow == [x \in {} |-> 0]

LindormInit ==
    /\ created = FALSE
    /\ rows = [r \in {} |-> EmptyRow]
    /\ run = [c \in Clients |-> Idle]
    /\ cells = [r \in Rows, x \in Cells |-> 0]

(* CREATE TABLE keeps a table that exists.                                 *)
CreateTable == created' = TRUE /\ UNCHANGED <<rows, run, cells>>

(* PUT and DELETE look the table up, then act on it.                       *)
GetTable(c, cmd) ==
    /\ run[c] = Idle /\ created
    /\ run' = [run EXCEPT ![c] = cmd]
    /\ UNCHANGED <<created, rows, cells>>

Put(c) ==
    /\ run[c].op = "put"
    /\ LET r == run[c].row
           old == IF r \in DOMAIN rows THEN rows[r] ELSE EmptyRow
           row == [x \in DOMAIN old \cup {run[c].cell} |-> IF x = run[c].cell THEN run[c].value ELSE old[x]]
       IN  rows' = [s \in DOMAIN rows \cup {r} |-> IF s = r THEN row ELSE rows[s]]
    /\ cells' = [cells EXCEPT ![run[c].row, run[c].cell] = run[c].value]
    /\ run' = [run EXCEPT ![c] = Idle]
    /\ UNCHANGED created

Delete(c) ==
    /\ run[c].op = "delete"
    /\ rows' = [s \in DOMAIN rows \ {run[c].row} |-> rows[s]]
    /\ cells' = [k \in Rows \X Cells |-> IF k[1] = run[c].row THEN 0 ELSE cells[k]]
    /\ run' = [run EXCEPT ![c] = Idle]
    /\ UNCHANGED created

LindormNext ==
    \/ CreateTable
    \/ \E c \in Clients :
         \/ \E r \in Rows :
              \/ \E x \in Cells, v \in Values :
                   GetTable(c, [op |-> "put", row |-> r, cell |-> x, value |-> v])
              \/ GetTable(c, [op |-> "delete", row |-> r])
         \/ Put(c) \/ Delete(c)

LindormSpec == LindormInit /\ [][LindormNext]_lindormVars

(* GET and SCAN: the rows from start up to, not including, end, sorted.    *)
GetCell(r, x) == IF r \in DOMAIN rows /\ x \in DOMAIN rows[r] THEN rows[r][x] ELSE 0
Scan(start, end) == SetToSortSeq({r \in DOMAIN rows : r >= start /\ r < end}, <)
Count == Cardinality(DOMAIN rows)

(***************************************************************************)
(* No cell is lost to a concurrent PUT of another cell of the same row:    *)
(* GET finds the last value put since the row was deleted, and a scan over *)
(* all rows finds, in order and once, the rows with a cell.                *)
(***************************************************************************)
CellsKept ==
    /\ \A r \in Rows, x \in Cells : GetCell(r, x) = cells[r, x]
    /\ LET all == Scan(0, 10) IN
       /\ Len(all) = Count
       /\ {all[i] : i \in DOMAIN all} = {r \in Rows : \E x \in Cells : cells[r, x] # 0}
       /\ \A i \in 1..(Len(all) - 1) : all[i] < all[i + 1]

=============================================================================
