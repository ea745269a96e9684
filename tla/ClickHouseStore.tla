--------------------------- MODULE ClickHouseStore ---------------------------
(***************************************************************************)
(* One table name of one database of the ClickHouse server                 *)
(* (clickhouse-protocol/src/handler.rs over storage.rs).  A table is       *)
(* stored by columns: column_order, and for every column name a vector of  *)
(* values.  A request holds the database it looked up, finds the table by  *)
(* name under the map's lock for every single change, and CREATE TABLE     *)
(* tests, creates and adds its columns in three such steps.                *)
(*                                                                         *)
(* `rowsOf' and `raced' are auxiliary: the table as a list of rows, and    *)
(* whether two CREATE TABLEs overlapped in this database.                  *)
(***************************************************************************)
EXTENDS Integers, Sequences, FiniteSets, SequencesExt

CONSTANTS Clients, Columns, MaxHandles, MaxRows,
          Statements   \* CREATE TABLE, INSERT, ALTER and DROP statements

VARIABLES database,    \* handle under the database's name, 0: none
          table,       \* handle -> the table under the table's name
          handles, run, rowsOf, raced

clickHouseVars == <<database, table, handles, run, rowsOf, raced>>

Pad == 0               \* the empty text of a value that was not given
NoTable == [there |-> FALSE, order |-> << >>, columns |-> [x \in {} |-> << >>]]
NewTable == [NoTable EXCEPT !.there = TRUE]
Idle == [at |-> "idle", h |-> 0, defs |-> << >>, tuples |-> << >>]

ClickHouseInit ==
    /\ database = 0 /\ handles = 0
    /\ table = [h \in 0..MaxHandles |-> NoTable]
    /\ run = [c \in Clients |-> Idle]
    /\ rowsOf = [h \in 0..MaxHandles |-> << >>]
    /\ raced = [h \in 0..MaxHandles |-> FALSE]

-----------------------------------------------------------------------------
(* Table::create_column: an existing column loses its values and its name  *)
(* is listed once more.                                                    *)
CreateColumn(t, x) ==
    [t EXCEPT !.order = Append(@, x),
              !.columns = [y \in DOMAIN @ \cup {x} |-> IF y = x THEN << >> ELSE @[y]]]

(* Table::insert_row, one push per entry of column_order; more values than *)
(* columns is an error.                                                    *)
Fits(t, values) == Len(values) <= Len(t.order)
Value(values, i) == IF i <= Len(values) THEN values[i] ELSE Pad
InsertGiven(t, values) ==                      \* mutation: missing values are not padded
    LET push(columns, i) == [columns EXCEPT ![t.order[i]] = Append(@, values[i])]
    IN  [t EXCEPT !.columns = FoldLeft(push, @, [i \in DOMAIN values |-> i])]
InsertRow(t, values) ==
    LET push(columns, i) ==
            [columns EXCEPT ![t.order[i]] = Append(@, Value(values, i))]
    IN  [t EXCEPT !.columns = FoldLeft(push, @, [i \in DOMAIN t.order |-> i])]

(* Table::select_all: as many rows as the column the map yields first has  *)
(* values.                                                                 *)
RowAt(t, i) == [x \in {y \in DOMAIN t.columns : i <= Len(t.columns[y])} |-> t.columns[x][i]]
RowCounts(t) == {Len(t.columns[x]) : x \in DOMAIN t.columns}
SelectAll(t, n) == [i \in 1..n |-> RowAt(t, i)]

(* A condition `column = value'; a row without the column fails it.        *)
Holds(cond, row) == cond.column \in DOMAIN row /\ row[cond.column] = cond.value

(* Table::delete_where gives up when the columns have different lengths.   *)
DeleteWhere(t, cond) ==
    IF Cardinality(RowCounts(t)) # 1 THEN t
    ELSE LET all == [i \in 1..(CHOOSE n \in RowCounts(t) : TRUE) |-> i]
             kept == SelectSeq(all, LAMBDA i : ~Holds(cond, RowAt(t, i)))
         IN  [t EXCEPT !.columns = [x \in DOMAIN @ |-> [i \in DOMAIN kept |-> t.columns[x][kept[i]]]]]

(* Table::update_where, up to the row count n of the map's first column.   *)
UpdateWhere(t, cond, x, v, n) ==
    [t EXCEPT !.columns = [y \in DOMAIN @ |->
        [i \in DOMAIN @[y] |-> IF y = x /\ i <= n /\ Holds(cond, RowAt(t, i)) THEN v ELSE @[y][i]]]]

-----------------------------------------------------------------------------
CreateDatabase ==
    /\ database = 0 /\ handles < MaxHandles
    /\ handles' = handles + 1 /\ database' = handles'
    /\ UNCHANGED <<table, run, rowsOf, raced>>

DropDatabase ==
    /\ database # 0
    /\ database' = 0
    /\ UNCHANGED <<table, handles, run, rowsOf, raced>>

Creating(h) == {c \in Clients : run[c].at \in {"create", "columns"} /\ run[c].h = h}

(* The lookups every statement starts with.  CREATE TABLE stops when the   *)
(* table is there, everything else when it is not.                         *)
Begin(c, s) ==
    /\ run[c].at = "idle" /\ database # 0
    /\ s.op = "create" <=> ~table[database].there
    /\ s.op \in {"create", "insert"}
    /\ run' = [run EXCEPT ![c] = [at |-> s.op, h |-> database, defs |-> s.defs, tuples |-> s.tuples]]
    /\ raced' = [raced EXCEPT ![database] = @ \/ (s.op = "create" /\ Creating(database) # {})]
    /\ rowsOf' = [rowsOf EXCEPT ![database] = IF raced'[database] THEN << >> ELSE @]
    /\ UNCHANGED <<database, table, handles>>

CreateTable(c) ==
    /\ run[c].at = "create"
    /\ table' = [table EXCEPT ![run[c].h] = IF @.there THEN @ ELSE NewTable]
    /\ run' = [run EXCEPT ![c].at = "columns"]
    /\ UNCHANGED <<database, handles, rowsOf, raced>>

CreateColumns(c) ==
    /\ run[c].at = "columns"
    /\ table' = [table EXCEPT ![run[c].h] = IF @.there THEN FoldLeft(CreateColumn, @, run[c].defs) ELSE @]
    /\ run' = [run EXCEPT ![c] = Idle]
    /\ UNCHANGED <<database, handles, rowsOf, raced>>

(* handle_insert: tuple after tuple, up to the first that does not fit, or *)
(* until the table disappears.                                             *)
InsertTuple(c) ==
    LET h == run[c].h
        t == table[h]
        values == Head(run[c].tuples)
    IN  /\ run[c].at = "insert"
        /\ t.there /\ Fits(t, values) => \A n \in RowCounts(t) : n < MaxRows
        /\ IF t.there /\ Fits(t, values)
           THEN /\ table' = [table EXCEPT ![h] = InsertRow(t, values)]
                /\ rowsOf' = [rowsOf EXCEPT ![h] =
                                IF raced[h] THEN << >> ELSE Append(@, [i \in DOMAIN t.order |-> Value(values, i)])]
                /\ run' = [run EXCEPT ![c] = IF Len(@.tuples) = 1 THEN Idle ELSE [@ EXCEPT !.tuples = Tail(@)]]
           ELSE run' = [run EXCEPT ![c] = Idle] /\ UNCHANGED <<table, rowsOf>>
        /\ UNCHANGED <<database, handles, raced>>

(* handle_alter: one with_table_mut.                                       *)
Position(t, x) == CHOOSE i \in DOMAIN t.order : t.order[i] = x
RefHolds(t, cond, row) == cond.column \in ToSet(t.order) /\ row[Position(t, cond.column)] = cond.value

AlterDelete(s) ==
    /\ s.op = "delete" /\ database # 0
    /\ table' = [table EXCEPT ![database] = DeleteWhere(@, s.cond)]
    /\ rowsOf' = [rowsOf EXCEPT ![database] =
                    SelectSeq(@, LAMBDA r : ~RefHolds(table[database], s.cond, r))]
    /\ UNCHANGED <<database, handles, run, raced>>

AlterUpdate(s) ==
    /\ s.op = "update" /\ database # 0
    /\ LET t == table[database] IN
       /\ \E n \in IF RowCounts(t) = {} THEN {0} ELSE RowCounts(t) :
             table' = [table EXCEPT ![database] = UpdateWhere(t, s.cond, s.column, s.value, n)]
       /\ rowsOf' = [rowsOf EXCEPT ![database] = [k \in DOMAIN @ |->
             IF RefHolds(t, s.cond, @[k]) /\ s.column \in ToSet(t.order)
             THEN [@[k] EXCEPT ![Position(t, s.column)] = s.value] ELSE @[k]]]
    /\ UNCHANGED <<database, handles, run, raced>>

(* DROP TABLE IF EXISTS skips one word too many and is refused.            *)
DropTable(s) ==
    /\ s.op = "drop" /\ ~s.guarded /\ database # 0
    /\ table' = [table EXCEPT ![database] = NoTable]
    /\ rowsOf' = [rowsOf EXCEPT ![database] = << >>]
    /\ raced' = [raced EXCEPT ![database] = Creating(database) # {} /\ @]
    /\ UNCHANGED <<database, handles, run>>

ClickHouseNext ==
    \/ CreateDatabase \/ DropDatabase
    \/ \E s \in Statements : AlterDelete(s) \/ AlterUpdate(s) \/ DropTable(s) \/ \E c \in Clients : Begin(c, s)
    \/ \E c \in Clients : CreateTable(c) \/ CreateColumns(c) \/ InsertTuple(c)

ClickHouseSpec == ClickHouseInit /\ [][ClickHouseNext]_clickHouseVars

ClickHouseTypeOK ==
    /\ database \in 0..handles
    /\ \A h \in 0..MaxHandles :
          /\ ToSet(table[h].order) = DOMAIN table[h].columns /\ DOMAIN table[h].columns \subseteq Columns
          /\ ~table[h].there => table[h].order = << >>

(***************************************************************************)
(* The columns are the rows: unless two CREATE TABLEs overlapped, every    *)
(* column is listed once, all columns are equally long, and SELECT * lists *)
(* exactly the rows that the INSERTs, ALTER ... UPDATEs and ALTER ...      *)
(* DELETEs leave in a table of rows, in the same order -- whatever the     *)
(* map's order, with tables dropped and recreated while an INSERT or a     *)
(* CREATE is under way.                                                    *)
(***************************************************************************)
ColumnsAreRows ==
    \A h \in 1..handles :
        LET t == table[h] IN
        ~raced[h] =>
            /\ IsInjective(t.order)
            /\ \A n \in RowCounts(t) :
                  SelectAll(t, n) =
                      [k \in DOMAIN rowsOf[h] |-> [x \in DOMAIN t.columns |-> rowsOf[h][k][Position(t, x)]]]

=============================================================================
