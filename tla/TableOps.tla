------------------------------ MODULE TableOps ------------------------------
(***************************************************************************)
(* What the operations of ParquetStorage (crates/fe-storage/src/lib.rs) do *)
(* to the contents of one table's data.parquet.                            *)
(*                                                                         *)
(* A file is a schema (a sequence of column names) and a sequence of rows; *)
(* a row is positional, as an Arrow RecordBatch is.  All columns have one  *)
(* data type, so the type check of concat_batches never rejects a batch.   *)
(***************************************************************************)
EXTENDS Integers, Sequences, SequencesExt

CONSTANTS Columns,   \* column names
          Values,    \* cell values, Null excluded
          Null,      \* SQL NULL
          MaxRows    \* max_rows: the DML row limit

ASSUME TableOpsAssumption ==
    /\ Null \notin Values
    /\ MaxRows \in Nat

\* The table's directory does not exist.
NoDir == [kind |-> "nodir"]

\* The directory exists, data.parquet does not.
NoFile == [kind |-> "nofile"]

\* A data.parquet that cannot be decoded: cut short, or never flushed to disk.
Torn == [kind |-> "torn"]

\* A readable data.parquet.
File(cols, rows) == [kind |-> "file", cols |-> cols, rows |-> rows]

Cell == Values \cup {Null}

Files == [kind : {"file"}, cols : Seq(Columns), rows : Seq(Seq(Cell))]

\* A RecordBatch: every row has one cell per column.
Rectangular(c) ==
    c.kind = "file" => \A r \in 1 .. Len(c.rows) : Len(c.rows[r]) = Len(c.cols)

TableStates == Files \cup {NoDir, NoFile, Torn}

\* parquet_path(..).exists()
Exists(c) == c.kind \in {"file", "torn"}

\* The operations and their arguments.  update stands for SET col = to WHERE
\* col = from on column 1, delete for WHERE col = val on column 1: the closures
\* the DML handlers pass in are data, what matters is that they depend on the
\* rows that were read.
Operations ==
    [kind : {"create", "truncate"}, cols : Seq(Columns)]
      \cup [kind : {"drop"}]
      \cup [kind : {"insert"}, cols : Seq(Columns), rows : Seq(Seq(Cell))]
      \cup [kind : {"update"}, from : Cell, to : Cell]
      \cup [kind : {"delete"}, val : Cell]
      \cup [kind : {"addcol"}, col : Columns]
      \cup [kind : {"dropcol"}, index : Nat]

\* empty_batch: a batch with the schema and no rows.
EmptyBatch(cols) == File(cols, <<>>)

\* Mutation: the limit compared one row too late.
ExceedsDmlLimitLate(c) == Len(c.rows) > MaxRows + 1

\* check_dml_limit: the count of the rows already stored, before the write.
ExceedsDmlLimit(c) == Len(c.rows) > MaxRows

\* arrow_select::concat::concat_batches: column i of the result is column i of
\* every batch, for the columns of the first schema, whatever their names.
ConcatBatches(c, batch) ==
    File(c.cols,
         c.rows \o [r \in 1 .. Len(batch.rows) |->
                       [i \in 1 .. Len(c.cols) |-> batch.rows[r][i]]])

\* concat_batches indexes past the end of a batch with fewer columns: a panic.
ConcatPanics(c, batch) == c.rows # <<>> /\ Len(batch.cols) < Len(c.cols)

\* insert: an empty file is replaced by the batch, schema included.
InsertRows(c, batch) ==
    IF c.rows = <<>> THEN File(batch.cols, batch.rows) ELSE ConcatBatches(c, batch)

\* update with the closure SET col1 = to WHERE col1 = from.
UpdateRows(c, from, to) ==
    File(c.cols,
         [r \in 1 .. Len(c.rows) |->
             [i \in 1 .. Len(c.rows[r]) |->
                 IF i = 1 /\ c.rows[r][1] = from THEN to ELSE c.rows[r][i]]])

\* delete with the closure that keeps the rows with col1 # val.
DeleteRows(c, val) ==
    LET kept(row) == row = <<>> \/ row[1] # val
    IN  File(c.cols, SelectSeq(c.rows, kept))

\* Mutation: the schema is projected and the columns are not.
DropColumnInSchemaOnly(c, index) == File(RemoveAt(c.cols, index + 1), c.rows)

\* rewrite_parquet_drop_column (col_index counts from 0).
DropColumn(c, index) ==
    File(RemoveAt(c.cols, index + 1),
         [r \in 1 .. Len(c.rows) |-> RemoveAt(c.rows[r], index + 1)])

\* rewrite_parquet_add_column on a file with rows: NULL in every one of them.
AddColumn(c, col) ==
    File(Append(c.cols, col), [r \in 1 .. Len(c.rows) |-> Append(c.rows[r], Null)])

\* The operations that begin with: no file, TableNotFound; too many rows, Err.
IsDml(o) == o.kind \in {"insert", "update", "delete"}

\* Rejected after the checks and the read, before anything is written: an error
\* return, or a panic that unwinds to the connection.
Rejected(o, c) ==
    \/ IsDml(o) /\ (~ Exists(c) \/ c = Torn)
    \/ IsDml(o) /\ c.kind = "file" /\ ExceedsDmlLimit(c)
    \/ o.kind = "insert" /\ c.kind = "file" /\ ConcatPanics(c, o)
    \/ o.kind = "dropcol" /\ c.kind = "file" /\ o.index >= Len(c.cols)
    \/ o.kind \in {"addcol", "dropcol"} /\ c = Torn

\* Returns Ok without writing: ADD/DROP COLUMN without a file, and ADD COLUMN on
\* a file without rows.
NothingToDo(o, c) ==
    \/ o.kind \in {"addcol", "dropcol"} /\ ~ Exists(c)
    \/ o.kind = "addcol" /\ c.kind = "file" /\ c.rows = <<>>

\* The table after operation o on c, when o writes.
After(o, c) ==
    CASE o.kind \in {"create", "truncate"} -> EmptyBatch(o.cols)
      [] o.kind = "drop"    -> NoDir
      [] o.kind = "insert"  -> InsertRows(c, o)
      [] o.kind = "update"  -> UpdateRows(c, o.from, o.to)
      [] o.kind = "delete"  -> DeleteRows(c, o.val)
      [] o.kind = "addcol"  -> AddColumn(c, o.col)
      [] OTHER              -> DropColumn(c, o.index)
=============================================================================
