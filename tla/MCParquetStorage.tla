-------------------------- MODULE MCParquetStorage --------------------------
EXTENDS ParquetRefinement

\* One operation of each kind.  The inserted row is wider than the table DROP
\* COLUMN leaves behind, and narrower than the one ADD COLUMN does.
MCOps ==
    { [kind |-> "create", cols |-> <<"a", "b">>],
      [kind |-> "insert", cols |-> <<"a", "b">>, rows |-> << <<"x", "y">> >>],
      [kind |-> "update", from |-> "x", to |-> "y"],
      [kind |-> "delete", val |-> "y"],
      [kind |-> "addcol", col |-> "c"],
      [kind |-> "dropcol", index |-> 0],
      [kind |-> "truncate", cols |-> <<"a", "b">>],
      [kind |-> "drop"] }

\* For liveness: the paths that create, read, reject and remove a table.
MCFewOps ==
    { [kind |-> "create", cols |-> <<"a">>],
      [kind |-> "insert", cols |-> <<"a">>, rows |-> << <<"x">> >>],
      [kind |-> "drop"] }
=============================================================================
