--------------------------- MODULE MCSchemaChange ---------------------------
(* Instances of SchemaChange for TLC. *)
EXTENDS SchemaChange

CONSTANTS tab1, tab2, colA, colB

On(k) == [kind |-> k, tab |-> tab1, quiet |-> FALSE]

\* Statements on one table, and the few that involve a second one.
MCStatements ==
    { [kind |-> "create", tab |-> tab1, names |-> <<colA, colB>>, quiet |-> FALSE],
      [kind |-> "create", tab |-> tab2, names |-> <<colB>>, quiet |-> TRUE],
      [kind |-> "create", tab |-> tab1, names |-> <<>>, quiet |-> FALSE],
      [kind |-> "drop", tab |-> tab1, quiet |-> FALSE],
      [kind |-> "mview", tab |-> tab1, names |-> <<colB>>, quiet |-> FALSE],
      [kind |-> "dropmview", tab |-> tab1, quiet |-> TRUE],
      On("createdb"), On("dropdb"), On("setprop"), On("delete"),
      [kind |-> "addcol", tab |-> tab1, name |-> colA],
      [kind |-> "addgen", tab |-> tab1, name |-> colB],
      [kind |-> "dropcol", tab |-> tab1, name |-> colA],
      [kind |-> "modify", tab |-> tab1, name |-> colB],
      [kind |-> "renamecol", tab |-> tab1, name |-> colA, to |-> colB],
      [kind |-> "rename", tab |-> tab1, to |-> tab2],
      [kind |-> "rename", tab |-> tab1, to |-> tab1],
      [kind |-> "replace", tab |-> tab1, old |-> tab2, swap |-> TRUE],
      [kind |-> "replace", tab |-> tab1, old |-> tab2, swap |-> FALSE],
      [kind |-> "truncate", tab |-> tab1, quiet |-> FALSE],
      [kind |-> "index", tab |-> tab1, quiet |-> FALSE],
      [kind |-> "insert", tab |-> tab1, into |-> {}, values |-> 2],
      [kind |-> "insert", tab |-> tab2, into |-> {colB}, values |-> 1],
      [kind |-> "update", tab |-> tab1, name |-> colA] }

MCFirstColumns == <<colA, colB>>

\* Two sessions are interchangeable.
Symmetry == Permutations(Sessions)
=============================================================================
