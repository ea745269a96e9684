-------------------------- MODULE ParquetRefinement -------------------------
(***************************************************************************)
(* ParquetStorage as an implementation of AtomicStore.                     *)
(***************************************************************************)
EXTENDS ParquetStorage

\* The state of a table directory as a client of the storage can tell: with no
\* file in it, its existence does not show.
Seen(d) == IF d = NoDir THEN NoFile ELSE d

\* The abstract operations, and variables: what readers find, and what a crash
\* may leave.
Writes(o, c) == ~ Rejected(o, c) /\ ~ NothingToDo(o, c)
SeenAfter(o, c) == Seen(After(o, c))
AbsContent == [t \in Tables |-> Seen(store[t])]
AbsDisk == [t \in Tables |-> {Seen(d) : d \in disk[t]}]

Abstract == INSTANCE AtomicStore WITH
    Absent <- NoFile, Allowed <- Writes, Effect <- SeenAfter,
    content <- AbsContent, disk <- AbsDisk

\* The storage implements the atomic store: each operation takes effect in one
\* step computed from the file it replaces, for readers and across crashes,
\* although insert, update, delete, the column rewrites and drop_table take
\* several steps each.
ImplementsAtomicStore == Abstract!AbsSpec
=============================================================================
