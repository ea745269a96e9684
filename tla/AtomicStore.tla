---------------------------- MODULE AtomicStore -----------------------------
(***************************************************************************)
(* What ParquetStorage promises: every table is one value, every           *)
(* operation that changes it does so in a single atomic step computed from *)
(* the value it replaces, and a crash may only bring back a value the disk *)
(* still holds.                                                            *)
(***************************************************************************)
CONSTANTS Tables,        \* table names
          Ops,           \* the operations clients issue
          Absent,        \* the value of a table that does not exist
          Allowed(_, _), \* Allowed(o, c): operation o changes a table with value c
          Effect(_, _)   \* Effect(o, c): the value it leaves

VARIABLES content, \* content[t]: what every reader of t sees
          disk     \* disk[t]: the values a crash may leave in place

absVars == <<content, disk>>

AbsInit ==
    /\ content = [t \in Tables |-> Absent]
    /\ disk = [t \in Tables |-> {Absent}]

\* One operation, atomically.
Do(t, o) ==
    /\ Allowed(o, content[t])
    /\ content' = [content EXCEPT ![t] = Effect(o, content[t])]
    /\ disk' = [disk EXCEPT ![t] = @ \cup {Effect(o, content[t])}]

\* The directory reaches the disk: a crash can no longer undo what is visible.
Flush(t) ==
    /\ disk' = [disk EXCEPT ![t] = {content[t]}]
    /\ UNCHANGED content

\* A crash and restart.
Lose ==
    /\ \A t \in Tables : content'[t] \in disk[t]
    /\ content' = [t \in Tables |-> content'[t]]
    /\ disk' = [t \in Tables |-> {content'[t]}]

AbsNext ==
    \/ \E t \in Tables, o \in Ops : Do(t, o)
    \/ \E t \in Tables : Flush(t)
    \/ Lose

AbsSpec == AbsInit /\ [][AbsNext]_absVars
=============================================================================
