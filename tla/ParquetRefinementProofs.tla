----------------------- MODULE ParquetRefinementProofs ----------------------
(***************************************************************************)
(* ParquetStorage implements AtomicStore, for any number of threads,       *)
(* tables, operations and crashes.  Most steps are invisible; the rename   *)
(* and the unlink are the points where an operation takes effect.          *)
(***************************************************************************)
EXTENDS ParquetRefinement, ParquetStorageProofs

\* An operation's checks do not tell a missing directory from an empty one.
LEMMA ChecksSeen ==
  ASSUME NEW o \in Operations, NEW c
  PROVE  /\ Rejected(o, Seen(c)) <=> Rejected(o, c)
         /\ NothingToDo(o, Seen(c)) <=> NothingToDo(o, c)
<1>1. CASE c = NoDir
  BY <1>1 DEF Seen, Rejected, NothingToDo, Exists, IsDml, NoDir, NoFile, Torn
<1>2. CASE c # NoDir
  BY <1>2 DEF Seen
<1> QED
  BY <1>1, <1>2

\* Nor does its effect, when it has one.
LEMMA EffectSeen ==
  ASSUME NEW o \in Operations, NEW c, ~ Rejected(o, c), ~ NothingToDo(o, c)
  PROVE  After(o, Seen(c)) = After(o, c)
<1>1. CASE c = NoDir
  <2>1. o.kind \in {"create", "truncate", "drop"}
    BY <1>1 DEF Operations, Rejected, NothingToDo, Exists, IsDml, NoDir
  <2> QED
    BY <2>1 DEF After
<1>2. CASE c # NoDir
  BY <1>2 DEF Seen
<1> QED
  BY <1>1, <1>2

\* A step that leaves what clients see, and what a crash may leave, is a stutter.
LEMMA Invisible ==
  ASSUME AbsContent' = AbsContent, AbsDisk' = AbsDisk
  PROVE  [Abstract!AbsNext]_Abstract!absVars
  BY DEF Abstract!absVars

\* Writing one more possible state into disk[t] adds what it looks like.
LEMMA DiskGrows ==
  ASSUME ControlTypeOK, NEW t \in Tables, NEW new, disk' = [disk EXCEPT ![t] = @ \cup {new}]
  PROVE  AbsDisk' = [AbsDisk EXCEPT ![t] = @ \cup {Seen(new)}]
<1>1. \A u \in Tables : disk'[u] = IF u = t THEN disk[u] \cup {new} ELSE disk[u]
  BY DEF ControlTypeOK
<1>2. {Seen(d) : d \in disk[t] \cup {new}} = {Seen(d) : d \in disk[t]} \cup {Seen(new)}
  OBVIOUS
<1>3. AbsDisk' = [u \in Tables |-> {Seen(d) : d \in disk'[u]}]
  BY DEF AbsDisk, Seen
<1> QED
  BY <1>1, <1>2, <1>3 DEF AbsDisk

\* An operation that takes effect in one step is an abstract operation.
LEMMA Takes ==
  ASSUME ControlTypeOK, NEW t \in Tables, NEW o \in Ops, NEW new,
         ~ Rejected(o, store[t]), ~ NothingToDo(o, store[t]),
         Seen(new) = Seen(After(o, store[t])),
         store' = [store EXCEPT ![t] = new],
         disk' = [disk EXCEPT ![t] = @ \cup {new}]
  PROVE  [Abstract!AbsNext]_Abstract!absVars
<1>1. o \in Operations
  BY ParquetStorageAssumption
<1>2. AbsContent[t] = Seen(store[t])
  BY DEF AbsContent
<1>3. Writes(o, AbsContent[t])
  BY <1>1, <1>2, ChecksSeen DEF Writes
<1>4. SeenAfter(o, AbsContent[t]) = Seen(new)
  BY <1>1, <1>2, EffectSeen DEF SeenAfter
<1>5. AbsContent' = [AbsContent EXCEPT ![t] = Seen(new)]
  BY DEF AbsContent, Seen, ControlTypeOK
<1>6. AbsDisk' = [AbsDisk EXCEPT ![t] = @ \cup {Seen(new)}]
  BY DiskGrows
<1>7. Abstract!Do(t, o)
  BY <1>3, <1>4, <1>5, <1>6 DEF Abstract!Do
<1> QED
  BY <1>7 DEF Abstract!AbsNext

\* Every step of a thread is a stutter, an abstract operation or a flush.
LEMMA SimulateStep ==
  ASSUME IInv, NEW p \in Procs, Step(p)
  PROVE  [Abstract!AbsNext]_Abstract!absVars
<1>0. ControlTypeOK /\ DataOf(p) /\ DiskInv
  BY DEF IInv, DataInv
<1>a. ASSUME UNCHANGED <<store, disk>>
      PROVE  [Abstract!AbsNext]_Abstract!absVars
  BY <1>a, Invisible DEF AbsContent, AbsDisk, Seen
<1>b. pc[p] # "idle" => tab[p] \in Tables
  BY <1>0 DEF ControlTypeOK
<1>c. \A t \in Tables : Seen(store[t]) \in AbsDisk[t]
  BY <1>0 DEF DiskInv, AbsDisk
<1>1. CASE \/ LookupLock(p) \/ CreateLock(p) \/ Lock(p) \/ WriteTemp(p) \/ SyncTemp(p)
           \/ FailWrite(p) \/ OpenRead(p)
  BY <1>1, <1>a DEF LookupLock, CreateLock, Lock, WriteTemp, SyncTemp, FailWrite, OpenRead
<1>2. CASE ReadTable(p) \/ CreateTemp(p)
  BY <1>2, <1>a DEF ReadTable, CreateTemp
<1>3. ASSUME NEW new, Seen(new) = Seen(store[tab[p]]), tab[p] \in Tables,
             store' = [store EXCEPT ![tab[p]] = new],
             disk' = [disk EXCEPT ![tab[p]] = @ \cup {new}]
      PROVE  [Abstract!AbsNext]_Abstract!absVars
  <2>1. AbsContent' = AbsContent
    BY <1>0, <1>3 DEF AbsContent, Seen, ControlTypeOK
  <2>2. AbsDisk' = [AbsDisk EXCEPT ![tab[p]] = @ \cup {Seen(new)}]
    BY <1>0, <1>3, DiskGrows
  <2>3. AbsDisk[tab[p]] \cup {Seen(new)} = AbsDisk[tab[p]]
    BY <1>c, <1>3
  <2>4. AbsDisk' = AbsDisk
    BY <2>2, <2>3 DEF AbsDisk
  <2> QED
    BY <2>1, <2>4, Invisible
<1>4. CASE MkDir(p)
  <2>1. PICK new : /\ new = IF store[tab[p]] = NoDir THEN NoFile ELSE store[tab[p]]
                   /\ store' = [store EXCEPT ![tab[p]] = new]
                   /\ disk' = [disk EXCEPT ![tab[p]] = @ \cup {new}]
    BY <1>4 DEF MkDir
  <2>2. Seen(new) = Seen(store[tab[p]])
    BY <2>1 DEF Seen, NoDir, NoFile
  <2> QED
    BY <1>3, <1>4, <1>b, <2>1, <2>2 DEF MkDir
<1>5. CASE Unlink(p)
  <2>1. PICK new : /\ new = IF store[tab[p]] = NoDir THEN NoDir ELSE NoFile
                   /\ store' = [store EXCEPT ![tab[p]] = new]
                   /\ disk' = [disk EXCEPT ![tab[p]] = @ \cup {new}]
    BY <1>5 DEF Unlink
  <2>2. op[p].kind = "drop" /\ op[p] \in Ops /\ tab[p] \in Tables
    BY <1>0, <1>5 DEF Unlink, DataOf, ControlTypeOK
  <2>3. /\ ~ Rejected(op[p], store[tab[p]]) /\ ~ NothingToDo(op[p], store[tab[p]])
        /\ After(op[p], store[tab[p]]) = NoDir
    BY <2>2 DEF Rejected, NothingToDo, After, IsDml
  <2>4. Seen(new) = Seen(NoDir)
    BY <2>1 DEF Seen, NoDir, NoFile
  <2> QED
    BY <1>0, <2>1, <2>2, <2>3, <2>4, Takes
<1>6. CASE RmDir(p)
  <2>1. store[tab[p]] \in {NoDir, NoFile} /\ tab[p] \in Tables
    BY <1>0, <1>6, <1>b DEF RmDir, DataOf
  <2>2. Seen(NoDir) = Seen(store[tab[p]])
    BY <2>1 DEF Seen, NoDir, NoFile
  <2> QED
    BY <1>3, <1>6, <2>1, <2>2 DEF RmDir
<1>7. CASE Rename(p)
  <2>1. /\ tab[p] \in Tables /\ op[p] \in Ops /\ temp[p] = "synced"
        /\ ~ Rejected(op[p], store[tab[p]]) /\ ~ NothingToDo(op[p], store[tab[p]])
        /\ buf[p] = After(op[p], store[tab[p]])
    BY <1>0, <1>7 DEF Rename, DataOf, ControlTypeOK, Rewriting
  <2>2. /\ store' = [store EXCEPT ![tab[p]] = buf[p]]
        /\ disk' = [disk EXCEPT ![tab[p]] = @ \cup {buf[p]}]
    BY <1>7, <2>1 DEF Rename
  <2> QED
    BY <1>0, <2>1, <2>2, Takes
<1>8. CASE SyncDir(p)
  <2>1. store' = store /\ tab[p] \in Tables
    BY <1>8, <1>b DEF SyncDir
  <2>2. CASE disk' = disk
    BY <1>a, <2>1, <2>2
  <2>3. CASE disk' = [disk EXCEPT ![tab[p]] = {store[tab[p]]}]
    <3>1. AbsContent' = AbsContent
      BY <2>1 DEF AbsContent, Seen
    <3>2. AbsDisk' = [u \in Tables |-> {Seen(d) : d \in disk'[u]}]
      BY DEF AbsDisk, Seen
    <3>3. {Seen(d) : d \in {store[tab[p]]}} = {AbsContent[tab[p]]}
      BY <2>1 DEF AbsContent
    <3>4. AbsDisk' = [AbsDisk EXCEPT ![tab[p]] = {AbsContent[tab[p]]}]
      BY <1>0, <2>1, <2>3, <3>2, <3>3 DEF AbsDisk, ControlTypeOK
    <3>5. Abstract!Flush(tab[p])
      BY <3>1, <3>4 DEF Abstract!Flush
    <3> QED
      BY <2>1, <3>5 DEF Abstract!AbsNext
  <2> QED
    BY <1>8, <2>2, <2>3 DEF SyncDir
<1> QED
  BY <1>1, <1>2, <1>4, <1>5, <1>6, <1>7, <1>8 DEF Step

\* A crash is an abstract crash.
LEMMA SimulateCrash ==
  ASSUME IInv, Crash
  PROVE  [Abstract!AbsNext]_Abstract!absVars
<1>1. PICK found \in [Tables -> UNION {disk[t] : t \in Tables}] :
        /\ \A t \in Tables : found[t] \in disk[t]
        /\ store' = found
        /\ disk' = [t \in Tables |-> {found[t]}]
  BY DEF Crash
<1>2. AbsContent' = [t \in Tables |-> Seen(found[t])]
  BY <1>1 DEF AbsContent, Seen
<1>3. AbsDisk' = [t \in Tables |-> {Seen(d) : d \in disk'[t]}]
  BY DEF AbsDisk, Seen
<1>4. AbsDisk' = [t \in Tables |-> {AbsContent'[t]}]
  BY <1>1, <1>2, <1>3
<1>5. \A t \in Tables : AbsContent'[t] \in AbsDisk[t]
  BY <1>1, <1>2 DEF AbsDisk
<1>6. Abstract!Lose
  BY <1>2, <1>4, <1>5 DEF Abstract!Lose
<1> QED
  BY <1>6 DEF Abstract!AbsNext

\* ParquetStorage implements AtomicStore: a whole-file rewrite behind a lock, a
\* temporary file and a rename is, for readers and across crashes, one atomic
\* operation on the table.
THEOREM Refinement == Spec => ImplementsAtomicStore
<1>1. Init => Abstract!AbsInit
  <2> SUFFICES ASSUME Init PROVE Abstract!AbsInit
    OBVIOUS
  <2>1. AbsContent = [t \in Tables |-> NoFile]
    BY DEF Init, AbsContent, Seen
  <2>2. {Seen(d) : d \in {NoDir}} = {NoFile}
    BY DEF Seen
  <2>3. AbsDisk = [t \in Tables |-> {NoFile}]
    BY <2>2 DEF Init, AbsDisk
  <2> QED
    BY <2>1, <2>3 DEF Abstract!AbsInit
<1>2. IInv /\ [Next]_vars => [Abstract!AbsNext]_Abstract!absVars
  <2> SUFFICES ASSUME IInv, [Next]_vars PROVE [Abstract!AbsNext]_Abstract!absVars
    OBVIOUS
  <2>1. ASSUME UNCHANGED <<store, disk>>
        PROVE  [Abstract!AbsNext]_Abstract!absVars
    BY <2>1, Invisible DEF AbsContent, AbsDisk, Seen
  <2>2. ASSUME NEW p \in Procs, NEW t \in Tables, NEW o \in Ops, Begin(p, t, o)
        PROVE  [Abstract!AbsNext]_Abstract!absVars
    BY <2>1, <2>2 DEF Begin
  <2>3. ASSUME NEW p \in Procs, NEW t \in Tables, BeginRead(p, t)
        PROVE  [Abstract!AbsNext]_Abstract!absVars
    BY <2>1, <2>3 DEF BeginRead
  <2>4. CASE UNCHANGED vars
    BY <2>1, <2>4 DEF vars
  <2> QED
    BY <2>2, <2>3, <2>4, SimulateStep, SimulateCrash DEF Next
<1> QED
  BY <1>1, <1>2, Inductive, PTL DEF Spec, ImplementsAtomicStore, Abstract!AbsSpec
=============================================================================
