------------------------ MODULE ParquetStorageProofs ------------------------
(***************************************************************************)
(* Proofs about ParquetStorage, for any number of threads, tables,         *)
(* operations and crashes.                                                 *)
(***************************************************************************)
EXTENDS ParquetStorage, TLAPS

USE DEF Mutexes, NoMutex, Locked, Rewriting, Steps

\* A thread past lock_table holds the table's one mutex; a thread about to lock
\* has the mutex that is in the map.  The mutex in the map under a table's key
\* was created for that table, so different tables never share one.
LockInv ==
    /\ \A t \in Tables : write_locks[t] # NoMutex => write_locks[t] \in {t} \X Procs
    /\ \A p \in Procs : pc[p] \in Locked \cup {"lock"} =>
          mtx[p] = write_locks[tab[p]]
    /\ \A p \in Procs : pc[p] \in Locked => owner[mtx[p]] = p

\* What follows from the lock: the batch in memory is the operation's effect on
\* the file in place, and the temporary file is complete before it is renamed.
DataOf(p) ==
    /\ pc[p] \in Rewriting =>
          /\ buf[p] = After(op[p], store[tab[p]])
          /\ ~ Rejected(op[p], store[tab[p]])
          /\ ~ NothingToDo(op[p], store[tab[p]])
          /\ op[p].kind # "drop"
    /\ pc[p] = "mkdir" => op[p].kind = "create"
    /\ pc[p] \in {"unlink", "rmdir"} => op[p].kind = "drop"
    /\ pc[p] = "read" => op[p].kind \notin {"create", "drop"}
    /\ pc[p] = "rename" => temp[p] = "synced"
    /\ pc[p] = "rmdir" => store[tab[p]] \in {NoDir, NoFile}
    /\ pc[p] = "syncdir" => store[tab[p]].kind = "file"

DataInv == \A p \in Procs : DataOf(p)

\* The states a crash may leave contain the current one, hold no torn file, and
\* are only the acknowledged one after a synced acknowledgement.
DiskInv ==
    /\ \A t \in Tables : store[t] \in disk[t] /\ Torn \notin disk[t]
    /\ \A t \in Tables : acked[t] # NoAck => acked[t].kind = "file" /\ disk[t] = {acked[t]}
    /\ \A p \in Procs : got[p] # Torn

\* History: nothing is applied before the rename (or the unlink).
EffectInv ==
    \A p \in Procs :
        /\ p \in applied => \/ pc[p] = "syncdir"
                            \/ pc[p] = "idle" /\ res[p] = "ok"
                            \/ op[p].kind = "drop"
        /\ pc[p] # "idle" => res[p] # "error"

IInv == ControlTypeOK /\ LockInv /\ DataInv /\ DiskInv /\ EffectInv
-----------------------------------------------------------------------------
(* The operators *)

\* An operation that is not drop_table leaves a file: EmptyBatch, the
\* concatenation and the rewrites all build one.
LEMMA AfterIsFile ==
  ASSUME NEW o \in Operations, NEW c, o.kind # "drop"
  PROVE  After(o, c).kind = "file"
  BY DEF Operations, After, EmptyBatch, InsertRows, ConcatBatches, UpdateRows, DeleteRows,
         AddColumn, DropColumn, File

\* Type correctness of the control state is inductive.
LEMMA ControlTypeStep == ControlTypeOK /\ [Next]_vars => ControlTypeOK'
<1> SUFFICES ASSUME ControlTypeOK, [Next]_vars PROVE ControlTypeOK'
  OBVIOUS
<1> USE ParquetStorageAssumption DEF ControlTypeOK
<1>1. ASSUME NEW p \in Procs, NEW t \in Tables, NEW o \in Ops, Begin(p, t, o)
      PROVE  ControlTypeOK'
  BY <1>1 DEF Begin
<1>2. ASSUME NEW p \in Procs, NEW t \in Tables, BeginRead(p, t)
      PROVE  ControlTypeOK'
  BY <1>2, SMTT(60) DEF BeginRead
<1>3. ASSUME NEW p \in Procs, Step(p)
      PROVE  ControlTypeOK'
  <2>1. CASE LookupLock(p)
    BY <2>1 DEF LookupLock
  <2>2. CASE CreateLock(p)
    BY <2>2 DEF CreateLock
  <2>3. CASE Lock(p)
    BY <2>3 DEF Lock, FirstStep
  <2>4. CASE MkDir(p)
    BY <2>4 DEF MkDir, NoFile
  <2>5. CASE Unlink(p)
    BY <2>5, ZenonT(60) DEF Unlink, NoDir, NoFile
  <2>6. CASE RmDir(p)
    BY <2>6 DEF RmDir, Return, NoDir
  <2>7. CASE ReadTable(p)
    <3>1. CASE \E r \in {"ok", "error"} : Return(p, r)
      <4>1. UNCHANGED <<store, disk, write_locks, op, tab, temp, got, started, crashes, applied,
                        acked>>
        BY <2>7 DEF ReadTable
      <4>2. PICK r \in {"ok", "error"} : Return(p, r)
        BY <3>1
      <4> HIDE <3>1
      <4> QED
        BY <4>1, <4>2 DEF Return
    <3>2. CASE ~ \E r \in {"ok", "error"} : Return(p, r)
      <4>1. /\ buf' = [buf EXCEPT ![p] = After(op[p], store[tab[p]])]
            /\ pc' = [pc EXCEPT ![p] = "temp"]
            /\ UNCHANGED <<owner, mtx, res>>
        BY <2>7, <3>2 DEF ReadTable
      <4> QED
        BY <2>7, <4>1 DEF ReadTable
    <3> QED
      BY <3>1, <3>2
  <2>8. CASE CreateTemp(p)
    <3>1. CASE Return(p, "error")
      BY <2>8, <3>1 DEF CreateTemp, Return
    <3>2. CASE ~ Return(p, "error")
      BY <2>8, <3>2, ZenonT(60) DEF CreateTemp
    <3> QED
      BY <3>1, <3>2
  <2>9. CASE WriteTemp(p)
    BY <2>9 DEF WriteTemp
  <2>10. CASE SyncTemp(p)
    BY <2>10 DEF SyncTemp
  <2>11. CASE Rename(p)
    BY <2>11, ZenonT(60) DEF Rename
  <2>12. CASE SyncDir(p)
    BY <2>12 DEF SyncDir, Return
  <2>13. CASE FailWrite(p)
    BY <2>13, ZenonT(60) DEF FailWrite, Return
  <2>14. CASE OpenRead(p)
    BY <2>14, ZenonT(60) DEF OpenRead
  <2> QED
    BY <1>3, <2>1, <2>2, <2>3, <2>4, <2>5, <2>6, <2>7, <2>8, <2>9, <2>10, <2>11, <2>12,
       <2>13, <2>14 DEF Step
<1>4. CASE Crash
  BY <1>4 DEF Crash
<1>5. CASE UNCHANGED vars
  BY <1>5 DEF vars
<1> QED
  BY <1>1, <1>2, <1>3, <1>4, <1>5 DEF Next
-----------------------------------------------------------------------------
(* The lock *)

\* No tuple of length 2 is the empty tuple.
LEMMA MutexNotNone == NoMutex \notin Mutexes
  OBVIOUS

\* Two threads are never past lock_table for the same table: they would hold the
\* one mutex in the map under the table's key.
LEMMA Exclusion ==
  ASSUME LockInv, NEW p \in Procs, NEW q \in Procs,
         pc[p] \in Locked, pc[q] \in Locked, tab[p] = tab[q]
  PROVE  p = q
  BY DEF LockInv

\* The lock invariant is preserved by every step.
LEMMA LockStep == ControlTypeOK /\ LockInv /\ [Next]_vars => LockInv'
<1> SUFFICES ASSUME ControlTypeOK, LockInv, [Next]_vars PROVE LockInv'
  OBVIOUS
<1> USE MutexNotNone, SentinelAssumption DEF LockInv
<1>1. ASSUME NEW p \in Procs, NEW t \in Tables, NEW o \in Ops, Begin(p, t, o)
      PROVE  LockInv'
  BY <1>1 DEF Begin, ControlTypeOK
<1>2. ASSUME NEW p \in Procs, NEW t \in Tables, BeginRead(p, t)
      PROVE  LockInv'
  BY <1>2 DEF BeginRead, ControlTypeOK
<1>3. ASSUME NEW p \in Procs, Step(p)
      PROVE  LockInv'
  <2>1. CASE LookupLock(p)
    BY <2>1 DEF LookupLock, ControlTypeOK
  <2>2. CASE CreateLock(p)
    BY <2>2 DEF CreateLock, ControlTypeOK
  <2>3. CASE Lock(p)
    BY <2>3 DEF Lock, FirstStep, ControlTypeOK
  <2>4. ASSUME NEW r, Return(p, r), pc[p] \in Locked, UNCHANGED <<write_locks, tab>>
        PROVE  LockInv'
    BY <2>4 DEF Return, ControlTypeOK
  <2>5. CASE /\ pc[p] \in Locked /\ pc' \in {[pc EXCEPT ![p] = s] : s \in Locked}
             /\ UNCHANGED <<write_locks, owner, tab, mtx>>
    BY <2>5 DEF ControlTypeOK
  <2>6. CASE OpenRead(p)
    BY <2>6 DEF OpenRead, ControlTypeOK
  <2>7. CASE MkDir(p) \/ Unlink(p) \/ WriteTemp(p) \/ SyncTemp(p) \/ Rename(p)
    BY <2>5, <2>7 DEF MkDir, Unlink, WriteTemp, SyncTemp, Rename
  <2>8. CASE RmDir(p) \/ SyncDir(p) \/ FailWrite(p)
    BY <2>4, <2>8 DEF RmDir, SyncDir, FailWrite
  <2>9. CASE ReadTable(p)
    BY <2>4, <2>5, <2>9 DEF ReadTable
  <2>10. CASE CreateTemp(p)
    BY <2>4, <2>5, <2>10 DEF CreateTemp
  <2> QED
    BY <1>3, <2>1, <2>2, <2>3, <2>6, <2>7, <2>8, <2>9, <2>10 DEF Step
<1>4. CASE Crash
  BY <1>4 DEF Crash
<1>5. CASE UNCHANGED vars
  BY <1>5 DEF vars
<1> QED
  BY <1>1, <1>2, <1>3, <1>4, <1>5 DEF Next
-----------------------------------------------------------------------------
(* The data *)

\* create_table writes an empty file whatever was there before.
LEMMA CreateEffect ==
  ASSUME NEW o, NEW c, o.kind = "create"
  PROVE  /\ After(o, c) = EmptyBatch(o.cols)
         /\ ~ Rejected(o, c)
         /\ ~ NothingToDo(o, c)
  <1>1. After(o, c) = EmptyBatch(o.cols)
    BY DEF After
  <1>2. ~ Rejected(o, c) /\ ~ NothingToDo(o, c)
    BY DEF Rejected, NothingToDo, IsDml
  <1> QED
    BY <1>1, <1>2

\* Per-thread data that a step leaves alone keeps DataOf.
LEMMA DataFrame ==
  ASSUME NEW q \in Procs, DataOf(q),
         pc'[q] = pc[q], op'[q] = op[q], tab'[q] = tab[q], buf'[q] = buf[q],
         temp'[q] = temp[q],
         pc[q] \in Locked => store'[tab[q]] = store[tab[q]]
  PROVE  DataOf(q)'
  BY DEF DataOf

\* A thread's own step keeps DataOf.
LEMMA OwnDataStep ==
  ASSUME NEW q \in Procs, ControlTypeOK, DataOf(q), Step(q)
  PROVE  DataOf(q)'
<1> USE DEF ControlTypeOK
<1>1. CASE LookupLock(q) \/ CreateLock(q)
  BY <1>1 DEF LookupLock, CreateLock, DataOf
<1>2. CASE Lock(q)
  BY <1>2 DEF Lock, FirstStep, DataOf
<1>3. CASE MkDir(q)
  <2>1. op[q].kind = "create"
    BY <1>3 DEF MkDir, DataOf
  <2>2. op'[q] = op[q] /\ pc'[q] = "temp" /\ buf'[q] = EmptyBatch(op[q].cols)
    BY <1>3 DEF MkDir
  <2>3. /\ After(op[q], store'[tab'[q]]) = EmptyBatch(op[q].cols)
        /\ ~ Rejected(op[q], store'[tab'[q]])
        /\ ~ NothingToDo(op[q], store'[tab'[q]])
    BY <2>1, CreateEffect
  <2> QED
    BY <2>1, <2>2, <2>3 DEF DataOf
<1>4. CASE Unlink(q)
  BY <1>4 DEF Unlink, DataOf
<1>5. CASE ReadTable(q)
  <2>1. op'[q] = op[q] /\ tab'[q] = tab[q] /\ store'[tab'[q]] = store[tab[q]]
    BY <1>5 DEF ReadTable
  <2>2. CASE pc'[q] = "idle"
    BY <2>2 DEF DataOf
  <2>3. CASE pc'[q] # "idle"
    <3>1. /\ pc'[q] = "temp" /\ buf'[q] = After(op[q], store[tab[q]])
          /\ ~ Rejected(op[q], store[tab[q]]) /\ ~ NothingToDo(op[q], store[tab[q]])
      BY <1>5, <2>3 DEF ReadTable, Return
    <3>2. op[q].kind # "drop"
      BY <1>5 DEF ReadTable, DataOf
    <3> QED
      BY <2>1, <3>1, <3>2 DEF DataOf
  <2> QED
    BY <2>2, <2>3
<1>6. CASE CreateTemp(q)
  <2>1. op'[q] = op[q] /\ tab'[q] = tab[q] /\ store'[tab'[q]] = store[tab[q]]
    BY <1>6 DEF CreateTemp
  <2>2. CASE pc'[q] = "idle"
    BY <2>2 DEF DataOf
  <2>3. CASE pc'[q] # "idle"
    <3>1. pc[q] = "temp" /\ pc'[q] = "write" /\ buf'[q] = buf[q]
      BY <1>6, <2>3 DEF CreateTemp, Return
    <3> QED
      BY <2>1, <3>1 DEF DataOf
  <2> QED
    BY <2>2, <2>3
<1>7. CASE WriteTemp(q) \/ SyncTemp(q)
  BY <1>7 DEF WriteTemp, SyncTemp, DataOf
<1>8. CASE Rename(q)
  <2>1. buf[q] = After(op[q], store[tab[q]]) /\ ~ Rejected(op[q], store[tab[q]])
        /\ ~ NothingToDo(op[q], store[tab[q]])
        /\ op[q].kind # "drop" /\ temp[q] = "synced" /\ op[q] \in Operations
    BY <1>8, ParquetStorageAssumption DEF Rename, DataOf
  <2>2. buf[q].kind = "file"
    BY <2>1, AfterIsFile
  <2>3. pc'[q] = "syncdir" /\ store'[tab'[q]] = buf[q]
    BY <1>8, <2>1 DEF Rename
  <2> QED
    BY <2>2, <2>3 DEF DataOf
<1>9. CASE RmDir(q) \/ SyncDir(q) \/ FailWrite(q) \/ OpenRead(q)
  <2>1. pc'[q] = "idle"
    BY <1>9 DEF RmDir, SyncDir, FailWrite, OpenRead, Return
  <2> QED
    BY <2>1 DEF DataOf
<1> QED
  BY <1>1, <1>2, <1>3, <1>4, <1>5, <1>6, <1>7, <1>8, <1>9 DEF Step

\* The data invariant is preserved by every step.
LEMMA DataStep ==
  ControlTypeOK /\ LockInv /\ (\A p \in Procs : DataOf(p)) /\ [Next]_vars
    => (\A p \in Procs : DataOf(p)')
<1> SUFFICES ASSUME ControlTypeOK, LockInv, \A p \in Procs : DataOf(p), [Next]_vars,
                    NEW q \in Procs
             PROVE  DataOf(q)'
  OBVIOUS
<1> USE DEF ControlTypeOK
<1>1. ASSUME NEW p \in Procs, NEW t \in Tables, NEW o \in Ops, Begin(p, t, o)
      PROVE  DataOf(q)'
  <2>1. CASE q = p
    BY <1>1, <2>1 DEF Begin, DataOf
  <2>2. CASE q # p
    BY <1>1, <2>2, DataFrame DEF Begin
  <2> QED
    BY <2>1, <2>2
<1>2. ASSUME NEW p \in Procs, NEW t \in Tables, BeginRead(p, t)
      PROVE  DataOf(q)'
  <2>1. CASE q = p
    BY <1>2, <2>1 DEF BeginRead, DataOf
  <2>2. CASE q # p
    BY <1>2, <2>2, DataFrame DEF BeginRead
  <2> QED
    BY <2>1, <2>2
<1>3. ASSUME NEW p \in Procs, Step(p), q # p
      PROVE  DataOf(q)'
  <2>1. /\ pc'[q] = pc[q] /\ op'[q] = op[q] /\ tab'[q] = tab[q] /\ buf'[q] = buf[q]
        /\ temp'[q] = temp[q]
    <3>1. CASE LookupLock(p) \/ CreateLock(p) \/ Lock(p) \/ OpenRead(p)
      BY <1>3, <3>1 DEF LookupLock, CreateLock, Lock, OpenRead
    <3>2. CASE MkDir(p) \/ Unlink(p) \/ RmDir(p)
      BY <1>3, <3>2 DEF MkDir, Unlink, RmDir, Return
    <3>3. CASE ReadTable(p)
      BY <1>3, <3>3 DEF ReadTable, Return
    <3>4. CASE CreateTemp(p)
      BY <1>3, <3>4 DEF CreateTemp, Return
    <3>5. CASE WriteTemp(p) \/ SyncTemp(p) \/ Rename(p)
      BY <1>3, <3>5 DEF WriteTemp, SyncTemp, Rename
    <3>6. CASE SyncDir(p) \/ FailWrite(p)
      BY <1>3, <3>6 DEF SyncDir, FailWrite, Return
    <3> QED
      BY <1>3, <3>1, <3>2, <3>3, <3>4, <3>5, <3>6 DEF Step
  <2>2. ASSUME pc[q] \in Locked PROVE store'[tab[q]] = store[tab[q]]
    <3>1. CASE pc[p] \in Locked
      <4>1. tab[p] # tab[q]
        BY <1>3, <2>2, <3>1, Exclusion
      <4> QED
        BY <1>3, <2>2, <3>1, <4>1
           DEF Step, LookupLock, CreateLock, Lock, MkDir, Unlink, RmDir, ReadTable, CreateTemp,
               WriteTemp, SyncTemp, Rename, SyncDir, FailWrite, OpenRead
    <3>2. CASE pc[p] \notin Locked
      BY <1>3, <3>2
         DEF Step, LookupLock, CreateLock, Lock, MkDir, Unlink, RmDir, ReadTable, CreateTemp,
             WriteTemp, SyncTemp, Rename, SyncDir, FailWrite, OpenRead
    <3> QED
      BY <3>1, <3>2
  <2> QED
    BY <2>1, <2>2, DataFrame
<1>4. ASSUME Step(q)
      PROVE  DataOf(q)'
  BY <1>4, OwnDataStep
<1>5. CASE Crash
  BY <1>5 DEF Crash, DataOf
<1>6. CASE UNCHANGED vars
  BY <1>6, DataFrame DEF vars
<1> QED
  BY <1>1, <1>2, <1>3, <1>4, <1>5, <1>6 DEF Next
-----------------------------------------------------------------------------
(* The disk *)

\* The disk invariant is preserved by every step: only MkDir, Unlink, RmDir,
\* Rename, SyncDir and a crash change what the disk may hold.
LEMMA DiskStep ==
  ControlTypeOK /\ DataInv /\ DiskInv /\ [Next]_vars => DiskInv'
<1> SUFFICES ASSUME ControlTypeOK, DataInv, DiskInv, [Next]_vars
             PROVE  DiskInv'
  OBVIOUS
<1> USE DEF ControlTypeOK
<1>1. ASSUME UNCHANGED <<store, disk, acked, got>>
      PROVE  DiskInv'
  BY <1>1 DEF DiskInv
<1>2. ASSUME NEW p \in Procs, Step(p)
      PROVE  DiskInv'
  <2>1. CASE LookupLock(p) \/ CreateLock(p) \/ Lock(p) \/ WriteTemp(p) \/ SyncTemp(p) \/ FailWrite(p)
    BY <2>1, <1>1 DEF LookupLock, CreateLock, Lock, WriteTemp, SyncTemp, FailWrite
  <2>2. CASE ReadTable(p) \/ CreateTemp(p)
    BY <2>2, <1>1 DEF ReadTable, CreateTemp
  <2>3. CASE MkDir(p)
    <3>1. tab[p] \in Tables
      BY <2>3 DEF MkDir
    <3> QED
      BY <2>3, <3>1 DEF MkDir, DiskInv, NoDir, NoFile, Torn, NoAck
  <2>4. CASE Unlink(p)
    BY <2>4 DEF Unlink, DiskInv, NoDir, NoFile, Torn
  <2>5. CASE RmDir(p)
    <3>1. tab[p] \in Tables /\ store[tab[p]] \in {NoDir, NoFile}
      BY <2>5 DEF RmDir, DataInv, DataOf
    <3>2. acked[tab[p]] = NoAck
      BY <3>1 DEF DiskInv, NoDir, NoFile
    <3> QED
      BY <2>5, <3>1, <3>2 DEF RmDir, DiskInv, NoDir, Torn
  <2>6. CASE Rename(p)
    <3>1. /\ tab[p] \in Tables /\ temp[p] = "synced" /\ op[p] \in Operations
          /\ buf[p] = After(op[p], store[tab[p]]) /\ op[p].kind # "drop"
      BY <2>6, ParquetStorageAssumption DEF Rename, DataInv, DataOf
    <3>2. buf[p] # Torn
      BY <3>1, AfterIsFile DEF Torn
    <3>3. /\ store' = [store EXCEPT ![tab[p]] = buf[p]]
          /\ disk' = [disk EXCEPT ![tab[p]] = @ \cup {buf[p]}]
          /\ acked' = [acked EXCEPT ![tab[p]] = NoAck]
          /\ got' = got
      BY <2>6, <3>1 DEF Rename
    <3> QED
      BY <3>1, <3>2, <3>3 DEF DiskInv
  <2>7. CASE SyncDir(p)
    <3>1. tab[p] \in Tables /\ store[tab[p]].kind = "file"
      BY <2>7 DEF SyncDir, DataInv, DataOf
    <3>2. store[tab[p]] # Torn
      BY <3>1 DEF Torn
    <3>3. store' = store /\ got' = got
      BY <2>7 DEF SyncDir
    <3>4. \/ /\ disk' = [disk EXCEPT ![tab[p]] = {store[tab[p]]}]
             /\ acked' = [acked EXCEPT ![tab[p]] = store[tab[p]]]
          \/ UNCHANGED <<disk, acked>>
      BY <2>7 DEF SyncDir
    <3> QED
      BY <3>1, <3>2, <3>3, <3>4 DEF DiskInv
  <2>8. CASE OpenRead(p)
    <3>1. tab[p] \in Tables
      BY <2>8 DEF OpenRead
    <3>2. store[tab[p]] # Torn
      BY <3>1 DEF DiskInv
    <3>3. /\ UNCHANGED <<store, disk, acked>>
          /\ got' = [got EXCEPT ![p] = store[tab[p]]] \/ got' = got
      BY <2>8 DEF OpenRead
    <3> QED
      BY <3>2, <3>3 DEF DiskInv
  <2> QED
    BY <1>2, <2>1, <2>2, <2>3, <2>4, <2>5, <2>6, <2>7, <2>8 DEF Step
<1>3. CASE Crash
  <2>1. PICK found \in [Tables -> UNION {disk[t] : t \in Tables}] :
          /\ \A t \in Tables : found[t] \in disk[t]
          /\ store' = found
          /\ disk' = [t \in Tables |-> {found[t]}]
    BY <1>3 DEF Crash
  <2>2. acked' = acked /\ got' = [p \in Procs |-> NoFile]
    BY <1>3 DEF Crash
  <2> QED
    BY <2>1, <2>2 DEF DiskInv, NoFile, Torn
<1> QED
  BY <1>1, <1>2, <1>3 DEF Next, Begin, BeginRead, vars
-----------------------------------------------------------------------------
(* The history *)

\* The history invariant is preserved by every step.
LEMMA EffectStep ==
  ControlTypeOK /\ DataInv /\ EffectInv /\ [Next]_vars => EffectInv'
<1> SUFFICES ASSUME ControlTypeOK, DataInv, EffectInv, [Next]_vars
             PROVE  EffectInv'
  OBVIOUS
<1> USE DEF ControlTypeOK
<1>1. ASSUME NEW p \in Procs, NEW t \in Tables, NEW o \in Ops, Begin(p, t, o)
      PROVE  EffectInv'
  BY <1>1 DEF Begin, EffectInv
<1>2. ASSUME NEW p \in Procs, NEW t \in Tables, BeginRead(p, t)
      PROVE  EffectInv'
  BY <1>2 DEF BeginRead, EffectInv
<1>3. ASSUME NEW p \in Procs, Step(p)
      PROVE  EffectInv'
  <2>1. CASE LookupLock(p) \/ CreateLock(p)
    BY <2>1 DEF LookupLock, CreateLock, EffectInv
  <2>1b. CASE WriteTemp(p) \/ SyncTemp(p)
    BY <2>1b DEF WriteTemp, SyncTemp, EffectInv
  <2>1c. CASE MkDir(p)
    BY <2>1c DEF MkDir, EffectInv
  <2>2. CASE Lock(p)
    BY <2>2 DEF Lock, FirstStep, EffectInv
  <2>3. CASE Unlink(p)
    <3>1. op[p].kind = "drop"
      BY <2>3 DEF Unlink, DataInv, DataOf
    <3> QED
      BY <2>3, <3>1 DEF Unlink, EffectInv
  <2>4. CASE RmDir(p)
    BY <2>4 DEF RmDir, Return, EffectInv
  <2>4b. CASE SyncDir(p)
    BY <2>4b DEF SyncDir, Return, EffectInv
  <2>4c. CASE FailWrite(p)
    BY <2>4c DEF FailWrite, Return, EffectInv
  <2>5. CASE ReadTable(p)
    <3>1. UNCHANGED <<op, applied>> /\ pc[p] = "read"
      BY <2>5 DEF ReadTable
    <3>2. PICK r \in {"ok", "error", "none"}, s \in {"idle", "temp"} :
            /\ pc' = [pc EXCEPT ![p] = s]
            /\ IF s = "idle" THEN res' = [res EXCEPT ![p] = r] ELSE res' = res
      BY <2>5 DEF ReadTable, Return
    <3> QED
      BY <3>1, <3>2 DEF EffectInv
  <2>6. CASE CreateTemp(p)
    <3>1. UNCHANGED <<op, applied>> /\ pc[p] = "temp"
      BY <2>6 DEF CreateTemp
    <3>2. \/ pc' = [pc EXCEPT ![p] = "idle"] /\ res' = [res EXCEPT ![p] = "error"]
          \/ pc' = [pc EXCEPT ![p] = "write"] /\ res' = res
      BY <2>6 DEF CreateTemp, Return
    <3> QED
      BY <3>1, <3>2 DEF EffectInv
  <2>7. CASE Rename(p)
    BY <2>7 DEF Rename, EffectInv
  <2>8. CASE OpenRead(p)
    BY <2>8 DEF OpenRead, EffectInv
  <2> QED
    BY <1>3, <2>1, <2>1b, <2>1c, <2>2, <2>3, <2>4, <2>4b, <2>4c, <2>5, <2>6, <2>7, <2>8 DEF Step
<1>4. CASE Crash
  BY <1>4 DEF Crash, EffectInv
<1>5. CASE UNCHANGED vars
  BY <1>5 DEF vars, EffectInv
<1> QED
  BY <1>1, <1>2, <1>3, <1>4, <1>5 DEF Next
-----------------------------------------------------------------------------
(* The theorems *)

\* ParquetStorage::open establishes the invariant: no lock, no call in flight.
LEMMA InitIInv == Init => IInv
<1> SUFFICES ASSUME Init PROVE IInv
  OBVIOUS
<1>1. ControlTypeOK
  BY ParquetStorageAssumption DEF Init, ControlTypeOK
<1>2. LockInv
  BY DEF Init, LockInv
<1>3. DataInv
  BY DEF Init, DataInv, DataOf
<1>4. DiskInv
  BY DEF Init, DiskInv, NoDir, NoFile, Torn
<1>5. EffectInv
  BY DEF Init, EffectInv
<1> QED
  BY <1>1, <1>2, <1>3, <1>4, <1>5 DEF IInv

\* The inductive invariant holds in every reachable state: mutual exclusion per
\* table, the batch in memory current, the disk never torn, the history true.
THEOREM Inductive == Spec => []IInv
<1>1. IInv /\ [Next]_vars => IInv'
  <2> SUFFICES ASSUME IInv, [Next]_vars PROVE IInv'
    OBVIOUS
  <2>1. ControlTypeOK /\ LockInv /\ DataInv /\ DiskInv /\ EffectInv
    BY DEF IInv
  <2>2. ControlTypeOK' /\ LockInv'
    BY <2>1, ControlTypeStep, LockStep
  <2>3. DataInv'
    BY <2>1, DataStep DEF DataInv
  <2>4. DiskInv' /\ EffectInv'
    BY <2>1, DiskStep, EffectStep
  <2> QED
    BY <2>2, <2>3, <2>4 DEF IInv
<1> QED
  BY <1>1, InitIInv, PTL DEF Spec

\* Type correctness of the steps, locks and call state, for any number of threads.
THEOREM ControlTypeCorrect == Spec => []ControlTypeOK
<1>1. IInv => ControlTypeOK
  BY DEF IInv
<1> QED
  BY <1>1, Inductive, PTL

\* No lost update: lock_table's double-checked creation gives a table one mutex,
\* and the guard covers the read, the change and the rename.
THEOREM NoLostUpdate == Spec => []NoStaleRewrite
<1>1. IInv => NoStaleRewrite
  BY DEF IInv, DataInv, DataOf, NoStaleRewrite
<1> QED
  BY <1>1, Inductive, PTL

\* write_parquet_atomic never puts a half-written file under the table's name,
\* crashes and unlocked readers included.
THEOREM NeverTornFile == Spec => []NeverTorn
<1>1. IInv => NeverTorn
  BY DEF IInv, DiskInv, NeverTorn
<1> QED
  BY <1>1, Inductive, PTL

\* A write acknowledged after the directory sync survives every crash until the
\* next operation on the table replaces it.
THEOREM Durability == Spec => []AckSurvivesCrash
<1>1. IInv => AckSurvivesCrash
  BY DEF IInv, DiskInv, AckSurvivesCrash
<1> QED
  BY <1>1, Inductive, PTL

\* A call that returned an error left the table as it was (drop_table excepted).
THEOREM FailureAtomicity == Spec => []ErrorMeansNoEffect
<1>1. IInv => ErrorMeansNoEffect
  BY DEF IInv, EffectInv, ErrorMeansNoEffect
<1> QED
  BY <1>1, Inductive, PTL
=============================================================================
