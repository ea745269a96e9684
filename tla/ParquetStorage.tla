--------------------------- MODULE ParquetStorage ---------------------------
(***************************************************************************)
(* ParquetStorage (crates/fe-storage/src/lib.rs): one data.parquet per     *)
(* table, replaced as a whole by every write under a per-table lock, read  *)
(* without a lock, on a file system that may crash between any two steps.  *)
(*                                                                         *)
(* A process is a thread that calls the storage.  One action is one step   *)
(* of the code that another thread, or a crash, can come between.          *)
(***************************************************************************)
EXTENDS TableOps, FiniteSets

CONSTANTS Procs,      \* threads
          Tables,     \* table names, as the "{db}.{table}" key
          Ops,        \* operations clients issue
          MaxOps,     \* bound: operations started in a behaviour
          MaxCrashes  \* bound: crashes in a behaviour

ASSUME ParquetStorageAssumption ==
    /\ Ops \subseteq Operations
    /\ MaxOps \in Nat
    /\ MaxCrashes \in Nat

VARIABLES
    store,        \* store[t]: the table's directory as the running system sees it
    disk,         \* disk[t]: the states of it a crash may leave behind
    write_locks,  \* the lock map: key -> mutex
    owner,        \* owner[m]: the thread that holds mutex m
    pc, op, tab,  \* per thread: next step, operation and table
    mtx,          \* per thread: the mutex lock_table got from the map
    buf,          \* per thread: the batch to be written
    temp,         \* per thread: its temporary file
    res,          \* per thread: what the last call returned
    got,          \* per thread: what the last read returned
    started,      \* operations started
    crashes,      \* crashes so far
    applied,      \* history: the threads whose last call has changed the table
    acked         \* history: what the last durable acknowledgement promised

vars == <<store, disk, write_locks, owner, pc, op, tab, mtx, buf, temp, res, got,
          started, crashes, applied, acked>>

\* A mutex is named after the call that created it.
Mutexes == Tables \X Procs

NoMutex == <<>>
NoProc  == "noproc"
NoOp    == [kind |-> "none"]
NoAck   == [kind |-> "noack"]
NoTable == "notable"

ASSUME SentinelAssumption ==
    /\ NoTable \notin Tables
    /\ NoProc \notin Procs

\* Steps taken with the table's mutex held.
Locked == {"mkdir", "unlink", "rmdir", "read", "temp", "write", "fsync", "rename",
           "syncdir"}

\* Steps with the whole next file in memory, computed from the one on disk.
Rewriting == {"temp", "write", "fsync", "rename"}

Steps == {"idle", "fast", "slow", "lock", "open"} \cup Locked

Init ==
    /\ store = [t \in Tables |-> NoDir]
    /\ disk = [t \in Tables |-> {NoDir}]
    /\ write_locks = [t \in Tables |-> NoMutex]
    /\ owner = [m \in Mutexes |-> NoProc]
    /\ pc = [p \in Procs |-> "idle"]
    /\ op = [p \in Procs |-> NoOp]
    /\ tab = [p \in Procs |-> NoTable]
    /\ mtx = [p \in Procs |-> NoMutex]
    /\ buf = [p \in Procs |-> NoFile]
    /\ temp = [p \in Procs |-> "none"]
    /\ res = [p \in Procs |-> "none"]
    /\ got = [p \in Procs |-> NoFile]
    /\ started = 0
    /\ crashes = 0
    /\ applied = {}
    /\ acked = [t \in Tables |-> NoAck]
-----------------------------------------------------------------------------
(* lock_table *)

\* A thread calls create_table, drop_table, insert, update, delete, truncate or
\* one of the column rewrites.
Begin(p, t, o) ==
    /\ pc[p] = "idle" /\ started < MaxOps
    /\ started' = started + 1
    /\ pc' = [pc EXCEPT ![p] = "fast"]
    /\ op' = [op EXCEPT ![p] = o]
    /\ tab' = [tab EXCEPT ![p] = t]
    /\ res' = [res EXCEPT ![p] = "none"]
    /\ applied' = applied \ {p}
    /\ UNCHANGED <<store, disk, write_locks, owner, mtx, buf, temp, got, crashes, acked>>

\* Fast path: clone the Arc under the map's read lock.
LookupLock(p) ==
    /\ pc[p] = "fast"
    /\ mtx' = [mtx EXCEPT ![p] = write_locks[tab[p]]]
    /\ pc' = [pc EXCEPT ![p] = IF write_locks[tab[p]] = NoMutex THEN "slow" ELSE "lock"]
    /\ UNCHANGED <<store, disk, write_locks, owner, op, tab, buf, temp, res, got, started,
                   crashes, applied, acked>>

\* Mutation: no second look under the write lock (insert for or_insert_with).
CreateLockBlindly(p) ==
    /\ pc[p] = "slow"
    /\ write_locks' = [write_locks EXCEPT ![tab[p]] = <<tab[p], p>>]
    /\ mtx' = [mtx EXCEPT ![p] = <<tab[p], p>>]
    /\ pc' = [pc EXCEPT ![p] = "lock"]
    /\ UNCHANGED <<store, disk, owner, op, tab, buf, temp, res, got, started, crashes,
                   applied, acked>>

\* Slow path: entry(key).or_insert_with(new mutex) under the map's write lock.
CreateLock(p) ==
    /\ pc[p] = "slow"
    /\ LET m == IF write_locks[tab[p]] = NoMutex THEN <<tab[p], p>> ELSE write_locks[tab[p]]
       IN  /\ write_locks' = [write_locks EXCEPT ![tab[p]] = m]
           /\ mtx' = [mtx EXCEPT ![p] = m]
    /\ pc' = [pc EXCEPT ![p] = "lock"]
    /\ UNCHANGED <<store, disk, owner, op, tab, buf, temp, res, got, started, crashes,
                   applied, acked>>

FirstStep(o) ==
    CASE o.kind = "create" -> "mkdir"
      [] o.kind = "drop"   -> "unlink"
      [] OTHER             -> "read"

\* Mutation: try_lock, and go on without the mutex.
LockWithoutWaiting(p) ==
    /\ pc[p] = "lock"
    /\ owner' = [owner EXCEPT ![mtx[p]] = p]
    /\ pc' = [pc EXCEPT ![p] = FirstStep(op[p])]
    /\ UNCHANGED <<store, disk, write_locks, op, tab, mtx, buf, temp, res, got, started,
                   crashes, applied, acked>>

\* lock.lock(): blocks while another thread holds the mutex.
Lock(p) ==
    /\ pc[p] = "lock"
    /\ owner[mtx[p]] = NoProc
    /\ owner' = [owner EXCEPT ![mtx[p]] = p]
    /\ pc' = [pc EXCEPT ![p] = FirstStep(op[p])]
    /\ UNCHANGED <<store, disk, write_locks, op, tab, mtx, buf, temp, res, got, started,
                   crashes, applied, acked>>

\* Mutation: an error path that does not run the guard's drop.
ReturnKeepingLock(p, r) ==
    /\ owner' = IF r = "error" THEN owner ELSE [owner EXCEPT ![mtx[p]] = NoProc]
    /\ mtx' = [mtx EXCEPT ![p] = NoMutex]
    /\ buf' = [buf EXCEPT ![p] = NoFile]
    /\ pc' = [pc EXCEPT ![p] = "idle"]
    /\ res' = [res EXCEPT ![p] = r]

\* The call returns r; TableWriteGuard's drop releases the mutex, on the error
\* and the unwinding paths too, and the call's locals are gone.
Return(p, r) ==
    /\ owner' = [owner EXCEPT ![mtx[p]] = NoProc]
    /\ mtx' = [mtx EXCEPT ![p] = NoMutex]
    /\ buf' = [buf EXCEPT ![p] = NoFile]
    /\ pc' = [pc EXCEPT ![p] = "idle"]
    /\ res' = [res EXCEPT ![p] = r]
-----------------------------------------------------------------------------
(* create_table, drop_table *)

\* create_dir_all(table_dir), then the empty file is written.
MkDir(p) ==
    /\ pc[p] = "mkdir"
    /\ LET d == IF store[tab[p]] = NoDir THEN NoFile ELSE store[tab[p]]
       IN  /\ store' = [store EXCEPT ![tab[p]] = d]
           /\ disk' = [disk EXCEPT ![tab[p]] = @ \cup {d}]
    /\ buf' = [buf EXCEPT ![p] = EmptyBatch(op[p].cols)]
    /\ pc' = [pc EXCEPT ![p] = "temp"]
    /\ UNCHANGED <<write_locks, owner, op, tab, mtx, temp, res, got, started, crashes,
                   applied, acked>>

\* remove_dir_all: data.parquet goes first ...
Unlink(p) ==
    /\ pc[p] = "unlink"
    /\ LET d == IF store[tab[p]] = NoDir THEN NoDir ELSE NoFile
       IN  /\ store' = [store EXCEPT ![tab[p]] = d]
           /\ disk' = [disk EXCEPT ![tab[p]] = @ \cup {d}]
    /\ acked' = [acked EXCEPT ![tab[p]] = NoAck]
    /\ applied' = applied \cup {p}
    /\ pc' = [pc EXCEPT ![p] = "rmdir"]
    /\ UNCHANGED <<write_locks, owner, op, tab, mtx, buf, temp, res, got, started, crashes>>

\* ... then the directory; nothing is synced.
RmDir(p) ==
    /\ pc[p] = "rmdir"
    /\ store' = [store EXCEPT ![tab[p]] = NoDir]
    /\ disk' = [disk EXCEPT ![tab[p]] = @ \cup {NoDir}]
    /\ Return(p, "ok")
    /\ UNCHANGED <<write_locks, op, tab, temp, got, started, crashes, applied,
                   acked>>
-----------------------------------------------------------------------------
(* insert, update, delete, truncate, rewrite_parquet_add/drop_column *)

\* The existence check, check_dml_limit, read_parquet and the in-memory change.
\* truncate does none of the checks.
ReadTable(p) ==
    /\ pc[p] = "read"
    /\ LET c == store[tab[p]]
       IN  \/ /\ Rejected(op[p], c)
              /\ Return(p, "error")
           \/ /\ NothingToDo(op[p], c)
              /\ Return(p, "ok")
           \/ /\ ~ Rejected(op[p], c) /\ ~ NothingToDo(op[p], c)
              /\ buf' = [buf EXCEPT ![p] = After(op[p], c)]
              /\ pc' = [pc EXCEPT ![p] = "temp"]
              /\ UNCHANGED <<owner, mtx, res>>
    /\ UNCHANGED <<store, disk, write_locks, op, tab, temp, got, started, crashes,
                   applied, acked>>

\* write_parquet_atomic: File::create(temp_path) fails without the directory.
CreateTemp(p) ==
    /\ pc[p] = "temp"
    /\ IF store[tab[p]] = NoDir
       THEN Return(p, "error") /\ UNCHANGED temp
       ELSE /\ temp' = [temp EXCEPT ![p] = "partial"]
            /\ pc' = [pc EXCEPT ![p] = "write"]
            /\ UNCHANGED <<owner, mtx, buf, res>>
    /\ UNCHANGED <<store, disk, write_locks, op, tab, got, started, crashes,
                   applied, acked>>

\* ArrowWriter write and close.
WriteTemp(p) ==
    /\ pc[p] = "write"
    /\ temp' = [temp EXCEPT ![p] = "written"]
    /\ pc' = [pc EXCEPT ![p] = "fsync"]
    /\ UNCHANGED <<store, disk, write_locks, owner, op, tab, mtx, buf, res, got, started,
                   crashes, applied, acked>>

\* Mutation: the file is renamed without having been synced.
SyncTempSkipped(p) ==
    /\ pc[p] = "fsync"
    /\ pc' = [pc EXCEPT ![p] = "rename"]
    /\ UNCHANGED <<store, disk, write_locks, owner, op, tab, mtx, buf, temp, res, got, started,
                   crashes, applied, acked>>

\* sync_all on the temporary file.
SyncTemp(p) ==
    /\ pc[p] = "fsync"
    /\ temp' = [temp EXCEPT ![p] = "synced"]
    /\ pc' = [pc EXCEPT ![p] = "rename"]
    /\ UNCHANGED <<store, disk, write_locks, owner, op, tab, mtx, buf, res, got, started,
                   crashes, applied, acked>>

\* rename(temp_path, path).  A file renamed before it was synced may be found
\* torn after a crash.
Rename(p) ==
    /\ pc[p] = "rename"
    /\ LET d == IF temp[p] = "partial" THEN Torn ELSE buf[p]
       IN  /\ store' = [store EXCEPT ![tab[p]] = d]
           /\ disk' = [disk EXCEPT ![tab[p]] =
                          @ \cup {d} \cup (IF temp[p] = "synced" THEN {} ELSE {Torn})]
    /\ temp' = [temp EXCEPT ![p] = "none"]
    /\ applied' = applied \cup {p}
    /\ acked' = [acked EXCEPT ![tab[p]] = NoAck]
    /\ pc' = [pc EXCEPT ![p] = "syncdir"]
    /\ UNCHANGED <<write_locks, owner, op, tab, mtx, buf, res, got, started, crashes>>

\* Mutation: the directory is never synced, and the write acknowledged.
SyncDirSkipped(p) ==
    /\ pc[p] = "syncdir"
    /\ acked' = [acked EXCEPT ![tab[p]] = store[tab[p]]]
    /\ Return(p, "ok")
    /\ UNCHANGED <<store, disk, write_locks, op, tab, temp, got, started, crashes, applied>>

\* Mutation: a failed directory sync is returned with `?` instead of ignored.
SyncDirReported(p) ==
    /\ pc[p] = "syncdir"
    /\ \/ /\ disk' = [disk EXCEPT ![tab[p]] = {store[tab[p]]}]
          /\ acked' = [acked EXCEPT ![tab[p]] = store[tab[p]]]
          /\ Return(p, "ok")
       \/ Return(p, "error") /\ UNCHANGED <<disk, acked>>
    /\ UNCHANGED <<store, write_locks, op, tab, temp, got, started, crashes, applied>>

\* sync_all on the directory; its error is ignored, and the call succeeds.
SyncDir(p) ==
    /\ pc[p] = "syncdir"
    /\ \/ /\ disk' = [disk EXCEPT ![tab[p]] = {store[tab[p]]}]
          /\ acked' = [acked EXCEPT ![tab[p]] = store[tab[p]]]
       \/ UNCHANGED <<disk, acked>>
    /\ Return(p, "ok")
    /\ UNCHANGED <<store, write_locks, op, tab, temp, got, started, crashes,
                   applied>>

\* Every other error return: an I/O error, or a DML closure that fails.  The
\* temporary file is removed, except when it is the rename that failed; either
\* way nothing looks at it again.  remove_dir_all can fail half way.
FailWrite(p) ==
    /\ pc[p] \in Locked \ {"syncdir"}
    /\ temp' = [temp EXCEPT ![p] = "none"]
    /\ Return(p, "error")
    /\ UNCHANGED <<store, disk, write_locks, op, tab, got, started, crashes,
                   applied, acked>>
-----------------------------------------------------------------------------
(* read, read_with_options: no lock *)

\* if !path.exists() return TableNotFound
BeginRead(p, t) ==
    /\ pc[p] = "idle" /\ started < MaxOps
    /\ started' = started + 1
    /\ tab' = [tab EXCEPT ![p] = t]
    /\ op' = [op EXCEPT ![p] = NoOp]
    /\ applied' = applied \ {p}
    /\ IF Exists(store[t])
       THEN /\ pc' = [pc EXCEPT ![p] = "open"]
            /\ res' = [res EXCEPT ![p] = "none"]
       ELSE /\ res' = [res EXCEPT ![p] = "error"]
            /\ UNCHANGED pc
    /\ UNCHANGED <<store, disk, write_locks, owner, mtx, buf, temp, got, crashes, acked>>

\* File::open pins the file it finds, whatever is renamed over it later.
OpenRead(p) ==
    /\ pc[p] = "open"
    /\ pc' = [pc EXCEPT ![p] = "idle"]
    /\ IF Exists(store[tab[p]])
       THEN /\ got' = [got EXCEPT ![p] = store[tab[p]]]
            /\ res' = [res EXCEPT ![p] = "ok"]
       ELSE /\ res' = [res EXCEPT ![p] = "error"]
            /\ UNCHANGED got
    /\ UNCHANGED <<store, disk, write_locks, owner, op, tab, mtx, buf, temp, started,
                   crashes, applied, acked>>
-----------------------------------------------------------------------------
\* The process dies and is started again: memory is lost, each directory is in
\* one of the states the disk may hold.  Temporary files left behind are never
\* looked at again.
Crash ==
    /\ crashes < MaxCrashes
    /\ crashes' = crashes + 1
    /\ \E found \in [Tables -> UNION {disk[t] : t \in Tables}] :
          /\ \A t \in Tables : found[t] \in disk[t]
          /\ store' = found
          /\ disk' = [t \in Tables |-> {found[t]}]
    /\ write_locks' = [t \in Tables |-> NoMutex]
    /\ owner' = [m \in Mutexes |-> NoProc]
    /\ pc' = [p \in Procs |-> "idle"]
    /\ op' = [p \in Procs |-> NoOp]
    /\ tab' = [p \in Procs |-> NoTable]
    /\ mtx' = [p \in Procs |-> NoMutex]
    /\ buf' = [p \in Procs |-> NoFile]
    /\ temp' = [p \in Procs |-> "none"]
    /\ res' = [p \in Procs |-> "none"]
    /\ got' = [p \in Procs |-> NoFile]
    /\ applied' = {}
    /\ UNCHANGED <<started, acked>>

\* The steps a running thread takes by itself.
Step(p) ==
    \/ LookupLock(p) \/ CreateLock(p) \/ Lock(p)
    \/ MkDir(p) \/ Unlink(p) \/ RmDir(p)
    \/ ReadTable(p) \/ CreateTemp(p) \/ WriteTemp(p) \/ SyncTemp(p) \/ Rename(p)
    \/ SyncDir(p) \/ FailWrite(p) \/ OpenRead(p)

Next ==
    \/ \E p \in Procs, t \in Tables, o \in Ops : Begin(p, t, o)
    \/ \E p \in Procs, t \in Tables : BeginRead(p, t)
    \/ \E p \in Procs : Step(p)
    \/ Crash

Spec == Init /\ [][Next]_vars

\* The operating system schedules every thread that can run.
FairSpec == Spec /\ \A p \in Procs : WF_vars(Step(p))
-----------------------------------------------------------------------------
(* Properties *)

\* Type correctness of the control state: steps, operations and locks.
ControlTypeOK ==
    /\ store = [t \in Tables |-> store[t]]
    /\ disk = [t \in Tables |-> disk[t]]
    /\ write_locks \in [Tables -> Mutexes \cup {NoMutex}]
    /\ owner \in [Mutexes -> Procs \cup {NoProc}]
    /\ pc \in [Procs -> Steps]
    /\ op \in [Procs -> Ops \cup {NoOp}]
    /\ tab \in [Procs -> Tables \cup {NoTable}]
    /\ mtx \in [Procs -> Mutexes \cup {NoMutex}]
    /\ buf = [p \in Procs |-> buf[p]]
    /\ temp \in [Procs -> {"none", "partial", "written", "synced"}]
    /\ res \in [Procs -> {"none", "ok", "error"}]
    /\ got = [p \in Procs |-> got[p]]
    /\ started \in 0 .. MaxOps
    /\ crashes \in 0 .. MaxCrashes
    /\ applied \in SUBSET Procs
    /\ acked = [t \in Tables |-> acked[t]]
    /\ \A p \in Procs : pc[p] # "idle" => tab[p] \in Tables
    /\ \A p \in Procs : pc[p] \notin {"idle", "open"} => op[p] \in Ops
    /\ \A p \in Procs : pc[p] \in Locked \cup {"lock"} => mtx[p] \in Mutexes

\* Type correctness.  Every file that is stored, may be found after a crash, or is
\* about to be written is a RecordBatch: as many cells in each row as the schema
\* has columns, whatever sequence of inserts and column rewrites made it, with
\* batches built for another schema among them.
TypeOK ==
    /\ ControlTypeOK
    /\ \A t \in Tables : \A d \in disk[t] \cup {store[t]} : d \in TableStates /\ Rectangular(d)
    /\ \A p \in Procs : buf[p] \in TableStates /\ Rectangular(buf[p])

\* No lost update: whenever a thread has its next file in memory, its checks still
\* hold of the file in place and the new file is the operation's effect on that
\* one, so the rename never throws away what another thread wrote after the read.  This is what
\* lock_table's double-checked creation and the guard held over read, change
\* and rename are for.
NoStaleRewrite ==
    \A p \in Procs : pc[p] \in Rewriting =>
        /\ ~ Rejected(op[p], store[tab[p]])
        /\ ~ NothingToDo(op[p], store[tab[p]])
        /\ buf[p] = After(op[p], store[tab[p]])

\* A half-written or unflushed file is never under the name data.parquet: not for
\* a reader, who takes no lock, and not after a crash (write, close, sync, rename
\* in that order in write_parquet_atomic).
NeverTorn ==
    /\ \A t \in Tables : Torn \notin disk[t] /\ store[t] # Torn
    /\ \A p \in Procs : got[p] # Torn

\* A write that returned Ok after its directory sync is still there, unchanged,
\* until another operation replaces the file: crashes in between do not undo it.
AckSurvivesCrash ==
    \A t \in Tables : acked[t] # NoAck => store[t] = acked[t]

\* A call that returned an error, or panicked, has not changed the table, so it
\* can be retried.  drop_table is the exception: remove_dir_all can fail with
\* the file already gone.
ErrorMeansNoEffect ==
    \A p \in Procs : res[p] = "error" /\ op[p].kind # "drop" => p \notin applied

\* The DML limit bounds a table by max_rows and one more batch: check_dml_limit
\* looks at the rows already there.
LargestBatch == Max({Len(o.rows) : o \in {x \in Ops : x.kind = "insert"}} \cup {0})

RowLimit ==
    \A t \in Tables :
        store[t].kind = "file" => Len(store[t].rows) <= MaxRows + LargestBatch

\* Every call returns: the lock is released on every path out of a call, so no
\* thread waits for it for ever.
EveryCallReturns == \A p \in Procs : pc[p] # "idle" ~> pc[p] = "idle"
=============================================================================
