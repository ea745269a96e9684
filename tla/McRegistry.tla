----------------------------- MODULE McRegistry -----------------------------
(***************************************************************************)
(* The bounded registries of the MaxCompute server: InstanceManager        *)
(* (maxcompute-protocol/src/handlers/mod.rs, used by instances.rs) and     *)
(* TunnelSessionManager (tunnel/session.rs), which evict in the same way.  *)
(* A request that finds the registry full lists the entries, computes how  *)
(* many to drop from a fresh count, drops the oldest one by one, and only  *)
(* then, after its own query, stamps and inserts its entry.  Nothing holds *)
(* a lock from the first step to the last.                                 *)
(***************************************************************************)
EXTENDS Integers, Sequences, FiniteSets

CONSTANTS Clients, Capacity, EvictionTarget, MaxStamp,
          Kinds        \* {"instance"}, or {"upload", "download"}

VARIABLES entries,     \* stamp -> [kind, status, result], None: no entry
          clock,       \* the last stamp given out
          run,
          reached      \* auxiliary: the registry has held EvictionTarget entries

registryVars == <<entries, clock, run, reached>>

Stamps == 1..MaxStamp
None == [kind |-> "none", status |-> "none", result |-> "none"]
Idle == [at |-> "idle", kind |-> "none", list |-> << >>, stamp |-> 0, result |-> "none"]

RegistryInit ==
    /\ entries = [s \in Stamps |-> None] /\ clock = 0
    /\ run = [c \in Clients |-> Idle] /\ reached = FALSE

Present == {s \in Stamps : entries[s] # None}
Total == Cardinality(Present)

-----------------------------------------------------------------------------
(* submit_instance has run its SQL, or skipped it as a no-op, and stamps   *)
(* the finished instance, a failed one too, before it looks for room.      *)
SubmitInstance(c, result) ==
    /\ "instance" \in Kinds /\ run[c].at = "idle" /\ clock < MaxStamp
    /\ clock' = clock + 1
    /\ run' = [run EXCEPT ![c] = [Idle EXCEPT !.at = "check", !.kind = "instance",
                                              !.result = result, !.stamp = clock']]
    /\ UNCHANGED <<entries, reached>>

(* create_upload_session and create_download_session make room first.      *)
CreateSession(c, kind) ==
    /\ kind # "instance" /\ run[c].at = "idle" /\ clock < MaxStamp
    /\ run' = [run EXCEPT ![c] = [Idle EXCEPT !.at = "check", !.kind = kind, !.result = "ok"]]
    /\ UNCHANGED <<entries, clock, reached>>

RoomMade(c) == IF run[c].kind = "instance" THEN "insert" ELSE "schema"

(* evict_if_needed, and the early return of evict_oldest.                  *)
Check(c) ==
    /\ run[c].at = "check"
    /\ run' = [run EXCEPT ![c].at = IF Total >= Capacity /\ Total > EvictionTarget THEN "collect" ELSE RoomMade(c)]
    /\ UNCHANGED <<entries, clock, reached>>

(* evict_oldest: the entries, oldest first.                                *)
Collect(c) ==
    /\ run[c].at = "collect"
    /\ run' = [run EXCEPT ![c].at = "count",
                          ![c].list = SelectSeq([s \in Stamps |-> s], LAMBDA s : s \in Present)]
    /\ UNCHANGED <<entries, clock, reached>>

(* to_remove, an unsigned difference: below the target it would wrap to a  *)
(* number no list is as long as.                                           *)
ToRemoveMore ==                                \* mutation: two entries too many
    IF Total >= EvictionTarget THEN Total - EvictionTarget + 2 ELSE MaxStamp
ToRemove == IF Total >= EvictionTarget THEN Total - EvictionTarget ELSE MaxStamp
Count(c) ==
    /\ run[c].at = "count"
    /\ run' = [run EXCEPT ![c].at = "remove",
                          ![c].list = SubSeq(@, 1, IF ToRemove < Len(@) THEN ToRemove ELSE Len(@))]
    /\ UNCHANGED <<entries, clock, reached>>

RemoveOldest(c) ==
    /\ run[c].at = "remove"
    /\ IF run[c].list = << >> THEN run' = [run EXCEPT ![c].at = RoomMade(c)] /\ UNCHANGED entries
       ELSE /\ entries' = [entries EXCEPT ![Head(run[c].list)] = None]
            /\ run' = [run EXCEPT ![c].list = Tail(@)]
    /\ UNCHANGED <<clock, reached>>

(* fetch_table_schema: an error ends the request without an entry, and     *)
(* otherwise created_at is read just before the insert.                    *)
FetchSchema(c) ==
    /\ run[c].at = "schema"
    /\ \/ run' = [run EXCEPT ![c] = Idle] /\ UNCHANGED clock
       \/ /\ clock < MaxStamp /\ clock' = clock + 1
          /\ run' = [run EXCEPT ![c].at = "insert", ![c].stamp = clock']
    /\ UNCHANGED <<entries, reached>>

Insert(c) ==
    /\ run[c].at = "insert"
    /\ entries' = [entries EXCEPT ![run[c].stamp] =
                     [kind |-> run[c].kind, result |-> run[c].result,
                      status |-> IF run[c].kind # "instance" THEN "normal"
                                 ELSE IF run[c].result = "error" THEN "failed" ELSE "success"]]
    /\ run' = [run EXCEPT ![c] = Idle]
    /\ reached' = (reached \/ Total + 1 >= EvictionTarget)
    /\ UNCHANGED clock

(* stop_instance: the status of a finished instance changes too.           *)
Cancel(s) ==
    /\ entries[s].kind = "instance"
    /\ entries' = [entries EXCEPT ![s].status = "cancelled"]
    /\ UNCHANGED <<clock, run, reached>>

RegistryNext ==
    \/ \E c \in Clients :
         \/ \E r \in {"ok", "error"} : SubmitInstance(c, r)
         \/ \E k \in Kinds : CreateSession(c, k)
         \/ Check(c) \/ Collect(c) \/ Count(c) \/ RemoveOldest(c) \/ FetchSchema(c) \/ Insert(c)
    \/ \E s \in Stamps : Cancel(s)

RegistrySpec == RegistryInit /\ [][RegistryNext]_registryVars

(* get_instance ?result: an error text only for a failed instance.         *)
ResultShown(e) == IF e.status = "failed" THEN "error" ELSE e.result

RegistryTypeOK ==
    /\ clock \in 0..MaxStamp
    /\ \A s \in Stamps : entries[s] # None =>
          entries[s].kind \in Kinds /\ entries[s].status \in {"normal", "success", "failed", "cancelled"}

(***************************************************************************)
(* Two requests that check, list, count, drop and insert at different      *)
(* times keep the registry within its bounds: never more entries than the  *)
(* capacity and one, and, once the target was reached, never fewer than    *)
(* the target less one, so that two requests that evict at once do not     *)
(* each drop a full share.  (A third request can count while the other two *)
(* have gone below the target; see ToRemove.)  An instance shows the       *)
(* result it had, stopped or not.                                          *)
(***************************************************************************)
EvictionBounded ==
    /\ Total <= Capacity + 1
    /\ reached => Total >= EvictionTarget - 1
    /\ \A s \in Present : entries[s].kind = "instance" => ResultShown(entries[s]) = entries[s].result

=============================================================================
