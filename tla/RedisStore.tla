----------------------------- MODULE RedisStore -----------------------------
(***************************************************************************)
(* One database of the Redis server: connections that run commands against *)
(* a DashMap of entries with expiry times (redis-protocol/src/storage.rs,  *)
(* handler.rs).  Every DashMap operation is atomic and no command holds    *)
(* two of them together, so a command that reads and then writes has a     *)
(* window in between, and an expired entry is removed in a step of its own *)
(* after the step that found it expired.                                   *)
(*                                                                         *)
(* Time is a countdown in every entry: 2 stands for a second or more left, *)
(* 1 for less than a second, 0 for passed.  `ref' and `mixed' are          *)
(* auxiliary: what the same commands leave when each runs in one step, and *)
(* the keys for which that is no longer asked, because a step of another   *)
(* client, or the clock, fell into the window of a command.                *)
(***************************************************************************)
EXTENDS RedisValues

CONSTANTS Clients, Keys, Commands

VARIABLES db,      \* the entry of each key
          run,     \* the command each client is in the middle of
          ref,     \* auxiliary: the entry after the same commands, one at a time
          mixed    \* auxiliary: keys whose windows were entered

redisVars == <<db, run, ref, mixed>>

NoTtl == -1
Entry(v, left) == [value |-> v, left |-> left]
Gone == Entry(NoValue, NoTtl)
Expired(e) == e.left = 0
(* What a client may see of an entry.                                      *)
View(e) == IF Expired(e) THEN Gone ELSE e

Idle == [cmd |-> [op |-> "none"], at |-> "idle", cur |-> Gone, todo |-> {}]

RedisInit ==
    /\ db = [k \in Keys |-> Gone]
    /\ run = [c \in Clients |-> Idle]
    /\ ref = db
    /\ mixed = {}

Modifies(cmd) == cmd.op \in {"incr", "append", "hset", "hdel", "push", "pop", "sadd", "srem",
                             "zadd", "zrem"}
ReadsFirst(cmd) == cmd.op \in {"read", "rename"} \/ Modifies(cmd)

(* The effect of a read-modify-write command on the value it has read.     *)
Effect(cmd, cur) ==
    CASE cmd.op = "incr"   -> IncrBy(cur, cmd.arg)
      [] cmd.op = "append" -> Append_(cur, Text)
      [] cmd.op = "hset"   -> HSet(cur, <<<<1, cmd.arg>>>>)
      [] cmd.op = "hdel"   -> HDel(cur, {1})
      [] cmd.op = "push"   -> Push(cur, <<cmd.arg>>, TRUE)
      [] cmd.op = "pop"    -> Pop(cur, FALSE)
      [] cmd.op = "sadd"   -> SAdd(cur, {cmd.arg})
      [] cmd.op = "srem"   -> SRem(cur, {1})
      [] cmd.op = "zadd"   -> ZAdd(cur, <<<<cmd.arg, 1>>>>)
      [] cmd.op = "zrem"   -> ZRem(cur, {1})

(* The entry an effect leaves: what is stored loses its expiry.            *)
After(effect, e) ==
    CASE effect.act = "set"  -> Entry(effect.value, NoTtl)
      [] effect.act = "del"  -> Gone
      [] effect.act = "none" -> e

(* The keys a client has read and may still write.  A reader's own removal *)
(* looks again, so it has none.                                            *)
Window(r) ==
    CASE r.at = "idle" \/ (r.at = "lapse" /\ r.cmd.op = "read") -> {}
      [] r.at \in {"purgeAll", "each"} -> IF r.cmd.op = "keys" THEN r.todo ELSE {}
      [] r.cmd.op = "rename" -> {r.cmd.key, r.cmd.to}
      [] OTHER -> {r.cmd.key}

(* Bookkeeping of a step of `actor' (no client: the clock) that leaves the *)
(* entries `new', and would leave `alone' if commands ran one at a time.   *)
Record(actor, new, alone) ==
    LET entered == {k \in Keys : View(new[k]) # View(db[k])
                                 /\ \E c \in Clients \ {actor} : k \in Window(run[c])}
    IN  /\ db' = new
        /\ mixed' = mixed \cup entered
        /\ ref' = [k \in Keys |-> IF k \in mixed' THEN Gone ELSE alone[k]]

Goto(c, r) == run' = [run EXCEPT ![c] = r]
Begin(cmd, at) == [Idle EXCEPT !.cmd = cmd, !.at = at]

(* cmd_set: the NX and XX tests go through Database::exists first.         *)
SetUnconditional(c, cmd) ==
    /\ run[c] = Idle /\ cmd.op = "set" /\ cmd.cond = "always"
    /\ Record(c, [db EXCEPT ![cmd.key] = Entry(cmd.value, cmd.left)],
                 [ref EXCEPT ![cmd.key] = Entry(cmd.value, cmd.left)])
    /\ UNCHANGED run

SetAfterTest(c) ==
    /\ run[c].at = "put" /\ run[c].cmd.op = "set"
    /\ LET cmd == run[c].cmd
           new == Entry(cmd.value, cmd.left)
       IN  Record(c, [db EXCEPT ![cmd.key] = new],
                     [ref EXCEPT ![cmd.key] =
                         IF (cmd.cond = "nx") = (View(@) = Gone) THEN new ELSE @])
    /\ Goto(c, Idle)

(* Database::exists and Database::ttl: an entry found expired is removed   *)
(* in a second step that does not look at it again.                        *)
AfterTest(r, found) ==
    IF r.cmd.op = "set" /\ (r.cmd.cond = "nx") # found THEN [r EXCEPT !.at = "put"]
    ELSE IF r.cmd.op = "rename" THEN [r EXCEPT !.at = "put"]
    ELSE Idle

Test(c, cmd) ==
    /\ run[c] = Idle
    /\ cmd.op \in {"exists", "ttl"} \/ (cmd.op = "set" /\ cmd.cond # "always")
    /\ Goto(c, IF Expired(db[cmd.key]) THEN Begin(cmd, "purge")
               ELSE AfterTest(Begin(cmd, "test"), db[cmd.key] # Gone))
    /\ UNCHANGED <<db, ref, mixed>>

PurgeBlindly(c) ==
    /\ run[c].at = "purge"
    /\ Record(c, [db EXCEPT ![run[c].cmd.key] = Gone], ref)
    /\ Goto(c, AfterTest(run[c], FALSE))

(* Database::get: an expired entry is removed in a second step, which      *)
(* tests again that it is expired (remove_if).                             *)
AfterGet(r, e) ==
    LET got == [r EXCEPT !.cur = e] IN
    CASE r.cmd.op = "read" -> Idle
      [] r.cmd.op = "rename" -> IF e = Gone THEN Idle ELSE [got EXCEPT !.at = "ttl"]
      [] OTHER -> [got EXCEPT !.at = "apply"]

Get(c, cmd) ==
    /\ run[c] = Idle /\ ReadsFirst(cmd)
    /\ Goto(c, IF Expired(db[cmd.key]) THEN Begin(cmd, "lapse")
               ELSE AfterGet(Begin(cmd, "get"), db[cmd.key]))
    /\ UNCHANGED <<db, ref, mixed>>

LapseAlways(e) == Gone                         \* mutation: not looked at again under the write lock
Lapse(e) == IF Expired(e) THEN Gone ELSE e

RemoveIfExpired(c) ==
    /\ run[c].at = "lapse"
    /\ Record(c, [db EXCEPT ![run[c].cmd.key] = Lapse(@)], ref)
    /\ Goto(c, AfterGet(run[c], Gone))

Apply(c) ==
    /\ run[c].at = "apply"
    /\ LET cmd == run[c].cmd IN
       Record(c, [db EXCEPT ![cmd.key] = After(Effect(cmd, run[c].cur.value), @)],
                 [ref EXCEPT ![cmd.key] = After(Effect(cmd, View(@).value), @)])
    /\ Goto(c, Idle)

(* cmd_rename: get, ttl, set under the new name, del of the old one.  Less *)
(* than a second left is a ttl of 0, which becomes no expiry.              *)
RenamedEntry(e) == Entry(e.value, IF e.left = 1 THEN NoTtl ELSE e.left)

RenameTtl(c) ==
    /\ run[c].at = "ttl"
    /\ Goto(c, LET e == db[run[c].cmd.key] IN
               IF Expired(e) THEN [run[c] EXCEPT !.at = "purge", !.cur.left = NoTtl]
               ELSE [run[c] EXCEPT !.at = "put", !.cur.left = e.left])
    /\ UNCHANGED <<db, ref, mixed>>

RenamePut(c) ==
    /\ run[c].at = "put" /\ run[c].cmd.op = "rename"
    /\ LET cmd == run[c].cmd IN
       /\ db' = [db EXCEPT ![cmd.to] = RenamedEntry(run[c].cur)]
       /\ mixed' = mixed \cup {k \in {cmd.to} :
                       cmd.key \in mixed \/ \E d \in Clients \ {c} : k \in Window(run[d])}
       /\ ref' = [k \in Keys |-> IF k \in mixed' THEN Gone
                                 ELSE IF k = cmd.to /\ View(ref[cmd.key]) # Gone
                                      THEN RenamedEntry(ref[cmd.key]) ELSE ref[k]]
    /\ Goto(c, [run[c] EXCEPT !.at = "drop"])

RenameDrop(c) ==
    /\ run[c].at = "drop"
    /\ Record(c, [db EXCEPT ![run[c].cmd.key] = Gone], [ref EXCEPT ![run[c].cmd.key] = Gone])
    /\ Goto(c, Idle)

(* Database::expire sets the expiry of whatever entry is there, an expired *)
(* one included, which then lives again: `mixed' takes that key.           *)
Expire(c, cmd) ==
    /\ run[c] = Idle /\ cmd.op = "expire" /\ db[cmd.key] # Gone
    /\ LET k == cmd.key
           revived == {x \in {k} : Expired(db[x]) \/ \E d \in Clients : x \in Window(run[d])}
       IN  /\ db' = [db EXCEPT ![k].left = cmd.left]
           /\ mixed' = mixed \cup revived
           /\ ref' = [ref EXCEPT ![k] = IF k \in mixed' THEN Gone
                                        ELSE IF View(@) = Gone THEN @ ELSE [@ EXCEPT !.left = cmd.left]]
    /\ UNCHANGED run

(* DEL, MSET and FLUSHDB go from key to key.                               *)
EachKeyBegin(c, cmd) ==
    /\ run[c] = Idle /\ cmd.op \in {"del", "mset"}
    /\ Goto(c, [Begin(cmd, "each") EXCEPT !.todo = cmd.keys])
    /\ UNCHANGED <<db, ref, mixed>>

EachKey(c) ==
    /\ run[c].at = "each"
    /\ \E k \in run[c].todo :
          /\ LET new == IF run[c].cmd.op = "mset" THEN Entry(run[c].cmd.value, NoTtl) ELSE Gone
             IN  Record(c, [db EXCEPT ![k] = new], [ref EXCEPT ![k] = new])
          /\ Goto(c, IF run[c].todo = {k} THEN Idle ELSE [run[c] EXCEPT !.todo = @ \ {k}])

(* Database::keys: collect the expired keys, then remove each without      *)
(* looking again.                                                          *)
KeysCollect(c, cmd) ==
    /\ run[c] = Idle /\ cmd.op = "keys"
    /\ {k \in Keys : Expired(db[k])} # {}
    /\ Goto(c, [Begin(cmd, "purgeAll") EXCEPT !.todo = {k \in Keys : Expired(db[k])}])
    /\ UNCHANGED <<db, ref, mixed>>

KeysPurge(c) ==
    /\ run[c].at = "purgeAll"
    /\ \E k \in run[c].todo :
          /\ Record(c, [db EXCEPT ![k] = Gone], ref)
          /\ Goto(c, IF run[c].todo = {k} THEN Idle ELSE [run[c] EXCEPT !.todo = @ \ {k}])

Aged(e) == IF e.left > 0 THEN [e EXCEPT !.left = @ - 1] ELSE e

Tick ==
    /\ \E k \in Keys : db[k].left > 0
    /\ Record("clock", [k \in Keys |-> Aged(db[k])], [k \in Keys |-> Aged(ref[k])])
    /\ UNCHANGED run

RedisNext ==
    \/ Tick
    \/ \E c \in Clients :
         \/ \E cmd \in Commands :
              \/ SetUnconditional(c, cmd) \/ Test(c, cmd) \/ Get(c, cmd) \/ Expire(c, cmd)
              \/ EachKeyBegin(c, cmd) \/ KeysCollect(c, cmd)
         \/ SetAfterTest(c) \/ PurgeBlindly(c) \/ RemoveIfExpired(c) \/ Apply(c)
         \/ RenameTtl(c) \/ RenamePut(c) \/ RenameDrop(c) \/ EachKey(c) \/ KeysPurge(c)

RedisSpec == RedisInit /\ [][RedisNext]_redisVars

RedisTypeOK ==
    /\ \A k \in Keys : db[k].left \in {NoTtl, 0, 1, 2} /\ (db[k].value = NoValue => db[k] = Gone)
    /\ \A c \in Clients : run[c].at \in {"idle", "put", "purge", "lapse", "ttl", "drop", "apply",
                                         "each", "purgeAll"}
    /\ mixed \subseteq Keys

(***************************************************************************)
(* A key holds what the same commands, run one at a time, would leave,     *)
(* unless another client's step or the clock changed it inside the window  *)
(* of a command that reads and then writes.  A plain read has no such      *)
(* window: GET and the other readers may overlap anything, because         *)
(* Database::get tests again before it removes an entry it found expired.  *)
(***************************************************************************)
SerialKeysAgree ==
    \A k \in Keys \ mixed :
        (\A c \in Clients : k \notin Window(run[c])) => View(db[k]) = View(ref[k])

=============================================================================
