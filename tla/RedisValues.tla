---------------------------- MODULE RedisValues ----------------------------
(***************************************************************************)
(* What the Redis commands compute from the value a key holds              *)
(* (redis-protocol/src/handler.rs): the effect of every writing command    *)
(* and the answer of every reading one.                                    *)
(*                                                                         *)
(* A value is a kind and a body.  All bodies are functions on integers: a  *)
(* list and a string are sequences (a string is a sequence of pieces, each *)
(* the decimal form of a number or the piece Text that no number is), a    *)
(* hash maps fields to values, a set maps its members to 1, a sorted set   *)
(* maps its members to scores.  Scores are ordered numbers: NaN, which the *)
(* code's OrderedFloat takes as equal to everything, is left out.          *)
(* Bad is an argument get_arg_str or parse::<f64> rejects.                 *)
(***************************************************************************)
EXTENDS Integers, Sequences, FiniteSets, SequencesExt

CONSTANTS IntMin, IntMax   \* the range of the i64 counters

Bad == -99
Text == 99
WrongType == -100
Null == -101
NotInteger == -102
Okay == -103
OutOfRange == -104

NoValue == [kind |-> "none", val |-> <<>>]
Value(k, v) == [kind |-> k, val |-> v]

Put(f, k, v) == [x \in DOMAIN f \cup {k} |-> IF x = k THEN v ELSE f[x]]
Take(f, S) == [x \in DOMAIN f \ S |-> f[x]]

(* ---- what a writing command does with the value it has read ------------ *)

Stored(k, v, r) == [act |-> "set", value |-> Value(k, v), reply |-> r]
Removed(r) == [act |-> "del", value |-> NoValue, reply |-> r]
Untouched(r) == [act |-> "none", value |-> NoValue, reply |-> r]

Wrong(cur, k) == cur.kind \notin {"none", k}

(* A container that a removal empties goes away with its key.              *)
Shrunk(k, v, r) == IF DOMAIN v = {} THEN Removed(r) ELSE Stored(k, v, r)

IsInteger(s) == Len(s) = 1 /\ s[1] # Text

(* i64 addition of the release build: it wraps.                            *)
Wrap(n) == IntMin + ((n - IntMin) % (IntMax - IntMin + 1))

IncrBy(cur, n) ==
    IF Wrong(cur, "string") THEN Untouched(WrongType)
    ELSE IF cur # NoValue /\ ~IsInteger(cur.val) THEN Untouched(NotInteger)
    ELSE LET new == Wrap((IF cur = NoValue THEN 0 ELSE cur.val[1]) + n)
         IN  Stored("string", <<new>>, new)

(* The length is in pieces here, in bytes in the code.                     *)
Append_(cur, piece) ==
    IF Wrong(cur, "string") THEN Untouched(WrongType)
    ELSE LET new == Append(cur.val, piece) IN Stored("string", new, Len(new))

(* `pairs' are the field and value arguments; a pair with a Bad member is  *)
(* passed over.                                                            *)
HSet(cur, pairs) ==
    IF Wrong(cur, "hash") THEN Untouched(WrongType)
    ELSE LET ok == SelectSeq(pairs, LAMBDA p : p[1] # Bad /\ p[2] # Bad)
             new == FoldLeft(LAMBDA h, p : Put(h, p[1], p[2]), cur.val, ok)
         IN  Stored("hash", new, Cardinality(DOMAIN new) - Cardinality(DOMAIN cur.val))

HDel(cur, fields) ==
    IF Wrong(cur, "hash") THEN Untouched(WrongType)
    ELSE IF cur = NoValue THEN Untouched(0)
    ELSE Shrunk("hash", Take(cur.val, fields), Cardinality(DOMAIN cur.val \cap fields))

(* LPUSH prepends its arguments one after the other, RPUSH appends them.   *)
Push(cur, args, front) ==
    IF Wrong(cur, "list") THEN Untouched(WrongType)
    ELSE LET ok == SelectSeq(args, LAMBDA a : a # Bad)
             new == IF front THEN Reverse(ok) \o cur.val ELSE cur.val \o ok
         IN  Stored("list", new, Len(new))

Pop(cur, front) ==
    IF Wrong(cur, "list") THEN Untouched(WrongType)
    ELSE IF cur.val = <<>> THEN Untouched(Null)
    ELSE IF front THEN Shrunk("list", Tail(cur.val), Head(cur.val))
    ELSE Shrunk("list", Front(cur.val), Last(cur.val))

SAdd(cur, members) ==
    IF Wrong(cur, "set") THEN Untouched(WrongType)
    ELSE LET new == DOMAIN cur.val \cup (members \ {Bad})
         IN  Stored("set", [m \in new |-> 1], Cardinality(new) - Cardinality(DOMAIN cur.val))

SRem(cur, members) ==
    IF Wrong(cur, "set") THEN Untouched(WrongType)
    ELSE IF cur = NoValue THEN Untouched(0)
    ELSE Shrunk("set", Take(cur.val, members), Cardinality(DOMAIN cur.val \cap members))

(* `pairs' are scores and members; a member keeps one score, the last one. *)
ZAdd(cur, pairs) ==
    IF Wrong(cur, "zset") THEN Untouched(WrongType)
    ELSE LET ok == SelectSeq(pairs, LAMBDA p : p[1] # Bad /\ p[2] # Bad)
             new == FoldLeft(LAMBDA z, p : Put(z, p[2], p[1]), cur.val, ok)
         IN  Stored("zset", new, Cardinality(DOMAIN new) - Cardinality(DOMAIN cur.val))

ZRem(cur, members) ==
    IF Wrong(cur, "zset") THEN Untouched(WrongType)
    ELSE IF cur = NoValue THEN Untouched(0)
    ELSE Shrunk("zset", Take(cur.val, members), Cardinality(DOMAIN cur.val \cap members))

(* ---- what a reading command answers ------------------------------------ *)

GetReply(cur) ==
    IF Wrong(cur, "string") THEN <<WrongType>>
    ELSE IF cur = NoValue THEN <<Null>> ELSE cur.val

StrlenReply(cur) == IF Wrong(cur, "string") THEN WrongType ELSE Len(cur.val)

TypeReply(cur) == cur.kind

(* MGET answers null for a key of another kind, where GET is an error.     *)
MGetReply(curs) ==
    [i \in DOMAIN curs |-> IF curs[i].kind = "string" THEN curs[i].val ELSE <<Null>>]

HGet(cur, f) ==
    IF Wrong(cur, "hash") THEN WrongType
    ELSE IF f \in DOMAIN cur.val THEN cur.val[f] ELSE Null

HMGet(cur, fields) ==
    IF Wrong(cur, "hash") THEN <<WrongType>>
    ELSE [i \in DOMAIN fields |-> HGet(cur, fields[i])]

(* HGETALL, HKEYS, HVALS, HLEN and HEXISTS of a hash: HashMap's order is   *)
(* not the client's to rely on, so an array of pairs is the set of them.   *)
HashReply(cur, f) ==
    LET h == cur.val IN
    IF Wrong(cur, "hash") THEN [wrong |-> TRUE]
    ELSE [all |-> {<<x, h[x]>> : x \in DOMAIN h}, keys |-> DOMAIN h,
          vals |-> {h[x] : x \in DOMAIN h}, len |-> Cardinality(DOMAIN h),
          exists |-> IF f \in DOMAIN h THEN 1 ELSE 0]

(* The zero-based bounds LRANGE and ZRANGE make of their two arguments for *)
(* a sequence of length n: one under the front is the front.               *)
ClampStart(n, i) == IF i < 0 THEN (IF n + i > 0 THEN n + i ELSE 0) ELSE IF i < n THEN i ELSE n
ClampStop(n, i) ==
    IF i < 0 THEN (IF n + i > 0 THEN n + i ELSE 0) ELSE IF i < n - 1 THEN i ELSE n - 1
Slice(s, start, stop) ==
    LET a == ClampStart(Len(s), start)
        b == ClampStop(Len(s), stop)
    IN  IF a > b \/ a >= Len(s) THEN <<>> ELSE SubSeq(s, a + 1, b + 1)

LRange(cur, start, stop) ==
    IF Wrong(cur, "list") THEN <<WrongType>> ELSE Slice(cur.val, start, stop)

LLen(cur) == IF Wrong(cur, "list") THEN WrongType ELSE Len(cur.val)

LIndexOneBased(cur, i) ==                      \* mutation: -1 is taken for the last but one
    LET at == IF i < 0 THEN Len(cur.val) + i - 1 ELSE i IN
    IF Wrong(cur, "list") THEN WrongType
    ELSE IF at \in 0..(Len(cur.val) - 1) THEN cur.val[at + 1] ELSE Null

(* A negative sum becomes an index past every list when cast to usize.     *)
LIndex(cur, i) ==
    LET at == IF i < 0 THEN Len(cur.val) + i ELSE i IN
    IF Wrong(cur, "list") THEN WrongType
    ELSE IF at \in 0..(Len(cur.val) - 1) THEN cur.val[at + 1] ELSE Null

(* SMEMBERS, SCARD and SISMEMBER.                                          *)
SetReply(cur, m) ==
    IF Wrong(cur, "set") THEN [wrong |-> TRUE]
    ELSE [members |-> DOMAIN cur.val, card |-> Cardinality(DOMAIN cur.val),
          is |-> IF m \in DOMAIN cur.val THEN 1 ELSE 0]

(* The members of a sorted set in the order of its BTreeSet: by score and, *)
(* among equal scores, by name.                                            *)
Ranked(z) ==
    SortSeq(SetToSeq(DOMAIN z), LAMBDA a, b : z[a] < z[b] \/ (z[a] = z[b] /\ a < b))

ZRange(cur, start, stop) ==
    IF Wrong(cur, "zset") THEN <<WrongType>> ELSE Slice(Ranked(cur.val), start, stop)

ZCard(cur) == IF Wrong(cur, "zset") THEN WrongType ELSE Cardinality(DOMAIN cur.val)

ZScore(cur, m) ==
    IF Wrong(cur, "zset") THEN WrongType
    ELSE IF m \in DOMAIN cur.val THEN cur.val[m] ELSE Null

-----------------------------------------------------------------------------
(* What the readers say after the arguments `args' (pairs of numbers) were *)
(* stored under a key of their own, in the terms of the arguments alone.   *)
LastOf(args, S) == CHOOSE i \in S : \A j \in S : j <= i
FirstAt(args, k) == {i \in DOMAIN args : args[i][k] # Bad}
ListAgrees(args, i, j) ==
    LET items == [k \in DOMAIN args |-> args[k][1]]
        cur == Push(Push(NoValue, items, FALSE).value, items, TRUE).value
        all == Reverse(SelectSeq(items, LAMBDA x : x # Bad)) \o SelectSeq(items, LAMBDA x : x # Bad)
        n == Len(all)
        popped == Pop(cur, TRUE)
    IN  /\ LRange(cur, 0, -1) = all
        /\ LLen(cur) = n
        /\ i \in 0..(n - 1) => LRange(cur, 0, i) \o LRange(cur, i + 1, n) = all
        /\ LIndex(cur, i) = (IF i \in 0..(n - 1) THEN all[i + 1] ELSE IF -i \in 1..n THEN all[n + i + 1] ELSE Null)
        /\ i \in (-n)..(n - 1) => LRange(cur, i, i) = <<LIndex(cur, i)>>
        /\ j \in 0..n => LRange(cur, i, j - n - 1) = LRange(cur, i, IF j = 0 THEN 0 ELSE j - 1)
        /\ n > 0 => popped.reply = all[1] /\ LRange(popped.value, 0, -1) = Tail(all)

HashAgrees(args, f) ==
    LET ok == FirstAt(args, 1) \cap FirstAt(args, 2)
        set == HSet(NoValue, args)
        with == {i \in ok : args[i][1] = f}
        left == HDel(set.value, {f})
        reply == HashReply(set.value, f)
    IN  /\ HGet(set.value, f) = (IF with = {} THEN Null ELSE args[LastOf(args, with)][2])
        /\ set.reply = reply.len /\ reply.keys = {args[i][1] : i \in ok}
        /\ reply.all = {<<g, HGet(set.value, g)>> : g \in reply.keys} /\ reply.vals = {p[2] : p \in reply.all}
        /\ HMGet(set.value, <<f, f + 1>>) = <<HGet(set.value, f), HGet(set.value, f + 1)>>
        /\ reply.exists = left.reply
        /\ reply.keys # {} => (left.act = "del" <=> reply.keys = {f})
        /\ left.act = "set" => HGet(left.value, f) = Null /\ \A g \in reply.keys \ {f} : HGet(left.value, g) = HGet(set.value, g)

SetAgrees(args, m) ==
    LET members == {args[i][1] : i \in FirstAt(args, 1)}
        added == SAdd(NoValue, {args[i][1] : i \in DOMAIN args})
        more == SAdd(added.value, {m})
        less == SRem(added.value, {m})
    IN  /\ SetReply(added.value, m) = [members |-> members, card |-> added.reply, is |-> less.reply]
        /\ more.reply + less.reply = (IF m = Bad THEN 0 ELSE 1)
        /\ members # {} => (less.act = "del" <=> members = {m})

SortedSetAgrees(args, m) ==
    LET ok == FirstAt(args, 1) \cap FirstAt(args, 2)
        added == ZAdd(NoValue, args)
        cur == added.value
        order == ZRange(cur, 0, -1)
        with == {i \in ok : args[i][2] = m}
    IN  /\ ZScore(cur, m) = (IF with = {} THEN Null ELSE args[LastOf(args, with)][1])
        /\ ToSet(order) = {args[i][2] : i \in ok} /\ Len(order) = ZCard(cur) /\ ZCard(cur) = added.reply
        /\ \A i, j \in DOMAIN order : i < j =>
             \/ ZScore(cur, order[i]) < ZScore(cur, order[j])
             \/ ZScore(cur, order[i]) = ZScore(cur, order[j]) /\ order[i] < order[j]
        /\ ZRem(cur, {m}).reply = IF with = {} THEN 0 ELSE 1

StringAgrees(args) ==
    LET cur == FoldLeft(LAMBDA v, a : IF a[1] = Bad THEN Append_(v, Text).value ELSE IncrBy(v, a[1]).value, NoValue, SubSeq(args, 1, 1))
        next(a) == IncrBy(cur, a)
    IN  \A a \in {args[i][2] : i \in FirstAt(args, 2)} :
          /\ next(a).act = "set" => GetReply(next(a).value) = <<next(a).reply>> /\ IncrBy(next(a).value, 0 - a).value = cur
          /\ StrlenReply(Append_(cur, a).value) = StrlenReply(cur) + 1
          /\ MGetReply(<<cur, NoValue>>) = <<cur.val, <<Null>>>>

(* A command on a key of another kind is refused and leaves the value.     *)
Refused(effect) == effect = Untouched(WrongType)
KindsAgree(args) ==
    LET list == Push(NoValue, <<1>>, TRUE).value
        hash == HSet(NoValue, <<<<1, 1>>>>).value
        values == {list, hash, SAdd(NoValue, {1}).value, ZAdd(NoValue, <<<<1, 1>>>>).value, IncrBy(NoValue, 1).value}
    IN  \A v \in values :
          /\ TypeReply(v) # "list" => Refused(Push(v, <<1>>, TRUE)) /\ Refused(Pop(v, TRUE)) /\ LRange(v, 0, -1) = <<WrongType>> /\ LLen(v) = WrongType
          /\ TypeReply(v) # "hash" => Refused(HSet(v, args)) /\ Refused(HDel(v, {1})) /\ HGet(v, 1) = WrongType /\ HMGet(v, <<1>>) = <<WrongType>>
          /\ TypeReply(v) # "set" => Refused(SAdd(v, {1})) /\ Refused(SRem(v, {1}))
          /\ TypeReply(v) # "zset" => Refused(ZAdd(v, args)) /\ Refused(ZRem(v, {1})) /\ ZRange(v, 0, -1) = <<WrongType>> /\ ZCard(v) = WrongType
          /\ TypeReply(v) # "string" => Refused(IncrBy(v, 1)) /\ Refused(Append_(v, 1)) /\ GetReply(v) = <<WrongType>> /\ StrlenReply(v) = WrongType
                                       /\ MGetReply(<<v>>) = <<<<Null>>>>

=============================================================================
