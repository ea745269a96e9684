--------------------------- MODULE MongoDocuments ---------------------------
(***************************************************************************)
(* The document algebra of the MongoDB server: field paths, filters, the   *)
(* $set and $inc updates and the aggregation pipeline                      *)
(* (mongodb-protocol/src/storage.rs and handler.rs).                       *)
(*                                                                         *)
(* A BSON value is [t, n, sub]: its type, its number and, for a document,  *)
(* its fields.  A dotted name is the sequence of its parts, so that a      *)
(* document's keys, which may hold dots themselves, are sequences too.     *)
(***************************************************************************)
EXTENDS Integers, Sequences, FiniteSets, SequencesExt, FiniteSetsExt

Bson(t, n) == [t |-> t, n |-> n, sub |-> << >>]
BsonDoc(fields) == [t |-> "doc", n |-> 0, sub |-> fields]
Missing == Bson("missing", 0)
EmptyDoc == [p \in {} |-> Missing]
With(doc, key, v) == [p \in DOMAIN doc \cup {key} |-> IF p = key THEN v ELSE doc[p]]

(* get_field_value: the name as it stands first, then part by part.        *)
RECURSIVE FieldValue(_, _)
FieldValue(doc, path) ==
    IF path \in DOMAIN doc THEN doc[path]
    ELSE IF Len(path) > 1 /\ <<Head(path)>> \in DOMAIN doc /\ doc[<<Head(path)>>].t = "doc"
         THEN FieldValue(doc[<<Head(path)>>].sub, Tail(path))
         ELSE Missing

(* bson_cmp: numbers compare across their types, other types only with     *)
(* themselves, and documents, arrays and nulls not at all.                 *)
Numeric == {"int32", "int64", "double"}
Comparable(a, b) ==
    \/ a.t \in Numeric /\ b.t \in Numeric
    \/ a.t = b.t /\ a.t \in {"string", "bool"}

(* matches_operators: `args' of $in is a set, every other operator has a   *)
(* single argument.  An unknown operator refuses the document ($regex,     *)
(* which the regex library decides, is not in the inputs).                 *)
OperatorHolds(v, op, args) ==
    LET arg == CHOOSE a \in args : TRUE IN
    CASE op = "$exists" -> arg.t = "bool" /\ ((v # Missing) = (arg.n = 1))
      [] op = "$eq"  -> v # Missing /\ v = arg
      [] op = "$ne"  -> v = Missing \/ v # arg
      [] op = "$gt"  -> Comparable(v, arg) /\ v.n > arg.n
      [] op = "$gte" -> Comparable(v, arg) /\ v.n >= arg.n
      [] op = "$lt"  -> Comparable(v, arg) /\ v.n < arg.n
      [] op = "$lte" -> Comparable(v, arg) /\ v.n <= arg.n
      [] op = "$in"  -> v # Missing /\ v \in args
      [] OTHER -> FALSE

(* matches_filter: a filter is a set of <<path, operator, arguments>>; a   *)
(* plain value in a filter is $eq.                                         *)
MatchesFilter(doc, filter) ==
    \A f \in filter : OperatorHolds(FieldValue(doc, f[1]), f[2], f[3])

(* set_nested_field: what is not a document on the way is replaced by one. *)
RECURSIVE SetNested(_, _, _)
SetNested(doc, path, v) ==
    IF Len(path) = 1 THEN With(doc, path, v)
    ELSE LET first == <<Head(path)>>
             sub == IF first \in DOMAIN doc /\ doc[first].t = "doc" THEN doc[first].sub ELSE EmptyDoc
         IN  With(doc, first, BsonDoc(SetNested(sub, Tail(path), v)))

(* $inc of one field: the key is taken as it stands, absence counts as     *)
(* int32 0, and a type that is not a number keeps the current value.       *)
Widest(a, b) ==
    IF "double" \in {a, b} THEN "double" ELSE IF "int64" \in {a, b} THEN "int64" ELSE "int32"
Inc(doc, key, by) ==
    LET current == IF key \in DOMAIN doc THEN doc[key] ELSE Bson("int32", 0)
    IN  With(doc, key, IF {current.t, by.t} \subseteq Numeric
                       THEN Bson(Widest(current.t, by.t), current.n + by.n) ELSE current)

(* apply_update: every $set, then every $inc.  An update is [set, inc],    *)
(* two sequences of <<path, value>>.                                       *)
ApplyUpdate(doc, update) ==
    FoldLeft(LAMBDA d, s : Inc(d, s[1], s[2]),
             FoldLeft(LAMBDA d, s : SetNested(d, s[1], s[2]), doc, update.set),
             update.inc)

(* apply_group_stage with _id a field reference, or a constant (<< >>).    *)
(* Every group of the answer carries the _id expression itself, not the    *)
(* value it groups by, and the groups come in the HashMap's order.  $sum   *)
(* of a number multiplies it by the group's size, $sum of a field adds its *)
(* integers.                                                               *)
GroupKey(doc, by) == IF by = << >> THEN Missing ELSE FieldValue(doc, by)
IntegerOf(doc, field) ==
    IF field \in DOMAIN doc /\ doc[field].t \in {"int32", "int64"} THEN doc[field].n ELSE 0
GroupSum(docs, sum) ==
    IF sum.field = << >> THEN sum.n * Len(docs)
    ELSE FoldLeft(LAMBDA total, d : total + IntegerOf(d, sum.field), 0, docs)
GroupStage(docs, by, sum) ==
    LET keys == SetToSeq({GroupKey(docs[i], by) : i \in DOMAIN docs})
    IN  [i \in DOMAIN keys |->
           With(With(EmptyDoc, <<"_id">>, Bson("expr", 0)), <<"sum">>,
                Bson("int64", GroupSum(SelectSeq(docs, LAMBDA d : GroupKey(d, by) = keys[i]), sum)))]

(* cmd_aggregate: the stages one after the other; an unknown stage leaves  *)
(* the documents alone.                                                    *)
Stage(docs, stage) ==
    CASE stage.op = "$match" -> SelectSeq(docs, LAMBDA d : MatchesFilter(d, stage.filter))
      [] stage.op = "$group" -> IF docs = << >> THEN << >> ELSE GroupStage(docs, stage.by, stage.sum)
      [] stage.op = "$count" -> << With(EmptyDoc, <<"count">>, Bson("int64", Len(docs))) >>
      [] stage.op = "$skip"  -> IF stage.n < Len(docs) THEN SubSeq(docs, stage.n + 1, Len(docs)) ELSE << >>
      [] stage.op = "$limit" -> SubSeq(docs, 1, IF stage.n < Len(docs) THEN stage.n ELSE Len(docs))
      [] OTHER -> docs
Aggregate(docs, pipeline) == FoldLeft(Stage, docs, pipeline)

(* get_doc_sequence: the documents of the first section with that name.    *)
DocSequence(sections, identifier) ==
    LET named == SelectSeq(sections, LAMBDA s : s.identifier = identifier)
    IN  IF named = << >> THEN << >> ELSE Head(named).documents

-----------------------------------------------------------------------------
(* The same document as the set of its leaves, each with its full path,    *)
(* for documents whose keys have no dots and that hold no empty document.  *)
RECURSIVE Leaves(_)
Leaves(doc) ==
    UNION {IF doc[k].t = "doc" THEN {<<k \o l[1], l[2]>> : l \in Leaves(doc[k].sub)} ELSE {<<k, doc[k]>>} : k \in DOMAIN doc}
Related(p, q) == IsPrefix(p, q) \/ IsPrefix(q, p)
LeafSet(leaves, path, v) == {l \in leaves : ~Related(l[1], path)} \cup {<<path, v>>}
LeafInc(leaves, key, by) ==
    LET at == {l \in leaves : l[1] = key}
        inside == {l \in leaves : Related(l[1], key)}
    IN  IF inside = {} THEN leaves \cup {<<key, by>>}
        ELSE {l \in leaves : l \notin at} \cup {<<key, IF l[2].t \in Numeric /\ by.t \in Numeric
                                                     THEN Bson(Widest(l[2].t, by.t), l[2].n + by.n) ELSE l[2]>> : l \in at}

(* An update does to the leaves what it says: the values are where they    *)
(* were set and every other leaf stays.                                    *)
UpdateAgrees(doc, update) ==
    Leaves(ApplyUpdate(doc, update)) =
    FoldLeft(LAMBDA ls, s : LeafInc(ls, s[1], s[2]),
             FoldLeft(LAMBDA ls, s : LeafSet(ls, s[1], s[2]), Leaves(doc), update.set), update.inc)

(* A filter's operators against one field: $ne is not $eq, $exists knows   *)
(* absence, $in is some $eq, a leaf's value is found under its path, and   *)
(* the four orders split the comparable pairs.                             *)
FilterAgrees(doc, path, args) ==
    LET holds(op, S) == MatchesFilter(doc, {<<path, op, S>>})
        under == {l \in Leaves(doc) : IsPrefix(path, l[1])}
    IN  /\ \A n \in {0, 1} : holds("$exists", {Bson("bool", n)}) = ((under # {}) = (n = 1))
        /\ holds("$in", args) = (\E a \in args : holds("$eq", {a}))
        /\ \A a \in args :
             /\ holds("$eq", {a}) = (<<path, a>> \in Leaves(doc))
             /\ holds("$ne", {a}) = ~holds("$eq", {a})
             /\ \A l \in under : l[1] = path /\ Comparable(l[2], a) =>
                  /\ holds("$gt", {a}) = ~holds("$lte", {a})
                  /\ holds("$lt", {a}) = ~holds("$gte", {a})
                  /\ (holds("$gte", {a}) /\ holds("$lte", {a})) = (l[2].n = a.n)

(* A pipeline: $match keeps the documents find finds, the pages of $skip   *)
(* and $limit make up the whole, $count is their number, and the groups    *)
(* share out the documents and the sums.                                   *)
Op(op, filter, by, sum, n) == [op |-> op, filter |-> filter, by |-> by, sum |-> sum, n |-> n]
NoSum == [field |-> << >>, n |-> 1]
PipelineAgrees(docs, filter, by, n) ==
    LET match == Op("$match", filter, by, NoSum, 0)
        found == Aggregate(docs, <<match>>)
        group(sum) == Aggregate(docs, <<match, Op("$group", filter, by, sum, 0)>>)
        total(sum) == FoldLeft(LAMBDA t, d : t + d[<<"sum">>].n, 0, group(sum))
        keys == {GroupKey(found[i], by) : i \in DOMAIN found}
    IN  /\ ToSet(found) = {docs[i] : i \in {j \in DOMAIN docs : MatchesFilter(docs[j], filter)}}
        /\ Aggregate(docs, <<match, Op("$limit", filter, by, NoSum, n)>>)
             \o Aggregate(docs, <<match, Op("$skip", filter, by, NoSum, n)>>) = found
        /\ Aggregate(docs, <<match, Op("$count", filter, by, NoSum, 0)>>)[1][<<"count">>].n = Len(found)
        /\ Len(group(NoSum)) = Cardinality(keys)
        /\ total(NoSum) = Len(found)
        /\ total([field |-> <<"b">>, n |-> 0]) =
             FoldLeft(LAMBDA t, d : t + (IF <<"b">> \in DOMAIN d /\ d[<<"b">>].t \in {"int32", "int64"} THEN d[<<"b">>].n ELSE 0), 0, found)

=============================================================================
