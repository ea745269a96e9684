----------------------------- MODULE MongoStore -----------------------------
(***************************************************************************)
(* Connections of the MongoDB server running commands at the same time     *)
(* (mongodb-protocol/src/handler.rs over storage.rs).  A command first     *)
(* takes a handle on the database and one on the collection, each created  *)
(* when absent; drop and dropDatabase only take the name away, so a        *)
(* command that already holds a handle goes on writing to an object nobody *)
(* can reach.  update and delete collect the ids that match and then work  *)
(* through them one by one without testing the filter again.               *)
(*                                                                         *)
(* `seen' and `foreign' of a running command are auxiliary: the documents  *)
(* when it collected, and the ids others wrote since.                      *)
(***************************************************************************)
EXTENDS Integers, Sequences, FiniteSets

CONSTANTS Clients, Ids, Values, MaxHandles,
          Requests     \* the commands clients send: <<operation, filter, new value, ids>>

VARIABLES database,    \* the handle under the database's name, 0: none
          collection,  \* database handle -> collection handle, 0: none
          documents,   \* collection handle -> id -> value, NoDoc: absent
          handles,     \* handles given out so far
          run          \* the command of each client

mongoVars == <<database, collection, documents, handles, run>>

NoDoc == -1
Handles == 0..MaxHandles
Command(op, q, u, ids) ==
    [op |-> op, at |-> IF op = "drop" THEN op ELSE "resolve", q |-> q, u |-> u, ids |-> ids, db |-> 0, coll |-> 0, todo |-> {},
     seen |-> [i \in Ids |-> NoDoc], foreign |-> {}]
NoCommand == [Command("none", NoDoc, NoDoc, {}) EXCEPT !.at = "idle"]

MongoInit ==
    /\ database = 0
    /\ collection = [h \in Handles |-> 0]
    /\ documents = [h \in Handles |-> [i \in Ids |-> NoDoc]]
    /\ handles = 0
    /\ run = [c \in Clients |-> NoCommand]

Idle(c) == run[c].op = "none"
Goto(c, r) == run' = [run EXCEPT ![c] = r]

(* MongoDBStorage::get_database, then Database::get_collection: two map    *)
(* operations, each an entry().or_insert_with().                           *)
GetDatabase(c, r) ==
    /\ Idle(c)
    /\ IF database # 0 THEN Goto(c, [r EXCEPT !.db = database]) /\ UNCHANGED <<database, handles>>
       ELSE /\ handles < MaxHandles
            /\ handles' = handles + 1 /\ database' = handles'
            /\ Goto(c, [r EXCEPT !.db = handles'])
    /\ UNCHANGED <<collection, documents>>

GetCollection(c) ==
    /\ run[c].at = "resolve"
    /\ LET ready(h) == [run[c] EXCEPT !.coll = h, !.at = IF @ = "resolve" THEN "work" ELSE @] IN
       IF collection[run[c].db] # 0
       THEN Goto(c, ready(collection[run[c].db])) /\ UNCHANGED <<collection, handles>>
       ELSE /\ handles < MaxHandles
            /\ handles' = handles + 1
            /\ collection' = [collection EXCEPT ![run[c].db] = handles']
            /\ Goto(c, ready(handles'))
    /\ UNCHANGED <<database, documents>>

(* What the filter { a: q } selects.                                       *)
Selected(c, doc) == doc = run[c].q /\ doc # NoDoc

(* One write to a document, and the others told of it.                     *)
Write(c, h, i, v, r) ==
    /\ documents' = [documents EXCEPT ![h][i] = v]
    /\ run' = [d \in Clients |->
                 IF d = c THEN r
                 ELSE IF run[d].at = "each" /\ run[d].coll = h THEN [run[d] EXCEPT !.foreign = @ \cup {i}] ELSE run[d]]

(* cmd_insert: document after document, replacing an equal _id.            *)
Insert(c) ==
    /\ run[c].op = "insert" /\ run[c].at = "work"
    /\ \E i \in run[c].ids :
          Write(c, run[c].coll, i, run[c].u,
                IF run[c].ids = {i} THEN NoCommand ELSE [run[c] EXCEPT !.ids = @ \ {i}])
    /\ UNCHANGED <<database, collection, handles>>

(* cmd_update and cmd_delete: collection.find, then id by id.  find goes   *)
(* through the map shard by shard; it is taken as one step.                *)
CollectAll(c) ==                               \* mutation: the filter is not applied
    /\ run[c].op \in {"update", "delete"} /\ run[c].at = "work"
    /\ LET docs == documents[run[c].coll] IN
       Goto(c, [run[c] EXCEPT !.at = "each", !.seen = docs, !.foreign = {}, !.todo = {i \in Ids : docs[i] # NoDoc}])
    /\ UNCHANGED <<database, collection, documents, handles>>
Collect(c) ==
    /\ run[c].op \in {"update", "delete"} /\ run[c].at = "work"
    /\ LET docs == documents[run[c].coll] IN
       Goto(c, [run[c] EXCEPT !.at = "each", !.seen = docs, !.foreign = {},
                              !.todo = {i \in Ids : Selected(c, docs[i])}])
    /\ UNCHANGED <<database, collection, documents, handles>>

(* Collection::update and Collection::delete of an id that is gone do      *)
(* nothing.                                                                *)
Result(r, doc) ==
    IF doc = NoDoc \/ r.op = "delete" THEN NoDoc ELSE r.u

EachId(c) ==
    /\ run[c].at = "each"
    /\ \E i \in run[c].todo :
          LET h == run[c].coll IN
          Write(c, h, i, Result(run[c], documents[h][i]), [run[c] EXCEPT !.todo = @ \ {i}])
    /\ UNCHANGED <<database, collection, handles>>

Reply(c) ==
    /\ run[c].at = "each" /\ run[c].todo = {}
    /\ Goto(c, NoCommand)
    /\ UNCHANGED <<database, collection, documents, handles>>

(* cmd_find, cmd_count and cmd_create: nothing after the handles but a     *)
(* read.                                                                   *)
ReadOnly(c) ==
    /\ run[c].op = "read" /\ run[c].at = "work"
    /\ Goto(c, NoCommand)
    /\ UNCHANGED <<database, collection, documents, handles>>

Drop(c) ==
    /\ run[c].op = "drop" /\ run[c].at = "drop"
    /\ collection' = [collection EXCEPT ![run[c].db] = 0]
    /\ Goto(c, NoCommand)
    /\ UNCHANGED <<database, documents, handles>>

DropDatabase(c) ==
    /\ Idle(c) /\ database # 0
    /\ database' = 0
    /\ UNCHANGED <<collection, documents, handles, run>>

MongoNext ==
    \E c \in Clients :
       \/ \E q \in Requests : GetDatabase(c, Command(q[1], q[2], q[3], q[4]))
       \/ GetCollection(c) \/ Insert(c) \/ Collect(c) \/ EachId(c) \/ Reply(c) \/ ReadOnly(c)
       \/ Drop(c) \/ DropDatabase(c)

MongoSpec == MongoInit /\ [][MongoNext]_mongoVars

MongoTypeOK ==
    /\ database \in Handles /\ handles \in Handles
    /\ collection \in [Handles -> Handles]
    /\ documents \in [Handles -> [Ids -> Values \cup {NoDoc}]]
    /\ \A c \in Clients : run[c].todo \subseteq Ids /\ run[c].coll \in Handles

(***************************************************************************)
(* When update or delete answers, every document that nobody else wrote    *)
(* since it collected its ids is as the command promises: changed if it    *)
(* matched, untouched if it did not.  The command is not atomic over the   *)
(* collection, but it is exact on each document it has to itself.          *)
(***************************************************************************)
ExactOnOwnDocuments ==
    \A c \in Clients :
        (run[c].at = "each" /\ run[c].todo = {}) =>
            \A i \in Ids \ run[c].foreign :
                documents[run[c].coll][i] =
                    IF Selected(c, run[c].seen[i]) THEN Result(run[c], run[c].seen[i])
                    ELSE run[c].seen[i]

=============================================================================
