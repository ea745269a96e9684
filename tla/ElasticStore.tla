---------------------------- MODULE ElasticStore ----------------------------
(***************************************************************************)
(* One index of the Elasticsearch server and the requests that use it at   *)
(* the same time (elasticsearch-protocol/src/handler.rs over storage.rs).  *)
(* A request takes a handle on the index and works on it; deleting the     *)
(* index takes the name away and nothing else, so later writes of that     *)
(* request are acknowledged and lost.  _update and the update of _bulk     *)
(* read the document, merge the fields and write the whole document back.  *)
(*                                                                         *)
(* `ref' and `mixed' are auxiliary: the documents when each action runs in *)
(* one step, and the ids written inside another request's window.          *)
(***************************************************************************)
EXTENDS Integers, Sequences, FiniteSets

CONSTANTS Clients, Ids, Fields, MaxHandles,
          Documents,   \* the <<id, document>> pairs clients send
          Bodies       \* the _bulk bodies they send, see below

VARIABLES index,       \* handle under the index's name, 0: none
          docs,        \* handle -> id -> document
          handles,
          run,         \* the request of each client
          ref, mixed

elasticVars == <<index, docs, handles, run, ref, mixed>>

(* A document maps fields to values, 0: the field is absent; NoDoc: there  *)
(* is no document.                                                         *)
NoDoc == [f \in Fields |-> -1]
Empty == [i \in Ids |-> NoDoc]
Merge(doc, new) == [f \in Fields |-> IF new[f] # 0 THEN new[f] ELSE doc[f]]

(* A request is a body: a sequence of lines [act, id, doc].  The requests  *)
(* for a single document do what a body of one action does.                *)
ActionLine(act, id) == [act |-> act, id |-> id, doc |-> NoDoc]
SourceLine(doc) == [act |-> "source", id |-> CHOOSE i \in Ids : TRUE, doc |-> doc]
PutDocument(id, doc) == <<ActionLine("index", id), SourceLine(doc)>>
UpdateRequest(id, doc) == <<ActionLine("update", id), SourceLine(doc)>>
DeleteRequest(id) == <<ActionLine("delete", id), SourceLine(NoDoc)>>

NoRequest == [body |-> << >>, at |-> "idle", i |-> 1, h |-> 0, read |-> NoDoc]

ElasticInit ==
    /\ index = 0 /\ handles = 0
    /\ docs = [h \in 0..MaxHandles |-> Empty]
    /\ run = [c \in Clients |-> NoRequest]
    /\ ref = Empty /\ mixed = {}

Goto(c, r) == run' = [run EXCEPT ![c] = r]
Line(r) == r.body[r.i]
Source(r) == r.body[r.i + 1]

(* create_index keeps an index that is there.                              *)
CreateIndex ==
    /\ index = 0 /\ handles < MaxHandles
    /\ handles' = handles + 1 /\ index' = handles'
    /\ UNCHANGED <<docs, run, ref, mixed>>

DeleteIndex ==
    /\ index # 0
    /\ index' = 0 /\ ref' = Empty /\ mixed' = {}
    /\ UNCHANGED <<docs, handles, run>>

(* get_index: a request for an index that is not there is refused.         *)
Resolve(c, body) ==
    /\ run[c].at = "idle" /\ index # 0
    /\ Goto(c, [NoRequest EXCEPT !.body = body, !.at = "line", !.h = index])
    /\ UNCHANGED <<index, docs, handles, ref, mixed>>

(* The line after one that was carried out.  In _bulk every line advances  *)
(* by two, and a delete, whose own `i += 1; continue' continues the loop   *)
(* over the actions of the line, by three.                                 *)
Advance(r, act) == r.i + (IF act = "delete" THEN 3 ELSE 2)
Done(r, act) == [r EXCEPT !.i = Advance(r, act), !.at = "line", !.read = NoDoc]

InWindow(c, h, id) ==
    \E d \in Clients \ {c} : run[d].at = "write" /\ run[d].h = h /\ Line(run[d]).id = id
(* A write of client c into handle h, and what the same action does to the *)
(* reference.                                                              *)
Store(c, id, doc, refDoc, r) ==
    LET h == run[c].h IN
    /\ docs' = [docs EXCEPT ![h][id] = doc]
    /\ mixed' = mixed \cup {x \in {id} : h = index /\ InWindow(c, h, id)}
    /\ ref' = [ref EXCEPT ![id] = IF id \in mixed' THEN NoDoc ELSE IF h = index THEN refDoc ELSE @]
    /\ Goto(c, r)
    /\ UNCHANGED <<index, handles>>

AtLine(c, acts) ==
    /\ run[c].at = "line" /\ run[c].i < Len(run[c].body) /\ Line(run[c]).act \in acts

IndexDocument(c) ==
    /\ AtLine(c, {"index", "create"})
    /\ Store(c, Line(run[c]).id, Source(run[c]).doc, Source(run[c]).doc,
             Done(run[c], Line(run[c]).act))

DeleteDocument(c) ==
    /\ AtLine(c, {"delete"})
    /\ LET id == Line(run[c]).id IN
       Store(c, id, NoDoc, NoDoc, Done(run[c], "delete"))

(* get_document of an update; a missing document is reported.              *)
UpdateRead(c) ==
    /\ AtLine(c, {"update"})
    /\ LET doc == docs[run[c].h][Line(run[c]).id] IN
       Goto(c, IF doc = NoDoc THEN Done(run[c], "update")
               ELSE [run[c] EXCEPT !.at = "write", !.read = doc])
    /\ UNCHANGED <<index, docs, handles, ref, mixed>>

UpdateReplaces(c) ==                           \* mutation: the fields sent replace the document
    /\ run[c].at = "write"
    /\ LET id == Line(run[c]).id
           new == Source(run[c]).doc
       IN  Store(c, id, new, IF ref[id] = NoDoc THEN NoDoc ELSE Merge(ref[id], new), Done(run[c], "update"))
UpdateWrite(c) ==
    /\ run[c].at = "write"
    /\ LET id == Line(run[c]).id
           new == Source(run[c]).doc
       IN  Store(c, id, Merge(run[c].read, new),
                 IF ref[id] = NoDoc THEN NoDoc ELSE Merge(ref[id], new),
                 Done(run[c], "update"))

(* A line that names no action is passed over with the line after it.      *)
OtherLine(c) ==
    /\ AtLine(c, {"source"})
    /\ Goto(c, Done(run[c], "source"))
    /\ UNCHANGED <<index, docs, handles, ref, mixed>>

(* The loop needs two lines; a last one alone is never looked at.          *)
Answer(c) ==
    /\ run[c].at = "line" /\ run[c].i >= Len(run[c].body)
    /\ Goto(c, NoRequest)
    /\ UNCHANGED <<index, docs, handles, ref, mixed>>

(* GET of a document and _search, which answers with every document        *)
(* whatever the query; the counts of _cat/indices.                         *)
GetDocument(id) == IF index = 0 THEN NoDoc ELSE docs[index][id]
Search == IF index = 0 THEN {} ELSE {id \in Ids : docs[index][id] # NoDoc}
CatCount == Cardinality(Search)

ElasticNext ==
    \/ CreateIndex \/ DeleteIndex
    \/ \E c \in Clients :
         \/ \E b \in Bodies : Resolve(c, b)
         \/ \E d \in Documents :
              \/ Resolve(c, PutDocument(d[1], d[2])) \/ Resolve(c, UpdateRequest(d[1], d[2]))
              \/ Resolve(c, DeleteRequest(d[1]))
         \/ IndexDocument(c) \/ DeleteDocument(c) \/ UpdateRead(c) \/ UpdateWrite(c)
         \/ OtherLine(c) \/ Answer(c)

ElasticSpec == ElasticInit /\ [][ElasticNext]_elasticVars

ElasticTypeOK ==
    /\ index \in 0..handles /\ handles \in 0..MaxHandles
    /\ \A c \in Clients : run[c].at \in {"idle", "line", "write"} /\ run[c].h \in 0..handles
    /\ \A i \in Ids : (ref[i] = NoDoc) \/ (\A f \in Fields : ref[i][f] # -1)

(***************************************************************************)
(* What GET and _search find is what the same actions leave when each runs *)
(* in one step, except for documents on which an action of another request *)
(* fell between the read and the write of an update.                       *)
(***************************************************************************)
DocumentsSerial ==
    LET settled(id) == id \notin mixed /\ ~\E c \in Clients : InWindow(c, index, id) IN
    /\ \A id \in Ids : settled(id) => GetDocument(id) = ref[id]
    /\ (\A id \in Ids : settled(id)) => CatCount = Cardinality({id \in Ids : ref[id] # NoDoc})

=============================================================================
