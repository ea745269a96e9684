----------------------------- MODULE VectorStore -----------------------------
(***************************************************************************)
(* A collection of the vector server (vector-protocol/src/storage.rs and   *)
(* handler.rs).  An id has its vector in one map and its metadata in       *)
(* another; insert writes the two one after the other, delete removes the  *)
(* two one after the other and stops when the first finds nothing.         *)
(* Creating a collection that exists replaces it by an empty one.          *)
(*                                                                         *)
(* `mixed' is auxiliary: the ids on which two requests overlapped.         *)
(***************************************************************************)
EXTENDS Integers, Sequences, FiniteSets

CONSTANTS Clients, Ids, Tags, MaxHandles,
          Requests     \* what clients send: <<operation, id, tag>>

VARIABLES collection,  \* handle under the collection's name, 0: none
          vectors,     \* handle -> id -> the tag of the insert, None: absent
          metadata,    \* handle -> id -> the same, of the metadata
          handles, run, mixed

vectorVars == <<collection, vectors, metadata, handles, run, mixed>>

None == 0
Idle == [at |-> "idle", h |-> 0, id |-> CHOOSE i \in Ids : TRUE, tag |-> None]
Empty == [i \in Ids |-> None]

VectorInit ==
    /\ collection = 0 /\ handles = 0
    /\ vectors = [h \in 0..MaxHandles |-> Empty]
    /\ metadata = [h \in 0..MaxHandles |-> Empty]
    /\ run = [c \in Clients |-> Idle]
    /\ mixed = {}

CreateCollection ==
    /\ handles < MaxHandles
    /\ handles' = handles + 1 /\ collection' = handles' /\ mixed' = {}
    /\ UNCHANGED <<vectors, metadata, run>>

DropCollection ==
    /\ collection # 0
    /\ collection' = 0 /\ mixed' = {}
    /\ UNCHANGED <<vectors, metadata, handles, run>>

(* Ids on which a request other than c's is running in the same collection.*)
Busy(c, h) == {run[d].id : d \in {e \in Clients \ {c} : run[e].at # "idle" /\ run[e].h = h}}

Request(c, at, id, tag) ==
    /\ run[c].at = "idle" /\ collection # 0
    /\ run' = [run EXCEPT ![c] = [at |-> at, h |-> collection, id |-> id, tag |-> tag]]
    /\ mixed' = mixed \cup ({id} \cap Busy(c, collection))
    /\ UNCHANGED <<collection, vectors, metadata, handles>>

Advance(c, at) == run' = [run EXCEPT ![c] = IF at = "idle" THEN Idle ELSE [@ EXCEPT !.at = at]]

InsertVector(c) ==
    /\ run[c].at = "insert"
    /\ vectors' = [vectors EXCEPT ![run[c].h][run[c].id] = run[c].tag]
    /\ Advance(c, "insertMeta")
    /\ UNCHANGED <<collection, metadata, handles, mixed>>

InsertMetadata(c) ==
    /\ run[c].at = "insertMeta"
    /\ metadata' = [metadata EXCEPT ![run[c].h][run[c].id] = run[c].tag]
    /\ Advance(c, "idle")
    /\ UNCHANGED <<collection, vectors, handles, mixed>>

DeleteVectorOnly(c) ==                         \* mutation: the metadata stays
    /\ run[c].at = "delete"
    /\ vectors' = [vectors EXCEPT ![run[c].h][run[c].id] = None]
    /\ Advance(c, "idle")
    /\ UNCHANGED <<collection, metadata, handles, mixed>>
DeleteVector(c) ==
    /\ run[c].at = "delete"
    /\ vectors' = [vectors EXCEPT ![run[c].h][run[c].id] = None]
    /\ Advance(c, IF vectors[run[c].h][run[c].id] = None THEN "idle" ELSE "deleteMeta")
    /\ UNCHANGED <<collection, metadata, handles, mixed>>

DeleteMetadata(c) ==
    /\ run[c].at = "deleteMeta"
    /\ metadata' = [metadata EXCEPT ![run[c].h][run[c].id] = None]
    /\ Advance(c, "idle")
    /\ UNCHANGED <<collection, vectors, handles, mixed>>

VectorNext ==
    \/ CreateCollection \/ DropCollection
    \/ \E c \in Clients :
         \/ \E r \in Requests : Request(c, r[1], r[2], r[3])
         \/ InsertVector(c) \/ InsertMetadata(c) \/ DeleteVector(c) \/ DeleteMetadata(c)

VectorSpec == VectorInit /\ [][VectorNext]_vectorVars

(* search: every vector with its metadata, None standing for the empty     *)
(* text of an id without any.                                              *)
Search == {<<i, vectors[collection][i], metadata[collection][i]>> :
              i \in {j \in Ids : vectors[collection][j] # None}}

VectorTypeOK ==
    /\ collection \in 0..handles /\ mixed \subseteq Ids
    /\ \A h \in 0..MaxHandles, i \in Ids : {vectors[h][i], metadata[h][i]} \subseteq Tags \cup {None}

(***************************************************************************)
(* A search result carries the metadata of the insert that stored its      *)
(* vector, and no metadata outlives its vector, except for ids a running   *)
(* request is working on and ids on which two requests overlapped.         *)
(***************************************************************************)
MetadataFollowsVector ==
    collection # 0 =>
        LET quiet == Ids \ (mixed \cup Busy(0, collection)) IN
        /\ \A r \in Search : r[1] \in quiet => r[2] = r[3]
        /\ \A i \in quiet : vectors[collection][i] = None => metadata[collection][i] = None

=============================================================================
