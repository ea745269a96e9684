---------------------------- MODULE TunnelUpload ----------------------------
(***************************************************************************)
(* A tunnel upload of the MaxCompute server                                *)
(* (maxcompute-protocol/src/tunnel/session.rs): blocks are collected in    *)
(* the session, and a commit copies the session, builds one INSERT from    *)
(* the copy, runs it in the engine and then marks the session.  The engine *)
(* is external: it inserts all rows or answers with an error.  Sessions    *)
(* may be evicted at any time (McRegistry).  A download session keeps the  *)
(* rows one SELECT returned and serves ranges of them.                     *)
(***************************************************************************)
EXTENDS Integers, Sequences, FiniteSets

CONSTANTS Clients, BlockIds, Rows, MaxRows, CountWidth

VARIABLES session,     \* [status, blocks]: "none" before creation and after eviction
          table,       \* the rows in the engine
          download,    \* the cached rows of a download session
          run,
          sent,        \* auxiliary: the blocks the session has accepted
          acked,       \* auxiliary: a commit was answered with success
          overlapped   \* auxiliary: requests overlapped a commit on the session

uploadVars == <<session, table, download, run, sent, acked, overlapped>>

NoBlocks == [b \in BlockIds |-> << >>]
Gone == [status |-> "none", blocks |-> NoBlocks]
Idle == [at |-> "idle", copy |-> NoBlocks]

UploadInit ==
    /\ session = [Gone EXCEPT !.status = "normal"] /\ table = << >> /\ download = << >>
    /\ run = [c \in Clients |-> Idle]
    /\ sent = NoBlocks /\ acked = FALSE /\ overlapped = FALSE

(* all_rows: the blocks in the order of their ids (a BTreeMap).            *)
AllRows(blocks) ==
    LET upTo[b \in Nat] == IF b = 0 THEN << >>
                           ELSE upTo[b - 1] \o (IF b \in BlockIds THEN blocks[b] ELSE << >>)
    IN  upTo[CHOOSE m \in BlockIds : \A b \in BlockIds : b <= m]

Committing == {c \in Clients : run[c].at # "idle"}

-----------------------------------------------------------------------------
(* upload_block: a block sent again replaces the one there was.            *)
UploadBlockAppends(c, b, rows) ==              \* mutation: a block sent again is added
    /\ run[c].at = "idle"
    /\ IF session.status = "normal"
       THEN /\ session' = [session EXCEPT !.blocks[b] = @ \o rows]
            /\ sent' = [sent EXCEPT ![b] = rows]
            /\ overlapped' = (overlapped \/ Committing # {})
       ELSE UNCHANGED <<session, sent, overlapped>>
    /\ UNCHANGED <<table, download, run, acked>>
UploadBlock(c, b, rows) ==
    /\ run[c].at = "idle"
    /\ IF session.status = "normal"
       THEN /\ session' = [session EXCEPT !.blocks[b] = rows]
            /\ sent' = [sent EXCEPT ![b] = rows]
            /\ overlapped' = (overlapped \/ Committing # {})
       ELSE UNCHANGED <<session, sent, overlapped>>
    /\ UNCHANGED <<table, download, run, acked>>

(* commit_upload, up to the INSERT: the copy, its status, and the sessions *)
(* without rows, which are marked at once.                                 *)
CommitRead(c) ==
    /\ run[c].at = "idle" /\ session.status = "normal"
    /\ run' = [run EXCEPT ![c] = [at |-> IF AllRows(session.blocks) = << >> THEN "mark" ELSE "insert",
                                  copy |-> session.blocks]]
    /\ overlapped' = (overlapped \/ Committing # {})
    /\ UNCHANGED <<session, table, download, sent, acked>>

(* handle_query and the test for an error column.                          *)
CommitInsert(c) ==
    /\ run[c].at = "insert"
    /\ \/ /\ Len(table) + Len(AllRows(run[c].copy)) <= MaxRows
          /\ table' = table \o AllRows(run[c].copy)
          /\ run' = [run EXCEPT ![c].at = "mark"]
       \/ run' = [run EXCEPT ![c] = Idle] /\ UNCHANGED table
    /\ UNCHANGED <<session, download, sent, acked, overlapped>>

CommitMark(c) ==
    /\ run[c].at = "mark"
    /\ session' = IF session.status = "none" THEN session ELSE [session EXCEPT !.status = "committed"]
    /\ acked' = TRUE
    /\ run' = [run EXCEPT ![c] = Idle]
    /\ UNCHANGED <<table, download, sent, overlapped>>

Evict ==
    /\ session' = Gone
    /\ UNCHANGED <<table, download, run, sent, acked, overlapped>>

(* create_download_session.                                                *)
CreateDownload ==
    /\ download' = table
    /\ UNCHANGED <<session, table, run, sent, acked, overlapped>>

(* get_download_data: the sum wraps at the width of usize, and a range     *)
(* whose end is before its start aborts the request.                       *)
Range_(start, count) ==
    LET wrapped == (start + count) % CountWidth
        end == IF wrapped < Len(download) THEN wrapped ELSE Len(download)
    IN  IF start >= Len(download) THEN << >>
        ELSE IF end < start THEN <<"panic">>
        ELSE SubSeq(download, start + 1, end)

UploadNext ==
    \/ \E c \in Clients :
         \/ \E b \in BlockIds, rows \in Rows : UploadBlock(c, b, rows)
         \/ CommitRead(c) \/ CommitInsert(c) \/ CommitMark(c)
    \/ Evict \/ CreateDownload

UploadTypeOK ==
    /\ session.status \in {"none", "normal", "committed"} /\ acked \in BOOLEAN
    /\ Len(table) <= MaxRows /\ overlapped \in BOOLEAN

(***************************************************************************)
(* A session whose commits overlap with nothing puts its rows into the     *)
(* table exactly once, in the order of the block ids, and only when a      *)
(* commit was answered with success: failed commits can be repeated, a     *)
(* block sent twice counts once, a block after the commit is refused, and  *)
(* eviction half way loses nothing.  A download split in ranges is the     *)
(* cached rows, whatever was committed since.                              *)
(***************************************************************************)
CommittedOnce ==
    /\ ~overlapped /\ Committing = {} =>
          table = IF acked THEN AllRows(sent) ELSE << >>
    /\ \A m \in 0..Len(download) : Range_(0, m) \o Range_(m, Len(download)) = download

=============================================================================
