----------------------------- MODULE InfluxStore -----------------------------
(***************************************************************************)
(* Writes, queries and DROP DATABASE of the InfluxDB server                *)
(* (influxdb-protocol/src/handler.rs over storage.rs).  A write request    *)
(* takes its database handle once and then stores line after line; every   *)
(* point gets a key of its own from a counter of the measurement, so equal *)
(* timestamps never collide.  A line that does not parse is passed over    *)
(* and the request still succeeds.                                         *)
(*                                                                         *)
(* `sent' is auxiliary: the parsed lines stored through each handle.       *)
(***************************************************************************)
EXTENDS Integers, Sequences, FiniteSets, SequencesExt

CONSTANTS Clients, MaxHandles, MaxPoints,
          Bodies       \* write requests: sequences of timestamps, Unparsed: not a point

VARIABLES database, points, counter, handles, run, sent

influxVars == <<database, points, counter, handles, run, sent>>

Unparsed == 0
Idle == [at |-> "idle", h |-> 0, lines |-> << >>, ts |-> 0, key |-> 0]

InfluxInit ==
    /\ database = 0 /\ handles = 0
    /\ points = [h \in 0..MaxHandles |-> {}]      \* <<timestamp, key>>
    /\ counter = [h \in 0..MaxHandles |-> 0]
    /\ run = [c \in Clients |-> Idle]
    /\ sent = [h \in 0..MaxHandles |-> 0]

(* get_database of a write creates the database when it is absent.         *)
Write(c, body) ==
    /\ run[c].at = "idle"
    /\ IF database # 0 THEN UNCHANGED <<database, handles>>
       ELSE handles < MaxHandles /\ handles' = handles + 1 /\ database' = handles'
    /\ run' = [run EXCEPT ![c] = [Idle EXCEPT !.at = "lines", !.h = database', !.lines = body]]
    /\ UNCHANGED <<points, counter, sent>>

SkipLine(c) ==
    /\ run[c].at = "lines" /\ run[c].lines # << >> /\ Head(run[c].lines) = Unparsed
    /\ run' = [run EXCEPT ![c].lines = Tail(@)]
    /\ UNCHANGED <<database, points, counter, handles, sent>>

(* Measurement::write: the counter first, then the insert under that key.  *)
TakeKeyAgain(c) ==                             \* mutation: the counter is read, not advanced
    LET r == run[c] IN
    /\ r.at = "lines" /\ r.lines # << >> /\ Head(r.lines) # Unparsed
    /\ run' = [run EXCEPT ![c] = [at |-> "insert", h |-> r.h, lines |-> Tail(r.lines),
                                  ts |-> Head(r.lines), key |-> counter[r.h]]]
    /\ UNCHANGED <<database, points, counter, handles, sent>>
TakeKey(c) ==
    LET r == run[c] IN
    /\ r.at = "lines" /\ r.lines # << >> /\ Head(r.lines) # Unparsed
    /\ counter[r.h] < MaxPoints
    /\ counter' = [counter EXCEPT ![r.h] = @ + 1]
    /\ run' = [run EXCEPT ![c] = [at |-> "insert", h |-> r.h, lines |-> Tail(r.lines),
                                  ts |-> Head(r.lines), key |-> counter[r.h]]]
    /\ UNCHANGED <<database, points, handles, sent>>

InsertPoint(c) ==
    /\ run[c].at = "insert"
    /\ points' = [points EXCEPT ![run[c].h] = @ \cup {<<run[c].ts, run[c].key>>}]
    /\ sent' = [sent EXCEPT ![run[c].h] = @ + 1]
    /\ run' = [run EXCEPT ![c].at = "lines"]
    /\ UNCHANGED <<database, counter, handles>>

Answer(c) ==
    /\ run[c].at = "lines" /\ run[c].lines = << >>
    /\ run' = [run EXCEPT ![c] = Idle]
    /\ UNCHANGED <<database, points, counter, handles, sent>>

CreateDatabase ==
    /\ database = 0 /\ handles < MaxHandles
    /\ handles' = handles + 1 /\ database' = handles'
    /\ UNCHANGED <<points, counter, run, sent>>

DropDatabase ==
    /\ database # 0
    /\ database' = 0
    /\ UNCHANGED <<points, counter, handles, run, sent>>

InfluxNext ==
    \/ CreateDatabase \/ DropDatabase
    \/ \E c \in Clients :
         (\E b \in Bodies : Write(c, b)) \/ SkipLine(c) \/ TakeKey(c) \/ InsertPoint(c) \/ Answer(c)

InfluxSpec == InfluxInit /\ [][InfluxNext]_influxVars

(* SELECT: Measurement::query without bounds, then with them, in the order *)
(* of the timestamps.                                                      *)
Query(h, start, end) ==
    SetToSortSeq({p \in points[h] : p[1] >= start /\ p[1] <= end},
                 LAMBDA p, q : p[1] < q[1] \/ (p[1] = q[1] /\ p[2] < q[2]))

InfluxTypeOK == database \in 0..handles /\ \A h \in 0..MaxHandles : counter[h] \in 0..MaxPoints

(***************************************************************************)
(* Every line stored is a point of its own: SELECT returns as many points  *)
(* as lines were stored in this database since it was last created, by any *)
(* number of writers at once and with equal timestamps, in the order of    *)
(* the timestamps.                                                         *)
(***************************************************************************)
EveryLineIsAPoint ==
    \A h \in 1..handles :
        LET q == Query(h, 0, 10) IN
        /\ Len(q) = sent[h]
        /\ \A i \in 1..(Len(q) - 1) : q[i][1] <= q[i + 1][1]

=============================================================================
