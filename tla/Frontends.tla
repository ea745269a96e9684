----------------------------- MODULE Frontends -----------------------------
(***************************************************************************)
(* The MySQL server, the PostgreSQL server and the web editor, in front of *)
(* the one query handler that harness-server gives to all three.           *)
(*                                                                         *)
(* Every connection is a task of its own.  The handler keys what it knows  *)
(* of a connection (its session: the current database) by a number:        *)
(* each server counts its own connections, MySQL and PostgreSQL both from  *)
(* one, the web editor from WebOffset.  A connection occupies a permit of  *)
(* its server, a query occupies a permit of the handler.                   *)
(*                                                                         *)
(* Left out: what statements other than USE and the transaction commands   *)
(* do (ParquetStorage and SchemaChange model them), session variables, the *)
(* transaction flag and the savepoints of a session (only COMMIT, ROLLBACK *)
(* and SAVEPOINT read them), the mark KILL leaves in the tracker (no task  *)
(* reads it), the packets and the counters that only metrics read.         *)
(***************************************************************************)
EXTENDS Integers, FiniteSets

CONSTANTS
    Clients,         \* the connections clients open, one each
    Kind,            \* the server a client connects to: "mysql", "pg", "web"
    Databases,       \* databases of the catalog
    Missing,         \* a database name the catalog does not hold
    Lower,           \* the lower-case form of a name
    MaxConnections,  \* permits of connection_semaphore, per server
    MaxQueries,      \* permits of query_semaphore
    WebOffset        \* the first number of WEB_CONN_COUNTER

Servers == {"mysql", "pg"}

Names == Databases \cup {Missing}

ASSUME NamesAssumption == Missing \notin Databases /\ Lower \in [Names -> Names]
ASSUME ClientsAssumption == IsFiniteSet(Clients) /\ Kind \in [Clients -> Servers \cup {"web"}]
ASSUME BoundsAssumption ==
    /\ MaxConnections \in Nat \ {0}
    /\ MaxQueries \in Nat \ {0}
    /\ WebOffset \in Nat /\ WebOffset > Cardinality(Clients)

VARIABLES
    counter,          \* the next number of each server
    permits,          \* free permits of each server's connection_semaphore
    query_permits,    \* free permits of query_semaphore
    sessions,         \* HarnessQueryHandler.sessions
    tracked,          \* ConnectionTracker.connections: the numbers registered
    phase,            \* where the task of a client's connection is
    id,               \* the number it was given
    mine              \* (history) the database its own statements selected last

vars == <<counter, permits, query_permits, sessions, tracked,
          phase, id, mine>>

InformationSchema == "information_schema"
NoDatabase == ""

Phases == {"new", "accepted", "auth", "command", "query", "closing", "dropping",
           "closed", "panicked"}

SessionState == Names \cup {InformationSchema, NoDatabase}

TypeOK ==
    /\ counter \in [Servers \cup {"web"} -> Nat]
    /\ permits \in [Servers -> 0 .. MaxConnections]
    /\ query_permits \in 0 .. MaxQueries
    /\ DOMAIN sessions \subseteq Nat
    /\ \A i \in DOMAIN sessions :
           sessions[i] \in SessionState
    /\ tracked \subseteq Nat
    /\ phase \in [Clients -> Phases]
    /\ id \in [Clients -> Nat]
    /\ mine \in [Clients -> SessionState]

Init ==
    /\ counter = [s \in Servers \cup {"web"} |-> IF s = "web" THEN WebOffset ELSE 1]
    /\ permits = [s \in Servers |-> MaxConnections]
    /\ query_permits = MaxQueries
    /\ sessions = [i \in {} |-> InformationSchema]
    /\ tracked = {}
    /\ phase = [c \in Clients |-> "new"]
    /\ id = [c \in Clients |-> 0]
    /\ mine = [c \in Clients |-> InformationSchema]

-----------------------------------------------------------------------------
(* The handler's maps.                                                     *)

get_session(i) == IF i \in DOMAIN sessions THEN sessions[i] ELSE InformationSchema

(* Whatever a handler does with a session, it creates it first.            *)
with_session_mut(i, db) ==
    sessions' = [j \in DOMAIN sessions \cup {i} |-> IF j = i THEN db ELSE sessions[j]]

set_current_database(c, i, db) ==
    /\ with_session_mut(i, db)
    /\ mine' = [mine EXCEPT ![c] = db]

on_connect(i) == tracked' = tracked \cup {i}

on_disconnect(i) ==
    /\ tracked' = tracked \ {i}
    /\ sessions' = [j \in DOMAIN sessions \ {i} |-> sessions[j]]

-----------------------------------------------------------------------------
(* Accepting a connection.  MySQL and PostgreSQL take the number first and *)
(* drop the stream when no permit is left: the number is spent.            *)

\* Mutation: the number is read and the counter stays.
AcceptWithoutCounting(c) ==
    /\ phase[c] = "new" /\ Kind[c] \in Servers
    /\ IF permits[Kind[c]] = 0
       THEN /\ phase' = [phase EXCEPT ![c] = "closed"]
            /\ UNCHANGED <<permits, id>>
       ELSE /\ phase' = [phase EXCEPT ![c] = "accepted"]
            /\ id' = [id EXCEPT ![c] = counter[Kind[c]]]
            /\ permits' = [permits EXCEPT ![Kind[c]] = @ - 1]
    /\ UNCHANGED <<counter, query_permits, sessions, tracked, mine>>

Accept(c) ==
    /\ phase[c] = "new" /\ Kind[c] \in Servers
    /\ counter' = [counter EXCEPT ![Kind[c]] = @ + 1]
    /\ IF permits[Kind[c]] = 0
       THEN /\ phase' = [phase EXCEPT ![c] = "closed"]
            /\ UNCHANGED <<permits, id>>
       ELSE /\ phase' = [phase EXCEPT ![c] = "accepted"]
            /\ id' = [id EXCEPT ![c] = counter[Kind[c]]]
            /\ permits' = [permits EXCEPT ![Kind[c]] = @ - 1]
    /\ UNCHANGED <<query_permits, sessions, tracked, mine>>

(* MySQL registers the connection before it sends the handshake.           *)
MysqlHandshake(c) ==
    /\ phase[c] = "accepted" /\ Kind[c] = "mysql"
    /\ on_connect(id[c])
    /\ phase' = [phase EXCEPT ![c] = "auth"]
    /\ UNCHANGED <<counter, permits, query_permits, sessions, id, mine>>

(* PostgreSQL's startup message sets the database, empty when the client   *)
(* names none, and then registers the connection; a message that is not a  *)
(* startup, an end of stream or 300 s of silence ends it.                  *)
PgStartup(c, db) ==
    /\ phase[c] = "accepted" /\ Kind[c] = "pg"
    /\ set_current_database(c, id[c], db)
    /\ on_connect(id[c])
    /\ phase' = [phase EXCEPT ![c] = "auth"]
    /\ UNCHANGED <<counter, permits, query_permits, id>>

(* The MySQL response may name a database, too.                            *)
AuthOk(c) ==
    /\ phase[c] = "auth"
    /\ phase' = [phase EXCEPT ![c] = "command"]
    /\ \/ UNCHANGED <<sessions, mine>>
       \/ \E db \in Names :
              /\ Kind[c] = "mysql"
              /\ set_current_database(c, id[c], db)
    /\ UNCHANGED <<counter, permits, query_permits, tracked, id>>

-----------------------------------------------------------------------------
(* Leaving.  A refused password, the authentication timeout of 30 s, an    *)
(* end of stream, COM_QUIT or Terminate all lead to "closing".             *)

\* Mutation: no timeout while the client authenticates.
LeaveOnlyWhenAsked(c) ==
    /\ Kind[c] \in Servers
    /\ phase[c] = "command" \/ (phase[c] = "accepted" /\ Kind[c] = "pg")
    /\ phase' = [phase EXCEPT ![c] = "closing"]
    /\ UNCHANGED <<counter, permits, query_permits, sessions, tracked, id, mine>>

Leave(c) ==
    /\ Kind[c] \in Servers
    /\ \/ phase[c] \in {"auth", "command"}
       \/ phase[c] = "accepted" /\ Kind[c] = "pg"
    /\ phase' = [phase EXCEPT ![c] = "closing"]
    /\ UNCHANGED <<counter, permits, query_permits, sessions, tracked,
                   id, mine>>

\* Mutation: on_disconnect leaves the session in the map.
DisconnectForgettingTheSession(c) ==
    /\ phase[c] = "closing"
    /\ tracked' = tracked \ {id[c]}
    /\ phase' = [phase EXCEPT ![c] = "dropping"]
    /\ UNCHANGED <<counter, permits, query_permits, sessions, id, mine>>

Disconnect(c) ==
    /\ phase[c] = "closing"
    /\ on_disconnect(id[c])
    /\ phase' = [phase EXCEPT ![c] = "dropping"]
    /\ UNCHANGED <<counter, permits, query_permits, id, mine>>

(* A task that is gone has no number any more.                             *)
Forget(c) ==
    /\ phase' = [phase EXCEPT ![c] = "closed"]
    /\ id' = [id EXCEPT ![c] = 0]
    /\ mine' = [mine EXCEPT ![c] = InformationSchema]

(* The task ends: MySQL's Connection calls on_disconnect once more when it *)
(* is dropped, PostgreSQL's does not; then the permit goes back.           *)
\* Mutation: the permit is not given back.
DropWithoutPermit(c) ==
    /\ phase[c] = "dropping"
    /\ IF Kind[c] = "mysql" THEN on_disconnect(id[c]) ELSE UNCHANGED <<sessions, tracked>>
    /\ Forget(c)
    /\ UNCHANGED <<counter, permits, query_permits>>

Drop(c) ==
    /\ phase[c] = "dropping"
    /\ IF Kind[c] = "mysql" THEN on_disconnect(id[c]) ELSE UNCHANGED <<sessions, tracked>>
    /\ permits' = [permits EXCEPT ![Kind[c]] = @ + 1]
    /\ Forget(c)
    /\ UNCHANGED <<counter, query_permits>>

(* A panic in a request unwinds to catch_unwind: locals are dropped, the   *)
(* call of on_disconnect after run is not reached.                         *)
\* Mutation: the permit is given back by catch_unwind and again on drop.
PanicReleasingTwice(c) ==
    /\ phase[c] = "command" /\ Kind[c] \in Servers
    /\ permits' = [permits EXCEPT ![Kind[c]] = @ + 1]
    /\ phase' = [phase EXCEPT ![c] = IF Kind[c] = "mysql" THEN "dropping" ELSE "panicked"]
    /\ UNCHANGED <<counter, query_permits, sessions, tracked, id, mine>>

Panic(c) ==
    /\ phase[c] = "command" /\ Kind[c] \in Servers
    /\ IF Kind[c] = "mysql"
       THEN /\ phase' = [phase EXCEPT ![c] = "dropping"]
            /\ UNCHANGED permits
       ELSE /\ phase' = [phase EXCEPT ![c] = "panicked"]
            /\ permits' = [permits EXCEPT ![Kind[c]] = @ + 1]
    /\ UNCHANGED <<counter, query_permits, sessions, tracked, id, mine>>

-----------------------------------------------------------------------------
(* Statements.  A web request is given a number of its own, may name a     *)
(* database, and runs one statement; nothing removes its session.          *)

WebRequest(c) ==
    /\ phase[c] = "new" /\ Kind[c] = "web"
    /\ id' = [id EXCEPT ![c] = counter["web"]]
    /\ counter' = [counter EXCEPT !["web"] = @ + 1]
    /\ phase' = [phase EXCEPT ![c] = "command"]
    /\ \/ UNCHANGED <<sessions, mine>>
       \/ \E db \in Names :
              /\ set_current_database(c, counter["web"], db)
    /\ UNCHANGED <<permits, query_permits, tracked>>

Answered(c) == phase' = [phase EXCEPT ![c] = IF Kind[c] = "web" THEN "closed" ELSE "command"]

(* USE: the handler refuses a name the catalog does not hold.  MySQL's     *)
(* COM_QUERY then sets the database to the name in lower case whatever the *)
(* handler said; PostgreSQL, the web and COM_STMT_PREPARE leave it at that.*)
Use(c, db) ==
    /\ phase[c] = "command"
    /\ \/ /\ Kind[c] = "mysql"
          /\ set_current_database(c, id[c], Lower[db])
       \/ /\ db \in Databases
          /\ set_current_database(c, id[c], db)
       \/ /\ db \notin Databases
          /\ UNCHANGED <<sessions, mine>>
    /\ Answered(c)
    /\ UNCHANGED <<counter, permits, query_permits, tracked, id>>

(* COM_INIT_DB sets the name it is given.                                  *)
InitDb(c, db) ==
    /\ phase[c] = "command" /\ Kind[c] = "mysql"
    /\ set_current_database(c, id[c], db)
    /\ UNCHANGED <<counter, permits, query_permits, tracked, phase, id>>

(* BEGIN, COMMIT, ROLLBACK and the savepoint commands, accepted or         *)
(* refused, create the session.  MySQL's COM_QUERY answers the first three *)
(* itself; its COM_STMT_PREPARE hands them to the handler, too.            *)
Transaction(c) ==
    /\ phase[c] = "command"
    /\ with_session_mut(id[c], get_session(id[c]))
    /\ Answered(c)
    /\ UNCHANGED <<counter, permits, query_permits, tracked, id, mine>>

(* SELECT runs on a thread of its own under a query permit; with none left *)
(* it is answered with an error.                                           *)
Select(c) ==
    /\ phase[c] = "command"
    /\ IF query_permits = 0
       THEN /\ Answered(c)
            /\ UNCHANGED query_permits
       ELSE /\ phase' = [phase EXCEPT ![c] = "query"]
            /\ query_permits' = query_permits - 1
    /\ UNCHANGED <<counter, permits, sessions, tracked, id, mine>>

(* It ends: with rows, with an error or with a panic of the thread.        *)
SelectDone(c) ==
    /\ phase[c] = "query"
    /\ query_permits' = query_permits + 1
    /\ Answered(c)
    /\ UNCHANGED <<counter, permits, sessions, tracked, id, mine>>

Next ==
    \E c \in Clients :
        \/ Accept(c) \/ MysqlHandshake(c) \/ AuthOk(c)
        \/ \E db \in Names \cup {NoDatabase} : PgStartup(c, db)
        \/ Leave(c) \/ Disconnect(c) \/ Drop(c) \/ Panic(c)
        \/ WebRequest(c) \/ Transaction(c)
        \/ \E db \in Names : Use(c, db) \/ InitDb(c, db)
        \/ Select(c) \/ SelectDone(c)

Spec == Init /\ [][Next]_vars

(* The runtime runs every task that can run: a task that closes goes on to *)
(* its end, a query thread ends, and a connection that is not              *)
(* authenticated is timed out (MySQL after 30 s, PostgreSQL after 300 s of *)
(* silence).  Nothing makes a client connect, log in or send a statement.  *)
FairSpec ==
    /\ Spec
    /\ \A c \in Clients :
          /\ WF_vars(MysqlHandshake(c) \/ Disconnect(c) \/ Drop(c) \/ SelectDone(c))
          /\ WF_vars(Leave(c) /\ phase[c] # "command")

-----------------------------------------------------------------------------
Open == {c \in Clients : phase[c] \in {"accepted", "auth", "command", "query", "closing", "dropping"}}

Serving(c) == phase[c] \in {"command", "query"}

(* Numbers of one server are never shared: as long as the other server has *)
(* not come to the number of a connection, the connection's statements run *)
(* in the database they selected last themselves, and a new connection     *)
(* starts in information_schema whatever earlier connections of its server *)
(* left behind (connection_counter, sessions, on_disconnect).              *)
OwnDatabaseWithinServer ==
    \A c \in Clients :
        Serving(c) /\ (\A s \in Servers \ {Kind[c]} : counter[s] <= id[c])
            => get_session(id[c]) = mine[c]

(* on_disconnect leaves nothing behind: a session or an entry of the       *)
(* tracker belongs to an open connection, to a web request, or to a        *)
(* PostgreSQL connection whose task panicked.                              *)
NoStaleSession ==
    \A i \in DOMAIN sessions \cup tracked :
        \E c \in Clients :
            /\ id[c] = i
            /\ c \in Open \/ phase[c] = "panicked" \/ Kind[c] = "web"

(* No path loses a permit: rejected, failed, killed and panicked           *)
(* connections and refused queries included, what is free and what open    *)
(* connections and running queries hold add up to the configured limits.   *)
PermitsAddUp ==
    /\ \A s \in Servers : permits[s] + Cardinality({c \in Open : Kind[c] = s}) = MaxConnections
    /\ query_permits + Cardinality({c \in Clients : phase[c] = "query"}) = MaxQueries

(* Every wait ends: a client that connects and never logs in gives its     *)
(* permit back, a query is answered, a connection that closes is closed.   *)
EveryWaitEnds ==
    \A c \in Clients :
        /\ phase[c] \in {"accepted", "auth", "query"} ~> phase[c] \in {"command", "closed"}
        /\ phase[c] = "closing" ~> phase[c] = "closed"

(* Each connection maintains its own database context: the statements of a *)
(* connection run in the database it selected last.                        *)
ConnectionKeepsItsDatabase ==
    \A c \in Clients : Serving(c) => get_session(id[c]) = mine[c]

=============================================================================
