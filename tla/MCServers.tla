----------------------------- MODULE MCServers -----------------------------
(***************************************************************************)
(* The servers and protocol handlers with a state of their own, side by    *)
(* side.  They share nothing but the process, so a behaviour lets one of   *)
(* them (`server') act and leaves the others in their initial state.       *)
(***************************************************************************)
EXTENDS Integers, Sequences, FiniteSets, TLC

CONSTANTS c1, c2, k1, k2

VARIABLES server,
          redisDb, redisRun, redisRef, redisMixed,
          mongoDatabase, mongoCollection, mongoDocuments, mongoHandles, mongoRun,
          elasticIndex, elasticDocs, elasticHandles, elasticRun, elasticRef, elasticMixed,
          cassandraKeyspaces, cassandraTables, cassandraRows, cassandraHandles, cassandraSessions,
          cassandraRun, cassandraRef, cassandraMixed,
          tablestoreTable, tablestoreRows, tablestoreHandles, tablestoreRun, tablestoreRef,
          tablestoreMixed,
          vectorCollection, vectorVectors, vectorMetadata, vectorHandles, vectorRun, vectorMixed,
          influxDatabase, influxPoints, influxCounter, influxHandles, influxRun, influxSent,
          lindormCreated, lindormRows, lindormRun, lindormCells,
          sessionsProtocol, sessionsVersion, sessionsStmts, sessionsPortals, sessionsBound,
          sessionsMiscounted, sessionsPrepared, sessionsGiven, sessionsRuns, sessionsDatabase,
          sessionsSession, sessionsDrift,
          clickHouseDatabase, clickHouseTable, clickHouseHandles, clickHouseRun, clickHouseRowsOf,
          clickHouseRaced,
          adbCurrent, adbDatabase, adbTable, adbRows, adbNextRowId, adbHandles, adbRun,
          instancesEntries, instancesClock, instancesRun, instancesReached,
          tunnelEntries, tunnelClock, tunnelRun, tunnelReached,
          uploadSession, uploadTable, uploadDownload, uploadRun, uploadSent, uploadAcked,
          uploadOverlapped

Clients == {c1, c2}

redis == <<redisDb, redisRun, redisRef, redisMixed>>
mongo == <<mongoDatabase, mongoCollection, mongoDocuments, mongoHandles, mongoRun>>
elastic == <<elasticIndex, elasticDocs, elasticHandles, elasticRun, elasticRef, elasticMixed>>
cassandra == <<cassandraKeyspaces, cassandraTables, cassandraRows, cassandraHandles,
               cassandraSessions, cassandraRun, cassandraRef, cassandraMixed>>
tablestore == <<tablestoreTable, tablestoreRows, tablestoreHandles, tablestoreRun, tablestoreRef,
                tablestoreMixed>>
vector == <<vectorCollection, vectorVectors, vectorMetadata, vectorHandles, vectorRun, vectorMixed>>
influx == <<influxDatabase, influxPoints, influxCounter, influxHandles, influxRun, influxSent>>
lindorm == <<lindormCreated, lindormRows, lindormRun, lindormCells>>
sessions == <<sessionsProtocol, sessionsVersion, sessionsStmts, sessionsPortals, sessionsBound,
              sessionsMiscounted, sessionsPrepared, sessionsGiven, sessionsRuns, sessionsDatabase,
              sessionsSession, sessionsDrift>>
clickHouse == <<clickHouseDatabase, clickHouseTable, clickHouseHandles, clickHouseRun,
                clickHouseRowsOf, clickHouseRaced>>
adb == <<adbCurrent, adbDatabase, adbTable, adbRows, adbNextRowId, adbHandles, adbRun>>
instances == <<instancesEntries, instancesClock, instancesRun, instancesReached>>
tunnel == <<tunnelEntries, tunnelClock, tunnelRun, tunnelReached>>
upload == <<uploadSession, uploadTable, uploadDownload, uploadRun, uploadSent, uploadAcked,
            uploadOverlapped>>

-----------------------------------------------------------------------------
RedisString(n) == [kind |-> "string", val |-> <<n>>]
RedisModify(op, arg) == [op |-> op, key |-> k1, arg |-> arg]
RedisSet(left, cond) ==
    [op |-> "set", key |-> k1, value |-> RedisString(0), left |-> left, cond |-> cond]
RedisCommands ==
    {RedisSet(2, "always"), RedisSet(-1, "nx"), [op |-> "read", key |-> k1], [op |-> "keys"],
     [op |-> "expire", key |-> k1, left |-> 1], [op |-> "del", keys |-> {k1}],
     [op |-> "mset", keys |-> {k1, k2}, value |-> RedisString(0)],
     [op |-> "rename", key |-> k1, to |-> k2], RedisModify("incr", 1), RedisModify("srem", 1)}

Redis == INSTANCE RedisStore
    WITH Keys <- {k1, k2}, Commands <- RedisCommands, IntMin <- 0, IntMax <- 1, db <- redisDb,
         run <- redisRun, ref <- redisRef, mixed <- redisMixed

MongoRequests ==
    {<<"insert", -1, 0, {k1, k2}>>, <<"update", 0, 1, {}>>, <<"delete", 0, -1, {}>>,
     <<"read", -1, -1, {}>>, <<"drop", -1, -1, {}>>}

Mongo == INSTANCE MongoStore
    WITH Ids <- {k1, k2}, Values <- {0, 1}, MaxHandles <- 2, Requests <- MongoRequests,
         database <- mongoDatabase, collection <- mongoCollection, documents <- mongoDocuments,
         handles <- mongoHandles, run <- mongoRun

ElasticLine(act, id, f, g) == [act |-> act, id |-> id, doc |-> [f |-> f, g |-> g]]
ElasticBodies ==
    {<<ElasticLine("update", k1, 0, 0), ElasticLine("source", k1, 2, 0),
       ElasticLine("delete", k2, 0, 0), ElasticLine("create", k2, 0, 0),
       ElasticLine("source", k1, 1, 0), ElasticLine("source", k1, 1, 1)>>}

Elastic == INSTANCE ElasticStore
    WITH Ids <- {k1, k2}, Fields <- {"f", "g"}, MaxHandles <- 2, Bodies <- ElasticBodies,
         Documents <- {<<k1, [f |-> 1, g |-> 0]>>, <<k1, [f |-> 0, g |-> 1]>>},
         index <- elasticIndex, docs <- elasticDocs, handles <- elasticHandles, run <- elasticRun,
         ref <- elasticRef, mixed <- elasticMixed

CqlDdl(op, name, guarded) == [op |-> op, ks |-> "ks", name |-> name, guarded |-> guarded]
CqlRow(op, value) == [op |-> op, ks |-> "", name |-> "t", key |-> k1, value |-> value]
CqlStatements ==
    {CqlDdl("use", "ks", FALSE), CqlDdl("createKeyspace", "ks", FALSE),
     CqlDdl("createKeyspace", "ks", TRUE), CqlDdl("createTable", "t", FALSE),
     CqlDdl("dropTable", "t", TRUE), CqlDdl("dropKeyspace", "ks", FALSE),
     CqlRow("insert", 1), CqlRow("update", 2), CqlRow("delete", 0)}

Cassandra == INSTANCE CassandraStore
    WITH Keys <- {k1}, MaxHandles <- 4, Statements <- CqlStatements,
         keyspaces <- cassandraKeyspaces, tables <- cassandraTables, rows <- cassandraRows,
         handles <- cassandraHandles, sessions <- cassandraSessions, run <- cassandraRun,
         ref <- cassandraRef, mixed <- cassandraMixed

TablestoreRequests ==
    {<<"put", k1, [a |-> 1, b |-> 0]>>, <<"update", k1, [a |-> 0, b |-> 1]>>,
     <<"delete", k1, [a |-> -1, b |-> -1]>>, <<"put", k2, [a |-> 1, b |-> 1]>>}

Tablestore == INSTANCE TablestoreStore
    WITH KeyOrder <- <<k1, k2>>, Attributes <- {"a", "b"}, MaxHandles <- 2,
         Requests <- TablestoreRequests, table <- tablestoreTable, rows <- tablestoreRows,
         handles <- tablestoreHandles, run <- tablestoreRun, ref <- tablestoreRef,
         mixed <- tablestoreMixed

Vector == INSTANCE VectorStore
    WITH Ids <- {k1, k2}, Tags <- {1, 2}, MaxHandles <- 2,
         Requests <- {<<"insert", k1, 1>>, <<"insert", k1, 2>>, <<"delete", k1, 0>>, <<"insert", k2, 1>>},
         collection <- vectorCollection, vectors <- vectorVectors, metadata <- vectorMetadata,
         handles <- vectorHandles, run <- vectorRun, mixed <- vectorMixed

Influx == INSTANCE InfluxStore
    WITH MaxHandles <- 2, MaxPoints <- 3, Bodies <- {<<1, 1>>, <<2, 0, 1>>},
         database <- influxDatabase, points <- influxPoints, counter <- influxCounter,
         handles <- influxHandles, run <- influxRun, sent <- influxSent

Lindorm == INSTANCE LindormStore
    WITH Rows <- {1, 2}, Cells <- {"x", "y"}, Values <- {1}, created <- lindormCreated,
         rows <- lindormRows, run <- lindormRun, cells <- lindormCells

Sessions == INSTANCE Sessions
    WITH Names <- {"", "s"}, Portals <- {""},
         PgTexts <- {<< >>, <<"SELECT">>, <<"INSERT">>, <<"ALTER", "TABLE">>},
         MysqlTexts <- {<<"SELECT">>, <<"INSERT">>, <<"USE", "db">>}, Args <- {1, 2},
         MaxVersion <- 2, MaxStatements <- 2, MaxRuns <- 1, protocol <- sessionsProtocol,
         version <- sessionsVersion, stmts <- sessionsStmts, portals <- sessionsPortals,
         bound <- sessionsBound, miscounted <- sessionsMiscounted, prepared <- sessionsPrepared,
         given <- sessionsGiven, runs <- sessionsRuns, database <- sessionsDatabase,
         session <- sessionsSession, drift <- sessionsDrift

ClickHouseWrite(op, defs, tuples) == [op |-> op, defs |-> defs, tuples |-> tuples]
ClickHouseStatements ==
    {ClickHouseWrite("create", <<"a", "b">>, << >>), ClickHouseWrite("create", <<"a">>, << >>),
     ClickHouseWrite("insert", << >>, <<<<1, 2>>, <<2>>>>),
     ClickHouseWrite("insert", << >>, <<<<1>>, <<1, 2, 3>>, <<2>>>>),
     [op |-> "delete", cond |-> [column |-> "a", value |-> 1]],
     [op |-> "update", cond |-> [column |-> "a", value |-> 2], column |-> "b", value |-> 1],
     [op |-> "drop", guarded |-> FALSE]}

ClickHouse == INSTANCE ClickHouseStore
    WITH Columns <- {"a", "b"}, MaxHandles <- 1, MaxRows <- 3, Statements <- ClickHouseStatements,
         database <- clickHouseDatabase, table <- clickHouseTable, handles <- clickHouseHandles,
         run <- clickHouseRun, rowsOf <- clickHouseRowsOf, raced <- clickHouseRaced

AdbStatement(op) == [op |-> op, name |-> "d", row |-> <<1, 1>>, where |-> 1, set |-> <<<<1, 2>>, <<2, 2>>>>]
AdbQueries ==
    {<<AdbStatement("createTable"), AdbStatement("insert")>>, <<AdbStatement("delete")>>,
     <<AdbStatement("update"), AdbStatement("use")>>, <<AdbStatement("dropDatabase")>>,
     <<AdbStatement("truncate"), AdbStatement("dropTable")>>}

Adb == INSTANCE AdbStore
    WITH Names <- {"default", "d"}, MaxHandles <- 2, MaxRows <- 3, Queries <- AdbQueries,
         current <- adbCurrent, database <- adbDatabase, table <- adbTable, rows <- adbRows,
         nextRowId <- adbNextRowId, handles <- adbHandles, run <- adbRun

Instances == INSTANCE McRegistry
    WITH Capacity <- 3, EvictionTarget <- 2, MaxStamp <- 4, Kinds <- {"instance"},
         entries <- instancesEntries, clock <- instancesClock, run <- instancesRun,
         reached <- instancesReached

Tunnel == INSTANCE McRegistry
    WITH Capacity <- 4, EvictionTarget <- 2, MaxStamp <- 6, Kinds <- {"upload"},
         entries <- tunnelEntries, clock <- tunnelClock, run <- tunnelRun,
         reached <- tunnelReached

Upload == INSTANCE TunnelUpload
    WITH BlockIds <- {1, 2}, Rows <- {<<k1>>, <<k2>>}, MaxRows <- 3, CountWidth <- 16,
         session <- uploadSession, table <- uploadTable, download <- uploadDownload,
         run <- uploadRun, sent <- uploadSent, acked <- uploadAcked,
         overlapped <- uploadOverlapped

-----------------------------------------------------------------------------
Init ==
    /\ server \in {"redis", "mongo", "elastic", "cassandra", "tablestore", "vector",
                    "influx", "lindorm", "sessions", "clickHouse", "adb", "instances", "tunnel",
                    "upload"}
    /\ Redis!RedisInit
    /\ Mongo!MongoInit
    /\ Elastic!ElasticInit
    /\ Cassandra!CassandraInit
    /\ Tablestore!TablestoreInit
    /\ Vector!VectorInit
    /\ Influx!InfluxInit
    /\ Lindorm!LindormInit
    /\ Sessions!SessionsInit
    /\ ClickHouse!ClickHouseInit
    /\ Adb!AdbInit
    /\ Instances!RegistryInit
    /\ Tunnel!RegistryInit
    /\ Upload!UploadInit

RedisStep ==
    /\ server = "redis" /\ Redis!RedisNext
    /\ UNCHANGED <<mongo, elastic, cassandra, tablestore, vector, influx, lindorm, sessions,
                  clickHouse, adb, instances, tunnel, upload>>
MongoStep ==
    /\ server = "mongo" /\ Mongo!MongoNext
    /\ UNCHANGED <<redis, elastic, cassandra, tablestore, vector, influx, lindorm, sessions,
                  clickHouse, adb, instances, tunnel, upload>>
ElasticStep ==
    /\ server = "elastic" /\ Elastic!ElasticNext
    /\ UNCHANGED <<redis, mongo, cassandra, tablestore, vector, influx, lindorm, sessions,
                  clickHouse, adb, instances, tunnel, upload>>
CassandraStep ==
    /\ server = "cassandra" /\ Cassandra!CassandraNext
    /\ UNCHANGED <<redis, mongo, elastic, tablestore, vector, influx, lindorm, sessions,
                  clickHouse, adb, instances, tunnel, upload>>
TablestoreStep ==
    /\ server = "tablestore" /\ Tablestore!TablestoreNext
    /\ UNCHANGED <<redis, mongo, elastic, cassandra, vector, influx, lindorm, sessions,
                  clickHouse, adb, instances, tunnel, upload>>
VectorStep ==
    /\ server = "vector" /\ Vector!VectorNext
    /\ UNCHANGED <<redis, mongo, elastic, cassandra, tablestore, influx, lindorm, sessions,
                  clickHouse, adb, instances, tunnel, upload>>
InfluxStep ==
    /\ server = "influx" /\ Influx!InfluxNext
    /\ UNCHANGED <<redis, mongo, elastic, cassandra, tablestore, vector, lindorm, sessions,
                  clickHouse, adb, instances, tunnel, upload>>
LindormStep ==
    /\ server = "lindorm" /\ Lindorm!LindormNext
    /\ UNCHANGED <<redis, mongo, elastic, cassandra, tablestore, vector, influx, sessions,
                  clickHouse, adb, instances, tunnel, upload>>
SessionsStep ==
    /\ server = "sessions" /\ Sessions!SessionsNext
    /\ UNCHANGED <<redis, mongo, elastic, cassandra, tablestore, vector, influx, lindorm,
                  clickHouse, adb, instances, tunnel, upload>>
ClickHouseStep ==
    /\ server = "clickHouse" /\ ClickHouse!ClickHouseNext
    /\ UNCHANGED <<redis, mongo, elastic, cassandra, tablestore, vector, influx, lindorm,
                  sessions, adb, instances, tunnel, upload>>
AdbStep ==
    /\ server = "adb" /\ Adb!AdbNext
    /\ UNCHANGED <<redis, mongo, elastic, cassandra, tablestore, vector, influx, lindorm,
                  sessions, clickHouse, instances, tunnel, upload>>
InstancesStep ==
    /\ server = "instances" /\ Instances!RegistryNext
    /\ UNCHANGED <<redis, mongo, elastic, cassandra, tablestore, vector, influx, lindorm,
                  sessions, clickHouse, adb, tunnel, upload>>
TunnelStep ==
    /\ server = "tunnel" /\ Tunnel!RegistryNext
    /\ UNCHANGED <<redis, mongo, elastic, cassandra, tablestore, vector, influx, lindorm,
                  sessions, clickHouse, adb, instances, upload>>
UploadStep ==
    /\ server = "upload" /\ Upload!UploadNext
    /\ UNCHANGED <<redis, mongo, elastic, cassandra, tablestore, vector, influx, lindorm,
                  sessions, clickHouse, adb, instances, tunnel>>

Next ==
    /\ \/ RedisStep
       \/ MongoStep
       \/ ElasticStep
       \/ CassandraStep
       \/ TablestoreStep
       \/ VectorStep
       \/ InfluxStep
       \/ LindormStep
       \/ SessionsStep
       \/ ClickHouseStep
       \/ AdbStep
       \/ InstancesStep
       \/ TunnelStep
       \/ UploadStep
    /\ UNCHANGED server

vars == <<server, redis, mongo, elastic, cassandra, tablestore, vector, influx, lindorm, sessions,
          clickHouse, adb, instances, tunnel, upload>>

Spec == Init /\ [][Next]_vars

ClientSymmetry == Permutations(Clients)

-----------------------------------------------------------------------------
(* The variables of every server keep their types.                         *)
TypeOK ==
    /\ Redis!RedisTypeOK
    /\ Mongo!MongoTypeOK
    /\ Elastic!ElasticTypeOK
    /\ Cassandra!CassandraTypeOK
    /\ Tablestore!TablestoreTypeOK
    /\ Vector!VectorTypeOK
    /\ Influx!InfluxTypeOK
    /\ Sessions!SessionsTypeOK
    /\ ClickHouse!ClickHouseTypeOK
    /\ Adb!AdbTypeOK
    /\ Instances!RegistryTypeOK
    /\ Tunnel!RegistryTypeOK
    /\ Upload!UploadTypeOK

(* Redis: a key whose operations never overlapped holds what the commands, *)
(* run one after the other, leave in it, its time to live included.        *)
SerialKeysAgree == Redis!SerialKeysAgree

(* MongoDB and AnalyticDB: while a request runs alone it answers and       *)
(* changes exactly the documents, or rows, that its condition selects.     *)
ExactOnOwnDocuments == Mongo!ExactOnOwnDocuments /\ Adb!ExactOnOwnRows

(* Elasticsearch: the documents of an index that requests did not overlap  *)
(* on are those that the actions of each body, in its order, leave.        *)
DocumentsSerial == Elastic!DocumentsSerial

(* Cassandra and Tablestore: a table whose requests did not overlap holds  *)
(* the rows that the statements, one after the other, leave.               *)
RowsSerial == Cassandra!RowsSerial /\ Tablestore!RowsSerial

(* Vector store: a vector's metadata is the one that its last insert gave. *)
MetadataFollowsVector == Vector!MetadataFollowsVector

(* InfluxDB and Lindorm: every line of an accepted body is a point of its  *)
(* own, and no write removes another's cells.                              *)
EveryLineIsAPoint == Influx!EveryLineIsAPoint /\ Lindorm!CellsKept

(* ClickHouse: the columns of a table have equal lengths, and the row at a *)
(* place is a row that was written.                                        *)
ColumnsAreRows == ClickHouse!ColumnsAreRows

(* MaxCompute: two requests that register and evict at the same time keep  *)
(* at most one entry above the capacity and, once the target was reached,  *)
(* no fewer than the target less one; an instance shows its own result.    *)
EvictionBounded == Instances!EvictionBounded /\ Tunnel!EvictionBounded

(* MaxCompute tunnel: a session whose requests do not overlap puts its     *)
(* rows into the table once, in the order of the block ids, if and only if *)
(* a commit was acknowledged; a download in two ranges is the whole.       *)
CommittedOnce == Upload!CommittedOnce

(* PostgreSQL and MySQL connections: a portal runs what was bound to it, a *)
(* statement is described by its own columns, a number names its text and  *)
(* the two notions of the current database agree.                          *)
SessionsAgree == Sessions!SessionsAgree

=============================================================================
