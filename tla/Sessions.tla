------------------------------ MODULE Sessions ------------------------------
(***************************************************************************)
(* One connection's prepared statements: the extended query protocol of    *)
(* PostgreSQL (pg-protocol/src/connection.rs) or the COM_STMT commands and *)
(* the current database of MySQL (mysql-protocol/src/connection.rs).       *)
(*                                                                         *)
(* A statement's text is its words.  The query handler is shared with      *)
(* other connections, one of which may alter the table the statements      *)
(* read: `version' is the version of its columns.  It answers a failure    *)
(* as a result with a column named Error.                                  *)
(***************************************************************************)
EXTENDS Integers, Sequences, SequencesExt, TLC

CONSTANTS
    Names,         \* names of statements, "" among them
    Portals,       \* names of portals
    PgTexts,       \* the statements a PostgreSQL client sends, each a sequence of words
    MysqlTexts,    \* the statements a MySQL client sends
    Args,          \* parameter values
    MaxVersion,    \* bound on the alterations
    MaxStatements, \* bound on the statements a MySQL client prepares
    MaxRuns        \* bound on the executions of each

VARIABLES
    protocol,      \* "pg" or "mysql", "" before the client connects
    version,       \* of the table's columns
    stmts,         \* PgSession.prepared_statements: name -> [text, fields, since]
    portals,       \* PgSession.portals: name -> [stmt, arg]
    bound,         \* (history) what the client last bound to a portal, or Unsure
    miscounted,    \* (history) a command that succeeded was completed with a wrong count
    prepared,      \* Connection.prepared_statements: the texts, << >> when closed
    given,         \* (history) the text the client prepared under a number
    runs,          \* (history) per number: [asked, ran]
    database,      \* Connection.database
    session,       \* the handler's current database of this connection
    drift          \* (history) a USE went past the connection

pgVars == <<stmts, portals, bound>>
mysqlVars == <<prepared, given, runs, database, session, drift>>
vars == <<protocol, version, miscounted, stmts, portals, bound, prepared, given, runs, database, session, drift>>

NoFields == [of |-> << >>, columns |-> 0]
Unsure == [text |-> <<"?">>, arg |-> 0]
AnError == 99                                  \* the columns of a failure
AffectedRows == 98                             \* the column of a count

SessionsInit ==
    /\ protocol = "" /\ version = 1 /\ miscounted = FALSE
    /\ stmts = << >> /\ portals = << >> /\ bound = << >>
    /\ prepared = << >> /\ given = << >> /\ runs = << >>
    /\ database = "" /\ session = "" /\ drift = FALSE

SessionsTypeOK ==
    /\ DOMAIN stmts \subseteq Names /\ DOMAIN portals \subseteq Portals /\ DOMAIN bound = DOMAIN portals
    /\ \A n \in DOMAIN stmts : stmts[n].text \in PgTexts /\ stmts[n].since \in 1..MaxVersion
    /\ \A p \in DOMAIN portals : portals[p].stmt \in Names /\ portals[p].arg \in Args
    /\ Len(prepared) = Len(given) /\ Len(runs) = Len(given) /\ Len(given) <= MaxStatements
    /\ protocol \in {"", "pg", "mysql"} /\ version \in 1..MaxVersion /\ drift \in BOOLEAN /\ miscounted \in BOOLEAN

-----------------------------------------------------------------------------
(* Reading a statement's first words.                                      *)
IsRowReturning(t) ==
    /\ t[1] \in {"SELECT", "WITH", "VALUES", "SHOW", "EXPLAIN", "DESCRIBE", "DESC"}
    /\ ~(t[1] = "SELECT" /\ "INTO" \in ToSet(t))
IsDml(t) == t # << >> /\ t[1] \in {"INSERT", "UPDATE", "DELETE"}
InferCommandTag(t, n) ==
    IF t[1] \in {"SELECT", "WITH", "VALUES"} THEN <<"SELECT", n>>
    ELSE IF t[1] = "INSERT" THEN <<"INSERT 0", n>>
    ELSE IF IsDml(t) THEN <<t[1], n>>
    ELSE IF t[1] \in {"CREATE", "DROP", "ALTER"} /\ Len(t) > 1 /\ t[2] \in {"TABLE", "DATABASE"} THEN <<t[1], t[2]>>
    ELSE IF t[1] = "TRUNCATE" THEN <<"TRUNCATE", "TABLE">>
    ELSE IF t[1] \in {"CREATE", "DROP", "ALTER", "BEGIN", "COMMIT", "ROLLBACK", "SET", "SHOW"} THEN <<t[1]>>
    ELSE IF t[1] = "USE" THEN <<"SET">>
    ELSE IF t[1] \in {"EXPLAIN", "DESCRIBE", "DESC"} THEN <<"EXPLAIN">>
    ELSE <<"OK", n>>

(* What the handler may answer: a query's rows (-1: a cell that is no      *)
(* number), a count, nothing, or an error.                                 *)
Result(ok, columns, cells) == [ok |-> ok, columns |-> columns, cells |-> cells]
HandleQuery(t) ==
    {Result(FALSE, AnError, <<-1>>)}
    \cup (IF t[1] \in {"SELECT", "WITH"} THEN {Result(TRUE, version, << >>), Result(TRUE, version, <<7, -1>>)}
          ELSE IF IsDml(t) THEN {Result(TRUE, AffectedRows, <<n>>) : n \in {0, 2}}
          ELSE {Result(TRUE, 0, << >>)})
Altered(t, r) == version' = IF t[1] = "ALTER" /\ r.ok /\ version < MaxVersion THEN version + 1 ELSE version

ExtractAffectedRows(r) ==
    IF r.columns = 0 \/ r.cells = << >> THEN 0 ELSE IF r.cells[1] >= 0 THEN r.cells[1] ELSE Len(r.cells)

(* The messages that carry a result; a simple query describes its rows, an *)
(* Execute does not.                                                       *)
Rows(r) == [i \in DOMAIN r.cells |-> <<"DataRow">>]
SendResult(t, r) ==
    IF IsRowReturning(t) THEN Rows(r) \o <<InferCommandTag(t, Len(r.cells))>> ELSE <<InferCommandTag(t, ExtractAffectedRows(r))>>
Counts(t, r) ==
    LET sent == SendResult(t, r)
    IN  IF IsRowReturning(t) THEN InferCommandTag(t, Len(SelectSeq(sent, LAMBDA m : m = <<"DataRow">>))) \in ToSet(sent)
        ELSE r.ok /\ IsDml(t) => InferCommandTag(t, r.cells[1]) \in ToSet(sent)
Complete(t, r) == miscounted' = (miscounted \/ ~Counts(t, r))

-----------------------------------------------------------------------------
(* PostgreSQL.  The unnamed statement and portal have names of their own.  *)
(* A simple query describes its rows, an Execute does not; Sync only       *)
(* answers.                                                                *)
Query(t) ==
    /\ t # << >>
    /\ \E r \in HandleQuery(t) : Complete(t, r) /\ Altered(t, r)
    /\ UNCHANGED pgVars

Rebound(n) == [p \in DOMAIN bound |-> IF portals[p].stmt = n THEN Unsure ELSE bound[p]]
ParseKeepingFields(n, t) ==                    \* mutation: the columns of the old text stay
    /\ stmts' = (n :> [text |-> t, fields |-> IF n \in DOMAIN stmts THEN stmts[n].fields ELSE NoFields, since |-> version]) @@ stmts
    /\ bound' = Rebound(n)
    /\ UNCHANGED <<portals, version, miscounted>>
Parse(n, t) ==
    /\ stmts' = (n :> [text |-> t, fields |-> NoFields, since |-> version]) @@ stmts
    /\ bound' = Rebound(n)
    /\ UNCHANGED <<portals, version, miscounted>>

(* A Bind that fails leaves the portal as it was.                          *)
Bind(p, n, a) ==
    /\ IF n \in DOMAIN stmts
       THEN /\ portals' = (p :> [stmt |-> n, arg |-> a]) @@ portals
            /\ bound' = (p :> [text |-> stmts[n].text, arg |-> a]) @@ bound
       ELSE /\ bound' = [q \in DOMAIN bound |-> IF q = p THEN Unsure ELSE bound[q]]
            /\ UNCHANGED portals
    /\ UNCHANGED <<stmts, version, miscounted>>

(* Describe answers from the cached fields or runs the text, placeholders  *)
(* and all, to learn its columns.                                          *)
Learn(n, r) == stmts' = [stmts EXCEPT ![n].fields = [of |-> stmts[n].text, columns |-> r.columns]]
Describe(n) ==
    /\ n \in DOMAIN stmts
    /\ stmts[n].fields = NoFields /\ stmts[n].text # << >> /\ IsRowReturning(stmts[n].text)
    /\ \E r \in HandleQuery(stmts[n].text) : r.columns # 0 /\ Learn(n, r)
    /\ UNCHANGED <<portals, bound, version, miscounted>>
DescribeStatement(n) == Describe(n)
DescribePortal(p) == p \in DOMAIN portals /\ Describe(portals[p].stmt)

(* Execute runs the text that the portal's statement has by now.  max_rows *)
(* is ignored.  Without the portal, the statement or a text it only        *)
(* answers.                                                                *)
Execute(p) ==
    LET n == portals[p].stmt
        t == stmts[n].text
    IN  /\ p \in DOMAIN portals /\ n \in DOMAIN stmts /\ t # << >>
        /\ \E r \in HandleQuery(t) :
              /\ IF IsRowReturning(t) \/ r.columns # 0 THEN Learn(n, r) ELSE UNCHANGED stmts
              /\ Complete(t, r) /\ Altered(t, r)
        /\ UNCHANGED <<portals, bound>>

CloseStatement(n) ==
    /\ stmts' = [m \in DOMAIN stmts \ {n} |-> stmts[m]]
    /\ bound' = Rebound(n)
    /\ UNCHANGED <<portals, version, miscounted>>
ClosePortal(p) ==
    /\ portals' = [q \in DOMAIN portals \ {p} |-> portals[q]]
    /\ bound' = [q \in DOMAIN bound \ {p} |-> bound[q]]
    /\ UNCHANGED <<stmts, version, miscounted>>

-----------------------------------------------------------------------------
(* MySQL.  A number is the statement's place in a list that only grows.    *)
(* USE sets both notions of the database when the connection sees it: as a *)
(* command or a plain query, whatever the handler answered.                *)
Ran(i) == [runs EXCEPT ![i].ran = @ + 1]
Uses(t) == t # << >> /\ t[1] = "USE"
Past(t, r) ==                                  \* the handler alone sees the USE of a prepared statement
    /\ session' = IF Uses(t) /\ r.ok THEN t[2] ELSE session
    /\ drift' = (drift \/ (Uses(t) /\ r.ok /\ t[2] # database))
    /\ UNCHANGED database
InitDb(db) ==
    /\ database' = db /\ session' = db /\ drift' = FALSE
    /\ UNCHANGED <<version, miscounted, prepared, given, runs>>
QueryUse(t) ==
    /\ Uses(t)
    /\ database' = t[2] /\ session' = t[2] /\ drift' = FALSE
    /\ UNCHANGED <<version, miscounted, prepared, given, runs>>

(* COM_STMT_PREPARE runs everything but INSERT, UPDATE and DELETE, with    *)
(* NULL for every parameter, to learn the columns.                         *)
StmtPrepare(t) ==
    /\ Len(prepared) < MaxStatements
    /\ prepared' = Append(prepared, t) /\ given' = Append(given, t)
    /\ IF IsDml(t) THEN runs' = Append(runs, [asked |-> 0, ran |-> 0]) /\ UNCHANGED <<version, database, session, drift>>
       ELSE \E r \in HandleQuery(t) : runs' = Append(runs, [asked |-> 0, ran |-> 1]) /\ Altered(t, r) /\ Past(t, r)
    /\ UNCHANGED miscounted
IsStmtClosed(i) == i \notin DOMAIN prepared \/ (i \in DOMAIN prepared /\ prepared[i] = << >>)
StmtExecute(i) ==
    /\ ~IsStmtClosed(i) /\ runs[i].asked < MaxRuns
    /\ \E r \in HandleQuery(prepared[i]) : Altered(prepared[i], r) /\ Past(prepared[i], r)
    /\ runs' = [Ran(i) EXCEPT ![i].asked = @ + 1]
    /\ UNCHANGED <<miscounted, prepared, given>>
StmtCloseRemoves(i) ==                         \* mutation: the entry is taken out of the list
    /\ i \in DOMAIN prepared
    /\ prepared' = RemoveAt(prepared, i)
    /\ given' = [given EXCEPT ![i] = << >>]
    /\ UNCHANGED <<version, miscounted, runs, database, session, drift>>
StmtClose(i) ==
    /\ prepared' = [j \in DOMAIN prepared |-> IF j = i THEN << >> ELSE prepared[j]]
    /\ given' = [j \in DOMAIN given |-> IF j = i THEN << >> ELSE given[j]]
    /\ UNCHANGED <<version, miscounted, runs, database, session, drift>>

-----------------------------------------------------------------------------
(* Another connection alters the table.                                    *)
OtherAlters ==
    /\ version < MaxVersion /\ version' = version + 1
    /\ UNCHANGED <<miscounted, stmts, portals, bound, prepared, given, runs, database, session, drift>>

PgNext ==
    /\ \/ \E t \in PgTexts : Query(t) \/ \E n \in Names : Parse(n, t)
       \/ \E p \in Portals, n \in Names, a \in Args : Bind(p, n, a)
       \/ \E n \in Names : DescribeStatement(n) \/ CloseStatement(n)
       \/ \E p \in Portals : DescribePortal(p) \/ Execute(p) \/ ClosePortal(p)
    /\ UNCHANGED mysqlVars
MysqlNext ==
    /\ \/ \E t \in MysqlTexts : QueryUse(t) \/ StmtPrepare(t) \/ (Uses(t) /\ InitDb(t[2]))
       \/ \E i \in 1..(MaxStatements + 1) : StmtClose(i) \/ StmtExecute(i)
    /\ UNCHANGED pgVars
Connect(p) ==
    /\ protocol = "" /\ protocol' = p
    /\ UNCHANGED <<version, miscounted, stmts, portals, bound, prepared, given, runs, database, session, drift>>
SessionsNext ==
    \/ \E p \in {"pg", "mysql"} : Connect(p)
    \/ /\ (protocol = "pg" /\ PgNext) \/ (protocol = "mysql" /\ MysqlNext) \/ (protocol # "" /\ OtherAlters)
       /\ UNCHANGED protocol

-----------------------------------------------------------------------------
(* A portal whose statement was neither parsed anew nor closed since, and  *)
(* whose last Bind succeeded, holds the text and the argument the client   *)
(* bound to it.                                                            *)
PortalsHoldWhatWasBound ==
    \A p \in DOMAIN bound : bound[p] # Unsure =>
        portals[p].stmt \in DOMAIN stmts /\ [text |-> stmts[portals[p].stmt].text, arg |-> portals[p].arg] = bound[p]

(* The columns Describe answers from are those of the statement's own      *)
(* text, as they were at its Parse or later, or of an error it met.        *)
FieldsAreOwn ==
    \A n \in DOMAIN stmts : stmts[n].fields # NoFields =>
        /\ stmts[n].fields.of = stmts[n].text
        /\ IsRowReturning(stmts[n].text) => stmts[n].fields.columns \in (stmts[n].since..version) \cup {0, AnError}

(* A command that succeeded is completed with the number of rows sent, or  *)
(* of rows changed.                                                        *)
TagsCount == ~miscounted

(* A number runs the text that was prepared under it and nothing once it   *)
(* is closed, and an INSERT, UPDATE or DELETE runs exactly as often as it  *)
(* was executed.                                                           *)
NumbersNameTheirTexts ==
    /\ prepared = given
    /\ \A i \in DOMAIN given : IsDml(given[i]) => runs[i].ran = runs[i].asked

(* SELECT DATABASE() answers the database in which statements run, unless  *)
(* a prepared USE moved the one and not the other.                         *)
DatabaseIsTheSession == drift \/ database = session

SessionsAgree ==
    PortalsHoldWhatWasBound /\ FieldsAreOwn /\ TagsCount /\ NumbersNameTheirTexts /\ DatabaseIsTheSession

=============================================================================
