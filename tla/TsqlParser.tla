----------------------------- MODULE TsqlParser -----------------------------
(***************************************************************************)
(* The T-SQL parser (tsql-parser/src/parser.rs): one rule per parse_       *)
(* function, over the tokens of a batch.  Names are upper-case: the parser *)
(* compares them without case.  Lowered is what the functions make of      *)
(* their pieces on the way out.                                            *)
(***************************************************************************)
EXTENDS Grammar, FiniteSets

Paren(p) == All(<<Expect("("), p, Expect(")")>>)
Expr == Nt("expr")
Var == Take_({"#var"}, "var")
IntLit == Take_({"#int"}, "int")
Names == Several(Ident)

(* The end of an argument list: end of input, semicolon, GO, END.          *)
Ends == {"#eof", ";", "GO", "END"}

(* SELECT and the clauses it shares with SELECT @v = e.                    *)
Clauses ==
    All(<<If_("FROM", Make("from", Nt("table_ref"))),
          If_("WHERE", Make("where", Expr)),
          If_("GROUP", Make("group", All(<<Expect("BY"), Nt("expr_list")>>))),
          If_("HAVING", Make("having", Expr)),
          If_("ORDER", Make("order", All(<<Expect("BY"), Nt("order_by_list")>>)))>>)
Assigns ==
    All(<<Make("assign", All(<<Var, Expect("="), Expr>>)),
          If_(",", Choose_(<<On2({"#var"}, {"="}, Nt("assigns"))>>, Nothing))>>)
SelectIntoVarsStatement == All(<<Expect("SELECT"), Make("select vars", All(<<Nt("assigns"), Clauses>>))>>)
SelectIntoVars == Make("select vars", All(<<Nt("assigns"), Clauses>>))
Select ==
    Make("select",
         All(<<Expect("SELECT"), Flag("DISTINCT", "distinct"), If_("TOP", Nt("top")), Nt("select_list"),
               If_("INTO", Make("into", Ident)), Clauses, If_("COMPUTE", Nt("compute")),
               If_("FOR", Flag("BROWSE", "browse")),
               If_("UNION", Make("union", All(<<Flag("ALL", "all"), Nt("select")>>)))>>))
TopClause ==
    Make("top",
         All(<<Choose_(<<On({"("}, Paren(Expr)), On({"#int"}, IntLit)>>, Var), Flag("PERCENT", "percent"),
               If_("WITH", All(<<Expect("TIES"), Say("ties", "")>>))>>))
OptionalAlias ==
    Choose_(<<On({"AS"}, All(<<Expect("AS"), Make("alias", Ident)>>)), On({"#id", "#qid"}, Make("alias", Ident))>>, Nothing)
SelectList == Several(Make("item", All(<<Expr, OptionalAlias>>)))
Ascending == Choose_(<<On({"DESC"}, All(<<Drop_, Say("desc", "")>>))>>, Skip("ASC"))
OrderByList == Several(Make("key", All(<<Expr, Ascending>>)))
ComputeClause == Make("compute", All(<<Nt("expr_list"), If_("BY", Make("by", Nt("expr_list")))>>))

(* Tables and joins.                                                       *)
HintArguments == Choose_(<<On({")"}, Drop_)>>, All(<<Ident, Nt("hint_arguments")>>))
TableHints == If_("WITH", Paren(Several(Make("hint", All(<<Ident, If_("(", Nt("hint_arguments"))>>)))))
PrimaryTableRef ==
    Choose_(<<On2({"("}, {"SELECT"}, Make("derived", All(<<Paren(Nt("select")), Skip("AS"), Ident>>))),
              On({"("}, Paren(Nt("table_ref"))),
              On({"#temp", "##temp"}, Make("temp", All(<<Take_({"#temp", "##temp"}, "name"), OptionalAlias>>)))>>,
            Make("table", All(<<Ident, If_(".", All(<<Ident, If_(".", Ident)>>)), OptionalAlias, TableHints>>)))
Joined == All(<<Nt("primary_table_ref"), If_("ON", Make("on", Expr))>>)
OuterJoined == All(<<Skip("OUTER"), Expect("JOIN"), Joined>>)
Joins ==
    Operands(Nt("primary_table_ref"),
             <<After({"INNER"}, {}, "inner", All(<<Expect("JOIN"), Joined>>)), After({"JOIN"}, {}, "inner", Joined),
               After({"LEFT"}, {}, "left", OuterJoined), After({"RIGHT"}, {}, "right", OuterJoined),
               After({"FULL"}, {}, "full", OuterJoined),
               After({"CROSS"}, {}, "cross", All(<<Expect("JOIN"), Nt("primary_table_ref")>>))>>)

(* Expressions, from the loosest operator to the tightest.                 *)
OrExpr == Chain(Nt("and_expr"), {"OR"})
AndExpr == Chain(Nt("not_expr"), {"AND"})
NotExpr == Choose_(<<On({"NOT"}, All(<<Expect("NOT"), Make("not", Nt("comparison"))>>))>>, Nt("comparison"))
InTail == Paren(Choose_(<<On({"SELECT"}, Nt("select"))>>, Nt("expr_list")))
BetweenTail == All(<<Nt("addition"), Expect("AND"), Nt("addition")>>)
LikeTail == All(<<Nt("addition"), If_("ESCAPE", Nt("addition"))>>)
Relations == {"=", "<>", "<", ">", "<=", ">="}
Comparison ==
    Operand(Nt("addition"),
            <<After({"IS"}, {"NOT"}, "is not null", Expect("NULL")), After({"IS"}, {}, "is null", Expect("NULL")),
              After({"NOT"}, {"IN"}, "not in", InTail), After({"IN"}, {}, "in", InTail),
              After({"NOT"}, {"BETWEEN"}, "not between", BetweenTail), After({"BETWEEN"}, {}, "between", BetweenTail),
              After({"NOT"}, {"LIKE"}, "not like", LikeTail), After({"LIKE"}, {}, "like", LikeTail),
              After({"NOT"}, Relations, "bin", Nt("addition")), After({"NOT"}, {}, "", Refuse),
              After(Relations, {}, "bin", Nt("addition"))>>)
Addition == Chain(Nt("multiplication"), {"+", "-", "&", "|", "^"})
Multiplication == Chain(Nt("unary"), {"*", "/", "%"})
Unary ==
    Choose_(<<On({"-"}, All(<<Drop_, Make("negate", Nt("primary"))>>)), On({"+"}, All(<<Drop_, Nt("primary")>>)),
              On({"~"}, All(<<Drop_, Make("bitnot", Nt("primary"))>>))>>, Nt("primary"))
Primary ==
    Choose_(<<On({"#int"}, IntLit), On({"#float"}, Take_({"#float"}, "float")), On({"#str", "#nstr"}, Take_({"#str", "#nstr"}, "str")),
              On({"#bin"}, Take_({"#bin"}, "bin")), On({"#money"}, Take_({"#money"}, "money")),
              On({"NULL"}, All(<<Expect("NULL"), Say("null", "")>>)), On({"#var"}, Var),
              On({"#sys"}, Take_({"#sys"}, "sys")), On({"*"}, All(<<Drop_, Say("wildcard", "")>>)),
              On2({"("}, {"SELECT"}, Make("subquery", Paren(Nt("select")))), On({"("}, Paren(Expr)),
              On({"CASE"}, Nt("case")), On({"EXISTS"}, All(<<Drop_, Make("exists", Paren(Nt("select")))>>)),
              On2({"#id", "#qid"}, {"("}, Nt("call")), On({"#id", "#qid"}, Nt("column")),
              On({"#temp"}, Make("column", All(<<Take_({"#temp"}, "name"), If_(".", Ident)>>)))>>, Refuse)
ColumnRef ==
    Make("column",
         All(<<Ident,
               If_(".", All(<<Ident, Choose_(<<On({"."}, All(<<Drop_, Ident, If_(".", Ident)>>)),
                                               On({"*"}, All(<<Drop_, Say("star", "")>>))>>, Nothing)>>))>>))
FunctionCall ==
    LET With(n, args) == All(<<Drop_, Make(n, Paren(args))>>)
    IN  Choose_(<<On({"CAST"}, With("cast", All(<<Expr, Expect("AS"), Nt("type")>>))),
                  On({"CONVERT"}, With("convert", All(<<Nt("type"), Expect(","), Expr, If_(",", Expr)>>))),
                  On({"ISNULL"}, With("isnull", All(<<Expr, Expect(","), Expr>>))),
                  On({"NULLIF"}, With("nullif", All(<<Expr, Expect(","), Expr>>))),
                  On({"COALESCE"}, With("coalesce", Nt("expr_list")))>>,
                Make("call", All(<<Ident, Paren(Choose_(<<On({")"}, Nothing)>>, Nt("expr_list")))>>)))
CaseExpr ==
    Make("case", All(<<Expect("CASE"), Choose_(<<On({"WHEN"}, Nothing)>>, Make("of", Expr)), Nt("whens"),
                       If_("ELSE", Make("else", Expr)), Expect("END")>>))
WhenClauses == If_("WHEN", All(<<Make("when", All(<<Expr, Expect("THEN"), Expr>>)), Nt("whens")>>))
ExprList == Several(Expr)

(* A type and its size: MAX is 8000, and anything but a number is none.    *)
OptionalSize ==
    If_("(", All(<<Choose_(<<On({"#int"}, IntLit), On({"MAX"}, All(<<Drop_, Say("int", "8000")>>))>>, Drop_), Expect(")")>>))
PrecisionScale ==
    LET Number == Choose_(<<On({"#int"}, IntLit)>>, Drop_)
    IN  If_("(", All(<<Number, If_(",", Number), Expect(")")>>))
DataType ==
    LET Sized == {"VARCHAR", "CHAR", "NVARCHAR", "NCHAR", "VARBINARY", "BINARY", "FLOAT", "DATETIME2", "DATETIMEOFFSET"}
    IN  Choose_(<<On(Sized, Make("type", All(<<Ident, OptionalSize>>))),
                  On({"DECIMAL", "NUMERIC"}, Make("type", All(<<Ident, PrecisionScale>>)))>>, Make("type", Ident))

(* INSERT, UPDATE, DELETE, MERGE.                                          *)
Insert ==
    Make("insert",
         All(<<Expect("INSERT"), Skip("INTO"), Ident, If_("(", All(<<Make("columns", Names), Expect(")")>>)),
               Choose_(<<On({"SELECT"}, Nt("select")), On({"("}, Paren(Nt("select"))),
                         On({"EXECUTE", "EXEC"}, All(<<Drop_, Nt("execute_body")>>)),
                         On({"DEFAULT"}, All(<<Drop_, Expect("VALUES"), Say("defaults", "")>>))>>,
                       All(<<Expect("VALUES"), Several(Make("row", Paren(Nt("expr_list"))))>>))>>))
FromWhere == All(<<If_("FROM", Make("from", Nt("table_ref"))), If_("WHERE", Make("where", Expr))>>)
Update ==
    Make("update", All(<<Expect("UPDATE"), Ident, OptionalAlias, Expect("SET"),
                         Several(Make("set", All(<<Ident, Expect("="), Expr>>))), FromWhere>>))
Delete == Make("delete", All(<<Expect("DELETE"), Skip("FROM"), Ident, OptionalAlias, FromWhere>>))
Merge ==
    Make("merge", All(<<Expect("MERGE"), Expect("INTO"), Nt("table_ref"), OptionalAlias,
                        Expect("USING"), Nt("table_ref"), OptionalAlias, Expect("ON"), Expr>>))

(* CREATE, ALTER, DROP, TRUNCATE.                                          *)
Create ==
    All(<<Expect("CREATE"),
          Choose_(<<On({"TABLE"}, Nt("create_table")), On({"DATABASE"}, Nt("create_database")), On({"VIEW"}, Nt("create_view")),
                    On({"INDEX", "UNIQUE", "CLUSTERED", "NONCLUSTERED"}, Nt("create_index")),
                    On({"PROCEDURE", "PROC"}, Nt("create_procedure"))>>, RestUpTo({"GO", ";"}, "pass create"))>>)
ConstraintStart == {"PRIMARY", "UNIQUE", "FOREIGN", "CHECK", "CONSTRAINT"}
CreateTable ==
    Make("create table", All(<<Expect("TABLE"), Ident,
                               Paren(Several(Choose_(<<On(ConstraintStart, Nt("constraint"))>>, Nt("column_def"))))>>))
ColumnDef ==
    Make("define",
         All(<<Ident, Nt("type"),
               Choose_(<<On({"NOT"}, All(<<Drop_, Expect("NULL"), Say("not null", "")>>)), On({"NULL"}, All(<<Drop_, Say("nullable", "")>>))>>, Nothing),
               If_("IDENTITY", Make("identity", Choose_(<<On({"("}, Paren(All(<<IntLit, Expect(","), IntLit>>)))>>,
                                                        All(<<Say("int", "1"), Say("int", "1")>>)))),
               If_("DEFAULT", Make("default", Nt("primary")))>>))
Clustering ==
    Choose_(<<On({"CLUSTERED"}, All(<<Drop_, Say("clustered", "")>>)), On({"NONCLUSTERED"}, All(<<Drop_, Say("nonclustered", "")>>))>>, Nothing)
TableConstraint ==
    LET Key(n, p) == All(<<Drop_, Expect("KEY"), Make(n, p)>>)
    IN  Make("constraint",
             All(<<If_("CONSTRAINT", Ident),
                   Choose_(<<On({"PRIMARY"}, Key("primary key", All(<<Clustering, Paren(Names)>>))),
                             On({"UNIQUE"}, Key("unique key", Paren(Names))),
                             On({"FOREIGN"}, Key("foreign key", All(<<Paren(Names), Expect("REFERENCES"), Make("references", All(<<Ident, Paren(Names)>>))>>))),
                             On({"CHECK"}, All(<<Drop_, Make("check", Paren(Expr))>>))>>, Refuse)>>))
CreateDatabase == Make("create database", All(<<Expect("DATABASE"), Ident>>))
CreateView ==
    Make("create view", All(<<Expect("VIEW"), Ident, If_("(", All(<<Make("columns", Names), Expect(")")>>)), Expect("AS"), Nt("select")>>))
CreateIndex ==
    Make("create index", All(<<Flag("UNIQUE", "unique"), Clustering, Expect("INDEX"), Ident, Expect("ON"), Ident,
                               Paren(Several(Make("key", All(<<Ident, Ascending>>))))>>))
ProcedureOptions ==
    If_("WITH", Several(Choose_(<<On({"RECOMPILE"}, All(<<Drop_, Say("recompile", "")>>)),
                                  On({"ENCRYPTED"}, All(<<Drop_, Say("encryption", "")>>))>>, Mute(Ident))))
ProcedureParams ==
    Choose_(<<On({"#var"}, All(<<Make("param", All(<<Var, Nt("type"), Flag("OUTPUT", "output"), If_("=", Make("default", Expr))>>)),
                                 If_(",", Nt("params"))>>))>>, Nothing)
ProcedureBody == Make("body", All(<<Statements({"GO"}), Skip("GO")>>))
CreateProcedure ==
    Make("create procedure", All(<<Drop_, Ident, If_(".", Ident), Nt("params"), ProcedureOptions, Expect("AS"), ProcedureBody>>))
Alter ==
    All(<<Expect("ALTER"),
          Choose_(<<On({"TABLE"}, Make("alter table", All(<<Drop_, Ident, Nt("alter_action")>>))),
                    On({"PROCEDURE", "PROC"}, Make("alter procedure", All(<<Drop_, Ident, Nt("params"), ProcedureOptions, Expect("AS"), ProcedureBody>>)))>>,
                  RestUpTo({"GO", ";"}, "pass alter"))>>)
AlterTableAction ==
    Choose_(<<On({"ADD"}, All(<<Drop_, Choose_(<<On(ConstraintStart, Nt("constraint"))>>, Nt("column_def"))>>)),
              On2({"DROP"}, {"CONSTRAINT"}, Make("drop constraint", All(<<Drop_, Drop_, Ident>>))),
              On({"DROP"}, Make("drop column", All(<<Drop_, Skip("COLUMN"), Ident>>))),
              On({"COLUMN"}, All(<<Drop_, Make("alter column", Nt("column_def"))>>))>>, Refuse)
DropStatement ==
    LET Of(n) == Make(n, All(<<Drop_, Ident>>))
    IN  All(<<Expect("DROP"),
              Choose_(<<On({"TABLE"}, Of("drop table")), On({"DATABASE"}, Of("drop database")), On({"VIEW"}, Of("drop view")),
                        On({"INDEX"}, Make("drop index", All(<<Drop_, Ident, If_("ON", Ident)>>))),
                        On({"PROCEDURE", "PROC"}, Of("drop procedure"))>>, RestUpTo({"GO", ";"}, "pass drop"))>>)
Truncate == Make("truncate", All(<<Expect("TRUNCATE"), Skip("TABLE"), Ident>>))

(* Blocks and control flow.                                                *)
TransactionName == Choose_(<<On({"#id", "#var"}, Take_({"#id", "#var"}, "name"))>>, Nothing)
Begin ==
    Choose_(<<On2({"BEGIN"}, {"TRY"}, Nt("try_catch")), On2({"BEGIN"}, {"CATCH"}, Refuse),
              On2({"BEGIN"}, {"TRANSACTION", "TRAN"}, Make("begin tran", All(<<Drop_, Drop_, TransactionName>>)))>>,
            Make("block", All(<<Expect("BEGIN"), Statements({"END"}), Expect("END")>>)))
TryCatch ==
    Make("try", All(<<Drop_, Drop_, Make("body", Statements({"END"})), Expect("END"), Expect("TRY"),
                      Expect("BEGIN"), Expect("CATCH"), Make("body", Statements({"END"})), Expect("END"), Expect("CATCH")>>))
Branch == Make("body", Choose_(<<On({"BEGIN"}, Nt("begin"))>>, Nt("statement")))
IfElse == Make("if", All(<<Expect("IF"), Expr, Branch, If_("ELSE", Branch)>>))
While == Make("while", All(<<Expect("WHILE"), Expr, Branch>>))
Return == Make("return", All(<<Expect("RETURN"), Choose_(<<On(Ends, Nothing)>>, Expr)>>))
Goto == Make("goto", All(<<Expect("GOTO"), Ident>>))
WaitFor ==
    All(<<Expect("WAITFOR"), Choose_(<<On({"DELAY"}, Make("delay", All(<<Drop_, Take_({"#str"}, "str")>>))),
                                       On({"TIME"}, Make("until", All(<<Drop_, Take_({"#str"}, "str")>>)))>>, Refuse)>>)

(* Variables, EXECUTE, cursors, transactions, errors.                      *)
Declare ==
    All(<<Expect("DECLARE"),
          Choose_(<<On2({"#id"}, {"CURSOR"}, Nt("declare_cursor"))>>,
                  Make("declare", Several(Make("variable", All(<<Var, Nt("type"), If_("=", Expr)>>)))))>>)
CursorOptions ==
    Choose_(<<On({"FORWARD_ONLY", "SCROLL", "KEYSET", "DYNAMIC", "STATIC", "INSENSITIVE", "SENSITIVE"},
                 All(<<Nt("cursor_option"), Nt("cursor_options")>>))>>, Nothing)
DeclareCursor ==
    Make("declare cursor", All(<<Ident, Expect("CURSOR"), Nt("cursor_options"), Expect("FOR"), Nt("select"),
                                 If_("FOR", All(<<Skip("READ_ONLY"), Say("read only", "")>>))>>))
CursorOption ==
    LET Option(t, n) == On({t}, All(<<Drop_, Say(n, t)>>))
    IN  Choose_(<<Option("FORWARD_ONLY", "scroll type"), Option("SCROLL", "scroll type"), Option("KEYSET", "scroll type"),
                  Option("DYNAMIC", "scroll type"), Option("STATIC", "scroll type"),
                  Option("INSENSITIVE", "sensitivity"), Option("SENSITIVE", "sensitivity")>>, Refuse)
SetVariable ==
    Make("set variables",
         Several(MustFollow(Var, <<After({"+=", "-=", "*=", "/="}, {}, "compound", Expr), After({"="}, {}, "assign", Expr)>>)))
SetOptions ==
    {"NOCOUNT", "ANSI_NULLS", "ANSI_PADDING", "QUOTED_IDENTIFIER", "CONCAT_NULL_YIELDS_NULL", "IMPLICIT_TRANSACTIONS",
     "XACT_ABORT", "ARITHABORT", "SHOWPLAN_ALL", "SHOWPLAN_TEXT"}
SetStatement ==
    All(<<Expect("SET"),
          Choose_(<<On({"#var"}, Nt("set_variable")),
                    On(SetOptions, Make("set option", All(<<Ident, Choose_(<<On({"OFF"}, Ident)>>, Expr)>>)))>>,
                  Make("set variables", Make("assign", All(<<Ident, Expr>>))))>>)
PrintStatement == Make("print", All(<<Expect("PRINT"), Expr>>))
ExecuteBody ==
    Make("execute", All(<<Choose_(<<On2({"#var"}, {"="}, All(<<Make("status", Var), Drop_>>))>>, Nothing), Ident, Nt("exec_params")>>))
ExecParams ==
    Choose_(<<On(Ends, Nothing)>>,
            All(<<Choose_(<<On2({"#var"}, {"="}, Make("named", All(<<Var, Drop_, Expr, Flag("OUTPUT", "output")>>)))>>,
                          Make("positional", All(<<Expr, Skip("OUTPUT")>>))),
                  If_(",", Nt("exec_params"))>>))
Execute == All(<<Drop_, Nt("execute_body")>>)
OpenCursor == Make("open", All(<<Expect("OPEN"), Ident>>))
FetchCursor ==
    LET Way(t) == On({t}, All(<<Drop_, Say("way", t)>>))
    IN  Make("fetch", All(<<Expect("FETCH"),
                            Choose_(<<Way("NEXT"), Way("PRIOR"), Way("FIRST"), Way("LAST"),
                                      On({"ABSOLUTE"}, All(<<Drop_, Say("way", "ABSOLUTE"), Choose_(<<On({"#var"}, All(<<Drop_, Say("int", "0")>>))>>, IntLit)>>)),
                                      On({"RELATIVE"}, All(<<Drop_, Say("way", "RELATIVE"), IntLit>>))>>, Say("way", "NEXT")),
                            Expect("FROM"), Ident, If_("INTO", Several(Var))>>))
CloseCursor == Make("close", All(<<Expect("CLOSE"), Ident>>))
DeallocateCursor == Make("deallocate", All(<<Expect("DEALLOCATE"), Ident>>))
TransactionTail == Choose_(<<On({"TRANSACTION", "TRAN"}, All(<<Drop_, TransactionName>>))>>, Nothing)
Commit == Make("commit", All(<<Expect("COMMIT"), TransactionTail>>))
Rollback == Make("rollback", All(<<Expect("ROLLBACK"), TransactionTail>>))
SaveTransaction ==
    Make("save", All(<<Expect("SAVE"), Choose_(<<On({"TRANSACTION", "TRAN"}, Drop_)>>, Nothing), Ident>>))
Throw ==
    Make("throw", All(<<Expect("THROW"),
                        Choose_(<<On({";", "#eof"}, Nothing)>>,
                                All(<<Choose_(<<On({"#var"}, Drop_)>>, IntLit), Expect(","), Expr, Expect(","), IntLit>>))>>))
Raiserror ==
    Make("raiserror", All(<<Expect("RAISERROR"), Paren(All(<<Expr, Expect(","), Expr, Expect(","), Expr>>)),
                            If_("WITH", All(<<Skip("LOG"), Say("log", "")>>))>>))
Use == Make("use", All(<<Expect("USE"), Ident>>))
CreateTempTable == Make("create temp", All(<<Take_({"#temp", "##temp"}, "name"), Paren(Several(Nt("column_def")))>>))

(* A statement that starts with a name: a system procedure (any name that  *)
(* starts with SP), a call without EXEC, or a name passed on as it is.     *)
SpNames == {"SP_HELP", "SP_WHO", "SP_HELPDB", "SP_TABLES", "SP_COLUMNS", "SP_DATABASES", "SP_SPACEUSED", "SP_OTHER", "SPARE"}
PlainParams ==
    Choose_(<<On(Ends, Nothing)>>, All(<<Make("positional", Expr), If_(",", Nt("plain_params"))>>))
IdentifierStatement ==
    Choose_(<<On(SpNames, Nt("system_procedure"))>>, Make("named call", All(<<Ident, Nt("plain_params")>>)))
SystemProcedureCall ==
    LET Sp(p) == Make("system", All(<<Ident, p>>))
        Optional(p) == Sp(Choose_(<<On(Ends \ {"END"}, Nothing)>>, p))
    IN  Choose_(<<On({"SP_HELP", "SP_HELPDB", "SP_SPACEUSED"}, Optional(Ident)),
                  On({"SP_WHO"}, Optional(Take_({"#str", "#id"}, "name"))),
                  On({"SP_TABLES", "SP_DATABASES"}, Sp(Nothing)), On({"SP_COLUMNS"}, Sp(Ident))>>, Sp(Nt("sp_params")))
SpParams == Choose_(<<On(Ends \ {"END"}, Nothing)>>, All(<<Expr, If_(",", Nt("sp_params"))>>))
Passthrough == Balanced({"GO", ";"}, "pass")
Label(c) == Make("label", All(<<Take_({c}, "name"), Expect(":")>>))

Statement ==
    LET By(t, name) == On({t}, Nt(name))
        Alone(t, n) == On({t}, All(<<Drop_, Say(n, "")>>))
    IN  Choose_(<<By("SELECT", "select_statement"), By("INSERT", "insert"), By("UPDATE", "update"), By("DELETE", "delete"),
                  By("MERGE", "merge"), By("CREATE", "create"), By("ALTER", "alter"), By("DROP", "drop"), By("TRUNCATE", "truncate"),
                  By("BEGIN", "begin"), By("IF", "if"), By("WHILE", "while"), By("RETURN", "return"), By("GOTO", "goto"),
                  By("WAITFOR", "waitfor"), Alone("BREAK", "break"), Alone("CONTINUE", "continue"), By("DECLARE", "declare"),
                  By("SET", "set"), By("PRINT", "print"), By("EXECUTE", "execute"), By("EXEC", "execute"), By("OPEN", "open"),
                  By("FETCH", "fetch"), By("CLOSE", "close"), By("DEALLOCATE", "deallocate"), By("COMMIT", "commit"),
                  By("ROLLBACK", "rollback"), By("SAVE", "save"), By("THROW", "throw"), By("RAISERROR", "raiserror"), By("USE", "use"),
                  On2({"#var"}, {":"}, Label("#var")), By("#var", "select_into_vars"), By("#temp", "create_temp"), By("##temp", "create_temp"),
                  On2({"#id"}, {":"}, Label("#id")), By("#id", "identifier_statement"), By("(", "select_statement"),
                  Alone(";", "noop")>>, Passthrough)

(* SELECT @v = e is told from SELECT by the second token of the batch, not *)
(* of the statement.                                                       *)
IntoVars(all) ==
    LET p == IF ClassAt(all, 2) = "DISTINCT" THEN 3 ELSE 2
    IN  ClassAt(all, p) = "#var" /\ ClassAt(all, p + 1) = "="
SelectStatement(intoVars) == IF intoVars THEN SelectIntoVarsStatement ELSE Nt("select")

RulesFor(intoVars) ==
    [statement |-> Statement, select_statement |-> SelectStatement(intoVars), select |-> Select, assigns |-> Assigns,
     top |-> TopClause, select_list |-> SelectList, order_by_list |-> OrderByList, compute |-> ComputeClause,
     table_ref |-> Joins, primary_table_ref |-> PrimaryTableRef, hint_arguments |-> HintArguments,
     expr |-> OrExpr, and_expr |-> AndExpr, not_expr |-> NotExpr, comparison |-> Comparison, addition |-> Addition,
     multiplication |-> Multiplication, unary |-> Unary, primary |-> Primary, column |-> ColumnRef, call |-> FunctionCall,
     case |-> CaseExpr, whens |-> WhenClauses, expr_list |-> ExprList, type |-> DataType,
     insert |-> Insert, update |-> Update, delete |-> Delete, merge |-> Merge, create |-> Create, create_table |-> CreateTable,
     column_def |-> ColumnDef, constraint |-> TableConstraint, create_database |-> CreateDatabase, create_view |-> CreateView,
     create_index |-> CreateIndex, create_procedure |-> CreateProcedure, params |-> ProcedureParams, alter |-> Alter,
     alter_action |-> AlterTableAction, drop |-> DropStatement, truncate |-> Truncate, begin |-> Begin, try_catch |-> TryCatch,
     if |-> IfElse, while |-> While, return |-> Return, goto |-> Goto, waitfor |-> WaitFor, declare |-> Declare,
     declare_cursor |-> DeclareCursor, cursor_options |-> CursorOptions, cursor_option |-> CursorOption, set |-> SetStatement,
     set_variable |-> SetVariable, print |-> PrintStatement, execute |-> Execute, execute_body |-> ExecuteBody, exec_params |-> ExecParams,
     open |-> OpenCursor, fetch |-> FetchCursor, close |-> CloseCursor, deallocate |-> DeallocateCursor, commit |-> Commit,
     rollback |-> Rollback, save |-> SaveTransaction, throw |-> Throw, raiserror |-> Raiserror, use |-> Use, create_temp |-> CreateTempTable,
     select_into_vars |-> SelectIntoVars, identifier_statement |-> IdentifierStatement, plain_params |-> PlainParams,
     system_procedure |-> SystemProcedureCall, sp_params |-> SpParams]
VarRules == RulesFor(TRUE)
PlainRules == RulesFor(FALSE)

(* The keywords an identifier may be spelled with (TsqlToken::is_keyword). *)
Keywords ==
    {"SELECT", "FROM", "WHERE", "INSERT", "INTO", "UPDATE", "DELETE", "CREATE", "ALTER", "DROP", "TABLE", "DATABASE", "VIEW",
     "INDEX", "PROCEDURE", "PROC", "FUNCTION", "BEGIN", "END", "IF", "ELSE", "WHILE", "RETURN", "DECLARE", "SET", "EXECUTE", "EXEC",
     "GO", "USE", "AND", "OR", "NOT", "IN", "BETWEEN", "LIKE", "IS", "NULL", "EXISTS", "CASE", "WHEN", "THEN", "AS", "ON", "JOIN",
     "LEFT", "RIGHT", "INNER", "OUTER", "UNION", "ALL", "HAVING", "GROUP", "ORDER", "BY", "TOP", "WITH", "DISTINCT", "VALUES",
     "DEFAULT", "TRY", "CATCH", "THROW", "RAISERROR", "OPEN", "FETCH", "CLOSE", "DEALLOCATE", "COMMIT", "ROLLBACK", "SAVE",
     "TRANSACTION", "TRAN", "CURSOR", "PRINT", "BREAK", "CONTINUE", "GOTO", "WAITFOR"}

(* IS NULL becomes = NULL; a column keeps its last two names unless it has *)
(* four; "a.b *" is a table wildcard; the block of a branch is the branch; *)
(* a name alone is passed on.                                              *)
RECURSIVE Lowered(_)
Lowered(x) ==
    LET kids == [i \in DOMAIN x.kids |-> Lowered(x.kids[i])]
        isNull == Node("bin", "=", Append(kids, Leaf("null", "")))
    IN  CASE x.n = "is null" -> isNull
          [] x.n = "is not null" -> Node("not", "", <<isNull>>)
          [] x.n = "column" -> IF Len(kids) = 3 /\ kids[3].n = "star" THEN Node("table wildcard", "", <<kids[1]>>)
                               ELSE Node("column", "", IF Len(kids) = 3 THEN Tail(kids) ELSE kids)
          [] x.n = "body" /\ Len(kids) = 1 -> IF kids[1].n = "block" THEN Node("body", "", kids[1].kids) ELSE Node("body", "", kids)
          [] x.n = "named call" -> IF Len(kids) = 1 THEN Node("pass", "", <<Leaf("#id", kids[1].v)>>) ELSE Node("execute", "", kids)
          [] OTHER -> Node(x.n, x.v, kids)

Parse(toks) ==
    LET g == [rules |-> IF IntoVars(toks) THEN VarRules ELSE PlainRules, idents |-> Keywords]
        r == Run(g, Statements({}), toks)
    IN  [ok |-> r.ok, out |-> [i \in DOMAIN r.out |-> Lowered(r.out[i])]]

=============================================================================
