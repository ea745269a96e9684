--------------------------- MODULE MCAlgorithms ---------------------------
(***************************************************************************)
(* The pure functions of the servers against their reference definitions:  *)
(* one step chooses an input, the properties compare.                      *)
(***************************************************************************)
EXTENDS Integers, Sequences, FiniteSets, TLC

VARIABLE input
Start == [alg |-> "start"]
SeqsUpTo(S, n) == UNION {[1..k -> S] : k \in 0..n}

-----------------------------------------------------------------------------
(* LIKE.                                                                   *)

Pattern == INSTANCE LikeMatch

Like ==
    input = Start /\ \E t \in SeqsUpTo({"a", "B"}, 3), p \in SeqsUpTo({"A", "%", "_", "\\"}, 4), e \in {<< >>, <<"\\">>} :
        input' = [alg |-> "like", text |-> t, pattern |-> p, escape |-> e]

-----------------------------------------------------------------------------
(* SELECT of the ClickHouse and ADB servers.                               *)

Cells == {"", "10", "2", "2.0", "nan", "x"}
Query == INSTANCE TextQueries WITH
    NumberOf <- ("10" :> 10 @@ "2" :> 2 @@ "2.0" :> 2 @@ "1" :> 1),
    NaNs <- {"nan"},
    TextOrder <- <<"", "1", "10", "2", "2.0", "nan", "x">>,
    Likes <- {<<"2", "2%">>, <<"2.0", "2%">>},
    PrefixPairs <- {<<"", "10">>, <<"", "2">>, <<"", "x">>, <<"2", "2.0">>}

Conditions == {<<"a", "=", "2">>, <<"a", ">=", "2">>, <<"b", "<", "x">>, <<"a", "BETWEEN", "1", "AND", "2">>,
               <<"a", "NOT", "BETWEEN", "2", "AND", "10">>, <<"b", "IN", "(", "x", ",", "2", ")">>,
               <<"a", "IS", "NULL">>, <<"b", "IS", "NOT", "NULL">>, <<"a", "LIKE", "2%">>, <<"c", "!=", "2">>}
Clauses == {<<<<x>>>> : x \in Conditions} \cup {<<<<x, y>>, <<z>>>> : x, y, z \in Conditions}
           \cup {<<<<x>>, <<y, z>>>> : x, y, z \in Conditions}
Where ==
    input = Start /\ \E a \in Cells, b \in {"", "x"}, w \in Clauses :
        input' = [alg |-> "where", row |-> ("a" :> a @@ "b" :> b), where |-> w]

RowsOf(cols, w, order, desc, limit) ==
    [shape |-> "rows", cols |-> cols, where |-> w, order |-> order, desc |-> desc, limit |-> limit, of |-> "a"]
Shaped(shape, w) ==
    [shape |-> shape, cols |-> << >>, where |-> w, order |-> "", desc |-> FALSE, limit |-> 9, of |-> "a"]
Spelled(q) ==
    LET w == IF q.where = << >> THEN << >> ELSE <<"WHERE">> \o Query!Written(q.where)
        order == IF q.order = "" THEN << >> ELSE <<"ORDER", "BY", q.order>> \o (IF q.desc THEN <<"DESC">> ELSE << >>)
        limit == CASE q.limit = 9 -> << >> [] q.limit = 2 -> <<"LIMIT", "2">> [] OTHER -> <<"LIMIT", "1">>
        cols == IF q.cols = <<"a", "b">> THEN <<"*">> ELSE q.cols
    IN  CASE q.shape = "rows" -> <<"SELECT">> \o cols \o <<"FROM", "t">> \o w \o order \o limit
          [] q.shape = "groups" -> <<"SELECT", "a", ",", "COUNT", "(", "*", ")", "FROM", "t">> \o w \o <<"GROUP", "BY", "a">>
          [] q.shape = "min" -> <<"SELECT", "MIN", "(", "a", ")", "FROM", "t">> \o w
          [] q.shape = "sum" -> <<"SELECT", "SUM", "(", "a", ")", "FROM", "t">> \o w
          [] OTHER -> <<"SELECT", "COUNT", "(", "*", ")", "FROM", "t">> \o w
Filters == {<< >>, << <<<<"a", ">=", "2">>>>, <<<<"b", "=", "x">>>> >>}
ChQueries == {RowsOf(<<"a", "b">>, w, o, d, l) : w \in Filters, o \in {"", "a"}, d \in BOOLEAN, l \in {1, 9}}
             \cup {Shaped(s, w) : s \in {"groups", "min", "sum", "count"}, w \in Filters}
Tables == SeqsUpTo({("a" :> a @@ "b" :> b) : a \in {"", "10", "2"}, b \in {"x", ""}}, 3)
Select ==
    input = Start /\ \E t \in Tables, q \in ChQueries :
        input' = [alg |-> "select", rows |-> t, query |-> q]

(* An ADB statement comes parsed.                                          *)
NoExpr == [k |-> "none", v |-> ""]
Id(c) == [k |-> "id", v |-> c]
Const(c) == [k |-> "lit", v |-> c]
Test(k, l, r, list, negated) == [k |-> k, l |-> l, r |-> r, list |-> list, negated |-> negated]
AdbTests == {Test(k, Id("a"), Const("2"), << >>, FALSE) : k \in {"=", "<>", ">", "<="}}
            \cup {Test("in", Id("b"), NoExpr, <<Const("x"), Const("2")>>, n) : n \in BOOLEAN}
            \cup {Test("between", Id("a"), NoExpr, <<Const("1"), Const("2")>>, n) : n \in BOOLEAN}
            \cup {Test("null", Id("a"), NoExpr, << >>, n) : n \in BOOLEAN}
AdbWheres == {NoExpr} \cup AdbTests
Item(k, f, v) == [k |-> k, f |-> f, v |-> v]
AdbSelect(items, w, group, order, limit) == [items |-> items, where |-> w, group |-> group, order |-> order, limit |-> limit]
AdbQueries ==
    {AdbSelect(<<Item("*", "", "")>>, w, << >>, o, l) :
        w \in AdbWheres, o \in {<< >>, <<[name |-> "a", desc |-> FALSE]>>, <<[name |-> "a", desc |-> TRUE]>>}, l \in {-1, 1}}
    \cup {AdbSelect(<<Item("fn", f, "a"), Item("fn", "COUNT", "*")>>, w, << >>, << >>, -1) : f \in {"MIN", "MAX", "COUNT"}, w \in AdbWheres}
    \cup {AdbSelect(<<Item("id", "", "b"), Item("fn", f, "a"), Item("fn", "COUNT", "*")>>, w, <<"b">>, << >>, -1) :
             f \in {"MIN", "COUNT"}, w \in AdbWheres}
AdbTables == SeqsUpTo({<<a, b>> : a \in {"", "10", "2"}, b \in {"x", ""}}, 2) \cup [1..3 -> {<<"10", "x">>, <<"2", "">>, <<"", "x">>}]
AdbQuery ==
    input = Start /\ \E t \in AdbTables, q \in AdbQueries :
        input' = [alg |-> "adb", rows |-> t, query |-> q]

-----------------------------------------------------------------------------
(* Programs of the T-SQL interpreter.                                      *)

T == INSTANCE TsqlInterpreter WITH LoopBound <- 2

Op(k) == [k |-> k]
LitE(l) == [k |-> "lit", lit |-> l]
VarE(v) == [k |-> "var", name |-> v]
BinE(op, l, r) == [k |-> "bin", op |-> op, l |-> l, r |-> r]
One == LitE(T!IntLit(1))
Stmt(k, name, e, body, other) ==
    [k |-> k, name |-> name, e |-> e, es |-> << >>, body |-> body, other |-> other, db |-> "d"]
Do(k, name, e) == Stmt(k, name, e, << >>, << >>)
Steps == {Do("set", "x", BinE("+", VarE("x"), One)), Do("set", "y", One), Do("print", "", VarE("x")),
          Do("raise", "", LitE(T!StrLit(<<"b">>))), Do("return", "", LitE(T!IntLit(7))), Do("begin_tran", "", One),
          Do("commit", "", One), Do("fetch", "c", One), Do("exec", "p", One), Do("break", "", One)}
Guards == {BinE("<", VarE("x"), LitE(T!IntLit(2))), BinE("=", VarE("y"), One), [k |-> "sys", name |-> "error"]}
Bodies == {<<s>> : s \in Steps} \cup {<<s, t>> : s, t \in Steps}
Inner == {Stmt("if", "", g, b, c) : g \in Guards, b, c \in {<<s>> : s \in Steps}}
         \cup {Stmt("while", "", g, b, << >>) : g \in Guards, b \in Bodies}
         \cup {Stmt("try", "", One, b, c) : b \in Bodies, c \in {<<s>> : s \in Steps}}
Declared == Do("declare", "x", LitE(T!IntLit(0)))
Nested == {Stmt("try", "", One, <<i>>, <<s>>) : i \in {x \in Inner : Len(x.body) = 1}, s \in Steps}
Programs == {<<Declared, i, s>> : i \in {x \in Inner : Len(x.body) = 1}, s \in Steps} \cup {<<Declared, i>> : i \in Inner \cup Nested}
Fresh == T!Context("d", [count |-> 0, saves |-> << >>], {"p"})
Program ==
    input = Start /\ \E p \in Programs :
        input' = [alg |-> "program", program |-> p]

-----------------------------------------------------------------------------
(* Programs for the T-SQL parser.                                          *)

Parser == INSTANCE TsqlParser
Language == INSTANCE Sentences

TsqlText ==
    input = Start /\ \E p \in Language!TsqlPrograms :
        input' = [alg |-> "tsql", toks |-> Language!Row(p).toks, tree |-> Language!Row(p).kids]

-----------------------------------------------------------------------------
(* Text for the lexers: what is written piece by piece, with blanks or     *)
(* comments between the pieces.                                            *)

Lex == INSTANCE Lexers WITH Reserved <- (<<"a", "s">> :> "as" @@ <<"b">> :> "by")

Piece(text, t, v) == [text |-> text, tok |-> [t |-> t, v |-> v]]
Quoted(q, s) == <<q>> \o s \o <<q>>
Pieces == {Piece(<<"a", "1">>, "#id", <<"a", "1">>), Piece(<<"N">>, "#id", <<"N">>), Piece(<<"a", "s">>, "as", << >>), Piece(<<"B">>, "by", << >>),
           Piece(Quoted("'", <<"'", "'", "a", "-", "-">>), "#str", <<"'", "a", "-", "-">>), Piece(<<"N">> \o Quoted("'", <<"[">>), "#nstr", <<"[">>),
           Piece(<<"0", "x", "a", "9">>, "#bin", <<"a", "9">>), Piece(<<"$", "1", ".", "5">>, "#money", <<"1", ".", "5">>),
           Piece(<<"@", "x">>, "#var", <<"x">>), Piece(<<"@", "@", "x">>, "#sys", <<"x">>), Piece(<<"#", "x">>, "#temp", <<"x">>),
           Piece(<<"#", "#", "x">>, "##temp", <<"x">>), Piece(<<"1", "2">>, "#int", <<"1", "2">>), Piece(<<"1", ".", "5">>, "#float", <<"1", ".", "5">>),
           Piece(<<"1", "e", "-", "5">>, "#float", <<"1", "e", "-", "5">>), Piece(<<"[", "a", "'", "]">>, "#qid", <<"a", "'">>),
           Piece(Quoted("\"", <<"/", "*", "\"", "\"">>), "#qid", <<"/", "*", "\"">>), Piece(<<"<", ">">>, "#sign", <<"<", ">">>),
           Piece(<<"!", "=">>, "#sign", <<"<", ">">>), Piece(<<"=">>, "#sign", <<"=">>), Piece(<<"-">>, "#sign", <<"-">>),
           Piece(<<"/">>, "#sign", <<"/">>), Piece(<<"*">>, "#sign", <<"*">>), Piece(<<"(">>, "#sign", <<"(">>)}
Gaps == {<<" ">>, <<"\n">>, <<" ", "-", "-", "'", "*", "/", "\n">>, <<" ", "/", "*", "/", "*", "'", "*", "/", "-", "-", "*", "/">>}
TsqlPieces ==
    input = Start /\ \E p \in [1..2 -> Pieces] \cup {<<q, r, q>> : q, r \in Pieces}, g \in Gaps :
        input' = [alg |-> "lex", text |-> p[1].text \o g \o p[2].text \o g \o (IF Len(p) = 3 THEN p[3].text ELSE << >>),
                  toks |-> [i \in DOMAIN p |-> p[i].tok]]

Go == <<"G", "O">>
BatchTexts == {<<"a">>, <<"a", "\n", "G", "O", "b">>, Quoted("'", <<"\n">> \o Go \o <<"\n">>), <<"/", "*", "'", "\n">> \o Go \o <<"\n", "*", "/", "b">>,
               <<"a", "-", "-", "'", "\n", "b">>}
GoLines == {<<"\n">> \o Go \o <<"\n">>, <<"\n", " ", "\t", "g", "o", " ", "2", "\n">>, <<"\n">> \o Go \o <<"-", "-", "'", "\n">> \o Go \o <<"\n", "\n">>}
BatchScript ==
    input = Start /\ \E b \in [1..3 -> BatchTexts], g, h \in GoLines :
        input' = [alg |-> "batches", text |-> b[1] \o g \o b[2] \o h \o b[3], batches |-> b]

TupleValues == {[text |-> <<"a">>, value |-> <<"a">>], [text |-> <<"-", "1", ".", "5">>, value |-> <<"-", "1", ".", "5">>]}
               \cup {[text |-> Quoted("'", v), value |-> v] : v \in {<<",">>, <<")">>, << >>, <<" ", "a">>, <<"<", "=">>}}
TuplesOf(a, b, c) == <<"(">> \o a.text \o <<",">> \o b.text \o <<")", ",", " ", "(">> \o c.text \o <<" ", ")">>
ValueList ==
    input = Start /\ \E a, b, c \in TupleValues :
        input' = [alg |-> "values", text |-> TuplesOf(a, b, c), tuples |-> <<<<a.value, b.value>>, <<c.value>>>>]

-----------------------------------------------------------------------------
(* Statements for the front end's own parsers.                             *)
Sql == INSTANCE SqlParser
SqlStatement == input = Start /\ \E s \in Sql!Statements : input' = [alg |-> "sql", statement |-> s]

-----------------------------------------------------------------------------
(* Expressions, queries and statements for the handlers of INSERT, UPDATE  *)
(* and DELETE, as sqlparser gives them.  A predicate is an operand of AND, *)
(* OR and NOT only, and a minus is not negated again.                      *)

D == INSTANCE Dml

Tree(n, v, kids) == D!Node(n, v, kids)
Col(c) == D!Leaf("id", c)
Num(v) == D!Leaf("num", v)
Bin(op, l, r) == Tree("bin", op, <<l, r>>)
Un(n, e) == Tree(n, "", <<e>>)
Atoms == {Col("a"), Num("1"), Num("2.5"), D!Leaf("null", ""), Tree("str", "", D!Chars(<<"\\", "'", "\\", "x", "2", "7", "\\", "d">>)),
          Tree("path", "", <<D!Leaf("name", "t"), D!Leaf("name", "b")>>)}
Simple(items, clauses) == Tree("query", "", <<Tree("select", "", <<Tree("items", "", items)>> \o clauses)>>)
ItemOf(e) == Tree("item", "", <<e>>)
TableT == D!Leaf("table", "t")
FromT == Tree("from", "", <<Tree("joined", "", <<TableT>>)>>)
SubQuery == Simple(<<ItemOf(Col("a"))>>, <<FromT>>)
Arithmetic == {Bin(op, l, r) : op \in {"+", "-", "*", "%", "&", "|"}, l, r \in {Col("a"), Num("1")}}
Deeper == {Bin(op, l, r) : op \in {"-", "*"}, l, r \in Arithmetic \cup {Un("neg", Col("a"))}}
Scalars == Atoms \cup Arithmetic \cup {Un("nested", x) : x \in Arithmetic} \cup {Un("neg", x) : x \in Arithmetic \cup {Col("a"), Num("1")}}
           \cup {Un("plus", Col("a")), Tree("call", "f", <<Col("a"), Num("1")>>), Tree("call", "count", <<D!Leaf("*", "")>>),
                 Tree("call", "count", <<D!Leaf("distinct", ""), Col("a")>>), Tree("trim", "LEADING", <<Col("a")>>), Un("sub", SubQuery)}
Comparisons == {Bin(op, l, r) : op \in {"=", "<", ">="}, l \in Scalars, r \in {Num("1"), Un("neg", Col("a"))}}
Tests == {Tree("isnull", n, <<x>>) : n \in {"", "NOT"}, x \in Scalars}
         \cup {Tree("in", n, <<x, Num("1"), Col("a")>>) : n \in {"", "NOT"}, x \in Scalars}
         \cup {Tree("between", n, <<x, y, Num("2")>>) : n \in {"", "NOT"}, x, y \in Arithmetic}
         \cup {Tree("like", n, <<x, Col("b")>>) : n \in {"", "NOT"}, x \in Scalars}
         \cup {Tree("exists", n, <<SubQuery>>) : n \in {"", "NOT"}} \cup {Tree("insub", n, <<Col("a"), SubQuery>>) : n \in {"", "NOT"}}
Few == {Bin("=", Col("a"), Num("1")), Tree("isnull", "NOT", <<Col("a")>>), Tree("between", "", <<Col("a"), Num("1"), Num("2")>>),
        Tree("in", "NOT", <<Col("a"), Num("1")>>), Tree("exists", "NOT", <<SubQuery>>), Tree("like", "", <<Col("a"), Col("b")>>)}
Joined_ == {Bin(op, p, q) : op \in {"AND", "OR"}, p, q \in Few} \cup {Un("not", p) : p \in Few}
Logic == Joined_ \cup {Bin(op, p, q) : op \in {"AND", "OR"}, p \in Joined_, q \in Few} \cup {Un("not", p) : p \in Joined_}
Choices == {Tree("case", "", <<Tree("when", "", <<p, x>>), Tree("else", "", <<y>>)>>) : p \in Few \cup Joined_, x, y \in {Col("a"), Num("1")}}
Expression == input = Start /\ \E e \in Scalars \cup Deeper \cup Comparisons \cup Tests \cup Logic \cup Choices : input' = [alg |-> "expr", expr |-> e]

Or(S) == {<< >>} \cup {<<x>> : x \in S}
OnA == Tree("on", "", <<Bin("=", Col("a"), Col("b"))>>)
Sources == {<<TableT>>, <<Tree("table", "t", <<D!Leaf("alias", "u")>>), Tree("join", "LEFT", <<TableT, OnA>>), Tree("join", "CROSS", <<TableT>>)>>,
            <<Tree("derived", "v", <<SubQuery>>)>>}
Clauses_ == {<<Tree("from", "", <<Tree("joined", "", f)>>)>> \o w \o g :
                f \in Sources, w \in Or({Tree("where", "", <<p>>) : p \in Few}),
                g \in {<< >>, <<Tree("group", "", <<Col("a"), Col("b")>>), Tree("having", "", <<Bin(">", Tree("call", "count", <<Col("a")>>), Num("1"))>>)>>}}
By(dir) == Tree("by", dir, <<Col("a")>>)
Tails == {o \o l \o k : o \in Or({Tree("order", "", <<By("DESC"), By("ASC")>>)}), l \in Or({Tree("limit", "", <<Num("2")>>)}),
                        k \in Or({Tree("offset", "", <<Num("1")>>)})}
Selects == {Tree("select", "", <<Tree("items", "", i)>> \o c) :
              i \in {<<D!Leaf("*", "")>>, <<Tree("item", "x", <<Col("a")>>), ItemOf(Bin("+", Col("a"), Num("1")))>>}, c \in Clauses_}
WithT == Tree("with", "", <<Tree("cte", "w", <<SubQuery>>)>>)
SourceQuery ==
    input = Start /\ \/ \E s \in Selects, t \in Tails, w \in Or({WithT}) : input' = [alg |-> "query", query |-> Tree("query", "", w \o <<s>> \o t)]
                     \/ \E l, r \in {Tree("select", "", <<Tree("items", "", <<ItemOf(Col("a"))>>)>> \o c) : c \in Or({FromT})}, o \in {"UNION", "UNION ALL", "EXCEPT"} :
                           input' = [alg |-> "query", query |-> Tree("query", "", <<Tree("setop", o, <<l, r>>)>>)]

(* Statements on a table whose columns have 8 and 16 bits.                 *)
Columns == <<[name |-> "a", bits |-> 8], [name |-> "b", bits |-> 16]>>
NumRows == SeqsUpTo({<<1, 2>>, <<2, D!Null>>, <<D!Null, 1>>, <<1, 1>>}, 2)
Written == {Num("1"), Num("127"), Un("neg", Num("128")), Un("neg", Num("2.5")), Num("2.5"), D!Leaf("null", ""), Un("plus", Num("1"))}
InsertStatement ==
    input = Start /\ \E c \in {<< >>, <<"b", "a">>, <<"b">>}, x, y, z \in Written, s \in {<<0, 1>>, <<D!Null, 2>>} :
        LET row(p, q) == IF c = <<"b">> THEN <<p>> ELSE <<p, q>>
        IN  input' = [alg |-> "insert", rows |-> <<s>>, stmt |-> [columns |-> c, rows |-> <<row(x, y), row(y, z)>>, source |-> << >>]]
InsertFromQuery ==
    input = Start /\ \E c \in {<< >>, <<"b", "a">>, <<"a", "b">>}, r \in NumRows :
        input' = [alg |-> "insertselect", rows |-> <<<<0, 1>>>>, stmt |-> [columns |-> c, rows |-> << >>, source |-> <<SubQuery>>], selected |-> r]
SetExprs == {Num("1"), Num("127"), D!Leaf("null", ""), Un("neg", Num("1")), Bin("+", Col("a"), Num("1")), Bin("-", Col("b"), Col("a")),
             Tree("case", "", <<Tree("when", "", <<Bin(">", Col("a"), Num("0")), Col("b")>>), Tree("else", "", <<Un("neg", Un("nested", Bin("+", Col("a"), Col("b"))))>>)>>)}
Wheres == {Bin("=", Col("a"), Num("1")), Un("not", Bin("=", Col("a"), Num("1"))), Tree("isnull", "", <<Col("b")>>), Tree("in", "NOT", <<Col("a"), Num("2"), Col("b")>>),
           Bin("AND", Un("not", Bin("<", Col("a"), Num("2"))), Bin("OR", Tree("isnull", "NOT", <<Col("a")>>), Bin("=", Col("b"), Num("0")))),
           Bin("OR", Bin("AND", Tree("between", "NOT", <<Col("a"), Num("1"), Num("2")>>), Bin("<>", Col("b"), Num("1"))), Bin("=", Col("b"), Num("2")))}
SetTo(c, e) == [column |-> c, value |-> e]
UpdateStatement ==
    input = Start /\ \E w \in Or(Wheres), r \in NumRows, x, y \in SetExprs :
        input' = [alg |-> "update", rows |-> r, stmt |-> [where |-> w, sets |-> <<SetTo("b", x), SetTo("a", y)>>]]
DeleteStatement ==
    input = Start /\ \E w \in Or(Wheres), r \in NumRows \cup [1..3 -> {<<1, 2>>, <<2, 2>>, <<2, 1>>}], o \in Or({By("ASC"), By("DESC")}), l \in Or({Num("1"), Num("2")}) :
        input' = [alg |-> "delete", rows |-> r, stmt |-> [where |-> w, order |-> o, limit |-> l]]

-----------------------------------------------------------------------------
(* Documents of the MongoDB server and values of the Redis server.         *)

M == INSTANCE MongoDocuments
Fields(a, b) == [p \in {<<x>> : x \in (IF a = M!Missing THEN {} ELSE {"a"}) \cup (IF b = M!Missing THEN {} ELSE {"b"})} |->
                   IF p = <<"a">> THEN a ELSE b]
Scalar == {M!Bson("int32", 1), M!Bson("int64", 1), M!Bson("string", 2)}
SubDocs == {M!BsonDoc((<<"x">>) :> v) : v \in Scalar}
           \cup {M!BsonDoc((<<"x">>) :> M!BsonDoc((<<"y">>) :> v) @@ (<<"z">>) :> M!Bson("bool", 1)) : v \in Scalar}
Docs == {Fields(a, b) : a \in {M!Missing} \cup Scalar \cup SubDocs, b \in {M!Missing} \cup Scalar}
Paths == {<<"a">>, <<"b">>, <<"a", "x">>, <<"a", "x", "y">>, <<"a", "z">>}
PipedDocs == {Fields(a, b) : a \in {M!Missing} \cup {x \in SubDocs \cup Scalar : x.t = "doc" => x.sub[<<"x">>].n = 1}, b \in {M!Missing, M!Bson("int64", 5)}}
Document ==
    input = Start /\ \/ \E d \in Docs, p, q \in Paths, v \in Scalar, i \in {<<"a">>, <<"b">>}, w \in {x \in Scalar : x.t # "string"} :
                            input' = [alg |-> "update_doc", doc |-> d, update |-> [set |-> <<<<p, v>>, <<q, M!Bson("double", 3)>>>>, inc |-> <<<<i, w>>>>]]
                     \/ \E d \in Docs, p \in Paths, v, w \in Scalar \cup {M!Bson("double", 2)} : input' = [alg |-> "filter", doc |-> d, path |-> p, args |-> {v, w}]
                     \/ \E d \in [1..3 -> PipedDocs], p \in Paths, f \in {<<"b">>, <<"a", "x">>}, n \in {1, 4} :
                            input' = [alg |-> "pipeline", docs |-> d, by |-> p, filter |-> {<<f, "$exists", {M!Bson("bool", 1)}>>}, n |-> n]

R == INSTANCE RedisValues WITH IntMin <- -4, IntMax <- 3
Numbers == {1, 2, R!Bad}
RedisArgs == input = Start /\ \E a \in SeqsUpTo({<<x, y>> : x, y \in Numbers}, 3) \ {<< >>}, i, j \in {-7, -1, 0, 1, 2} :
                 input' = [alg |-> "redis", args |-> a, i |-> i, j |-> j]

(* Messages.  The lengths and numbers are those at which an encoding       *)
(* changes its form.                                                       *)
W == INSTANCE Wire
F == INSTANCE Framing
E == INSTANCE Exchanges
Str(n) == [i \in 1..n |-> 97 + (i % 3)]
Strings == {Str(n) : n \in {0, 1, 3, 127, 251}}
Boundaries == {0, 1, 250, 251, 65535, 65536, 16777215, 16777216}
MySqlMessage == input = Start /\ \E n \in Boundaries, s \in Strings \cup {Str(65536)}, t \in {Str(0), Str(251)} :
    /\ Len(s) = 65536 => n = 0
    /\ input' = [alg |-> "mysql", n |-> n, s |-> s, t |-> t]
ClientMessage == input = Start /\ \E caps \in SUBSET {"db", "secure", "plugin", "lenenc"}, s \in {Str(0), Str(3)}, t \in {Str(1), Str(20)}, next \in {<< >>, <<81, 0, 0>>} :
    input' = [alg |-> "client", caps |-> caps, s |-> s, t |-> t, next |-> next]
Dashed(y, m, d) == y \o <<45>> \o m \o <<45>> \o d
Feb29 == Dashed(<<50, 48, 50, 52>>, <<48, 50>>, <<50, 57>>)
At1030 == <<32, 49, 48, 58, 51, 48, 58, 48, 53>>
BinaryCell(type, text, value) == [type |-> type, value |-> W!TextToBinary(text, type), means |-> value]
BinaryCells ==
    {BinaryCell("TINY", <<49, 50, 55>>, <<127>>), BinaryCell("TINY", <<49, 50, 56>>, W!Nil), BinaryCell("TINY", <<45, 49>>, <<-1>>),
     BinaryCell("SHORT", <<45, 51, 48, 48>>, <<-300>>), BinaryCell("LONG", <<55, 48, 48, 48, 48>>, <<70000>>), BinaryCell("LONGLONG", <<45, 55>>, <<-7>>),
     BinaryCell("STRING", Str(251), Str(251)), BinaryCell("DATE", Feb29, <<2024, 2, 29>>),
     BinaryCell("DATETIME", Feb29 \o At1030, <<2024, 2, 29, 10, 30, 5, 0>>),
     BinaryCell("DATETIME", Feb29 \o At1030 \o <<46, 48, 53>>, <<2024, 2, 29, 10, 30, 5, 50000>>),
     [type |-> "TIME", value |-> W!Binary("TIME", <<1, 3, 23, 0, 59, 0>>), means |-> <<1, 3, 23, 0, 59, 0>>],
     [type |-> "TIME", value |-> W!Binary("TIME", <<0, 0, 23, 0, 59, 7>>), means |-> <<0, 0, 23, 0, 59, 7>>],
     [type |-> "DOUBLE", value |-> W!Binary("DOUBLE", Str(8)), means |-> Str(8)]}
BinaryResult == input = Start /\ \E first \in {0, 4, 5, 6, 7, 14}, x, y \in BinaryCells, z \in {BinaryCell("TINY", <<49>>, <<1>>), BinaryCell("TINY", <<>>, W!Nil)} :
    input' = [alg |-> "binary", row |-> [i \in 1..first |-> z] \o <<x, y>>]
(* The answers of a connection, from a packet number at which it wraps,    *)
(* and statements with holes: text in and out of strings, quotes, names.   *)
AColumn(name) == [schema |-> << >>, table |-> << >>, name |-> name, charset |-> 33, length |-> 1024, type |-> 253, flags |-> 0, decimals |-> 0]
ResultRows == {<<x, y>> : x \in {W!Nil, Str(0), <<52, 50>>, Str(251)}, y \in {W!Nil, <<55>>}}
ResultStream == input = Start /\ \E seq \in {1, 250, 251, 252, 253, 254, 255}, eof \in BOOLEAN, rows \in SeqsUpTo(ResultRows, 2) :
    input' = [alg |-> "results", seq |-> seq, eof |-> eof, rows |-> rows]
MySqlCell(type, bytes, text) == [type |-> type, bytes |-> bytes, text |-> text]
MySqlCells ==
    {MySqlCell(1, <<200>>, <<50, 48, 48>>), MySqlCell(2, <<255, 255>>, <<45, 49>>), MySqlCell(3, <<1, 1, 0, 0>>, <<50, 53, 55>>),
     MySqlCell(8, <<254, 255, 255, 255, 255, 255, 255, 255>>, <<45, 50>>), MySqlCell(4, <<0, 0, 128, 63>>, <<49>>),
     MySqlCell(5, <<0, 0, 0, 0, 0, 0, 4, 192>>, <<45, 50, 46, 53>>), MySqlCell(253, <<2, 39, 63>>, <<39, 39, 39, 63, 39>>),
     MySqlCell(253, <<252, 251, 0>> \o Str(251), <<39>> \o Str(251) \o <<39>>), MySqlCell(3, W!Nil, E!Null)}
MySqlPieces == {<<61>>, <<39, 63, 92, 39, 39, 44>>, <<39, 92, 92, 39, 34, 39, 63, 34>>}
MySqlParams == input = Start /\ \E a, b, c \in MySqlPieces, x, y \in MySqlCells :
    input' = [alg |-> "mysqlparams", pieces |-> <<a, b, c>>, cells |-> <<x, y>>]
PgCell(oid, formats, bytes, text) == [oid |-> oid, formats |-> formats, bytes |-> bytes, text |-> text]
PgCells ==
    {PgCell("TEXT", << >>, <<52, 46, 53>>, <<52, 46, 53>>), PgCell("TEXT", <<0>>, <<36, 49, 39>>, <<39, 36, 49, 39, 39, 39>>),
     PgCell("BOOL", <<1>>, <<1>>, <<39, 116, 114, 117, 101, 39>>), PgCell("INT2", <<1>>, <<255, 254>>, <<45, 50>>),
     PgCell("INT8", <<1, 1>>, W!BE(300, 8), <<51, 48, 48>>), PgCell("FLOAT8", <<1, 1>>, <<192, 4, 0, 0, 0, 0, 0, 0>>, <<45, 50, 46, 53>>),
     PgCell("INT4", <<1>>, <<97>>, <<39, 97, 39>>), PgCell("INT4", <<0>>, W!Nil, E!Null)}
PgPieces == {<<61>>, <<39, 36, 49, 39, 44>>, <<34, 36, 49, 39, 34>>, <<45, 45, 36, 49, 39, 10>>, <<36, 57, 44>>}
PgParams == input = Start /\ \E a, b, c \in PgPieces, x, y \in PgCells :
    input' = [alg |-> "pgparams", pieces |-> <<a, b, c>>, cells |-> <<x, y>>]
RespLeaves == {F!Resp("simple", Str(3), << >>), F!Resp("error", << >>, << >>), F!Resp("int", <<-12>>, << >>), F!Resp("bulk", <<13, 10, 36>>, << >>),
               F!Resp("bulk", << >>, << >>), F!Resp("null", << >>, << >>), F!Resp("nullarray", << >>, << >>), F!Resp("array", << >>, << >>)}
RespArrays(S) == {F!Resp("array", << >>, items) : items \in SeqsUpTo(S, 2)}
RespMessage == input = Start /\ \E v \in RespLeaves \cup RespArrays(RespLeaves \cup {F!Resp("array", << >>, <<x>>) : x \in RespLeaves}), next \in {<< >>, <<42>>, <<36, 49>>} :
    input' = [alg |-> "resp", value |-> v, next |-> next]
OtherMessage == input = Start /\ \E n \in Boundaries, s, t \in {Str(0), Str(1), Str(130)}, next \in {<< >>, <<1, 0>>} :
    input' = [alg |-> "other", n |-> n, s |-> s, t |-> t, next |-> next]
TunnelTypes == <<"BIGINT", "BOOLEAN", "DOUBLE", "STRING">>
TunnelRows == {<<a, b, Str(8), s>> : a \in {<<0>>, <<-1>>, <<64>>, <<-8193>>, W!Nil}, b \in {<<1>>, W!Nil}, s \in {<< >>, Str(130), W!Nil}}
TunnelRecords == input = Start /\ \E rows \in SeqsUpTo(TunnelRows, 2), types \in {TunnelTypes, <<"DATE", "BOOLEAN", "DOUBLE", "DECIMAL">>}, known \in 0..4 :
    input' = [alg |-> "tunnel", rows |-> rows, types |-> types, known |-> known]

(* Dates at the ends of months and years, in leap and common years, on     *)
(* both sides of 1970; rows for the aggregates; text and bytes.            *)
Fn == INSTANCE SqlFunctions WITH Width <- 18
YearsTried == {1900, 1969, 1970, 1999, 2000, 2023, 2024, 2100}
DaysTried == UNION {{Fn!FromYmd(y, m, 1)[1], Fn!LastDay(Fn!FromYmd(y, m, 1)[1])[1], Fn!FromYmd(y, m, 13)[1]} : y \in YearsTried, m \in {1, 2, 3, 4, 11, 12}}
DateArithmetic == input = Start /\ \E d \in DaysTried, n \in {-25, -1, 0, 1, 12} : input' = [alg |-> "dates", d |-> d, n |-> n]
DateText == input = Start /\ \E y \in {1900, 2000, 2023, 2024}, m \in {0, 2, 4, 12, 13}, d \in {0, 1, 9, 29, 30, 31} : input' = [alg |-> "datetext", y |-> y, m |-> m, d |-> d]
DateFormats == input = Start /\ \E d \in DaysTried, sec \in {0, 43199, 43200, 86399} : input' = [alg |-> "formats", d |-> d, sec |-> sec]
AggregateRows == input = Start /\ \E rows \in SeqsUpTo({Fn!Null, Fn!Some(<<"a">>), Fn!Some(<<"b">>), Fn!Some(<<"c">>)}, 4), i, j \in 0..4, limit \in {2, 9} :
    i <= j /\ j <= Len(rows) /\ input' = [alg |-> "aggregate", rows |-> rows, i |-> i, j |-> j, limit |-> limit]
StringArgs == input = Start /\ \E s \in SeqsUpTo({"a", "b", ","}, 4), n \in -5..5, len \in 0..3 : input' = [alg |-> "strings", s |-> s, n |-> n, len |-> len]
HexArgs == input = Start /\ \E b \in SeqsUpTo({0, 9, 10, 127, 128, 255}, 3), n \in {0, 1, 15, 16, 255, 256, 4096, 32767, -1, -16, -256} : input' = [alg |-> "hex", bytes |-> b, n |-> n]

Init == input = Start
Next == Like \/ Where \/ Program \/ TsqlPieces \/ DeleteStatement \/ RedisArgs \/ MySqlMessage \/ DateArithmetic
        \/ Select \/ AdbQuery \/ TsqlText \/ BatchScript \/ ValueList \/ SqlStatement
        \/ Expression \/ SourceQuery \/ InsertStatement \/ InsertFromQuery \/ UpdateStatement
        \/ Document \/ ClientMessage \/ BinaryResult \/ ResultStream \/ MySqlParams \/ PgParams
        \/ RespMessage \/ OtherMessage \/ TunnelRecords
        \/ DateText \/ DateFormats \/ AggregateRows \/ StringArgs \/ HexArgs
Spec == Init /\ [][Next]_input

LikeRight(in) == in.alg = "like" => Pattern!LikeAgrees(in.text, in.pattern, in.escape)
(* LIKE: the five matchers, two-row tables, a whole table and a            *)
(* backtracking one, say yes exactly when the text can be cut into one     *)
(* piece for each sign of the pattern, escapes included where they exist.  *)
LikeMatchersAgree == [][LikeRight(input')]_input

QueryRight(in) ==
    /\ in.alg = "where" => Query!WhereAgrees(in.row, in.where)
    /\ in.alg = "select" => Query!SelectAgrees(<<"a", "b">>, in.rows, in.query, Spelled(in.query))
    /\ in.alg = "adb" => Query!ExecuteSelectAgrees(<<"a", "b">>, in.rows, in.query)
(* SELECT of the ClickHouse and AnalyticDB servers: the token splitting of *)
(* WHERE keeps each BETWEEN together and ORs of ANDs mean what they say;   *)
(* projection, ORDER BY, LIMIT and GROUP BY give the rows, the order and   *)
(* the totals of the query, whatever the cells are.                        *)
QueriesAgree == [][QueryRight(input')]_input

ProgramRight(in) ==
    in.alg = "program" =>
        T!Batch(Fresh, in.program, T!Ok(Fresh)) =
        T!Machine(Fresh, [i \in DOMAIN in.program |-> T!Mark("do", in.program[i])], T!Ok(Fresh), 2)
(* T-SQL: the interpreter, which recurses into blocks, branches, loops and *)
(* TRY ... CATCH, ends every program as a machine with one list of things  *)
(* to do does: the same outcome, variables, cursors and @@ERROR.           *)
ProgramsAgree == [][ProgramRight(input')]_input

ParsedRight(in) ==
    /\ in.alg = "tsql" => Parser!Parse(in.toks) = [ok |-> TRUE, out |-> in.tree]
    /\ in.alg = "lex" => Lex!Tokenize(in.text) = Lex!Lexed(in.toks, << >>)
    /\ in.alg = "batches" => Lex!SplitBatches(in.text) = in.batches
    /\ in.alg = "values" => Lex!ParseValueTuples(Lex!TokenizeSql(in.text)) = in.tuples
    /\ in.alg = "sql" => Sql!StatementSaysWhatItMeans(in.statement)
(* The parsers: a T-SQL statement, a token stream with comments and quotes *)
(* in it, a script of batches, a VALUES list and each SQL statement of the *)
(* main server are read as what was written.                               *)
ParsedAsWritten == [][ParsedRight(input')]_input

(* The UPDATEs whose literals reach a column without NULLs: in others the  *)
(* NULLs of the rows not selected become 0.                                *)
KeepsNulls(rows, sets, where) ==
    where = << >> \/ \A s \in D!Range(sets) : s.value.n # "num" \/ \A r \in DOMAIN rows : rows[r][D!ColumnIndex(Columns, s.column)] # D!Null

StatementRight(in) ==
    /\ in.alg = "expr" => D!ExprSurvives(in.expr)
    /\ in.alg = "query" => D!QuerySurvives(in.query)
    /\ in.alg = "insert" =>
         D!InsertValues(D!ConvertInsert(in.stmt), Columns, in.rows) = D!Rows(TRUE, D!InsertMeans(in.stmt, Columns, in.rows))
    /\ in.alg = "insertselect" =>
         LET stmt == D!ConvertInsert(in.stmt)
         IN  /\ stmt.query # << >>
             /\ D!InsertSelect(stmt.columns, Columns, in.rows, in.selected) =
                D!Rows(TRUE, D!InsertSelectMeans(in.stmt, Columns, in.rows, in.selected))
    /\ in.alg = "update" /\ in.rows # << >> /\ KeepsNulls(in.rows, in.stmt.sets, in.stmt.where) =>
         D!Update(D!ConvertUpdate(in.stmt), Columns, in.rows) = D!Rows(TRUE, D!UpdateMeans(in.stmt, Columns, in.rows))
    /\ in.alg = "delete" /\ (in.stmt.where = << >> => in.stmt.limit = << >>)
         /\ (in.stmt.order = <<By("DESC")>> => \A r \in DOMAIN in.rows : in.rows[r][1] # D!Null) =>
         LET after == D!Delete(D!ConvertDelete(in.stmt), Columns, in.rows)
         IN  after.ok /\ D!DeleteMeans(in.stmt, Columns, in.rows, after.rows)
(* INSERT, UPDATE and DELETE: an expression or a query survives being read *)
(* and printed again, and a statement leaves in the table the rows that it *)
(* says, for all rows and conditions with NULLs and three-valued tests.    *)
(* Outside it: UPDATEs as above, a DELETE without a condition, which does  *)
(* not look at its limit, and ORDER BY ... DESC, which puts NULLs first.   *)
StatementsDoWhatTheySay == [][StatementRight(input')]_input

ValueRight(in) ==
    /\ in.alg = "update_doc" => M!UpdateAgrees(in.doc, in.update)
    /\ in.alg = "filter" => M!FilterAgrees(in.doc, in.path, in.args)
    /\ in.alg = "pipeline" => M!PipelineAgrees(in.docs, in.filter, in.by, in.n)
    /\ in.alg = "redis" => /\ R!ListAgrees(in.args, in.i, in.j)
                              /\ R!HashAgrees(in.args, in.i)
                              /\ R!SetAgrees(in.args, in.i)
                              /\ R!SortedSetAgrees(in.args, in.i)
                              /\ R!StringAgrees(in.args)
                              /\ R!KindsAgree(in.args)
(* The values of the Redis and MongoDB servers: a list, hash, set, sorted  *)
(* set or string answers as the sequence, function, set, ordering or text  *)
(* it stands for; an update changes the fields it names and no others, and *)
(* a filter and a pipeline keep the documents they describe.               *)
ValuesAgree == [][ValueRight(input')]_input

MessageRight(in) ==
    /\ in.alg = "mysql" => W!MySqlReads(in.n, in.s, in.t) /\ W!BackendReads(in.n, in.s, in.t)
    /\ in.alg = "client" => W!ResponseReads(in.caps, in.s, in.t, in.t, in.s) /\ W!FrontendReads(in.s, in.t, in.next)
    /\ in.alg = "binary" =>
         W!BinaryRowReads(W!BinaryRow(1, [i \in DOMAIN in.row |-> in.row[i].value]), [i \in DOMAIN in.row |-> in.row[i].type],
                          [i \in DOMAIN in.row |-> in.row[i].means])
    /\ in.alg = "results" => E!ResultsRead(in.seq, in.eof, <<AColumn(Str(1)), AColumn(Str(3))>>, <<"STRING", "TINY">>, in.rows)
    /\ in.alg = "mysqlparams" => E!MySqlBinds(in.pieces, in.cells)
    /\ in.alg = "pgparams" => E!PgBinds(in.pieces, in.cells)
    /\ in.alg = "resp" => F!RespReads(in.value, in.next)
    /\ in.alg = "other" =>
         /\ F!MongoReads(in.s, <<in.t, in.s>>, in.next)
         /\ F!FramesRead(in.s, in.t, in.next)
         /\ F!TokensRead(in.n, in.s, in.t)
    /\ in.alg = "tunnel" => F!TunnelSurvives(in.rows, in.types, SubSeq(in.types, 1, in.known))
(* The codecs: what a decoder takes from a stream is the whole message     *)
(* that was sent, or nothing as long as a byte of it is missing, and what  *)
(* follows is left; what an encoder writes is read by its protocol's       *)
(* layout to its last byte, at every length where the form changes.        *)
MessagesSurvive == [][MessageRight(input')]_input

FunctionRight(in) ==
    /\ in.alg = "dates" => Fn!DatesAgree(in.d, in.n)
    /\ in.alg = "datetext" => Fn!TextsAgree(in.y, in.m, in.d)
    /\ in.alg = "formats" => Fn!FormatsAgree(in.d, in.sec)
    /\ in.alg = "aggregate" => Fn!AggregatesAgree(in.rows, in.i, in.j, in.limit)
    /\ in.alg = "strings" => Fn!StringsAgree(in.s, in.n, in.len)
    /\ in.alg = "hex" => Fn!HexAgrees(in.bytes, in.n)
(* The SQL functions: the month arithmetic lands in the month counted, on  *)
(* the same day or that month's last; every reader of a spelled date gives *)
(* the same day, or refuses it; what is formatted, shown or stored is read *)
(* back; an aggregate is the same however its rows are partitioned.        *)
FunctionsAgree == [][FunctionRight(input')]_input

=============================================================================
