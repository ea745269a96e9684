-------------------------------- MODULE Dml --------------------------------
(***************************************************************************)
(* INSERT, UPDATE and DELETE of the main server.  The statement comes from *)
(* the sqlparser crate as a tree; convert_* of fe-sql-parser rewrites it   *)
(* into the server's own tree; dml_handler.rs prints the conditions, the   *)
(* SET expressions and the source query of an INSERT back to SQL for       *)
(* DataFusion, and builds the changed columns itself.                      *)
(*                                                                         *)
(* Trees are nodes [n, v, kids].  A clause that is absent is an absent     *)
(* kid, and "NOT" in v marks a negated predicate.  A string is a node      *)
(* whose kids are its characters.                                          *)
(***************************************************************************)
EXTENDS Grammar, FiniteSets

Named(t, n) == SelectSeq(t.kids, LAMBDA k : k.n = n)
Has(t, n) == Named(t, n) # << >>
The(t, n) == Named(t, n)[1]
Except_(t, n) == SelectSeq(t.kids, LAMBDA k : k.n # n)
Chars(s) == [i \in DOMAIN s |-> Leaf("char", s[i])]
TextOf(t) == [i \in DOMAIN t.kids |-> t.kids[i].v]

-----------------------------------------------------------------------------
(* From sqlparser's tree to the server's.                                  *)

Error == Leaf("error", "")
Built(n, v, kids) == IF \E i \in DOMAIN kids : kids[i].n = "error" THEN Error ELSE Node(n, v, kids)

EscapedAs == [c \in {"n", "t", "r", "\\", "'", "\"", "0", "b", "f", "v"} |->
                 CASE c = "n" -> "\n" [] c = "t" -> "\t" [] c = "r" -> "\r" [] c = "0" -> "NUL"
                   [] c = "b" -> "BS" [] c = "f" -> "FF" [] c = "v" -> "VT" [] OTHER -> c]
CharOfHex == [h \in {<<"4", "1">>, <<"2", "7">>} |-> IF h = <<"4", "1">> THEN "A" ELSE "'"]
RECURSIVE ProcessEscapeSequences(_)
ProcessEscapeSequences(s) ==
    IF s = << >> THEN << >>
    ELSE IF Head(s) # "\\" \/ Len(s) = 1 THEN <<Head(s)>> \o ProcessEscapeSequences(Tail(s))
    ELSE IF s[2] \in DOMAIN EscapedAs THEN <<EscapedAs[s[2]]>> \o ProcessEscapeSequences(SubSeq(s, 3, Len(s)))
    ELSE IF s[2] \in {"x", "X"} THEN
        LET n == IF Len(s) < 4 THEN Len(s) ELSE 4
            hex == SubSeq(s, 3, n)
        IN  (IF hex \in DOMAIN CharOfHex THEN <<CharOfHex[hex]>> ELSE <<"\\", "x">> \o hex)
            \o ProcessEscapeSequences(SubSeq(s, n + 1, Len(s)))
    ELSE <<"\\">> \o ProcessEscapeSequences(Tail(s))

(* A number with a point or an exponent is a float; to_string of a float   *)
(* that is whole leaves the point out.                                     *)
Floats == {"2.5", "1.0"}
FloatText(v) == IF v = "1.0" THEN "1" ELSE v

BinaryOps == {"=", "<>", "<", "<=", ">", ">=", "AND", "OR", "+", "-", "*", "/", "%", "&", "|", "^"}
EmptyQuery == Node("query", "", <<Leaf("items", "")>>)

RECURSIVE ConvertExpr(_), ConvertQuery(_), ConvertSetExpr(_), ConvertSelect(_, _, _), ConvertTableRef(_)
OrEmpty(q) == IF q.n = "error" THEN EmptyQuery ELSE q
ConvertAll(es) == [i \in DOMAIN es |-> ConvertExpr(es[i])]
ConvertFunctionArgs(args) ==
    [i \in DOMAIN args |-> IF args[i].n \in {"*", "t.*"} THEN Leaf("col", IF args[i].n = "*" THEN "*" ELSE args[i].v)
                           ELSE ConvertExpr(args[i])]
ConvertCase(e) ==
    LET arms == [i \in DOMAIN e.kids |-> Built(e.kids[i].n, "", ConvertAll(e.kids[i].kids))]
    IN  Built("case", "", SelectSeq(arms, LAMBDA a : a.n # "of"))
FunctionOf(e) ==
    CASE e.n = "substring" -> "substring"
      [] e.n = "trim" -> IF e.v = "LEADING" THEN "LTRIM" ELSE IF e.v = "TRAILING" THEN "RTRIM" ELSE "TRIM"
      [] e.n = "ceil" -> "CEIL"
      [] e.n = "floor" -> "FLOOR"
      [] OTHER -> "POSITION"
ConvertExpr(e) ==
    CASE e.n = "num" -> Leaf(IF e.v \in Floats THEN "float" ELSE "int", e.v)
      [] e.n = "str" -> Node("string", "", Chars(ProcessEscapeSequences(TextOf(e))))
      [] e.n \in {"bool", "null"} -> e
      [] e.n = "id" -> Leaf("col", e.v)
      [] e.n = "path" -> Node("col", e.kids[Len(e.kids)].v, IF Len(e.kids) = 2 THEN <<Leaf("table", e.kids[1].v)>> ELSE << >>)
      [] e.n = "bin" -> IF e.v \in BinaryOps THEN Built("bin", e.v, ConvertAll(e.kids)) ELSE Error
      [] e.n \in {"not", "neg", "in", "between", "like", "isnull"} -> Built(e.n, e.v, ConvertAll(e.kids))
      [] e.n \in {"plus", "nested"} -> ConvertExpr(e.kids[1])
      [] e.n = "call" -> Built("call", e.v, Named(e, "distinct") \o ConvertFunctionArgs(Except_(e, "distinct")))
      [] e.n = "insub" -> Built("insub", e.v, <<ConvertExpr(e.kids[1]), OrEmpty(ConvertQuery(e.kids[2]))>>)
      [] e.n = "exists" -> LET x == Node("exists", "", <<OrEmpty(ConvertQuery(e.kids[1]))>>)
                           IN  IF e.v = "NOT" THEN Node("not", "", <<x>>) ELSE x
      [] e.n = "sub" -> Node("sub", "", <<OrEmpty(ConvertQuery(e.kids[1]))>>)
      [] e.n = "case" -> ConvertCase(e)
      [] e.n \in {"substring", "trim", "ceil", "floor", "position"} -> Built("call", FunctionOf(e), ConvertAll(e.kids))
      [] e.n = "interval" -> Built("call", "INTERVAL", <<ConvertExpr(e.kids[1]), Node("string", "", <<Leaf("char", e.v)>>)>>)
      [] OTHER -> Error

(* Only a number counts as a limit.  NULLS FIRST is assumed unless the     *)
(* statement says NULLS LAST.                                              *)
Limits(q, n) == IF Has(q, n) /\ The(q, n).kids[1].n = "num" THEN <<Leaf(n, The(q, n).kids[1].v)>> ELSE << >>
OrderItem(o) == Built("by", o.v, <<ConvertExpr(o.kids[1])>> \o (IF Has(o, "nullslast") THEN << >> ELSE <<Leaf("nullsfirst", "")>>))
OrderBy(q) ==
    IF Has(q, "order") THEN LET o == The(q, "order") IN <<Built("order", "", [i \in DOMAIN o.kids |-> OrderItem(o.kids[i])])>>
    ELSE << >>
WithClause(q) ==
    IF Has(q, "with")
    THEN LET c == The(q, "with").kids[1] IN <<Node("with", c.v, <<OrEmpty(ConvertQuery(c.kids[1]))>>)>>
    ELSE << >>
LeftFields(left) == SelectSeq(left.kids, LAMBDA k : k.n \in {"items", "from", "where", "group", "having"})
SetOperation(body, with, tail) ==
    LET left == ConvertSetExpr(body.kids[1])
        right == ConvertSetExpr(body.kids[2])
    IN  IF left.n = "error" \/ right.n = "error" THEN Error
        ELSE Built("query", "", with \o LeftFields(left) \o tail \o <<Node("setop", body.v, <<right>>)>>)
ConvertSetExpr(body) ==
    CASE body.n = "select" -> ConvertSelect(body, << >>, << >>)
      [] body.n = "query" -> ConvertQuery(body)
      [] body.n = "setop" -> SetOperation(body, << >>, << >>)
      [] OTHER -> Error
ConvertQuery(q) ==
    LET tail == OrderBy(q) \o Limits(q, "limit") \o Limits(q, "offset")
    IN  CASE Has(q, "select") -> ConvertSelect(The(q, "select"), WithClause(q), tail)
          [] Has(q, "setop") -> SetOperation(The(q, "setop"), WithClause(q), tail)
          [] OTHER -> Error
ConvertItem(i) == IF i.n = "item" THEN Built("item", i.v, <<ConvertExpr(i.kids[1])>>) ELSE Node("item", "", <<Leaf("*", "")>>)
Clause(s, n) == IF Has(s, n) THEN <<Built(n, "", ConvertAll(The(s, n).kids))>> ELSE << >>
ConvertSelect(s, with, tail) ==
    LET items == The(s, "items").kids
        from == IF Has(s, "from") THEN <<Node("from", "", <<ConvertTableRef(The(s, "from").kids[1])>>)>> ELSE << >>
    IN  Built("query", "", with \o <<Built("items", "", [i \in DOMAIN items |-> ConvertItem(items[i])])>> \o from
                                \o Clause(s, "where") \o Clause(s, "group") \o Clause(s, "having") \o tail)
Unknown == Leaf("table", "unknown")
ConvertTableRefSimple(f) == IF f.n = "table" THEN f ELSE Unknown
JoinCondition(j) ==
    IF ~Has(j, "on") \/ j.v = "CROSS" THEN << >>
    ELSE LET c == ConvertExpr(The(j, "on").kids[1]) IN IF c.n = "error" THEN << >> ELSE <<c>>
ConvertTableRef(t) ==
    LET relation == t.kids[1]
        JoinTo(left, j) == Node("join", IF j.v \in {"INNER", "LEFT", "RIGHT", "FULL", "CROSS"} THEN j.v ELSE "INNER",
                                <<left, ConvertTableRefSimple(j.kids[1])>> \o JoinCondition(j))
    IN  IF relation.n = "derived"
        THEN LET q == ConvertQuery(relation.kids[1]) IN IF q.n = "error" THEN Unknown ELSE Node("derived", relation.v, <<q>>)
        ELSE FoldLeft(JoinTo, ConvertTableRefSimple(relation), Tail(t.kids))

-----------------------------------------------------------------------------
(* The server's tree printed as tokens.  "-u" is a minus written right     *)
(* before its operand.                                                     *)

Word(v) == IF v = "*" THEN Kw("*") ELSE [t |-> "#id", v |-> v]
Number(v) == [t |-> "#num", v |-> v]
Paren(toks) == <<Kw("(")>> \o toks \o <<Kw(")")>>
Commas(lists) == IF lists = << >> THEN << >> ELSE FoldLeft(LAMBDA acc, l : acc \o <<Kw(",")>> \o l, Head(lists), Tail(lists))
Not_(e) == IF e.v = "NOT" THEN <<Kw("NOT")>> ELSE << >>
Doubled(s) == FlattenSeq([i \in DOMAIN s |-> IF s[i] = "'" THEN <<"'", "'">> ELSE <<s[i]>>])
LiteralToSql(e) ==
    CASE e.n = "null" -> Kw("NULL")
      [] e.n = "bool" -> Kw(e.v)
      [] e.n = "int" -> Number(e.v)
      [] e.n = "float" -> Number(FloatText(e.v))
      [] OTHER -> [t |-> "#str", v |-> Doubled(TextOf(e))]

RECURSIVE ExprToSql(_), QueryStmtToSql(_), TableRefToSql(_)
ListToSql(es) == Commas([i \in DOMAIN es |-> ExprToSql(es[i])])
BinaryToSql(e) == Paren(ExprToSql(e.kids[1]) \o <<Kw(e.v)>> \o ExprToSql(e.kids[2]))
ArmToSql(a) ==
    IF a.n = "when" THEN <<Kw("WHEN")>> \o ExprToSql(a.kids[1]) \o <<Kw("THEN")>> \o ExprToSql(a.kids[2])
    ELSE <<Kw("ELSE")>> \o ExprToSql(a.kids[1])
ExprToSql(e) ==
    LET first == ExprToSql(e.kids[1])
    IN  CASE e.n \in {"null", "bool", "int", "float", "string"} -> <<LiteralToSql(e)>>
          [] e.n = "col" -> (IF e.kids = << >> THEN << >> ELSE <<Word(e.kids[1].v), Kw(".")>>) \o <<Word(e.v)>>
          [] e.n = "bin" -> BinaryToSql(e)
          [] e.n = "not" -> <<Kw("NOT")>> \o first
          [] e.n = "neg" -> <<Kw("-u")>> \o first
          [] e.n = "*" -> <<Kw("*")>>
          [] e.n = "call" -> <<Word(e.v)>> \o Paren((IF Has(e, "distinct") THEN <<Kw("DISTINCT")>> ELSE << >>)
                                                    \o ListToSql(Except_(e, "distinct")))
          [] e.n = "isnull" -> first \o <<Kw("IS")>> \o Not_(e) \o <<Kw("NULL")>>
          [] e.n = "in" -> first \o Not_(e) \o <<Kw("IN")>> \o Paren(ListToSql(Tail(e.kids)))
          [] e.n = "between" -> first \o Not_(e) \o <<Kw("BETWEEN")>> \o ExprToSql(e.kids[2]) \o <<Kw("AND")>> \o ExprToSql(e.kids[3])
          [] e.n = "case" -> <<Kw("CASE")>> \o FlattenSeq([i \in DOMAIN e.kids |-> ArmToSql(e.kids[i])]) \o <<Kw("END")>>
          [] e.n = "like" -> first \o Not_(e) \o <<Kw("LIKE")>> \o ExprToSql(e.kids[2])
          [] e.n = "sub" -> Paren(QueryStmtToSql(e.kids[1]))
          [] e.n = "exists" -> <<Kw("EXISTS")>> \o Paren(QueryStmtToSql(e.kids[1]))
          [] OTHER -> first \o Not_(e) \o <<Kw("IN")>> \o Paren(QueryStmtToSql(e.kids[2]))
TableToSql(t) == <<Word(t.v)>> \o (IF t.kids = << >> THEN << >> ELSE <<Kw("AS"), Word(t.kids[1].v)>>)
TableRefToSql(t) ==
    CASE t.n = "table" -> TableToSql(t)
      [] t.n = "derived" -> Paren(QueryStmtToSql(t.kids[1])) \o <<Kw("AS"), Word(t.v)>>
      [] OTHER -> TableRefToSql(t.kids[1]) \o <<Kw(t.v), Kw("JOIN")>> \o TableRefToSql(t.kids[2])
                  \o (IF Len(t.kids) = 3 THEN <<Kw("ON")>> \o ExprToSql(t.kids[3]) ELSE << >>)
ItemToSql(i) == ExprToSql(i.kids[1]) \o (IF i.v = "" THEN << >> ELSE <<Kw("AS"), Word(i.v)>>)
OrderToSql(o) == ExprToSql(o.kids[1]) \o (IF o.v = "DESC" THEN <<Kw("DESC")>> ELSE << >>)
                 \o (IF Has(o, "nullsfirst") THEN <<Kw("NULLS"), Kw("FIRST")>> ELSE << >>)
ClauseToSql(c) ==
    CASE c.n = "with" -> <<Kw("WITH"), Word(c.v), Kw("AS")>> \o Paren(QueryStmtToSql(c.kids[1]))
      [] c.n = "items" -> <<Kw("SELECT")>> \o Commas([i \in DOMAIN c.kids |-> ItemToSql(c.kids[i])])
      [] c.n = "from" -> <<Kw("FROM")>> \o TableRefToSql(c.kids[1])
      [] c.n = "where" -> <<Kw("WHERE")>> \o ExprToSql(c.kids[1])
      [] c.n = "group" -> IF c.kids = << >> THEN << >> ELSE <<Kw("GROUP"), Kw("BY")>> \o ListToSql(c.kids)
      [] c.n = "having" -> <<Kw("HAVING")>> \o ExprToSql(c.kids[1])
      [] c.n = "order" -> <<Kw("ORDER"), Kw("BY")>> \o Commas([i \in DOMAIN c.kids |-> OrderToSql(c.kids[i])])
      [] c.n = "limit" -> <<Kw("LIMIT"), Number(c.v)>>
      [] c.n = "offset" -> <<Kw("OFFSET"), Number(c.v)>>
      [] OTHER -> <<Kw(c.v)>> \o QueryStmtToSql(c.kids[1])
QueryStmtToSql(q) == FlattenSeq([i \in DOMAIN q.kids |-> ClauseToSql(q.kids[i])])

-----------------------------------------------------------------------------
(* How DataFusion reads the tokens: its grammar, and a comment begins at   *)
(* two minus signs next to each other.                                     *)

Expr_ == Climb(0)
Listed == All(<<Expect("("), Choose_(<<On({"SELECT", "WITH"}, Nt("query"))>>, Several(Expr_)), Expect(")")>>)
Range_ == All(<<Climb(20), Expect("AND"), Climb(20)>>)
Binding == <<<<"OR", 5>>, <<"AND", 10>>, <<"=", 20>>, <<"<>", 20>>, <<"<", 20>>, <<"<=", 20>>, <<">", 20>>, <<">=", 20>>, <<"|", 21>>,
             <<"^", 22>>, <<"&", 23>>, <<"+", 30>>, <<"-", 30>>, <<"*", 40>>, <<"/", 40>>, <<"%", 40>>>>
ReadInfix == [i \in DOMAIN Binding |-> Infix_({Binding[i][1]}, {}, Binding[i][1], Binding[i][2], Climb(Binding[i][2]))]
             \o <<Infix_({"IN"}, {}, "IN", 20, Listed), Infix_({"NOT"}, {"IN"}, "NOT IN", 20, Listed),
                  Infix_({"BETWEEN"}, {}, "BETWEEN", 20, Range_), Infix_({"NOT"}, {"BETWEEN"}, "NOT BETWEEN", 20, Range_),
                  Infix_({"LIKE"}, {}, "LIKE", 19, Climb(19)), Infix_({"NOT"}, {"LIKE"}, "NOT LIKE", 19, Climb(19)),
                  Infix_({"IS"}, {"NULL"}, "IS", 17, Nothing), Infix_({"IS"}, {"NOT"}, "IS NOT", 17, Expect("NULL"))>>
InParens(p) == All(<<Expect("("), p, Expect(")")>>)
Alias == All(<<Expect("AS"), Ident>>)
Joins == [i \in 1..5 |-> LET j == <<"INNER", "LEFT", "RIGHT", "FULL", "CROSS">>[i]
                         IN  After({j}, {"JOIN"}, j, All(<<Nt("factor"), If_("ON", Expr_)>>))]
OneArm == All(<<Expr_, Expect("THEN"), Expr_>>)
ReadRules == [
    prefix |-> Choose_(<<On({"NOT"}, Make("not", All(<<Drop_, Climb(15)>>))), On({"-u"}, Make("neg", All(<<Drop_, Climb(40)>>))),
                          On2({"("}, {"SELECT", "WITH"}, Make("sub", InParens(Nt("query")))),
                          On({"("}, InParens(Expr_)),
                          On({"CASE"}, Make("case", All(<<Drop_, Nt("arms"), If_("ELSE", Make("else", Expr_)), Expect("END")>>))),
                          On({"EXISTS"}, Make("exists", All(<<Drop_, InParens(Nt("query"))>>))),
                          On({"NULL"}, All(<<Drop_, Say("null", "")>>)), On({"true"}, All(<<Drop_, Say("bool", "true")>>)),
                          On({"#num"}, Take_({"#num"}, "num")), On({"#str"}, Take_({"#str"}, "str")),
                          On({"*"}, All(<<Drop_, Say("*", "")>>)),
                          On2({"#id"}, {"("}, Make("call", All(<<Ident, Expect("("), Flag("DISTINCT", "distinct"),
                                                                 Several(Expr_), Expect(")")>>))),
                          On2({"#id"}, {"."}, Make("path", All(<<Ident, Drop_, Ident>>)))>>, Make("id", Ident)),
    arms |-> All(<<Expect("WHEN"), Make("when", OneArm), Choose_(<<On({"WHEN"}, Nt("arms"))>>, Nothing)>>),
    factor |-> Choose_(<<On({"("}, Make("derived", All(<<InParens(Nt("query")), Alias>>)))>>,
                       Make("table", All(<<Ident, If_("AS", Make("alias", Ident))>>))),
    query |-> Make("query", All(<<
        If_("WITH", Make("with", All(<<Ident, Expect("AS"), InParens(Nt("query"))>>))),
        Expect("SELECT"), Make("items", Several(Make("item", All(<<Expr_, If_("AS", Make("alias", Ident))>>)))),
        If_("FROM", Make("from", Operands(Nt("factor"), Joins))),
        If_("WHERE", Make("where", Expr_)),
        If_("GROUP", All(<<Expect("BY"), Make("group", Several(Expr_))>>)),
        If_("HAVING", Make("having", Expr_)),
        If_("ORDER", All(<<Expect("BY"), Make("order", Several(Make("by", All(<<Expr_, Flag("DESC", "desc"), Nt("nulls")>>))))>>)),
        If_("LIMIT", Make("limit", Take_({"#num"}, "num"))), If_("OFFSET", Make("offset", Take_({"#num"}, "num"))),
        Nt("setop")>>)),
    nulls |-> Choose_(<<On2({"NULLS"}, {"FIRST"}, All(<<Drop_, Drop_, Say("nullsfirst", "")>>))>>, Nothing),
    setop |-> Choose_([i \in 1..3 |-> LET o == <<"UNION", "UNION ALL", "EXCEPT">>[i]
                                      IN  On({o}, Make("setop", All(<<Drop_, Say("kind", o), Nt("query")>>)))], Nothing)]

(* The tree that was read in the form the printer starts from.             *)
Undoubled(s) ==
    LET kept == {i \in DOMAIN s : s[i] # "'" \/ Cardinality({j \in 1..i : \A k \in j..i : s[k] = "'"}) % 2 = 1}
    IN  [i \in 1..Cardinality(kept) |-> s[CHOOSE j \in kept : Cardinality({k \in kept : k <= j}) = i]]
RECURSIVE Tidy(_)
TidyAll(ts) == [i \in DOMAIN ts |-> Tidy(ts[i])]
Starred(t) == IF t.n = "*" THEN Leaf("col", "*") ELSE Tidy(t)
Lifted(n, t) == Node(n, t.kids[1].v, [i \in 1..(Len(t.kids) - 1) |-> Starred(t.kids[i + 1])])
Denied == [p \in {"NOT IN", "NOT BETWEEN", "NOT LIKE", "IS NOT"} |->
              CASE p = "NOT IN" -> "in" [] p = "NOT BETWEEN" -> "between" [] p = "NOT LIKE" -> "like" [] OTHER -> "isnull"]
Predicated(n, v, t) == Node(IF n = "in" /\ t.kids[2].n = "query" THEN "insub" ELSE n, v, TidyAll(t.kids))
Aliased(n, v, t) == Node(n, IF Has(t, "alias") THEN The(t, "alias").kids[1].v ELSE v, TidyAll(Except_(t, "alias")))
Tidy(t) ==
    CASE t.n = "num" -> Leaf(IF t.v \in Floats THEN "float" ELSE "int", t.v)
      [] t.n = "str" -> Node("string", "", Chars(Undoubled(t.v)))
      [] t.n = "id" -> Leaf("col", t.kids[1].v)
      [] t.n = "path" -> Node("col", t.kids[2].v, <<Leaf("table", t.kids[1].v)>>)
      [] t.n \in BinaryOps /\ t.kids # << >> -> Node("bin", t.n, TidyAll(t.kids))
      [] t.n \in {"IN", "BETWEEN", "LIKE", "IS"} ->
            Predicated(CASE t.n = "IN" -> "in" [] t.n = "BETWEEN" -> "between" [] t.n = "LIKE" -> "like" [] OTHER -> "isnull", "", t)
      [] t.n \in DOMAIN Denied -> Predicated(Denied[t.n], "NOT", t)
      [] t.n \in {"call", "with", "setop"} -> Lifted(t.n, t)
      [] t.n = "table" -> Node("table", t.kids[1].v, IF Len(t.kids) = 2 THEN <<Leaf("alias", t.kids[2].kids[1].v)>> ELSE << >>)
      [] t.n = "derived" -> Node("derived", t.kids[2].v, <<Tidy(t.kids[1])>>)
      [] t.n \in {"INNER", "LEFT", "RIGHT", "FULL", "CROSS"} -> Node("join", t.n, TidyAll(t.kids))
      [] t.n = "item" -> Aliased("item", "", t)
      [] t.n = "by" -> Node("by", IF Has(t, "desc") THEN "DESC" ELSE "ASC", TidyAll(Except_(t, "desc")))
      [] t.n \in {"limit", "offset"} -> Leaf(t.n, t.kids[1].v)
      [] OTHER -> Node(t.n, t.v, TidyAll(t.kids))
CutComment(toks) ==
    LET i == SelectInSeq([k \in DOMAIN toks |-> k], LAMBDA k : k < Len(toks) /\ toks[k].t = "-u" /\ toks[k + 1].t = "-u")
    IN  IF i = 0 THEN toks ELSE SubSeq(toks, 1, i - 1)
Read_(rule, toks) ==
    LET r == Run([rules |-> ReadRules, idents |-> {}, infix |-> ReadInfix], rule, CutComment(toks))
    IN  IF r.ok /\ r.rest = << >> THEN Tidy(r.out[1]) ELSE Error

-----------------------------------------------------------------------------
(* DataFusion's value of an expression over a row of numbers, written or   *)
(* converted; truth is 1, 0 or NULL.                                       *)

Null == -999
NumberOf == [v \in {"0", "1", "2", "3", "127", "128", "300", "2.5", "1.0"} |->
                CASE v = "0" -> 0 [] v \in {"1", "1.0"} -> 1 [] v \in {"2", "2.5"} -> 2 [] v = "3" -> 3
                  [] v = "127" -> 127 [] v = "128" -> 128 [] OTHER -> 300]
Truth(b) == IF b THEN 1 ELSE 0
And_(a, b) == IF a = 0 \/ b = 0 THEN 0 ELSE IF a = Null \/ b = Null THEN Null ELSE 1
Negated(a) == IF a = Null THEN Null ELSE 1 - a
Strict(a, b, r) == IF a = Null \/ b = Null THEN Null ELSE r
Infix(op, a, b) ==
    CASE op = "AND" -> And_(a, b)
      [] op = "OR" -> Negated(And_(Negated(a), Negated(b)))
      [] op = "+" -> Strict(a, b, a + b)
      [] op = "-" -> Strict(a, b, a - b)
      [] op = "*" -> Strict(a, b, a * b)
      [] op = "=" -> Strict(a, b, Truth(a = b))
      [] op = "<>" -> Strict(a, b, Truth(a # b))
      [] op = "<" -> Strict(a, b, Truth(a < b))
      [] op = "<=" -> Strict(a, b, Truth(a <= b))
      [] op = ">" -> Strict(a, b, Truth(a > b))
      [] OTHER -> Strict(a, b, Truth(a >= b))
RECURSIVE Value(_, _, _)
Value(e, cols, row) ==
    LET V(i) == Value(e.kids[i], cols, row)
        Sign(x) == IF e.v = "NOT" THEN Negated(x) ELSE x
        Among(is) == Negated(FoldLeft(LAMBDA acc, i : And_(acc, Negated(Infix("=", V(1), V(i)))), 1, is))
        Column(c) == row[CHOOSE i \in DOMAIN cols : cols[i].name = c]
        arm == SelectInSeq(e.kids, LAMBDA k : k.n = "else" \/ (k.n = "when" /\ Value(k.kids[1], cols, row) = 1))
    IN  CASE e.n \in {"num", "int", "float"} -> NumberOf[e.v]
          [] e.n = "null" -> Null
          [] e.n \in {"id", "col"} -> Column(e.v)
          [] e.n = "path" -> Column(e.kids[2].v)
          [] e.n = "bin" -> Infix(e.v, V(1), V(2))
          [] e.n = "not" -> Negated(V(1))
          [] e.n = "neg" -> IF V(1) = Null THEN Null ELSE -V(1)
          [] e.n \in {"nested", "plus"} -> V(1)
          [] e.n = "isnull" -> Sign(Truth(V(1) = Null))
          [] e.n = "in" -> Sign(Among([i \in 1..(Len(e.kids) - 1) |-> i + 1]))
          [] e.n = "between" -> Sign(And_(Infix(">=", V(1), V(2)), Infix("<=", V(1), V(3))))
          [] e.n = "case" -> IF arm = 0 THEN Null
                             ELSE LET k == e.kids[arm] IN Value(k.kids[Len(k.kids)], cols, row)

-----------------------------------------------------------------------------
(* The handlers on the rows of a table.  A column is [name, bits]; a       *)
(* statement that fails leaves the rows as they are.                       *)

Rows(ok, rows) == [ok |-> ok, rows |-> rows]
ColumnIndex(cols, c) == SelectInSeq(cols, LAMBDA x : x.name = c)
MinOf(col) == -(2 ^ (col.bits - 1))
MaxOf(col) == 2 ^ (col.bits - 1) - 1
Fits(col, v) == v = Null \/ v \in MinOf(col)..MaxOf(col)

(* One cell of an INSERT: an integer literal is cut to the width of the    *)
(* column, a float saturates, a negated literal out of range becomes the   *)
(* smallest value, and anything but a literal is NULL.                     *)
Wrapped(col, n) == ((n - MinOf(col)) % (2 ^ col.bits)) + MinOf(col)
Saturated(col, n) == IF n > MaxOf(col) THEN MaxOf(col) ELSE n
BuildCell(col, e) ==
    CASE e.n = "int" -> Wrapped(col, NumberOf[e.v])
      [] e.n = "float" -> Saturated(col, NumberOf[e.v])
      [] e.n = "neg" /\ e.kids[1].n = "int" -> LET n == -NumberOf[e.kids[1].v] IN IF n >= MinOf(col) THEN n ELSE MinOf(col)
      [] e.n = "neg" /\ e.kids[1].n = "float" -> -Saturated(col, NumberOf[e.kids[1].v])
      [] OTHER -> Null

(* A column that is not listed gets NULLs; a short row leaves its column   *)
(* with too few cells, which the record batch refuses.                     *)
ColumnCells(stmt, cols, i) ==
    LET at == IF stmt.columns = << >> THEN i ELSE SelectLastInSeq(stmt.columns, LAMBDA c : c = cols[i].name)
        given == SelectSeq(stmt.values, LAMBDA row : at <= Len(row))
    IN  IF at = 0 THEN [r \in DOMAIN stmt.values |-> Null]
        ELSE [r \in DOMAIN given |-> BuildCell(cols[i], given[r][at])]
InsertValues(stmt, cols, rows) ==
    LET arrays == [i \in DOMAIN cols |-> ColumnCells(stmt, cols, i)]
    IN  IF \E i \in DOMAIN cols : Len(arrays[i]) # Len(arrays[1]) THEN Rows(FALSE, rows)
        ELSE Rows(TRUE, rows \o [r \in DOMAIN arrays[1] |-> [i \in DOMAIN cols |-> arrays[i][r]]])
(* The rows the source query gave must have the columns of the table.      *)
InsertSelect(columns, cols, rows, selected) ==
    LET From(i) == IF columns = << >> THEN i ELSE SelectLastInSeq(columns, LAMBDA c : c = cols[i].name)
        Cell(r, i) == IF From(i) \in DOMAIN r /\ Fits(cols[i], r[From(i)]) THEN r[From(i)] ELSE Null
    IN  IF \E r \in DOMAIN selected : Len(selected[r]) < Len(cols) THEN Rows(FALSE, rows)
        ELSE Rows(TRUE, rows \o [r \in DOMAIN selected |-> [i \in DOMAIN cols |-> Cell(selected[r], i)]])

ReadBack(e) == Read_(Expr_, ExprToSql(e))
EvaluateWhere(cols, rows, selection) ==
    LET condition == ReadBack(selection[1])
    IN  [r \in DOMAIN rows |-> selection = << >> \/ Value(condition, cols, rows[r]) = 1]
EvaluateSetExpr(cols, rows, e) == LET read == ReadBack(e) IN [r \in DOMAIN rows |-> Value(read, cols, rows[r])]

(* A literal: every row is rewritten, and the value read from a NULL cell  *)
(* of a row that was not selected is the zero of its slot.                 *)
IsLiteral(e) == e.n \in {"int", "float"}
ParsesFor(col, e) == (e.n = "int" \/ e.v = "1.0") /\ Fits(col, NumberOf[e.v])
UpdateColumnInBatch(cols, rows, i, e, mask) ==
    LET Slot(r) == IF rows[r][i] = Null THEN 0 ELSE rows[r][i]
    IN  IF ~ParsesFor(cols[i], e) THEN Rows(FALSE, rows)
        ELSE Rows(TRUE, [r \in DOMAIN rows |-> [rows[r] EXCEPT ![i] = IF mask[r] THEN NumberOf[e.v] ELSE Slot(r)]])
MergeColumns(cols, rows, i, new, mask) ==
    LET Cast(v) == IF Fits(cols[i], v) THEN v ELSE Null
    IN  [r \in DOMAIN rows |-> IF mask[r] THEN [rows[r] EXCEPT ![i] = Cast(new[r])] ELSE rows[r]]
SetColumn(cols, sofar, clause, mask) ==
    LET i == ColumnIndex(cols, clause.column)
    IN  CASE ~sofar.ok \/ i = 0 -> Rows(FALSE, sofar.rows)
          [] sofar.ok /\ i # 0 /\ IsLiteral(clause.value) -> UpdateColumnInBatch(cols, sofar.rows, i, clause.value, mask)
          [] OTHER -> IF sofar.rows = << >> THEN Rows(FALSE, << >>)
                      ELSE Rows(TRUE, MergeColumns(cols, sofar.rows, i, EvaluateSetExpr(cols, sofar.rows, clause.value), mask))
Update(stmt, cols, rows) ==
    LET mask == EvaluateWhere(cols, rows, stmt.selection)
        after == FoldLeft(LAMBDA acc, c : SetColumn(cols, acc, c, mask), Rows(TRUE, rows), stmt.sets)
    IN  IF after.ok THEN after ELSE Rows(FALSE, rows)

(* lexsort_to_indices by one column; an order by anything but a column     *)
(* sorts by the first one.                                                 *)
Precedes(cols, rows, by, r, s) ==
    LET c == IF by.kids[1].n = "col" /\ ColumnIndex(cols, by.kids[1].v) # 0 THEN ColumnIndex(cols, by.kids[1].v) ELSE 1
        x == rows[r][c]
        y == rows[s][c]
    IN  CASE x = y -> r < s
          [] x # y /\ x = Null -> Has(by, "nullsfirst")
          [] x # y /\ x # Null /\ y = Null -> ~Has(by, "nullsfirst")
          [] OTHER -> IF by.v = "DESC" THEN x > y ELSE x < y
DeleteInStorageOrder(stmt, cols, rows) ==      \* mutation: a limit counts the rows as they are stored
    LET mask == EvaluateWhere(cols, rows, stmt.selection)
        matched == {r \in DOMAIN rows : mask[r]}
        gone == {r \in matched : stmt.limit = << >> \/ Cardinality({s \in matched : s < r}) < NumberOf[stmt.limit[1].v]}
        kept == SelectSeq([r \in DOMAIN rows |-> r], LAMBDA r : r \notin gone)
    IN  Rows(TRUE, [i \in DOMAIN kept |-> rows[kept[i]]])
Delete(stmt, cols, rows) ==
    LET mask == EvaluateWhere(cols, rows, stmt.selection)
        matched == {r \in DOMAIN rows : mask[r]}
        Before(r) == {s \in matched : IF stmt.order = << >> THEN s < r ELSE Precedes(cols, rows, stmt.order[1], s, r)}
        gone == {r \in matched : stmt.limit = << >> \/ Cardinality(Before(r)) < NumberOf[stmt.limit[1].v]}
        kept == SelectSeq([r \in DOMAIN rows |-> r], LAMBDA r : r \notin gone)
    IN  IF stmt.selection = << >> THEN Rows(TRUE, << >>) ELSE Rows(TRUE, [i \in DOMAIN kept |-> rows[kept[i]]])

-----------------------------------------------------------------------------
(* The statements as convert_statement leaves them.                        *)

ConvertInsert(w) ==
    LET q == IF w.source = << >> THEN Error ELSE ConvertQuery(w.source[1])
    IN  [columns |-> w.columns, values |-> [r \in DOMAIN w.rows |-> ConvertAll(w.rows[r])],
         query |-> IF q.n = "error" THEN << >> ELSE <<q>>]
ConvertUpdate(w) ==
    [sets |-> [i \in DOMAIN w.sets |-> [column |-> w.sets[i].column, value |-> ConvertExpr(w.sets[i].value)]],
     selection |-> ConvertAll(w.where)]
ConvertDelete(w) ==
    [selection |-> ConvertAll(w.where), order |-> [i \in DOMAIN w.order |-> OrderItem(w.order[i])],
     limit |-> IF w.limit # << >> /\ w.limit[1].n = "num" THEN <<Leaf("limit", w.limit[1].v)>> ELSE << >>]

-----------------------------------------------------------------------------
(* What is expected.  Printing and reading back gives the same tree.       *)

ExprSurvives(w) == LET e == ConvertExpr(w) IN e # Error /\ ReadBack(e) = e
QuerySurvives(w) == LET q == ConvertQuery(w) IN q # Error /\ Read_(Nt("query"), QueryStmtToSql(q)) = q

(* INSERT: the new rows hold the written values under their columns.       *)
InsertMeans(w, cols, rows) ==
    LET At(c) == IF w.columns = << >> THEN ColumnIndex(cols, c) ELSE SelectInSeq(w.columns, LAMBDA x : x = c)
        Cell(r, i) == IF At(cols[i].name) = 0 THEN Null ELSE Value(w.rows[r][At(cols[i].name)], << >>, << >>)
    IN  rows \o [r \in DOMAIN w.rows |-> [i \in DOMAIN cols |-> Cell(r, i)]]
InsertSelectMeans(w, cols, rows, selected) ==
    LET names == IF w.columns = << >> THEN [i \in DOMAIN cols |-> cols[i].name] ELSE w.columns
    IN  rows \o [r \in DOMAIN selected |-> [i \in DOMAIN cols |-> selected[r][CHOOSE j \in DOMAIN names : names[j] = cols[i].name]]]
(* UPDATE: the assignments, left to right, in every row of the condition.  *)
UpdateMeans(w, cols, rows) ==
    LET Assign(row, s) == [row EXCEPT ![ColumnIndex(cols, s.column)] = Value(s.value, cols, row)]
        Selected(row) == w.where = << >> \/ Value(w.where[1], cols, row) = 1
    IN  [r \in DOMAIN rows |-> IF Selected(rows[r]) THEN FoldLeft(Assign, rows[r], w.sets) ELSE rows[r]]
(* DELETE: what stays are the rows outside the condition and, of those     *)
(* within, the ones that a limit leaves after the smallest or greatest.    *)
DeleteMeans(w, cols, rows, kept) ==
    LET Selected(row) == w.where = << >> \/ Value(w.where[1], cols, row) = 1
        inside == SelectSeq(rows, Selected)
        Count(x, S) == Cardinality({i \in DOMAIN S : S[i] = x})
        spared == SelectSeq(kept, Selected)
        dead == Len(inside) - Len(spared)
        Rank(row) == IF w.order = << >> THEN 0
                     ELSE LET v == Value(w.order[1].kids[1], cols, row) IN IF w.order[1].v = "DESC" THEN -v ELSE v
        removed == {i \in DOMAIN rows : Selected(rows[i]) /\ Count(rows[i], rows) > Count(rows[i], kept)}
    IN  /\ SelectSeq(kept, LAMBDA r : ~Selected(r)) = SelectSeq(rows, LAMBDA r : ~Selected(r))
        /\ dead = (IF w.limit # << >> /\ NumberOf[w.limit[1].v] < Len(inside) THEN NumberOf[w.limit[1].v] ELSE Len(inside))
        /\ \A i \in removed, k \in DOMAIN spared : Rank(rows[i]) <= Rank(spared[k])

=============================================================================
