----------------------------- MODULE Sentences -----------------------------
(***************************************************************************)
(* The languages of the parsers from the other side: phrases that carry    *)
(* the tokens they are written with and the tree they mean.  A phrase is   *)
(* [toks, kids, level]; level is how tightly its outermost operator binds. *)
(***************************************************************************)
EXTENDS Integers, Sequences, SequencesExt

Token(t, v) == [t |-> t, v |-> v]
Tree(n, v, kids) == [n |-> n, v |-> v, kids |-> kids]
Bare(toks, kids) == [toks |-> toks, kids |-> kids, level |-> 9]
Nil == Bare(<< >>, << >>)

(* A word that leaves no trace, a name, a literal, pieces in a row, and    *)
(* pieces under a node.                                                    *)
W(t) == Bare(<<Token(t, "")>>, << >>)
Named(v) == Bare(<<Token("#id", v)>>, <<Tree("name", v, << >>)>>)
Word(v) == Bare(<<Token("#id", v)>>, << >>)
Lit(class, n, v) == Bare(<<Token(class, v)>>, <<Tree(n, v, << >>)>>)
Mark(ws, n) == Bare(FlattenSeq([i \in DOMAIN ws |-> ws[i].toks]), <<Tree(n, "", << >>)>>)
Row(parts) ==
    Bare(FlattenSeq([i \in DOMAIN parts |-> parts[i].toks]), FlattenSeq([i \in DOMAIN parts |-> parts[i].kids]))
Under(n, parts) == [Row(parts) EXCEPT !.kids = <<Tree(n, "", Row(parts).kids)>>]
Brackets(p) == Row(<<W("("), p, W(")")>>)
RECURSIVE ListOf(_)
ListOf(ps) == IF Len(ps) = 1 THEN ps[1] ELSE Row(<<ps[1], W(","), ListOf(Tail(ps))>>)

(* Operators: OR 0, AND 1, NOT 2, comparisons 3, + and - 4, * and / 5,     *)
(* signs 6, the rest 9; the left operand may bind as tightly as the        *)
(* operator where it groups to the left.                                   *)
Binding == [op \in {"OR", "AND", "=", "<", "+", "-", "*", "/"} |->
              CASE op = "OR" -> 0 [] op = "AND" -> 1 [] op \in {"=", "<"} -> 3 [] op \in {"+", "-"} -> 4 [] OTHER -> 5]
At(e, level) == IF e.level >= level THEN e ELSE Brackets(e)
Binary(op, l, r) ==
    LET b == Binding[op]
        p == Row(<<At(l, IF b = 3 THEN 4 ELSE b), W(op), At(r, b + 1)>>)
    IN  [toks |-> p.toks, kids |-> <<Tree("bin", op, p.kids)>>, level |-> b]
Tailed(e, ws, n, v, args, level) ==
    LET p == Row(<<At(e, 4)>> \o ws \o <<args>>) IN [toks |-> p.toks, kids |-> <<Tree(n, v, p.kids)>>, level |-> level]
Not(e) == [Under("not", <<W("NOT"), At(e, 3)>>) EXCEPT !.level = 2]
Negative(e) == [Under("negate", <<W("-"), At(e, 9)>>) EXCEPT !.level = 6]

-----------------------------------------------------------------------------
(* T-SQL.  A, X and T are a column, a variable and a table.                *)

A == Under("column", <<Named("A")>>)
TA == Under("column", <<Named("T"), W("."), Named("A")>>)
X == Lit("#var", "var", "X")
I(v) == Lit("#int", "int", v)
S == Lit("#str", "str", "S")
NullWord == Mark(<<W("NULL")>>, "null")
Atoms == {A, X, I("1"), S, NullWord, TA, Lit("#sys", "sys", "ERROR"), Lit("#float", "float", "2.5")}

(* Every operator on atoms, and every operator on those.                   *)
OpsOver(es) ==
    {Binary(op, l, r) : op \in {"OR", "AND", "=", "+", "*", "-"}, l, r \in es} \cup {Not(e) : e \in es} \cup {Negative(e) : e \in es}
TailsOver(es) ==
    {Tailed(e, <<W("IN")>>, "in", "IN", Brackets(ListOf(<<I("1"), X>>)), 3) : e \in es}
    \cup {Tailed(e, <<W("NOT"), W("BETWEEN")>>, "not between", "BETWEEN", Row(<<At(e, 4), W("AND"), At(e, 4)>>), 3) : e \in es}
    \cup {Tailed(e, <<W("LIKE")>>, "like", "LIKE", Row(<<S, Word("ESCAPE"), S>>), 3) : e \in es}
    \cup {Tailed(e, <<W("IS"), W("NULL")>>, "bin", "=", Bare(<< >>, <<Tree("null", "", << >>)>>), 3) : e \in es}
    \cup {LET p == Tailed(e, <<W("IS"), W("NOT"), W("NULL")>>, "bin", "=", Bare(<< >>, <<Tree("null", "", << >>)>>), 3)
          IN  [p EXCEPT !.kids = <<Tree("not", "", p.kids)>>] : e \in es}
Small == OpsOver({A, X}) \cup TailsOver({A})
Expressions == Small \cup OpsOver(Small \cup {A}) \cup TailsOver(Small)

Selects ==
    {Under("select", <<W("SELECT"), d, t, i, o, f, w, g, h, b, u>>) :
        d \in {Nil, Mark(<<W("DISTINCT")>>, "distinct")},
        t \in {Nil, Under("top", <<W("TOP"), I("1")>>),
               Under("top", <<W("TOP"), Brackets(X), Mark(<<W("PERCENT")>>, "percent"), Mark(<<W("WITH"), W("TIES")>>, "ties")>>)},
        i \in {Under("item", <<Mark(<<W("*")>>, "wildcard")>>),
               ListOf(<<Under("item", <<A, W("AS"), Under("alias", <<Named("N")>>)>>), Under("item", <<X, Under("alias", <<Named("M")>>)>>)>>)},
        o \in {Nil}, f \in {Nil, Under("from", <<W("FROM"), Under("table", <<Named("T")>>)>>)},
        w \in {Nil, Under("where", <<W("WHERE"), Binary("=", A, X)>>)},
        g \in {Nil, Under("group", <<W("GROUP"), W("BY"), ListOf(<<A, TA>>)>>)},
        h \in {Nil, Under("having", <<W("HAVING"), A>>)},
        b \in {Nil, Under("order", <<W("ORDER"), W("BY"), ListOf(<<Under("key", <<A, Mark(<<W("DESC")>>, "desc")>>), Under("key", <<X, W("ASC")>>)>>)>>)},
        u \in {Nil, Under("union", <<W("UNION"), Mark(<<W("ALL")>>, "all"), Under("select", <<W("SELECT"), Under("item", <<I("1")>>)>>)>>)}}
SelectA == Under("select", <<W("SELECT"), Under("item", <<A>>)>>)

Table(n) == Under("table", <<Named(n)>>)
On(e) == Under("on", <<W("ON"), e>>)
Froms ==
    {Table("T"), Under("table", <<Named("D"), W("."), Named("O"), W("."), Named("T"), Under("alias", <<Named("X")>>)>>),
     Under("table", <<Named("T"), W("WITH"), Brackets(ListOf(<<Under("hint", <<Named("NOLOCK")>>), Under("hint", <<Named("H"), W("("), Named("I"), W(")")>>)>>))>>),
     Under("inner", <<Under("left", <<Table("T"), W("LEFT"), W("OUTER"), W("JOIN"), Table("U"), On(A)>>), W("JOIN"), Table("V"), On(X)>>),
     Under("cross", <<Under("full", <<Table("T"), W("FULL"), W("JOIN"), Table("U")>>), W("CROSS"), W("JOIN"), Table("V")>>),
     Under("right", <<Table("T"), W("RIGHT"), W("JOIN"), Brackets(Under("inner", <<Table("U"), W("INNER"), W("JOIN"), Table("V")>>)), On(A)>>),
     Under("derived", <<Brackets(SelectA), W("AS"), Named("Q")>>),
     Under("temp", <<Lit("#temp", "name", "P"), Under("alias", <<Named("Q")>>)>>)}
Queries == Selects \cup {Under("select", <<W("SELECT"), Under("item", <<A>>), Under("from", <<W("FROM"), f>>)>>) : f \in Froms}
           \cup {Under("select", <<W("SELECT"), Under("item", <<e>>)>>) :
                   e \in {Under("call", <<Named("F"), W("("), W(")")>>), Under("call", <<Named("F"), Brackets(ListOf(<<A, X>>))>>),
                          Under("cast", <<Word("CAST"), Brackets(Row(<<A, W("AS"), Under("type", <<Named("DECIMAL"), Brackets(ListOf(<<I("9"), I("2")>>))>>)>>))>>),
                          Under("convert", <<Word("CONVERT"), Brackets(ListOf(<<Under("type", <<Named("INT")>>), A, I("1")>>))>>),
                          Under("isnull", <<Word("ISNULL"), Brackets(ListOf(<<A, X>>))>>),
                          Under("coalesce", <<Word("COALESCE"), Brackets(ListOf(<<A, X, S>>))>>),
                          Under("case", <<W("CASE"), Under("when", <<W("WHEN"), A, W("THEN"), X>>), Under("else", <<W("ELSE"), S>>), W("END")>>),
                          Under("case", <<W("CASE"), Under("of", <<A>>), Under("when", <<W("WHEN"), I("1"), W("THEN"), X>>), W("END")>>),
                          Under("exists", <<W("EXISTS"), Brackets(SelectA)>>), Under("subquery", <<Brackets(SelectA)>>),
                          Tailed(A, <<W("IN")>>, "in", "IN", Brackets(SelectA), 3)}}

(* The statements that hold no others.                                     *)
Type(n) == Under("type", <<Named(n)>>)
Sized(n, size) == Under("type", <<Named(n), W("("), size, W(")")>>)
Column(n, ps) == Under("define", <<Named(n)>> \o ps)
Plain ==
    {Under("print", <<W("PRINT"), Binary("+", A, X)>>), Under("use", <<W("USE"), Named("D")>>), Mark(<<W("BREAK")>>, "break"),
     Under("goto", <<W("GOTO"), Named("L")>>), Under("label", <<Lit("#id", "name", "L"), W(":")>>),
     Under("delay", <<W("WAITFOR"), W("DELAY"), S>>), Under("truncate", <<W("TRUNCATE"), W("TABLE"), Named("T")>>),
     Under("insert", <<W("INSERT"), W("INTO"), Named("T"), Under("columns", <<W("("), ListOf(<<Named("A"), Named("B")>>), W(")")>>),
                       W("VALUES"), ListOf(<<Under("row", <<Brackets(ListOf(<<I("1"), X>>))>>), Under("row", <<Brackets(S)>>)>>)>>),
     Under("insert", <<W("INSERT"), Named("T"), SelectA>>), Under("insert", <<W("INSERT"), Named("T"), Mark(<<W("DEFAULT"), W("VALUES")>>, "defaults")>>),
     Under("update", <<W("UPDATE"), Named("T"), W("SET"), ListOf(<<Under("set", <<Named("A"), W("="), Binary("+", A, I("1"))>>), Under("set", <<Named("B"), W("="), X>>)>>),
                       Under("from", <<W("FROM"), Table("U")>>), Under("where", <<W("WHERE"), Binary("=", A, X)>>)>>),
     Under("delete", <<W("DELETE"), W("FROM"), Named("T"), Under("where", <<W("WHERE"), A>>)>>),
     Under("merge", <<W("MERGE"), W("INTO"), Table("T"), W("USING"), Table("U"), W("ON"), Binary("=", A, TA)>>),
     Under("create table", <<W("CREATE"), W("TABLE"), Named("T"),
        Brackets(ListOf(<<Column("A", <<Type("INT"), Mark(<<W("NOT"), W("NULL")>>, "not null"), Under("identity", <<W("IDENTITY"), W("("), I("5"), W(","), I("2"), W(")")>>)>>),
                          Column("B", <<Sized("VARCHAR", Bare(<<Token("#id", "MAX")>>, I("8000").kids)), Under("default", <<W("DEFAULT"), S>>)>>),
                          Under("constraint", <<W("CONSTRAINT"), Named("K"), Under("primary key", <<W("PRIMARY"), W("KEY"), Mark(<<Word("NONCLUSTERED")>>, "nonclustered"), Brackets(Named("A"))>>)>>),
                          Under("constraint", <<Under("foreign key", <<W("FOREIGN"), W("KEY"), Brackets(Named("B")), W("REFERENCES"), Under("references", <<Named("U"), Brackets(Named("C"))>>)>>)>>),
                          Under("constraint", <<Under("check", <<W("CHECK"), Brackets(Binary("<", A, I("1")))>>)>>)>>))>>),
     Under("create view", <<W("CREATE"), W("VIEW"), Named("V"), W("AS"), SelectA>>), Under("create database", <<W("CREATE"), W("DATABASE"), Named("D")>>),
     Under("create index", <<W("CREATE"), Mark(<<W("UNIQUE")>>, "unique"), Mark(<<W("CLUSTERED")>>, "clustered"), W("INDEX"), Named("I"), W("ON"), Named("T"),
                             Brackets(ListOf(<<Under("key", <<Named("A"), Mark(<<W("DESC")>>, "desc")>>), Under("key", <<Named("B")>>)>>))>>),
     Under("alter table", <<W("ALTER"), W("TABLE"), Named("T"), W("ADD"), Column("C", <<Sized("FLOAT", I("8"))>>)>>),
     Under("alter table", <<W("ALTER"), W("TABLE"), Named("T"), Under("drop column", <<W("DROP"), W("COLUMN"), Named("C")>>)>>),
     Under("drop table", <<W("DROP"), W("TABLE"), Named("T")>>), Under("drop index", <<W("DROP"), W("INDEX"), Named("I"), W("ON"), Named("T")>>),
     Under("drop procedure", <<W("DROP"), W("PROC"), Named("P")>>), Under("create temp", <<Lit("#temp", "name", "P"), Brackets(Column("A", <<Type("INT")>>))>>),
     Under("declare", <<W("DECLARE"), ListOf(<<Under("variable", <<X, Type("INT"), W("="), I("1")>>), Under("variable", <<Lit("#var", "var", "Y"), Type("BIT")>>)>>)>>),
     Under("declare cursor", <<W("DECLARE"), Named("C"), W("CURSOR"), Bare(<<Token("SCROLL", "")>>, <<Tree("scroll type", "SCROLL", << >>)>>), W("FOR"), SelectA>>),
     Under("set variables", <<W("SET"), ListOf(<<Bare(<<Token("#var", "X"), Token("=", ""), Token("#int", "1")>>, <<Tree("assign", "=", X.kids \o I("1").kids)>>),
                                                 Bare(<<Token("#var", "X"), Token("+=", ""), Token("#int", "2")>>, <<Tree("compound", "+=", X.kids \o I("2").kids)>>)>>)>>),
     Under("set option", <<W("SET"), Named("XACT_ABORT"), Named("OFF")>>),
     Under("open", <<W("OPEN"), Named("C")>>), Under("close", <<W("CLOSE"), Named("C")>>), Under("deallocate", <<W("DEALLOCATE"), Named("C")>>),
     Under("fetch", <<W("FETCH"), Bare(<<Token("PRIOR", "")>>, <<Tree("way", "PRIOR", << >>)>>), W("FROM"), Named("C"), W("INTO"), ListOf(<<X, Lit("#var", "var", "Y")>>)>>),
     Under("fetch", <<W("FETCH"), Bare(<<Token("ABSOLUTE", "")>>, <<Tree("way", "ABSOLUTE", << >>)>>), I("3"), W("FROM"), Named("C")>>),
     Under("begin tran", <<W("BEGIN"), W("TRAN"), Lit("#id", "name", "N")>>), Under("commit", <<W("COMMIT"), W("TRANSACTION")>>),
     Under("rollback", <<W("ROLLBACK"), W("TRAN"), Lit("#var", "name", "X")>>), Under("save", <<W("SAVE"), W("TRAN"), Named("N")>>),
     Under("throw", <<W("THROW"), I("9"), W(","), S, W(","), I("1")>>),
     Under("raiserror", <<W("RAISERROR"), Brackets(ListOf(<<S, I("16"), I("1")>>)), Mark(<<W("WITH"), Word("LOG")>>, "log")>>),
     Under("system", <<Named("SP_COLUMNS"), Named("T")>>), Under("system", <<Named("SP_TABLES")>>)}

(* Statements that take what follows them for an argument end with a       *)
(* semicolon.                                                              *)
Stop == W(";")
Greedy ==
    {Row(<<Under("execute", <<W("EXEC"), Under("status", <<X>>), W("="), Named("P"),
              ListOf(<<Under("positional", <<I("1")>>), Under("named", <<Lit("#var", "var", "Y"), W("="), X, Mark(<<W("OUTPUT")>>, "output")>>)>>)>>), Stop>>),
     Row(<<Under("execute", <<Named("P"), ListOf(<<Under("positional", <<I("1")>>), Under("positional", <<A>>)>>)>>), Stop>>),
     Row(<<Under("pass", <<Bare(<<Token("#id", "Q")>>, <<Tree("#id", "Q", << >>)>>)>>), Stop>>),
     Row(<<Under("return", <<W("RETURN"), X>>), Stop>>), Row(<<Under("return", <<W("RETURN")>>), Stop>>), Row(<<Under("throw", <<W("THROW")>>), Stop>>),
     Row(<<Under("system", <<Named("SP_HELP"), Named("T")>>), Stop>>)}

(* Statements around statements, nested twice.  A block that is a body is  *)
(* the body, and an ELSE belongs to the nearest IF that has none.          *)
Body(ps) ==
    LET kids == Row(ps).kids
    IN  Bare(Row(ps).toks, <<Tree("body", "", IF Len(kids) = 1 /\ kids[1].n = "block" THEN kids[1].kids ELSE kids)>>)
OpenIf(p) == p.kids[1].n = "if" /\ Len(p.kids[1].kids) = 2
Block(ps) == Row(<<W("BEGIN")>> \o ps \o <<W("END")>>)
Around(one, two) ==
    {Under("if", <<W("IF"), A, Body(<<s>>), W("ELSE"), Body(<<t>>)>>) : s \in {o \in one : ~OpenIf(o)}, t \in two}
    \cup {Under("if", <<W("IF"), A, Body(<<Block(<<s, t>>)>>)>>) : s \in one, t \in two}
    \cup {Under("while", <<W("WHILE"), Binary("<", A, X), Body(<<Block(<<s, Stop, t>>)>>)>>) : s \in one, t \in two}
    \cup {Under("block", <<Block(<<s, t>>)>>) : s \in one, t \in two}
    \cup {Under("try", <<W("BEGIN"), W("TRY"), Body(<<s, t>>), W("END"), W("TRY"), W("BEGIN"), W("CATCH"), Body(<<t>>), W("END"), W("CATCH")>>) : s \in one, t \in two}
PrintX == Under("print", <<W("PRINT"), X>>)
Few == {PrintX, Under("use", <<W("USE"), Named("D")>>)}
Compounds == Around(Few, Few) \cup Around(Few, Around(Few, {PrintX})) \cup Around(Around(Few, {PrintX}), Few)
Procedures ==
    {Under("create procedure", <<W("CREATE"), W("PROC"), Named("P"), ListOf(<<Under("param", <<X, Type("INT"), Mark(<<W("OUTPUT")>>, "output")>>), Under("param", <<Lit("#var", "var", "Y"), Type("BIT"), W("="), Under("default", <<I("1")>>)>>)>>),
                                 W("WITH"), Mark(<<W("RECOMPILE")>>, "recompile"), W("AS"), Body(<<s, c>>)>>) : s \in {PrintX}, c \in Around(Few, {PrintX})}
Assignment(first) == Under("select vars", <<first, Under("assign", <<X, W("="), I("1")>>), Under("from", <<W("FROM"), Table("T")>>)>>)

TsqlPrograms ==
    {<<s, Stop, t>> : s \in Plain \cup Few, t \in Plain} \cup {<<s, PrintX>> : s \in Plain \cup Greedy \cup Queries \cup Compounds}
    \cup {<<PrintX, s>> : s \in Queries \cup Compounds \cup Procedures} \cup {<<Under("print", <<W("PRINT"), e>>)>> : e \in Expressions}
    \cup {<<Assignment(W("SELECT")), PrintX>>, <<PrintX, Stop, Assignment(Nil)>>}

=============================================================================
