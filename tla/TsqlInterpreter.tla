-------------------------- MODULE TsqlInterpreter --------------------------
(***************************************************************************)
(* The T-SQL interpreter (tsql-executor): interpreter.rs with the          *)
(* variables, cursors, transaction counts and session databases it works   *)
(* on.  A statement is a record with its kind in `k', a literal is         *)
(* [t, v], and running a program gives the result and the context after    *)
(* it.  WHILE loops are cut off after LoopBound rounds, since nothing in   *)
(* the code ends one whose condition stays true.                           *)
(***************************************************************************)
EXTENDS Integers, Sequences, FiniteSets, Text, LikeMatch

CONSTANTS LoopBound

NullLit == [t |-> "null", v |-> << >>]
IntLit(n) == [t |-> "int", v |-> <<n>>]
BitLit(b) == [t |-> "bit", v |-> <<IF b THEN 1 ELSE 0>>]
StrLit(s) == [t |-> "string", v |-> s]

(* literal_to_string: NULL is the text NULL.                               *)
LitText(l) == IF l.t = "null" THEN <<"N", "U", "L", "L">>
              ELSE IF l.t = "string" THEN l.v ELSE IntText(l.v[1])

Value(l) == [ok |-> TRUE, lit |-> l]
Failure == [ok |-> FALSE, lit |-> NullLit]

(* eval_binary_op: anything it does not list is NULL, a division by zero   *)
(* and every operator on values of two types included.                     *)
BinaryOp(l, op, r) ==
    CASE l.t = "int" /\ r.t = "int" ->
           (CASE op = "+" -> IntLit(l.v[1] + r.v[1])
              [] op = "-" -> IntLit(l.v[1] - r.v[1])
              [] op = "*" -> IntLit(l.v[1] * r.v[1])
              [] op = "/" /\ r.v[1] # 0 -> IntLit((IF (l.v[1] < 0) = (r.v[1] < 0) THEN 1 ELSE -1)
                     * ((IF l.v[1] < 0 THEN -l.v[1] ELSE l.v[1]) \div (IF r.v[1] < 0 THEN -r.v[1] ELSE r.v[1])))
              [] op = "=" -> BitLit(l.v = r.v)
              [] op = "<>" -> BitLit(l.v # r.v)
              [] op = "<" -> BitLit(l.v[1] < r.v[1])
              [] op = ">" -> BitLit(l.v[1] > r.v[1])
              [] OTHER -> NullLit)
      [] l.t = "string" /\ r.t = "string" /\ op = "+" -> StrLit(l.v \o r.v)
      [] l.t = "string" /\ r.t = "string" /\ op = "=" -> BitLit(l.v = r.v)
      [] OTHER -> NullLit

(* system_variable: the ones that change.                                  *)
SystemVariable(ctx, name) ==
    CASE name = "error" -> IntLit(ctx.error)
      [] name = "fetch_status" -> IntLit(ctx.fetch)
      [] name = "trancount" -> IntLit(ctx.tran.count)
      [] OTHER -> NullLit

(* eval_to_literal and eval_builtin_function; only a variable that is not  *)
(* declared fails.                                                         *)
RECURSIVE Eval(_, _), EvalFirst(_, _)
EvalFirst(ctx, es) ==
    IF es = << >> THEN Value(NullLit)
    ELSE LET r == Eval(ctx, Head(es))
         IN  IF ~r.ok \/ r.lit # NullLit THEN r ELSE EvalFirst(ctx, Tail(es))
Eval(ctx, e) ==
    CASE e.k = "lit" -> Value(e.lit)
      [] e.k = "var" -> IF e.name \in DOMAIN ctx.vars THEN Value(ctx.vars[e.name]) ELSE Failure
      [] e.k = "sys" -> Value(SystemVariable(ctx, e.name))
      [] e.k = "bin" -> LET l == Eval(ctx, e.l)
                            r == Eval(ctx, e.r)
                        IN  IF ~l.ok THEN l ELSE IF ~r.ok THEN r ELSE Value(BinaryOp(l.lit, e.op, r.lit))
      [] e.k = "neg" -> LET r == Eval(ctx, e.l)
                        IN  IF r.ok /\ r.lit.t = "int" THEN Value(IntLit(-r.lit.v[1])) ELSE r
      [] e.k = "coalesce" -> EvalFirst(ctx, e.es)          \* ISNULL(a, b) too
      [] e.k = "nullif" -> LET l == Eval(ctx, e.l)
                               r == Eval(ctx, e.r)
                           IN  IF ~l.ok THEN l ELSE IF ~r.ok THEN r
                               ELSE Value(IF LitText(l.lit) = LitText(r.lit) THEN NullLit ELSE l.lit)
      [] e.k = "len" -> LET r == Eval(ctx, e.l) IN IF r.ok THEN Value(IntLit(Len(LitText(r.lit)))) ELSE r
      [] e.k = "error_message" -> Value(StrLit(ctx.caught))
      [] e.k = "db_name" -> Value(StrLit(ctx.db))
      [] OTHER -> Value(NullLit)

(* eval_expr_to_int.                                                       *)
AsInt(l) ==
    CASE l.t \in {"int", "bit"} -> l.v[1]
      [] l.t = "string" -> IF IsInt(l.v) THEN ParseInt(l.v) ELSE 0
      [] OTHER -> 0

(* eval_condition: a comparison with NULL is false, = and <> compare the   *)
(* texts and the others the integers; a negated LIKE, IN or BETWEEN with   *)
(* NULL is true.                                                           *)
Compare(op, l, r) ==
    /\ l # NullLit /\ r # NullLit
    /\ CASE op = "="  -> LitText(l) = LitText(r)
         [] op = "<>" -> LitText(l) # LitText(r)
         [] op = "<"  -> AsInt(l) < AsInt(r)
         [] op = ">"  -> AsInt(l) > AsInt(r)
         [] op = "<=" -> AsInt(l) <= AsInt(r)
         [] op = ">=" -> AsInt(l) >= AsInt(r)

Between(v, lo, hi) ==
    IF IsInt(v) /\ IsInt(lo) /\ IsInt(hi)
    THEN ParseInt(lo) <= ParseInt(v) /\ ParseInt(v) <= ParseInt(hi)
    ELSE ~TextLess(Lower(v), Lower(lo)) /\ ~TextLess(Lower(hi), Lower(v))

Holds(b) == [ok |-> TRUE, b |-> b]
Broken == [ok |-> FALSE, b |-> FALSE]
Comparisons == {"=", "<>", "<", ">", "<=", ">="}
RECURSIVE Condition(_, _)
Condition(ctx, e) ==
    CASE e.k = "bin" /\ e.op \in Comparisons ->
           LET l == Eval(ctx, e.l)
               r == Eval(ctx, e.r)
           IN  IF l.ok /\ r.ok THEN Holds(Compare(e.op, l.lit, r.lit)) ELSE Broken
      [] e.k = "bin" /\ e.op = "and" ->
           LET l == Condition(ctx, e.l) IN IF l.ok /\ l.b THEN Condition(ctx, e.r) ELSE l
      [] e.k = "bin" /\ e.op = "or" ->
           LET l == Condition(ctx, e.l) IN IF l.ok /\ ~l.b THEN Condition(ctx, e.r) ELSE l
      [] e.k = "not" -> LET r == Condition(ctx, e.l) IN IF r.ok THEN Holds(~r.b) ELSE r
      [] e.k = "like" ->
           LET v == Eval(ctx, e.l)
               p == Eval(ctx, e.es[1])
           IN  IF ~v.ok THEN Broken
               ELSE IF v.lit = NullLit THEN Holds(e.negated)
               ELSE IF ~p.ok THEN Broken
               ELSE Holds(e.negated # TsqlLike(LitText(v.lit), LitText(p.lit), e.escape))
      [] e.k = "in" ->
           LET v == Eval(ctx, e.l)
               items == [i \in DOMAIN e.es |-> Eval(ctx, e.es[i])]
               hit == SelectInSeq(items, LAMBDA x : ~x.ok \/ LitText(x.lit) = LitText(v.lit))
           IN  IF ~v.ok THEN Broken
               ELSE IF v.lit = NullLit THEN Holds(e.negated)
               ELSE IF hit # 0 /\ ~items[hit].ok THEN Broken
               ELSE Holds(e.negated # (hit # 0))
      [] e.k = "between" ->
           LET v == Eval(ctx, e.l)
               lo == Eval(ctx, e.es[1])
               hi == Eval(ctx, e.es[2])
           IN  IF ~(v.ok /\ lo.ok /\ hi.ok) THEN Broken
               ELSE IF NullLit \in {v.lit, lo.lit, hi.lit} THEN Holds(e.negated)
               ELSE Holds(e.negated # Between(LitText(v.lit), LitText(lo.lit), LitText(hi.lit)))
      [] OTHER -> LET r == Eval(ctx, e) IN Holds(r.ok /\ AsInt(r.lit) # 0)

-----------------------------------------------------------------------------
(* The cursor store (cursor_engine.rs).  A position may leave the rows by  *)
(* any distance; OPEN in the interpreter gives a cursor no rows.           *)
NoCursor == [status |-> "none", pos |-> -1, rows |-> << >>]
DeclareCursor == [status |-> "declared", pos |-> -1, rows |-> << >>]
OpenCursor(rows) == [status |-> "open", pos |-> -1, rows |-> rows]
FetchPosition(cur, how, n) ==
    CASE how = "next" -> cur.pos + 1
      [] how = "prior" -> cur.pos - 1
      [] how = "first" -> 0
      [] how = "last" -> Len(cur.rows) - 1
      [] how = "absolute" -> n
      [] how = "relative" -> cur.pos + n
Fetch(cur, how, n) ==
    LET pos == FetchPosition(cur, how, n)
        inside == pos >= 0 /\ pos < Len(cur.rows)
    IN  [cur |-> [cur EXCEPT !.pos = pos], status |-> IF inside THEN 0 ELSE -1,
         row |-> IF inside THEN cur.rows[pos + 1] ELSE << >>]

(* The transaction counts (transaction.rs).                                *)
Begin(tran) == [tran EXCEPT !.count = @ + 1]
Commit(tran) == IF tran.count <= 1 THEN [count |-> 0, saves |-> << >>] ELSE [tran EXCEPT !.count = @ - 1]
Rollback(tran) == [count |-> 0, saves |-> << >>]
Save(tran, name) == [tran EXCEPT !.saves = Append(@, name)]

(* A context as get_or_create_context makes one for a batch: the database  *)
(* of the session, the shared transaction counts and procedures, and       *)
(* nothing else of the batch before.                                       *)
NoVars == [x \in {} |-> NullLit]
Context(db, tran, procs) ==
    [db |-> db, tran |-> tran, procs |-> procs, vars |-> NoVars, cursors |-> [x \in {} |-> NoCursor],
     error |-> 0, fetch |-> -9, caught |-> << >>, messages |-> << >>]

-----------------------------------------------------------------------------
(* exec_statement on the statements without a body.                        *)
Done(out, v, ctx) == [out |-> out, v |-> v, ctx |-> ctx]
Ok(ctx) == Done("ok", 0, ctx)
Raise(ctx, msg) == Done("error", msg, ctx)
Undeclared == <<"u", "n">>
Put(f, x, v) == [y \in DOMAIN f \cup {x} |-> IF y = x THEN v ELSE f[y]]
CursorStep(ctx, name, new) ==
    IF name \in DOMAIN ctx.cursors THEN Ok([ctx EXCEPT !.cursors[name] = new]) ELSE Raise(ctx, Undeclared)

(* EXECUTE: a stored procedure's body was not kept, so it answers with the *)
(* return status 0; system procedures answer with rows, and those the      *)
(* interpreter does not know with nothing.                                 *)
ExecuteProcedure(ctx, s) ==
    LET args == [i \in DOMAIN s.es |-> Eval(ctx, s.es[i])] IN
    IF s.name \in ctx.procs
    THEN IF \A i \in DOMAIN args : args[i].ok THEN Done("return", 0, ctx) ELSE Raise(ctx, Undeclared)
    ELSE IF s.name \in {"sp_help", "sp_who"} THEN Done("rows", 0, ctx)
    ELSE Raise(ctx, Undeclared)

ExecSimple(ctx, s) ==
    LET r == Eval(ctx, s.e) IN
    CASE s.k = "select" -> IF r.ok THEN Done("rows", 0, ctx) ELSE Raise(ctx, Undeclared)
      [] s.k = "return" -> IF r.ok THEN Done("return", AsInt(r.lit), ctx) ELSE Raise(ctx, Undeclared)
      [] s.k = "declare" -> IF r.ok THEN Ok([ctx EXCEPT !.vars = Put(@, s.name, r.lit)]) ELSE Raise(ctx, Undeclared)
      [] s.k = "set" -> IF r.ok /\ s.name \in DOMAIN ctx.vars
                        THEN Ok([ctx EXCEPT !.vars[s.name] = r.lit]) ELSE Raise(ctx, Undeclared)
      [] s.k = "print" -> IF r.ok THEN Done("message", 0, [ctx EXCEPT !.messages = Append(@, LitText(r.lit))])
                          ELSE Raise(ctx, Undeclared)
      [] s.k = "raise" -> Raise(ctx, IF r.ok THEN LitText(r.lit) ELSE Undeclared)
      [] s.k = "create_proc" -> Ok([ctx EXCEPT !.procs = @ \cup {s.name}])
      [] s.k = "drop_proc" -> Ok([ctx EXCEPT !.procs = @ \ {s.name}])
      [] s.k = "exec" -> ExecuteProcedure(ctx, s)
      [] s.k = "declare_cursor" -> IF s.name \in DOMAIN ctx.cursors THEN Raise(ctx, Undeclared)
                                   ELSE Ok([ctx EXCEPT !.cursors = Put(@, s.name, DeclareCursor)])
      [] s.k = "open" -> CursorStep(ctx, s.name, OpenCursor(<< >>))
      [] s.k = "fetch" -> IF s.name \notin DOMAIN ctx.cursors \/ ctx.cursors[s.name].status # "open"
                          THEN Raise([ctx EXCEPT !.fetch = -1], Undeclared)
                          ELSE LET f == Fetch(ctx.cursors[s.name], "next", 0)
                               IN  Ok([ctx EXCEPT !.fetch = f.status, !.cursors[s.name] = f.cur])
      [] s.k = "close" -> CursorStep(ctx, s.name, [status |-> "closed", pos |-> -1, rows |-> << >>])
      [] s.k = "deallocate" -> IF s.name \notin DOMAIN ctx.cursors THEN Raise(ctx, Undeclared)
                               ELSE Ok([ctx EXCEPT !.cursors = [c \in DOMAIN @ \ {s.name} |-> @[c]]])
      [] s.k = "begin_tran" -> Ok([ctx EXCEPT !.tran = Begin(@)])
      [] s.k = "commit" -> Ok([ctx EXCEPT !.tran = Commit(@)])
      [] s.k = "rollback" -> Ok([ctx EXCEPT !.tran = Rollback(@)])
      [] s.k = "save" -> Ok([ctx EXCEPT !.tran = Save(@, s.name)])
      [] s.k = "use" -> Ok([ctx EXCEPT !.db = s.db])
      [] OTHER -> Ok(ctx)         \* BREAK, CONTINUE, the options, DML and DDL

Compound == {"block", "if", "while", "try"}

(* execute_batch and exec_statement on the ones with a body.               *)
RECURSIVE Batch(_, _, _), Exec(_, _), Loop(_, _, _)
Batch(ctx, stmts, last) ==
    IF stmts = << >> THEN [last EXCEPT !.ctx = ctx]
    ELSE LET r == Exec(ctx, Head(stmts))
         IN  IF r.out \in {"return", "error", "endless"} THEN r ELSE Batch(r.ctx, Tail(stmts), r)
Loop(ctx, s, rounds) ==
    LET c == Condition(ctx, s.e) IN
    IF ~c.ok THEN Raise(ctx, Undeclared)
    ELSE IF ~c.b THEN Ok(ctx)
    ELSE IF rounds = 0 THEN Done("endless", 0, ctx)
    ELSE LET r == Batch(ctx, s.body, Ok(ctx))
         IN  IF r.out = "return" THEN Done("return", 0, r.ctx)
             ELSE IF r.out \in {"error", "endless"} THEN r ELSE Loop(r.ctx, s, rounds - 1)

CatchContext(ctx, msg) == [ctx EXCEPT !.error = 1, !.caught = msg]
CatchKeepsError(r) == r                        \* mutation: @@ERROR is not cleared after the CATCH
CatchDone(r) == IF r.out \in {"error", "endless"} THEN r ELSE [r EXCEPT !.ctx.error = 0]
ExecTry(ctx, s) ==
    LET r == Batch(ctx, s.body, Ok(ctx)) IN
    IF r.out # "error" THEN r
    ELSE LET caught == CatchContext(r.ctx, r.v) IN CatchDone(Batch(caught, s.other, Ok(caught)))

Exec(ctx, s) ==
    CASE s.k = "block" -> Batch(ctx, s.body, Ok(ctx))
      [] s.k = "if" -> LET c == Condition(ctx, s.e)
                       IN  IF c.ok THEN Batch(ctx, IF c.b THEN s.body ELSE s.other, Ok(ctx)) ELSE Raise(ctx, Undeclared)
      [] s.k = "while" -> Loop(ctx, s, LoopBound)
      [] s.k = "try" -> ExecTry(ctx, s)
      [] OTHER -> ExecSimple(ctx, s)

(* handle_query: batches one after another; the database a batch ends with *)
(* is kept, an error of a batch only logged, and the last rows answered.   *)
RECURSIVE HandleQuery(_, _)
HandleQuery(ctx, batches) ==
    IF batches = << >> THEN ctx
    ELSE LET r == Batch(ctx, Head(batches), Ok(ctx))
         IN  HandleQuery(Context(r.ctx.db, r.ctx.tran, r.ctx.procs), Tail(batches))

-----------------------------------------------------------------------------
(* The reference: the program as a list of things to do, with marks where  *)
(* a TRY, a CATCH and a round of a loop end.                               *)
Mark(k, s) == [k |-> k, stmt |-> s]
RECURSIVE Machine(_, _, _, _)
Machine(ctx, todo, last, rounds) ==
    IF todo = << >> THEN [last EXCEPT !.ctx = ctx]
    ELSE
    LET item == Head(todo)
        rest == Tail(todo)
        s == item.stmt
        do(stmts) == [i \in DOMAIN stmts |-> Mark("do", stmts[i])]
        c == Condition(ctx, s.e)
        after(i) == SubSeq(rest, i + 1, Len(rest))
        handler == SelectInSeq(rest, LAMBDA m : m.k = "endtry")
        \* an error goes to the nearest TRY, a RETURN leaves everything
        thrown(ctx2, msg) ==
            IF handler = 0 THEN Raise(ctx2, msg)
            ELSE LET in == CatchContext(ctx2, msg)
                 IN  Machine(in, do(rest[handler].stmt.other) \o <<Mark("endcatch", s)>> \o after(handler), Ok(in), rounds)
        left(ctx2, v) ==
            Done("return", IF \E i \in DOMAIN rest : rest[i].k = "loop" THEN 0 ELSE v,
                 IF \E i \in DOMAIN rest : rest[i].k = "endcatch" THEN [ctx2 EXCEPT !.error = 0] ELSE ctx2)
    IN CASE item.k = "endtry" -> Machine(ctx, rest, last, rounds)
         [] item.k = "endcatch" -> Machine([ctx EXCEPT !.error = 0], rest, last, rounds)
         [] item.k = "loop" \/ s.k = "while" ->
              IF ~c.ok THEN thrown(ctx, Undeclared)
              ELSE IF ~c.b THEN Machine(ctx, rest, Ok(ctx), rounds)
              ELSE IF rounds = 0 THEN Done("endless", 0, ctx)
              ELSE Machine(ctx, do(s.body) \o <<Mark("loop", s)>> \o rest, Ok(ctx), rounds - 1)
         [] s.k = "block" -> Machine(ctx, do(s.body) \o rest, Ok(ctx), rounds)
         [] s.k = "if" -> IF c.ok THEN Machine(ctx, do(IF c.b THEN s.body ELSE s.other) \o rest, Ok(ctx), rounds)
                          ELSE thrown(ctx, Undeclared)
         [] s.k = "try" -> Machine(ctx, do(s.body) \o <<Mark("endtry", s)>> \o rest, Ok(ctx), rounds)
         [] OTHER -> LET r == ExecSimple(ctx, s)
                     IN  IF r.out = "error" THEN thrown(r.ctx, r.v)
                         ELSE IF r.out = "return" THEN left(r.ctx, r.v)
                         ELSE Machine(r.ctx, rest, r, rounds)

=============================================================================
