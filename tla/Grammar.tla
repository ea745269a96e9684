------------------------------ MODULE Grammar ------------------------------
(***************************************************************************)
(* Recursive descent as the parsers of the repository do it: a function    *)
(* that looks at the next token, takes it or fails, and never goes back.   *)
(* A rule says what one such function does; Run runs it on a token list.   *)
(*                                                                         *)
(* A token is [t, v]: its class, which for a keyword or a sign is its      *)
(* text, and its value.  A rule puts out a list of nodes [n, v, kids].     *)
(***************************************************************************)
EXTENDS Integers, Sequences, SequencesExt

Kw(t) == [t |-> t, v |-> ""]
Node(n, v, kids) == [n |-> n, v |-> v, kids |-> kids]
Leaf(n, v) == Node(n, v, << >>)

(* The class of the i-th token; an identifier also answers to its name.    *)
ClassAt(toks, i) == IF i <= Len(toks) THEN toks[i].t ELSE "#eof"
Sees(toks, i, names) ==
    \/ ClassAt(toks, i) \in names
    \/ ClassAt(toks, i) \in {"#id", "#qid"} /\ toks[i].v \in names

(* The rules: expect a token, an identifier, a token of a class; do one    *)
(* after the other; take a token and what follows it if it is there; note  *)
(* a token that is there; a list with separators; choose by the next one   *)
(* or two tokens; a chain of operators grouped to the left; what may       *)
(* follow an operand, once or as often as it comes; a node around what a   *)
(* rule puts out; statements, or just tokens, up to one of some tokens;    *)
(* an operand and the infix operators that bind tighter than a bound.      *)
Expect(t) == [op |-> "expect", t |-> t]
Ident == [op |-> "ident"]
Take_(classes, n) == [op |-> "take", classes |-> classes, n |-> n]
All(ps) == [op |-> "all", ps |-> ps]
Nothing == All(<< >>)
If_(t, p) == [op |-> "if", t |-> t, p |-> p]
Flag(t, n) == [op |-> "flag", t |-> t, n |-> n]
Skip(t) == [op |-> "skip", t |-> t]
Several(p) == [op |-> "several", p |-> p, sep |-> ","]
On(first, p) == [first |-> first, second |-> {}, p |-> p]
On2(first, second, p) == [first |-> first, second |-> second, p |-> p]
Choose_(alts, other) == [op |-> "choose", alts |-> alts, other |-> other]
Chain(p, ops) == [op |-> "chain", p |-> p, ops |-> ops]
After(first, second, n, p) == [first |-> first, second |-> second, n |-> n, p |-> p]
Operand(p, alts) == [op |-> "operand", p |-> p, alts |-> alts, must |-> FALSE]
Operands(p, alts) == [op |-> "operands", p |-> p, alts |-> alts]
MustFollow(p, alts) == [op |-> "operand", p |-> p, alts |-> alts, must |-> TRUE]
Make(n, p) == [op |-> "make", n |-> n, p |-> p]
Say(n, v) == [op |-> "say", n |-> n, v |-> v]
Drop_ == [op |-> "drop"]
Mute(p) == [op |-> "mute", p |-> p]
Nt(name) == [op |-> "nt", name |-> name]
Statements(stops) == [op |-> "statements", stops |-> stops]
RestUpTo(stops, n) == [op |-> "rest", stops |-> stops, n |-> n]
Balanced(stops, n) == [op |-> "balanced", stops |-> stops, n |-> n]
Refuse == [op |-> "refuse"]
Climb(min) == [op |-> "climb", min |-> min]
Infix_(first, second, n, prec, p) == [first |-> first, second |-> second, n |-> n, prec |-> prec, p |-> p]

Yields(out, rest) == [ok |-> TRUE, out |-> out, rest |-> rest]
Fails == [ok |-> FALSE, out |-> << >>, rest |-> << >>]

RECURSIVE SkipAll(_, _)
SkipAll(toks, t) == IF ClassAt(toks, 1) = t THEN SkipAll(Tail(toks), t) ELSE toks

(* g = [rules, idents, infix]: the rule of every name, the classes an      *)
(* identifier may have and the infix operators with their precedence.      *)
RECURSIVE Run(_, _, _), RunAll(_, _, _), RunSeveral(_, _, _), RunChain(_, _, _), RunStatements(_, _, _)
RECURSIVE RunOperands(_, _, _), RunClimb(_, _, _)
Then(r, s) == IF ~s.ok THEN Fails ELSE Yields(r.out \o s.out, s.rest)
RunAll(g, ps, r) == IF ~r.ok \/ ps = << >> THEN r ELSE RunAll(g, Tail(ps), Then(r, Run(g, Head(ps), r.rest)))
RunSeveral(g, p, toks) ==
    LET r == Run(g, p.p, toks)
    IN  IF r.ok /\ ClassAt(r.rest, 1) = p.sep THEN Then(r, RunSeveral(g, p, Tail(r.rest))) ELSE r
RunChain(g, p, r) ==
    IF ~r.ok \/ ClassAt(r.rest, 1) \notin p.ops THEN r
    ELSE LET s == Run(g, p.p, Tail(r.rest))
         IN  IF s.ok THEN RunChain(g, p, Yields(<<Node("bin", r.rest[1].t, r.out \o s.out)>>, s.rest)) ELSE Fails
RunStatements(g, p, toks) ==
    LET next == SkipAll(toks, ";")
    IN  IF ClassAt(next, 1) \in p.stops \cup {"#eof"} THEN Yields(<< >>, next)
        ELSE LET r == Run(g, Nt("statement"), next) IN IF r.ok THEN Then(r, RunStatements(g, p, r.rest)) ELSE Fails
Follower(p, toks) ==
    SelectInSeq(p.alts, LAMBDA a : Sees(toks, 1, a.first) /\ (a.second = {} \/ Sees(toks, 2, a.second)))
Followed(g, a, v, out, toks) ==
    LET s == Run(g, a.p, SubSeq(toks, IF a.second = {} THEN 2 ELSE 3, Len(toks)))
    IN  IF s.ok THEN Yields(<<Node(a.n, v, out \o s.out)>>, s.rest) ELSE Fails
RunOperands(g, p, r) ==
    LET i == Follower(p, r.rest)
    IN  IF ~r.ok \/ i = 0 THEN r ELSE RunOperands(g, p, Followed(g, p.alts[i], "", r.out, r.rest))
RunClimb(g, p, r) ==
    LET i == Follower([alts |-> g.infix], r.rest)
    IN  IF ~r.ok \/ i = 0 THEN r
        ELSE IF g.infix[i].prec <= p.min THEN r ELSE RunClimb(g, p, Followed(g, g.infix[i], "", r.out, r.rest))
Tokens(toks, n) == [k \in 1..n |-> Leaf(toks[k].t, toks[k].v)]
Depth(toks, n) ==
    Len(SelectSeq(SubSeq(toks, 1, n), LAMBDA t : t.t = "(")) - Len(SelectSeq(SubSeq(toks, 1, n), LAMBDA t : t.t = ")"))
Run(g, p, toks) ==
    CASE p.op = "expect" -> IF ClassAt(toks, 1) = p.t THEN Yields(<< >>, Tail(toks)) ELSE Fails
      [] p.op = "ident" -> IF ClassAt(toks, 1) \in {"#id", "#qid"} THEN Yields(<<Leaf("name", toks[1].v)>>, Tail(toks))
                           ELSE IF ClassAt(toks, 1) \in g.idents THEN Yields(<<Leaf("name", toks[1].t)>>, Tail(toks))
                           ELSE Fails
      [] p.op = "take" -> IF ClassAt(toks, 1) \in p.classes THEN Yields(<<Leaf(p.n, toks[1].v)>>, Tail(toks)) ELSE Fails
      [] p.op = "all" -> RunAll(g, p.ps, Yields(<< >>, toks))
      [] p.op = "if" -> IF Sees(toks, 1, {p.t}) THEN Run(g, p.p, Tail(toks)) ELSE Yields(<< >>, toks)
      [] p.op = "flag" -> IF Sees(toks, 1, {p.t}) THEN Yields(<<Leaf(p.n, "")>>, Tail(toks)) ELSE Yields(<< >>, toks)
      [] p.op = "skip" -> Yields(<< >>, IF Sees(toks, 1, {p.t}) THEN Tail(toks) ELSE toks)
      [] p.op = "several" -> RunSeveral(g, p, toks)
      [] p.op = "choose" -> LET i == Follower(p, toks) IN Run(g, IF i = 0 THEN p.other ELSE p.alts[i].p, toks)
      [] p.op = "chain" -> RunChain(g, p, Run(g, p.p, toks))
      [] p.op = "operand" ->
           LET r == Run(g, p.p, toks)
               i == Follower(p, r.rest)
           IN  IF ~r.ok \/ (i = 0 /\ p.must) THEN Fails ELSE IF i = 0 THEN r
               ELSE Followed(g, p.alts[i], ClassAt(r.rest, IF p.alts[i].second = {} THEN 1 ELSE 2), r.out, r.rest)
      [] p.op = "operands" -> RunOperands(g, p, Run(g, p.p, toks))
      [] p.op = "make" -> LET r == Run(g, p.p, toks) IN IF r.ok THEN Yields(<<Node(p.n, "", r.out)>>, r.rest) ELSE Fails
      [] p.op = "say" -> Yields(<<Leaf(p.n, p.v)>>, toks)
      [] p.op = "climb" -> RunClimb(g, p, Run(g, g.rules["prefix"], toks))
      [] p.op = "nt" -> Run(g, g.rules[p.name], toks)
      [] p.op = "statements" -> RunStatements(g, p, toks)
      [] p.op = "rest" ->
           LET i == SelectInSeq(toks, LAMBDA t : t.t \in p.stops)
               n == IF i = 0 THEN Len(toks) ELSE i - 1
           IN  Yields(<<Node(p.n, "", Tokens(toks, n))>>, SubSeq(toks, n + 1, Len(toks)))
      [] p.op = "balanced" ->
           LET i == SelectInSeq([k \in DOMAIN toks |-> k], LAMBDA k : toks[k].t \in p.stops /\ Depth(toks, k) = 0)
               n == IF i = 0 THEN Len(toks) ELSE i - 1
               twice == [k \in 1..n |-> LET t == Leaf(toks[k].t, toks[k].v) IN IF toks[k].t \in {"(", ")"} THEN <<t, t>> ELSE <<t>>]
           IN  Yields(<<Node(p.n, "", FlattenSeq(twice))>>, SubSeq(toks, n + 2, Len(toks)))
      [] p.op = "drop" -> Yields(<< >>, IF toks = << >> THEN toks ELSE Tail(toks))
      [] p.op = "mute" -> LET r == Run(g, p.p, toks) IN IF r.ok THEN Yields(<< >>, r.rest) ELSE Fails
      [] OTHER -> Fails

=============================================================================
