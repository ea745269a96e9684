----------------------------- MODULE LikeMatch -----------------------------
(***************************************************************************)
(* The five LIKE matchers of the repository.  Those of the ADB, ClickHouse *)
(* and T-SQL servers resolve escapes into tokens and run the same two-row  *)
(* dynamic program; SHOW ... LIKE of the main server fills a whole table;  *)
(* SHOW VARIABLES LIKE backtracks.                                         *)
(***************************************************************************)
EXTENDS Integers, Sequences, Text

(* The token loop: `escape' is <<>> or the one escape character; an escape *)
(* at the very end of the pattern stands for itself.                       *)
RECURSIVE PatternTokens(_, _)
PatternTokens(p, escape) ==
    IF p = << >> THEN << >>
    ELSE IF escape = <<p[1]>> /\ Len(p) > 1
    THEN <<[k |-> "lit", c |-> p[2]]>> \o PatternTokens(SubSeq(p, 3, Len(p)), escape)
    ELSE <<[k |-> CASE p[1] = "%" -> "many" [] p[1] = "_" -> "one" [] OTHER -> "lit", c |-> p[1]]>>
         \o PatternTokens(Tail(p), escape)

(* One row of the two-row program: row[j] says whether the first j         *)
(* characters match the tokens so far.                                     *)
NextRowNonEmpty(prev, tok, v) ==               \* mutation: % takes at least one character
    LET row[j \in 0..Len(v)] ==
          CASE j = 0 -> FALSE
            [] tok.k = "many" -> prev[j - 1] \/ row[j - 1]
            [] tok.k = "one" -> prev[j - 1]
            [] OTHER -> prev[j - 1] /\ v[j] = tok.c
    IN  row
NextRow(prev, tok, v) ==
    LET row[j \in 0..Len(v)] ==
          CASE j = 0 -> prev[0] /\ tok.k = "many"
            [] tok.k = "many" -> prev[j] \/ row[j - 1]
            [] tok.k = "one" -> prev[j - 1]
            [] OTHER -> prev[j - 1] /\ v[j] = tok.c
    IN  row
TwoRows(v, toks) ==
    FoldLeft(LAMBDA prev, tok : NextRow(prev, tok, v), [j \in 0..Len(v) |-> j = 0], toks)[Len(v)]

(* like_match_esc with its default escape, tsql_like_match with none, and  *)
(* match_like_with_escape, which alone keeps the case.                     *)
AdbLike(v, p, escape) ==
    TwoRows(Lower(v), PatternTokens(Lower(p), Lower(escape)))
TsqlLike(v, p, escape) ==
    TwoRows(Lower(v), PatternTokens(Lower(p), Lower(escape)))
ClickHouseLike(v, p, escape) == TwoRows(v, PatternTokens(p, escape))

(* like_match of utils.rs: no escapes, the table dp[i][j].                 *)
ShowLike(p, t) ==
    LET dp[i \in 0..Len(p), j \in 0..Len(t)] ==
          CASE i = 0 -> j = 0
            [] j = 0 -> p[i] = "%" /\ dp[i - 1, 0]
            [] p[i] = "%" -> dp[i - 1, j] \/ dp[i, j - 1]
            [] p[i] = "_" -> dp[i - 1, j - 1]
            [] OTHER -> dp[i - 1, j - 1] /\ LowerChar(p[i]) = LowerChar(t[j])
    IN  dp[Len(p), Len(t)]

(* like_match_impl of variables.rs, on texts its caller has lower-cased.   *)
RECURSIVE VariableLike(_, _), SkipMany(_)
SkipMany(p) == IF p # << >> /\ p[1] = "%" THEN SkipMany(Tail(p)) ELSE p
VariableLike(p, t) ==
    CASE p = << >> -> t = << >>
      [] p # << >> /\ p[1] = "%" ->
           LET rest == SkipMany(p)
           IN  rest = << >> \/ \E i \in 1..(Len(t) + 1) : VariableLike(rest, SubSeq(t, i, Len(t)))
      [] OTHER -> t # << >> /\ (p[1] = "_" \/ p[1] = t[1]) /\ VariableLike(Tail(p), Tail(t))

(* The reference: the text can be cut into one piece per token.            *)
RECURSIVE CanCut(_, _)
CanCut(t, toks) ==
    IF toks = << >> THEN t = << >>
    ELSE \E n \in 0..Len(t) :
           /\ CASE toks[1].k = "many" -> TRUE
                [] toks[1].k = "one" -> n = 1
                [] OTHER -> n = 1 /\ t[1] = toks[1].c
           /\ CanCut(SubSeq(t, n + 1, Len(t)), Tail(toks))

(* For a text and a pattern the matchers agree with the reference, and     *)
(* with each other where the pattern holds no escape.                      *)
LikeAgrees(t, p, escape) ==
    LET want == CanCut(t, PatternTokens(p, escape))
        folded == CanCut(Lower(t), PatternTokens(Lower(p), Lower(escape)))
        plain == CanCut(Lower(t), PatternTokens(Lower(p), << >>))
    IN  /\ ClickHouseLike(t, p, escape) = want
        /\ AdbLike(t, p, escape) = folded /\ TsqlLike(t, p, escape) = folded
        /\ ShowLike(p, t) = plain /\ VariableLike(Lower(p), Lower(t)) = plain

=============================================================================
