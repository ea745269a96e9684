------------------------------- MODULE Lexers -------------------------------
(***************************************************************************)
(* From characters to tokens: the T-SQL lexer and the GO splitter          *)
(* (tsql-parser/src/lexer.rs, batch.rs) and the tokenizer of the           *)
(* ClickHouse server (clickhouse-protocol/src/handler.rs).  Reserved maps  *)
(* the words the models spell as keywords, in lower case, to their tokens. *)
(***************************************************************************)
EXTENDS Text, FiniteSets
CONSTANT Reserved

CharAt(s, i) == IF i <= Len(s) THEN s[i] ELSE ""
From(s, i) == SubSeq(s, i, Len(s))
WhiteSpace == {" ", "\n", "\t"}
HexDigits == {"0", "1", "9", "a", "A", "b", "B", "c", "d"}
IsAlphabetic(c) == Contains(LowerLetters \o UpperLetters \o <<"e", "g", "G", "n", "N", "o", "O", "s">>, c)
IsAlphanumeric(c) == IsDigit(c) \/ IsAlphabetic(c)
WordChar(c) == IsAlphanumeric(c) \/ c = "_"
SpanLength(s, Test(_)) ==
    LET i == SelectInSeq(s, LAMBDA c : ~Test(c)) IN IF i = 0 THEN Len(s) ELSE i - 1
Span(s, Test(_)) == SubSeq(s, 1, SpanLength(s, Test))

Token(t, v) == [t |-> t, v |-> v]
LexError == [ok |-> FALSE, toks |-> << >>, rest |-> << >>]
Lexed(toks, rest) == [ok |-> TRUE, toks |-> toks, rest |-> rest]

(* Text up to a closing quote, a doubled quote standing for one.           *)
RECURSIVE UpToQuote(_, _, _)
UpToQuote(s, quote, text) ==
    IF s = << >> THEN [ok |-> FALSE, text |-> text, rest |-> << >>]
    ELSE IF s[1] # quote THEN UpToQuote(Tail(s), quote, Append(text, s[1]))
    ELSE IF CharAt(s, 2) = quote THEN UpToQuote(From(s, 3), quote, Append(text, quote))
    ELSE [ok |-> TRUE, text |-> text, rest |-> Tail(s)]
ReadQuoted(s, quote, class) ==
    LET r == UpToQuote(s, quote, << >>) IN IF r.ok THEN Lexed(<<Token(class, r.text)>>, r.rest) ELSE LexError
ReadBracket(s) ==
    LET i == SelectInSeq(s, LAMBDA c : c = "]")
    IN  IF i = 0 THEN LexError ELSE Lexed(<<Token("#qid", SubSeq(s, 1, i - 1))>>, From(s, i + 1))

BlockCommentFlat(s, depth) ==                  \* mutation: comments do not nest
    LET ends == {i \in DOMAIN s : s[i] = "*" /\ CharAt(s, i + 1) = "/"}
    IN  IF ends = {} THEN LexError ELSE Lexed(<< >>, From(s, 2 + CHOOSE i \in ends : \A j \in ends : i <= j))
(* What follows /*, whose comments nest.                                   *)
RECURSIVE BlockComment(_, _)
BlockComment(s, depth) ==
    IF depth = 0 THEN Lexed(<< >>, s)
    ELSE IF s = << >> THEN LexError
    ELSE IF s[1] = "*" /\ CharAt(s, 2) = "/" THEN BlockComment(From(s, 3), depth - 1)
    ELSE IF s[1] = "/" /\ CharAt(s, 2) = "*" THEN BlockComment(From(s, 3), depth + 1)
    ELSE BlockComment(Tail(s), depth)

ReadSpan(s, n, class, Test(_)) ==
    LET rest == From(s, n + 1) IN Lexed(<<Token(class, Span(rest, Test))>>, From(rest, SpanLength(rest, Test) + 1))
ReadVariable(s) == IF CharAt(s, 2) = "@" THEN ReadSpan(s, 2, "#sys", WordChar) ELSE ReadSpan(s, 1, "#var", WordChar)
ReadTempTable(s) == IF CharAt(s, 2) = "#" THEN ReadSpan(s, 2, "##temp", WordChar) ELSE ReadSpan(s, 1, "#temp", WordChar)
ReadBinary(s) == ReadSpan(s, 2, "#bin", LAMBDA c : c \in HexDigits)
ReadMoney(s) == ReadSpan(s, 1, "#money", LAMBDA c : IsDigit(c) \/ c \in {".", "-"})

(* read_number: digits, one dot before any exponent, exponents with a      *)
(* sign; parse refuses a number with two exponents, or with nothing after  *)
(* the exponent.                                                           *)
RECURSIVE NumberText(_, _, _)
NumberText(s, text, float) ==
    LET c == CharAt(s, 1) IN
    IF IsDigit(c) THEN NumberText(Tail(s), Append(text, c), float)
    ELSE IF c = "." /\ ~float THEN NumberText(Tail(s), Append(text, c), TRUE)
    ELSE IF c = "e" /\ CharAt(s, 2) \in {"+", "-"} THEN NumberText(From(s, 3), text \o <<c, s[2]>>, TRUE)
    ELSE IF c = "e" THEN NumberText(Tail(s), Append(text, c), TRUE)
    ELSE [text |-> text, float |-> float, rest |-> s]
ParsesAsFloat(text) ==
    LET e == SelectInSeq(text, LAMBDA c : c = "e")
        after == IF e = 0 THEN <<"0">> ELSE From(text, e + 1)
    IN  IsInt(after)
ReadNumber(s) ==
    LET r == NumberText(s, << >>, FALSE)
    IN  IF ~r.float THEN Lexed(<<Token("#int", r.text)>>, r.rest)
        ELSE IF ParsesAsFloat(r.text) THEN Lexed(<<Token("#float", r.text)>>, r.rest) ELSE LexError

ReadIdentifierOrKeyword(s) ==
    LET inWord(c) == WordChar(c) \/ c \in {"@", "#"}
        name == Span(s, inWord)
    IN  Lexed(<<IF Lower(name) \in DOMAIN Reserved THEN Token(Reserved[Lower(name)], << >>) ELSE Token("#id", name)>>,
              From(s, Len(name) + 1))

(* read_operator: a sign, or two that make one.                            *)
TwoSigns == {<<"+", "=">>, <<"-", "=">>, <<"*", "=">>, <<"/", "=">>, <<"=", "*">>, <<"<", "=">>, <<"<", ">">>, <<">", "=">>,
             <<"!", "=">>, <<"!", "<">>, <<"!", ">">>, <<"&", "=">>, <<"|", "=">>, <<"^", "=">>, <<":", ":">>}
OneSign == {"(", ")", "{", "}", ",", ";", "~", ".", "+", "-", "*", "/", "%", "=", "<", ">", "&", "|", "^", ":"}
SignToken(two) == IF two[1] = "!" THEN <<"<", ">">> ELSE two
ReadOperator(s) ==
    LET two == <<s[1], CharAt(s, 2)>>
    IN  IF two \in TwoSigns THEN Lexed(<<Token("#sign", SignToken(two))>>, From(s, 3))
        ELSE IF s[1] \in OneSign THEN Lexed(<<Token("#sign", <<s[1]>>)>>, Tail(s)) ELSE LexError

(* next_token, in the order of its tests.                                  *)
NextToken(s) ==
    LET c == s[1]
        d == CharAt(s, 2)
    IN  CASE c \in WhiteSpace -> Lexed(<< >>, Tail(s))
          [] c = "-" /\ d = "-" -> Lexed(<< >>, From(s, SpanLength(s, LAMBDA x : x # "\n") + 1))
          [] c = "/" /\ d = "*" -> BlockComment(From(s, 3), 1)
          [] c = "'" -> ReadQuoted(Tail(s), "'", "#str")
          [] c \in {"N", "n"} /\ d = "'" -> ReadQuoted(From(s, 3), "'", "#nstr")
          [] c = "0" /\ d \in {"x", "X"} -> ReadBinary(s)
          [] c = "$" -> ReadMoney(s)
          [] c = "@" -> ReadVariable(s)
          [] c = "#" -> ReadTempTable(s)
          [] IsDigit(c) -> ReadNumber(s)
          [] c = "[" -> ReadBracket(Tail(s))
          [] c = "\"" -> ReadQuoted(Tail(s), "\"", "#qid")
          [] IsAlphabetic(c) \/ c = "_" -> ReadIdentifierOrKeyword(s)
          [] OTHER -> ReadOperator(s)
RECURSIVE Tokenize(_)
Tokenize(s) ==
    IF s = << >> THEN Lexed(<< >>, << >>)
    ELSE LET r == NextToken(s)
             more == Tokenize(r.rest)
         IN  IF r.ok /\ more.ok THEN Lexed(r.toks \o more.toks, << >>) ELSE LexError

-----------------------------------------------------------------------------
(* split_batches.  GO is looked for only after a newline that is outside a *)
(* string and a comment, so neither at the start of the text nor after a   *)
(* line that ends in a comment.                                            *)
TrimAll(s) ==
    LET first == SelectInSeq(s, LAMBDA c : c \notin WhiteSpace)
        last == SelectLastInSeq(s, LAMBDA c : c \notin WhiteSpace)
    IN  IF first = 0 THEN << >> ELSE SubSeq(s, first, last)
PushBatch(batches, cur) == IF TrimAll(cur) = << >> THEN batches ELSE Append(batches, TrimAll(cur))
IsGo(s) == /\ CharAt(s, 1) \in {"G", "g"} /\ CharAt(s, 2) \in {"O", "o"}
           /\ Len(s) = 2 \/ CharAt(s, 3) \in WhiteSpace \cup {"-"}
RECURSIVE Split(_, _, _, _)
Split(s, mode, batches, cur) ==
    IF s = << >> THEN PushBatch(batches, cur)
    ELSE
    LET c == s[1]
        d == CharAt(s, 2)
        keep(m) == Split(Tail(s), m, batches, Append(cur, c))
        blanks == Span(Tail(s), LAMBDA x : x \in WhiteSpace \ {"\n"})
        line == From(s, Len(blanks) + 2)
    IN  CASE mode \in {"code", "string"} /\ c = "'" -> keep(IF mode = "string" THEN "code" ELSE "string")
          [] mode = "string" -> keep("string")
          [] mode # "block" /\ c = "-" /\ d = "-" -> keep("line")
          [] mode = "line" -> keep(IF c = "\n" THEN "code" ELSE "line")
          [] c = "/" /\ d = "*" -> keep("block")
          [] mode = "block" /\ c = "*" /\ d = "/" -> Split(From(s, 3), "code", batches, cur \o <<"*", "/">>)
          [] mode = "block" -> keep("block")
          [] c = "\n" /\ IsGo(line) ->
               Split(From(line, SpanLength(line, LAMBDA x : x # "\n") + 1), "code", PushBatch(batches, cur \o <<c>> \o blanks), << >>)
          [] c = "\n" -> Split(line, "code", batches, cur \o <<c>> \o blanks)
          [] OTHER -> keep("code")
SplitBatches(s) == Split(s, "code", << >>, << >>)

-----------------------------------------------------------------------------
(* tokenize_sql: tokens are pieces of the text, literals with their quotes.*)
ChOperators == {<<">", "=">>, <<"<", "=">>, <<"!", "=">>, <<"<", ">">>}
LiteralLength(s) ==
    LET close == {i \in 2..Len(s) : s[i] = "'" /\ Cardinality({j \in 2..i : \A k \in j..i : s[k] = "'"}) % 2 = 1 /\ CharAt(s, i + 1) # "'"}
    IN  IF close = {} THEN Len(s) ELSE CHOOSE i \in close : \A j \in close : i <= j
WordLength(s) ==
    LET stop == {i \in DOMAIN s : \/ s[i] \in WhiteSpace \cup {"(", ")", ",", "'", "=", "<", ">"}
                                  \/ <<s[i], CharAt(s, i + 1)>> \in ChOperators}
    IN  IF stop = {} THEN Len(s) ELSE (CHOOSE i \in stop : \A j \in stop : i <= j) - 1
RECURSIVE TokenizeSql(_)
TokenizeSql(s) ==
    IF s = << >> THEN << >>
    ELSE LET n == CASE s[1] = "'" -> LiteralLength(s)
                    [] s[1] \in {"(", ")", ","} -> 1
                    [] <<s[1], CharAt(s, 2)>> \in ChOperators -> 2
                    [] s[1] \in {"=", "<", ">", "*"} -> 1
                    [] OTHER -> WordLength(s)
         IN  IF s[1] \in WhiteSpace THEN TokenizeSql(Tail(s))
             ELSE <<SubSeq(s, 1, n)>> \o TokenizeSql(From(s, n + 1))

(* unquote and parse_value_tuples.                                         *)
Unquote(t) ==
    LET s == TrimAll(t)
    IN  IF s # << >> /\ s[1] = Last(s) /\ s[1] \in {"'", "\""} THEN SubSeq(s, 2, Len(s) - 1) ELSE s
RECURSIVE ParseValueTuples(_)
ParseValueTuples(toks) ==
    IF toks = << >> THEN << >>
    ELSE IF toks[1] # <<"(">> THEN ParseValueTuples(Tail(toks))
    ELSE LET close == SelectInSeq(toks, LAMBDA t : t = <<")">>)
             end == IF close = 0 THEN Len(toks) + 1 ELSE close
             values == SelectSeq(SubSeq(toks, 2, end - 1), LAMBDA t : t # <<",">>)
         IN  <<[i \in DOMAIN values |-> Unquote(values[i])]>> \o ParseValueTuples(From(toks, end + 1))

=============================================================================
