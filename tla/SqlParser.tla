----------------------------- MODULE SqlParser -----------------------------
(***************************************************************************)
(* The front end's own statement parsers (fe-sql-parser/src/parser.rs):    *)
(* the statements parse_sql recognises by their first words and takes      *)
(* apart by searching and cutting the text.                                *)
(*                                                                         *)
(* A text is a sequence of atoms: a run of letters, a run of digits, or    *)
(* one other character.  A parse function is the list of steps it takes;   *)
(* Run takes them, leaving the statement's fields in out.  Letter case and *)
(* prefixes that end inside a word are abstracted away.                    *)
(***************************************************************************)
EXTENDS Integers, Sequences, SequencesExt

Blank == " "
Quotes == {"'", "\"", "bq"}    \* bq: the backquote
Punctuation == Quotes \cup {Blank, "_", "(", ")", ",", "=", ".", "@", ";", "\\", ":", "*"}
Digits == {"1", "2", "3"}
Letters(a) == a \notin Punctuation \cup Digits
W(words) == [i \in 1..(2 * Len(words) - 1) |-> IF i % 2 = 1 THEN words[(i + 1) \div 2] ELSE Blank]
None == <<"#none">>

TrimWith(s, S) ==
    LET first == SelectInSeq(s, LAMBDA a : a \notin S)
    IN  IF first = 0 THEN << >> ELSE SubSeq(s, first, SelectLastInSeq(s, LAMBDA a : a \notin S))
TrimText(s) == TrimWith(s, {Blank})
TrimQuotes(s) == TrimWith(s, Quotes \ {"bq"})
Cut(s, n) == TrimText(SubSeq(s, n + 1, Len(s)))
Starts(s, p) == IsPrefix(p, s)
(* trim_start_matches of letters and blanks, used to skip keywords.        *)
DropLetters(s) ==
    LET i == SelectInSeq(s, LAMBDA a : ~Letters(a) /\ a # Blank) IN IF i = 0 THEN << >> ELSE Cut(s, i - 1)
(* find_ascii_ci: where p first, or last, occurs in s, or 0.               *)
Places(s, p) == {i \in 1..(Len(s) - Len(p) + 1) : SubSeq(s, i, i + Len(p) - 1) = p}
Find(s, p) == IF Places(s, p) = {} THEN 0 ELSE CHOOSE i \in Places(s, p) : \A j \in Places(s, p) : i <= j
FindLast(s, p) == IF Places(s, p) = {} THEN 0 ELSE CHOOSE i \in Places(s, p) : \A j \in Places(s, p) : i >= j
RECURSIVE SplitAtoms(_, _)
SplitAtoms(s, sep) ==
    LET i == SelectInSeq(s, LAMBDA a : a = sep)
    IN  IF i = 0 THEN <<s>> ELSE <<SubSeq(s, 1, i - 1)>> \o SplitAtoms(SubSeq(s, i + 1, Len(s)), sep)
ItemsOf(s) == LET parts == SplitAtoms(s, ",") IN [i \in DOMAIN parts |-> TrimText(parts[i])]
FirstWord(s) == SplitAtoms(TrimText(s), Blank)[1]

(* extract_identifier: a quoted name as it stands between its quotes, or a *)
(* run of letters, digits and underscores.                                 *)
RECURSIVE Closing(_, _, _)
Closing(s, q, i) ==
    IF i > Len(s) THEN 0
    ELSE IF s[i] # q THEN Closing(s, q, i + 1)
    ELSE IF i < Len(s) /\ s[i + 1] = q THEN Closing(s, q, i + 2) ELSE i
ExtractIdentifier(text) ==
    LET s == TrimText(text)
        close == Closing(s, s[1], 2)
        end == SelectInSeq(s, LAMBDA a : ~Letters(a) /\ a \notin Digits \cup {"_"})
        n == IF end = 0 THEN Len(s) ELSE end - 1
    IN  IF s = << >> THEN [ok |-> FALSE, name |-> << >>, rest |-> << >>]
        ELSE IF s[1] \in Quotes
             THEN [ok |-> close # 0, name |-> SubSeq(s, 2, close - 1), rest |-> SubSeq(s, close + 1, Len(s))]
             ELSE [ok |-> n # 0, name |-> SubSeq(s, 1, n), rest |-> SubSeq(s, n + 1, Len(s))]
SplitQualifiedName(name) ==
    LET parts == SplitAtoms(name, ".")
    IN  CASE Len(parts) = 3 -> <<parts[2], parts[3]>> [] Len(parts) = 2 -> parts [] OTHER -> <<None, name>>

ParseProperties(text) ==
    LET s == TrimText(text)
        list == Cut(s, 1)
        pairs == ItemsOf(SubSeq(list, 2, Len(list) - 1))
        kept == SelectSeq(pairs, LAMBDA p : Contains(p, "="))
        halves == [i \in DOMAIN kept |-> LET e == SelectInSeq(kept[i], LAMBDA a : a = "=") IN
                      <<TrimQuotes(TrimText(SubSeq(kept[i], 1, e - 1))), TrimQuotes(Cut(kept[i], e))>>]
    IN  IF Starts(s, <<"PROPERTIES">>) /\ Starts(list, <<"(">>) /\ Last(list) = ")" THEN halves ELSE << >>
PropertiesIn(s) == LET i == Find(s, <<"PROPERTIES">>) IN IF i = 0 THEN << >> ELSE ParseProperties(SubSeq(s, i, Len(s)))

-----------------------------------------------------------------------------
(* Steps.                                                                  *)
Step(k, p, sub) == [k |-> k, p |-> p, sub |-> sub]
Must(p) == Step("must", p, << >>)          \* strip_prefix or error
Flag(p) == Step("flag", p, << >>)          \* noted, and stripped if there
FlagCut(p) == Step("flagcut", p, << >>)    \* noted; DropLetters if there
SkipCut(p) == Step("skipcut", p, << >>)    \* DropLetters if there
Anywhere(p) == Step("anywhere", p, << >>)  \* noted wherever it stands in the text
Name == Step("name", << >>, << >>)
QName == Step("qname", None, << >>)        \* a name split into database and object
QNameOr == Step("qname", << >>, << >>)     \* with an empty database for none
OptName(v) == Step("optname", v, << >>)    \* a name, or v
Dotted == Step("dotted", << >>, << >>)     \* two names and a dot, or one
Pair(sep) == Step("pair", sep, << >>)      \* the qualified text before sep
User == Step("user", << >>, << >>)         \* extract_username_hostname
Columns == Step("columns", << >>, << >>)   \* a list in parentheses, or nothing
Values == Step("values", << >>, << >>)     \* the same, without quotes
Props == Step("props", << >>, << >>)
PropsAt == Step("propsat", << >>, << >>)   \* PROPERTIES anywhere in the rest
PropsList == Step("propslist", << >>, << >>)
Text == Step("text", << >>, << >>)         \* the rest without its quotes
Raw == Step("raw", << >>, << >>)           \* the rest
Rest == Step("rest", << >>, << >>)         \* the rest, none if there is none
RestSemi == Step("restsemi", << >>, << >>) \* the same, and none for a semicolon
Is(p) == Step("is", p, << >>)              \* noted if the rest is p
NumberStep == Step("number", << >>, << >>)
Word == Step("word", << >>, << >>)
Put(v) == Step("put", v, << >>)
When(p, yes, no) == Step("when", p, <<yes, no>>)      \* strip_prefix and yes, or no
WhenCut(p, yes, no) == Step("whencut", p, <<yes, no>>)
Seek(p, yes, no) == Step("seek", p, <<yes, no>>)      \* the same after the first p anywhere
IfStarts(p, yes, no) == Step("if", p, <<yes, no>>)    \* as When, and p is kept
Peek(steps) == Step("peek", << >>, <<steps>>)         \* and the text is not consumed
View == Step("view", << >>, << >>)
Look(p, yes, no) == Step("look", p, <<yes, no>>)      \* as Seek, and the text is not consumed
Fail == Step("fail", << >>, << >>)
OneOf(cases) == Step("oneof", << >>, cases)           \* the first case whose words are there
Case_(p, yes) == When(p, yes, <<Fail>>)
CaseCut(p, yes) == WhenCut(p, yes, <<Fail>>)

Bad == [ok |-> FALSE, rest |-> << >>, out |-> << >>]
Yes == <<"yes">>
No == <<"no">>
(* The query of CREATE MATERIALIZED VIEW: after the column list, or after  *)
(* an AS that is not the first word.  A REFRESH clause behind the query    *)
(* cuts the text that is then indexed past its end.                        *)
ViewQuery(s, close) ==
    LET as == <<Blank, "AS", Blank>>
        q == CASE Starts(s, <<"(">>) /\ close # 0 -> Cut(s, close)
               [] ~Starts(s, <<"(">>) /\ Find(s, as) # 0 -> Cut(s, Find(s, as) + 2)
               [] OTHER -> << >>
        r == Find(q, <<"REFRESH">>)
        type == IF Find(q, <<"COMPLETE">>) > r THEN <<"COMPLETE">> ELSE IF Find(q, <<"FAST">>) > r THEN <<"FAST">> ELSE None
    IN  [ok |-> r = 0 \/ TrimText(SubSeq(q, 1, r - 1)) \in {<< >>, <<"AS">>},
         query |-> CASE Find(q, as) # 0 -> Cut(q, Find(q, as) + 2) [] Starts(q, <<"AS", Blank>>) -> Cut(q, 2) [] OTHER -> q,
         refresh |-> IF r = 0 THEN None ELSE type]
RECURSIVE Run(_, _)
Take(step, st) ==
    LET s == st.rest
        there == Starts(s, step.p)
        at == Find(s, step.p)
        id == ExtractIdentifier(s)
        close == SelectInSeq(s, LAMBDA a : a = ")")
        note(v, rest) == [ok |-> TRUE, rest |-> rest, out |-> Append(st.out, v)]
        stripped == Cut(s, Len(step.p))
        quoted(items) == [i \in DOMAIN items |-> TrimQuotes(items[i])]
        second == ExtractIdentifier(Cut(TrimText(id.rest), 1))
    IN  CASE step.k = "must" -> IF there THEN [st EXCEPT !.rest = stripped] ELSE Bad
          [] step.k = "flag" -> IF there THEN note(Yes, stripped) ELSE note(No, s)
          [] step.k = "flagcut" -> IF there THEN note(Yes, DropLetters(s)) ELSE note(No, s)
          [] step.k = "skipcut" -> IF there THEN [st EXCEPT !.rest = DropLetters(s)] ELSE st
          [] step.k = "anywhere" -> note(IF at # 0 THEN Yes ELSE No, s)
          [] step.k = "name" -> IF id.ok THEN note(id.name, TrimText(id.rest)) ELSE Bad
          [] step.k = "qname" -> IF ~id.ok THEN Bad
                                 ELSE LET q == SplitQualifiedName(id.name) IN
                                      [ok |-> TRUE, rest |-> TrimText(id.rest),
                                       out |-> st.out \o <<IF q[1] = None THEN step.p ELSE q[1], q[2]>>]
          [] step.k = "optname" -> IF id.ok THEN note(id.name, TrimText(id.rest)) ELSE note(step.p, << >>)
          [] step.k = "dotted" -> IF ~id.ok THEN Bad
                                  ELSE IF ~Starts(TrimText(id.rest), <<".">>) THEN [st EXCEPT !.out = st.out \o <<None, id.name>>]
                                  ELSE IF second.ok THEN [st EXCEPT !.out = st.out \o <<id.name, second.name>>] ELSE Bad
          [] step.k = "pair" -> IF at = 0 THEN Bad
                                ELSE LET q == SplitAtoms(TrimText(SubSeq(s, 1, at - 1)), ".") IN
                                     [ok |-> TRUE, rest |-> Cut(s, at + Len(step.p) - 1),
                                      out |-> st.out \o IF Len(q) = 2 THEN q ELSE <<None, TrimText(SubSeq(s, 1, at - 1))>>]
          [] step.k = "user" -> IF s = << >> THEN Bad ELSE note(SplitAtoms(FirstWord(s), "@")[1], << >>)
          [] step.k = "columns" -> IF Starts(s, <<"(">>) /\ close # 0 THEN note(ItemsOf(SubSeq(s, 2, close - 1)), Cut(s, close))
                                   ELSE note(<< >>, s)
          [] step.k = "values" -> IF Starts(s, <<"(">>) /\ close # 0 THEN note(quoted(ItemsOf(SubSeq(s, 2, close - 1))), Cut(s, close))
                                  ELSE note(<< >>, s)
          [] step.k = "propslist" -> note(ParseProperties(<<"PROPERTIES">> \o s), s)
          [] step.k = "view" -> LET v == ViewQuery(s, close) IN IF v.ok THEN [st EXCEPT !.out = st.out \o <<v.query, v.refresh>>] ELSE Bad
          [] step.k = "raw" -> note(s, << >>)
          [] step.k = "is" -> note(IF s = step.p THEN Yes ELSE No, s)
          [] step.k = "if" -> Run(step.sub[IF there THEN 1 ELSE 2], st)
          [] step.k = "peek" -> [Run(step.sub[1], st) EXCEPT !.rest = s]
          [] step.k = "props" -> note(ParseProperties(s), s)
          [] step.k = "propsat" -> note(PropertiesIn(s), s)
          [] step.k = "text" -> note(TrimQuotes(s), << >>)
          [] step.k = "rest" -> note(IF s = << >> THEN None ELSE s, << >>)
          [] step.k = "restsemi" -> note(IF s \in {<< >>, <<";">>} THEN None ELSE s, << >>)
          [] step.k = "number" -> LET w == FirstWord(s) IN
                IF s # << >> /\ \A i \in DOMAIN w : w[i] \in Digits THEN note(w, Cut(s, Len(w))) ELSE Bad
          [] step.k = "word" -> note(TrimQuotes(FirstWord(s)), Cut(s, Len(FirstWord(s))))
          [] step.k = "put" -> note(step.p, s)
          [] step.k = "when" -> IF there THEN Run(step.sub[1], [st EXCEPT !.rest = stripped]) ELSE Run(step.sub[2], st)
          [] step.k = "whencut" -> IF there THEN Run(step.sub[1], [st EXCEPT !.rest = DropLetters(s)]) ELSE Run(step.sub[2], st)
          [] step.k = "seek" -> IF at # 0 THEN Run(step.sub[1], [st EXCEPT !.rest = Cut(s, at + Len(step.p) - 1)]) ELSE Run(step.sub[2], st)
          [] step.k = "look" -> LET r == IF at # 0 THEN Run(step.sub[1], [st EXCEPT !.rest = Cut(s, at + Len(step.p) - 1)])
                                         ELSE Run(step.sub[2], st) IN [r EXCEPT !.rest = s]
          [] step.k = "jobid" -> LET n == ExtractIdentifier(DropLetters(s)) IN note(IF n.ok THEN n.name ELSE s, << >>)
          [] step.k = "skipword" -> [st EXCEPT !.rest = Cut(s, Len(FirstWord(s)))]
          [] step.k = "unless" -> Run(step.sub[IF s \in {<< >>, <<";">>} THEN 1 ELSE 2], st)
          [] step.k = "inparens" -> note(TrimQuotes(IF close = 0 THEN s ELSE SubSeq(s, 2, close - 1)), << >>)
          [] step.k = "recover" -> LET n == ExtractIdentifier(id.rest) IN
                IF ~id.ok THEN Bad ELSE [st EXCEPT !.out = st.out \o IF n.ok THEN <<id.name, n.name>> ELSE << << >>, id.name>>]
          [] step.k = "oneof" -> LET i == SelectInSeq(step.sub, LAMBDA c : Starts(s, c.p)) IN IF i = 0 THEN Bad ELSE Run(<<step.sub[i]>>, st)
          [] OTHER -> Bad
Run(steps, st) == IF steps = << >> \/ ~st.ok THEN st ELSE Run(Tail(steps), Take(Head(steps), st))

-----------------------------------------------------------------------------
(* The parse functions.                                                    *)
IfExists == W(<<"IF", "EXISTS">>)
IfNotExists == W(<<"IF", "NOT", "EXISTS">>)
M(words) == Must(W(words))
Nothing_ == << >>
NameAfter(words) == <<M(words), Name>>
LikeTail == <<When(<<"LIKE", Blank>>, <<Text>>, <<Raw>>)>>
StatusTail == <<When(<<"STATUS">>, << >>, << >>), When(<<"LIKE", Blank>>, <<Text>>, <<Rest>>)>>
FromDatabase == When(<<"FROM", Blank>>, <<Name>>, <<Put(None)>>)

ParseCreateRepository ==
    <<M(<<"CREATE", "REPOSITORY">>), Name,
      When(<<"WITH">>, <<When(<<"S", "3">>, <<Put(<<"S", "3">>), Props>>,
                         <<When(<<"HDFS">>, <<Put(<<"HDFS">>), Props>>, <<Put(<<"LOCAL">>), Props>>)>>)>>,
           <<Put(<<"LOCAL">>), Put(<< >>)>>)>>
ParseShowCreateDatabase == NameAfter(<<"SHOW", "CREATE", "DATABASE">>)
ParseShowCreateView == <<M(<<"SHOW", "CREATE", "VIEW">>), QNameOr>>
ParseShowPartitions == <<M(<<"SHOW", "PARTITIONS">>), Seek(<<Blank, "FROM", Blank>>, <<QNameOr>>, <<Fail>>)>>
ParseShowTableStatus == <<M(<<"SHOW", "TABLE", "STATUS">>), FromDatabase>>
ParseShowVariables ==
    <<M(<<"SHOW", "VARIABLES">>),
      When(<<"GLOBAL", Blank>>, <<Put(Yes)>> \o LikeTail,
           <<Put(No), When(<<"SESSION", Blank>>, LikeTail, <<When(<<"LIKE", Blank>>, <<Text>>, <<Rest>>)>>)>>)>>
ParseShowProcesslist == <<M(<<"SHOW", "PROCESSLIST">>), Anywhere(<<"FULL">>)>>
ParseShowStatus ==
    <<M(<<"SHOW">>), When(<<"GLOBAL">>, <<Put(Yes)>> \o StatusTail, <<Put(No), When(<<"SESSION">>, StatusTail, StatusTail)>>)>>
ParseShowCollation == <<M(<<"SHOW", "COLLATION">>), When(<<"LIKE">>, <<Text>>, <<Rest>>)>>
ParseShowIndex == <<M(<<"SHOW", "INDEX">>), Seek(<<"FROM">>, <<QNameOr>>, <<Fail>>)>>
ParseShowAlterTable == <<M(<<"SHOW", "ALTER", "TABLE">>), FromDatabase>>
ParseShowView == <<M(<<"SHOW", "VIEW">>), Seek(<<Blank, "FROM", Blank>>, <<QNameOr>>, <<Fail>>)>>
ParseShowCreateMaterializedView == NameAfter(<<"SHOW", "CREATE", "MATERIALIZED", "VIEW">>)
ParseDropRepository == <<M(<<"DROP", "REPOSITORY">>), Flag(IfExists), Name>>
ParseBackupDatabase ==
    <<M(<<"BACKUP", "DATABASE">>), Name, M(<<"TO">>), Name, Props, When(<<"BACKUP">>, <<Name>>, <<Put(<<"#stamp">>)>>)>>
ParseRestoreDatabase == <<M(<<"RESTORE", "DATABASE">>), Name, M(<<"FROM">>), Name, M(<<"BACKUP">>), Name>>
ParseCreateMaterializedView == <<M(<<"CREATE", "MATERIALIZED", "VIEW">>), Flag(IfNotExists), QName, Peek(<<Columns>>), View>>
ParseDropMaterializedView == <<M(<<"DROP", "MATERIALIZED", "VIEW">>), Flag(IfExists), QName>>
ParseAlterMaterializedView ==
    <<M(<<"ALTER", "MATERIALIZED", "VIEW">>), QName,
      OneOf(<<Case_(W(<<"PAUSE", "REFRESH">>), <<Put(<<"PAUSE">>)>>), Case_(W(<<"RESUME", "REFRESH">>), <<Put(<<"RESUME">>)>>),
              Case_(W(<<"RENAME", "TO">>), <<Put(<<"RENAME">>), Raw>>)>>)>>
ParseRefreshMaterializedView ==
    <<M(<<"REFRESH", "MATERIALIZED", "VIEW">>), QName, When(<<"COMPLETE">>, <<Put(<<"COMPLETE">>)>>, <<Put(<<"FAST">>)>>)>>

(* What is searched for IDENTIFIED BY is one word, so no password is found.*)
ParseCreateUser == <<Anywhere(IfNotExists), M(<<"CREATE", "USER">>), User, Put(None)>>
ParseDropUser == <<Anywhere(IfExists), M(<<"DROP", "USER">>), User>>
CatalogType == <<When(<<"TYPE">>, <<When(<<"=">>, << >>, << >>), Word>>, <<Put(<<"iceberg">>)>>)>>
ParseCreateCatalog ==
    <<M(<<"CREATE", "CATALOG">>), Name, Props,
      When(<<"PROPERTIES">>, CatalogType, <<When(<<"WITH">>, CatalogType, <<Put(<<"iceberg">>)>>)>>)>>
ParseDropCatalog == <<Anywhere(IfExists), M(<<"DROP", "CATALOG">>), Name>>
ParseRefreshCatalog == NameAfter(<<"REFRESH", "CATALOG">>)

ParseCreateIndex ==
    <<M(<<"CREATE", "INDEX">>), Name, M(<<"ON">>), QName,
      IfStarts(<<"(">>, <<Columns, PropsAt, WhenCut(<<"USING">>, <<OptName(None)>>, <<Put(None)>>)>>, <<Put(<< >>), Put(<< >>), Put(None)>>)>>
ParseDropIndex == <<M(<<"DROP", "INDEX">>), FlagCut(IfExists), Name, M(<<"ON">>), QName>>
ParseCancelAlterTable ==
    <<M(<<"CANCEL", "ALTER", "TABLE">>), Seek(<<"FROM">>, <<Name, When(<<".">>, << >>, << >>), Name>>, <<Dotted>>)>>
ParseAlterColocateGroup ==
    <<M(<<"ALTER", "COLOCATE", "GROUP">>), Name,
      OneOf(<<CaseCut(W(<<"ADD", "TABLE">>), <<Put(<<"ADD">>), QName>>), CaseCut(W(<<"REMOVE", "TABLE">>), <<Put(<<"REMOVE">>), QName>>),
              CaseCut(W(<<"SET", "PROPERTIES">>), <<Put(<<"SET">>), PropsList>>)>>)>>
ParseAlterDatabase ==
    <<M(<<"ALTER", "DATABASE">>), Name, WhenCut(W(<<"SET", "PROPERTIES">>), <<PropsList>>, <<Put(<< >>)>>)>>
ParseDropView == <<M(<<"DROP", "VIEW">>), FlagCut(IfExists), QName>>
ParseAlterView == <<M(<<"ALTER", "VIEW">>), QName, When(<<"AS", Blank>>, <<Raw>>, <<Raw>>)>>

RenameColumn == <<Put(<<"RENAME">>), Name, M(<<"TO">>), Name>>
AddPartition ==
    <<Put(<<"ADDPART">>), Name,
      WhenCut(W(<<"VALUES", "LESS", "THAN">>), <<IfStarts(<<"(">>, <<Values, Props>>, <<Put(<< >>), Put(<< >>)>>)>>, <<Put(<< >>), Put(<< >>)>>)>>
DropPartition == <<Put(<<"DROPPART">>), FlagCut(IfExists), Name, Is(<<"FORCE">>)>>
AddRollup == <<Put(<<"ADDROLLUP">>), Name, IfStarts(<<"(">>, <<Columns, Props>>, <<Put(<< >>), Put(<< >>)>>)>>
DropRollup == <<Put(<<"DROPROLLUP">>), FlagCut(IfExists), Name>>
ReplaceWith == <<Put(<<"REPLACE">>), SkipCut(<<"TABLE">>), Name, IfStarts(<<"SWAP">>, <<Put(Yes)>>, <<Put(No)>>), PropsAt>>
AddGeneratedColumn == <<Put(<<"GENERATED">>), Name, OptName(<<"STRING">>), WhenCut(<<"COMMENT">>, <<Text>>, <<Put(<< >>)>>)>>
ParseAlterTableDoris ==
    <<M(<<"ALTER", "TABLE">>), QName,
      OneOf(<<Case_(W(<<"RENAME", "COLUMN">>), RenameColumn), CaseCut(W(<<"ADD", "PARTITION">>), AddPartition),
              CaseCut(W(<<"DROP", "PARTITION">>), DropPartition), CaseCut(W(<<"ADD", "ROLLUP">>), AddRollup),
              CaseCut(W(<<"DROP", "ROLLUP">>), DropRollup), CaseCut(W(<<"REPLACE", "WITH">>), ReplaceWith),
              CaseCut(W(<<"ADD", "GENERATED", "COLUMN">>), AddGeneratedColumn), CaseCut(<<"COMMENT">>, <<Put(<<"COMMENT">>), Text>>),
              CaseCut(W(<<"SET", "PROPERTIES">>), <<Put(<<"SET">>), PropsList>>)>>)>>

Jobs == IfStarts(<<"JOB", Blank>>, <<Step("jobid", << >>, << >>)>>, <<Name>>)
ParseExportTable == <<M(<<"EXPORT", "TABLE">>), Pair(<<Blank, "TO", Blank>>), PropsAt, Step("skipword", << >>, << >>), Word>>
ParseCancelExport == NameAfter(<<"CANCEL", "EXPORT">>)
ParseCreateFunction ==
    <<M(<<"CREATE", "FUNCTION">>), FlagCut(IfNotExists), Name,
      IfStarts(<<"(">>, <<Columns, PropsAt, WhenCut(<<"RETURNS">>, <<OptName(None)>>, <<Put(None)>>)>>, <<Put(<< >>), Put(<< >>), Put(None)>>)>>
ParseDropFunction == <<M(<<"DROP", "FUNCTION">>), FlagCut(IfExists), Name, Columns>>
ParseShowCreateFunction == NameAfter(<<"SHOW", "CREATE", "FUNCTION">>)
ParseDescFunction == <<WhenCut(W(<<"DESCRIBE", "FUNCTION">>), << >>, <<M(<<"DESC", "FUNCTION">>)>>), Name>>
ParseAnalyzeTable ==
    <<M(<<"ANALYZE", "TABLE">>), QName, Look(W(<<"UPDATE", "COLUMNS">>), <<Columns>>, <<Put(<< >>)>>),
      Look(W(<<"SAMPLE", "RATE">>), <<Word>>, <<Put(None)>>)>>
ParseDropStats == <<M(<<"DROP", "STATS">>), QName, WhenCut(<<"COLUMNS">>, <<Columns>>, <<Put(<< >>)>>)>>
ParseDropAnalyzeJob == NameAfter(<<"DROP", "ANALYZE", "JOB">>)
ParseKillAnalyzeJob == NameAfter(<<"KILL", "ANALYZE", "JOB">>)
ParseKillQuery == <<M(<<"KILL", "QUERY">>), NumberStep>>
ParseKillConnection == <<M(<<"KILL">>), When(<<"CONNECTION">>, << >>, << >>), NumberStep>>
ParseAdminCheckTable == NameAfter(<<"ADMIN", "CHECK", "TABLE">>)
ParseAlterStats == <<M(<<"ALTER", "STATS">>), Name, Props>>
ParseShowAnalyze == <<M(<<"SHOW", "ANALYZE">>), Step("unless", << >>, <<<<Put(None)>>, <<Jobs>>>>)>>
ParseShowStats == NameAfter(<<"SHOW", "STATS">>)
ParseShowTableStats ==
    <<WhenCut(W(<<"SHOW", "TABLE", "STATISTICS">>), << >>, <<M(<<"SHOW", "TABLE", "STATS">>), SkipCut(<< >>)>>), Name>>
CronText == <<IfStarts(<<"(">>, <<Step("inparens", << >>, << >>)>>, <<Word>>)>>
ParseCreateJob ==
    <<M(<<"CREATE", "JOB">>), Name,
      Peek(<<WhenCut(W(<<"ON", "SCHEDULE">>), <<Seek(<<"CRON">>, CronText, <<Raw>>)>>, <<Put(<< >>)>>)>>),
      Look(<<"EXECUTE">>, <<Text>>, <<Put(<< >>)>>)>>
ParseDropJob == <<M(<<"DROP", "JOB">>), SkipCut(IfExists), Name>>
ParsePauseJob == NameAfter(<<"PAUSE", "JOB">>)
ParseResumeJob == NameAfter(<<"RESUME", "JOB">>)
ParseCancelTask == NameAfter(<<"CANCEL", "TASK">>)
ParseInstallPlugin == <<M(<<"INSTALL", "PLUGIN">>), Name, M(<<"FROM">>), Text>>
ParseUninstallPlugin == NameAfter(<<"UNINSTALL", "PLUGIN">>)
ParseRecoverDatabase == NameAfter(<<"RECOVER", "DATABASE">>)
ParseRecoverTable == <<M(<<"RECOVER", "TABLE">>), Step("recover", << >>, << >>)>>
ParseRecoverPartition == <<M(<<"RECOVER", "PARTITION">>), Name, Name, Name>>
ParseDropCatalogRecycleBin == <<M(<<"DROP", "CATALOG", "RECYCLE", "BIN">>), WhenCut(<<"WHERE">>, <<Raw>>, <<Put(None)>>)>>

BlockRule(verb) == <<verb, Blank, "SQL", "_", "BLOCK", "_", "RULE">>
ParseCreateSqlBlockRule == <<Must(BlockRule("CREATE")), Name, Props>>
ParseAlterSqlBlockRule == <<Must(BlockRule("ALTER")), Name, Props>>
ParseDropSqlBlockRule == <<Must(BlockRule("DROP")), SkipCut(IfExists), Name>>
ParseShowSqlBlockRule == <<Must(BlockRule("SHOW")), WhenCut(<<"FOR">>, <<Name>>, <<RestSemi>>)>>
ParseCreateRowPolicy ==
    <<M(<<"CREATE", "ROW", "POLICY">>), Name, SkipCut(<<"ON">>), QName, SkipCut(<<"AS">>), OptName(<<"PERMIT">>),
      WhenCut(<<"USING">>, <<Text>>, <<Put(<< >>)>>)>>
ParseDropRowPolicy ==
    <<M(<<"DROP", "ROW", "POLICY">>), SkipCut(IfExists), Name, WhenCut(<<"ON">>, <<QName>>, <<Put(None), Put(<< >>)>>)>>
ParseShowRowPolicy == <<M(<<"SHOW", "ROW", "POLICY">>), RestSemi>>
ParseShowFunctions == <<M(<<"SHOW", "FUNCTIONS">>), WhenCut(<<"LIKE">>, <<Text>>, <<RestSemi>>)>>

-----------------------------------------------------------------------------
(* SET of a variable: try_parse_set_variable and parse_set_value.          *)
Literal(t, v) == <<t, v>>
RECURSIVE Unescape(_)
Unescape(s) ==
    IF s = << >> THEN << >>
    ELSE IF s[1] # "\\" THEN <<s[1]>> \o Unescape(Tail(s))
    ELSE IF Len(s) > 1 /\ s[2] \in {"'", "\"", "\\"} THEN <<s[2]>> \o Unescape(SubSeq(s, 3, Len(s)))
    ELSE IF Len(s) > 1 THEN <<s[1], s[2]>> \o Unescape(SubSeq(s, 3, Len(s)))
    ELSE s
ParseSetValue(text) ==
    LET s == TrimText(text)
        number == s \notin {<< >>, <<".">>} /\ Len(SelectSeq(s, LAMBDA a : a = ".")) < 2 /\ \A i \in DOMAIN s : s[i] \in Digits \cup {"."}
    IN  CASE s # << >> /\ s[1] = Last(s) /\ s[1] \in Quotes \ {"bq"} -> Literal("string", Unescape(SubSeq(s, 2, Len(s) - 1)))
          [] s \in {<<"TRUE">>, <<"ON">>} -> Literal("bool", Yes)
          [] s \in {<<"FALSE">>, <<"OFF">>} -> Literal("bool", No)
          [] s \in {<<"NULL">>, <<"DEFAULT">>} -> Literal("null", << >>)
          [] number -> Literal(IF Contains(s, ".") THEN "float" ELSE "int", s)
          [] OTHER -> Literal("string", s)
Stmt(k, v) == [k |-> k, v |-> v]
Refused == Stmt("error", << >>)
ForSqlParser == Stmt("sqlparser", << >>)    \* left to the sqlparser library
Assigned(s, global) ==
    LET sep == IF Find(s, <<":", "=">>) # 0 THEN <<":", "=">> ELSE IF Find(s, <<"=">>) # 0 THEN <<"=">> ELSE <<Blank, "TO", Blank>>
        at == Find(s, sep)
        name == TrimWith(TrimText(SubSeq(s, 1, at - 1)), Quotes \ {"'"})
    IN  IF Starts(s, <<"@">>) \/ at = 0 \/ name = << >> THEN ForSqlParser
        ELSE Stmt("SetVariable", <<name, ParseSetValue(SubSeq(s, at + Len(sep), Len(s))), global>>)
TryParseSetVariable(sql) ==
    LET after == Cut(TrimWith(sql, {Blank, ";"}), 2)
        global == Starts(after, <<"GLOBAL", Blank>>)
        s == IF global \/ Starts(after, <<"SESSION", Blank>>) THEN Cut(after, 2) ELSE after
        names(n) == Stmt("SetVariable", <<<<"#charset">>, Literal("string", TrimQuotes(Cut(s, n))), No>>)
    IN  IF ~global /\ Starts(s, <<"NAMES">>) THEN names(1)
        ELSE IF ~global /\ Starts(s, W(<<"CHARACTER", "SET">>)) THEN names(3)
        ELSE IF Starts(s, <<"@", "@", "GLOBAL", ".">>) THEN Assigned(Cut(s, 4), Yes)
        ELSE IF Starts(s, <<"@", "@", "SESSION", ".">>) THEN Assigned(Cut(s, 4), No)
        ELSE IF Starts(s, <<"@", "@">>) THEN Assigned(Cut(s, 2), No)
        ELSE Assigned(s, IF global THEN Yes ELSE No)

(* Transactions.                                                           *)
IsolationLevels == {W(<<"READ", "UNCOMMITTED">>), W(<<"READ", "COMMITTED">>), W(<<"REPEATABLE", "READ">>), <<"SERIALIZABLE">>}
Transaction(sql) ==
    LET s == TrimWith(sql, {Blank, ";"})
        level == W(<<"SET", "TRANSACTION", "ISOLATION", "LEVEL">>)
        tail(p) == Cut(s, Len(p))
        release == W(<<"RELEASE", "SAVEPOINT">>)
        back == W(<<"ROLLBACK", "TO">>)
    IN  CASE s \in {W(<<"START", "TRANSACTION">>), <<"BEGIN">>, W(<<"BEGIN", "WORK">>)} -> Stmt("StartTransaction", << >>)
          [] s \in {<<"COMMIT">>, W(<<"COMMIT", "WORK">>)} -> Stmt("Commit", << >>)
          [] s \in {<<"ROLLBACK">>, W(<<"ROLLBACK", "WORK">>)} -> Stmt("Rollback", << >>)
          [] Starts(s, <<"SAVEPOINT">>) /\ Len(s) > 1 -> Stmt("Savepoint", <<Cut(s, 1)>>)
          [] Starts(s, back) /\ tail(back) # << >> -> Stmt("RollbackTo", <<tail(back)>>)
          [] Starts(s, release) /\ tail(release) # << >> -> Stmt("ReleaseSavepoint", <<tail(release)>>)
          [] Starts(s, level) -> IF tail(level) \in IsolationLevels THEN Stmt("SetTransactionIsolation", <<tail(level)>>) ELSE Refused
          [] OTHER -> Stmt("none", << >>)

(* INSERT ... SET to INSERT ... VALUES; FROM DUAL for ON DUPLICATE KEY.    *)
RECURSIVE SplitOnComma(_, _, _, _)
SplitOnComma(s, cur, depth, quote) ==
    IF s = << >> THEN IF TrimText(cur) = << >> THEN << >> ELSE <<TrimText(cur)>>
    ELSE LET c == s[1]
             on(d, q) == SplitOnComma(Tail(s), Append(cur, c), d, q)
         IN  CASE quote # "" -> on(depth, IF c = quote /\ (cur = << >> \/ Last(cur) # "\\") THEN "" ELSE quote)
               [] quote = "" /\ c \in Quotes -> on(depth, c)
               [] quote = "" /\ c = "(" -> on(depth + 1, "")
               [] quote = "" /\ c = ")" -> on(IF depth > 0 THEN depth - 1 ELSE 0, "")
               [] quote = "" /\ c = "," /\ depth = 0 -> <<TrimText(cur)>> \o SplitOnComma(Tail(s), << >>, 0, "")
               [] OTHER -> on(depth, quote)
JoinItems(items) == FlattenSeq([i \in DOMAIN items |-> IF i = 1 THEN items[i] ELSE <<",", Blank>> \o items[i]])
ConvertInsertSetToValues(sql) ==
    LET into == LET s == Cut(TrimText(sql), 1) IN IF Starts(s, <<"INTO">>) THEN Cut(s, 1) ELSE s
        at == Find(into, <<Blank, "SET", Blank>>)
        target == TrimText(SubSeq(into, 1, at - 1))
        paren == SelectInSeq(target, LAMBDA a : a = "(")
        hasColumns == target # << >> /\ Last(target) = ")" /\ paren # 0
        set == SelectSeq(SplitOnComma(Cut(into, at + 2), << >>, 0, ""), LAMBDA x : Contains(x, "="))
        eq(i) == SelectInSeq(set[i], LAMBDA a : a = "=")
        names == JoinItems([i \in DOMAIN set |-> TrimText(SubSeq(set[i], 1, eq(i) - 1))])
        values == JoinItems([i \in DOMAIN set |-> Cut(set[i], eq(i))])
        parens(t) == <<"(">> \o t \o <<")">>
    IN  W(<<"INSERT", "INTO">>) \o <<Blank>> \o (IF hasColumns THEN TrimText(SubSeq(target, 1, paren - 1)) ELSE target) \o <<Blank>>
        \o (IF hasColumns THEN SubSeq(target, paren, Len(target)) ELSE parens(names)) \o <<Blank, "VALUES", Blank>> \o parens(values)
OnDuplicate == W(<<"ON", "DUPLICATE", "KEY">>)
FixupInsertSelectOnDuplicate(sql) ==
    LET s == TrimText(sql)
        at == Find(s, OnDuplicate)
    IN  IF Starts(s, <<"INSERT">>) /\ at # 0 /\ Find(s, W(<<"FROM", "DUAL">>)) = 0 /\ Find(SubSeq(s, 1, at - 1), <<"SELECT">>) # 0
        THEN SubSeq(s, 1, at - 1) \o <<Blank, "FROM", Blank, "DUAL", Blank>> \o SubSeq(s, at, Len(s)) ELSE sql

-----------------------------------------------------------------------------
(* CREATE TABLE: the clauses sqlparser does not know are read and cut out. *)
(* Every key clause is looked for in the original text and cut out of the  *)
(* text that earlier clauses have already left.                            *)
RECURSIVE MatchingParen(_, _, _, _)
MatchingParen(s, i, depth, quote) ==
    IF i > Len(s) THEN 0
    ELSE IF quote # "" THEN IF s[i] = "\\" THEN MatchingParen(s, i + 2, depth, quote)
                            ELSE MatchingParen(s, i + 1, depth, IF s[i] = quote THEN "" ELSE quote)
    ELSE IF s[i] \in {"'", "\""} THEN MatchingParen(s, i + 1, depth, s[i])
    ELSE IF s[i] = "(" THEN MatchingParen(s, i + 1, depth + 1, "")
    ELSE IF s[i] # ")" THEN MatchingParen(s, i + 1, depth, "")
    ELSE IF depth = 1 THEN i ELSE MatchingParen(s, i + 1, depth - 1, "")
KeyTypes == <<W(<<"PRIMARY", "KEY">>), W(<<"UNIQUE", "KEY">>), W(<<"DUPLICATE", "KEY">>), W(<<"AGGREGATE", "KEY">>), <<"UNIQUE">> >>
(* UNIQUE on its own counts after a comma or a parenthesis only.           *)
StandaloneUnique(sql) ==
    LET before(i) == TrimText(SubSeq(sql, 1, i - 1))
        ok(i) == ~Starts(SubSeq(sql, i, Len(sql)), KeyTypes[2]) /\ before(i) # << >> /\ Last(before(i)) \in {",", "("}
        places == {i \in Places(sql, <<"UNIQUE">>) : ok(i)}
    IN  IF places = {} THEN 0 ELSE CHOOSE i \in places : \A j \in places : i <= j
CutKey(table, type) ==
    LET sql == table.sql
        at == IF type = <<"UNIQUE">> THEN StandaloneUnique(sql) ELSE Find(sql, type)
        open == SelectInSeq(SubSeq(sql, at, Len(sql)), LAMBDA a : a = "(")
        end == MatchingParen(sql, at + open, 1, "")
        before == TrimText(SubSeq(sql, at, at + open - 2))
        named == type[1] \in {"PRIMARY", "UNIQUE"} /\ Last(before) # "KEY"
        kept == TrimText(SubSeq(table.clean, 1, at - 1))
        head == IF kept # << >> /\ Last(kept) = "," THEN TrimWith(kept, {Blank, ","}) ELSE kept
    IN  IF at = 0 \/ open = 0 \/ end = 0 \/ ~table.ok THEN table
        ELSE IF Len(table.clean) < end THEN [table EXCEPT !.ok = FALSE]
        ELSE [table EXCEPT !.clean = head \o Cut(table.clean, end), !.type = type[1],
                           !.keys = Append(@, <<IF named THEN before ELSE None, ItemsOf(SubSeq(sql, at + open, end - 1))>>)]
AggTypes == <<"SUM", "MAX", "MIN", "REPLACE", "HLL", "BITMAP", "QUANTILE">>
SqlTypes == <<"INT", "BIGINT", "SMALLINT", "TINYINT", "FLOAT", "DOUBLE", "DECIMAL", "VARCHAR", "CHAR", "DATE", "DATETIME", "TEXT", "BLOB", "LARGEINT">>
CutAggregate(sql, type) ==
    LET i == SelectInSeq(AggTypes, LAMBDA agg : Find(sql, <<type, Blank, agg>>) # 0)
        at == Find(sql, <<type, Blank, AggTypes[i]>>)
        after == SubSeq(sql, at + 3, Len(sql))
        first == SelectInSeq(after, LAMBDA a : a # Blank)
    IN  IF i = 0 THEN sql ELSE SubSeq(sql, 1, at) \o (IF first = 0 THEN << >> ELSE SubSeq(after, first, Len(after)))
RECURSIVE CutAggregates(_, _)
CutAggregates(sql, types) ==
    IF sql = << >> \/ types = << >> THEN sql ELSE CutAggregates(CutAggregate(sql, Head(types)), Tail(types))
Distribution(sql, at) ==
    LET clause == SubSeq(sql, at, Len(sql))
        hash == Find(clause, <<"HASH">>)
        cols == Cut(clause, hash)
        close == SelectInSeq(cols, LAMBDA a : a = ")")
        rest == Cut(cols, close)
        n == FirstWord(Cut(rest, 1))
    IN  IF at = 0 \/ hash = 0 \/ ~Starts(cols, <<"(">>) \/ close = 0 THEN None
        ELSE <<ItemsOf(SubSeq(cols, 2, close - 1)),
               IF Starts(rest, <<"BUCKETS">>) /\ n # << >> /\ \A i \in DOMAIN n : n[i] \in Digits THEN n ELSE <<"1">> >>
PreprocessCreateTable(sql) ==
    LET upTo(s, i) == IF i = 0 THEN s ELSE TrimText(SubSeq(s, 1, i - 1))
        keyed == FoldLeft(CutKey, [ok |-> TRUE, sql |-> sql, clean |-> sql, keys |-> << >>, type |-> "DUPLICATE"], KeyTypes)
        plain == CutAggregates(keyed.clean, SqlTypes)
        dist == Find(plain, W(<<"DISTRIBUTED", "BY">>))
        undistributed == upTo(plain, dist)
        props == FindLast(undistributed, <<"PROPERTIES">>)
        bare == upTo(undistributed, props)
    IN  IF ~keyed.ok THEN Refused
        ELSE Stmt("CreateTable", <<upTo(bare, Find(bare, W(<<"PARTITION", "BY">>))), <<keyed.type>>, keyed.keys, Distribution(plain, dist),
                  IF props = 0 THEN << >> ELSE ParseProperties(SubSeq(undistributed, props, Len(undistributed)))>>)

-----------------------------------------------------------------------------
(* parse_sql: the first entry whose words begin the text decides.          *)
Entry(words, k, rule) == [p |-> W(words), k |-> k, rule |-> rule, whole |-> FALSE, any |-> {}]
Plain(words, k) == Entry(words, k, << >>)
Exactly(words, k) == [Plain(words, k) EXCEPT !.whole = TRUE]
DorisAlterations == {W(<<"RENAME", "COLUMN">>), W(<<"SET", "PROPERTIES">>), <<"COMMENT">>, W(<<"ADD", "PARTITION">>), W(<<"DROP", "PARTITION">>),
                     W(<<"ADD", "ROLLUP">>), W(<<"DROP", "ROLLUP">>), W(<<"REPLACE", "WITH">>), W(<<"ADD", "GENERATED", "COLUMN">>)}
ShowAndBackup == <<
    Entry(<<"CREATE", "REPOSITORY">>, "CreateRepository", ParseCreateRepository), Entry(<<"DROP", "REPOSITORY">>, "DropRepository", ParseDropRepository),
    Plain(<<"SHOW", "REPOSITORIES">>, "ShowRepositories"), Entry(<<"SHOW", "CREATE", "DATABASE">>, "ShowCreateDatabase", ParseShowCreateDatabase),
    Entry(<<"SHOW", "CREATE", "VIEW">>, "ShowCreateView", ParseShowCreateView), Entry(<<"SHOW", "PARTITIONS">>, "ShowPartitions", ParseShowPartitions),
    Entry(<<"SHOW", "TABLE", "STATUS">>, "ShowTableStatus", ParseShowTableStatus), Entry(<<"SHOW", "VARIABLES">>, "ShowVariables", ParseShowVariables),
    Entry(<<"SHOW", "PROCESSLIST">>, "ShowProcessList", ParseShowProcesslist), Entry(<<"SHOW", "STATUS">>, "ShowStatus", ParseShowStatus),
    Plain(<<"SHOW", "ENGINES">>, "ShowEngines"), Plain(<<"SHOW", "CHARSET">>, "ShowCharset"), Plain(<<"SHOW", "CHARACTER", "SET">>, "ShowCharset"),
    Entry(<<"SHOW", "COLLATION">>, "ShowCollation", ParseShowCollation), Entry(<<"SHOW", "INDEX">>, "ShowIndex", ParseShowIndex),
    Entry(<<"SHOW", "KEYS">>, "ShowIndex", ParseShowIndex), Entry(<<"SHOW", "ALTER", "TABLE">>, "ShowAlterTable", ParseShowAlterTable),
    Plain(<<"SHOW", "BACKENDS">>, "ShowBackends"), Plain(<<"SHOW", "FRONTENDS">>, "ShowFrontends"),
    Plain(<<"SHOW", "DYNAMIC", "PARTITION">>, "ShowDynamicPartitionTables"), Entry(<<"SHOW", "VIEW">>, "ShowView", ParseShowView),
    Entry(<<"SHOW", "CREATE", "MATERIALIZED", "VIEW">>, "ShowCreateMaterializedView", ParseShowCreateMaterializedView),
    Plain(<<"SHOW", "TABLE", "ID">>, "ShowTableId"), Plain(<<"SHOW", "PARTITION", "ID">>, "ShowPartitionId"),
    Entry(<<"BACKUP", "DATABASE">>, "BackupDatabase", ParseBackupDatabase), Entry(<<"RESTORE", "DATABASE">>, "RestoreDatabase", ParseRestoreDatabase) >>
ViewsAndTables == <<
    Entry(<<"CREATE", "MATERIALIZED", "VIEW">>, "CreateMaterializedView", ParseCreateMaterializedView),
    Entry(<<"DROP", "MATERIALIZED", "VIEW">>, "DropMaterializedView", ParseDropMaterializedView),
    Entry(<<"ALTER", "MATERIALIZED", "VIEW">>, "AlterMaterializedView", ParseAlterMaterializedView),
    Entry(<<"REFRESH", "MATERIALIZED", "VIEW">>, "RefreshMaterializedView", ParseRefreshMaterializedView),
    Entry(<<"CREATE", "USER">>, "CreateUser", ParseCreateUser), Entry(<<"DROP", "USER">>, "DropUser", ParseDropUser),
    Plain(<<"SHOW", "USERS">>, "ShowUsers"), Entry(<<"CREATE", "CATALOG">>, "CreateCatalog", ParseCreateCatalog),
    Entry(<<"DROP", "CATALOG">>, "DropCatalog", ParseDropCatalog), Plain(<<"SHOW", "CATALOGS">>, "ShowCatalogs"),
    Entry(<<"REFRESH", "CATALOG">>, "RefreshCatalog", ParseRefreshCatalog), Entry(<<"CREATE", "INDEX">>, "CreateIndex", ParseCreateIndex),
    Entry(<<"DROP", "INDEX">>, "DropIndex", ParseDropIndex), Entry(<<"CANCEL", "ALTER", "TABLE">>, "CancelAlterTable", ParseCancelAlterTable),
    Entry(<<"ALTER", "COLOCATE", "GROUP">>, "AlterColocateGroup", ParseAlterColocateGroup),
    Entry(<<"ALTER", "DATABASE">>, "AlterDatabase", ParseAlterDatabase), Entry(<<"DROP", "VIEW">>, "DropView", ParseDropView),
    Entry(<<"ALTER", "VIEW">>, "AlterView", ParseAlterView),
    [Entry(<<"ALTER", "TABLE">>, "AlterTable", ParseAlterTableDoris) EXCEPT !.any = DorisAlterations] >>
JobsAndRules == <<
    Entry(<<"EXPORT", "TABLE">>, "ExportTable", ParseExportTable), Entry(<<"CANCEL", "EXPORT">>, "CancelExport", ParseCancelExport),
    Exactly(<<"SHOW", "EXPORT">>, "ShowExport"), Entry(<<"CREATE", "FUNCTION">>, "CreateFunction", ParseCreateFunction),
    Entry(<<"DROP", "FUNCTION">>, "DropFunction", ParseDropFunction), Entry(<<"SHOW", "CREATE", "FUNCTION">>, "ShowCreateFunction", ParseShowCreateFunction),
    Entry(<<"SHOW", "FUNCTIONS">>, "ShowFunctions", ParseShowFunctions), Entry(<<"DESC", "FUNCTION">>, "DescFunction", ParseDescFunction),
    Entry(<<"DESCRIBE", "FUNCTION">>, "DescFunction", ParseDescFunction), Entry(<<"ANALYZE", "TABLE">>, "AnalyzeTable", ParseAnalyzeTable),
    Entry(<<"DROP", "STATS">>, "DropStats", ParseDropStats), Entry(<<"DROP", "ANALYZE", "JOB">>, "DropJob", ParseDropAnalyzeJob),
    Entry(<<"KILL", "ANALYZE">>, "KillAnalyzeJob", ParseKillAnalyzeJob), Entry(<<"KILL", "QUERY">>, "KillQuery", ParseKillQuery),
    Entry(<<"KILL">>, "KillConnection", ParseKillConnection), Entry(<<"ADMIN", "CHECK", "TABLE">>, "AdminCheckTable", ParseAdminCheckTable),
    Plain(<<"ADMIN", "SHOW", "REPLICA">>, "AdminShowReplica"), Entry(<<"ALTER", "STATS">>, "AlterStats", ParseAlterStats),
    Entry(<<"SHOW", "ANALYZE">>, "ShowAnalyze", ParseShowAnalyze), Entry(<<"SHOW", "STATS">>, "ShowStats", ParseShowStats),
    Entry(<<"SHOW", "TABLE", "STATS">>, "ShowTableStats", ParseShowTableStats), Entry(<<"SHOW", "TABLE", "STATISTICS">>, "ShowTableStats", ParseShowTableStats),
    Entry(<<"CREATE", "JOB">>, "CreateJob", ParseCreateJob), Entry(<<"DROP", "JOB">>, "DropJob", ParseDropJob),
    Entry(<<"PAUSE", "JOB">>, "PauseJob", ParsePauseJob), Entry(<<"RESUME", "JOB">>, "ResumeJob", ParseResumeJob),
    Entry(<<"CANCEL", "TASK">>, "CancelTask", ParseCancelTask), Entry(<<"INSTALL", "PLUGIN">>, "InstallPlugin", ParseInstallPlugin),
    Entry(<<"UNINSTALL", "PLUGIN">>, "UninstallPlugin", ParseUninstallPlugin), Exactly(<<"SHOW", "PLUGINS">>, "ShowPlugins"),
    Entry(<<"RECOVER", "DATABASE">>, "RecoverDatabase", ParseRecoverDatabase), Entry(<<"RECOVER", "TABLE">>, "RecoverTable", ParseRecoverTable),
    Entry(<<"RECOVER", "PARTITION">>, "RecoverPartition", ParseRecoverPartition),
    Entry(<<"DROP", "CATALOG", "RECYCLE">>, "DropCatalogRecycleBin", ParseDropCatalogRecycleBin), Plain(<<"SHOW", "CATALOG", "RECYCLE">>, "ShowCatalogRecycleBin"),
    [Entry(<<"CREATE">>, "CreateSqlBlockRule", ParseCreateSqlBlockRule) EXCEPT !.p = BlockRule("CREATE")],
    [Entry(<<"ALTER">>, "AlterSqlBlockRule", ParseAlterSqlBlockRule) EXCEPT !.p = BlockRule("ALTER")],
    [Entry(<<"DROP">>, "DropSqlBlockRule", ParseDropSqlBlockRule) EXCEPT !.p = BlockRule("DROP")],
    [Entry(<<"SHOW">>, "ShowSqlBlockRule", ParseShowSqlBlockRule) EXCEPT !.p = BlockRule("SHOW")],
    Entry(<<"CREATE", "ROW", "POLICY">>, "CreateRowPolicy", ParseCreateRowPolicy), Entry(<<"DROP", "ROW", "POLICY">>, "DropRowPolicy", ParseDropRowPolicy),
    Entry(<<"SHOW", "ROW", "POLICY">>, "ShowRowPolicy", ParseShowRowPolicy) >>
Entries == ShowAndBackup \o ViewsAndTables \o JobsAndRules
ParseSql(text) ==
    LET s == TrimText(text)
        fits(e) == IF e.whole THEN TrimWith(s, {";"}) = e.p ELSE Starts(s, e.p) /\ (e.any = {} \/ \E a \in e.any : Find(s, a) # 0)
        i == SelectInSeq(Entries, fits)
        run == Run(Entries[i].rule, [ok |-> TRUE, rest |-> s, out |-> << >>])
        transaction == Transaction(s)
    IN  IF Starts(s, W(<<"CREATE", "TABLE">>)) THEN PreprocessCreateTable(s)
        ELSE IF i # 0 THEN IF run.ok THEN Stmt(Entries[i].k, run.out) ELSE Refused
        ELSE IF transaction.k # "none" THEN transaction
        ELSE IF Starts(s, <<"SET", Blank>>) /\ ~Starts(s, W(<<"SET", "PROPERTIES">>)) 
             THEN LET set == TryParseSetVariable(s) IN IF set = ForSqlParser THEN Stmt("sqlparser", s) ELSE set
        ELSE IF Starts(s, <<"INSERT">>) /\ Find(s, <<Blank, "SET", Blank>>) # 0 /\ Find(s, <<Blank>> \o OnDuplicate) = 0
             THEN Stmt("sqlparser", ConvertInsertSetToValues(s))
        ELSE Stmt("sqlparser", FixupInsertSelectOnDuplicate(s))

-----------------------------------------------------------------------------
(* Reference: statements as they are written, with what they say.  A part  *)
(* is a piece of text and the values it stands for.  Names are written     *)
(* bare or in backquotes; q is a backquoted one, written where the parser  *)
(* skips its keywords letter by letter and would skip a bare name as well. *)
Part(txt, vals) == [txt |-> txt, vals |-> vals]
K(words) == Part(W(words), << >>)
Says(words, vals) == Part(W(words), vals)
Named(n) == Part(n, <<n>>)
Quoted(n) == Part(<<"bq">> \o n \o <<"bq">>, <<n>>)
Table(a) == Part(a.txt, <<None>> \o a.vals)
Qualified(a, b) == Part(a.txt \o <<".">> \o b.txt, a.vals \o b.vals)
Text_(t) == Part(<<"'">> \o t \o <<"'">>, <<t>>)
List(a, b) == Part(<<"(">> \o a.txt \o <<",", Blank>> \o b.txt \o <<")">>, <<<<a.txt, b.txt>>>>)
Pairs(v) == Part(<<"(", "\"", "k", "\"", Blank, "=", Blank, "\"">> \o v \o <<"\"", ",", "'", "j", "'", "=", "'", "x", "'", ")">>,
                 <<<<<<<<"k">>, v>>, <<<<"j">>, <<"x">>>>>>>>)
Properties(v) == Part(<<"PROPERTIES", Blank>> \o Pairs(v).txt, Pairs(v).vals)
Value(v) == Part(<< >>, <<v>>)
Written(k, parts) ==
    LET shown == SelectSeq(parts, LAMBDA x : x.txt # << >>)
    IN  [txt |-> FlattenSeq([i \in DOMAIN shown |-> IF i = 1 THEN shown[i].txt ELSE <<Blank>> \o shown[i].txt]),
         says |-> Stmt(k, FlattenSeq([i \in DOMAIN parts |-> parts[i].vals]))]
ShowSentences(a, b) == {
    Written("CreateRepository", <<K(<<"CREATE", "REPOSITORY">>), a, Says(<<"WITH">>, << >>), Part(<<"S", "3">>, << <<"S", "3">> >>), Properties(<<"1">>)>>),
    Written("CreateRepository", <<K(<<"CREATE", "REPOSITORY">>), a, Value(<<"LOCAL">>), Value(<< >>)>>),
    Written("DropRepository", <<K(<<"DROP", "REPOSITORY">>), Says(<<"IF", "EXISTS">>, <<Yes>>), a>>),
    Written("DropRepository", <<K(<<"DROP", "REPOSITORY">>), Value(No), a>>),
    Written("ShowRepositories", <<K(<<"SHOW", "REPOSITORIES">>)>>),
    Written("ShowCreateDatabase", <<K(<<"SHOW", "CREATE", "DATABASE">>), a>>),
    Written("ShowCreateView", <<K(<<"SHOW", "CREATE", "VIEW">>), Value(<< >>), a>>),
    Written("ShowTableStatus", <<K(<<"SHOW", "TABLE", "STATUS", "FROM">>), a>>),
    Written("ShowTableStatus", <<K(<<"SHOW", "TABLE", "STATUS">>), Value(None)>>),
    Written("ShowVariables", <<K(<<"SHOW", "VARIABLES">>), Value(No), K(<<"LIKE">>), Text_(b.vals[1])>>),
    Written("ShowVariables", <<K(<<"SHOW", "VARIABLES">>), Says(<<"GLOBAL">>, <<Yes>>), K(<<"LIKE">>), Text_(b.vals[1])>>),
    Written("ShowProcessList", <<K(<<"SHOW", "PROCESSLIST">>), Value(No)>>),
    Written("ShowStatus", <<K(<<"SHOW", "STATUS">>), Value(No), K(<<"LIKE">>), Text_(b.vals[1])>>),
    Written("ShowCharset", <<K(<<"SHOW", "CHARACTER", "SET">>)>>),
    Written("ShowCollation", <<K(<<"SHOW", "COLLATION", "LIKE">>), Text_(b.vals[1])>>),
    Written("ShowIndex", <<K(<<"SHOW", "INDEX", "FROM">>), Value(<< >>), a>>),
    Written("ShowAlterTable", <<K(<<"SHOW", "ALTER", "TABLE", "FROM">>), a>>),
    Written("ShowCreateMaterializedView", <<K(<<"SHOW", "CREATE", "MATERIALIZED", "VIEW">>), a>>),
    Written("BackupDatabase", <<K(<<"BACKUP", "DATABASE">>), a, K(<<"TO">>), b, Value(<< >>), Value(<<"#stamp">>)>>),
    Written("RestoreDatabase", <<K(<<"RESTORE", "DATABASE">>), a, K(<<"FROM">>), b, K(<<"BACKUP">>), a>>) }
TableSentences(a, b, q) == {
    Written("CreateMaterializedView", <<K(<<"CREATE", "MATERIALIZED", "VIEW">>), Says(<<"IF", "NOT", "EXISTS">>, <<Yes>>), Table(a), List(a, b),
                                        K(<<"AS">>), Says(<<"SELECT", "x">>, <<W(<<"SELECT", "x">>)>>), Value(None)>>),
    Written("DropMaterializedView", <<K(<<"DROP", "MATERIALIZED", "VIEW">>), Says(<<"IF", "EXISTS">>, <<Yes>>), Table(a)>>),
    Written("AlterMaterializedView", <<K(<<"ALTER", "MATERIALIZED", "VIEW">>), Table(a), K(<<"RENAME", "TO">>), Value(<<"RENAME">>), Named(b.vals[1])>>),
    Written("RefreshMaterializedView", <<K(<<"REFRESH", "MATERIALIZED", "VIEW">>), Table(a), Says(<<"COMPLETE">>, << <<"COMPLETE">> >>)>>),
    Written("CreateUser", <<K(<<"CREATE", "USER">>), Value(No), Part(b.vals[1] \o <<"@", "h">>, b.vals), Value(None)>>),
    Written("DropUser", <<K(<<"DROP", "USER">>), Value(No), Named(b.vals[1])>>),
    Written("CreateCatalog", <<K(<<"CREATE", "CATALOG">>), a, Properties(<<"1">>), Value(<<"iceberg">>)>>),
    Written("DropCatalog", <<K(<<"DROP", "CATALOG">>), Value(No), a>>),
    Written("RefreshCatalog", <<K(<<"REFRESH", "CATALOG">>), a>>),
    Written("CreateIndex", <<K(<<"CREATE", "INDEX">>), a, K(<<"ON">>), Table(b), List(a, b), Properties(<<"2">>), Value(None)>>),
    Written("DropIndex", <<K(<<"DROP", "INDEX">>), Says(<<"IF", "EXISTS">>, <<Yes>>), q, K(<<"ON">>), Table(b)>>),
    Written("CancelAlterTable", <<K(<<"CANCEL", "ALTER", "TABLE">>), Qualified(a, b)>>),
    Written("CancelAlterTable", <<K(<<"CANCEL", "ALTER", "TABLE", "FROM">>), Qualified(a, b)>>),
    Written("AlterColocateGroup", <<K(<<"ALTER", "COLOCATE", "GROUP">>), a, Says(<<"ADD", "TABLE">>, << <<"ADD">> >>), Table(q)>>),
    Written("AlterColocateGroup", <<K(<<"ALTER", "COLOCATE", "GROUP">>), a, Says(<<"SET", "PROPERTIES">>, << <<"SET">> >>), Pairs(<<"3">>)>>),
    Written("AlterDatabase", <<K(<<"ALTER", "DATABASE">>), a, K(<<"SET", "PROPERTIES">>), Pairs(<<"1">>)>>),
    Written("DropView", <<K(<<"DROP", "VIEW">>), Says(<<"IF", "EXISTS">>, <<Yes>>), Table(q)>>),
    Written("DropView", <<K(<<"DROP", "VIEW">>), Value(No), Table(a)>>),
    Written("AlterView", <<K(<<"ALTER", "VIEW">>), Table(a), K(<<"AS">>), Says(<<"SELECT", "x">>, <<W(<<"SELECT", "x">>)>>)>>),
    Written("AlterTable", <<K(<<"ALTER", "TABLE">>), Table(a), Says(<<"RENAME", "COLUMN">>, << <<"RENAME">> >>), b, K(<<"TO">>), a>>),
    Written("AlterTable", <<K(<<"ALTER", "TABLE">>), Table(a), Says(<<"ADD", "PARTITION">>, << <<"ADDPART">> >>), q, K(<<"VALUES", "LESS", "THAN">>),
                            Part(<<"(", "'", "3", "'", ")">>, << << <<"3">> >> >>), Properties(<<"1">>)>>),
    Written("AlterTable", <<K(<<"ALTER", "TABLE">>), Table(a), Says(<<"DROP", "PARTITION">>, << <<"DROPPART">> >>), Value(No), q, Says(<<"FORCE">>, <<Yes>>)>>),
    Written("AlterTable", <<K(<<"ALTER", "TABLE">>), Table(a), Says(<<"ADD", "ROLLUP">>, << <<"ADDROLLUP">> >>), q, List(a, b), Properties(<<"1">>)>>),
    Written("AlterTable", <<K(<<"ALTER", "TABLE">>), Table(a), Says(<<"DROP", "ROLLUP">>, << <<"DROPROLLUP">> >>), Value(No), q>>),
    Written("AlterTable", <<K(<<"ALTER", "TABLE">>), Table(a), Says(<<"COMMENT">>, << <<"COMMENT">> >>), Text_(b.vals[1])>>) }
JobSentences(a, b, q) == {
    Written("CancelExport", <<K(<<"CANCEL", "EXPORT">>), a>>), Written("ShowExport", <<K(<<"SHOW", "EXPORT">>)>>),
    Written("CreateFunction", <<K(<<"CREATE", "FUNCTION">>), Says(<<"IF", "NOT", "EXISTS">>, <<Yes>>), q, List(a, b), Properties(<<"1">>), Value(None)>>),
    Written("DropFunction", <<K(<<"DROP", "FUNCTION">>), Value(No), a, List(a, b)>>),
    Written("ShowFunctions", <<K(<<"SHOW", "FUNCTIONS">>), Value(None)>>),
    Written("DescFunction", <<K(<<"DESC", "FUNCTION">>), a>>), Written("DescFunction", <<K(<<"DESCRIBE", "FUNCTION">>), q>>),
    Written("AnalyzeTable", <<K(<<"ANALYZE", "TABLE">>), Table(a), K(<<"UPDATE", "COLUMNS">>), List(a, b), K(<<"SAMPLE", "RATE">>), Named(<<"1">>)>>),
    Written("DropStats", <<K(<<"DROP", "STATS">>), Table(a), K(<<"COLUMNS">>), List(a, b)>>),
    Written("DropJob", <<K(<<"DROP", "ANALYZE", "JOB">>), Named(<<"1">>)>>), Written("DropJob", <<K(<<"DROP", "JOB", "IF", "EXISTS">>), q>>),
    Written("KillAnalyzeJob", <<K(<<"KILL", "ANALYZE", "JOB">>), Named(<<"2">>)>>), Written("KillQuery", <<K(<<"KILL", "QUERY">>), Named(<<"3">>)>>),
    Written("KillConnection", <<K(<<"KILL", "CONNECTION">>), Named(<<"3">>)>>), Written("KillConnection", <<K(<<"KILL">>), Named(<<"3">>)>>),
    Written("AdminCheckTable", <<K(<<"ADMIN", "CHECK", "TABLE">>), a>>), Written("AlterStats", <<K(<<"ALTER", "STATS">>), a, Properties(<<"1">>)>>),
    Written("ShowAnalyze", <<K(<<"SHOW", "ANALYZE">>), Value(None)>>), Written("ShowAnalyze", <<K(<<"SHOW", "ANALYZE", "JOB">>), Named(<<"1">>)>>),
    Written("ShowStats", <<K(<<"SHOW", "STATS">>), a>>), Written("ShowTableStats", <<K(<<"SHOW", "TABLE", "STATISTICS">>), q>>),
    Written("CreateJob", <<K(<<"CREATE", "JOB">>), a, Value(<< >>), K(<<"EXECUTE">>), Text_(b.vals[1])>>),
    Written("PauseJob", <<K(<<"PAUSE", "JOB">>), a>>), Written("CancelTask", <<K(<<"CANCEL", "TASK">>), a>>),
    Written("InstallPlugin", <<K(<<"INSTALL", "PLUGIN">>), a, K(<<"FROM">>), Text_(b.vals[1])>>),
    Written("RecoverDatabase", <<K(<<"RECOVER", "DATABASE">>), a>>), Written("RecoverTable", <<K(<<"RECOVER", "TABLE">>), Value(<< >>), a>>),
    Written("RecoverPartition", <<K(<<"RECOVER", "PARTITION">>), a, b, q>>),
    Written("CreateSqlBlockRule", <<Part(BlockRule("CREATE"), << >>), a, Properties(<<"1">>)>>),
    Written("DropSqlBlockRule", <<Part(BlockRule("DROP"), << >>), K(<<"IF", "EXISTS">>), q>>),
    Written("ShowSqlBlockRule", <<Part(BlockRule("SHOW"), << >>), K(<<"FOR">>), q>>),
    Written("CreateRowPolicy", <<K(<<"CREATE", "ROW", "POLICY">>), a, K(<<"ON">>), Table(q), Says(<<"RESTRICT">>, << <<"RESTRICT">> >>),
                                 K(<<"USING">>), Text_(<<"1">>)>>),
    Written("DropRowPolicy", <<K(<<"DROP", "ROW", "POLICY">>), a, K(<<"ON">>), Table(q)>>) }
SessionSentences(a, b) == {
    Written("StartTransaction", <<K(<<"BEGIN", "WORK">>)>>), Written("Commit", <<K(<<"COMMIT">>)>>), Written("Rollback", <<K(<<"ROLLBACK", "WORK">>)>>),
    Written("Savepoint", <<K(<<"SAVEPOINT">>), Named(a.txt)>>), Written("RollbackTo", <<K(<<"ROLLBACK", "TO">>), Named(a.txt)>>),
    Written("ReleaseSavepoint", <<K(<<"RELEASE", "SAVEPOINT">>), Named(a.txt)>>),
    Written("SetTransactionIsolation", <<K(<<"SET", "TRANSACTION", "ISOLATION", "LEVEL">>), Says(<<"READ", "COMMITTED">>, <<W(<<"READ", "COMMITTED">>)>>)>>),
    Written("SetVariable", <<K(<<"SET", "NAMES">>), Value(<<"#charset">>), Part(<<"'", "u", "3", "'">>, << Literal("string", <<"u", "3">>) >>), Value(No)>>),
    Written("SetVariable", <<K(<<"SET", "GLOBAL">>), a, Part(<<"=">>, << >>), Part(<<"3">>, << Literal("int", <<"3">>) >>), Value(Yes)>>),
    Written("SetVariable", <<K(<<"SET">>), Part(<<"@", "@", "GLOBAL", ".">> \o a.txt, a.vals), K(<<"TO">>), Part(<<"ON">>, << Literal("bool", Yes) >>), Value(Yes)>>),
    Written("SetVariable", <<K(<<"SET">>), Part(<<"@", "@">> \o a.txt, a.vals), Part(<<":", "=">>, << >>), Part(<<"2", ".", "1">>, << Literal("float", <<"2", ".", "1">>) >>), Value(No)>>),
    Written("SetVariable", <<K(<<"SET", "SESSION">>), a, Part(<<"=">>, << >>),
                             Part(<<"'", "x", "\\", "'", "\\", "\\", "'">>, << Literal("string", <<"x", "'", "\\">>) >>), Value(No)>>),
    Written("CreateTable", <<Part(W(<<"CREATE", "TABLE">>) \o <<Blank>> \o a.txt \o <<Blank, "(">> \o b.txt \o <<Blank, "INT", ",", Blank, "UNIQUE", Blank, "KEY">>
                                  \o List(a, b).txt \o <<")", Blank, "DISTRIBUTED", Blank, "BY", Blank, "HASH">> \o List(a, b).txt \o <<Blank, "BUCKETS", Blank, "3">>,
                                  << W(<<"CREATE", "TABLE">>) \o <<Blank>> \o a.txt \o <<Blank, "(">> \o b.txt \o <<Blank, "INT", ")">>, <<"UNIQUE">>,
                                     << <<None>> \o List(a, b).vals >>, List(a, b).vals \o << <<"3">> >>, << >> >>)>>),
    Written("CreateTable", <<Part(W(<<"CREATE", "TABLE">>) \o <<Blank>> \o a.txt \o <<Blank, "(">> \o b.txt \o <<Blank, "BIGINT", Blank, "SUM", ")", Blank, "AGGREGATE", Blank, "KEY">>
                                  \o List(b, a).txt \o <<Blank, "PARTITION", Blank, "BY", Blank, "x", Blank>> \o Properties(<<"2">>).txt,
                                  << W(<<"CREATE", "TABLE">>) \o <<Blank>> \o a.txt \o <<Blank, "(">> \o b.txt \o <<Blank, "BIGINT", ")">>, <<"AGGREGATE">>,
                                     << <<None>> \o List(b, a).vals >>, None >> \o Properties(<<"2">>).vals)>>),
    [txt |-> W(<<"INSERT", "INTO", "t", "SET">>) \o <<Blank>> \o a.txt \o <<Blank, "=", Blank, "f", "(", "1", ",", "2", ")", ",", Blank>> \o b.txt \o <<Blank, "=", Blank, "'", ",", "'">>,
     says |-> Stmt("sqlparser", W(<<"INSERT", "INTO", "t">>) \o <<Blank>> \o List(a, b).txt \o <<Blank, "VALUES", Blank, "(", "f", "(", "1", ",", "2", ")", ",", Blank, "'", ",", "'", ")">>)] }
Statements ==
    LET names == {Named(<<"v">>), Quoted(<<"v">>), Named(<<"t", "_", "1">>)}
        forms(a, b) == ShowSentences(a, b) \cup TableSentences(a, b, Quoted(a.vals[1])) \cup JobSentences(a, b, Quoted(b.vals[1])) \cup SessionSentences(a, b)
    IN  UNION {forms(a, b) : a, b \in names}
StatementSaysWhatItMeans(s) == ParseSql(s.txt) = s.says

=============================================================================
