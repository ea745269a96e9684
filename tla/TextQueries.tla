---------------------------- MODULE TextQueries ----------------------------
(***************************************************************************)
(* SELECT in the ClickHouse and ADB servers, whose cells are text.  A cell *)
(* is one of a few strings; NumberOf gives the value of those that parse   *)
(* as a number, NaNs holds those that parse as NaN, and TextOrder lists    *)
(* all of them in byte order, PrefixPairs the pairs of which one starts the   *)
(* other, Likes the pairs a pattern matches.  A ClickHouse query is its    *)
(* token list, an ADB query a parsed statement.                            *)
(***************************************************************************)
EXTENDS Integers, Sequences, FiniteSets, SequencesExt
CONSTANTS NumberOf, NaNs, TextOrder, Likes, PrefixPairs

Null == "NULL"
Parses(c) == c \in DOMAIN NumberOf \cup NaNs
Sign(x, y) == IF x < y THEN -1 ELSE IF x = y THEN 0 ELSE 1
Rank(c) == CHOOSE i \in DOMAIN TextOrder : TextOrder[i] = c
TextCompare(a, b) == Sign(Rank(a), Rank(b))

(* slice::sort_by is stable: every element goes behind its equals.         *)
StableInsert(sorted, x, Compare(_, _)) ==
    LET n == Cardinality({i \in DOMAIN sorted : Compare(sorted[i], x) <= 0})
    IN  SubSeq(sorted, 1, n) \o <<x>> \o SubSeq(sorted, n + 1, Len(sorted))
StableSort(s, Compare(_, _)) == FoldLeft(LAMBDA acc, x : StableInsert(acc, x, Compare), << >>, s)

Sum_(s) == FoldLeft(LAMBDA n, x : n + x, 0, s)
Take(s, n) == SubSeq(s, 1, IF n < Len(s) THEN n ELSE Len(s))

-----------------------------------------------------------------------------
(* ClickHouse: WHERE over the token list.                                  *)

Keyword(toks, kw) == SelectInSeq(toks, LAMBDA t : t = kw)
Upto(toks, i) == SubSeq(toks, 1, i - 1)
Beyond(toks, i) == SubSeq(toks, i + 1, Len(toks))

(* split_by_keyword and split_by_and_respecting_between: the part after    *)
(* the last separator is dropped when it is empty.                         *)
Parts(split, toks) ==
    LET all == IF split.cur = << >> THEN split.parts ELSE Append(split.parts, split.cur)
    IN  IF all = << >> THEN <<toks>> ELSE all
SplitByKeyword(toks, kw) ==
    Parts(FoldLeft(LAMBDA acc, t :
            IF t = kw THEN [acc EXCEPT !.parts = Append(@, acc.cur), !.cur = << >>]
            ELSE [acc EXCEPT !.cur = Append(@, t)],
          [parts |-> << >>, cur |-> << >>], toks), toks)
SplitByEveryAnd(toks) == SplitByKeyword(toks, "AND")    \* mutation: the AND of a BETWEEN separates too
SplitByAndRespectingBetween(toks) ==
    Parts(FoldLeft(LAMBDA acc, t :
            CASE t = "AND" /\ acc.between = "low" -> [acc EXCEPT !.cur = Append(@, t), !.between = "high"]
              [] t = "AND" -> [parts |-> Append(acc.parts, acc.cur), cur |-> << >>, between |-> "no"]
              [] t = "BETWEEN" /\ acc.between = "no" -> [acc EXCEPT !.cur = Append(@, t), !.between = "low"]
              [] OTHER -> [acc EXCEPT !.cur = Append(@, t)],
          [parts |-> << >>, cur |-> << >>, between |-> "no"], toks), toks)

(* The column is the text before the operator, a trailing NOT taken off    *)
(* where the code looks for one; a text that is no column has no value.    *)
HasColumn(row, toks) == Len(toks) = 1 /\ toks[1] \in DOMAIN row
Negated(before) == before # << >> /\ Last(before) = "NOT"
WithoutNot(before) == IF Negated(before) THEN Front(before) ELSE before

Within(v, low, high) ==
    IF Parses(v) /\ Parses(low) /\ Parses(high)
    THEN {v, low, high} \cap NaNs = {} /\ NumberOf[low] <= NumberOf[v] /\ NumberOf[v] <= NumberOf[high]
    ELSE TextCompare(v, low) >= 0 /\ TextCompare(v, high) <= 0
Operators == {">=", "<=", "!=", "<>", "=", ">", "<"}
CompareCells(op, a, b) ==
    LET cmp == IF Parses(a) /\ Parses(b) THEN Sign(NumberOf[a], NumberOf[b]) ELSE TextCompare(a, b)
    IN  CASE op = "=" -> a = b
          [] op \in {"!=", "<>"} -> a # b
          [] Parses(a) /\ Parses(b) /\ {a, b} \cap NaNs # {} -> FALSE
          [] op = ">" -> cmp > 0
          [] op = "<" -> cmp < 0
          [] op = ">=" -> cmp >= 0
          [] OTHER -> cmp <= 0

(* evaluate_single_condition, in the order of its tests.                   *)
EvaluateSingleCondition(row, toks) ==
    LET is == Keyword(toks, "IS")
        between == Keyword(toks, "BETWEEN")
        in == Keyword(toks, "IN")
        like == Keyword(toks, "LIKE")
        op == SelectLastInSeq(toks, LAMBDA t : t \in Operators)
    IN  CASE is # 0 ->
               LET col == Upto(toks, is)
                   rest == Beyond(toks, is)
                   null == ~HasColumn(row, col) \/ row[col[1]] = ""
               IN  CASE IsPrefix(<<"NOT", "NULL">>, rest) -> ~null
                     [] IsPrefix(<<"NULL">>, rest) -> null
                     [] OTHER -> FALSE
          [] between # 0 ->
               LET col == WithoutNot(Upto(toks, between))
                   rest == Beyond(toks, between)
                   and == Keyword(rest, "AND")
               IN  /\ and # 0 /\ HasColumn(row, col)
                   /\ Negated(Upto(toks, between)) # Within(row[col[1]], rest[1], rest[and + 1])
          [] in # 0 ->
               LET col == WithoutNot(Upto(toks, in))
                   rest == Beyond(toks, in)
                   list == SelectSeq(SubSeq(rest, 2, Len(rest) - 1), LAMBDA t : t # ",")
               IN  /\ rest # << >> /\ rest[1] = "(" /\ Last(rest) = ")" /\ HasColumn(row, col)
                   /\ Negated(Upto(toks, in)) # Contains(list, row[col[1]])
          [] like # 0 ->
               LET col == Upto(toks, like)
               IN  HasColumn(row, col) /\ <<row[col[1]], toks[like + 1]>> \in Likes
          [] op # 0 ->
               LET col == Upto(toks, op)
               IN  HasColumn(row, col) /\ CompareCells(toks[op], row[col[1]], toks[op + 1])
          [] OTHER -> FALSE

RECURSIVE EvaluateWhere(_, _)
EvaluateWhere(row, toks) ==
    LET ors == SplitByKeyword(toks, "OR")
        ands == IF Keyword(toks, "BETWEEN") # 0 THEN SplitByAndRespectingBetween(toks)
                ELSE SplitByKeyword(toks, "AND")
    IN  IF toks = << >> THEN TRUE
        ELSE IF Len(ors) > 1 THEN \E i \in DOMAIN ors : EvaluateWhere(row, ors[i])
        ELSE IF Len(ands) > 1 THEN \A i \in DOMAIN ands : EvaluateWhere(row, ands[i])
        ELSE EvaluateSingleCondition(row, toks)

(* The reference: OR of ANDs of conditions, as the clause was written.     *)
Written(dnf) ==
    LET Conj(c) == FoldLeft(LAMBDA acc, a : acc \o <<"AND">> \o a, c[1], Tail(c))
    IN  FoldLeft(LAMBDA acc, c : acc \o <<"OR">> \o Conj(c), Conj(dnf[1]), Tail(dnf))
Meant(row, dnf) == \E i \in DOMAIN dnf : \A j \in DOMAIN dnf[i] : EvaluateSingleCondition(row, dnf[i][j])
WhereAgrees(row, dnf) == EvaluateWhere(row, Written(dnf)) = Meant(row, dnf)

-----------------------------------------------------------------------------
(* ClickHouse: handle_select on <<"SELECT", ..., "FROM", table, ...>>.     *)

Cell(row, col) == IF col \in DOMAIN row THEN row[col] ELSE ""
OrderCells(a, b) ==
    IF Parses(a) /\ Parses(b)
    THEN IF {a, b} \cap NaNs # {} THEN 0 ELSE Sign(NumberOf[a], NumberOf[b])
    ELSE TextCompare(a, b)

(* The keys of a GROUP BY in order of first appearance.                    *)
KeysOf(rows, col) ==
    FoldLeft(LAMBDA acc, r : IF Contains(acc, Cell(r, col)) THEN acc ELSE Append(acc, Cell(r, col)),
             << >>, rows)
GroupRow(select, columns, group) ==
    FoldLeft(LAMBDA acc, t :
        CASE t = "," -> acc
          [] t \in {"COUNT", "COUNT(*)"} -> Append(acc, Len(group))
          [] t = "*" -> acc \o [i \in DOMAIN columns |-> Cell(group[1], columns[i])]
          [] OTHER -> Append(acc, Cell(group[1], t)), << >>, select)

(* COUNT wins over the others; they aggregate the column after the first   *)
(* parenthesis over the cells that parse.  AVG is a numerator and a count. *)
Aggregate_(name, nums) ==
    CASE name = "SUM" -> Sum_(nums)
      [] name = "AVG" -> IF nums = << >> THEN 0 ELSE <<Sum_(nums), Len(nums)>>
      [] OTHER -> IF nums = << >> THEN Null
                  ELSE FoldLeft(LAMBDA best, n : IF (name = "MIN") = (n < best) THEN n ELSE best, nums[1], nums)

HandleSelect(columns, all, toks) ==
    LET from == Keyword(toks, "FROM")
        select == SubSeq(toks, 2, from - 1)
        where == Keyword(toks, "WHERE")
        group == Keyword(toks, "GROUP")
        order == Keyword(toks, "ORDER")
        limit == Keyword(toks, "LIMIT")
        after == {i \in {group, order, limit} : i # 0}
        whereEnd == IF after = {} THEN Len(toks) + 1 ELSE CHOOSE i \in after : \A j \in after : i <= j
        rows == SelectSeq(all, LAMBDA r : where = 0 \/ EvaluateWhere(r, SubSeq(toks, where + 1, whereEnd - 1)))
        keys == KeysOf(rows, toks[group + 2])
        named == SelectInSeq(<<"COUNT", "SUM", "AVG", "MIN", "MAX">>, LAMBDA n : Contains(select, n))
        name == <<"COUNT", "SUM", "AVG", "MIN", "MAX">>[named]
        paren == Keyword(select, "(")
        nums == LET cells == SelectSeq([i \in DOMAIN rows |-> Cell(rows[i], select[paren + 1])],
                                       LAMBDA c : c \in DOMAIN NumberOf)
                IN  [i \in DOMAIN cells |-> NumberOf[cells[i]]]
        output == IF select = <<"*">> THEN columns ELSE SelectSeq(select, LAMBDA t : t # ",")
        desc == order + 3 < (IF limit = 0 THEN Len(toks) + 1 ELSE limit) /\ toks[order + 3] = "DESC"
        sorted == IF order = 0 THEN rows
                  ELSE StableSort(rows, LAMBDA a, b :
                         LET cmp == OrderCells(Cell(a, toks[order + 2]), Cell(b, toks[order + 2]))
                         IN  IF desc THEN -cmp ELSE cmp)
        taken == IF limit = 0 \/ toks[limit + 1] \notin DOMAIN NumberOf THEN sorted
                 ELSE Take(sorted, NumberOf[toks[limit + 1]])
    IN  IF group # 0
        THEN [k \in DOMAIN keys |->
                GroupRow(select, columns, SelectSeq(rows, LAMBDA r : Cell(r, toks[group + 2]) = keys[k]))]
        ELSE IF named # 0 /\ (name = "COUNT" \/ (paren # 0 /\ select[paren + 1] # "*"))
        THEN IF name = "COUNT" THEN <<<<Len(rows)>>>> ELSE <<<<Aggregate_(name, nums)>>>>
        ELSE [i \in DOMAIN taken |-> [j \in DOMAIN output |-> Cell(taken[i], output[j])]]

-----------------------------------------------------------------------------
(* ADB: eval_where on a parsed expression, rows as sequences of cells.     *)

AdbCompare(a, b) ==
    IF Parses(a) /\ Parses(b)
    THEN CASE a \in NaNs -> IF b \in NaNs THEN 0 ELSE -1
           [] b \in NaNs -> 1
           [] OTHER -> Sign(NumberOf[a], NumberOf[b])
    ELSE TextCompare(a, b)

Position(columns, name) == SelectInSeq(columns, LAMBDA c : c = name)
EvalExprValue(e, row, columns) ==
    CASE e.k = "id" -> IF Position(columns, e.v) = 0 THEN "" ELSE row[Position(columns, e.v)]
      [] e.k = "lit" -> e.v
      [] OTHER -> ""

RECURSIVE EvalWhere(_, _, _)
EvalWhere(e, row, columns) ==
    LET V(x) == EvalExprValue(x, row, columns)
    IN  CASE e.k = "and" -> EvalWhere(e.l, row, columns) /\ EvalWhere(e.r, row, columns)
          [] e.k = "or" -> EvalWhere(e.l, row, columns) \/ EvalWhere(e.r, row, columns)
          [] e.k = "=" -> V(e.l) = V(e.r)
          [] e.k = "<>" -> V(e.l) # V(e.r)
          [] e.k = ">" -> AdbCompare(V(e.l), V(e.r)) > 0
          [] e.k = ">=" -> AdbCompare(V(e.l), V(e.r)) >= 0
          [] e.k = "<" -> AdbCompare(V(e.l), V(e.r)) < 0
          [] e.k = "<=" -> AdbCompare(V(e.l), V(e.r)) <= 0
          [] e.k = "in" -> e.negated # \E i \in DOMAIN e.list : V(e.list[i]) = V(e.l)
          [] e.k = "between" ->
               e.negated # (AdbCompare(V(e.l), V(e.list[1])) >= 0 /\ AdbCompare(V(e.l), V(e.list[2])) <= 0)
          [] e.k = "like" -> e.negated # (<<V(e.l), V(e.r)>> \in Likes)
          [] e.k = "null" -> e.negated # (V(e.l) = "")
          [] OTHER -> FALSE

(* resolve_output_columns: an unknown column or function is an empty       *)
(* literal, the wildcard every column in order.                            *)
AggregateNames == {"COUNT", "SUM", "AVG", "MIN", "MAX"}
ResolveOutputColumns(items, columns) ==
    FlattenSeq([i \in DOMAIN items |->
        LET it == items[i]
            at == Position(columns, it.v)
        IN  CASE it.k = "*" -> [c \in DOMAIN columns |-> [k |-> "col", name |-> "", at |-> c]]
              [] it.k = "id" /\ at # 0 -> <<[k |-> "col", name |-> "", at |-> at]>>
              [] it.k = "fn" /\ it.f = "COUNT" /\ it.v = "*" -> <<[k |-> "agg", name |-> "COUNT(*)", at |-> 1]>>
              [] it.k = "fn" /\ it.f \in AggregateNames /\ at # 0 -> <<[k |-> "agg", name |-> it.f, at |-> at]>>
              [] OTHER -> <<[k |-> "lit", name |-> "", at |-> 1]>>])

ComputeAggregate(agg, rows) ==
    LET cells == [i \in DOMAIN rows |-> rows[i][agg.at]]
        nonNull == SelectSeq(cells, LAMBDA c : c # "")
        parsed == SelectSeq(cells, LAMBDA c : c \in DOMAIN NumberOf)
        nums == [i \in DOMAIN parsed |-> NumberOf[parsed[i]]]
    IN  CASE agg.name = "COUNT(*)" -> Len(rows)
          [] agg.name = "COUNT" -> Len(nonNull)
          [] agg.name = "SUM" -> IF nums = << >> THEN Null ELSE Sum_(nums)
          [] agg.name = "AVG" -> IF nums = << >> THEN Null ELSE <<Sum_(nums), Len(nums)>>
          [] OTHER -> IF nonNull = << >> THEN Null
                      ELSE FoldLeft(LAMBDA best, c :
                             LET cmp == AdbCompare(best, c)
                             IN  IF (agg.name = "MIN" /\ cmp > 0) \/ (agg.name = "MAX" /\ cmp < 0) THEN c ELSE best,
                             nonNull[1], nonNull)

(* execute_group_by: a BTreeMap from the joined key to the group's rows.   *)
(* Cells without a bar make the joined key as good as the tuple, but for   *)
(* the order: a bar follows a cell that is not the last, and sorts high.   *)
RECURSIVE KeyCompare(_, _)
KeyCompare(k, l) ==
    IF k = << >> THEN 0
    ELSE IF k[1] = l[1] THEN KeyCompare(Tail(k), Tail(l))
    ELSE IF Len(k) > 1 /\ {<<k[1], l[1]>>, <<l[1], k[1]>>} \cap PrefixPairs # {} THEN -TextCompare(k[1], l[1])
    ELSE TextCompare(k[1], l[1])
Output(cols, row, group) ==
    [j \in DOMAIN cols |->
        CASE cols[j].k = "col" -> row[cols[j].at]
          [] cols[j].k = "agg" -> ComputeAggregate(cols[j], group)
          [] OTHER -> ""]
ExecuteGroupBy(by, rows, cols) ==
    LET key(r) == [i \in DOMAIN by |-> r[by[i]]]
        sorted == StableSort(rows, LAMBDA a, b : KeyCompare(key(a), key(b)))
        firsts == SelectSeq([i \in DOMAIN sorted |-> i], LAMBDA i : i = 1 \/ key(sorted[i]) # key(sorted[i - 1]))
    IN  [g \in DOMAIN firsts |->
           Output(cols, sorted[firsts[g]], SelectSeq(rows, LAMBDA r : key(r) = key(sorted[firsts[g]])))]

(* apply_order_by knows only the table columns that are projected.         *)
RECURSIVE CompareBySpecs(_, _, _)
CompareBySpecs(specs, a, b) ==
    IF specs = << >> THEN 0
    ELSE LET cmp == AdbCompare(a[specs[1].at], b[specs[1].at])
         IN  IF cmp # 0 THEN IF specs[1].desc THEN -cmp ELSE cmp
             ELSE CompareBySpecs(Tail(specs), a, b)
ApplyOrderBy(orderBy, rows, cols, columns) ==
    LET at(name) == SelectInSeq(cols, LAMBDA c : c.k = "col" /\ columns[c.at] = name)
        known == SelectSeq(orderBy, LAMBDA o : at(o.name) # 0)
        specs == [i \in DOMAIN known |-> [at |-> at(known[i].name), desc |-> known[i].desc]]
    IN  StableSort(rows, LAMBDA a, b : CompareBySpecs(specs, a, b))

ExecuteSelect(columns, all, q) ==
    LET cols == ResolveOutputColumns(q.items, columns)
        rows == SelectSeq(all, LAMBDA r : q.where.k = "none" \/ EvalWhere(q.where, r, columns))
        by == SelectSeq([i \in DOMAIN q.group |-> Position(columns, q.group[i])], LAMBDA p : p # 0)
        projected == [i \in DOMAIN rows |-> Output(cols, rows[i], rows)]
        ordered == ApplyOrderBy(q.order, projected, cols, columns)
    IN  IF q.group # << >> THEN ExecuteGroupBy(by, rows, cols)
        ELSE IF \E j \in DOMAIN cols : cols[j].k = "agg"
        THEN <<[j \in DOMAIN cols |-> IF cols[j].k = "agg" THEN ComputeAggregate(cols[j], rows) ELSE Null]>>
        ELSE IF q.limit < 0 THEN ordered ELSE Take(ordered, q.limit)

-----------------------------------------------------------------------------
(* References.  ORDER BY and LIMIT: the positions of the rows, sorted by   *)
(* the cells and then by position, cut off at the limit.                   *)
SortedPositions(rows, Keep(_), Cmp(_, _)) ==
    SetToSortSeq({i \in DOMAIN rows : Keep(rows[i])},
                 LAMBDA i, j : Cmp(rows[i], rows[j]) < 0 \/ (Cmp(rows[i], rows[j]) = 0 /\ i < j))

(* What a ClickHouse query of either shape must answer: `q' names the      *)
(* parts that `toks' spells out.                                           *)
SelectAgrees(columns, rows, q, toks) ==
    LET out == HandleSelect(columns, rows, toks)
        Keep(r) == q.where = << >> \/ Meant(r, q.where)
        kept == {i \in DOMAIN rows : Keep(rows[i])}
        Cmp(a, b) == IF q.order = "" THEN 0
                     ELSE IF q.desc THEN OrderCells(b[q.order], a[q.order]) ELSE OrderCells(a[q.order], b[q.order])
        positions == SortedPositions(rows, Keep, Cmp)
        nums == {i \in kept : rows[i][q.of] \in DOMAIN NumberOf}
    IN  CASE q.shape = "rows" ->
               out = [i \in 1..Len(Take(positions, q.limit)) |->
                        [j \in DOMAIN q.cols |-> rows[positions[i]][q.cols[j]]]]
          [] q.shape = "groups" ->
               /\ Len(out) = Cardinality({rows[i][q.of] : i \in kept})
               /\ \A i \in kept : \E g \in DOMAIN out :
                    SubSeq(out[g], 1, 2) = <<rows[i][q.of], Cardinality({j \in kept : rows[j][q.of] = rows[i][q.of]})>>
          [] q.shape = "min" ->
               out = <<<<IF nums = {} THEN Null
                         ELSE CHOOSE n \in {NumberOf[rows[i][q.of]] : i \in nums} :
                                \A i \in nums : n <= NumberOf[rows[i][q.of]]>>>>
          [] q.shape = "sum" ->
               out = <<<<Sum_([k \in 1..Cardinality(nums) |-> NumberOf[rows[SetToSortSeq(nums, <)[k]][q.of]]])>>>>
          [] OTHER -> out = <<<<Cardinality(kept)>>>>

(* What an ADB query must answer: every group once and in full, MIN and    *)
(* MAX a non-empty cell no other is beyond, rows as above.                 *)
ExecuteSelectAgrees(columns, rows, q) ==
    LET out == ExecuteSelect(columns, rows, q)
        cols == ResolveOutputColumns(q.items, columns)
        Keep(r) == q.where.k = "none" \/ EvalWhere(q.where, r, columns)
        kept == {i \in DOMAIN rows : Keep(rows[i])}
        key(i) == [g \in DOMAIN q.group |-> rows[i][Position(columns, q.group[g])]]
        Cmp(a, b) == LET at == Position(columns, q.order[1].name)
                     IN  IF q.order = << >> THEN 0
                         ELSE IF q.order[1].desc THEN AdbCompare(b[at], a[at]) ELSE AdbCompare(a[at], b[at])
        positions == SortedPositions(rows, Keep, Cmp)
        Best(c, cells, name) ==
            IF cells \ {""} = {} THEN c = Null
            ELSE /\ c \in cells \ {""}
                 /\ \A d \in cells \ {""} : IF name = "MIN" THEN AdbCompare(c, d) <= 0 ELSE AdbCompare(c, d) >= 0
        OfGroup(row, group) ==
            \A j \in DOMAIN cols :
               CASE cols[j].k = "col" -> \E i \in group : row[j] = rows[i][cols[j].at]
                 [] cols[j].name = "COUNT(*)" -> row[j] = Cardinality(group)
                 [] cols[j].name = "COUNT" -> row[j] = Cardinality({i \in group : rows[i][cols[j].at] # ""})
                 [] cols[j].name \in {"MIN", "MAX"} -> Best(row[j], {rows[i][cols[j].at] : i \in group}, cols[j].name)
                 [] OTHER -> TRUE
    IN  IF q.group # << >>
        THEN /\ Len(out) = Cardinality({key(i) : i \in kept})
             /\ \A i \in kept : \E g \in DOMAIN out : OfGroup(out[g], {j \in kept : key(j) = key(i)})
        ELSE IF \E j \in DOMAIN cols : cols[j].k = "agg" THEN Len(out) = 1 /\ OfGroup(out[1], kept)
        ELSE out = [i \in 1..Len(Take(positions, IF q.limit < 0 THEN Len(rows) ELSE q.limit)) |->
                      [j \in DOMAIN cols |-> rows[positions[i]][cols[j].at]]]

=============================================================================
