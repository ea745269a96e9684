----------------------------- MODULE Exchanges -----------------------------
(***************************************************************************)
(* What a MySQL and a PostgreSQL connection make of a statement's          *)
(* parameters, and the packets they answer with                            *)
(* (mysql-protocol/src/connection.rs, pg-protocol/src/connection.rs).      *)
(***************************************************************************)
EXTENDS Framing

Quote == 39
DoubleQuote == 34
Backslash == 92
Question == 63
Dollar == 36
Null == <<78, 85, 76, 76>>                     \* "NULL"
Quoted(s) == LET parts == Split(s, Quote) IN <<Quote>> \o FoldLeft(LAMBDA a, p : a \o <<Quote, Quote>> \o p, parts[1], Tail(parts)) \o <<Quote>>

-----------------------------------------------------------------------------
(* The answer to COM_QUERY and COM_STMT_EXECUTE.  Sequence numbers are a   *)
(* byte.                                                                   *)
SeqByte(n) == n % 256
AUTOCOMMIT == 2
ResultHead(seq, eof, columns) ==
    <<Packet(SeqByte(seq), EncodeLenencInt(Len(columns)))>> \o [i \in DOMAIN columns |-> ColumnPacket(SeqByte(seq + i), columns[i])]
    \o (IF eof THEN <<EofPacket(SeqByte(seq + Len(columns) + 1), 0, AUTOCOMMIT)>> ELSE << >>)
Terminator(seq, eof, rows) == IF eof THEN EofPacket(SeqByte(seq), 0, AUTOCOMMIT) ELSE ResultSetEofOkPacket(SeqByte(seq), rows, 0, AUTOCOMMIT, 0)

(* Rows encoded ahead of time carry no numbers; they are stamped one by    *)
(* one, each packet found by the length of the one before.                 *)
RECURSIVE Restamp(_, _)
Restamp(rows, seq) ==
    LET len == ReadPacketHeader(rows).len
    IN  IF Len(rows) < 4 THEN rows
        ELSE Upto(rows, 3) \o <<SeqByte(seq)>> \o SubSeq(rows, 5, 4 + len) \o Restamp(After(rows, 4 + len), seq + 1)
(* encode_arrow_batches_to_mysql_rows writes them with number zero.        *)
PreEncoded(rows) == Concat([i \in DOMAIN rows |-> TextRow(0, rows[i])])

SendResultSet(seq, eof, columns, rows, encoded, affected) ==
    LET head == ResultHead(seq, eof, columns)
        from == seq + Len(head)
        body == IF encoded THEN Restamp(PreEncoded(rows), from) ELSE Concat([i \in DOMAIN rows |-> TextRow(SeqByte(from + i - 1), rows[i])])
    IN  IF columns = << >> THEN OkPacket(SeqByte(seq), affected, 0, AUTOCOMMIT, 0)
        ELSE Concat(head) \o body \o Terminator(from + Len(rows), eof, Len(rows))
BinaryValues(row, types) == [j \in DOMAIN row |-> IF row[j] = Nil THEN NullValue ELSE TextToBinary(row[j], types[j])]
SendBinaryResultSet(seq, eof, columns, types, rows) ==
    LET head == ResultHead(seq, eof, columns)
        from == seq + Len(head)
        body == Concat([i \in DOMAIN rows |-> BinaryRow(SeqByte(from + i - 1), BinaryValues(rows[i], types))])
    IN  IF columns = << >> THEN OkPacket(SeqByte(seq), 0, 0, AUTOCOMMIT, 0)
        ELSE Concat(head) \o body \o Terminator(from + Len(rows), eof, Len(rows))

(* The answer to COM_STMT_PREPARE: the parameters, then the columns, each  *)
(* block closed by an EOF packet when it is not empty.                     *)
Block(seq, eof, columns) ==
    [i \in DOMAIN columns |-> ColumnPacket(SeqByte(seq + i - 1), columns[i])]
    \o (IF eof /\ columns # << >> THEN <<EofPacket(SeqByte(seq + Len(columns)), 0, AUTOCOMMIT)>> ELSE << >>)
SendPrepareOk(seq, eof, id, params, columns) ==
    LET first == Block(seq + 1, eof, params)
    IN  Concat(<<StmtPrepareOk(SeqByte(seq), id, Len(columns), Len(params), 0)>> \o first \o Block(seq + 1 + Len(first), eof, columns))

-----------------------------------------------------------------------------
(* MySQL placeholders.  A quote ends its string unless an odd number of    *)
(* backslashes stands before it; a byte is copied as a character.          *)
AsChar(b) == IF b < 128 THEN <<b>> ELSE <<192 + b \div 64, 128 + (b % 64)>>
RECURSIVE Backslashes(_, _)
Backslashes(sql, i) == IF i >= 1 /\ sql[i] = Backslash THEN 1 + Backslashes(sql, i - 1) ELSE 0
StringUpto(sql, i) ==                          \* the last index of the string that opens at i
    LET closing == {j \in (i + 1)..Len(sql) : sql[j] = sql[i] /\ Backslashes(sql, j - 1) % 2 = 0}
    IN  IF closing = {} THEN Len(sql) ELSE CHOOSE j \in closing : \A k \in closing : j <= k
RECURSIVE CountFrom(_, _), ReplaceFrom(_, _, _)
CountFrom(sql, i) ==
    IF i > Len(sql) THEN 0
    ELSE IF sql[i] \in {Quote, DoubleQuote} THEN CountFrom(sql, StringUpto(sql, i) + 1)
    ELSE (IF sql[i] = Question THEN 1 ELSE 0) + CountFrom(sql, i + 1)
CountPlaceholders(sql) == CountFrom(sql, 1)
ReplaceFrom(sql, i, values) ==
    LET upto == IF sql[i] \in {Quote, DoubleQuote} THEN StringUpto(sql, i) ELSE i
    IN  IF i > Len(sql) THEN << >>
        ELSE IF sql[i] = Question /\ values # << >> THEN values[1] \o ReplaceFrom(sql, i + 1, Tail(values))
        ELSE Concat([j \in 1..(upto - i + 1) |-> AsChar(sql[i + j - 1])]) \o ReplaceFrom(sql, upto + 1, values)
ReplacePlaceholders(sql, values) == ReplaceFrom(sql, 1, values)
ReplaceWithDummy(sql, n) == ReplacePlaceholders(sql, [i \in 1..n |-> Null])

(* read_param_value: the text and the bytes it took.                       *)
TINY == 1
SHORT == 2
LONG == 3
FLOAT == 4
DOUBLE == 5
LONGLONG == 8
ParamWidth(type) == CASE type = TINY -> 1 [] type = SHORT -> 2 [] type \in {LONG, FLOAT} -> 4 [] OTHER -> 8
Strings == {15, 252, 253}
(* f32 and f64 ::to_string, on 1 and -2.5.                                 *)
Floats == {[bytes |-> <<63, 128, 0, 0>>, text |-> <<49>>], [bytes |-> <<192, 4, 0, 0, 0, 0, 0, 0>>, text |-> <<45, 50, 46, 53>>]}
FloatText(bytes) == (CHOOSE f \in Floats : f.bytes = bytes).text
Value(text, n) == [text |-> text, n |-> n]
ReadString(b) ==
    LET len == IF b[1] < 251 THEN b[1] ELSE Unsigned(Reverse(SubSeq(b, 2, 3)))
        skip == IF b[1] < 251 THEN 1 ELSE 3
    IN  IF b[1] > 252 \/ b[1] = 251 THEN Value(<<Quote, Quote>>, 0)
        ELSE IF Len(b) < skip THEN Value(<<Quote, Quote>>, 0)
        ELSE IF Len(b) < skip + len THEN Value(<<Quote, Quote>>, 0)
        ELSE Value(Quoted(SubSeq(b, skip + 1, skip + len)), skip + len)
ReadParamValue(b, type) ==
    LET w == ParamWidth(type)
        bytes == Upto(b, w)
    IN  IF b = << >> THEN Value(Null, 0)
        ELSE IF type \in Strings THEN ReadString(b)
        ELSE IF type \notin {TINY, SHORT, LONG, LONGLONG, FLOAT, DOUBLE} THEN Value(Null, 0)
        ELSE IF Len(b) < w THEN Value(IF type \in {FLOAT, DOUBLE} THEN <<48, 46, 48>> ELSE <<48>>, 0)
        ELSE Value(CASE type = TINY -> Decimal(b[1]) [] type \in {FLOAT, DOUBLE} -> FloatText(Reverse(bytes)) [] OTHER -> Decimal(Signed(Reverse(bytes))), w)

(* bind_params: all the types, then all the values.  Without new types,    *)
(* every parameter is read as a string, from the flag's byte on.           *)
RECURSIVE ReadValues(_, _, _, _)
ReadValues(b, types, bitmap, i) ==
    LET isNull == (bitmap[1 + (i - 1) \div 8] \div 2 ^ ((i - 1) % 8)) % 2 = 1
        value == IF isNull THEN Value(Null, 0) ELSE ReadParamValue(b, types[i])
    IN  IF i > Len(types) THEN << >> ELSE <<value.text>> \o ReadValues(After(b, value.n), types, bitmap, i + 1)
BindParams(sql, data, n) ==
    LET size == IF n = 0 THEN 1 ELSE (n + 7) \div 8
        rest == After(data, 9 + size)
        new == rest # << >> /\ rest[1] = 1
        typeAt(i) == IF new /\ Len(rest) >= 1 + 2 * i THEN rest[2 * i] ELSE 253
        told == IF new THEN CHOOSE k \in 0..n : Len(rest) >= 1 + 2 * k /\ (k = n \/ Len(rest) < 3 + 2 * k) ELSE 0
        values == After(rest, IF new THEN 1 + 2 * told ELSE 0)
    IN  IF Len(data) < 10 \/ Len(data) < 9 + size THEN sql
        ELSE ReplacePlaceholders(sql, ReadValues(values, [i \in 1..n |-> typeAt(i)], SubSeq(data, 10, 9 + size), 1))

-----------------------------------------------------------------------------
(* PostgreSQL parameters.                                                  *)
OidWidth == [INT2 |-> 2, INT4 |-> 4, INT8 |-> 8, FLOAT4 |-> 4, FLOAT8 |-> 8]
DecodeParamValue(b, format, oid) ==
    IF format = 0 THEN b
    ELSE IF oid = "BOOL" THEN IF b # << >> /\ b[1] # 0 THEN <<116, 114, 117, 101>> ELSE <<102, 97, 108, 115, 101>>
    ELSE IF oid \in DOMAIN OidWidth /\ Len(b) = OidWidth[oid]
    THEN IF oid \in {"FLOAT4", "FLOAT8"} THEN FloatText(b) ELSE Decimal(Signed(b))
    ELSE b
FormatOf(formats, i) == IF Len(formats) = 1 THEN formats[1] ELSE IF i \in DOMAIN formats THEN formats[i] ELSE 0

(* substitute_params.  A doubled quote inside a string is looked at twice, *)
(* and the second look ends the string.                                    *)
(* i64 or f64 ::parse, which also takes "inf", "infinity" and "nan".       *)
NotFinite == {<<105, 110, 102>>, <<105, 110, 102, 105, 110, 105, 116, 121>>, <<110, 97, 110>>}
IsNumericLiteral(s) ==
    LET lower == [i \in DOMAIN s |-> IF s[i] \in 65..90 THEN s[i] + 32 ELSE s[i]]
        body == IF s # << >> /\ s[1] \in {Dash, 43} THEN Tail(lower) ELSE lower
        exp == Split(body, 101)
        parts == Split(exp[1], 46)
        digits == Concat(parts)
    IN  \/ body \in NotFinite
        \/ /\ Len(exp) <= 2 /\ (Len(exp) = 2 => Number(exp[2]) # Nil)
           /\ Len(parts) <= 2 /\ digits # << >> /\ \A i \in DOMAIN digits : Digit(digits[i])
RECURSIVE StringEnd(_, _)
StringEnd(sql, i) ==                           \* the index after the string whose inside starts at i
    IF i > Len(sql) THEN i
    ELSE IF sql[i] # Quote THEN StringEnd(sql, i + 1)
    ELSE IF i + 1 <= Len(sql) /\ sql[i + 1] = Quote THEN StringEnd(sql, i + 1)
    ELSE i + 1
FirstFrom(sql, i, b) == LET at == {j \in i..Len(sql) : sql[j] = b} IN IF at = {} THEN Len(sql) + 1 ELSE CHOOSE j \in at : \A k \in at : j <= k
DigitsEnd(sql, i) == LET at == {j \in i..Len(sql) : ~Digit(sql[j])} IN IF at = {} THEN Len(sql) + 1 ELSE CHOOSE j \in at : \A k \in at : j <= k
Literal(p) == IF p = Nil THEN Null ELSE IF IsNumericLiteral(p) THEN p ELSE Quoted(p)
RECURSIVE SubstituteFrom(_, _, _)
SubstituteFrom(sql, i, params) ==
    LET copyTo(j) == SubSeq(sql, i, j - 1) \o SubstituteFrom(sql, j, params)
        end == DigitsEnd(sql, i + 1)
        n == Number(SubSeq(sql, i + 1, end - 1))[1]
        least(j) == IF j > Len(sql) THEN Len(sql) + 1 ELSE j + 1
    IN  IF i > Len(sql) THEN << >>
        ELSE IF sql[i] = Quote THEN copyTo(StringEnd(sql, i + 1))
        ELSE IF sql[i] = DoubleQuote THEN copyTo(least(FirstFrom(sql, i + 1, DoubleQuote)))
        ELSE IF sql[i] = Dash /\ i < Len(sql) /\ sql[i + 1] = Dash THEN copyTo(FirstFrom(sql, i, LF))
        ELSE IF sql[i] = Dollar /\ i < Len(sql) /\ Digit(sql[i + 1]) /\ n \in 1..Len(params)
        THEN Literal(params[n]) \o SubstituteFrom(sql, end, params)
        ELSE copyTo(i + 1)
SubstituteParams(sql, params) == IF params = << >> THEN sql ELSE SubstituteFrom(sql, 1, params)

-----------------------------------------------------------------------------
(* What a client reads: packets numbered without a gap, of the announced   *)
(* kinds and counts, to the last byte.                                     *)
RECURSIVE Packets(_)
Packets(b) ==
    LET h == ReadPacketHeader(b)
    IN  IF b = << >> THEN << >> ELSE <<[seq |-> h.seq, body |-> SubSeq(b, 5, 4 + h.len)]>> \o Packets(After(b, 4 + h.len))
Numbered(packets, seq) == \A i \in DOMAIN packets : packets[i].seq = (seq + i - 1) % 256
ResultReads(stream, seq, eof, columns, bodies) ==
    LET packets == Packets(stream)
        n == Len(columns)
        from == 1 + n + (IF eof THEN 1 ELSE 0)
    IN  /\ Numbered(packets, seq)
        /\ Len(packets) = from + Len(bodies) + 1
        /\ Read(packets[1].body, <<Lint>>).out = << <<n>> >>
        /\ eof => packets[n + 2].body[1] = 254
        /\ \A i \in DOMAIN bodies : packets[from + i].body = bodies[i]
        /\ Last(packets).body[1] = 254 /\ (eof <=> Len(Last(packets).body) = 5)
ResultsRead(seq, eof, columns, types, rows) ==
    LET texts == [i \in DOMAIN rows |-> After(TextRow(0, rows[i]), 4)]
        binaries == [i \in DOMAIN rows |-> After(BinaryRow(0, BinaryValues(rows[i], types)), 4)]
        prepared == Packets(SendPrepareOk(seq, eof, 7, Upto(columns, 1), columns))
    IN  /\ \A encoded \in BOOLEAN : ResultReads(SendResultSet(seq, eof, columns, rows, encoded, 0), seq, eof, columns, texts)
        /\ ResultReads(SendBinaryResultSet(seq, eof, columns, types, rows), seq, eof, columns, binaries)
        /\ Numbered(prepared, seq) /\ Len(prepared) = 2 + Len(columns) + (IF eof THEN 2 ELSE 0)
        /\ Len(Packets(SendResultSet(seq, eof, << >>, << >>, FALSE, 3))) = 1

(* A statement is pieces of text with holes between them.  Whatever the    *)
(* pieces hold, each hole takes its own value and nothing else changes.    *)
WrittenWith(pieces, holes(_)) == Concat([i \in DOMAIN pieces |-> IF i = Len(pieces) THEN pieces[i] ELSE pieces[i] \o holes(i)])
MySqlBinds(pieces, cells) ==
    LET sql == WrittenWith(pieces, LAMBDA i : <<Question>>)
        n == Len(pieces) - 1
        bit(i) == IF cells[i].bytes = Nil THEN 2 ^ (i - 1) ELSE 0
        bitmap == <<FoldLeft(LAMBDA a, i : a + bit(i), 0, [i \in 1..n |-> i])>>
        data == LE(1, 4) \o <<0>> \o LE(1, 4) \o bitmap \o <<1>> \o Concat([i \in 1..n |-> <<cells[i].type, 0>>])
                \o Concat([i \in 1..n |-> IF cells[i].bytes = Nil THEN << >> ELSE cells[i].bytes])
    IN  /\ CountPlaceholders(sql) = n
        /\ BindParams(sql, data, n) = WrittenWith(pieces, LAMBDA i : cells[i].text)
        /\ ReplaceWithDummy(sql, n) = WrittenWith(pieces, LAMBDA i : Null)
PgBinds(pieces, cells) ==
    LET n == Len(pieces) - 1
        sql == WrittenWith(pieces, LAMBDA i : <<Dollar>> \o Decimal(n + 1 - i))
        params == [i \in 1..n |-> IF cells[i].bytes = Nil THEN Nil ELSE DecodeParamValue(cells[i].bytes, FormatOf(cells[i].formats, i), cells[i].oid)]
    IN  SubstituteParams(sql, params) = WrittenWith(pieces, LAMBDA i : cells[n + 1 - i].text)

=============================================================================
