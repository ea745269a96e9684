------------------------------ MODULE Framing ------------------------------
(***************************************************************************)
(* The bytes of the other protocols: RESP (redis-protocol/src/resp.rs),    *)
(* the MongoDB wire messages (mongodb-protocol/src/wire.rs), Cassandra     *)
(* frames, TNS packets, TDS packets and tokens, and the records of the     *)
(* MaxCompute tunnel (maxcompute-protocol/src/tunnel/io.rs).  Bytes and    *)
(* layouts are those of Wire.                                              *)
(***************************************************************************)
EXTENDS Wire

(* A parse: the value with what follows it, or nothing and the buffer as   *)
(* it was.                                                                 *)
Parsed(v, rest) == [got |-> TRUE, value |-> v, rest |-> rest]

-----------------------------------------------------------------------------
(* RESP.  A value is [k, s, items].                                        *)
CR == 13
LF == 10
CrLf == <<CR, LF>>
Resp(k, s, items) == [k |-> k, s |-> s, items |-> items]
NoResp == Resp("none", << >>, << >>)
Incomplete(buf) == [got |-> FALSE, value |-> NoResp, rest |-> buf]
Invalid(rest) == [got |-> FALSE, value |-> Resp("invalid", << >>, << >>), rest |-> rest]
Prefix == [simple |-> 43, error |-> 45, int |-> 58]

(* n.to_string() and str::parse.                                           *)
RECURSIVE Decimal(_)
Decimal(n) == IF n < 0 THEN <<Dash>> \o Decimal(-n) ELSE IF n < 10 THEN <<48 + n>> ELSE Append(Decimal(n \div 10), 48 + (n % 10))

RECURSIVE EncodeResp(_)
EncodeResp(v) ==
    CASE v.k \in {"simple", "error"} -> <<Prefix[v.k]>> \o v.s \o CrLf
      [] v.k = "int" -> <<58>> \o Decimal(v.s[1]) \o CrLf
      [] v.k = "bulk" -> <<36>> \o Decimal(Len(v.s)) \o CrLf \o v.s \o CrLf
      [] v.k = "null" -> <<36>> \o Decimal(-1) \o CrLf
      [] v.k = "array" -> <<42>> \o Decimal(Len(v.items)) \o CrLf \o Concat([i \in DOMAIN v.items |-> EncodeResp(v.items[i])])
      [] v.k = "nullarray" -> <<42>> \o Decimal(-1) \o CrLf

(* find_crlf from a zero-based offset; -1 when there is none.              *)
FindCrLf(buf, from) ==
    LET at == {i \in (from + 1)..(Len(buf) - 1) : buf[i] = CR /\ buf[i + 1] = LF}
    IN  IF at = {} THEN -1 ELSE (CHOOSE i \in at : \A j \in at : i <= j) - 1
LineAt(buf, from, at) == SubSeq(buf, from + 1, at)

(* measure_value: the size of the value at an offset, -1 if it is not all  *)
(* there or is no value.                                                   *)
MAX_DEPTH == 128
RECURSIVE MeasureValue(_, _, _), MeasureItems(_, _, _, _)
MeasureItems(buf, pos, depth, n) ==
    LET size == MeasureValue(buf, pos, depth)
    IN  IF n = 0 THEN pos ELSE IF size = -1 THEN -1 ELSE MeasureItems(buf, pos + size, depth, n - 1)
MeasureValue(buf, offset, depth) ==
    LET line == FindCrLf(buf, offset + 1)
        n == IF line = -1 THEN Nil ELSE Number(LineAt(buf, offset + 1, line))
    IN  IF offset >= Len(buf) THEN -1
        ELSE IF buf[offset + 1] \in {43, 45, 58} THEN IF line = -1 THEN -1 ELSE line + 2 - offset
        ELSE IF buf[offset + 1] = 36 THEN
             IF n = Nil THEN -1 ELSE IF n[1] < 0 THEN line + 2 - offset
             ELSE IF line + 2 + n[1] + 2 <= Len(buf) THEN line + 2 + n[1] + 2 - offset ELSE -1
        ELSE IF buf[offset + 1] = 42 THEN
             IF depth >= MAX_DEPTH \/ n = Nil THEN -1 ELSE IF n[1] < 0 THEN line + 2 - offset
             ELSE LET end == MeasureItems(buf, line + 2, depth + 1, n[1]) IN IF end = -1 THEN -1 ELSE end - offset
        ELSE LET end == FindCrLf(buf, offset) IN IF end = -1 THEN -1 ELSE end + 2 - offset

(* parse_bulk_string and parse_inline.                                     *)
ParseBulk(buf) ==
    LET line == FindCrLf(buf, 1)
        n == Number(LineAt(buf, 1, line))
    IN  IF line = -1 THEN Incomplete(buf)
        ELSE IF n = Nil \/ n[1] < -1 \/ n[1] > 536870912 THEN Invalid(buf)
        ELSE IF n[1] = -1 THEN Parsed(Resp("null", << >>, << >>), After(buf, line + 2))
        ELSE IF Len(buf) < line + 2 + n[1] + 2 THEN Incomplete(buf)
        ELSE Parsed(Resp("bulk", SubSeq(buf, line + 3, line + 2 + n[1]), << >>), After(buf, line + 2 + n[1] + 2))
ParseLine(buf, k, from) ==
    LET line == FindCrLf(buf, from)
        s == LineAt(buf, from, line)
        words == SelectSeq(Split(s, 32), LAMBDA w : w # << >>)
    IN  IF line = -1 THEN Incomplete(buf)
        ELSE IF k = "int" /\ Number(s) = Nil THEN Invalid(After(buf, line + 2))
        ELSE Parsed(CASE k = "int" -> Resp("int", <<Number(s)[1]>>, << >>)
                      [] k = "inline" -> Resp("array", << >>, [i \in DOMAIN words |-> Resp("bulk", words[i], << >>)])
                      [] OTHER -> Resp(k, s, << >>), After(buf, line + 2))

(* parse: an array is measured first, and consumed only when it is whole.  *)
RECURSIVE ParseResp(_), ParseItems(_, _, _)
ParseItems(buf, items, n) ==
    LET first == ParseResp(buf)
    IN  IF n = 0 THEN Parsed(Resp("array", << >>, items), buf)
        ELSE IF ~first.got THEN first
        ELSE ParseItems(first.rest, Append(items, first.value), n - 1)
ParseArray(buf) ==
    LET line == FindCrLf(buf, 1)
        n == Number(LineAt(buf, 1, line))[1]
    IN  IF MeasureValue(buf, 0, 0) = -1 THEN Incomplete(buf)
        ELSE IF n < 0 THEN Parsed(Resp("nullarray", << >>, << >>), After(buf, line + 2))
        ELSE IF n > 1000000 THEN Invalid(buf)
        ELSE ParseItems(After(buf, line + 2), << >>, n)
ParseResp(buf) ==
    IF buf = << >> THEN Incomplete(buf)
    ELSE CASE buf[1] = 43 -> ParseLine(buf, "simple", 1)
           [] buf[1] = 45 -> ParseLine(buf, "error", 1)
           [] buf[1] = 58 -> ParseLine(buf, "int", 1)
           [] buf[1] = 36 -> ParseBulk(buf)
           [] buf[1] = 42 -> ParseArray(buf)
           [] OTHER -> ParseLine(buf, "inline", 0)

-----------------------------------------------------------------------------
(* MongoDB.  A BSON document is its length, a body and a zero byte; the    *)
(* bson library reads one by its length.                                   *)
Bson(body) == LE(Len(body) + 5, 4) \o body \o <<0>>
ReadBson(buf) ==
    LET len == Signed(Reverse(Upto(buf, 4)))
    IN  IF Len(buf) < 5 THEN [ok |-> FALSE, body |-> << >>, n |-> 0]
        ELSE IF len < 5 \/ len > Len(buf) THEN [ok |-> FALSE, body |-> << >>, n |-> 0]
        ELSE [ok |-> TRUE, body |-> SubSeq(buf, 5, len - 1), n |-> len]

(* A section is [id, docs]; kind 0 has no id and one document.             *)
Body == <<-1>>
Section(id, docs) == [id |-> id, docs |-> docs]
RECURSIVE ReadDocs(_)
ReadDocs(buf) == LET d == ReadBson(buf) IN IF ~d.ok THEN << >> ELSE <<d.body>> \o ReadDocs(After(buf, d.n))

(* OpMsg::parse after the flag bits: every section to the end, in whatever *)
(* order they come.                                                        *)
RECURSIVE ReadSections(_, _)
ReadSections(buf, sections) ==
    LET d == ReadBson(Tail(buf))
        size == Signed(Reverse(SubSeq(buf, 2, 5)))
        id == Text(After(buf, 5))
        docs == size - Len(id) - 5
        rest == After(buf, 5 + Len(id) + 1)
    IN  IF buf = << >> THEN [ok |-> TRUE, sections |-> sections]
        ELSE IF buf[1] = 0 THEN
             IF d.ok THEN ReadSections(After(buf, 1 + d.n), Append(sections, Section(Body, <<d.body>>))) ELSE [ok |-> FALSE, sections |-> << >>]
        ELSE IF buf[1] = 1 THEN
             IF Len(rest) >= docs THEN ReadSections(After(rest, docs), Append(sections, Section(id, ReadDocs(Upto(rest, docs)))))
             ELSE ReadSections(rest, Append(sections, Section(id, << >>)))
        ELSE [ok |-> FALSE, sections |-> << >>]
EncodeSections(sections) ==
    Concat([i \in DOMAIN sections |->
        LET s == sections[i]
            docs == Concat([j \in DOMAIN s.docs |-> Bson(s.docs[j])])
        IN  IF s.id = Body THEN <<0>> \o docs ELSE <<1>> \o LE(4 + Len(s.id) + 1 + Len(docs), 4) \o CString(s.id) \o docs])

(* OpQuery::parse: the selector is there when bytes are left.              *)
OpQuery(b) ==
    LET r == Read(b, <<U(4), Z, I(4), I(4)>>)
        query == ReadBson(r.buf)
        left == After(r.buf, query.n)
    IN  IF ~r.ok \/ ~query.ok THEN << >>
        ELSE <<r.out[2], query.body, IF left = << >> \/ ~ReadBson(left).ok THEN Nil ELSE ReadBson(left).body>>

(* Message::parse and encode: a header of four little-endian words, the    *)
(* first of which counts the header too.  An unknown operation is never    *)
(* consumed; a known one whose payload does not parse is.                  *)
OP_REPLY == 1
OP_QUERY == 2004
OP_MSG == 2013
OpCodes == {1, 2001, 2002, 2004, 2005, 2006, 2007, 2012, 2013}
Header(len, id, to, op) == LE(len, 4) \o LE(id, 4) \o LE(to, 4) \o LE(op, 4)
ParseMessage(buf) ==
    LET h == Read(Upto(buf, 16), <<I(4), I(4), I(4), I(4)>>).out
        len == h[1][1]
        payload == SubSeq(buf, 17, len)
        op == h[4][1]
        msg == ReadSections(After(payload, 4), << >>)
    IN  IF Len(buf) < 16 THEN Incomplete(buf)
        ELSE IF op \notin OpCodes \/ Len(buf) < len THEN Incomplete(buf)
        ELSE [got |-> (op = OP_MSG => Len(payload) >= 5 /\ msg.ok) /\ (op = OP_QUERY => OpQuery(payload) # << >>),
              value |-> [op |-> op, id |-> h[2][1],
                         sections |-> IF op = OP_MSG THEN msg.sections ELSE << >>, query |-> IF op = OP_QUERY THEN OpQuery(payload) ELSE << >>],
              rest |-> After(buf, len)]
OpReply(docs) == LE(0, 4) \o LE(0, 8) \o LE(0, 4) \o LE(Len(docs), 4) \o Concat([i \in DOMAIN docs |-> Bson(docs[i])])
EncodeReply(request, op, docs) ==
    LET payload == IF op = OP_MSG THEN LE(0, 4) \o EncodeSections(<<Section(Body, docs)>>) ELSE OpReply(docs)
    IN  Header(16 + Len(payload), request + 1, request, op) \o payload

-----------------------------------------------------------------------------
(* Cassandra frames, TNS packets and TDS packets: a header that gives the  *)
(* length, and nothing is consumed before all of it is there.              *)
FrameHeader == <<U(1), U(1), BI(2), U(1), BI(4)>>
EncodeFrame(stream, op, body) == <<132, 0>> \o BE(stream, 2) \o <<op>> \o BE(Len(body), 4) \o body
ParseFrame(buf) ==
    LET h == Read(Upto(buf, 9), FrameHeader).out
        len == h[5][1]
    IN  IF Len(buf) < 9 THEN Incomplete(buf)
        ELSE IF len < 0 \/ len > 16777216 \/ Len(buf) < 9 + len THEN Incomplete(buf)
        ELSE Parsed([stream |-> h[3][1], op |-> h[4][1], body |-> SubSeq(buf, 10, 9 + len)], After(buf, 9 + len))
(* The text of a QUERY frame, with whatever follows it left out.           *)
QueryText(body) ==
    IF Len(body) < 4 THEN body
    ELSE LET end == 4 + Unsigned(Upto(body, 4)) IN SubSeq(body, 5, IF end < Len(body) THEN end ELSE Len(body))
(* build_rows_result.                                                      *)
RowsResult(stream, columns, rows) ==
    EncodeFrame(stream, 8,
        BE(2, 4) \o BE(0, 4) \o BE(Len(columns), 4)
        \o Concat([i \in DOMAIN columns |-> BE(Len(columns[i]), 2) \o columns[i] \o BE(13, 2)])
        \o BE(Len(rows), 4)
        \o Concat([i \in DOMAIN rows |-> Concat([j \in DOMAIN rows[i] |-> BE(Len(rows[i][j]), 4) \o rows[i][j]])]))

TnsTypes == {1, 2, 4, 8, 9, 11, 12}
EncodeTns(type, data) == BE((8 + Len(data)) % 65536, 2) \o BE(0, 2) \o <<type, 0>> \o BE(0, 2) \o data
ParseTns(buf) ==
    LET len == Unsigned(Upto(buf, 2))
    IN  IF Len(buf) < 8 THEN Incomplete(buf)
        ELSE IF buf[5] \notin TnsTypes \/ len < 8 \/ Len(buf) < len THEN Incomplete(buf)
        ELSE Parsed([type |-> buf[5], data |-> SubSeq(buf, 9, len)], After(buf, len))

TdsPacket(type, data) == IF Len(data) + 8 > 65535 THEN << >> ELSE <<type, 1>> \o LE(Len(data) + 8, 2) \o BE(0, 2) \o <<0, 0>> \o data
(* read_tds_packet waits for its two reads.                                *)
ReadTdsPacket(buf) ==
    LET len == Unsigned(Reverse(SubSeq(buf, 3, 4)))
    IN  IF Len(buf) < 8 THEN Incomplete(buf)
        ELSE IF Len(buf) < len THEN Incomplete(buf)
        ELSE Parsed([type |-> buf[1], data |-> SubSeq(buf, 9, len)], After(buf, len))

(* TDS tokens.  A string is a sequence of 16-bit characters.               *)
Utf16(s) == [i \in 1..(2 * Len(s)) |-> LE(s[(i + 1) \div 2], 2)[2 - (i % 2)]]
EncodeDone(rows, status) == <<253>> \o LE(status, 2) \o LE(0, 2) \o LE(rows, 4)
EncodeError(number, state, severity, message, server) ==
    <<170>> \o LE(4 + 1 + 1 + 2 + Len(message) * 2 + 2 + Len(server) * 2 + 2 + 4, 2) \o LE(number, 4) \o <<state, severity>>
    \o LE(Len(message), 2) \o Utf16(message) \o LE(Len(server), 2) \o Utf16(server) \o LE(0, 2) \o LE(0, 4)
EncodeInfo(number, state, severity, message) ==
    <<171>> \o LE(4 + 1 + 1 + 2 + Len(message) * 2 + 2 + 2 + 4, 2) \o LE(number, 4) \o <<state, severity>>
    \o LE(Len(message), 2) \o Utf16(message) \o LE(0, 2) \o LE(0, 2) \o LE(0, 4)
EncodeLoginAck(program) ==
    <<173>> \o LE(1 + 4 + 1 + Len(program) * 2 + 4, 2) \o <<1, 5, 0, 0, 0>> \o <<Len(program)>> \o Utf16(program) \o LE(16, 4)
EncodeEnvChangeDb(db) == <<227>> \o LE(1 + 1 + Len(db) * 2 + 1, 2) \o <<1, Len(db)>> \o Utf16(db) \o <<0>>
EncodeReturnStatus(status) == <<121>> \o LE(status, 4)
EncodeColMetadata(columns) ==
    <<129>> \o LE(Len(columns), 2)
    \o Concat([i \in DOMAIN columns |-> <<Len(columns[i].name)>> \o Utf16(columns[i].name) \o <<1, columns[i].type>> \o LE(columns[i].length, 2)])
(* A value has a two-byte length and NULL a four-byte one.                 *)
EncodeTdsRow(values) ==
    <<209>> \o Concat([i \in DOMAIN values |-> IF values[i] = Nil THEN LE(-1, 4) ELSE LE(Len(values[i]) * 2, 2) \o Utf16(values[i])])

-----------------------------------------------------------------------------
(* Tunnel records.  A value is what its text stands for: a number, or the  *)
(* bytes of a float, a string or a decoded binary.                         *)
RECURSIVE EncodeVarint(_)
EncodeVarint(n) == IF n > 127 THEN <<(n % 128) + 128>> \o EncodeVarint(n \div 128) ELSE <<n>>
RECURSIVE VarintValue(_)
VarintValue(b) == IF b = << >> THEN 0 ELSE (b[1] % 128) + 128 * VarintValue(Tail(b))
(* decode_varint: ten bytes at most.                                       *)
DecodeVarint(b) ==
    LET ends == {i \in DOMAIN b : b[i] < 128}
        n == CHOOSE i \in ends : \A j \in ends : i <= j
    IN  IF ends = {} \/ n > 10 THEN [ok |-> FALSE, v |-> 0, n |-> 0] ELSE [ok |-> TRUE, v |-> VarintValue(Upto(b, n)), n |-> n]
ZigzagEncode(n) == IF n >= 0 THEN 2 * n ELSE -2 * n - 1
ZigzagDecode(n) == IF n % 2 = 0 THEN n \div 2 ELSE -((n + 1) \div 2)

END_RECORD == 33553408
META_COUNT == 33554430
META_CHECKSUM == 33554431
(* crc32fast, which the reader skips.                                      *)
Crc32(b) == LE(Len(b), 4)

(* write_field: the wire type and the bytes of each column type.           *)
WireType == [BIGINT |-> 0, BOOLEAN |-> 0, DATETIME |-> 0, DATE |-> 0, DOUBLE |-> 1, STRING |-> 2, BINARY |-> 2, DECIMAL |-> 2, FLOAT |-> 5]
FieldBytes(type, v) ==
    CASE type \in {"BIGINT", "DATETIME", "DATE"} -> EncodeVarint(ZigzagEncode(v[1]))
      [] type = "BOOLEAN" -> EncodeVarint(v[1])
      [] type \in {"FLOAT", "DOUBLE"} -> v
      [] OTHER -> EncodeVarint(Len(v)) \o v
WriteRow(row, types) ==
    LET nulls == SelectSeq([i \in DOMAIN row |-> i], LAMBDA i : row[i] = Nil)
        field(i) == IF row[i] = Nil THEN << >> ELSE EncodeVarint(8 * i + WireType[types[i]]) \o FieldBytes(types[i], row[i])
        record == EncodeVarint(Len(nulls)) \o Concat([k \in DOMAIN nulls |-> EncodeVarint(nulls[k] - 1)])
                  \o Concat([i \in DOMAIN types |-> field(i)])
    IN  record \o EncodeVarint(END_RECORD) \o Crc32(record)
WriteFooter(count) == EncodeVarint(META_COUNT) \o EncodeVarint(count) \o EncodeVarint(META_CHECKSUM) \o Crc32([i \in 1..(4 * count) |-> 0])
Finish(rows, types) == Concat([i \in DOMAIN rows |-> WriteRow(rows[i], types)]) \o WriteFooter(Len(rows))

(* read_value by the column's type, and skip_field by the wire type, which *)
(* serves the columns the schema does not have.                            *)
Missing == [ok |-> FALSE, v |-> << >>, n |-> 0]
Width(type) == IF type = "FLOAT" THEN 4 ELSE 8
ReadValue(b, type) ==
    LET int == DecodeVarint(b)
        end == int.n + int.v
    IN  IF type \in {"FLOAT", "DOUBLE"} THEN
             IF Len(b) < Width(type) THEN Missing ELSE [ok |-> TRUE, v |-> Upto(b, Width(type)), n |-> Width(type)]
        ELSE IF ~int.ok THEN Missing
        ELSE CASE type \in {"BIGINT", "DATETIME", "DATE"} -> [ok |-> TRUE, v |-> <<ZigzagDecode(int.v)>>, n |-> int.n]
               [] type = "BOOLEAN" -> [ok |-> TRUE, v |-> <<IF int.v = 0 THEN 0 ELSE 1>>, n |-> int.n]
               [] OTHER -> IF Len(b) < end THEN Missing ELSE [ok |-> TRUE, v |-> SubSeq(b, int.n + 1, end), n |-> end]
SkipField(b, wire) ==
    LET len == DecodeVarint(b)
        n == CASE wire = 0 -> len.n [] wire = 1 -> 8 [] wire = 2 -> len.n + len.v [] wire = 5 -> 4 [] OTHER -> 0
    IN  [ok |-> n # 0 /\ n <= Len(b) /\ (wire \in {0, 2} => len.ok), v |-> << >>, n |-> n]

(* read_row and read_all: rows until a footer's tag.  The null indices are *)
(* read and change nothing, a record cut between two fields ends there,    *)
(* and neither checksum is compared.                                       *)
RECURSIVE ReadNulls(_, _)
ReadNulls(b, n) ==
    LET index == DecodeVarint(b)
    IN  IF n = 0 THEN [ok |-> TRUE, b |-> b] ELSE IF ~index.ok THEN [ok |-> FALSE, b |-> b] ELSE ReadNulls(After(b, index.n), n - 1)
RECURSIVE ReadFields(_, _, _)
ReadFields(b, types, row) ==
    LET tag == DecodeVarint(b)
        body == After(b, tag.n)
        column == tag.v \div 8
        known == column \in DOMAIN types
        value == IF known THEN ReadValue(body, types[column]) ELSE SkipField(body, tag.v % 8)
    IN  IF b = << >> THEN [ok |-> TRUE, row |-> row, rest |-> b]
        ELSE IF ~tag.ok THEN [ok |-> FALSE, row |-> row, rest |-> b]
        ELSE IF tag.v = END_RECORD THEN [ok |-> TRUE, row |-> row, rest |-> IF Len(body) >= 4 THEN After(body, 4) ELSE body]
        ELSE IF ~value.ok THEN [ok |-> FALSE, row |-> row, rest |-> b]
        ELSE ReadFields(After(body, value.n), types, IF known THEN [row EXCEPT ![column] = value.v] ELSE row)
RECURSIVE ReadAll(_, _, _)
ReadAll(b, types, rows) ==
    LET tag == DecodeVarint(b)
        nulls == ReadNulls(After(b, tag.n), tag.v)
        one == ReadFields(nulls.b, types, [i \in DOMAIN types |-> Nil])
        count == DecodeVarint(After(b, tag.n))
        result(ok, n) == [ok |-> ok, rows |-> rows, count |-> n]
    IN  IF b = << >> THEN result(TRUE, -1)
        ELSE IF ~tag.ok THEN result(FALSE, -1)
        ELSE IF tag.v = META_COUNT THEN result(TRUE, IF count.ok THEN count.v ELSE -1)
        ELSE IF tag.v = META_CHECKSUM THEN result(TRUE, -1)
        ELSE IF ~nulls.ok \/ ~one.ok THEN result(FALSE, -1)
        ELSE ReadAll(one.rest, types, Append(rows, one.row))

-----------------------------------------------------------------------------
(* What is parsed from a stream is what was written, whole or not at all,  *)
(* and what follows it stays.                                              *)
ParsedWhole(parse(_), message, next, value) ==
    /\ \A k \in 0..(Len(message) - 1) : parse(Upto(message, k)) = Incomplete(Upto(message, k))
    /\ parse(message \o next) = Parsed(value, next)
(* A token says how long it is, and its fields end there.                  *)
TokenReads(bytes, token, layout, values) ==
    LET r == Read(After(bytes, 3), layout)
    IN  bytes[1] = token /\ Unsigned(Reverse(SubSeq(bytes, 2, 3))) = Len(bytes) - 3 /\ r.ok /\ r.buf = << >> /\ r.out = values
RECURSIVE ReadTdsRow(_, _)
ReadTdsRow(b, n) ==
    LET len == Unsigned(Reverse(Upto(b, 2)))
    IN  IF n = 0 THEN <<b>>
        ELSE <<[i \in 1..(len \div 2) |-> Unsigned(Reverse(SubSeq(b, 1 + 2 * i, 2 + 2 * i)))]>> \o ReadTdsRow(After(b, 2 + len), n - 1)
TunnelSurvives(rows, types, schema) ==
    ReadAll(Finish(rows, types), schema, << >>) =
    [ok |-> TRUE, rows |-> [i \in DOMAIN rows |-> SubSeq(rows[i], 1, Len(schema))], count |-> Len(rows)]

(* Every message of these protocols, for strings of several lengths, with  *)
(* more of the stream behind it.                                           *)
ReadPrefix(bytes) == Read(After(bytes, 8), <<I(4), I(4), Rest>>)
RespReads(v, next) == ParsedWhole(ParseResp, EncodeResp(v), next, v)
MongoReads(s, docs, next) ==
    LET sections == <<Section(s, docs), Section(Body, <<s>>)>>
        payload == LE(0, 4) \o EncodeSections(sections)
        query == LE(4, 4) \o CString(s) \o LE(0, 4) \o LE(-1, 4) \o Bson(s)
        reply(op) == ReadPrefix(EncodeReply(7, op, <<s>>))
    IN  /\ ParsedWhole(ParseMessage, Header(16 + Len(payload), 7, 0, OP_MSG) \o payload, next,
                       [op |-> OP_MSG, id |-> 7, sections |-> sections, query |-> << >>])
        /\ ParsedWhole(ParseMessage, Header(16 + Len(query), 7, 0, OP_QUERY) \o query, next,
                       [op |-> OP_QUERY, id |-> 7, sections |-> << >>, query |-> <<s, s, Nil>>])
        /\ reply(OP_MSG).out = << <<7>>, <<OP_MSG>>, LE(0, 4) \o <<0>> \o Bson(s) >>
        /\ reply(OP_REPLY).out = << <<7>>, <<OP_REPLY>>, LE(0, 16) \o LE(1, 4) \o Bson(s) >>
FramesRead(s, t, next) ==
    /\ ParsedWhole(ParseFrame, EncodeFrame(5, 7, BE(Len(s), 4) \o s \o t), next, [stream |-> 5, op |-> 7, body |-> BE(Len(s), 4) \o s \o t])
    /\ QueryText(BE(Len(s), 4) \o s \o t) = s
    /\ LET r == Read(ParseFrame(RowsResult(5, <<s, t>>, <<<<s, t>>>>)).value.body,
                     <<BU(4), BU(4), BU(4), Sized(2), BU(2), Sized(2), BU(2), BU(4), Sized(4), Sized(4)>>)
       IN  r.ok /\ r.buf = << >> /\ r.out = << <<2>>, <<0>>, <<2>>, s, <<13>>, t, <<13>>, <<1>>, s, t >>
    /\ \A type \in TnsTypes : ParsedWhole(ParseTns, EncodeTns(type, s), next, [type |-> type, data |-> s])
    /\ ParsedWhole(ReadTdsPacket, TdsPacket(4, s), next, [type |-> 4, data |-> s])
TokensRead(n, s, t) ==
    LET done == Read(EncodeDone(n, 16), <<U(1), U(2), U(2), U(4)>>)
        columns == Read(EncodeColMetadata(<<[name |-> s, type |-> 231, length |-> 510]>>), <<U(1), U(2), Wide(1), U(1), U(1), U(2)>>)
    IN  /\ done.out = << <<253>>, <<16>>, <<0>>, <<n>> >> /\ done.buf = << >>
        /\ TokenReads(EncodeError(n, 1, 16, s, t), 170, <<U(4), U(1), U(1), Wide(2), Wide(2), U(2), U(4)>>, << <<n>>, <<1>>, <<16>>, s, t, <<0>>, <<0>> >>)
        /\ TokenReads(EncodeInfo(n, 1, 10, s), 171, <<U(4), U(1), U(1), Wide(2), U(2), U(2), U(4)>>, << <<n>>, <<1>>, <<10>>, s, <<0>>, <<0>>, <<0>> >>)
        /\ TokenReads(EncodeLoginAck(t), 173, <<U(1), Fix(4), Wide(1), U(4)>>, << <<1>>, <<5, 0, 0, 0>>, t, <<16>> >>)
        /\ TokenReads(EncodeEnvChangeDb(t), 227, <<U(1), Wide(1), U(1)>>, << <<1>>, t, <<0>> >>)
        /\ Read(EncodeReturnStatus(n), <<U(1), U(4)>>).out = << <<121>>, <<n>> >>
        /\ columns.out = << <<129>>, <<1>>, s, <<1>>, <<231>>, <<510>> >> /\ columns.buf = << >>
        /\ ReadTdsRow(Tail(EncodeTdsRow(<<s, t>>)), 2) = <<s, t, << >> >>

=============================================================================
