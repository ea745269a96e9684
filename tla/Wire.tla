-------------------------------- MODULE Wire --------------------------------
(***************************************************************************)
(* The bytes of the MySQL and PostgreSQL protocols                         *)
(* (mysql-protocol/src/{value,packet}.rs, pg-protocol/src/message.rs).     *)
(*                                                                         *)
(* A byte is a number below 256.  A layout is a sequence of fields, and    *)
(* reading one consumes the buffer field by field, as the decoders do; a   *)
(* value read is a sequence of numbers (a number is a sequence of one, a   *)
(* NULL is Nil), so that the values of a message are comparable.           *)
(***************************************************************************)
EXTENDS Integers, Sequences, SequencesExt

Nil == <<-1>>
Upto(s, n) == SubSeq(s, 1, n)
After(s, n) == SubSeq(s, n + 1, Len(s))

RECURSIVE LE(_, _)
LE(n, w) == IF w = 0 THEN << >> ELSE <<n % 256>> \o LE(n \div 256, w - 1)
BE(n, w) == Reverse(LE(n, w))
Fold256(b, first) == FoldLeft(LAMBDA n, x : 256 * n + x, first, Tail(b))
Unsigned(b) == Fold256(b, b[1])
Signed(b) == Fold256(b, IF b[1] >= 128 THEN b[1] - 256 ELSE b[1])
Position(s, x) == IF x \in ToSet(s) THEN CHOOSE i \in DOMAIN s : s[i] = x /\ x \notin ToSet(Upto(s, i - 1)) ELSE 0
CString(s) == s \o <<0>>

(* encode_lenenc_int, and write_lenenc_bytes_to_buf of the server, which   *)
(* writes three bytes for every length that fits four.                     *)
EncodeLenencInt(n) ==
    IF n < 251 THEN <<n>>
    ELSE IF n < 65536 THEN <<252>> \o LE(n, 2)
    ELSE IF n < 16777216 THEN <<253>> \o LE(n, 3)
    ELSE <<254>> \o LE(n, 8)
WriteLenencHeaderPast(n) ==                    \* mutation: 251, the NULL marker, as a length
    IF n <= 251 THEN <<n>>
    ELSE IF n < 65536 THEN <<252>> \o LE(n, 2)
    ELSE <<253>> \o LE(n, 3)
WriteLenencHeader(n) ==
    IF n < 251 THEN <<n>>
    ELSE IF n < 65536 THEN <<252>> \o LE(n, 2)
    ELSE <<253>> \o LE(n, 3)
LenencBytes(s) == EncodeLenencInt(Len(s)) \o s

(* read_lenenc_int: the value and the bytes it took (0: an error).         *)
ReadLenencInt(b) ==
    LET width == IF b = << >> THEN -1 ELSE IF b[1] <= 250 THEN 0
                 ELSE IF b[1] = 252 THEN 2 ELSE IF b[1] = 253 THEN 3 ELSE IF b[1] = 254 THEN 8 ELSE -1
    IN  IF width = -1 \/ Len(b) < 1 + width THEN [v |-> 0, n |-> 0]
        ELSE [v |-> IF width = 0 THEN b[1] ELSE Unsigned(Reverse(SubSeq(b, 2, 1 + width))), n |-> 1 + width]

-----------------------------------------------------------------------------
(* Layouts.  `width' is in bytes; a "rep" reads a count and then as many   *)
(* times its own layout.                                                   *)
Field(k, width) == [k |-> k, width |-> width, sub |-> << >>]
U(w) == Field("le", w)
I(w) == Field("sle", w)
BU(w) == Field("be", w)
BI(w) == Field("sbe", w)
Z == Field("z", 0)                       \* NUL-terminated
Fix(n) == Field("fix", n)
Lint == Field("lint", 0)
Lstr == Field("lstr", 0)                 \* with 0xFB for NULL
Rest == Field("rest", 0)
Sized(w) == Field("sized", w)            \* a signed big-endian length, -1 for NULL
Wide(w) == Field("wide", w)              \* a little-endian count of two-byte characters
Rep(w, layout) == [k |-> "rep", width |-> w, sub |-> layout]

Got(r, v, n) == [ok |-> TRUE, buf |-> After(r.buf, n), out |-> Append(r.out, v)]
Failed(r) == [r EXCEPT !.ok = FALSE]
ReadLenencStr(r) ==
    LET len == ReadLenencInt(r.buf)
    IN  IF r.buf # << >> /\ r.buf[1] = 251 THEN Got(r, Nil, 1)
        ELSE IF len.n = 0 \/ Len(r.buf) < len.n + len.v THEN Failed(r)
        ELSE Got(r, SubSeq(r.buf, len.n + 1, len.n + len.v), len.n + len.v)
ReadSized(r, w) ==
    LET len == IF Len(r.buf) < w THEN -2 ELSE Signed(Upto(r.buf, w))
    IN  IF len = -1 THEN Got(r, Nil, w)
        ELSE IF len < 0 \/ Len(r.buf) < w + len THEN Failed(r)
        ELSE Got(r, SubSeq(r.buf, w + 1, w + len), w + len)
ReadWide(r, w) ==
    LET len == IF Len(r.buf) < w THEN -1 ELSE Unsigned(Reverse(Upto(r.buf, w)))
    IN  IF len < 0 \/ Len(r.buf) < w + 2 * len THEN Failed(r)
        ELSE Got(r, [i \in 1..len |-> Unsigned(Reverse(SubSeq(r.buf, w + 2 * i - 1, w + 2 * i)))], w + 2 * len)

RECURSIVE ReadField(_, _), ReadLayout(_, _), ReadTimes(_, _, _)
ReadLayout(r, layout) == IF ~r.ok \/ layout = << >> THEN r ELSE ReadLayout(ReadField(r, Head(layout)), Tail(layout))
ReadTimes(r, layout, n) == IF ~r.ok \/ n = 0 THEN r ELSE ReadTimes(ReadLayout(r, layout), layout, n - 1)
ReadField(r, f) ==
    LET bytes == Upto(r.buf, f.width)
        fits == Len(r.buf) >= f.width
    IN  IF ~r.ok THEN r
        ELSE CASE f.k = "le" -> IF fits THEN Got(r, <<Unsigned(Reverse(bytes))>>, f.width) ELSE Failed(r)
               [] f.k = "sle" -> IF fits THEN Got(r, <<Signed(Reverse(bytes))>>, f.width) ELSE Failed(r)
               [] f.k = "be" -> IF fits THEN Got(r, <<Unsigned(bytes)>>, f.width) ELSE Failed(r)
               [] f.k = "sbe" -> IF fits THEN Got(r, <<Signed(bytes)>>, f.width) ELSE Failed(r)
               [] f.k = "fix" -> IF fits THEN Got(r, bytes, f.width) ELSE Failed(r)
               [] f.k = "z" -> LET at == Position(r.buf, 0) IN IF at = 0 THEN Failed(r) ELSE Got(r, Upto(r.buf, at - 1), at)
               [] f.k = "lint" -> LET i == ReadLenencInt(r.buf) IN IF i.n = 0 THEN Failed(r) ELSE Got(r, <<i.v>>, i.n)
               [] f.k = "lstr" -> ReadLenencStr(r)
               [] f.k = "rest" -> Got(r, r.buf, Len(r.buf))
               [] f.k = "sized" -> ReadSized(r, f.width)
               [] f.k = "wide" -> ReadWide(r, f.width)
               [] f.k = "rep" -> IF fits THEN ReadTimes(Got(r, <<Unsigned(bytes)>>, f.width), f.sub, Unsigned(bytes)) ELSE Failed(r)
Read(buf, layout) == ReadLayout([ok |-> TRUE, buf |-> buf, out |-> << >>], layout)

-----------------------------------------------------------------------------
(* MySQL.  A packet: a three-byte length, the sequence number and the      *)
(* payload, which is never split.                                          *)
Packet(seq, payload) == LE(Len(payload), 3) \o <<seq>> \o payload
ReadPacketHeader(b) == IF Len(b) < 4 THEN [len |-> -1, seq |-> -1] ELSE [len |-> Unsigned(Reverse(Upto(b, 3))), seq |-> b[4]]

OkPacket(seq, rows, id, status, warnings) ==
    Packet(seq, <<0>> \o EncodeLenencInt(rows) \o EncodeLenencInt(id) \o LE(status, 2) \o LE(warnings, 2))
ErrPacket(seq, code, state, message) == Packet(seq, <<255>> \o LE(code, 2) \o <<35>> \o state \o message)
EofPacket(seq, warnings, status) == Packet(seq, <<254>> \o LE(warnings, 2) \o LE(status, 2))
ResultSetEofOkPacket(seq, rows, id, status, warnings) ==
    Packet(seq, <<254>> \o EncodeLenencInt(rows) \o EncodeLenencInt(id) \o LE(status, 2) \o LE(warnings, 2))
StmtPrepareOk(seq, id, columns, params, warnings) ==
    Packet(seq, <<0>> \o LE(id, 4) \o LE(columns, 2) \o LE(params, 2) \o <<0>> \o LE(warnings, 2))
AuthSwitchRequest(seq, plugin, data) == Packet(seq, <<254>> \o CString(plugin) \o data)

(* Column::encode.                                                         *)
Def == <<100, 101, 102>>
ColumnPacket(seq, c) ==
    Packet(seq, LenencBytes(Def) \o LenencBytes(c.schema) \o LenencBytes(c.table) \o LenencBytes(c.table)
                \o LenencBytes(c.name) \o LenencBytes(c.name) \o EncodeLenencInt(12) \o LE(c.charset, 2)
                \o LE(c.length, 4) \o <<c.type>> \o LE(c.flags, 2) \o <<c.decimals>> \o LE(0, 2))

(* HandshakeV10::encode with the server's own capabilities.                *)
HandshakePacket(seq, version, id, salt, plugin) ==
    Packet(seq, <<10>> \o CString(version) \o LE(id, 4) \o Upto(salt, 8) \o <<0>> \o <<12, 162>> \o <<45>> \o LE(2, 2)
                \o <<63, 1>> \o <<21>> \o [i \in 1..10 |-> 0] \o CString(After(salt, 8)) \o CString(plugin))

(* HandshakeResponse::parse: four flag bytes, the user at offset 32, and   *)
(* then what the flags announce.                                           *)
Caps(b) == {c \in {"db", "secure", "plugin", "lenenc"} :
              CASE c = "db" -> (b[1] \div 8) % 2 = 1 [] c = "secure" -> b[2] >= 128
                [] c = "plugin" -> (b[3] \div 8) % 2 = 1 [] c = "lenenc" -> (b[3] \div 32) % 2 = 1}
Text(b) == LET at == Position(b, 0) IN IF at = 0 THEN b ELSE Upto(b, at - 1)
AuthResponse(b, caps) ==
    LET len == ReadLenencInt(b)
    IN  IF "lenenc" \in caps THEN [data |-> SubSeq(b, len.n + 1, len.n + len.v), n |-> len.n + len.v]
        ELSE IF "secure" \in caps THEN [data |-> SubSeq(b, 2, b[1] + 1), n |-> b[1] + 1]
        ELSE [data |-> Text(b), n |-> Len(Text(b)) + 1]
HandshakeResponse(b) ==
    LET caps == Caps(b)
        user == Text(After(b, 32))
        auth == AuthResponse(After(b, 32 + Len(user) + 1), caps)
        more == After(b, 32 + Len(user) + 1 + auth.n)
        db == IF "db" \in caps /\ more # << >> THEN Text(more) ELSE Nil
        last == IF db = Nil THEN more ELSE After(more, Len(db) + 1)
    IN  IF Len(b) < 33 THEN << >>
        ELSE <<user, auth.data, db, IF "plugin" \in caps /\ last # << >> THEN Text(last) ELSE Nil>>

(* encode_text_row and its two variants that write into the buffer: the    *)
(* header is filled in after the payload.                                  *)
TextRow(seq, values) ==
    Packet(seq, FlattenSeq([i \in DOMAIN values |-> IF values[i] = Nil THEN <<251>> ELSE LenencBytes(values[i])]))

(* encode_binary_value.  A value is [t, v].                                *)
Binary(t, v) == [t |-> t, v |-> v]
IntWidth == [TINY |-> 1, SHORT |-> 2, LONG |-> 4, LONGLONG |-> 8]
EncodeBinaryValue(x) ==
    CASE x.t \in DOMAIN IntWidth -> LE(x.v[1], IntWidth[x.t])
      [] x.t = "DOUBLE" -> x.v                                       \* the eight bytes of an f64
      [] x.t = "STRING" -> LenencBytes(x.v)
      [] x.t = "DATE" -> <<4>> \o LE(x.v[1], 2) \o <<x.v[2], x.v[3]>>
      [] x.t = "DATETIME" ->
           IF x.v[7] = 0 THEN <<7>> \o LE(x.v[1], 2) \o SubSeq(x.v, 2, 6)
           ELSE <<11>> \o LE(x.v[1], 2) \o SubSeq(x.v, 2, 6) \o LE(x.v[7], 4)
      [] x.t = "TIME" ->
           IF x.v[6] = 0 THEN <<8, x.v[1]>> \o LE(x.v[2], 4) \o SubSeq(x.v, 3, 5)
           ELSE <<12, x.v[1]>> \o LE(x.v[2], 4) \o SubSeq(x.v, 3, 5) \o LE(x.v[6], 4)

(* encode_binary_row: a bit for every NULL, the first two bits unused.     *)
NullValue == Binary("NULL", << >>)
NullBitmap(values) ==
    LET size == (Len(values) + 9) \div 8
        bit(i) == IF values[i] = NullValue THEN 2 ^ ((i + 1) % 8) ELSE 0
        at(k) == {i \in DOMAIN values : (i + 1) \div 8 = k - 1}
    IN  [k \in 1..size |-> SumSet({bit(i) : i \in at(k)})]
BinaryRow(seq, values) ==
    Packet(seq, <<0>> \o NullBitmap(values)
                \o FlattenSeq([i \in DOMAIN values |-> IF values[i] = NullValue THEN << >> ELSE EncodeBinaryValue(values[i])]))

(* text_to_binary: what is not a number of the column's width becomes      *)
(* NULL, what is not a date a string.  FLOAT takes the DOUBLE's form.      *)
Dash == 45
Digit(b) == b \in 48..57
Number(s) ==
    LET digits == IF s # << >> /\ s[1] \in {Dash, 43} THEN Tail(s) ELSE s
        n == FoldLeft(LAMBDA a, d : 10 * a + d - 48, 0, digits)
    IN  IF digits = << >> \/ \E i \in DOMAIN digits : ~Digit(digits[i]) THEN Nil
        ELSE <<IF s[1] = Dash THEN -n ELSE n, 0>>
Within(s, lo, hi) == IF Number(s) # Nil /\ Number(s)[1] \in lo..hi THEN <<Number(s)[1]>> ELSE Nil
RECURSIVE Split(_, _)
Split(s, sep) == LET at == Position(s, sep) IN IF at = 0 THEN <<s>> ELSE <<Upto(s, at - 1)>> \o Split(After(s, at), sep)
Limits == [TINY |-> 127, SHORT |-> 32767, LONG |-> 2147483646, LONGLONG |-> 2147483646]   \* TLC's integers end here
Made(t, parts) == IF \E i \in DOMAIN parts : parts[i] = Nil THEN NullValue ELSE Binary(t, [i \in DOMAIN parts |-> parts[i][1]])
(* More than six digits of a fraction wrap the exponent, and the power to  *)
(* 0.                                                                      *)
Clock(time) ==
    LET seconds == Split(time[3], 46)
        micros == IF Len(seconds) = 1 THEN <<0>>
                  ELSE LET f == Within(seconds[2], 0, Limits.LONG)
                           n == Len(seconds[2])
                       IN  IF f = Nil THEN Nil ELSE <<IF n > 6 THEN 0 ELSE f[1] * 10 ^ (6 - n)>>
    IN  <<Within(time[1], 0, 255), Within(time[2], 0, 255), Within(seconds[1], 0, 255), micros>>
DateParts(d) == <<Within(d[1], 0, 65535), Within(d[2], 0, 255), Within(d[3], 0, 255)>>
TextToBinary(text, type) ==
    LET day == Split(text, Dash)
        halves == SelectSeq(Split(text, 32), LAMBDA p : p # << >>)
        string == Binary("STRING", text)
    IN  CASE type \in DOMAIN IntWidth -> Made(type, <<Within(text, -Limits[type] - 1, Limits[type])>>)
          [] type = "DATE" -> IF Len(day) = 3 THEN Made("DATE", DateParts(day)) ELSE string
          [] type = "DATETIME" ->
               IF Len(halves) >= 2 /\ Len(Split(halves[1], Dash)) = 3 /\ Len(Split(halves[2], 58)) >= 3
               THEN Made("DATETIME", DateParts(Split(halves[1], Dash)) \o Clock(Split(halves[2], 58)))
               ELSE string
          [] OTHER -> string

-----------------------------------------------------------------------------
(* PostgreSQL, from the client: the first message has no type byte.        *)
NoMessage(buf) == [type |-> 0, fields |-> << >>, rest |-> buf, ok |-> TRUE]
RECURSIVE StartupParams(_)
StartupParams(r) ==
    LET key == ReadField(r, Z)
    IN  IF r.buf = << >> THEN r
        ELSE IF ~key.ok THEN key
        ELSE IF Last(key.out) = << >> THEN [key EXCEPT !.out = r.out]
        ELSE StartupParams(ReadField(key, Z))
DecodeStartup(buf) ==
    LET len == Signed(Upto(buf, 4))
        r == StartupParams(Read(After(buf, 4), <<BI(4)>>))
    IN  IF Len(buf) < 4 THEN NoMessage(buf)
        ELSE IF len < 4 \/ len > 10485760 THEN [NoMessage(buf) EXCEPT !.ok = FALSE]
        ELSE IF Len(buf) < len THEN NoMessage(buf)
        ELSE IF len < 8 THEN [NoMessage(buf) EXCEPT !.rest = After(buf, 4), !.ok = FALSE]
        ELSE [type |-> 1, fields |-> r.out, rest |-> r.buf, ok |-> r.ok]

(* FrontendMessage::decode: nothing is consumed before the whole message   *)
(* is there.                                                               *)
FrontendLayout(type) ==
    CASE type = 81 -> <<Z>>                                                     \* Query
      [] type = 80 -> <<Z, Z, Rep(2, <<BU(4)>>)>>                               \* Parse
      [] type = 66 -> <<Z, Z, Rep(2, <<BI(2)>>), Rep(2, <<Sized(4)>>), Rep(2, <<BI(2)>>)>>   \* Bind
      [] type \in {68, 67} -> <<U(1), Z>>                                       \* Describe, Close
      [] type = 69 -> <<Z, BI(4)>>                                              \* Execute
      [] type \in {83, 88} -> << >>                                             \* Sync, Terminate
      [] type = 112 -> <<Z>>                                                    \* PasswordMessage
      [] OTHER -> <<Field("sized", 4)>>
FrontendTypes == {81, 80, 66, 68, 67, 69, 83, 88, 112}
DecodeFrontend(buf) ==
    LET total == 1 + Signed(SubSeq(buf, 2, 5))
        r == Read(After(buf, 5), FrontendLayout(buf[1]))
        target == buf[1] \in {68, 67} => r.out[1][1] \in {83, 80}
    IN  IF Len(buf) < 5 \/ Len(buf) < total THEN NoMessage(buf)
        ELSE [type |-> buf[1], fields |-> r.out, rest |-> r.buf, ok |-> r.ok /\ buf[1] \in FrontendTypes /\ target]

(* BackendMessage::encode.  The lengths of the fixed messages are written  *)
(* out, the others are counted.                                            *)
Framed(type, len, body) == <<type>> \o BE(len, 4) \o body
Counted(type, body) == Framed(type, Len(body) + 4, body)
Concat(parts) == FlattenSeq(parts)
FieldDescription(f) == CString(f.name) \o BE(0, 4) \o BE(0, 2) \o BE(f.oid, 4) \o BE(f.size, 2) \o BE(-1, 4) \o BE(0, 2)
ErrorBody(fields) == Concat([i \in DOMAIN fields |-> <<fields[i][1]>> \o CString(fields[i][2])]) \o <<0>>
EmptyMessages == [I |-> 73, one |-> 49, two |-> 50, three |-> 51, n |-> 110, s |-> 115]
EncodeBackend(m) ==
    CASE m.t = "AuthenticationOk" -> Framed(82, 8, BE(0, 4))
      [] m.t = "AuthenticationMD5Password" -> Framed(82, 12, BE(5, 4) \o m.v)
      [] m.t = "AuthenticationCleartextPassword" -> Framed(82, 8, BE(3, 4))
      [] m.t = "ParameterStatus" -> Framed(83, Len(m.v[1]) + 1 + Len(m.v[2]) + 1 + 4, CString(m.v[1]) \o CString(m.v[2]))
      [] m.t = "BackendKeyData" -> Framed(75, 12, BE(m.v[1], 4) \o BE(m.v[2], 4))
      [] m.t = "ReadyForQuery" -> Framed(90, 5, m.v)
      [] m.t = "RowDescription" -> Counted(84, BE(Len(m.v), 2) \o Concat([i \in DOMAIN m.v |-> FieldDescription(m.v[i])]))
      [] m.t = "DataRow" ->
           Counted(68, BE(Len(m.v), 2) \o Concat([i \in DOMAIN m.v |-> IF m.v[i] = Nil THEN BE(-1, 4) ELSE BE(Len(m.v[i]), 4) \o m.v[i]]))
      [] m.t = "CommandComplete" -> Framed(67, Len(m.v) + 1 + 4, CString(m.v))
      [] m.t = "ErrorResponse" -> Counted(69, ErrorBody(m.v))
      [] m.t = "NoticeResponse" -> Counted(78, ErrorBody(m.v))
      [] m.t = "ParameterDescription" -> Counted(116, BE(Len(m.v), 2) \o Concat([i \in DOMAIN m.v |-> BE(m.v[i], 4)]))
      [] m.t \in DOMAIN EmptyMessages -> Framed(EmptyMessages[m.t], 4, << >>)

-----------------------------------------------------------------------------
(* What the protocols say of the same bytes: a client reads one packet or  *)
(* message by its length, and its fields by their layout, to the end.      *)
PacketReads(bytes, seq, layout, values) ==
    LET h == ReadPacketHeader(bytes)
        r == Read(After(bytes, 4), layout)
    IN  h.seq = seq /\ Len(bytes) = 4 + h.len /\ r.ok /\ r.buf = << >> /\ r.out = values
MessageReads(bytes, type, layout, values) ==
    LET r == Read(After(bytes, 5), layout)
    IN  bytes[1] = type /\ Len(bytes) = 1 + Signed(SubSeq(bytes, 2, 5)) /\ r.ok /\ r.buf = << >> /\ r.out = values

(* A client's view of a binary row: the types tell the widths.             *)
ReadBinary(r, type) ==
    CASE type \in DOMAIN IntWidth -> ReadField(r, I(IntWidth[type]))
      [] type = "DOUBLE" -> ReadField(r, Fix(8))
      [] type = "STRING" -> ReadField(r, Lstr)
      [] OTHER -> LET len == r.buf[1] IN ReadField([r EXCEPT !.buf = Tail(r.buf)], Fix(len))
Moment(type, v) ==
    CASE type = "DATE" -> <<v[1] + 256 * v[2], v[3], v[4]>>
      [] type = "DATETIME" -> <<v[1] + 256 * v[2]>> \o SubSeq(v, 3, 7) \o (IF Len(v) = 7 THEN <<0>> ELSE <<Unsigned(Reverse(After(v, 7)))>>)
      [] type = "TIME" -> <<v[1], Unsigned(Reverse(SubSeq(v, 2, 5)))>> \o SubSeq(v, 6, 8) \o (IF Len(v) = 8 THEN <<0>> ELSE <<Unsigned(Reverse(After(v, 8)))>>)
      [] OTHER -> v
RECURSIVE ReadColumns(_, _, _, _)
ReadColumns(r, types, isNull(_), i) ==
    LET next == IF isNull(i) THEN [r EXCEPT !.out = Append(@, << >>)] ELSE ReadBinary(r, types[i])
        value == IF isNull(i) THEN Nil ELSE Moment(types[i], Last(next.out))
    IN  IF ~r.ok \/ i > Len(types) THEN r
        ELSE ReadColumns([next EXCEPT !.out = Append(r.out, value)], types, isNull, i + 1)
BinaryRowReads(bytes, types, values) ==
    LET size == (Len(types) + 9) \div 8
        bitmap == SubSeq(bytes, 6, 5 + size)
        isNull(i) == (bitmap[1 + (i + 1) \div 8] \div 2 ^ ((i + 1) % 8)) % 2 = 1
        r == ReadColumns([ok |-> TRUE, buf |-> After(bytes, 5 + size), out |-> << >>], types, isNull, 1)
    IN  /\ ReadPacketHeader(bytes).len = Len(bytes) - 4
        /\ bytes[5] = 0 /\ r.ok /\ r.buf = << >>
        /\ r.out = values

(* What a client sends is decoded as it was meant once it is there, not    *)
(* before, and without touching what follows.                              *)
DecodedWhole(decode(_), message, next, type, values) ==
    /\ \A k \in 0..(Len(message) - 1) : decode(Upto(message, k)) = NoMessage(Upto(message, k))
    /\ decode(message \o next) = [type |-> type, fields |-> values, rest |-> next, ok |-> TRUE]

(* Every packet the MySQL server writes reads back as it was meant, for    *)
(* the numbers and the string lengths at which the encoding changes.       *)
MySqlReads(n, s, t) ==
    LET column == [schema |-> s, table |-> t, name |-> s, charset |-> 45, length |-> n, type |-> 253, flags |-> 1, decimals |-> 0]
        salt == [i \in 1..20 |-> i]
        lenenc == n < 16777216 => WriteLenencHeader(n) = EncodeLenencInt(n)
    IN  /\ lenenc
        /\ PacketReads(OkPacket(1, n, n, 2, 0), 1, <<U(1), Lint, Lint, U(2), U(2)>>, << <<0>>, <<n>>, <<n>>, <<2>>, <<0>> >>)
        /\ PacketReads(ResultSetEofOkPacket(1, n, 0, 2, 0), 1, <<U(1), Lint, Lint, U(2), U(2)>>, << <<254>>, <<n>>, <<0>>, <<2>>, <<0>> >>)
        /\ PacketReads(ErrPacket(2, 1064, <<52, 50, 48, 48, 48>>, s), 2, <<U(1), U(2), U(1), Fix(5), Rest>>,
                       << <<255>>, <<1064>>, <<35>>, <<52, 50, 48, 48, 48>>, s >>)
        /\ PacketReads(EofPacket(255, 1, 2), 255, <<U(1), U(2), U(2)>>, << <<254>>, <<1>>, <<2>> >>)
        /\ PacketReads(StmtPrepareOk(1, n, 2, 3, 0), 1, <<U(1), U(4), U(2), U(2), U(1), U(2)>>, << <<0>>, <<n>>, <<2>>, <<3>>, <<0>>, <<0>> >>)
        /\ PacketReads(AuthSwitchRequest(2, s, t), 2, <<U(1), Z, Rest>>, << <<254>>, s, t >>)
        /\ PacketReads(ColumnPacket(3, column), 3, <<Lstr, Lstr, Lstr, Lstr, Lstr, Lstr, Lint, U(2), U(4), U(1), U(2), U(1), U(2)>>,
                       << Def, s, t, t, s, s, <<12>>, <<45>>, <<n>>, <<253>>, <<1>>, <<0>>, <<0>> >>)
        /\ PacketReads(HandshakePacket(0, s, n, salt, t), 0, <<U(1), Z, U(4), Fix(8), U(1), Fix(2), U(1), U(2), Fix(2), U(1), Fix(10), Z, Z>>,
                       << <<10>>, s, <<n>>, Upto(salt, 8), <<0>>, <<12, 162>>, <<45>>, <<2>>, <<63, 1>>, <<21>>, [i \in 1..10 |-> 0], After(salt, 8), t >>)
        /\ PacketReads(TextRow(4, <<s, Nil, t>>), 4, <<Lstr, Lstr, Lstr>>, <<s, Nil, t>>)

(* A client's HandshakeResponse41 for a set of capabilities.               *)
Response(caps, user, auth, db, plugin) ==
    LET bit(c, n) == IF c \in caps THEN n ELSE 0
    IN  <<bit("db", 8), bit("secure", 128), bit("plugin", 8) + bit("lenenc", 32)>> \o [i \in 1..29 |-> 0] \o CString(user)
        \o (IF "lenenc" \in caps THEN LenencBytes(auth) ELSE IF "secure" \in caps THEN <<Len(auth)>> \o auth ELSE CString(auth))
        \o (IF "db" \in caps THEN CString(db) ELSE << >>) \o (IF "plugin" \in caps THEN CString(plugin) ELSE << >>)
ResponseReads(caps, user, auth, db, plugin) ==
    HandshakeResponse(Response(caps, user, auth, db, plugin)) =
    << user, auth, IF "db" \in caps THEN db ELSE Nil, IF "plugin" \in caps THEN plugin ELSE Nil >>

(* What a PostgreSQL client sends, before another message `next'.          *)
FrontendReads(s, t, next) ==
    LET sends(type, body, values) == DecodedWhole(DecodeFrontend, Counted(type, body), next, type, values)
        startup == BE(196608, 4) \o CString(<<117>> \o s) \o CString(t) \o <<0>>
    IN  /\ sends(81, CString(s), <<s>>)
        /\ sends(80, CString(s) \o CString(t) \o BE(2, 2) \o BE(23, 4) \o BE(0, 4), << s, t, <<2>>, <<23>>, <<0>> >>)
        /\ sends(66, CString(s) \o CString(t) \o BE(1, 2) \o BE(0, 2) \o BE(2, 2) \o BE(Len(t), 4) \o t \o BE(-1, 4) \o BE(0, 2),
                 << s, t, <<1>>, <<0>>, <<2>>, t, Nil, <<0>> >>)
        /\ sends(68, <<83>> \o CString(s), << <<83>>, s >>)
        /\ sends(67, <<80>> \o CString(s), << <<80>>, s >>)
        /\ sends(69, CString(s) \o BE(100, 4), << s, <<100>> >>)
        /\ sends(83, << >>, << >>)
        /\ sends(88, << >>, << >>)
        /\ sends(112, CString(s), <<s>>)
        /\ DecodedWhole(DecodeStartup, BE(Len(startup) + 4, 4) \o startup, << >>, 1, << <<196608>>, <<117>> \o s, t >>)

(* What the PostgreSQL server answers.                                     *)
BackendReads(n, s, t) ==
    LET answers(k, v, type, layout, values) == MessageReads(EncodeBackend([t |-> k, v |-> v]), type, layout, values)
        text == <<U(1), Z, U(1), Z, U(1)>>
        fields == << <<83, s>>, <<77, t>> >>
        read == << <<83>>, s, <<77>>, t, <<0>> >>
    IN  /\ answers("AuthenticationOk", << >>, 82, <<BU(4)>>, << <<0>> >>)
        /\ answers("AuthenticationMD5Password", <<1, 2, 3, 4>>, 82, <<BU(4), Fix(4)>>, << <<5>>, <<1, 2, 3, 4>> >>)
        /\ answers("AuthenticationCleartextPassword", << >>, 82, <<BU(4)>>, << <<3>> >>)
        /\ answers("ParameterStatus", <<s, t>>, 83, <<Z, Z>>, <<s, t>>)
        /\ answers("BackendKeyData", <<n, 7>>, 75, <<BI(4), BI(4)>>, << <<n>>, <<7>> >>)
        /\ answers("ReadyForQuery", <<73>>, 90, <<U(1)>>, << <<73>> >>)
        /\ answers("RowDescription", <<[name |-> s, oid |-> 25, size |-> -1]>>, 84, <<Rep(2, <<Z, BU(4), BU(2), BU(4), BI(2), BI(4), BU(2)>>)>>,
                   << <<1>>, s, <<0>>, <<0>>, <<25>>, <<-1>>, <<-1>>, <<0>> >>)
        /\ answers("DataRow", <<s, Nil, t>>, 68, <<Rep(2, <<Sized(4)>>)>>, << <<3>>, s, Nil, t >>)
        /\ answers("CommandComplete", s, 67, <<Z>>, <<s>>)
        /\ answers("ErrorResponse", fields, 69, text, read)
        /\ answers("NoticeResponse", fields, 78, text, read)
        /\ answers("ParameterDescription", <<23, 25>>, 116, <<Rep(2, <<BU(4)>>)>>, << <<2>>, <<23>>, <<25>> >>)
        /\ \A k \in DOMAIN EmptyMessages : answers(k, << >>, EmptyMessages[k], << >>, << >>)

=============================================================================
