---------------------------- MODULE SqlFunctions ----------------------------
(***************************************************************************)
(* The functions the query engine is given for MySQL and Doris (date_udf,  *)
(* doris_udf, misc_udf), and the way dates and times enter and leave a     *)
(* table (utils.rs).  A DATE is a number of days since 1970-01-01; a       *)
(* TIMESTAMP is the pair of its day and its second of the day; a value     *)
(* that may be NULL is a sequence of at most one value.                    *)
(***************************************************************************)
EXTENDS Text, FiniteSets, TLC

CONSTANT Width                          \* the bits of a DATE: 32 in the code

IntMin == -(2 ^ (Width - 1))
IntMax == 2 ^ (Width - 1) - 1
Null == << >>
Some(v) == <<v>>
AndThen(v, Op(_)) == IF v = Null THEN Null ELSE Op(v[1])
Clamp(n) == IF n < IntMin THEN IntMin ELSE IF n > IntMax THEN IntMax ELSE n

-----------------------------------------------------------------------------
(* The calendar of chrono.                                                 *)

Leap(y) == (y % 4 = 0 /\ y % 100 # 0) \/ y % 400 = 0
MonthDays(y) == <<31, IF Leap(y) THEN 29 ELSE 28, 31, 30, 31, 30, 31, 31, 30, 31, 30, 31>>
DaysBefore(y, m) == <<0, 31, 59, 90, 120, 151, 181, 212, 243, 273, 304, 334>>[m] + (IF m > 2 /\ Leap(y) THEN 1 ELSE 0)
YearStart(y) == 365 * (y - 1970) + ((y - 1) \div 4) - ((y - 1) \div 100) + ((y - 1) \div 400) - 477
FromYmd(y, m, d) == IF m \in 1..12 /\ d \in 1..MonthDays(y)[m] THEN Some(YearStart(y) + DaysBefore(y, m) + d - 1) ELSE Null
FromYo(y, n) == IF n \in 1..(IF Leap(y) THEN 366 ELSE 365) THEN Some(YearStart(y) + n - 1) ELSE Null
Year(days) ==
    LET guess == 1970 + (days \div 366)
    IN  CHOOSE y \in (guess - 2)..(guess + 2) : YearStart(y) <= days /\ days < YearStart(y + 1)
DayOfYear(days) == days - YearStart(Year(days)) + 1
Month(days) ==
    LET y == Year(days)
        n == days - YearStart(y)
    IN  CHOOSE m \in 1..12 : DaysBefore(y, m) <= n /\ (m = 12 \/ n < DaysBefore(y, m + 1))
Day(days) == DayOfYear(days) - DaysBefore(Year(days), Month(days))
Weekday(days) == (days + 4) % 7         \* from Sunday; 1970-01-01 was a Thursday
Thursday(days) == days - ((Weekday(days) + 6) % 7) + 3

(* chrono's formats: the items of a format, what is written for an item,   *)
(* what is read for it.  A NaiveDate has no time: writing one of the time  *)
(* items fails, and to_string panics.                                      *)
MonthNames == <<"January", "February", "March", "April", "May", "June", "July", "August", "September", "October", "November", "December">>
ShortMonths == <<"Jan", "Feb", "Mar", "Apr", "May", "Jun", "Jul", "Aug", "Sep", "Oct", "Nov", "Dec">>
DayNames == <<"Sunday", "Monday", "Tuesday", "Wednesday", "Thursday", "Friday", "Saturday">>
ShortDays == <<"Sun", "Mon", "Tue", "Wed", "Thu", "Fri", "Sat">>
ItemExpands == "T" :> <<"%", "H", ":", "%", "M", ":", "%", "S">> @@ "r" :> <<"%", "I", ":", "%", "M", ":", "%", "S", " ", "%", "p">>
               @@ "D" :> <<"%", "m", "/", "%", "d", "/", "%", "y">> @@ "h" :> <<"%", "b">>
TimeItems == {"H", "-H", "I", "-I", "M", "S", "p", "f"}
DateItems == {"Y", "y", "m", "-m", "d", "-d", "j", "B", "b", "A", "a", "G", "V"}
Item(kind, v) == [kind |-> kind, v |-> v]

RECURSIVE Items(_)
Items(f) ==
    IF f = << >> THEN << >>
    ELSE IF f[1] # "%" THEN <<Item("char", f[1])>> \o Items(Tail(f))
    ELSE IF Len(f) = 1 THEN <<Item("error", "")>>
    ELSE LET flag == f[2] = "-" /\ Len(f) > 2
             rest == SubSeq(f, IF flag THEN 4 ELSE 3, Len(f))
             name == IF flag THEN "-" ELSE f[2]
         IN  CASE flag -> <<IF f[3] \in {"m", "d", "H", "I"} THEN Item("field", [m |-> "-m", d |-> "-d", H |-> "-H", I |-> "-I"][f[3]]) ELSE Item("error", "")>> \o Items(rest)
               [] name = "%" -> <<Item("char", "%")>> \o Items(rest)
               [] name \in DOMAIN ItemExpands -> Items(ItemExpands[name] \o rest)
               [] name \in TimeItems \cup DateItems -> <<Item("field", name)>> \o Items(rest)
               [] OTHER -> <<Item("error", "")>>

RECURSIVE Pad(_, _)
Pad(n, width) == IF width = 0 THEN << >> ELSE Append(Pad(n \div 10, width - 1), DigitOf[(n % 10) + 1])
Hour12(h) == IF h % 12 = 0 THEN 12 ELSE h % 12
ItemText(item, days, sec) ==
    LET h == sec \div 3600
    IN  CASE item = "Y" -> Pad(Year(days), 4)        [] item = "y" -> Pad(Year(days) % 100, 2)
          [] item = "m" -> Pad(Month(days), 2)       [] item = "-m" -> NatText(Month(days))
          [] item = "d" -> Pad(Day(days), 2)         [] item = "-d" -> NatText(Day(days))
          [] item = "j" -> Pad(DayOfYear(days), 3)
          [] item = "B" -> <<MonthNames[Month(days)]>> [] item = "b" -> <<ShortMonths[Month(days)]>>
          [] item = "A" -> <<DayNames[Weekday(days) + 1]>> [] item = "a" -> <<ShortDays[Weekday(days) + 1]>>
          [] item = "G" -> Pad(Year(Thursday(days)), 4)
          [] item = "V" -> Pad((DayOfYear(Thursday(days)) + 6) \div 7, 2)
          [] item = "H" -> Pad(h, 2)                 [] item = "-H" -> NatText(h)
          [] item = "I" -> Pad(Hour12(h), 2)         [] item = "-I" -> NatText(Hour12(h))
          [] item = "M" -> Pad((sec \div 60) % 60, 2) [] item = "S" -> Pad(sec % 60, 2)
          [] item = "p" -> <<IF h < 12 THEN "AM" ELSE "PM">>
          [] OTHER -> Pad(0, 9)
Panic == <<"panic">>
FormatWith(days, time, f) ==
    LET items == Items(f)
    IN  IF \E i \in DOMAIN items : items[i].kind = "error" \/ (items[i].v \in TimeItems /\ items[i].kind = "field" /\ time = Null) THEN Panic
        ELSE FlattenSeq([i \in DOMAIN items |-> IF items[i].kind = "char" THEN <<items[i].v>>
                                                ELSE ItemText(items[i].v, days, IF time = Null THEN 0 ELSE time[1])])

DigitsOf(s, width) == CHOOSE n \in 0..width : /\ n <= Len(s) /\ \A i \in 1..n : IsDigit(s[i])
                                              /\ n < width /\ n < Len(s) => ~IsDigit(s[n + 1])
ReadWidth == [Y |-> 4, y |-> 2, m |-> 2, d |-> 2, H |-> 2, I |-> 2, M |-> 2, S |-> 2, j |-> 3]
             @@ ("-m" :> 2 @@ "-d" :> 2 @@ "-H" :> 2 @@ "-I" :> 2)
FieldOf == [Y |-> "year", y |-> "year", m |-> "month", d |-> "day", H |-> "hour", I |-> "hour12", M |-> "minute", S |-> "second", j |-> "ordinal",
            B |-> "month", b |-> "month", A |-> "weekday", a |-> "weekday", p |-> "half"]
           @@ ("-m" :> "month" @@ "-d" :> "day" @@ "-H" :> "hour" @@ "-I" :> "hour12")
NamesOf(item) == CASE item = "B" -> {MonthNames, ShortMonths} [] item = "b" -> {ShortMonths} [] item = "A" -> {DayNames, ShortDays}
                   [] item = "a" -> {ShortDays} [] OTHER -> {<<"AM", "PM">>}
Century(n) == IF n < 70 THEN 2000 + n ELSE 1900 + n
RECURSIVE Scan(_, _, _)
Scan(s, items, fields) ==
    IF items = << >> THEN (IF s = << >> THEN Some(fields) ELSE Null)
    ELSE IF s = << >> \/ Head(items).kind = "error" THEN Null
    ELSE LET item == Head(items).v
         IN  IF Head(items).kind = "char" THEN (IF s[1] = item THEN Scan(Tail(s), Tail(items), fields) ELSE Null)
             ELSE IF item \in DOMAIN ReadWidth
             THEN LET n == DigitsOf(s, ReadWidth[item])
                      v == ParseNat(SubSeq(s, 1, n))
                  IN  IF n = 0 THEN Null
                      ELSE Scan(SubSeq(s, n + 1, Len(s)), Tail(items), fields @@ FieldOf[item] :> (IF item = "y" THEN Century(v) ELSE v))
             ELSE LET known == {ns \in NamesOf(item) : \E i \in DOMAIN ns : ns[i] = s[1]}
                  IN  IF known = {} THEN Null
                      ELSE LET names == CHOOSE ns \in known : TRUE
                           IN  Scan(Tail(s), Tail(items), fields @@ FieldOf[item] :> (CHOOSE i \in DOMAIN names : names[i] = s[1]))

DateOf(f) ==
    LET has(S) == S \subseteq DOMAIN f
        days == CASE has({"year", "month", "day"}) -> FromYmd(f.year, f.month, f.day)
                  [] has({"year", "ordinal"}) /\ ~has({"month", "day"}) -> FromYo(f.year, f.ordinal)
                  [] OTHER -> Null
        agrees(d) == /\ has({"weekday"}) => Weekday(d) + 1 = f.weekday
                     /\ has({"ordinal"}) => DayOfYear(d) = f.ordinal
                     /\ has({"month"}) => Month(d) = f.month
    IN  IF days # Null /\ agrees(days[1]) THEN days ELSE Null
TimeOf(f) ==
    LET hour == IF "hour" \in DOMAIN f THEN Some(f.hour)
                ELSE IF {"hour12", "half"} \subseteq DOMAIN f THEN Some((f.hour12 % 12) + 12 * (f.half - 1)) ELSE Null
        second == IF "second" \in DOMAIN f THEN f.second ELSE 0
    IN  IF hour # Null /\ "minute" \in DOMAIN f /\ hour[1] < 24 /\ f.minute < 60 /\ second < 60
        THEN Some(hour[1] * 3600 + f.minute * 60 + second) ELSE Null
ParseDate(s, f) == AndThen(Scan(s, Items(f), << >>), DateOf)
ParseDateTime(s, f) ==
    LET fields == Scan(s, Items(f), << >>)
    IN  IF fields = Null \/ DateOf(fields[1]) = Null \/ TimeOf(fields[1]) = Null THEN Null
        ELSE Some(<<DateOf(fields[1])[1], TimeOf(fields[1])[1]>>)

Dashes == <<"%", "Y", "-", "%", "m", "-", "%", "d">>
Slashes == <<"%", "Y", "/", "%", "m", "/", "%", "d">>
Compact == <<"%", "Y", "%", "m", "%", "d">>
Clock == <<" ", "%", "H", ":", "%", "M", ":", "%", "S">>
TClock == <<"T">> \o Tail(Clock)

-----------------------------------------------------------------------------
(* date_udf.rs.  A function of a date takes a DATE or a text: on a text it *)
(* reads the date first.                                                   *)

FirstRead(s, formats, Read(_, _)) ==
    LET i == SelectInSeq(formats, LAMBDA f : Read(s, f) # Null)
    IN  IF i = 0 THEN Null ELSE Read(s, formats[i])
DatePart(s, f) == AndThen(ParseDateTime(s, f), LAMBDA t : Some(t[1]))
AtMidnight(s, f) == AndThen(ParseDate(s, f), LAMBDA d : Some(<<d, 0>>))

ParseDateStrToDays(s) ==
    LET days == FirstRead(s, <<Dashes, Slashes>>, ParseDate)
        dated == FirstRead(s, <<Dashes \o Clock, Slashes \o Clock>>, DatePart)
    IN  IF days # Null THEN days ELSE IF dated # Null THEN dated ELSE ParseDate(s, Compact)

Specifiers == [Y |-> <<"%", "Y">>, y |-> <<"%", "y">>, m |-> <<"%", "m">>, d |-> <<"%", "d">>, H |-> <<"%", "H">>, i |-> <<"%", "M">>,
               s |-> <<"%", "S">>, W |-> <<"%", "A">>, M |-> <<"%", "B">>, b |-> <<"%", "b">>, T |-> <<"%", "T">>, r |-> <<"%", "r">>,
               f |-> <<"%", "f">>, j |-> <<"%", "j">>, a |-> <<"%", "a">>, c |-> <<"%", "-", "m">>, e |-> <<"%", "-", "d">>,
               k |-> <<"%", "-", "H">>, l |-> <<"%", "-", "I">>, p |-> <<"%", "p">>, x |-> <<"%", "G">>, v |-> <<"%", "V">>]
RECURSIVE MysqlToChronoFmt(_)
MysqlToChronoFmt(f) ==
    IF f = << >> THEN << >>
    ELSE IF f[1] # "%" \/ Len(f) = 1 THEN <<f[1]>> \o MysqlToChronoFmt(Tail(f))
    ELSE (IF f[2] \in DOMAIN Specifiers THEN Specifiers[f[2]] ELSE <<"%", f[2]>>) \o MysqlToChronoFmt(SubSeq(f, 3, Len(f)))

YearFn(d) == Some(Year(d))
MonthFn(d) == Some(Month(d))
DayFn(d) == Some(Day(d))
DayOfWeekFn(d) == Some(Weekday(d) + 1)
DayOfYearFn(d) == Some(DayOfYear(d))
LastDay(d) ==
    LET y == IF Month(d) = 12 THEN Year(d) + 1 ELSE Year(d)
        m == IF Month(d) = 12 THEN 1 ELSE Month(d) + 1
    IN  AndThen(FromYmd(y, m, 1), LAMBDA first : Some(first - 1))
OfText(s, Fn(_)) == AndThen(ParseDateStrToDays(s), Fn)

TimeFormats == <<Dashes \o Clock, Slashes \o Clock, Dashes \o TClock>>
HourFn(t) == Some(t[2] \div 3600)
MinuteFn(t) == Some((t[2] \div 60) % 60)
SecondFn(t) == Some(t[2] % 60)
TimeOfText(s, Fn(_)) == AndThen(FirstRead(s, TimeFormats, ParseDateTime), Fn)

DateDiff(a, b) == a - b
DateAdd(d, n) == Clamp(d + Clamp(n))
DateSub(d, n) == Clamp(d - Clamp(n))
DateFormat(d, f) == Some(FormatWith(d, Null, MysqlToChronoFmt(f)))
TimestampFormat(t, f) == Some(FormatWith(t[1], Some(t[2]), MysqlToChronoFmt(f)))
TextFormat(s, f) ==
    LET t == ParseDateTime(s, Dashes \o Clock)
        d == ParseDate(s, Dashes)
    IN  IF t # Null THEN TimestampFormat(t[1], f)
        ELSE IF d # Null THEN DateFormat(d[1], f)
        ELSE AndThen(ParseDateStrToDays(s), LAMBDA days : DateFormat(days, f))
StrToDate(s, f) == ParseDate(s, MysqlToChronoFmt(f))
FromUnixtime(t) == Some(FormatWith(t[1], Some(t[2]), Dashes \o Clock))
UnixTimestamp(s) ==
    LET t == FirstRead(s, TimeFormats, ParseDateTime)
    IN  IF t # Null THEN t ELSE FirstRead(s, <<Dashes, Slashes>>, AtMidnight)
MakeDate(y, n) == FromYo(y, n)
SignedPad(n) == IF n < 0 THEN <<"-">> \o NatText(-n) ELSE IF n < 100 THEN Pad(n, 2) ELSE NatText(n)
MakeTime(h, m, s) == Some(SignedPad(h) \o <<":">> \o SignedPad(m) \o <<":">> \o SignedPad(s))

-----------------------------------------------------------------------------
(* doris_udf.rs.                                                           *)

TruncateDate(d, precision) ==
    CASE precision = "year" -> FromYmd(Year(d), 1, 1)
      [] precision = "month" -> FromYmd(Year(d), Month(d), 1)
      [] OTHER -> Some(d)
Wrap(n) == ((n - IntMin) % (2 ^ Width)) + IntMin
DaysAdd(d, n) == Wrap(d + Clamp(n))
MaxDayOfMonth(y, m) ==
    CASE m \in {1, 3, 5, 7, 8, 10, 12} -> 31
      [] m \in {4, 6, 9, 11} -> 30
      [] m = 2 -> IF (y % 4 = 0 /\ y % 100 # 0) \/ y % 400 = 0 THEN 29 ELSE 28
      [] OTHER -> 30
AddMonthsSameDay(d, n) ==                      \* mutation: the day is not brought into the month
    LET total == Year(d) * 12 + (Month(d) - 1) + n IN FromYmd(total \div 12, (total % 12) + 1, Day(d))
AddMonths(d, n) ==
    LET total == Year(d) * 12 + (Month(d) - 1) + n
        y == total \div 12
        m == (total % 12) + 1
        max == MaxDayOfMonth(y, m)
    IN  FromYmd(y, m, IF Day(d) < max THEN Day(d) ELSE max)
HoursAdd(t, h) ==
    LET sec == t[2] + h * 3600
    IN  <<t[1] + (sec \div 86400), sec % 86400>>

ConcatWs(sep, parts) ==
    AndThen(sep, LAMBDA by : LET kept == SelectSeq(parts, LAMBDA p : p # Null)
                             IN  Some(JoinWith([i \in DOMAIN kept |-> kept[i][1]], by)))
SubstringIndex(s, delim, count) ==
    LET parts == SplitOn(s, delim)
        n == IF count < 0 THEN -count ELSE count
    IN  IF count = 0 THEN << >>
        ELSE IF Len(parts) < n THEN s
        ELSE JoinWith(IF count > 0 THEN SubSeq(parts, 1, n) ELSE SubSeq(parts, Len(parts) - n + 1, Len(parts)), <<delim>>)
Substring(s, pos, len) ==
    LET start == IF pos > 0 THEN pos - 1 ELSE IF pos < 0 /\ Len(s) + pos > 0 THEN Len(s) + pos ELSE 0
        end == IF len = Null \/ start + len[1] > Len(s) THEN Len(s) ELSE start + len[1]
    IN  IF start >= Len(s) \/ (len # Null /\ len[1] < 0) \/ start >= end THEN << >> ELSE SubSeq(s, start + 1, end)

(* BITMAP_COUNT and GROUP_CONCAT: an accumulator is fed rows, or the       *)
(* states of the accumulators of other partitions.                         *)
BitmapInsert(acc, v, limit) ==
    IF v = Null \/ acc.failed THEN acc
    ELSE LET values == acc.values \cup {v[1]} IN [values |-> values, failed |-> Cardinality(values) > limit]
BitmapUpdateBatch(acc, rows, limit) == FoldLeft(LAMBDA a, v : BitmapInsert(a, v, limit), acc, rows)
BitmapState(acc) == IF acc.values = {} THEN Null ELSE Some(SetToSeq(acc.values))
BitmapMergeBatch(acc, states, limit) ==
    FoldLeft(LAMBDA a, list : IF list = Null THEN a
                              ELSE BitmapUpdateBatch(a, [i \in DOMAIN list[1] |-> Some(list[1][i])], limit), acc, states)
NewBitmap == [values |-> {}, failed |-> FALSE]

GroupPush(acc, v) ==
    IF v = Null \/ (acc.distinct /\ v[1] \in acc.seen) THEN acc
    ELSE [acc EXCEPT !.values = Append(@, v[1]), !.seen = IF acc.distinct THEN @ \cup {v[1]} ELSE @]
GroupUpdateBatch(acc, rows) == FoldLeft(GroupPush, acc, rows)
GroupState(acc) == IF acc.values = << >> THEN Null ELSE Some(acc.values)
GroupMergeBatch(acc, states) ==
    FoldLeft(LAMBDA a, list : IF list = Null THEN a ELSE GroupUpdateBatch(a, [i \in DOMAIN list[1] |-> Some(list[1][i])]), acc, states)
GroupEvaluate(acc) == JoinWith(acc.values, <<",">>)
NewGroup(distinct) == [values |-> << >>, seen |-> {}, distinct |-> distinct]

-----------------------------------------------------------------------------
(* misc_udf.rs.                                                            *)

HexDigits == <<"0", "1", "2", "3", "4", "5", "6", "7", "8", "9", "A", "B", "C", "D", "E", "F">>
LowerHex == <<"0", "1", "2", "3", "4", "5", "6", "7", "8", "9", "a", "b", "c", "d", "e", "f">>
RECURSIVE HexNibbles(_, _)
HexNibbles(n, k) == IF k = 0 THEN << >> ELSE Append(HexNibbles(n \div 16, k - 1), HexDigits[(n % 16) + 1])
HexInt(n) ==
    LET digits == HexNibbles(n, 16)
        first == SelectInSeq(digits, LAMBDA c : c # "0")
    IN  IF first = 0 THEN <<"0">> ELSE SubSeq(digits, first, 16)
HexBytes(bytes) == FlattenSeq([i \in DOMAIN bytes |-> HexNibbles(bytes[i], 2)])
HexCharToU8(c) == LET at == {i \in 1..16 : HexDigits[i] = c \/ LowerHex[i] = c} IN IF at = {} THEN Null ELSE Some((CHOOSE i \in at : TRUE) - 1)
DecodeHexBytes(s) ==
    IF Len(s) % 2 # 0 \/ \E i \in DOMAIN s : HexCharToU8(s[i]) = Null THEN Null
    ELSE Some([i \in 1..(Len(s) \div 2) |-> HexCharToU8(s[2 * i - 1])[1] * 16 + HexCharToU8(s[2 * i])[1]])
IfFn(cond, a, b) == AndThen(cond, LAMBDA yes : IF yes THEN a ELSE b)
IfNull(a, b) == IF a # Null THEN a ELSE b

-----------------------------------------------------------------------------
(* utils.rs: literals into DATE and DATETIME columns, and the values out   *)
(* again, through chrono or digit by digit.                                *)

RECURSIVE StripStart(_, _)
StripStart(s, q) == IF s # << >> /\ s[1] = q THEN StripStart(Tail(s), q) ELSE s
StripEnd(s, q) == Reverse(StripStart(Reverse(s), q))
Unquoted(s) == StripEnd(StripStart(StripEnd(StripStart(Trim(s), "'"), "'"), "\""), "\"")
Holds(s, c) == \E i \in DOMAIN s : s[i] = c
ParseDateToDays(s) ==
    LET u == Unquoted(s)
    IN  IF Holds(u, "-") THEN ParseDate(u, Dashes) ELSE IF Holds(u, "/") THEN ParseDate(u, Slashes) ELSE Null
ParseDatetimeToSeconds(s) ==
    IF Holds(Unquoted(s), ":") THEN ParseDateTime(Unquoted(s), Dashes \o Clock)
    ELSE AndThen(ParseDateToDays(Unquoted(s)), LAMBDA d : Some(<<d, 0>>))

(* An instant is its second and whether a fraction of a second follows it. *)
(* Nanoseconds are divided towards zero, so before 1970 a fraction is      *)
(* negative, which chrono refuses.                                         *)
Epoch == <<0, 0>>
Shown(unit, t, fraction) == IF unit = "ns" /\ fraction /\ t[1] < 0 THEN Epoch ELSE t
ArrowDateText(d) == FormatWith(d, Null, Dashes)
ArrowTimestampText(unit, t, fraction) ==
    LET u == Shown(unit, t, fraction) IN FormatWith(u[1], Some(u[2]), Dashes \o Clock)
DigitByte(n) == DigitOf[n + 1]
TwoDigits(n) == <<DigitByte(n \div 10), DigitByte(n % 10)>>
BufDate(y, m, d) ==
    <<DigitByte(y \div 1000), DigitByte((y \div 100) % 10), DigitByte((y \div 10) % 10), DigitByte(y % 10), "-">>
    \o TwoDigits(m) \o <<"-">> \o TwoDigits(d)
FormatDatetimeToBuf(y, mo, d, h, mi, s) == BufDate(y, mo, d) \o <<" ">> \o TwoDigits(h) \o <<":">> \o TwoDigits(mi) \o <<":">> \o TwoDigits(s)
BufDateText(d) == BufDate(Year(d), Month(d), Day(d))
BufTimestampText(unit, t, fraction) ==
    LET u == Shown(unit, t, fraction)
    IN  FormatDatetimeToBuf(Year(u[1]), Month(u[1]), Day(u[1]), u[2] \div 3600, (u[2] \div 60) % 60, u[2] % 60)
(* A DateTime value divides microseconds towards zero and drops the sign   *)
(* of the rest: before 1970 a fraction moves it a second later.            *)
ScalarDateTimeText(t, fraction) ==
    LET u == IF t[1] < 0 /\ fraction THEN <<t[1] + ((t[2] + 1) \div 86400), (t[2] + 1) % 86400>> ELSE t
    IN  FormatWith(u[1], Some(u[2]), Dashes \o Clock)

-----------------------------------------------------------------------------
(* What the functions promise, each against another of them or against the *)
(* calendar counted day by day.                                            *)

MonthIndex(d) == Year(d) * 12 + Month(d)
IsMonthLater(r, d, n) == MonthIndex(r) = MonthIndex(d) + n /\ (Day(r) = Day(d) \/ (Day(r) < Day(d) /\ Day(r + 1) = 1))
DatesAgree(d, n) ==
    /\ LET last == LastDay(d)[1] IN last >= d /\ MonthIndex(last) = MonthIndex(d) /\ Day(last + 1) = 1
    /\ LET first == TruncateDate(d, "month")[1] IN first = d - Day(d) + 1 /\ LastDay(first) = LastDay(d)
    /\ TruncateDate(d, "year") = MakeDate(Year(d), 1)
    /\ MakeDate(YearFn(d)[1], DayOfYearFn(d)[1]) = Some(d)
    /\ DayOfWeekFn(d + 1)[1] = (DayOfWeekFn(d)[1] % 7) + 1
    /\ LET later == AddMonths(d, n) IN later # Null /\ IsMonthLater(later[1], d, n)
    /\ DateDiff(DateAdd(d, n), d) = n /\ DateSub(DateAdd(d, n), n) = d /\ DaysAdd(d, n) = DateAdd(d, n)
    /\ DateAdd(d, IntMax) = (IF d < 0 THEN d + IntMax ELSE IntMax) /\ DateSub(d, IntMax) = (IF d < 0 THEN IntMin ELSE d - IntMax)
    /\ \A h \in {-25, -1, 23} : LET t == HoursAdd(<<d, 3599>>, h)
                                IN HoursAdd(t, -h) = <<d, 3599>> /\ HourFn(t)[1] = h % 24 /\ t[1] \in {d - 2, d - 1, d}

DateForms == {Dashes, Slashes, Compact, Dashes \o Clock, Slashes \o Clock}
Says(y, m, d, form) ==
    LET date == CASE form = Compact -> Pad(y, 4) \o Pad(m, 2) \o Pad(d, 2)
                  [] form[3] = "-" -> Pad(y, 4) \o <<"-">> \o Pad(m, 2) \o <<"-">> \o Pad(d, 2)
                  [] OTHER -> Pad(y, 4) \o <<"/">> \o NatText(m) \o <<"/">> \o NatText(d)
    IN  date \o (IF Len(form) > 8 THEN <<" ", "2", "3", ":", "5", "9", ":", "0", "7">> ELSE << >>)
TextsAgree(y, m, d) ==
    \A form \in DateForms :
        LET s == Says(y, m, d, form)
            days == FromYmd(y, m, d)
            quoted == <<" ", "'">> \o s \o <<"'">>
        IN  /\ ParseDateStrToDays(s) = days
            /\ days = Null => UnixTimestamp(s) = Null /\ ParseDateToDays(quoted) = Null /\ ParseDatetimeToSeconds(quoted) = Null
            /\ days # Null =>
                 /\ OfText(s, YearFn) = Some(y) /\ OfText(s, MonthFn) = Some(m) /\ OfText(s, DayFn) = Some(d)
                 /\ OfText(s, LastDay) = LastDay(days[1]) /\ OfText(s, DayOfYearFn) = DayOfYearFn(days[1])
                 /\ form \in {Dashes, Slashes} => /\ ParseDateToDays(quoted) = days /\ UnixTimestamp(s) = Some(<<days[1], 0>>)
                                                  /\ ParseDatetimeToSeconds(quoted) = UnixTimestamp(s)
                 /\ Len(form) > 8 => /\ UnixTimestamp(s) = Some(<<days[1], 86347>>)
                                     /\ TimeOfText(s, HourFn) = Some(23) /\ TimeOfText(s, MinuteFn) = Some(59) /\ TimeOfText(s, SecondFn) = Some(7)
                                     /\ form[3] = "-" => ParseDatetimeToSeconds(quoted) = UnixTimestamp(s)

(* What MySQL writes for a specifier.                                      *)
MysqlText(spec, d, sec) ==
    LET h == sec \div 3600
    IN  CASE spec = "Y" -> Pad(Year(d), 4) [] spec = "y" -> Pad(Year(d) % 100, 2) [] spec = "m" -> Pad(Month(d), 2) [] spec = "c" -> NatText(Month(d))
          [] spec = "d" -> Pad(Day(d), 2) [] spec = "e" -> NatText(Day(d)) [] spec = "j" -> Pad(DayOfYear(d), 3)
          [] spec = "M" -> <<MonthNames[Month(d)]>> [] spec = "b" -> <<ShortMonths[Month(d)]>>
          [] spec = "W" -> <<DayNames[Weekday(d) + 1]>> [] spec = "a" -> <<ShortDays[Weekday(d) + 1]>>
          [] spec = "x" -> Pad(Year(Thursday(d)), 4) [] spec = "v" -> Pad((DayOfYear(Thursday(d)) + 6) \div 7, 2)
          [] spec = "H" -> Pad(h, 2) [] spec = "k" -> NatText(h) [] spec = "l" -> NatText(Hour12(h))
          [] spec = "i" -> Pad((sec \div 60) % 60, 2) [] spec = "s" -> Pad(sec % 60, 2) [] spec = "p" -> <<IF h < 12 THEN "AM" ELSE "PM">>
          [] spec = "T" -> Pad(h, 2) \o <<":">> \o Pad((sec \div 60) % 60, 2) \o <<":">> \o Pad(sec % 60, 2)
          [] spec = "r" -> Pad(Hour12(h), 2) \o <<":">> \o Pad((sec \div 60) % 60, 2) \o <<":">> \o Pad(sec % 60, 2) \o <<" ", IF h < 12 THEN "AM" ELSE "PM">>
          [] OTHER -> <<spec>>
DateSpecs == {"Y", "y", "m", "c", "d", "e", "j", "M", "b", "W", "a", "x", "v", "%"}
FullFormats == {<<"%", "Y", "-", "%", "c", "-", "%", "e">>, <<"%", "d", " ", "%", "M", " ", "%", "y">>, <<"%", "Y", "%", "j">>,
                <<"%", "W", ",", "%", "e", " ", "%", "b", "%", "Y">>, <<"%", "m", "%", "d", "%", "Y">>}
FormatsAgree(d, sec) ==
    LET t == <<d, sec>>
    IN  /\ \A spec \in DateSpecs : DateFormat(d, <<"%", spec, "-">>) = Some(MysqlText(spec, d, sec) \o <<"-">>)
        /\ \A spec \in {"H", "k", "l", "i", "s", "p", "T", "r", "Y"} : TimestampFormat(t, <<"%", spec>>) = Some(MysqlText(spec, d, sec))
        /\ \A f \in FullFormats : ~Holds(f, "y") \/ Year(d) \in 1970..2069 => StrToDate(DateFormat(d, f)[1], f) = Some(d)
        /\ StrToDate(TimestampFormat(t, <<"%", "r", "%", "Y", "%", "m", "%", "d">>)[1], <<"%", "r", "%", "Y", "%", "m", "%", "d">>) = Some(d)
        /\ UnixTimestamp(FromUnixtime(t)[1]) = Some(t)
        /\ TextFormat(FromUnixtime(t)[1], <<"%", "j", "%", "T">>) = TimestampFormat(t, <<"%", "j", "%", "T">>)
        /\ Some(<<"T">> \o MakeTime(sec \div 3600, (sec \div 60) % 60, sec % 60)[1]) = TimestampFormat(t, <<"T", "%", "T">>)
        /\ BufDateText(d) = ArrowDateText(d) /\ ParseDateToDays(BufDateText(d)) = Some(d)
        /\ \A unit \in {"s", "us", "ns"}, fraction \in BOOLEAN :
             /\ BufTimestampText(unit, t, fraction) = ArrowTimestampText(unit, t, fraction)
             /\ ~(unit = "ns" /\ fraction /\ d < 0) => ParseDatetimeToSeconds(BufTimestampText(unit, t, fraction)) = Some(t)
             /\ ~(fraction /\ d < 0) => ScalarDateTimeText(t, fraction) = BufTimestampText(unit, t, fraction)

(* An aggregate does not depend on how its rows are cut into partitions.   *)
Partitions(rows, i, j) == <<SubSeq(rows, 1, i), SubSeq(rows, i + 1, j), SubSeq(rows, j + 1, Len(rows))>>
Present(rows) == LET kept == SelectSeq(rows, LAMBDA v : v # Null) IN [i \in DOMAIN kept |-> kept[i][1]]
FirstsOf(s) == LET at == SelectSeq([i \in DOMAIN s |-> i], LAMBDA i : \A j \in 1..(i - 1) : s[j] # s[i]) IN [k \in DOMAIN at |-> s[at[k]]]
AggregatesAgree(rows, i, j, limit) ==
    LET parts == Partitions(rows, i, j)
        bitmaps == [k \in DOMAIN parts |-> BitmapUpdateBatch(NewBitmap, parts[k], limit)]
        merged == BitmapMergeBatch(NewBitmap, [k \in DOMAIN parts |-> BitmapState(bitmaps[k])], limit)
        wanted == ToSet(Present(rows))
        groups(x) == GroupMergeBatch(NewGroup(x), [k \in DOMAIN parts |-> GroupState(GroupUpdateBatch(NewGroup(x), parts[k]))])
    IN  /\ IF Cardinality(wanted) > limit THEN merged.failed \/ \E k \in DOMAIN parts : bitmaps[k].failed
           ELSE ~merged.failed /\ merged.values = wanted /\ \A k \in DOMAIN parts : ~bitmaps[k].failed
        /\ GroupEvaluate(groups(FALSE)) = JoinWith(Present(rows), <<",">>)
        /\ GroupEvaluate(groups(TRUE)) = JoinWith(FirstsOf(Present(rows)), <<",">>)

(* SUBSTRING counts from 1, or from the end when negative.                 *)
StringsAgree(s, n, len) ==
    LET k == Len(SplitOn(s, ","))
        counted == {i \in DOMAIN s : i >= (IF n < 0 THEN Len(s) + 1 + n ELSE n) /\ i < (IF n < 0 THEN Len(s) + 1 + n ELSE n) + len}
        head == SubstringIndex(s, ",", n)
        values == SplitOn(s, ",")
        wrapped == [i \in DOMAIN values |-> IF values[i] = << >> THEN Null ELSE Some(values[i])]
    IN  /\ n # 0 /\ -n <= Len(s) => /\ Substring(s, n, Some(len)) = SelectSeq([i \in DOMAIN s |-> IF i \in counted THEN s[i] ELSE ""], LAMBDA c : c # "")
                                    /\ Substring(s, n, Null) = Substring(s, n, Some(Len(s)))
        /\ n \in 1..(k - 1) => head \o <<",">> \o SubstringIndex(s, ",", n - k) = s
        /\ n >= k \/ n <= -k => head = s
        /\ AndThen(ConcatWs(Some(<<",">>), wrapped), LAMBDA t : Some(SelectSeq(SplitOn(t, ","), LAMBDA p : p # << >>)))
              = Some(SelectSeq(values, LAMBDA p : p # << >>))
        /\ ConcatWs(Null, wrapped) = Null
        /\ IfNull(IfFn(Some(n > 0), wrapped[1], Null), Some(s)) = (IF n > 0 /\ wrapped[1] # Null THEN wrapped[1] ELSE Some(s))
HexAgrees(bytes, n) ==
    /\ DecodeHexBytes(HexBytes(bytes)) = Some(bytes)
    /\ DecodeHexBytes(<<"f">> \o HexBytes(bytes)) = Null /\ DecodeHexBytes(HexBytes(bytes) \o <<"1", "g">>) = Null
    /\ LET digits == HexInt(n)
           low == DecodeHexBytes(SubSeq(HexNibbles(n, 16), 13, 16))[1]
       IN  /\ (low[1] * 256 + low[2]) = n % 65536 /\ (n < 0 <=> Len(digits) = 16) /\ (Len(digits) > 1 => digits[1] # "0")
           /\ n < 0 => DecodeHexBytes(digits)[1][1] = 255

=============================================================================
