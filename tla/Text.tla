-------------------------------- MODULE Text --------------------------------
(***************************************************************************)
(* Text as a sequence of one-character strings, with the few operations of *)
(* Rust's standard library that the modules about SQL text use.            *)
(***************************************************************************)
EXTENDS Integers, Sequences, SequencesExt

DigitChars == <<"0", "1", "2", "3", "4", "5", "6", "7", "8", "9">>
DigitOf == [i \in 1..10 |-> DigitChars[i]]
IsDigit(c) == \E i \in 1..10 : DigitOf[i] = c
DigitValue(c) == CHOOSE d \in 0..9 : DigitOf[d + 1] = c

RECURSIVE NatText(_)
NatText(n) == IF n < 10 THEN <<DigitOf[n + 1]>> ELSE Append(NatText(n \div 10), DigitOf[(n % 10) + 1])
IntText(n) == IF n < 0 THEN <<"-">> \o NatText(-n) ELSE NatText(n)

(* str::parse of an integer: a sign and digits only, and at least one.     *)
Unsigned(s) == IF s # << >> /\ s[1] \in {"-", "+"} THEN Tail(s) ELSE s
IsInt(s) == Unsigned(s) # << >> /\ \A i \in DOMAIN Unsigned(s) : IsDigit(Unsigned(s)[i])
ParseNat(s) == FoldLeft(LAMBDA n, c : 10 * n + DigitValue(c), 0, s)
ParseInt(s) == IF s[1] = "-" THEN -ParseNat(Tail(s)) ELSE ParseNat(Unsigned(s))

(* to_lowercase and to_uppercase on the letters the models use.            *)
LowerLetters == <<"a", "b", "c", "d", "x", "y">>
UpperLetters == <<"A", "B", "C", "D", "X", "Y">>
LowerChar(c) == IF \E i \in 1..6 : UpperLetters[i] = c
                THEN LowerLetters[CHOOSE i \in 1..6 : UpperLetters[i] = c] ELSE c
Lower(s) == [i \in DOMAIN s |-> LowerChar(s[i])]

(* The order of text: byte by byte, a prefix before what extends it.       *)
CharOrder == <<" ", "!", "%", "'", "*", "+", ",", "-", ".", "/", "0", "1", "2", "3", "4", "5", "6",
               "7", "8", "9", ":", "=", "A", "B", "C", "D", "X", "Y", "\\", "_", "a", "b", "c", "d", "x", "y">>
CharRank(c) == CHOOSE i \in DOMAIN CharOrder : CharOrder[i] = c
RECURSIVE TextLess(_, _)
TextLess(s, t) ==
    IF t = << >> THEN FALSE
    ELSE IF s = << >> THEN TRUE
    ELSE IF s[1] = t[1] THEN TextLess(Tail(s), Tail(t))
    ELSE CharRank(s[1]) < CharRank(t[1])

(* split on a character, join and trim.                                    *)
RECURSIVE SplitOn(_, _)
SplitOn(s, sep) ==
    LET i == SelectInSeq(s, LAMBDA c : c = sep)
    IN  IF i = 0 THEN <<s>> ELSE <<SubSeq(s, 1, i - 1)>> \o SplitOn(SubSeq(s, i + 1, Len(s)), sep)
JoinWith(parts, sep) ==
    IF parts = << >> THEN << >>
    ELSE FoldLeft(LAMBDA acc, p : acc \o sep \o p, parts[1], Tail(parts))
TrimStart(s) ==
    LET i == SelectInSeq(s, LAMBDA c : c # " ")
    IN  IF i = 0 THEN << >> ELSE SubSeq(s, i, Len(s))
Trim(s) == Reverse(TrimStart(Reverse(TrimStart(s))))

=============================================================================
