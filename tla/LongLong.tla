--------------------------------- MODULE LongLong ---------------------------------
(****************************************************************************)
(* The conversions between long long and text: string2ll (read.c), by which *)
(* the lengths and integers of replies are read, and sdsll2str and          *)
(* sdsull2str (sds.c).  Integers have Bits bits, 64 in the code, and their  *)
(* arithmetic wraps around.                                                 *)
(****************************************************************************)
EXTENDS Integers, Sequences, SequencesExt

CONSTANTS
    Bits,
    Character,     \* the characters of texts: the digits that occur, "-" and others
    MaxLength      \* bound: the length of the texts

Digit == <<"0", "1", "2", "3", "4", "5", "6", "7", "8", "9">>

LongLongAssumption == Bits \in Nat \ {0, 1} /\ MaxLength \in Nat /\ "-" \in Character

VARIABLE text
vars == text

ULLONG_MAX == 2 ^ Bits - 1
LLONG_MAX == 2 ^ (Bits - 1) - 1
LLONG_MIN == -(2 ^ (Bits - 1))

Unsigned(n) == n % 2 ^ Bits
Signed(n) == IF Unsigned(n) > LLONG_MAX THEN Unsigned(n) - 2 ^ Bits ELSE Unsigned(n)

IsDigit(c) == \E d \in 1 .. 10 : Digit[d] = c
Number(c) == (CHOOSE d \in 1 .. 10 : Digit[d] = c) - 1

--------------------------------------------------------------------------------
Error == [ok |-> FALSE, value |-> 0]
Value(n) == [ok |-> TRUE, value |-> Signed(n)]

\* One more digit does not fit.
Overflows(v, d) == v > ULLONG_MAX \div 10 \/ Unsigned(v * 10) > ULLONG_MAX - d

\* The digits from place p on, behind the value v; -1 when there is an overflow or
\* another character.
Digits(p) ==
    FoldLeft(LAMBDA v, c : IF v = -1 \/ ~IsDigit(c) \/ Overflows(v, Number(c)) THEN -1
                           ELSE Unsigned(Unsigned(v * 10) + Number(c)),
             Number(text[p]), SubSeq(text, p + 1, Len(text)))

TooNegative(v) == v > Unsigned(-(LLONG_MIN + 1)) + 1

First(c) == IsDigit(c) /\ c # "0"

string2ll ==
    LET negative == text # <<>> /\ text[1] = "-"
        p == IF negative THEN 2 ELSE 1
    IN  IF text = <<>> \/ p > Len(text) THEN Error
        ELSE IF text = <<"0">> THEN Value(0)
        ELSE IF ~First(text[p]) THEN Error
        ELSE LET v == Digits(p)
             IN  IF v = -1 \/ (negative /\ TooNegative(v)) \/ (~negative /\ v > LLONG_MAX)
                 THEN Error
                 ELSE Value(IF negative THEN -v ELSE v)

(* sdsull2str: the digits are generated from the last one on, and reversed. *)
reversed[v \in Nat] ==
    <<Digit[(v % 10) + 1]>> \o IF v < 10 THEN <<>> ELSE reversed[v \div 10]

sdsull2str(v) == Reverse(reversed[v])

Magnitude(n) == IF n < 0 THEN Unsigned(-n) ELSE n

sdsll2str(n) == Reverse(reversed[Magnitude(n)] \o IF n < 0 THEN <<"-">> ELSE <<>>)

--------------------------------------------------------------------------------
Init == text = <<>>

Next == Len(text) < MaxLength /\ \E c \in Character : text' = Append(text, c)

Spec == Init /\ [][Next]_vars

--------------------------------------------------------------------------------
\* What a row of digits is worth, without any bound.
Worth(digits) == FoldLeft(LAMBDA v, c : 10 * v + Number(c), 0, digits)

\* Is it a decimal number that "strictly represents a long long", and which one?
Body == IF text # <<>> /\ text[1] = "-" THEN Tail(text) ELSE text
Exact == IF Body = text THEN Worth(Body) ELSE -Worth(Body)
Strict ==
    \/ text = <<"0">>
    \/ /\ Body # <<>> /\ (\A i \in DOMAIN Body : IsDigit(Body[i])) /\ Body[1] # "0"
       /\ Exact \in LLONG_MIN .. LLONG_MAX

(* The comment of string2ll: no spaces or other characters before or after the
   number are accepted, nor zeros at the start, and the value does not overflow,
   at either end of the range. *)
AcceptsJustNumbers == string2ll = IF Strict THEN [ok |-> TRUE, value |-> Exact] ELSE Error

(* "You can convert a string into a long long, and obtain back the string from the
   number without any loss in the string representation." *)
TextComesBack == string2ll.ok => sdsll2str(string2ll.value) = text

(* Every long long and unsigned long long is written as its decimal number, the
   least one too, for which there is no positive counterpart. *)
NumbersAreWritten ==
    \A n \in LLONG_MIN .. ULLONG_MAX :
        /\ n >= 0 => Worth(sdsull2str(n)) = n
        /\ n \in 0 .. LLONG_MAX => sdsll2str(n) = sdsull2str(n)
        /\ n < 0 => sdsll2str(n) = <<"-">> \o sdsull2str(-n)
================================================================================
