---------------------------------- MODULE CJsonText ----------------------------------
(****************************************************************************)
(* The strings of JSON in cJSON.c: reading one with its escape sequences,   *)
(* UTF-16 among them, into UTF-8, and writing one with what has to be       *)
(* escaped.  Characters are their codes.                                    *)
(****************************************************************************)
EXTENDS Integers, Sequences, SequencesExt, FiniteSetsExt

CONSTANTS
    Chunk,         \* what a string is put together from: characters and escape sequences
    MaxChunks,     \* bound: the chunks of a string
    MaxCut         \* bound: the characters missing at the end of the text

TextAssumption == Chunk \subseteq Seq(0 .. 255) /\ MaxChunks \in Nat /\ MaxCut \in Nat

Quote == 34
Backslash == 92
Slash == 47
U == 117

\* The letters of the escape sequences of one character, and what they stand for.
Letter == [c \in {98, 102, 110, 114, 116} |->
              CASE c = 98 -> 8 [] c = 102 -> 12 [] c = 110 -> 10 [] c = 114 -> 13 [] c = 116 -> 9]

VARIABLES
    chunks,        \* what is between the quotes
    cut            \* how many characters of the text are missing at its end

vars == <<chunks, cut>>

Literal == LET all == <<Quote>> \o FlattenSeq(chunks) \o <<Quote>> IN SubSeq(all, 1, Len(all) - cut)

--------------------------------------------------------------------------------
(* UTF-16. *)

Hex(c) == CASE c \in 48 .. 57 -> c - 48 [] c \in 65 .. 70 -> c - 55 [] c \in 97 .. 102 -> c - 87 [] OTHER -> -1

\* Four digits; with anything else among them the number is 0, which is no error.
parse_hex4(s) ==
    IF \E k \in 1 .. 4 : Hex(s[k]) = -1 THEN 0
    ELSE FoldLeft(LAMBDA h, c : 16 * h + Hex(c), 0, SubSeq(s, 1, 4))

High(code) == code \in 55296 .. 56319      \* 0xD800 .. 0xDBFF
Low(code) == code \in 56320 .. 57343       \* 0xDC00 .. 0xDFFF

FromPair(first, second) == 65536 + (first % 1024) * 1024 + (second % 1024)

\* The bytes behind the first have six bits each.
Trail(code, bytes) == [k \in 1 .. bytes |-> 128 + ((code \div (64 ^ (bytes - k))) % 64)]

utf8(code) ==
    CASE code < 128   -> <<code>>
      [] code < 2048  -> <<192 + code \div 64>> \o Trail(code, 1)
      [] code < 65536 -> <<224 + code \div 4096>> \o Trail(code, 2)
      [] OTHER        -> <<240 + code \div 262144>> \o Trail(code, 3)

Unreadable == [length |-> 0, bytes |-> <<>>]

\* The sequence that a text starts with: how long it is, and the bytes it stands for.
utf16_literal_to_utf8(s) ==
    LET first == parse_hex4(SubSeq(s, 3, 6))
        second == parse_hex4(SubSeq(s, 9, 12))
    IN IF Len(s) < 6 \/ Low(first) THEN Unreadable
       ELSE IF ~High(first) THEN [length |-> 6, bytes |-> utf8(first)]
       ELSE IF Len(s) < 12 \/ s[7] # Backslash \/ s[8] # U \/ ~Low(second) THEN Unreadable
       ELSE [length |-> 12, bytes |-> utf8(FromPair(first, second))]

--------------------------------------------------------------------------------
(* parse_string. *)

\* Where the closing quote is, escaped characters skipped; behind the text if there is none.
RECURSIVE EndOf(_, _)
EndOf(s, at) ==
    IF at > Len(s) THEN Len(s) + 1
    ELSE IF s[at] = Quote THEN at
    ELSE IF s[at] = Backslash THEN (IF at + 1 > Len(s) THEN Len(s) + 1 ELSE EndOf(s, at + 2))
    ELSE EndOf(s, at + 1)

\* How many characters are skipped on the way there: one for each backslash that escapes.
RECURSIVE Skipped(_, _, _)
Skipped(s, at, end) ==
    IF at >= end THEN 0 ELSE IF s[at] = Backslash THEN 1 + Skipped(s, at + 2, end) ELSE Skipped(s, at + 1, end)

\* The bytes that are allocated, the NUL among them.
Allocated(s, end) == (end - 1) - Skipped(s, 2, end) + 1

\* What one character or escape sequence gives, of what is left before the closing quote.
Unescaped(s) ==
    IF s[1] # Backslash THEN [length |-> 1, bytes |-> <<s[1]>>]
    ELSE CASE s[2] \in DOMAIN Letter             -> [length |-> 2, bytes |-> <<Letter[s[2]]>>]
           [] s[2] \in {Quote, Backslash, Slash} -> [length |-> 2, bytes |-> <<s[2]>>]
           [] s[2] = U                           -> utf16_literal_to_utf8(s)
           [] OTHER                              -> Unreadable

RECURSIVE Unescape(_, _)
Unescape(s, output) ==
    IF s = <<>> THEN [ok |-> TRUE, output |-> output]
    ELSE LET u == Unescaped(s)
         IN IF u.length = 0 THEN [ok |-> FALSE, output |-> output]
            ELSE Unescape(SubSeq(s, u.length + 1, Len(s)), output \o u.bytes)

\* A string is read from the start of the text: its bytes, how many were allocated, and
\* the position behind it.
parse_string(s) ==
    LET end == EndOf(s, 2)
        u == Unescape(SubSeq(s, 2, end - 1), <<>>)
    IN IF s = <<>> \/ s[1] # Quote \/ end > Len(s) THEN [ok |-> FALSE, output |-> <<>>, allocated |-> 1, offset |-> 0]
       ELSE [ok |-> u.ok, output |-> u.output, allocated |-> Allocated(s, end), offset |-> IF u.ok THEN end ELSE 0]

--------------------------------------------------------------------------------
(* print_string_ptr. *)

\* "%04x"
Digits(c) == LET Digit(d) == IF d < 10 THEN 48 + d ELSE 87 + d IN <<48, 48, Digit(c \div 16), Digit(c % 16)>>

Escape(c) ==
    IF c > 31 /\ c \notin {Quote, Backslash} THEN <<c>>
    ELSE IF c \in {Quote, Backslash} THEN <<Backslash, c>>
    ELSE IF \E l \in DOMAIN Letter : Letter[l] = c THEN <<Backslash, CHOOSE l \in DOMAIN Letter : Letter[l] = c>>
    ELSE <<Backslash, U>> \o Digits(c)

\* A string of C ends at its first NUL.
CString(s) == SubSeq(s, 1, Min({k \in DOMAIN s : s[k] = 0} \union {Len(s) + 1}) - 1)

print_string(s) ==
    LET chars == CString(s) IN <<Quote>> \o FlattenSeq([k \in DOMAIN chars |-> Escape(chars[k])]) \o <<Quote>>

--------------------------------------------------------------------------------
(* Strings. *)

Init == chunks = <<>> /\ cut = 0

Next ==
    \/ Len(chunks) < MaxChunks /\ cut = 0 /\ \E c \in Chunk : chunks' = Append(chunks, c) /\ UNCHANGED cut
    \/ cut < MaxCut /\ cut + 1 <= Len(Literal) /\ cut' = cut + 1 /\ UNCHANGED chunks

Spec == Init /\ [][Next]_vars

--------------------------------------------------------------------------------
(* What a string means: code points.  A chunk is one, or half of a pair, or nothing; *)
(* a sequence of UTF-16 with a wrong digit counts as the code point 0.               *)

IsUTF16(c) == Len(c) = 6 /\ c[2] = U
CodeOf(c) == IF \E k \in 3 .. 6 : Hex(c[k]) = -1 THEN 0 ELSE FoldLeft(LAMBDA h, d : 16 * h + Hex(d), 0, SubSeq(c, 3, 6))
Point(c) == IF IsUTF16(c) THEN CodeOf(c) ELSE IF Len(c) = 1 THEN c[1]
            ELSE IF c[2] \in DOMAIN Letter THEN Letter[c[2]] ELSE c[2]

Wrong(c) == Len(c) = 2 /\ c[2] \notin DOMAIN Letter \union {Quote, Backslash, Slash}

\* The code points of chunks, <<-1>> where there is none.
RECURSIVE Points(_)
Points(cs) ==
    IF cs = <<>> THEN <<>>
    ELSE IF Wrong(cs[1]) THEN <<-1>>
    ELSE IF ~IsUTF16(cs[1]) \/ ~(High(Point(cs[1])) \/ Low(Point(cs[1]))) THEN <<Point(cs[1])>> \o Points(Tail(cs))
    ELSE IF High(Point(cs[1])) /\ Len(cs) > 1 /\ IsUTF16(cs[2]) /\ ~Wrong(cs[2]) /\ Low(Point(cs[2]))
    THEN <<(Point(cs[1]) - 55296) * 1024 + (Point(cs[2]) - 56320) + 65536>> \o Points(SubSeq(cs, 3, Len(cs)))
    ELSE <<-1>>

\* The code points that bytes stand for in UTF-8.
Width(b) == CASE b < 128 -> 1 [] b < 224 -> 2 [] b < 240 -> 3 [] OTHER -> 4
Lead(b) == CASE b < 128 -> b [] b < 224 -> b - 192 [] b < 240 -> b - 224 [] OTHER -> b - 240
RECURSIVE Decoded(_)
Decoded(bytes) ==
    IF bytes = <<>> THEN <<>>
    ELSE LET n == Width(bytes[1])
         IN <<FoldLeft(LAMBDA code, b : 64 * code + b - 128, Lead(bytes[1]), SubSeq(bytes, 2, n))>>
            \o Decoded(SubSeq(bytes, n + 1, Len(bytes)))

Read == parse_string(Literal)
Good == cut = 0 /\ -1 \notin Range(Points(chunks))

\* A string is read as its code points, in UTF-8, up to its closing quote (parse_string,
\* utf16_literal_to_utf8); one of them is 0 for an escape sequence with a wrong digit.
ReadsTheString == Good => Read.ok /\ Decoded(Read.output) = Points(chunks) /\ Read.offset = Len(Literal)

\* A string without its end, with an unknown escape sequence or with half of a pair is refused.
RefusesOthers == ~Good => ~Read.ok

\* The bytes that are allocated before the escape sequences are read are enough for what
\* they give and the NUL, also of a string that is then refused (parse_string).
OutputFits ==
    LET end == EndOf(Literal, 2) IN
    Literal # <<>> /\ end <= Len(Literal) =>
        Len(Unescape(SubSeq(Literal, 2, end - 1), <<>>).output) + 1 <= Allocated(Literal, end)

\* What print_string_ptr writes is read by parse_string as what it was, up to its first NUL.
PrintedIsRead ==
    Read.ok => LET again == parse_string(print_string(Read.output))
               IN again.ok /\ again.output = CString(Read.output)
================================================================================
