--------------------------------- MODULE SdsText ---------------------------------
(****************************************************************************)
(* The algorithms of sds.c on texts: splitting and joining, quoting and     *)
(* reading quoted arguments back, and the comparison of strings.  A text is *)
(* a sequence of bytes, and grows byte by byte.                             *)
(****************************************************************************)
EXTENDS Integers, Sequences, SequencesExt, FiniteSets

CONSTANTS
    Byte,          \* the bytes that occur
    Separators,    \* the separators to split at
    InitialSlots,  \* room for tokens at first, 5 in the code
    MaxLength      \* bound: the length of the texts

TextAssumption ==
    /\ Byte \subseteq 0 .. 255 /\ Separators \subseteq Seq(Byte)
    /\ InitialSlots \in Nat \ {0} /\ MaxLength \in Nat

VARIABLE text
vars == text

--------------------------------------------------------------------------------
(* sdssplitlen, and sdsjoin. *)

MatchesAt(sep, j) == SubSeq(text, j + 1, j + Len(sep)) = sep

\* Room for the next element and the final one.
Slots(slots, elements) == IF slots < elements + 2 THEN slots * 2 ELSE slots

AfterMatch(j, sep) == j + Len(sep)

RECURSIVE SplitFrom(_, _, _, _, _)
SplitFrom(sep, j, start, tokens, slots) ==
    IF j >= Len(text) - (Len(sep) - 1)
    THEN [tokens |-> Append(tokens, SubSeq(text, start + 1, Len(text))), slots |-> slots]
    ELSE LET room == Slots(slots, Len(tokens))
         IN  IF MatchesAt(sep, j)
             THEN SplitFrom(sep, AfterMatch(j, sep), j + Len(sep),
                            Append(tokens, SubSeq(text, start + 1, j)), room)
             ELSE SplitFrom(sep, j + 1, start, tokens, room)

sdssplitlen(sep) ==
    IF text = <<>> THEN [tokens |-> <<>>, slots |-> InitialSlots]
    ELSE SplitFrom(sep, 0, 0, <<>>, InitialSlots)

sdsjoin(argv, sep) ==
    FlattenSeq([j \in DOMAIN argv |-> argv[j] \o IF j = Len(argv) THEN <<>> ELSE sep])

--------------------------------------------------------------------------------
(* sdscatrepr and sdssplitargs. *)

Quote == 34
Apostrophe == 39
Backslash == 92
Space == {9, 10, 11, 12, 13, 32}         \* isspace
EndOfArgument == {0, 9, 10, 13, 32}      \* what ends an argument without quotes
Printable == 32 .. 126

\* \n, \r, \t, \a and \b: the letter and the byte.
Escape == {<<110, 10>>, <<114, 13>>, <<116, 9>>, <<97, 7>>, <<98, 8>>}
Escaped == {e[2] : e \in Escape}
Letter(byte) == (CHOOSE e \in Escape : e[2] = byte)[1]
Meaning(letter) == IF \E e \in Escape : e[1] = letter THEN (CHOOSE e \in Escape : e[1] = letter)[2]
                   ELSE letter

HexDigits == <<48, 49, 50, 51, 52, 53, 54, 55, 56, 57, 97, 98, 99, 100, 101, 102>>
is_hex_digit(c) == c \in 48 .. 57 \/ c \in 97 .. 102 \/ c \in 65 .. 70
hex_digit_to_int(c) == CASE c \in 48 .. 57 -> c - 48 [] c \in 97 .. 102 -> c - 87 [] OTHER -> c - 55

Repr(byte) ==
    CASE byte \in {Quote, Backslash} -> <<Backslash, byte>>
      [] byte \in Escaped -> <<Backslash, Letter(byte)>>
      [] byte \in Printable -> <<byte>>
      [] OTHER -> <<Backslash, 120, HexDigits[(byte \div 16) + 1], HexDigits[(byte % 16) + 1]>>

sdscatrepr(bytes) ==
    <<Quote>> \o FlattenSeq([i \in DOMAIN bytes |-> Repr(bytes[i])]) \o <<Quote>>

At(line, p) == IF p \in DOMAIN line THEN line[p] ELSE 0
Failure == [ok |-> FALSE, argv |-> <<>>]

\* "Closing quote must be followed by a space or nothing at all."
Closes(line, p) == At(line, p + 1) \in Space \union {0}

Ends(c) == c \in EndOfArgument

\* One character of an argument at p: [how, take, skip], where "how" is the mode
\* that follows: "plain", "double" or "single" quotes, "done", or "error".
Character(line, p, mode) ==
    LET c == At(line, p)
        Goes(how, take, skip) == [how |-> how, take |-> take, skip |-> skip]
    IN  CASE mode = "plain" ->
               CASE Ends(c) -> Goes("done", <<>>, 1)
                 [] c = Quote -> Goes("double", <<>>, 1)
                 [] c = Apostrophe -> Goes("single", <<>>, 1)
                 [] OTHER -> Goes("plain", <<c>>, 1)
          [] mode = "double" /\ c = Backslash /\ At(line, p + 1) = 120
                /\ is_hex_digit(At(line, p + 2)) /\ is_hex_digit(At(line, p + 3)) ->
               Goes(mode, <<16 * hex_digit_to_int(At(line, p + 2)) + hex_digit_to_int(At(line, p + 3))>>, 4)
          [] mode = "double" /\ c = Backslash /\ At(line, p + 1) # 0 ->
               Goes(mode, <<Meaning(At(line, p + 1))>>, 2)
          [] mode = "single" /\ c = Backslash /\ At(line, p + 1) = Apostrophe ->
               Goes(mode, <<Apostrophe>>, 2)
          [] c = IF mode = "double" THEN Quote ELSE Apostrophe ->
               Goes(IF Closes(line, p) THEN "done" ELSE "error", <<>>, 1)
          [] c = 0 -> Goes("error", <<>>, 0)
          [] OTHER -> Goes(mode, <<c>>, 1)

RECURSIVE Arguments(_, _, _, _, _)
Arguments(line, p, mode, current, argv) ==
    IF mode = "blank"
    THEN IF At(line, p) = 0 THEN [ok |-> TRUE, argv |-> argv]
         ELSE IF At(line, p) \in Space THEN Arguments(line, p + 1, mode, current, argv)
         ELSE Arguments(line, p, "plain", <<>>, argv)
    ELSE LET step == Character(line, p, mode)
         IN  CASE step.how = "error" -> Failure
               [] step.how = "done" ->
                    Arguments(line, p + step.skip, "blank", <<>>, Append(argv, current))
               [] OTHER -> Arguments(line, p + step.skip, step.how, current \o step.take, argv)

sdssplitargs(line) == Arguments(line, 1, "blank", <<>>, <<>>)

--------------------------------------------------------------------------------
ByLength(s1, s2) == Len(s1) - Len(s2)

\* sdscmp: memcmp of the common length, then the lengths.
sdscmp(s1, s2) ==
    LET differing == {i \in DOMAIN s1 \intersect DOMAIN s2 : s1[i] # s2[i]}
        first == CHOOSE i \in differing : \A j \in differing : i <= j
    IN  IF differing = {} THEN ByLength(s1, s2) ELSE s1[first] - s2[first]

--------------------------------------------------------------------------------
Init == text = <<>>

Next == Len(text) < MaxLength /\ \E b \in Byte : text' = Append(text, b)

Spec == Init /\ [][Next]_vars

--------------------------------------------------------------------------------
(* Splitting loses nothing: joined with the separator, the tokens are the text, and
   no token holds the separator, also where occurrences of it overlap. *)
SplitThenJoin ==
    \A sep \in Separators :
        LET tokens == sdssplitlen(sep).tokens
        IN  /\ sdsjoin(tokens, sep) = text
            /\ \A i \in DOMAIN tokens : \A j \in 0 .. Len(tokens[i]) - Len(sep) :
                   SubSeq(tokens[i], j + 1, j + Len(sep)) # sep

(* "We are sure there is room in the tokens array" for the final element. *)
RoomForFinal ==
    \A sep \in Separators : Len(sdssplitlen(sep).tokens) <= sdssplitlen(sep).slots

(* "sdscatrepr() is able to convert back a string into a quoted string in the same
   format sdssplitargs() is able to parse": whatever bytes the string holds. *)
ReprIsRead == sdssplitargs(sdscatrepr(text)) = [ok |-> TRUE, argv |-> <<text>>]

(* Without quotes the arguments are what stands between blanks.  (\v and \f separate
   arguments only where none has begun.) *)
Unquoted == {Quote, Apostrophe, 0, 11, 12} \intersect Range(text) = {}
Between(i, j) ==
    /\ i <= j /\ \A k \in i .. j : text[k] \notin Space
    /\ i = 1 \/ text[i - 1] \in Space
    /\ j = Len(text) \/ text[j + 1] \in Space
PlainArguments ==
    Unquoted =>
        LET words == {<<i, j>> \in (DOMAIN text) \X (DOMAIN text) : Between(i, j)}
            inOrder == SetToSortSeq(words, LAMBDA v, w : v[1] < w[1])
        IN  sdssplitargs(text) =
                [ok |-> TRUE, argv |-> [k \in DOMAIN inOrder |->
                                            SubSeq(text, inOrder[k][1], inOrder[k][2])]]

(* "NULL if the input contains unbalanced quotes or closed quotes followed by non
   space characters": a text that is accepted stays accepted, with one argument
   more, when a blank and an argument follow. *)
ArgumentsCompose ==
    0 \notin Range(text) /\ sdssplitargs(text).ok =>
        sdssplitargs(text \o <<32, 110>>) =
            [ok |-> TRUE, argv |-> Append(sdssplitargs(text).argv, <<110>>)]

(* An argument in quotes is closed by a quote with a blank or the end behind it. *)
QuotesClose ==
    \A i \in DOMAIN text :
        /\ text[i] = Quote /\ i > 1 /\ text[1] = Quote /\ i < Len(text) /\ text[i + 1] \notin Space
        /\ \A j \in 2 .. i - 1 : text[j] \notin {Quote, Backslash}
        /\ 0 \notin Range(text)
        => ~sdssplitargs(text).ok

(* sdscmp orders the parts of a text as memcmp and the lengths do: a prefix comes
   first, and the comparison is antisymmetric. *)
ComparisonOrders ==
    \A i, j \in 0 .. Len(text) :
        LET a == SubSeq(text, 1, i)
            b == SubSeq(text, j + 1, Len(text))
        IN  /\ (sdscmp(a, b) = 0) = (a = b)
            /\ (sdscmp(a, b) < 0) = (sdscmp(b, a) > 0)
            /\ IsStrictPrefix(a, b) => sdscmp(a, b) < 0
================================================================================
