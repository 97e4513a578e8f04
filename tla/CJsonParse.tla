--------------------------------- MODULE CJsonParse ---------------------------------
(****************************************************************************)
(* The parser of cJSON.c, with which every map entry and task is read from  *)
(* Redis: cJSON_ParseWithOpts and the functions below it, which share one   *)
(* position in the text, one count of the nesting, and the memory.  The     *)
(* text is one of symbols: a number, a string or null is one of them.       *)
(****************************************************************************)
EXTENDS Integers, Sequences, SequencesExt, FiniteSetsExt

CONSTANTS
    NestingLimit,  \* CJSON_NESTING_LIMIT
    MaxText,       \* bound: the symbols of a text
    MaxRoom        \* bound: the allocations that succeed before one fails

ParseAssumption == NestingLimit \in Nat /\ MaxText \in Nat \ {0} /\ MaxRoom \in Nat

Number == "1"
String == "s"
NUL == "NUL"
Blank == {" ", NUL}          \* the characters up to 32
Symbol == {Number, String, "null", "[", "]", "{", "}", ",", ":", " "}

VARIABLES
    text,          \* the text to be parsed, without the NUL at its end
    edited         \* whether it was garbled

vars == <<text, edited>>

--------------------------------------------------------------------------------
(* The parse_buffer: content, offset (from 0) and depth; live counts the items *)
(* and strings that are allocated, room the allocations that still succeed.    *)

Length(b) == Len(b.content)
Here(b) == b.content[b.offset + 1]
CanAccess(b) == b.offset < Length(b)
Is(b, symbol) == CanAccess(b) /\ Here(b) = symbol
Moved(b, n) == [b EXCEPT !.offset = @ + n]

\* Mutant: the position stays behind the end of the text.
buffer_skip_whitespace_Over(b) ==
    Moved(b, Max({n \in 0 .. Length(b) - b.offset : \A k \in 1 .. n : b.content[b.offset + k] \in Blank}))

\* All blanks are skipped, the NUL at the end with them; then it is stepped back on it.
buffer_skip_whitespace(b) ==
    LET n == Max({n \in 0 .. Length(b) - b.offset : \A k \in 1 .. n : b.content[b.offset + k] \in Blank})
    IN Moved(b, IF b.offset + n = Length(b) THEN n - 1 ELSE n)

\* One allocation.
HasRoom(b) == b.room > 0
Taken(b) == [b EXCEPT !.room = @ - 1, !.live = @ + 1]

\* A value is a record of its type, and of its members with their names.
Leaf(type) == [type |-> type, members |-> <<>>]
NoValue == Leaf("invalid")

\* What is allocated for a value, apart from the item it is in.
RECURSIVE SizeOf(_)
SizeOf(v) ==
    (IF v.type = "string" THEN 1 ELSE 0)
    + FoldLeft(LAMBDA sum, m : sum + 1 + (IF m.named THEN 1 ELSE 0) + SizeOf(m.value), 0, v.members)

\* cJSON_Delete of the head of a list.
Deleted(b, members) == [b EXCEPT !.live = @ - SizeOf([Leaf("array") EXCEPT !.members = members])]

Result(ok, b, v) == [ok |-> ok, b |-> b, value |-> v]
Failure(b) == Result(FALSE, b, NoValue)

\* parse_string, of which only the quotes matter here: it stops behind what is none.
parse_string(b) ==
    IF ~Is(b, String) THEN Failure(Moved(b, 1))
    ELSE IF ~HasRoom(b) THEN Failure(Moved(b, 1))
    ELSE Result(TRUE, Moved(Taken(b), 1), Leaf("string"))

TooDeep(b) == b.depth >= NestingLimit

Closing(open) == IF open = "[" THEN "]" ELSE "}"
TypeOf(open) == IF open = "[" THEN "array" ELSE "object"

RECURSIVE parse_value(_), NextMember(_, _, _)

\* parse_array and parse_object, by their opening bracket.  An error leaves depth as it is.
parse_list(b, open) ==
    LET b1 == buffer_skip_whitespace(Moved([b EXCEPT !.depth = @ + 1], 1))
    IN IF TooDeep(b) THEN Failure(b)
       ELSE IF Is(b1, Closing(open))
       THEN Result(TRUE, Moved([b1 EXCEPT !.depth = @ - 1], 1), Leaf(TypeOf(open)))
       ELSE IF ~CanAccess(b1) THEN Failure(Moved(b1, -1))
       ELSE NextMember(Moved(b1, -1), open, <<>>)

parse_value(b) ==
    CASE Is(b, "null") -> Result(TRUE, Moved(b, 1), Leaf("null"))
      [] Is(b, String) -> parse_string(b)
      [] Is(b, Number) -> Result(TRUE, Moved(b, 1), Leaf("number"))
      [] Is(b, "[") \/ Is(b, "{") -> parse_list(b, Here(b))
      [] OTHER         -> Failure(b)

Member(named, v) == [named |-> named, value |-> v]

\* The loop over the members: the position is in front of the next one, then behind the
\* value that was found.
AfterValue(found, after, open, members) ==
    IF ~found.ok THEN Failure(Deleted(found.b, members))
    ELSE IF Is(after, ",") THEN NextMember(after, open, members)
    ELSE IF Is(after, Closing(open))
    THEN Result(TRUE, Moved([after EXCEPT !.depth = @ - 1], 1), [type |-> TypeOf(open), members |-> members])
    ELSE Failure(Deleted(after, members))

ReadMember(found, open, members) ==
    AfterValue(found, buffer_skip_whitespace(found.b), open, Append(members, Member(open = "{", found.value)))

\* A member is deleted with its name, if that was read.
AfterName(name, colon, members) ==
    IF ~name.ok THEN Failure(Deleted(name.b, Append(members, Member(FALSE, NoValue))))
    ELSE IF ~Is(colon, ":") THEN Failure(Deleted(colon, Append(members, Member(TRUE, NoValue))))
    ELSE ReadMember(parse_value(buffer_skip_whitespace(Moved(colon, 1))), "{", members)

ReadName(name, members) == AfterName(name, buffer_skip_whitespace(name.b), members)

NextMember(b, open, members) ==
    LET start == buffer_skip_whitespace(Moved(Taken(b), 1))
    IN IF ~HasRoom(b) THEN Failure(Deleted(b, members))
       ELSE IF open = "{" THEN ReadName(parse_string(start), members)
       ELSE ReadMember(parse_value(start), open, members)

\* Where the error is said to be.
ErrorAt(b) == IF b.offset < Length(b) THEN b.offset ELSE Length(b) - 1

\* cJSON_ParseWithOpts: the result with return_parse_end, which is where the error is if there is one.
Failed(b) == [item |-> NoValue, end |-> ErrorAt(b), live |-> b.live]

\* With the item goes what was read.
AtEnd(r, b, requireEnd) ==
    IF r.ok /\ (requireEnd => Is(b, NUL)) THEN [item |-> r.value, end |-> b.offset, live |-> b.live]
    ELSE Failed([b EXCEPT !.live = @ - 1 - SizeOf(r.value)])

Parsed(r, requireEnd) ==
    AtEnd(r, IF r.ok /\ requireEnd THEN buffer_skip_whitespace(r.b) ELSE r.b, requireEnd)

ParseWithOpts(t, requireEnd, room) ==
    LET b0 == [content |-> Append(t, NUL), offset |-> 0, depth |-> 0, live |-> 0, room |-> room]
    IN IF HasRoom(b0) THEN Parsed(parse_value(buffer_skip_whitespace(Taken(b0))), requireEnd) ELSE Failed(b0)

cJSON_Parse(t) == ParseWithOpts(t, FALSE, MaxRoom)

--------------------------------------------------------------------------------
(* Texts: what values look like, and anything that comes of one edit of them. *)

Sprout == {<<"null">>, <<String>>, <<"[", "]">>, <<"{", "}">>, <<"[", Number, "]">>, <<"[", Number, " ", ",", Number, "]">>,
           <<"{", String, ":", Number, "}">>, <<"{", String, ":", Number, ",", String, " ", ":", Number, "}">>}

Init == text = <<Number>> /\ edited = FALSE

Grow(at, sprout) ==
    /\ text[at] = Number /\ ~edited /\ Len(text) + Len(sprout) <= MaxText + 1
    /\ text' = SubSeq(text, 1, at - 1) \o sprout \o SubSeq(text, at + 1, Len(text))
    /\ UNCHANGED edited

Edit ==
    /\ ~edited /\ edited' = TRUE
    /\ \/ \E at \in DOMAIN text : text' = RemoveAt(text, at)
       \/ \E at \in DOMAIN text, symbol \in Symbol : text' = [text EXCEPT ![at] = symbol]
       \/ \E at \in 1 .. Len(text) + 1, symbol \in Symbol : text' = InsertAt(text, at, symbol)
       \/ \E at \in DOMAIN text : text' = SubSeq(text, 1, at)

Next == Edit \/ \E at \in DOMAIN text, sprout \in Sprout : Grow(at, sprout)

Spec == Init /\ [][Next]_vars

--------------------------------------------------------------------------------
(* The grammar: the values that a text without blanks stands for. *)

RECURSIVE Meaning(_, _), Lists(_, _, _)
Meaning(t, depth) ==
    IF t = <<>> THEN {}
    ELSE CASE t = <<"null">> -> {Leaf("null")}
           [] t = <<String>> -> {Leaf("string")}
           [] t = <<Number>> -> {Leaf("number")}
           [] Len(t) >= 2 /\ t[1] \in {"[", "{"} /\ Last(t) = Closing(t[1]) /\ depth > 0 ->
                LET inner == SubSeq(t, 2, Len(t) - 1) IN
                {[type |-> TypeOf(t[1]), members |-> l] :
                    l \in IF inner = <<>> THEN {<<>>} ELSE Lists(inner, t[1] = "{", depth - 1)}
           [] OTHER -> {}

\* One member, or a comma between the first and the others.
Lists(t, named, depth) ==
    LET Meant(m) == {[named |-> named, value |-> v] :
                        v \in IF ~named THEN Meaning(m, depth)
                              ELSE IF Len(m) > 2 /\ m[1] = String /\ m[2] = ":" THEN Meaning(SubSeq(m, 3, Len(m)), depth)
                              ELSE {}}
    IN {<<m>> : m \in Meant(t)}
       \union UNION {{<<m>> \o rest : m \in Meant(SubSeq(t, 1, k - 1)), rest \in Lists(SubSeq(t, k + 1, Len(t)), named, depth)}
                       : k \in {k \in DOMAIN t : t[k] = ","}}

Values(t) == Meaning(SelectSeq(t, LAMBDA symbol : symbol # " "), NestingLimit)

\* cJSON_ParseWithOpts reads the texts of the grammar, within CJSON_NESTING_LIMIT,
\* as what they mean, and no other text, when it has to read all of it.
AcceptsTheGrammar ==
    LET r == ParseWithOpts(text, TRUE, MaxRoom) IN
    IF Values(text) = {} THEN r.item = NoValue ELSE Values(text) = {r.item}

\* What cJSON_Parse reads is a text of the grammar that the whole text starts with: what
\* is behind it is not looked at.
ReadsAPrefix ==
    LET r == cJSON_Parse(text) IN
    IF r.item # NoValue THEN Values(SubSeq(text, 1, r.end)) = {r.item}
    ELSE \A n \in 1 .. Len(text) : Values(SubSeq(text, 1, n)) = {}

\* Wherever the parse fails, also for want of memory (parse_array, parse_object and
\* cJSON_ParseWithOpts each delete what they made), nothing stays allocated, and
\* return_parse_end and the error position are in the text or at its end.
FailsCleanly ==
    \A requireEnd \in BOOLEAN, room \in 0 .. MaxRoom :
        LET Clean(r) == /\ r.live = IF r.item = NoValue THEN 0 ELSE 1 + SizeOf(r.item)
                        /\ r.end \in 0 .. Len(text)
        IN Clean(ParseWithOpts(text, requireEnd, room))
================================================================================
