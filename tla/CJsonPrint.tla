--------------------------------- MODULE CJsonPrint ---------------------------------
(****************************************************************************)
(* Printing JSON with cJSON.c: the functions of print_value write into one  *)
(* buffer, ask for room before they write, and find out afterwards by the   *)
(* NUL how far they came.  The buffer grows, by realloc or with hooks that  *)
(* have none, is one of the caller's, or cannot grow for want of memory.    *)
(****************************************************************************)
EXTENDS Integers, Sequences, SequencesExt, FiniteSetsExt

CONSTANTS
    FirstSize,     \* the size of the buffer that print allocates, 256 in the code
    IntMax,        \* INT_MAX
    MaxValue,      \* bound: the length of what is printed, without formatting
    MaxRoom        \* bound: the allocations that succeed before one fails

PrintAssumption == FirstSize \in Nat \ {0} /\ IntMax \in Nat /\ MaxValue \in Nat /\ MaxRoom \in Nat

NUL == "NUL"
Garbage == "?"               \* what fresh memory holds
Tab == "tab"
Newline == "newline"
Quote == "quote"

\* A value is its type, its own characters, and its members with their names.
Number == [type |-> "number", chars |-> <<"1">>, names |-> <<>>, members |-> <<>>]
Null == [Number EXCEPT !.type = "null", !.chars = <<"n", "u", "l", "l">>]
String(s) == [Number EXCEPT !.type = "string", !.chars = s]
List(type, names, members) == [type |-> type, chars |-> <<>>, names |-> names, members |-> members]

VARIABLE value     \* what is printed

--------------------------------------------------------------------------------
(* The text that a value should have. *)

\* A character that has to be written with a backslash.
Escaped(s) == FlattenSeq([k \in DOMAIN s |-> IF s[k] \in {Quote, Newline} THEN <<"\\", s[k]>> ELSE <<s[k]>>])
Quoted(s) == <<Quote>> \o Escaped(s) \o <<Quote>>

Repeat(c, n) == [k \in 1 .. n |-> c]

RECURSIVE Rendered(_, _, _)
Rendered(v, format, depth) ==
    LET last == Len(v.members)
        Element(k) == Rendered(v.members[k], format, depth + 1)
                      \o (IF k = last THEN <<>> ELSE IF format THEN <<",", " ">> ELSE <<",">>)
        Member(k) == (IF format THEN Repeat(Tab, depth + 1) ELSE <<>>) \o Quoted(v.names[k])
                     \o (IF format THEN <<":", Tab>> ELSE <<":">>) \o Rendered(v.members[k], format, depth + 1)
                     \o (IF k = last THEN <<>> ELSE <<",">>) \o (IF format THEN <<Newline>> ELSE <<>>)
    IN CASE v.type = "array"  -> <<"[">> \o FlattenSeq([k \in 1 .. last |-> Element(k)]) \o <<"]">>
         [] v.type = "object" -> (IF format THEN <<"{", Newline>> ELSE <<"{">>)
                                 \o FlattenSeq([k \in 1 .. last |-> Member(k)])
                                 \o (IF format THEN Repeat(Tab, depth) ELSE <<>>) \o <<"}">>
         [] v.type = "string" -> Quoted(v.chars)
         [] OTHER             -> v.chars

--------------------------------------------------------------------------------
(* The printbuffer: memory, its length as noted, offset, depth, noalloc and    *)
(* format; realloc is whether the hooks have one, room how often the memory    *)
(* can still be had, over is set by a write behind the memory, and ok is the   *)
(* result of the last function.                                                *)

\* The memory may be longer than length says: print does not note its size.
Buffer(size, length, noalloc, format, realloc, room) ==
    [memory |-> Repeat(Garbage, size), length |-> length, offset |-> 0, depth |-> 0, noalloc |-> noalloc,
     format |-> format, realloc |-> realloc, room |-> room, freed |-> FALSE, over |-> FALSE, ok |-> TRUE]

Failed(p) == [p EXCEPT !.ok = FALSE]

\* Mutant: only the text is counted, not the NUL behind it.
Needed_Text(p, needed) == needed + p.offset

Needed(p, needed) == needed + p.offset + 1

\* The size of the buffer that replaces one that is too small.
NewSize(needed) == IF needed > IntMax \div 2 THEN IntMax ELSE needed * 2

\* Room for that many characters.  Without realloc, what is behind the offset is not kept.
ensure(p, needed) ==
    LET total == Needed(p, needed)
        size == NewSize(total)
        kept == Min({Len(p.memory), IF p.realloc THEN size ELSE p.offset + 1})
    IN IF ~p.ok THEN p
       ELSE IF p.length > 0 /\ p.offset >= p.length THEN Failed(p)
       ELSE IF needed > IntMax THEN Failed(p)
       ELSE IF total <= p.length THEN p
       ELSE IF p.noalloc \/ total > IntMax THEN Failed(p)
       ELSE IF p.room = 0 THEN [Failed(p) EXCEPT !.memory = <<>>, !.length = 0, !.freed = TRUE]
       ELSE [p EXCEPT !.memory = [k \in 1 .. size |-> IF k <= kept THEN p.memory[k] ELSE Garbage],
                      !.length = size, !.room = @ - 1]

\* Characters are written at the offset.
Put(p, chars) ==
    IF ~p.ok THEN p
    ELSE [p EXCEPT !.memory = [k \in DOMAIN @ |-> IF k - p.offset \in DOMAIN chars THEN chars[k - p.offset] ELSE @[k]],
                   !.over = @ \/ p.offset + Len(chars) > Len(p.memory)]
Advanced(p, n) == IF p.ok THEN [p EXCEPT !.offset = @ + n] ELSE p
Deeper(p, n) == IF p.ok THEN [p EXCEPT !.depth = @ + n] ELSE p

\* The offset goes to the first NUL behind it.
update_offset(p) ==
    IF ~p.ok THEN p
    ELSE LET ends == {k \in DOMAIN p.memory : k > p.offset /\ p.memory[k] = NUL}
         IN IF ends = {} THEN [p EXCEPT !.over = TRUE] ELSE [p EXCEPT !.offset = Min(ends) - 1]

\* print_number, and the constants: the room asked for a constant has its NUL in it.
print_number(p, v) == Advanced(Put(ensure(p, Len(v.chars)), v.chars \o <<NUL>>), Len(v.chars))
print_constant(p, v) == Put(ensure(p, Len(v.chars) + 1), v.chars \o <<NUL>>)

EscapeCharacters(s) == Cardinality({k \in DOMAIN s : s[k] \in {Quote, Newline}})

print_string_ptr(p, s) ==
    LET length == Len(s) + EscapeCharacters(s)
    IN Put(ensure(p, length + 3), <<Quote>> \o Escaped(s) \o <<Quote, NUL>>)

RECURSIVE print_value(_, _)

print_array(p, v) ==
    LET length == IF p.format THEN 2 ELSE 1
        Comma(q) == Advanced(Put(ensure(q, length + 1), (IF p.format THEN <<",", " ">> ELSE <<",">>) \o <<NUL>>), length)
        Element(q, k) == LET r == update_offset(print_value(q, v.members[k]))
                         IN IF k < Len(v.members) THEN Comma(r) ELSE r
        open == Deeper(Advanced(Put(ensure(p, 1), <<"[">>), 1), 1)
        filled == FoldLeft(Element, open, [k \in DOMAIN v.members |-> k])
    IN Deeper(Put(ensure(filled, 2), <<"]", NUL>>), -1)

print_object(p, v) ==
    LET Formatted(s) == IF p.format THEN s ELSE <<>>
        Indented(q) == IF ~p.format THEN q ELSE Advanced(Put(ensure(q, q.depth), Repeat(Tab, q.depth)), q.depth)
        Member(q, k) ==
            LET key == update_offset(print_string_ptr(Indented(q), v.names[k]))
                colon == <<":">> \o Formatted(<<Tab>>)
                after == Advanced(Put(ensure(key, Len(colon)), colon), Len(colon))
                printed == update_offset(print_value(after, v.members[k]))
                end == (IF k < Len(v.members) THEN <<",">> ELSE <<>>) \o Formatted(<<Newline>>)
            IN Advanced(Put(ensure(printed, Len(end) + 1), end \o <<NUL>>), Len(end))
        brace == <<"{">> \o Formatted(<<Newline>>)
        open == Deeper(Advanced(Put(ensure(p, Len(brace) + 1), brace), Len(brace)), 1)
        filled == FoldLeft(Member, open, [k \in DOMAIN v.members |-> k])
        close == Formatted(Repeat(Tab, filled.depth - 1)) \o <<"}", NUL>>
    IN Deeper(Put(ensure(filled, IF p.format THEN filled.depth + 1 ELSE 2), close), -1)

print_value(p, v) ==
    IF ~p.ok THEN p
    ELSE CASE v.type = "number" -> print_number(p, v)
           [] v.type = "null"   -> print_constant(p, v)
           [] v.type = "string" -> print_string_ptr(p, v.chars)
           [] v.type = "array"  -> print_array(p, v)
           [] v.type = "object" -> print_object(p, v)

\* cJSON_Print and cJSON_PrintUnformatted; the first allocation takes room too.  What is
\* printed is moved once more: by realloc, when buffer->buffer is given up whether there is
\* memory or not, or to memory of its size.
print(v, format, realloc, room) ==
    IF room = 0 THEN Failed(Buffer(0, 0, FALSE, format, realloc, 0))
    ELSE LET p == update_offset(print_value(Buffer(FirstSize, 0, FALSE, format, realloc, room - 1), v))
         IN IF ~p.ok THEN [p EXCEPT !.freed = TRUE]
            ELSE IF p.room = 0 THEN [Failed(p) EXCEPT !.freed = ~realloc]
            ELSE p

cJSON_PrintPreallocated(v, len, format) == print_value(Buffer(len, len, TRUE, format, FALSE, 0), v)

\* The buffer is freed when the printing failed, if ensure has not done that.
cJSON_PrintBuffered(v, prebuffer, format, realloc, room) ==
    LET p == print_value(Buffer(prebuffer, prebuffer, FALSE, format, realloc, room - 1), v)
    IN IF room = 0 THEN Failed(Buffer(0, 0, FALSE, format, realloc, 0))
       ELSE IF p.ok THEN p ELSE [p EXCEPT !.freed = TRUE]

--------------------------------------------------------------------------------
(* Values grow at the top. *)

Leaves == {Number, Null, String(<<>>), String(<<"a", Quote>>)}
Names == {<<"a">>, <<Newline>>}

Init == value \in Leaves

WrapInArray == value' = List("array", <<>>, <<value>>)
WrapInObject(name) == value' = List("object", <<name>>, <<value>>)
AddMember(leaf) ==
    /\ value.type \in {"array", "object"}
    /\ value' = [value EXCEPT !.members = Append(@, leaf),
                             !.names = IF value.type = "object" THEN Append(@, <<"a">>) ELSE @]
Empty == value.type \in {"array", "object"} /\ value' = List(value.type, <<>>, <<>>)

Small == Len(Rendered(value, FALSE, 0)) <= MaxValue

Next ==
    /\ Small
    /\ \/ WrapInArray \/ Empty
       \/ \E name \in Names : WrapInObject(name)
       \/ \E leaf \in Leaves : AddMember(leaf)

Spec == Init /\ [][Next]_value

--------------------------------------------------------------------------------
(* What holds, of every way to print. *)

Text(format) == Rendered(value, format, 0)

\* What is in the memory up to the NUL.
Content(p) == SubSeq(p.memory, 1, Min({k \in DOMAIN p.memory : p.memory[k] = NUL}) - 1)

\* The sizes of a buffer of the caller's, up to the 5 bytes more that cJSON.h asks for.
Sizes(format) == 1 .. Len(Text(format)) + 1 + 5

Printings(format) ==
    {print(value, format, realloc, room) : realloc \in BOOLEAN, room \in 0 .. MaxRoom}
    \union {cJSON_PrintBuffered(value, n, format, realloc, room) :
                n \in Sizes(format), realloc \in BOOLEAN, room \in 0 .. MaxRoom}
    \union {cJSON_PrintPreallocated(value, n, format) : n \in Sizes(format)}

\* Whatever the buffer was at first, and however often it had to grow, what is printed is
\* the text of the value, with the NUL behind it (print_value, update_offset).
PrintsTheText == \A format \in BOOLEAN : \A p \in Printings(format) : p.ok => Content(p) = Text(format)

\* No function writes more than it has asked room for (ensure).
NothingOverruns == \A format \in BOOLEAN : \A p \in Printings(format) : ~p.over

\* cJSON.h on cJSON_PrintPreallocated: 5 bytes more than are needed are enough.
FiveMoreAreEnough ==
    \A format \in BOOLEAN : cJSON_PrintPreallocated(value, Len(Text(format)) + 1 + 5, format).ok

\* Memory that is still allocated although nothing is returned.
Lost(p) == ~p.ok /\ ~p.freed /\ p.memory # <<>>

\* Texts are printed up to a size of INT_MAX, less what is asked for in advance, if there is
\* memory; otherwise nothing is left allocated (ensure), unless it is the last reallocation
\* of print that fails, which loses the whole text with the default hooks, and only with them.
PrintsOrFrees ==
    \A format, realloc \in BOOLEAN :
        /\ Len(Text(format)) + 1 + 5 <= IntMax => print(value, format, realloc, MaxRoom).ok
        /\ \A room \in 0 .. MaxRoom : LET p == print(value, format, realloc, room) IN
              /\ p.ok => ~p.freed /\ p.memory # <<>>
              /\ Lost(p) <=> realloc /\ ~p.ok /\ print(value, format, realloc, room + 1).ok
================================================================================
