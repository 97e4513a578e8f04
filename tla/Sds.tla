----------------------------------- MODULE Sds -----------------------------------
(****************************************************************************)
(* The dynamic strings of hiredis (sds.c, sds.h), with which commands are   *)
(* put together and replies buffered.  A string is a header of one of five  *)
(* types, whose fields for the length and the room hold so many values, and *)
(* the bytes behind it.  Every operation is modelled on these bytes; what   *)
(* the string should be is kept beside it.                                  *)
(****************************************************************************)
EXTENDS Integers, Sequences, SequencesExt

CONSTANTS
    Byte,          \* the characters, NUL not among them
    NUL,
    Garbage,       \* what fresh memory holds
    Cap,           \* how many values the fields of the header types 0 .. 3 hold
                   \* (2^5, 2^8, 2^16, 2^32 in the code; type 4 holds every length)
    MaxPrealloc,   \* SDS_MAX_PREALLOC
    MaxLen         \* bound: the length of strings

SdsAssumption ==
    /\ NUL \notin Byte /\ Garbage \notin Byte \union {NUL}
    /\ Cap \in [0 .. 3 -> Nat \ {0}] /\ \A t \in 0 .. 2 : Cap[t] < Cap[t + 1]
    /\ MaxPrealloc \in Nat /\ MaxLen \in Nat

VARIABLES
    s,             \* [type, len, alloc, size, mem]: the header, how many bytes are
                   \* allocated behind it, and the bytes
    expected       \* the string it should be

vars == <<s, expected>>

Text == UNION {[1 .. n -> Byte \union {NUL}] : n \in 0 .. 2}

--------------------------------------------------------------------------------
(* The header. *)

\* A value stored in a field of the header.
Stored(type, n) == IF type = 4 THEN n ELSE n % Cap[type]

sdsReqType(n) ==
    CASE n < Cap[0] -> 0 [] n < Cap[1] - 1 -> 1 [] n < Cap[2] - 1 -> 2 [] n < Cap[3] - 1 -> 3
      [] OTHER -> 4

sdslen(r) == r.len
sdsalloc(r) == IF r.type = 0 THEN r.len ELSE r.alloc
sdsavail(r) == sdsalloc(r) - sdslen(r)
sdssetlen(r, n) == [r EXCEPT !.len = Stored(r.type, n)]

\* Bytes are written; beyond the allocation the memory gets longer than it.
Write(r, at, text) ==
    [r EXCEPT !.mem = [i \in 1 .. (IF at + Len(text) > Len(@) THEN at + Len(text) ELSE Len(@)) |->
                          IF i > at /\ i <= at + Len(text) THEN text[i - at] ELSE @[i]]]

Fresh(n) == [i \in 1 .. n |-> Garbage]

Content(r) == SubSeq(r.mem, 1, r.len)

--------------------------------------------------------------------------------
(* Operations on a string. *)

(* sdsnewlen: an empty string gets type 8, "since type 5 is not good at this". *)
sdsnewlen(text) ==
    LET n == Len(text)
        type == IF n = 0 THEN 1 ELSE sdsReqType(n)
    IN  [type |-> type, len |-> Stored(type, n), alloc |-> Stored(type, n), size |-> n + 1,
         mem |-> Append(text, NUL)]

\* Another allocation, with room for n characters; the old bytes are kept, all of
\* them when the type stays, or the string and its terminator.
Reallocated(r, type, n) ==
    LET kept == IF type = r.type
                THEN SubSeq(r.mem, 1, IF r.size < n + 1 THEN r.size ELSE n + 1)
                ELSE SubSeq(r.mem, 1, r.len + 1)
    IN  [type |-> type, len |-> Stored(type, r.len), alloc |-> Stored(type, n), size |-> n + 1,
         mem |-> kept \o Fresh(n + 1 - Len(kept))]

NewLength(len, addlen) ==
    IF len + addlen < MaxPrealloc THEN (len + addlen) * 2 ELSE len + addlen + MaxPrealloc

sdsMakeRoomFor(r, addlen) ==
    IF sdsavail(r) >= addlen THEN r
    ELSE LET n == NewLength(sdslen(r), addlen)
             type == IF sdsReqType(n) = 0 THEN 1 ELSE sdsReqType(n)
         IN  Reallocated(r, type, n)

sdsRemoveFreeSpace(r) == Reallocated(r, sdsReqType(sdslen(r)), sdslen(r))

\* A new length and its terminator.
Ended(r, n) == Write(sdssetlen(r, n), n, <<NUL>>)

sdscatlen(r, text) ==
    LET n == sdslen(r)
        room == sdsMakeRoomFor(r, Len(text))
    IN  Ended(Write(room, n, text), n + Len(text))

sdscpylen(r, text) ==
    LET room == IF sdsalloc(r) < Len(text) THEN sdsMakeRoomFor(r, Len(text) - sdslen(r)) ELSE r
    IN  Ended(Write(room, 0, text), Len(text))

sdsgrowzero(r, n) ==
    IF n <= sdslen(r) THEN r
    ELSE sdssetlen(Write(sdsMakeRoomFor(r, n - sdslen(r)), sdslen(r),
                         [i \in 1 .. n - sdslen(r) + 1 |-> NUL]), n)

\* sdsMakeRoomFor, a read into the room, and sdsIncrLen.
ReadInto(r, room, text) ==
    LET made == sdsMakeRoomFor(r, room)
    IN  Ended(Write(made, sdslen(r), text), sdslen(r) + Len(text))

(* sdscatfmt: room for one character before each item of the format, and for the
   whole of a string; the terminator comes at the end. *)
sdscatfmt(r, items) ==
    LET Item(q, text) ==
            LET one == IF sdsavail(q) = 0 THEN sdsMakeRoomFor(q, 1) ELSE q
                room == IF sdsavail(one) < Len(text) THEN sdsMakeRoomFor(one, Len(text)) ELSE one
            IN  sdssetlen(Write(room, sdslen(q), text), sdslen(q) + Len(text))
        all == FoldLeft(Item, r, items)
    IN  Write(all, sdslen(all), <<NUL>>)

\* strchr finds NUL in every set.
InSet(c, cset) == c \in cset \union {NUL}

sdstrim(r, cset) ==
    LET end == sdslen(r)
        sp == CHOOSE i \in 1 .. end + 1 :
                 /\ i = end + 1 \/ ~InSet(r.mem[i], cset)
                 /\ \A j \in 1 .. i - 1 : InSet(r.mem[j], cset)
        ep == IF sp > end THEN end
              ELSE CHOOSE i \in sp .. end :
                      /\ i = sp \/ ~InSet(r.mem[i], cset)
                      /\ \A j \in i + 1 .. end : InSet(r.mem[j], cset)
        len == IF sp > ep THEN 0 ELSE ep - sp + 1
    IN  Ended(Write(r, 0, SubSeq(r.mem, sp, sp + len - 1)), len)

\* A place given from the end.
FromEnd(i, len) == IF i >= 0 THEN i ELSE IF len + i < 0 THEN 0 ELSE len + i

\* Mutant: an end behind the string is taken for the length.
LastKept_Length(end, len) == IF end >= len THEN len ELSE end

LastKept(end, len) == IF end >= len THEN len - 1 ELSE end

sdsrange(r, start, end) ==
    LET len == sdslen(r)
        from == FromEnd(start, len)
        to == LastKept(FromEnd(end, len), len)
        newlen == IF from > FromEnd(end, len) \/ from >= len THEN 0 ELSE to - from + 1
    IN  IF len = 0 THEN r
        ELSE Ended(Write(r, 0, SubSeq(r.mem, from + 1, from + newlen)), newlen)

\* strlen of the bytes.
Strlen(mem) == (CHOOSE i \in DOMAIN mem : mem[i] = NUL /\ \A j \in 1 .. i - 1 : mem[j] # NUL) - 1

sdsupdatelen(r) == sdssetlen(r, Strlen(r.mem))

sdsclear(r) == Write(sdssetlen(r, 0), 0, <<NUL>>)

sdsmapchars(r, from, to) ==
    [r EXCEPT !.mem = [i \in DOMAIN @ |->
        IF i <= r.len /\ @[i] \in Range(from)
        THEN to[CHOOSE j \in DOMAIN from : from[j] = @[i] /\ \A k \in 1 .. j - 1 : from[k] # @[i]]
        ELSE @[i]]]

--------------------------------------------------------------------------------
Init == \E text \in Text : s = sdsnewlen(text) /\ expected = text

Becomes(r, text) == Len(text) <= MaxLen /\ s' = r /\ expected' = text

\* The characters at the places that satisfy P.
Kept(P(_)) == LET places == SelectSeq([i \in DOMAIN expected |-> i], P)
              IN  [i \in DOMAIN places |-> expected[places[i]]]

Cat == \E t \in Text : Becomes(sdscatlen(s, t), expected \o t)
Copy == \E t \in Text : Becomes(sdscpylen(s, t), t)
GrowZero == \E n \in 0 .. MaxLen :
    Becomes(sdsgrowzero(s, n), expected \o [i \in 1 .. n - Len(expected) |-> NUL])
Read == \E t \in Text : \E room \in Len(t) .. 3 : t # <<>> /\ Becomes(ReadInto(s, room, t), expected \o t)
Cut == \E n \in 1 .. Len(expected) :
    Becomes(Ended(s, sdslen(s) - n), SubSeq(expected, 1, Len(expected) - n))
Format == \E t, u \in Text : Becomes(sdscatfmt(s, <<t, u>>), expected \o t \o u)
Trim == \E cset \in SUBSET Byte :
    LET Stays(i) == /\ \E j \in 1 .. i : ~InSet(expected[j], cset)
                    /\ \E j \in i .. Len(expected) : ~InSet(expected[j], cset)
    IN  Becomes(sdstrim(s, cset), Kept(Stays))
SubString == \E start, end \in -MaxLen - 1 .. MaxLen :
    LET Stays(i) == /\ FromEnd(start, Len(expected)) <= i - 1
                    /\ i - 1 <= FromEnd(end, Len(expected))
    IN  Becomes(sdsrange(s, start, end), Kept(Stays))
UpdateLen ==
    LET Stays(i) == \A j \in 1 .. i : expected[j] # NUL IN Becomes(sdsupdatelen(s), Kept(Stays))
Clear == Becomes(sdsclear(s), <<>>)
Shrink == Becomes(sdsRemoveFreeSpace(s), expected)
MakeRoom == \E n \in 1 .. 3 : Becomes(sdsMakeRoomFor(s, n), expected)
Map == \E a, b \in Byte :
    Becomes(sdsmapchars(s, <<a, b>>, <<b, a>>),
            [i \in DOMAIN expected |-> CASE expected[i] = a -> b [] expected[i] = b -> a
                                         [] OTHER -> expected[i]])

Next ==
    \/ Cat \/ Copy \/ GrowZero \/ Read \/ Cut \/ Format \/ Trim \/ SubString
    \/ UpdateLen \/ Clear \/ Shrink \/ MakeRoom \/ Map

Spec == Init /\ [][Next]_vars

--------------------------------------------------------------------------------
(* The types of the state; the fields of the header hold what they are to. *)
TypeOK ==
    /\ s.type \in 0 .. 4 /\ s.len \in 0 .. MaxLen /\ s.size \in Nat /\ s.alloc \in Nat
    /\ s.mem \in Seq(Byte \union {NUL, Garbage})
    /\ expected \in Seq(Byte \union {NUL})

(* Whatever operations follow one another and whichever header the string gets, it
   holds what it should, and nothing of the memory that was not written. *)
ContentIsRight == Content(s) = expected

(* "All the sds strings are null-terminated, always". *)
Terminated == s.mem[s.len + 1] = NUL

(* No operation writes beyond the allocation, and the header never promises more
   room than there is. *)
InBounds ==
    /\ Len(s.mem) = s.size
    /\ sdsalloc(s) >= s.len
    /\ sdsalloc(s) + 1 <= s.size
    /\ s.type # 0 => s.alloc + 1 = s.size
================================================================================
