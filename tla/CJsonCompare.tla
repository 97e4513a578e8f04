--------------------------------- MODULE CJsonCompare ---------------------------------
(****************************************************************************)
(* cJSON_Compare: numbers and strings by what they are, arrays member by    *)
(* member, objects by looking up each member of the one in the other, and   *)
(* the other way round.                                                     *)
(****************************************************************************)
EXTENDS Naturals, Sequences, SequencesExt, FiniteSetsExt

CONSTANTS
    Name,          \* the names of members
    lower,         \* what tolower makes of a name
    Datum,         \* what numbers, strings and constants are
    MaxSize,       \* bound: the members of two values together
    SameNames      \* whether an object may have two members of one name

CompareAssumption ==
    lower \in [Name -> Name] /\ MaxSize \in Nat /\ SameNames \in BOOLEAN

\* A value: its type, what it is, and its members with their names.
Simple(type, d) == [type |-> type, is |-> d, members |-> <<>>]
Container(type, members) == [type |-> type, is |-> 0, members |-> members]
Values == {Simple(type, d) : type \in {"number", "string"}, d \in Datum}
          \union {Simple("null", 0), Container("array", <<>>), Container("object", <<>>)}

VARIABLES a, b, size

vars == <<a, b, size>>

--------------------------------------------------------------------------------

Fits(m, name, caseSensitive) == IF caseSensitive THEN m.name = name ELSE lower[m.name] = lower[name]

\* The first member of the name, if there is one.
get_object_item(o, name, caseSensitive) ==
    LET at == {k \in DOMAIN o.members : Fits(o.members[k], name, caseSensitive)}
    IN IF at = {} THEN <<>> ELSE <<o.members[Min(at)].value>>

\* Mutant: it is enough that all members of the first object are in the second.
Covers_OneWay(firstInSecond, secondInFirst) == firstInSecond

Covers(firstInSecond, secondInFirst) == firstInSecond /\ secondInFirst

SameLength(x, y) == Len(x.members) = Len(y.members)

RECURSIVE cJSON_Compare(_, _, _)
cJSON_Compare(x, y, caseSensitive) ==
    LET EachIn(o, p) == \A k \in DOMAIN o.members :
            LET found == get_object_item(p, o.members[k].name, caseSensitive)
            IN found # <<>> /\ cJSON_Compare(o.members[k].value, found[1], caseSensitive)
    IN /\ x.type = y.type
       /\ CASE x.type \in {"number", "string"} -> x.is = y.is
            [] x.type = "array"  -> /\ \A k \in DOMAIN x.members : k \in DOMAIN y.members =>
                                         cJSON_Compare(x.members[k].value, y.members[k].value, caseSensitive)
                                    /\ SameLength(x, y)
            [] x.type = "object" -> Covers(EachIn(x, y), EachIn(y, x))
            [] OTHER -> TRUE

--------------------------------------------------------------------------------
(* Two values, which grow by members. *)

Init == a \in Values /\ b \in Values /\ size = 0

Extended(v, name, w) == [v EXCEPT !.members = Append(@, [name |-> name, value |-> w])]
CanExtend(v, name) ==
    \/ v.type = "array"
    \/ v.type = "object" /\ (SameNames \/ \A m \in Range(v.members) : lower[m.name] # lower[name])

Put ==
    /\ size < MaxSize /\ size' = size + 1
    /\ \E name \in Name, w \in Values :
          \/ CanExtend(a, name) /\ a' = Extended(a, name, w) /\ UNCHANGED b
          \/ CanExtend(b, name) /\ b' = Extended(b, name, w) /\ UNCHANGED a

\* A value becomes a member of a new one.
Wrap ==
    /\ size < MaxSize /\ size' = size + 1
    /\ \E type \in {"array", "object"}, name \in Name :
          \/ a' = Extended(Container(type, <<>>), name, a) /\ UNCHANGED b
          \/ b' = Extended(Container(type, <<>>), name, b) /\ UNCHANGED a

Next == Put \/ Wrap

Spec == Init /\ [][Next]_vars

--------------------------------------------------------------------------------
(* Equality: of objects as sets of named members. *)

RECURSIVE Meaning(_, _)
Meaning(v, caseSensitive) ==
    LET Named(m) == [name |-> IF caseSensitive THEN m.name ELSE lower[m.name], value |-> Meaning(m.value, caseSensitive)]
    IN [type |-> v.type, is |-> v.is,
        list |-> IF v.type = "object" THEN <<>> ELSE [k \in DOMAIN v.members |-> Meaning(v.members[k].value, caseSensitive)],
        set |-> IF v.type = "object" THEN {Named(m) : m \in Range(v.members)} ELSE {}]

\* Values whose objects have each name once are compared as what they mean: the order of
\* members makes a difference in arrays only.
ComparesMeanings ==
    \A cs \in BOOLEAN : cJSON_Compare(a, b, cs) <=> Meaning(a, cs) = Meaning(b, cs)

\* Whatever names there are, the order of the two makes no difference.
IsSymmetric == \A cs \in BOOLEAN : cJSON_Compare(a, b, cs) <=> cJSON_Compare(b, a, cs)

\* The copy that cJSON_Duplicate makes, which cJSON.h calls identical, is equal to what it was made of.
CopyIsEqual == \A cs \in BOOLEAN : cJSON_Compare(a, a, cs)
================================================================================
