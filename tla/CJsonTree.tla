--------------------------------- MODULE CJsonTree ---------------------------------
(****************************************************************************)
(* The JSON items of cJSON.c: arrays and objects are doubly linked lists of *)
(* items in the heap, items own their texts and names, references share     *)
(* what another item has, and a name may be a literal of the program.  The  *)
(* heap is small, so that memory runs out in every operation; of a name     *)
(* that cannot be allocated the program is not told.  What comes after a    *)
(* wrong use of the heap is undefined: the model stops there.               *)
(****************************************************************************)
EXTENDS Naturals, Sequences, SequencesExt

CONSTANTS
    Item,          \* the items that fit into the heap
    Block,         \* the strings that fit into the heap
    Name,          \* the names of members, as literals too
    Kind,          \* the kinds of items that the program creates
    Nil,           \* the null pointer
    lower          \* what tolower makes of a name

TreeAssumption ==
    /\ Nil \notin Item \union Block \union Name /\ Block \intersect Name = {}
    /\ Kind \subseteq {"number", "string", "array", "object"} /\ lower \in [Name -> Name]

VARIABLES
    heap,          \* items: the allocated items; strs: the allocated strings and what
                   \* they say; bad: what was freed though it was not allocated, and
                   \* Nil if it was read as a name
    held,          \* the items the program has in its hands and must add or delete
    lost,          \* the items whose addition failed without a sign
    leaked         \* the references whose addition did: nothing points at them

vars == <<heap, held, lost, leaked>>

Containers == {"array", "object"}

--------------------------------------------------------------------------------
(* The heap. *)

\* failed is of the model: the last attempt to give the item a name found no memory.
NewItem(kind) == [kind |-> kind, ref |-> FALSE, const |-> FALSE, child |-> Nil, next |-> Nil,
                  prev |-> Nil, text |-> Nil, key |-> Nil, failed |-> FALSE]

It(h, i) == h.items[i]
Live(h) == DOMAIN h.items
FreeItems(h) == Item \ Live(h)
FreeBlocks(h) == Block \ DOMAIN h.strs

\* cJSON_New_Item, where there is memory.  Which of the free addresses is taken makes no difference.
Allocated(h, i, item) == [h EXCEPT !.items = [k \in Live(h) \union {i} |-> IF k = i THEN item ELSE h.items[k]]]
AnItem(h) == CHOOSE i \in FreeItems(h) : TRUE

\* cJSON_strdup
Copied(h, b, what) == [h EXCEPT !.strs = [k \in DOMAIN h.strs \union {b} |-> IF k = b THEN what ELSE h.strs[k]]]
ABlock(h) == CHOOSE b \in FreeBlocks(h) : TRUE

FreedBlock(h, b) ==
    IF b \in DOMAIN h.strs THEN [h EXCEPT !.strs = [k \in DOMAIN h.strs \ {b} |-> h.strs[k]]]
    ELSE [h EXCEPT !.bad = @ \union {b}]
FreedItem(h, i) ==
    IF i \in Live(h) THEN [h EXCEPT !.items = [k \in Live(h) \ {i} |-> h.items[k]]]
    ELSE [h EXCEPT !.bad = @ \union {i}]

Said(h, key) == IF key \in DOMAIN h.strs THEN h.strs[key] ELSE key
NameOf(h, i) == Said(h, It(h, i).key)

\* The strings that go with an item, in the order they are freed.
StringsToFree(item) ==
    (IF ~item.ref /\ item.text # Nil THEN <<item.text>> ELSE <<>>)
    \o (IF ~item.const /\ item.key # Nil THEN <<item.key>> ELSE <<>>)

\* An item is deleted with those that follow it in its list and with what is in them.
RECURSIVE cJSON_Delete(_, _)
cJSON_Delete(h, i) ==
    IF i = Nil THEN h
    ELSE IF i \notin Live(h) THEN [h EXCEPT !.bad = @ \union {i}]
    ELSE LET item == It(h, i)
             h1 == IF ~item.ref THEN cJSON_Delete(h, item.child) ELSE h
             h2 == FoldLeft(FreedBlock, h1, StringsToFree(item))
         IN cJSON_Delete(FreedItem(h2, i), item.next)

\* The list that starts at an item.
RECURSIVE Chain(_, _)
Chain(h, i) == IF i = Nil \/ i \notin Live(h) THEN <<>> ELSE <<i>> \o Chain(h, It(h, i).next)

Members(h, c) == Chain(h, It(h, c).child)

\* All items that are reached from an item, its references followed or not.
RECURSIVE Reached(_, _, _)
Reached(h, i, refs) ==
    {i} \union UNION {Reached(h, m, refs) : m \in IF It(h, i).ref /\ ~refs THEN {} ELSE Range(Members(h, i))}

--------------------------------------------------------------------------------
(* Lists. *)

get_array_item(h, c, index) == IF index < Len(Members(h, c)) THEN Members(h, c)[index + 1] ELSE Nil

\* The first member of a name, the case of its letters told apart or not.
Fits(h, i, name, caseSensitive) ==
    /\ NameOf(h, i) # Nil
    /\ IF caseSensitive THEN NameOf(h, i) = name ELSE lower[NameOf(h, i)] = lower[name]
get_object_item(h, o, name, caseSensitive) ==
    LET at == {k \in DOMAIN Members(h, o) : Fits(h, Members(h, o)[k], name, caseSensitive)}
    IN IF at = {} THEN Nil ELSE Members(h, o)[CHOOSE k \in at : \A l \in at : k <= l]

\* strcmp gets the null pointer of a member without a name.
ReadsNil(h, o, name, caseSensitive) ==
    /\ caseSensitive
    /\ \E k \in DOMAIN Members(h, o) :
          /\ NameOf(h, Members(h, o)[k]) = Nil
          /\ \A l \in 1 .. k - 1 : ~Fits(h, Members(h, o)[l], name, caseSensitive)

Set(h, i, field, value) == IF i = Nil THEN h ELSE [h EXCEPT !.items[i][field] = value]

suffix_object(h, prev, i) == Set(Set(h, prev, "next", i), i, "prev", prev)

AddItemToArray(h, c, i) ==
    IF It(h, c).child = Nil THEN Set(h, c, "child", i) ELSE suffix_object(h, Last(Members(h, c)), i)

DetachItemViaPointer(h, c, i) ==
    LET item == It(h, i)
        h1 == Set(h, item.prev, "next", item.next)
        h2 == Set(h1, item.next, "prev", item.prev)
        h3 == IF It(h2, c).child = i THEN Set(h2, c, "child", item.next) ELSE h2
    IN Set(Set(h3, i, "prev", Nil), i, "next", Nil)

InsertItemInArray(h, c, which, i) ==
    LET after == get_array_item(h, c, which)
        h1 == Set(Set(Set(h, i, "next", after), i, "prev", It(h, after).prev), after, "prev", i)
    IN IF after = Nil THEN AddItemToArray(h, c, i)
       ELSE IF after = It(h, c).child THEN Set(h1, c, "child", i)
       ELSE Set(h1, It(h1, i).prev, "next", i)

\* Mutant: the item is deleted with the pointers into the list it was in.
ReplacedItem_Linked(h, i) == cJSON_Delete(h, i)

\* The item that was replaced goes, and it only.
ReplacedItem(h, i) == cJSON_Delete(Set(Set(h, i, "next", Nil), i, "prev", Nil), i)

ReplaceItemViaPointer(h, c, i, by) ==
    LET h1 == Set(Set(h, by, "next", It(h, i).next), by, "prev", It(h, i).prev)
        h2 == Set(Set(h1, It(h, i).next, "prev", by), It(h, i).prev, "next", by)
        h3 == IF It(h2, c).child = i THEN Set(h2, c, "child", by) ELSE h2
    IN IF by = i THEN h ELSE ReplacedItem(h3, i)

\* The name an item has is freed unless it is a literal.
WithoutName(h, i) == IF ~It(h, i).const /\ It(h, i).key # Nil THEN FreedBlock(h, It(h, i).key) ELSE h

AddItemToObjectCS(h, o, key, i) ==
    IF key = Nil THEN h
    ELSE LET h1 == Set(Set(WithoutName(h, i), i, "key", key), i, "const", TRUE)
         IN AddItemToArray(Set(h1, i, "failed", FALSE), o, i)

\* Without memory for the name the item is not added, but the flag of its old name goes.
AddItemToObject(h, o, name, i) ==
    LET b == IF FreeBlocks(h) = {} THEN Nil ELSE ABlock(h)
        h1 == IF b = Nil THEN Set(h, i, "failed", TRUE) ELSE Copied(h, b, name)
    IN Set(AddItemToObjectCS(h1, o, b, i), i, "const", FALSE)

\* The name of the replacement is freed before the new one is allocated, and it is put in
\* place without one if that fails.
replace_item_in_object(h, o, name, by, caseSensitive) ==
    LET h1 == WithoutName(h, by)
        b == IF FreeBlocks(h1) = {} THEN Nil ELSE ABlock(h1)
        h2 == IF b = Nil THEN h1 ELSE Copied(h1, b, name)
        h3 == Set(Set(Set(h2, by, "key", b), by, "const", FALSE), by, "failed", b = Nil)
    IN IF ReadsNil(h3, o, name, caseSensitive) THEN [h3 EXCEPT !.bad = @ \union {Nil}]
       ELSE ReplaceItemViaPointer(h3, o, get_object_item(h3, o, name, caseSensitive), by)

\* What create_reference makes of the copy of an item.
Reference(item) == [item EXCEPT !.key = Nil, !.ref = TRUE, !.next = Nil, !.prev = Nil, !.failed = FALSE]

--------------------------------------------------------------------------------
(* cJSON_Duplicate: [h, i], i being Nil when the memory did not suffice. *)

Failed(h, i) == [h |-> cJSON_Delete(h, i), i |-> Nil]

\* A string of the item is copied into the given field; a literal is taken as it is.
StringCopied(r, item, field) ==
    IF r.i = Nil \/ item[field] = Nil THEN r
    ELSE IF field = "key" /\ item.const THEN [r EXCEPT !.h = Set(r.h, r.i, "key", item.key)]
    ELSE IF FreeBlocks(r.h) = {} THEN Failed(r.h, r.i)
    ELSE LET b == ABlock(r.h)
         IN [r EXCEPT !.h = Set(Copied(r.h, b, Said(r.h, item[field])), r.i, field, b)]

RECURSIVE Duplicate(_, _, _)
Duplicate(h, i, recurse) ==
    IF FreeItems(h) = {} THEN [h |-> h, i |-> Nil]
    ELSE LET item == It(h, i)
             n == AnItem(h)
             copy == [NewItem(item.kind) EXCEPT !.const = item.const, !.failed = item.failed /\ item.key = Nil]
             r0 == [h |-> Allocated(h, n, copy), i |-> n]
             r1 == StringCopied(StringCopied(r0, item, "text"), item, "key")
             \* one member more, behind the last
             Step(r, m) ==
                IF r.i = Nil THEN r
                ELSE LET d == Duplicate(r.h, m, TRUE)
                     IN IF d.i = Nil THEN Failed(d.h, r.i) ELSE [r EXCEPT !.h = AddItemToArray(d.h, r.i, d.i)]
         IN IF ~recurse THEN r1 ELSE FoldLeft(Step, r1, Members(h, i))

--------------------------------------------------------------------------------
(* What the program calls.  It holds to these rules, without which no list     *)
(* stays one: an item is added to one list, and not below itself; what a       *)
(* reference shares is neither deleted nor cut off before the reference.       *)

Own == UNION {Reached(heap, i, FALSE) : i \in held}
IsContainer(c) == It(heap, c).kind \in Containers /\ ~It(heap, c).ref /\ c \in Own
IsArray(c) == It(heap, c).kind = "array" /\ IsContainer(c)
IsObject(o) == It(heap, o).kind = "object" /\ IsContainer(o)

\* The items the program can come by.
Known(h) == Live(h) \ leaked

\* The items a reference to which is known, outside of some items.
Shared(gone) == \E r \in Known(heap) \ gone : LET item == It(heap, r) IN
    item.ref /\ \/ item.child \in gone
                \/ item.text # Nil /\ \E g \in gone : It(heap, g).text = item.text /\ ~It(heap, g).ref
ListShared(c) == \E r \in Known(heap) \ {c} : It(heap, r).child # Nil /\ It(heap, r).child = It(heap, c).child

\* Nothing that is in x, or that a reference in it shares, is in the list of c or c itself.
Apart(c, x) == LET below == UNION {Reached(heap, m, TRUE) : m \in Range(Members(heap, x))} IN
    c \notin {x} \union below /\ below \intersect Range(Members(heap, c)) = {}

CanAdd(c, i) == i \in held /\ Apart(c, i)

\* The program deletes a tree.
Delete(i) ==
    /\ i \in held /\ ~Shared(Reached(heap, i, FALSE))
    /\ heap' = cJSON_Delete(heap, i) /\ held' = held \ {i} /\ UNCHANGED <<lost, leaked>>

\* An item of its own, [h, i]; when its text cannot be allocated it is deleted again.
Created(h, kind) ==
    IF FreeItems(h) = {} THEN [h |-> h, i |-> Nil]
    ELSE LET i == AnItem(h)
             h1 == Allocated(h, i, NewItem(kind))
         IN IF kind # "string" THEN [h |-> h1, i |-> i]
            ELSE IF FreeBlocks(h) = {} THEN Failed(h1, i)
            ELSE [h |-> Set(Copied(h1, ABlock(h), "text"), i, "text", ABlock(h)), i |-> i]

Returned(r) == heap' = r.h /\ held' = held \union ({r.i} \ {Nil}) /\ UNCHANGED <<lost, leaked>>

Create(kind) == Returned(Created(heap, kind))

\* cJSON_CreateIntArray, cJSON_CreateStringArray and the like; without memory for one the array is deleted.
CreateArray(kind, count) ==
    LET Step(r, k) == IF r.i = Nil THEN r
                      ELSE LET n == Created(r.h, kind)
                           IN IF n.i = Nil THEN Failed(n.h, r.i) ELSE [r EXCEPT !.h = AddItemToArray(n.h, r.i, n.i)]
    IN Returned(FoldLeft(Step, Created(heap, "array"), [k \in 1 .. count |-> k]))

AddToArray(c, i) ==
    /\ CanAdd(c, i) /\ IsArray(c)
    /\ heap' = AddItemToArray(heap, c, i) /\ held' = held \ {i} /\ UNCHANGED <<lost, leaked>>

\* The program is not told that the name could not be allocated.
AddToObject(o, name, i) ==
    /\ CanAdd(o, i) /\ IsObject(o)
    /\ heap' = AddItemToObject(heap, o, name, i) /\ held' = held \ {i}
    /\ lost' = IF FreeBlocks(heap) = {} THEN lost \union {i} ELSE lost
    /\ UNCHANGED leaked

\* It finds out by looking for the name, and has the item in its hands again.
FindLost(i) == i \in lost /\ held' = held \union {i} /\ lost' = lost \ {i} /\ UNCHANGED <<heap, leaked>>

AddToObjectCS(o, literal, i) ==
    /\ CanAdd(o, i) /\ IsObject(o)
    /\ heap' = AddItemToObjectCS(heap, o, literal, i) /\ held' = held \ {i} /\ UNCHANGED <<lost, leaked>>

create_reference(x) ==
    IF FreeItems(heap) = {} THEN [h |-> heap, i |-> Nil]
    ELSE [h |-> Allocated(heap, AnItem(heap), Reference(It(heap, x))), i |-> AnItem(heap)]

\* Without memory for the reference nothing happens.
AddReferenceToArray(c, x) ==
    /\ IsArray(c) /\ x \in Own /\ Apart(c, x)
    /\ LET r == create_reference(x) IN
       heap' = IF r.i = Nil THEN heap ELSE AddItemToArray(r.h, c, r.i)
    /\ UNCHANGED <<held, lost, leaked>>

\* Without memory for its name only, the reference is in no list and in nobody's hands.
AddReferenceToObject(o, name, x) ==
    /\ IsObject(o) /\ x \in Own /\ Apart(o, x)
    /\ LET r == create_reference(x) IN
       /\ heap' = IF r.i = Nil THEN heap ELSE AddItemToObject(r.h, o, name, r.i)
       /\ leaked' = IF FreeBlocks(heap) = {} THEN leaked \union ({r.i} \ {Nil}) ELSE leaked
    /\ UNCHANGED <<held, lost>>

\* A member is taken out, and deleted or not; the first of a shared list stays.
TakeOut(c, i, delete) ==
    LET h == DetachItemViaPointer(heap, c, i) IN
    /\ i # Nil /\ (i = It(heap, c).child => ~ListShared(c))
    /\ delete => ~Shared(Reached(heap, i, FALSE))
    /\ heap' = IF delete THEN cJSON_Delete(h, i) ELSE h
    /\ held' = IF delete THEN held ELSE held \union {i}
    /\ UNCHANGED <<lost, leaked>>

TakeFromArray(c, which, delete) == IsContainer(c) /\ TakeOut(c, get_array_item(heap, c, which), delete)
TakeFromObject(o, name, caseSensitive, delete) ==
    /\ IsObject(o) /\ ~ReadsNil(heap, o, name, caseSensitive)
    /\ TakeOut(o, get_object_item(heap, o, name, caseSensitive), delete)

\* Any look-up by name (cJSON_GetObjectItemCaseSensitive) may end the program.
LookUpFails(o, name) ==
    /\ IsObject(o) /\ ReadsNil(heap, o, name, TRUE)
    /\ heap' = [heap EXCEPT !.bad = {Nil}]
    /\ UNCHANGED <<held, lost, leaked>>

InsertInArray(c, which, i) ==
    /\ CanAdd(c, i) /\ IsArray(c) /\ ~ListShared(c)
    /\ heap' = InsertItemInArray(heap, c, which, i) /\ held' = held \ {i} /\ UNCHANGED <<lost, leaked>>

CanReplace(c, i, by) ==
    /\ i # Nil /\ CanAdd(c, by) /\ ~Shared(Reached(heap, i, FALSE))
    /\ held' = held \ {by} /\ UNCHANGED <<lost, leaked>>

ReplaceInArray(c, which, by) ==
    LET i == get_array_item(heap, c, which) IN
    by \in held /\ IsArray(c) /\ CanReplace(c, i, by) /\ heap' = ReplaceItemViaPointer(heap, c, i, by)

ReplaceInObject(o, name, by, caseSensitive) ==
    /\ by \in held /\ IsObject(o)
    /\ CanReplace(o, get_object_item(heap, o, name, caseSensitive), by)
    /\ heap' = replace_item_in_object(heap, o, name, by, caseSensitive)

DuplicateItem(i, recurse) == i \in Own /\ Returned(Duplicate(heap, i, recurse))

Init ==
    /\ heap = [items |-> [i \in {} |-> NewItem("array")], strs |-> [b \in {} |-> "text"], bad |-> {}]
    /\ held = {} /\ lost = {} /\ leaked = {}

Call ==
    \/ \E kind \in Kind : Create(kind)
    \/ \E kind \in Kind \ Containers : CreateArray(kind, 2)
    \/ \E i \in Item : Delete(i) \/ FindLost(i)
    \/ \E c, i \in Live(heap) :
        \/ AddToArray(c, i) \/ AddReferenceToArray(c, i)
        \/ \E name \in Name : AddToObject(c, name, i) \/ AddToObjectCS(c, name, i) \/ AddReferenceToObject(c, name, i)
        \/ \E which \in 0 .. 2 : InsertInArray(c, which, i) \/ ReplaceInArray(c, which, i)
        \/ \E name \in Name, cs \in BOOLEAN : ReplaceInObject(c, name, i, cs)
    \/ \E c \in Live(heap), delete \in BOOLEAN :
        \/ \E which \in 0 .. 2 : TakeFromArray(c, which, delete)
        \/ \E name \in Name, cs \in BOOLEAN : TakeFromObject(c, name, cs, delete)
    \/ \E o \in Live(heap), name \in Name : LookUpFails(o, name)
    \/ \E i \in Item, recurse \in BOOLEAN : DuplicateItem(i, recurse)

Next == heap.bad = {} /\ Call

Spec == Init /\ [][Next]_vars

--------------------------------------------------------------------------------
(* What holds. *)

\* The heap holds items and strings within its bounds.
TypeOK ==
    /\ Live(heap) \subseteq Item /\ DOMAIN heap.strs \subseteq Block /\ held \union lost \union leaked \subseteq Item
    /\ \A i \in Live(heap) : LET item == It(heap, i) IN
          /\ item.kind \in Kind \union {"array"} /\ {item.ref, item.const, item.failed} \subseteq BOOLEAN
          /\ {item.child, item.next, item.prev} \subseteq Item \union {Nil}
          /\ item.text \in Block \union {Nil} /\ item.key \in Block \union Name \union {Nil}

\* However the lists were changed (cJSON_DetachItemViaPointer, cJSON_InsertItemInArray,
\* cJSON_ReplaceItemViaPointer), going back in one is the reverse of going forth; an
\* item that the program holds is in none.
ListsLinked ==
    /\ \A i \in Live(heap), j \in Live(heap) : It(heap, i).next = j <=> It(heap, j).prev = i
    /\ \A c \in Known(heap) : It(heap, c).child # Nil => It(heap, It(heap, c).child).prev = Nil
    /\ \A i \in held : It(heap, i).next = Nil /\ It(heap, i).prev = Nil

OwnedStrings(i) ==
    ((IF It(heap, i).ref THEN {} ELSE {It(heap, i).text})
     \union (IF It(heap, i).const THEN {} ELSE {It(heap, i).key})) \intersect Block

\* Whatever fails for want of memory on the way (cJSON_Duplicate, cJSON_CreateIntArray),
\* every item is in a tree of the program's, but for the references whose name could not
\* be allocated (cJSON_AddItemReferenceToObject), and every string belongs to one item.
NothingLeaks ==
    /\ Live(heap) = Own \union UNION {Reached(heap, i, FALSE) : i \in lost} \union leaked
    /\ \A i \in leaked : It(heap, i).ref /\ It(heap, i).failed
    /\ \A b \in DOMAIN heap.strs : \E i \in Live(heap) : b \in OwnedStrings(i)
    /\ \A i \in Live(heap) : \A j \in Live(heap) \ {i} : OwnedStrings(i) \intersect OwnedStrings(j) = {}

\* A name that is not the item's own is marked as a literal, and a member of an object has
\* a name, unless the memory for the last name the item was to get was missing.
NamesAreMarked ==
    /\ \A i \in Live(heap) : It(heap, i).key \in Name => It(heap, i).const \/ It(heap, i).failed
    /\ \A o \in Known(heap) : It(heap, o).kind = "object" =>
          \A m \in Range(Members(heap, o)) : It(heap, m).key = Nil => It(heap, m).failed

\* No item and no string is freed twice, and a literal is freed, or a missing name read,
\* only after the memory for a name of that item was missing (cJSON_Delete with the flags
\* cJSON_IsReference and cJSON_StringIsConst, cJSON_AddItemToObject,
\* cJSON_ReplaceItemInObject).
FreesAreFounded ==
    /\ heap.bad \subseteq Name \union {Nil}
    /\ NamesAreMarked

\* What an item that is known points at is allocated.
NothingDangles ==
    \A i \in Known(heap) : LET item == It(heap, i) IN
        /\ {item.child, item.next, item.prev} \subseteq Live(heap) \union {Nil}
        /\ {item.text, item.key} \subseteq DOMAIN heap.strs \union Name \union {Nil}

\* The lists as sequences of items.
Sequences == [n \in Item |-> IF n \in Live(heap) /\ ~It(heap, n).ref THEN Members(heap, n) ELSE <<>>]
================================================================================
