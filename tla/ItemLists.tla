-------------------------------- MODULE ItemLists --------------------------------
(* What arrays and objects of JSON items promise: each is a sequence of items,
   which grows at its end or where an item is inserted, and shrinks or changes
   at one place; an item is in one of them at most, and it comes and goes with
   all that is in it. *)
EXTENDS Naturals, Sequences, SequencesExt

CONSTANT Item
VARIABLE list      \* the members of every array and object, <<>> for anything else

Init == list = [n \in Item |-> <<>>]

Loose(i) == \A c \in Item : i \notin Range(list[c])

Put(c, i) == Loose(i) /\ list' = [list EXCEPT ![c] = Append(@, i)]
Insert(c, at, i) == Loose(i) /\ list' = [list EXCEPT ![c] = InsertAt(@, at, i)]
Detach(c, at) == list' = [list EXCEPT ![c] = RemoveAt(@, at)]

\* An item and all that is in it.
RECURSIVE Tree(_)
Tree(root) == {root} \union UNION {Tree(i) : i \in Range(list[root])}

Drop(root) ==
    list' = [c \in Item |-> IF c \in Tree(root) THEN <<>> ELSE SelectSeq(list[c], LAMBDA i : i # root)]

Exchange(c, at, i) ==
    /\ Loose(i)
    /\ LET gone == Tree(list[c][at]) IN
       list' = [n \in Item |-> IF n \in gone THEN <<>>
                               ELSE IF n = c THEN ReplaceAt(list[c], at, i) ELSE list[n]]

\* The lists that change are those of new items, and have new items in them.
Create ==
    \A c \in Item : list'[c] # list[c] =>
        \A n \in {c} \union Range(list'[c]) : Loose(n) /\ list[n] = <<>>

Next ==
    \/ Create
    \/ \E c, i \in Item : Put(c, i) \/ \E at \in 1 .. Len(list[c]) : Insert(c, at, i) \/ Exchange(c, at, i)
    \/ \E c \in Item : \E at \in 1 .. Len(list[c]) : Detach(c, at)
    \/ \E root \in Item : Drop(root)

Spec == Init /\ [][Next]_list
================================================================================
