----------------------------------- MODULE Dict -----------------------------------
(****************************************************************************)
(* The hash table in which the asynchronous client keeps the callbacks of   *)
(* subscriptions (dict.c): slots with chains of entries, a table that       *)
(* doubles when it is full, and an iterator under which the entry it has    *)
(* returned may be deleted.  A chain is the sequence of its entries.        *)
(****************************************************************************)
EXTENDS Integers, Sequences, SequencesExt, FiniteSets

CONSTANTS
    Key, Val, NoKey,
    Hash,          \* the hash of a key
    InitialSize    \* DICT_HT_INITIAL_SIZE, 4 in the code

DictAssumption == NoKey \notin Key /\ Hash \in [Key -> Nat] /\ InitialSize \in Nat \ {0}

VARIABLES
    table,         \* [0 .. size-1 -> chain]
    size, used,
    values,        \* how many duplicates of values are allocated
    keys,          \* how many keys the table owns
    iter,          \* the iterator: [index, nextEntry], index -2 when there is none
    visited,       \* the keys it has returned
    expected       \* the keys it should return

vars == <<table, size, used, values, keys, iter, visited, expected>>

None == [index |-> -2, nextEntry |-> NoKey]

\* sizemask: the size is a power of two times InitialSize.
Slot(k, n) == Hash[k] % n

Entries == FlattenSeq([i \in 1 .. size |-> table[i - 1]])

Position(chain, k) == {i \in DOMAIN chain : chain[i].key = k}

(* dictFind *)
Find(k) == IF size = 0 THEN {} ELSE Position(table[Slot(k, size)], k)

Content == [k \in {k \in Key : Find(k) # {}} |->
               LET i == CHOOSE i \in Find(k) : TRUE IN table[Slot(k, size)][i].val]

--------------------------------------------------------------------------------
Init ==
    /\ table = [i \in {} |-> <<>>] /\ size = 0 /\ used = 0
    /\ values = 0 /\ keys = 0
    /\ iter = None /\ visited = <<>> /\ expected = {}

(* dictExpand: every entry is put at the head of its chain in the new table. *)
Expanded(n) ==
    FoldLeft(LAMBDA t, he : [t EXCEPT ![Slot(he.key, n)] = <<he>> \o @],
             [i \in 0 .. n - 1 |-> <<>>], Entries)

(* _dictExpandIfNeeded and _dictNextPower *)
NewSize == IF size = 0 THEN InitialSize ELSE IF used = size THEN size * 2 ELSE size

ValuesAfterReplace == values + 1 - 1

(* dictReplace, with dictAdd and _dictKeyIndex: the table may grow although the
   key is there already, whose value is then replaced; the caller keeps his key. *)
Replace(k, v) ==
    /\ iter = None
    /\ LET n == NewSize
           grown == IF n = size THEN table ELSE Expanded(n)
           h == Slot(k, n)
           found == Position(grown[h], k)
       IN  /\ size' = n
           /\ IF found = {}
              THEN /\ table' = [grown EXCEPT ![h] = <<[key |-> k, val |-> v]>> \o @]
                   /\ used' = used + 1 /\ values' = values + 1 /\ keys' = keys + 1
              ELSE /\ table' = [grown EXCEPT ![h] = [i \in DOMAIN @ |->
                                    IF i \in found THEN [key |-> k, val |-> v] ELSE @[i]]]
                   /\ values' = ValuesAfterReplace
                   /\ UNCHANGED <<used, keys>>
    /\ UNCHANGED <<iter, visited, expected>>

\* Mutant: the chain is cut at the entry that is unlinked.
Unlink_Cut(chain, i) == SubSeq(chain, 1, i - 1)

Unlink(chain, i) == RemoveAt(chain, i)

(* dictDelete; while an iterator is open, of the entry it returned last. *)
Delete(k) ==
    /\ iter # None => visited # <<>> /\ Last(visited) = k
    /\ \E i \in Find(k) : table' = [table EXCEPT ![Slot(k, size)] = Unlink(@, i)]
    /\ used' = used - 1 /\ values' = values - 1 /\ keys' = keys - 1
    /\ UNCHANGED <<size, iter, visited, expected>>

(* _dictClear: entry by entry, while entries are left. *)
Clear ==
    /\ iter = None
    /\ used' = used - Len(Entries)
    /\ values' = values - Len(Entries) /\ keys' = keys - Len(Entries)
    /\ table' = [i \in {} |-> <<>>] /\ size' = 0
    /\ UNCHANGED <<iter, visited, expected>>

GetIterator ==
    /\ iter = None
    /\ iter' = [index |-> -1, nextEntry |-> NoKey]
    /\ visited' = <<>> /\ expected' = DOMAIN Content
    /\ UNCHANGED <<table, size, used, values, keys>>

\* The entry behind k in its chain.
Behind(k) ==
    LET chain == table[Slot(k, size)]
        i == CHOOSE i \in Position(chain, k) : TRUE
    IN  IF i = Len(chain) THEN NoKey ELSE chain[i + 1].key

SavedNext(k) == Behind(k)

(* dictNext: "We need to save the 'next' here, the iterator user may delete the
   entry we are returning."  At the end the iterator is released. *)
DictNext ==
    /\ iter # None
    /\ LET slots == {i \in iter.index + 1 .. size - 1 : table[i] # <<>>}
           index == CHOOSE i \in slots : \A j \in slots : i <= j
           Return(i, k) == /\ iter' = [index |-> i, nextEntry |-> SavedNext(k)]
                           /\ visited' = Append(visited, k)
       IN  IF iter.nextEntry # NoKey THEN Return(iter.index, iter.nextEntry)
           ELSE IF slots # {} THEN Return(index, table[index][1].key)
           ELSE iter' = None /\ UNCHANGED visited
    /\ UNCHANGED <<table, size, used, values, keys, expected>>

Next ==
    \/ \E k \in Key : Delete(k) \/ \E v \in Val : Replace(k, v)
    \/ Clear \/ GetIterator \/ DictNext

Spec == Init /\ [][Next]_vars

--------------------------------------------------------------------------------
(* The types of the state; the table is never fuller than one entry per slot. *)
TypeOK ==
    /\ size = 0 \/ \E e \in 0 .. Cardinality(Key) : size = InitialSize * 2 ^ e
    /\ DOMAIN table = 0 .. size - 1
    /\ \A i \in DOMAIN table : table[i] \in Seq([key : Key, val : Val])
    /\ used \in 0 .. size
    /\ iter.index \in -2 .. size

(* Every entry is in the chain of its hash, also after the table has grown, and
   no key has two entries. *)
EntriesWellPlaced ==
    /\ \A i \in DOMAIN table : \A he \in Range(table[i]) : Slot(he.key, size) = i
    /\ IsInjective([j \in DOMAIN Entries |-> Entries[j].key])

(* dictSize, on which the end of subscribed mode depends, is right, and just the
   keys and values in the table are allocated. *)
NothingLeaks == used = Len(Entries) /\ values = used /\ keys = used

(* An iteration returns every key once, also if the entry it returned is deleted
   before it goes on. *)
IterationComplete ==
    /\ IsInjective(visited) /\ Range(visited) \subseteq expected
    /\ iter = None => Range(visited) = expected

(* The table is a function from keys to values. *)
Map == INSTANCE KeyValueMap WITH map <- Content
IsMap == Map!Spec
================================================================================
