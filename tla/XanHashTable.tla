----------------------------- MODULE XanHashTable -----------------------------
(***************************************************************************)
(* The hash tables of xanlib (xantable.c): an array of buckets, each the   *)
(* head of a chain, that is rebuilt with the next prime length when three  *)
(* quarters of its buckets are in use.  A key may be inserted several      *)
(* times; lookups answer with its oldest element.                          *)
(*                                                                         *)
(* A chain is a sequence of items.  Its first item lives in the bucket     *)
(* itself; the order of a chain is the order of its next pointers.  The    *)
(* load factor, a float to which 1/length is added and from which it is    *)
(* subtracted, is kept as the number of buckets it counts: the model does  *)
(* not round.  Tables do not have a fixed length.                          *)
(***************************************************************************)
EXTENDS Naturals, FiniteSets, SequencesExt, FiniteSetsExt

CONSTANTS
  Keys, Elements,
  Hash,     (* the improved hash of a key                         *)
  Primes,   (* the first lengths of a table                       *)
  MaxSize   (* bound: the pairs in a table                        *)

TableAssumption ==
  /\ IsFiniteSet(Keys) /\ Hash \in [Keys -> Nat]
  /\ Primes \in Seq(Nat \ {0}) \ {<<>>} /\ MaxSize \in Nat

VARIABLES
  table,    \* XanHashTable: primeIndex, table, size, currentLoadFactor
  inserted  \* history: for each key, the elements it should have, oldest first

tableVars == <<table, inserted>>

-----------------------------------------------------------------------------
(* Operations on a table t.                                                *)

Length(p) == Primes[p]

EmptyTable(p) ==
  [primeIndex |-> p, table |-> [b \in 0 .. Length(p) - 1 |-> <<>>],
   size |-> 0, used |-> 0]

BucketOf(t, k) == Hash[k] % Length(t.primeIndex)

\* Mutant: right after the head of the chain.
Link_AfterHead(t, item) ==
  LET b == BucketOf(t, item.key)
  IN [t EXCEPT !.table[b] = IF @ = <<>> THEN <<item>> ELSE <<Head(@), item>> \o Tail(@),
               !.used = IF t.table[b] = <<>> THEN @ + 1 ELSE @]

\* The end of the chain; the bucket's use counts when the chain was empty.
Link(t, item) ==
  LET b == BucketOf(t, item.key)
  IN [t EXCEPT !.table[b] = Append(@, item),
               !.used = IF t.table[b] = <<>> THEN @ + 1 ELSE @]

Used(t) == {b \in DOMAIN t.table : t.table[b] # <<>>}

\* The buckets in order, each from its head to the end of its chain.
AllItems(t) ==
  FlattenSeq([n \in 1 .. Length(t.primeIndex) |-> t.table[n - 1]])

Expand(t) ==
  [FoldLeft(Link, EmptyTable(t.primeIndex + 1), AllItems(t)) EXCEPT !.size = t.size]

IsFull(t) == 4 * t.used >= 3 * Length(t.primeIndex)

InsertPair(t, k, e) ==
  [Link(IF IsFull(t) THEN Expand(t) ELSE t, [key |-> k, element |-> e])
     EXCEPT !.size = @ + 1]

\* The place in its chain of the first item that satisfies the lookup, or 0.
PlaceOf(t, k) == SelectInSeq(t.table[BucketOf(t, k)], LAMBDA i : i.key = k)
PlaceOfPair(t, k, e) ==
  SelectInSeq(t.table[BucketOf(t, k)], LAMBDA i : i = [key |-> k, element |-> e])

ReplaceElement(t, k, e) ==
  IF PlaceOf(t, k) = 0 THEN t
  ELSE [t EXCEPT !.table[BucketOf(t, k)][PlaceOf(t, k)].element = e]

(***************************************************************************)
(* The n-th item of a chain leaves it.  When it is the bucket itself the   *)
(* second item is copied into the bucket and freed; only when there is no  *)
(* second one does the bucket become unused.                               *)
(***************************************************************************)
Unlink(t, b, n) ==
  [t EXCEPT !.table[b] = RemoveAt(@, n),
            !.used = IF Len(t.table[b]) = 1 THEN @ - 1 ELSE @,
            !.size = @ - 1]

\* The iteration of clients: an item knows its bucket and its successor.
NoItem == [bucket |-> 0, place |-> 0]

FirstOf(t, buckets) ==
  IF buckets \cap Used(t) = {} THEN NoItem
  ELSE [bucket |-> Min(buckets \cap Used(t)), place |-> 1]

First(t) == FirstOf(t, DOMAIN t.table)

Following(t, i) ==
  IF i.place < Len(t.table[i.bucket]) THEN [i EXCEPT !.place = @ + 1]
  ELSE FirstOf(t, {b \in DOMAIN t.table : b > i.bucket})

FirstBucket(t) == First(t).bucket

\* What a client meets from the first item on, until there is none.
Met(t) ==
  FoldLeft(LAMBDA m, n :
             IF m.at = NoItem THEN m
             ELSE [at |-> Following(t, m.at),
                   items |-> Append(m.items, t.table[m.at.bucket][m.at.place])],
           [at |-> First(t), items |-> <<>>], [n \in 1 .. t.size + 1 |-> n])

\* Lists of keys, elements, slots or items: each goes to the front.
Listed(t) == FoldLeft(LAMBDA list, i : <<i>> \o list, <<>>, AllItems(t))

\* Arrays of keys or elements, of `size' slots that malloc does not clear.
Arrayed(t) ==
  FoldLeft(LAMBDA a, i : [a EXCEPT !.slots[a.index] = i, !.index = @ + 1],
           [slots |-> [n \in 0 .. t.size - 1 |-> NoItem], index |-> 0], AllItems(t))

\* MemoryAllocator: the first item is taken out until there is none.
Drain(t) ==
  FoldLeft(LAMBDA d, n : [table |-> Unlink(d.table, FirstBucket(d.table), 1),
                          freed |-> Append(d.freed, d.table.table[FirstBucket(d.table)][1])],
           [table |-> t, freed |-> <<>>], [n \in 1 .. t.size |-> n])

\* The clone is as long as the smallest prime above the table's length.
CloneOf(t) ==
  FoldLeft(LAMBDA c, i : InsertPair(c, i.key, i.element),
           EmptyTable(t.primeIndex + 1), AllItems(t))

Room(t) == t.size < MaxSize /\ (IsFull(t) => t.primeIndex < Len(Primes))

InsertedAll(t, list) == FoldLeft(LAMBDA u, d : InsertPair(u, d, d), t, list)

RemovedKey(t, k) == Unlink(t, BucketOf(t, k), PlaceOf(t, k))
RemovedAll(t, keys) == FoldLeft(RemovedKey, t, keys)

ElementsOf(t, k) ==
  LET found == SelectSeq(t.table[BucketOf(t, k)], LAMBDA i : i.key = k)
  IN [n \in DOMAIN found |-> found[n].element]

-----------------------------------------------------------------------------
Init ==
  /\ table = EmptyTable(1)
  /\ inserted = [k \in Keys |-> <<>>]

Insert(k, e) ==
  /\ Room(table)
  /\ table' = InsertPair(table, k, e)
  /\ inserted' = [inserted EXCEPT ![k] = Append(@, e)]

Replace(k, e) ==
  /\ table' = ReplaceElement(table, k, e)
  /\ inserted' = [inserted EXCEPT ![k] = IF @ = <<>> THEN @ ELSE [@ EXCEPT ![1] = e]]

\* The program ends when the key is not in the table.
RemoveElement(k) ==
  /\ PlaceOf(table, k) # 0
  /\ table' = RemovedKey(table, k)
  /\ inserted' = [inserted EXCEPT ![k] = Tail(@)]

\* Each datum of a list is its own key.
AddList(list) ==
  /\ \A n \in DOMAIN list : Room(InsertedAll(table, SubSeq(list, 1, n - 1)))
  /\ table' = InsertedAll(table, list)
  /\ inserted' = [k \in Keys |-> inserted[k] \o SelectSeq(list, LAMBDA d : d = k)]

\* The program ends at the first key that is not in the table any more.
RemoveElements(keys) ==
  /\ \A n \in DOMAIN keys : PlaceOf(RemovedAll(table, SubSeq(keys, 1, n - 1)), keys[n]) # 0
  /\ table' = RemovedAll(table, keys)
  /\ inserted' = [k \in Keys |->
       LET removed == Len(SelectSeq(keys, LAMBDA d : d = k))
       IN SubSeq(inserted[k], removed + 1, Len(inserted[k]))]

RemoveElementKeyPair(k, e) ==
  /\ PlaceOfPair(table, k, e) # 0
  /\ table' = Unlink(table, BucketOf(table, k), PlaceOfPair(table, k, e))
  /\ inserted' = [inserted EXCEPT ![k] = RemoveFirst(@, e)]

\* The n-th item of bucket b, which a lookup or an iteration gave the client.
RemoveItem(b, n) ==
  LET item == table.table[b][n]
  IN /\ table' = Unlink(table, b, n)
     /\ inserted' = [inserted EXCEPT ![item.key] =
          RemoveAt(@, Len(SelectSeq(SubSeq(table.table[b], 1, n),
                                    LAMBDA i : i.key = item.key)))]

EmptyOutTable ==
  /\ table' = EmptyTable(table.primeIndex)
  /\ inserted' = [k \in Keys |-> <<>>]

\* With or without its keys and elements; the client makes a new table.
DestroyTable ==
  /\ table' = EmptyTable(1)
  /\ inserted' = [k \in Keys |-> <<>>]

\* The client goes on with the clone, and destroys the table.
CloneTable ==
  /\ table.primeIndex < Len(Primes)
  /\ table' = CloneOf(table)
  /\ UNCHANGED inserted

Next ==
  \/ \E k \in Keys, e \in Elements :
       Insert(k, e) \/ Replace(k, e) \/ RemoveElementKeyPair(k, e)
  \/ \E k \in Keys : RemoveElement(k)
  \/ \E b \in DOMAIN table.table : \E n \in DOMAIN table.table[b] : RemoveItem(b, n)
  \/ \E list \in BoundedSeq(Keys \cap Elements, 2) : AddList(list)
  \/ \E keys \in BoundedSeq(Keys, 2) : RemoveElements(keys)
  \/ EmptyOutTable \/ DestroyTable
  \/ CloneTable

Spec == Init /\ [][Next]_tableVars

-----------------------------------------------------------------------------
(***************************************************************************)
(* Whatever was inserted, removed and moved by expansions, a lookup of a   *)
(* key finds exactly the elements it should have, the oldest first.        *)
(***************************************************************************)
LookupsFind == \A k \in Keys : ElementsOf(table, k) = inserted[k]

\* A listing of the table has every entry it should have, once.
ListsInserted(items) ==
  /\ Len(items) = table.size
  /\ \A k \in Keys :
       SelectSeq(items, LAMBDA i : i.key = k)
         = [n \in DOMAIN inserted[k] |-> [key |-> k, element |-> inserted[k][n]]]

(***************************************************************************)
(* The size and the load factor count the items and the used buckets, so   *)
(* that the table grows when it should.  Iterating from the first item on, *)
(* taking out the first item until the table says it is empty, and the     *)
(* lists and arrays of its items each meet every item once: the callers    *)
(* that free the elements so free each of them, once, and no slot of an    *)
(* array stays unset.                                                      *)
(***************************************************************************)
CountsExact ==
  LET t == table
      drained == Drain(t)
      array == Arrayed(t)
  IN /\ t.used = Cardinality(Used(t))
     /\ 4 * t.used < 3 * Length(t.primeIndex) + 4
     /\ drained.table = EmptyTable(t.primeIndex)
     /\ array.index = t.size
     /\ \A items \in {Met(t).items, drained.freed, Reverse(Listed(t)),
                      [n \in 1 .. t.size |-> array.slots[n - 1]]} : ListsInserted(items)
     /\ Met(t).at = NoItem
=============================================================================
