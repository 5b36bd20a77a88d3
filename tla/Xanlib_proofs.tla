----------------------------- MODULE Xanlib_proofs -----------------------------
(***************************************************************************)
(* The containers of xanlib.                                               *)
(*                                                                         *)
(* The heap of XanQueue is in order after every call, whatever the handles *)
(* and the priorities are, and no thread of XanQueueSync sleeps next to an *)
(* item.                                                                   *)
(*                                                                         *)
(* Then the other container that is an array of words, the bit set: it is  *)
(* the set of the bits that its client put there, for any size of a word   *)
(* and any length, and the ranges that are written for it are its maximal  *)
(* runs.  The invariant is that no bit beyond the length is set, not even  *)
(* in the last word, so that a set that grows uncovers clear bits.         *)
(*                                                                         *)
(* Then the synchronised calls of all the containers: they exclude each    *)
(* other, and wait in a circle only where one of them takes its mutexes    *)
(* out of order, for any number of threads and of containers.  Exclusion   *)
(* is not inductive: a call that is working excludes the others because it *)
(* holds the mutex, and it holds it because it locked it before and has    *)
(* not unlocked it.  The inductive invariant says of every call how far it *)
(* is, that it holds no mutex twice, and that the mutexes it has locked    *)
(* are those whose holder it is.                                           *)
(*                                                                         *)
(* Then the pipe, whose calls do more than lock and unlock: no wakeup is   *)
(* lost in a pipe to which data are only put in the usual way, for any     *)
(* number of threads and data.                                             *)
(*                                                                         *)
(* Last the graph, whose edges are in three tables each: they agree,       *)
(* whatever nodes and edges there are.                                     *)
(***************************************************************************)
EXTENDS XanQueueSync, SequenceTheorems, FiniteSetTheorems, WellFoundedInduction, TLAPS

CONSTANTS Sets, Word, MaxLength
VARIABLES bitSet, members

B == INSTANCE XanBitSet

-----------------------------------------------------------------------------
(* The invariant.                                                          *)

Parent(x) == (x - 1) \div 2

Slots(q) == Len(q.items)

Items == [priority : Priorities, position : Nat]

\* The types of the queue with its items.
IsQueue(q) ==
  /\ q = [items |-> q.items, size |-> q.size, handle |-> q.handle]
  /\ q.items \in Seq(Handles \cup {NULL})
  /\ \E n \in 0 .. Len(q.items) : Len(q.items) = 2 * n + 1
  /\ q.size \in 0 .. Len(q.items)
  /\ DOMAIN q.handle \subseteq Handles
  /\ q.handle \in [DOMAIN q.handle -> Items]

(***************************************************************************)
(* The array holds the allocated items and nothing beyond them, each where *)
(* it says that it is.  The number of slots is odd, so that the right      *)
(* child that heapShiftDown looks at is within the array.                  *)
(***************************************************************************)
Placed(q) ==
  /\ \A p \in 0 .. q.size - 1 :
       At(q, p) \in DOMAIN q.handle /\ q.handle[At(q, p)].position = p
  /\ \A p \in q.size .. Len(q.items) - 1 : At(q, p) = NULL
  /\ \A h \in DOMAIN q.handle :
       q.handle[h].position < q.size /\ At(q, q.handle[h].position) = h

Sound(q) == IsQueue(q) /\ Placed(q)

Ordered(q, x) == PriorityAt(q, x) <= PriorityAt(q, Parent(x))

Heap(q) == \A x \in 1 .. q.size - 1 : Ordered(q, x)

(***************************************************************************)
(* In order but for the item at p, which may have to rise or to sink: what *)
(* is below p is in order with what is above it.                           *)
(***************************************************************************)
HeapBut(q, p) ==
  /\ p \in 0 .. q.size - 1
  /\ \A x \in 1 .. q.size - 1 : x # p /\ Parent(x) # p => Ordered(q, x)
  /\ p # 0 => \A x \in 1 .. q.size - 1 :
                Parent(x) = p => PriorityAt(q, x) <= PriorityAt(q, Parent(p))

\* The same items with the same priorities.
SameItems(q, r) ==
  /\ r.size = q.size /\ DOMAIN r.handle = DOMAIN q.handle
  /\ \A h \in DOMAIN q.handle : r.handle[h].priority = q.handle[h].priority

-----------------------------------------------------------------------------
(* One swap.                                                               *)

LEMMA SoundFacts ==
  ASSUME QueueAssumption, NEW q, Sound(q), NEW p \in 0 .. q.size - 1
  PROVE  /\ q.size \in Nat /\ Len(q.items) \in Nat /\ p \in Nat /\ p + 1 \in 1 .. Len(q.items)
         /\ At(q, p) \in DOMAIN q.handle /\ At(q, p) \in Handles /\ At(q, p) # NULL
         /\ q.handle[At(q, p)].position = p
         /\ PriorityAt(q, p) \in Int /\ PriorityAt(q, p) \in Priorities
<1>1. q.size \in Nat /\ Len(q.items) \in Nat /\ p \in Nat /\ p + 1 \in 1 .. Len(q.items)
  BY DEF Sound, IsQueue
<1>2. /\ At(q, p) \in DOMAIN q.handle /\ q.handle[At(q, p)].position = p
      /\ DOMAIN q.handle \subseteq Handles
  BY DEF Sound, IsQueue, Placed
<1>3. q.handle[At(q, p)] \in Items
  BY <1>2 DEF Sound, IsQueue
<1>4. PriorityAt(q, p) \in Priorities
  BY <1>3 DEF PriorityAt, Items
<1>5. QED
  BY <1>1, <1>2, <1>4 DEF QueueAssumption

LEMMA SwapFacts ==
  ASSUME QueueAssumption, NEW q, Sound(q), NEW a \in 0 .. q.size - 1,
         NEW b \in 0 .. q.size - 1, a # b
  PROVE  LET r == Swap(q, a, b)
         IN /\ Sound(r) /\ SameItems(q, r)
            /\ PriorityAt(r, a) = PriorityAt(q, b) /\ PriorityAt(r, b) = PriorityAt(q, a)
            /\ At(r, b) = At(q, a) /\ At(r, a) = At(q, b)
            /\ Len(r.items) = Len(q.items)
            /\ \A x \in 0 .. q.size - 1 :
                 x # a /\ x # b => At(r, x) = At(q, x) /\ PriorityAt(r, x) = PriorityAt(q, x)
<1> DEFINE r == Swap(q, a, b)
           g == At(q, a)
           h == At(q, b)
<1>1. /\ a \in Nat /\ b \in Nat /\ a + 1 \in 1 .. Len(q.items) /\ b + 1 \in 1 .. Len(q.items)
      /\ g \in DOMAIN q.handle /\ h \in DOMAIN q.handle
      /\ q.handle[g].position = a /\ q.handle[h].position = b
      /\ g \in Handles /\ h \in Handles
  BY SoundFacts
<1>2. g # h
  BY <1>1
<1>3. /\ r.items = [q.items EXCEPT ![a + 1] = h, ![b + 1] = g]
      /\ r.size = q.size
      /\ r.handle = [q.handle EXCEPT ![g].position = b, ![h].position = a]
      /\ r = [items |-> r.items, size |-> r.size, handle |-> r.handle]
  BY DEF Swap
<1> HIDE DEF r
<1>4. /\ r.items \in Seq(Handles \cup {NULL}) /\ Len(r.items) = Len(q.items)
      /\ r.items[a + 1] = h /\ r.items[b + 1] = g
      /\ \A i \in 1 .. Len(q.items) : i # a + 1 /\ i # b + 1 => r.items[i] = q.items[i]
  <2>1. q.items \in Seq(Handles \cup {NULL}) /\ a + 1 # b + 1
    BY <1>1 DEF Sound, IsQueue
  <2>2. h \in Handles \cup {NULL} /\ g \in Handles \cup {NULL}
    BY <1>1
  <2> HIDE DEF g, h
  <2>3. [q.items EXCEPT ![a + 1] = h] \in Seq(Handles \cup {NULL})
    BY <1>1, <2>1, <2>2, ExceptSeq
  <2>4. QED
    BY <1>1, <1>3, <2>1, <2>2, <2>3, ExceptSeq
<1>5. /\ DOMAIN r.handle = DOMAIN q.handle
      /\ r.handle[g] = [priority |-> q.handle[g].priority, position |-> b]
      /\ r.handle[h] = [priority |-> q.handle[h].priority, position |-> a]
      /\ \A i \in DOMAIN q.handle : i # g /\ i # h => r.handle[i] = q.handle[i]
      /\ r.handle \in [DOMAIN q.handle -> Items]
  <2>1. q.handle \in [DOMAIN q.handle -> Items]
    BY DEF Sound, IsQueue
  <2>2. q.handle[g] \in Items /\ q.handle[h] \in Items
    BY <1>1, <2>1
  <2>3. /\ [q.handle[g] EXCEPT !.position = b] = [priority |-> q.handle[g].priority, position |-> b]
        /\ [q.handle[h] EXCEPT !.position = a] = [priority |-> q.handle[h].priority, position |-> a]
    BY <2>2 DEF Items
  <2>4. /\ DOMAIN r.handle = DOMAIN q.handle
        /\ r.handle[g] = [q.handle[g] EXCEPT !.position = b]
        /\ r.handle[h] = [q.handle[h] EXCEPT !.position = a]
        /\ \A i \in DOMAIN q.handle : i # g /\ i # h => r.handle[i] = q.handle[i]
    BY <1>1, <1>2, <1>3, <2>1
  <2>5. r.handle[g] \in Items /\ r.handle[h] \in Items
    BY <1>1, <2>2, <2>3, <2>4 DEF Items
  <2>6. \A i \in DOMAIN q.handle : r.handle[i] \in Items
    BY <2>1, <2>4, <2>5
  <2>7. r.handle = [i \in DOMAIN q.handle |-> r.handle[i]]
    BY <1>3, <2>1
  <2>8. QED
    BY <2>3, <2>4, <2>6, <2>7
<1>6. IsQueue(r)
  BY <1>3, <1>4, <1>5 DEF Sound, IsQueue
<1>7. /\ At(r, a) = h /\ At(r, b) = g
      /\ \A x \in 0 .. Len(q.items) - 1 : x # a /\ x # b => At(r, x) = At(q, x)
  <2>1. /\ At(r, a) = h /\ At(r, b) = g
    BY <1>4 DEF At
  <2>2. ASSUME NEW x \in 0 .. Len(q.items) - 1, x # a, x # b PROVE r.items[x + 1] = q.items[x + 1]
    <3>1. x \in Int /\ a \in Int /\ b \in Int /\ Len(q.items) \in Nat
      BY <1>1 DEF Sound, IsQueue
    <3>2. x + 1 \in 1 .. Len(q.items) /\ x + 1 # a + 1 /\ x + 1 # b + 1
      BY <2>2, <3>1
    <3> HIDE DEF g, h
    <3>3. QED
      BY <1>4, <3>2
  <2>3. QED
    BY <2>1, <2>2 DEF At
<1>8. ASSUME NEW x \in 0 .. q.size - 1, x # a, x # b
      PROVE  /\ At(r, x) = At(q, x) /\ At(q, x) # g /\ At(q, x) # h /\ At(q, x) \in DOMAIN q.handle
             /\ q.handle[At(q, x)].position = x
  <2>1. x \in 0 .. Len(q.items) - 1 /\ q.handle[At(q, x)].position = x /\ At(q, x) \in DOMAIN q.handle
    BY SoundFacts, SMTT(20)
  <2>2. QED
    BY <1>1, <1>7, <1>8, <2>1
<1>9. Placed(r)
  <2>1. ASSUME NEW x \in 0 .. q.size - 1
        PROVE  At(r, x) \in DOMAIN q.handle /\ r.handle[At(r, x)].position = x
    <3>1. CASE x = a
      BY <1>1, <1>5, <1>7, <3>1
    <3>2. CASE x = b
      BY <1>1, <1>5, <1>7, <3>2
    <3>3. CASE x # a /\ x # b
      BY <1>5, <1>8, <3>3
    <3>4. QED
      BY <3>1, <3>2, <3>3
  <2>2. ASSUME NEW x \in q.size .. Len(q.items) - 1 PROVE At(r, x) = NULL
    <3>1. x \in 0 .. Len(q.items) - 1 /\ x # a /\ x # b
      BY DEF Sound, IsQueue
    <3>2. At(q, x) = NULL
      BY DEF Sound, Placed
    <3>3. QED
      BY <1>7, <3>1, <3>2
  <2>3. ASSUME NEW i \in DOMAIN q.handle
        PROVE  r.handle[i].position < q.size /\ At(r, r.handle[i].position) = i
    <3> a < q.size /\ b < q.size
      BY DEF Sound, IsQueue
    <3>1. CASE i = g
      <4>1. r.handle[i].position = b /\ At(r, b) = i
        BY <1>5, <1>7, <3>1
      <4>2. QED
        BY <4>1
    <3>2. CASE i = h
      <4>1. r.handle[i].position = a /\ At(r, a) = i
        BY <1>5, <1>7, <3>2
      <4>2. QED
        BY <4>1
    <3>3. CASE i # g /\ i # h
      <4> DEFINE x == q.handle[i].position
      <4>1. x < q.size /\ At(q, x) = i /\ x \in Nat
        BY DEF Sound, Placed, IsQueue, Items
      <4>2. x # a /\ x # b /\ x \in 0 .. q.size - 1
        BY <3>3, <4>1, <1>1 DEF Sound, IsQueue
      <4>3. At(r, x) = i
        BY <1>8, <4>1, <4>2
      <4>4. QED
        BY <1>5, <3>3, <4>1, <4>3
    <3>4. QED
      BY <3>1, <3>2, <3>3
  <2>4. QED
    BY <1>3, <1>4, <1>5, <2>1, <2>2, <2>3 DEF Placed
<1>10. SameItems(q, r)
  BY <1>3, <1>5 DEF SameItems
<1>11. /\ PriorityAt(r, a) = PriorityAt(q, b) /\ PriorityAt(r, b) = PriorityAt(q, a)
       /\ \A x \in 0 .. q.size - 1 :
            x # a /\ x # b => At(r, x) = At(q, x) /\ PriorityAt(r, x) = PriorityAt(q, x)
  BY <1>1, <1>5, <1>7, <1>8 DEF PriorityAt
<1>12. QED
  BY <1>4, <1>6, <1>7, <1>9, <1>10, <1>11 DEF r, Sound

-----------------------------------------------------------------------------
(* One turn of each loop.                                                  *)

LEMMA ParentFacts ==
  /\ \A x \in Nat : x > 0 => Parent(x) \in Nat /\ Parent(x) < x
  /\ \A x \in Nat : \A p \in Nat :
       x > 0 /\ Parent(x) = p => x = 2 * p + 1 \/ x = 2 * p + 2
  /\ \A p \in Nat : Parent(2 * p + 1) = p /\ Parent(2 * p + 2) = p
BY DEF Parent

(***************************************************************************)
(* An item that is more than its parent changes places with it, and then   *)
(* only it is out of order.                                                *)
(***************************************************************************)
LEMMA RiseSwap ==
  ASSUME QueueAssumption, NEW q, Sound(q), NEW p, HeapBut(q, p), p # 0,
         ~ Ordered(q, p)
  PROVE  LET r == Swap(q, p, Parent(p))
         IN Sound(r) /\ SameItems(q, r) /\ HeapBut(r, Parent(p))
<1> DEFINE a == Parent(p)
           r == Swap(q, p, a)
<1>1. /\ q.size \in Nat /\ p \in Nat /\ p \in 0 .. q.size - 1 /\ p > 0
      /\ a \in Nat /\ a < p /\ a \in 0 .. q.size - 1
  <2>1. q.size \in Nat /\ p \in Nat /\ p \in 0 .. q.size - 1 /\ p > 0
    BY DEF Sound, IsQueue, HeapBut
  <2>2. a \in Nat /\ a < p
    BY <2>1, ParentFacts
  <2>3. QED
    BY <2>1, <2>2
<1>2. /\ Sound(r) /\ SameItems(q, r) /\ r.size = q.size
      /\ PriorityAt(r, p) = PriorityAt(q, a) /\ PriorityAt(r, a) = PriorityAt(q, p)
      /\ \A x \in 0 .. q.size - 1 : x # a /\ x # p => PriorityAt(r, x) = PriorityAt(q, x)
  BY <1>1, SwapFacts DEF SameItems
<1>3. \A x \in 0 .. q.size - 1 : PriorityAt(q, x) \in Int
  BY SoundFacts
<1>4. PriorityAt(q, p) > PriorityAt(q, a)
  BY <1>1, <1>3 DEF Ordered
<1> HIDE DEF r
<1>5. ASSUME NEW x \in 1 .. q.size - 1
      PROVE  /\ x \in 0 .. q.size - 1 /\ Parent(x) \in 0 .. q.size - 1 /\ Parent(x) < x
             /\ x # p /\ Parent(x) # p => PriorityAt(q, x) <= PriorityAt(q, Parent(x))
             /\ Parent(x) = p => PriorityAt(q, x) <= PriorityAt(q, a)
  <2>1. x \in Nat /\ x > 0 /\ x <= q.size - 1
    BY <1>1
  <2>2. Parent(x) \in Nat /\ Parent(x) < x
    BY <2>1, ParentFacts
  <2>3. x \in 0 .. q.size - 1 /\ Parent(x) \in 0 .. q.size - 1
    BY <1>1, <2>1, <2>2
  <2>4. QED
    BY <2>2, <2>3, <1>1 DEF HeapBut, Ordered
<1>6. ASSUME NEW x \in 1 .. q.size - 1, x # a, Parent(x) # a
      PROVE  Ordered(r, x)
  <2>1. x # p
    BY <1>6
  <2>2. PriorityAt(r, x) = PriorityAt(q, x)
    BY <1>2, <1>5, <1>6, <2>1
  <2>3. CASE Parent(x) = p
    BY <1>2, <1>5, <2>2, <2>3 DEF Ordered
  <2>4. CASE Parent(x) # p
    BY <1>2, <1>5, <1>6, <2>1, <2>2, <2>4 DEF Ordered
  <2>5. QED
    BY <2>3, <2>4
<1>7. ASSUME a # 0, NEW x \in 1 .. q.size - 1, Parent(x) = a
      PROVE  PriorityAt(r, x) <= PriorityAt(r, Parent(a))
  <2>1. /\ a \in 1 .. q.size - 1 /\ Parent(a) \in 0 .. q.size - 1 /\ Parent(a) < a
        /\ PriorityAt(q, a) <= PriorityAt(q, Parent(a))
    BY <1>1, <1>5, <1>7
  <2>2. PriorityAt(r, Parent(a)) = PriorityAt(q, Parent(a))
    BY <1>1, <1>2, <2>1
  <2>3. CASE x = p
    BY <1>2, <2>1, <2>2, <2>3
  <2>4. CASE x # p
    <3>1. PriorityAt(q, x) <= PriorityAt(q, a) /\ x # a
      BY <1>1, <1>5, <1>7, <2>4
    <3>2. PriorityAt(r, x) = PriorityAt(q, x)
      BY <1>2, <1>5, <2>4, <3>1
    <3>3. QED
      BY <1>1, <1>3, <1>5, <2>1, <2>2, <3>1, <3>2
  <2>5. QED
    BY <2>3, <2>4
<1>8. HeapBut(r, a)
  BY <1>1, <1>2, <1>6, <1>7 DEF HeapBut
<1>9. QED
  BY <1>2, <1>8 DEF r

(***************************************************************************)
(* Of the children of an item that has some, the one that heapShiftDown    *)
(* compares it with is in the queue, and has the highest priority.         *)
(***************************************************************************)
LEMMA LargestChildFacts ==
  ASSUME QueueAssumption, NEW q, Sound(q), NEW p \in 0 .. q.size - 1, ~ IsLeaf(q, p)
  PROVE  LET c == LargestChild(q, p)
         IN /\ c \in 1 .. q.size - 1 /\ Parent(c) = p
            /\ \A x \in 1 .. q.size - 1 :
                 Parent(x) = p => PriorityAt(q, x) <= PriorityAt(q, c)
<1> DEFINE left == 2 * p + 1
           right == 2 * p + 2
           c == LargestChild(q, p)
<1>1. /\ q.size \in Nat /\ Len(q.items) \in Nat /\ q.size <= Len(q.items) /\ p \in Nat
      /\ \E n \in 0 .. Len(q.items) : Len(q.items) = 2 * n + 1
  BY DEF Sound, IsQueue
<1>2. p < q.size \div 2
  BY <1>1 DEF IsLeaf
<1>3. left \in 1 .. q.size - 1 /\ right <= q.size
  BY <1>1, <1>2
<1>4. right = q.size => q.size < Len(q.items)
  <2>1. PICK n \in Nat : Len(q.items) = 2 * n + 1
    BY <1>1
  <2>2. right # 2 * n + 1
    BY <1>1
  <2>3. QED
    BY <1>1, <2>1, <2>2
<1>5. At(q, left) # NULL /\ PriorityAt(q, left) \in Int
  BY <1>1, <1>3, SoundFacts
<1>6. CASE right = q.size
  <2>1. At(q, right) = NULL
    BY <1>1, <1>4, <1>6 DEF Sound, Placed
  <2>2. c = left
    BY <1>5, <2>1 DEF LargestChild
  <2>3. ASSUME NEW x \in 1 .. q.size - 1, Parent(x) = p PROVE x = left
    <3>1. x \in Nat /\ x > 0 /\ x < right
      BY <1>1, <1>6
    <3>2. x = left \/ x = right
      BY <1>1, <2>3, <3>1, ParentFacts
    <3>3. QED
      BY <3>1, <3>2
  <2>4. Parent(left) = p
    BY <1>1, ParentFacts
  <2>5. PriorityAt(q, left) <= PriorityAt(q, left)
    BY <1>5
  <2>6. QED
    BY <1>3, <2>2, <2>3, <2>4, <2>5
<1>7. CASE right # q.size
  <2>1. right \in 1 .. q.size - 1
    BY <1>1, <1>3, <1>7
  <2>2. At(q, right) # NULL /\ PriorityAt(q, right) \in Int
    BY <1>1, <2>1, SoundFacts
  <2>3. c = IF PriorityAt(q, left) >= PriorityAt(q, right) THEN left ELSE right
    BY <1>5, <2>2 DEF LargestChild
  <2>4. ASSUME NEW x \in 1 .. q.size - 1, Parent(x) = p PROVE x = left \/ x = right
    BY <1>1, <2>4, ParentFacts
  <2>5. Parent(left) = p /\ Parent(right) = p
    BY <1>1, ParentFacts
  <2>6. QED
    BY <1>3, <1>5, <2>1, <2>2, <2>3, <2>4, <2>5
<1>8. QED
  BY <1>6, <1>7

(***************************************************************************)
(* An item that is less than a child changes places with the largest, and  *)
(* then only it may be less than a child.                                  *)
(***************************************************************************)
LEMMA SinkSwap ==
  ASSUME QueueAssumption, NEW q, Sound(q), NEW p, HeapBut(q, p),
         p # 0 => Ordered(q, p), NEW c \in 1 .. q.size - 1, Parent(c) = p,
         \A x \in 1 .. q.size - 1 : Parent(x) = p => PriorityAt(q, x) <= PriorityAt(q, c),
         PriorityAt(q, c) > PriorityAt(q, p)
  PROVE  LET r == Swap(q, p, c)
         IN Sound(r) /\ SameItems(q, r) /\ HeapBut(r, c) /\ Ordered(r, c)
<1> DEFINE r == Swap(q, p, c)
<1>1. /\ q.size \in Nat /\ p \in Nat /\ c \in Nat /\ p < c
      /\ p \in 0 .. q.size - 1 /\ c \in 0 .. q.size - 1
  <2>1. q.size \in Nat /\ p \in 0 .. q.size - 1
    BY DEF Sound, IsQueue, HeapBut
  <2>2. c \in Nat /\ c > 0 /\ c <= q.size - 1
    BY <2>1
  <2>3. p < c
    BY <2>2, ParentFacts
  <2>4. QED
    BY <2>1, <2>2, <2>3
<1>2. /\ Sound(r) /\ SameItems(q, r) /\ r.size = q.size
      /\ PriorityAt(r, p) = PriorityAt(q, c) /\ PriorityAt(r, c) = PriorityAt(q, p)
      /\ \A x \in 0 .. q.size - 1 : x # p /\ x # c => PriorityAt(r, x) = PriorityAt(q, x)
  BY <1>1, SwapFacts DEF SameItems
<1>3. \A x \in 0 .. q.size - 1 : PriorityAt(q, x) \in Int
  BY SoundFacts
<1> HIDE DEF r
<1>4. ASSUME NEW x \in 1 .. q.size - 1
      PROVE  /\ x \in 0 .. q.size - 1 /\ Parent(x) \in 0 .. q.size - 1 /\ Parent(x) < x
             /\ x # p /\ Parent(x) # p => PriorityAt(q, x) <= PriorityAt(q, Parent(x))
             /\ Parent(x) = p /\ p # 0 => PriorityAt(q, x) <= PriorityAt(q, Parent(p))
             /\ x = p => PriorityAt(q, x) <= PriorityAt(q, Parent(x))
  <2>1. x \in Nat /\ x > 0 /\ x <= q.size - 1
    BY <1>1
  <2>2. Parent(x) \in Nat /\ Parent(x) < x
    BY <2>1, ParentFacts
  <2>3. x \in 0 .. q.size - 1 /\ Parent(x) \in 0 .. q.size - 1
    BY <1>1, <2>1, <2>2
  <2>4. QED
    BY <2>1, <2>2, <2>3, <1>1 DEF HeapBut, Ordered
<1>5. Ordered(r, c)
  BY <1>1, <1>2, <1>3 DEF Ordered
<1>6. ASSUME NEW x \in 1 .. q.size - 1, x # c, Parent(x) # c
      PROVE  Ordered(r, x)
  <2>1. CASE x = p
    <3>1. /\ Parent(p) \in 0 .. q.size - 1 /\ Parent(p) < p
          /\ PriorityAt(q, c) <= PriorityAt(q, Parent(p))
      BY <1>4, <2>1
    <3>2. PriorityAt(r, Parent(p)) = PriorityAt(q, Parent(p))
      BY <1>1, <1>2, <3>1
    <3>3. QED
      BY <1>2, <2>1, <3>1, <3>2 DEF Ordered
  <2>2. CASE x # p /\ Parent(x) = p
    BY <1>2, <1>4, <1>6, <2>2 DEF Ordered
  <2>3. CASE x # p /\ Parent(x) # p
    BY <1>2, <1>4, <1>6, <2>3 DEF Ordered
  <2>4. QED
    BY <2>1, <2>2, <2>3
<1>7. ASSUME NEW x \in 1 .. q.size - 1, Parent(x) = c
      PROVE  PriorityAt(r, x) <= PriorityAt(r, Parent(c))
  <2>1. x # c /\ x # p /\ PriorityAt(q, x) <= PriorityAt(q, c)
    BY <1>1, <1>4, <1>7
  <2>2. PriorityAt(r, x) = PriorityAt(q, x)
    BY <1>2, <1>4, <2>1
  <2>3. QED
    BY <1>2, <2>1, <2>2
<1>8. HeapBut(r, c)
  BY <1>1, <1>2, <1>6, <1>7 DEF HeapBut
<1>9. QED
  BY <1>2, <1>5, <1>8 DEF r


-----------------------------------------------------------------------------
(* The loops.  That their recursive functions are defined at every turn    *)
(* follows by induction over the number of turns.                          *)

LEMMA LeastNatural ==
  ASSUME NEW T \in SUBSET Nat, T # {}
  PROVE  \E x \in T : \A y \in T : x <= y
<1> DEFINE R == OpToRel(<, Nat)
<1>1. PICK x \in T : \A y \in T : ~ (<<y, x>> \in R)
  BY NatLessThanWellFounded, WFMin
<1>2. \A y, z \in Nat : y < z => <<y, z>> \in R
  BY DEF OpToRel
<1> HIDE DEF R
<1>3. ASSUME NEW y \in T PROVE x <= y
  <2>1. ~ (y < x)
    BY <1>1, <1>2
  <2>2. QED
    BY <2>1
<1>4. QED
  BY <1>3

\* Induction over the turns, for the set of those that go well.
LEMMA TurnInduction ==
  ASSUME NEW N \in Nat, NEW S, 0 \in S,
         \A n \in 0 .. N : n # 0 /\ n - 1 \in S => n \in S
  PROVE  0 .. N \subseteq S
<1> DEFINE Missed == (0 .. N) \ S
<1>1. SUFFICES ASSUME Missed # {} PROVE FALSE
  OBVIOUS
<1>2. PICK n \in Missed : \A m \in Missed : n <= m
  <2>1. Missed \in SUBSET Nat
    OBVIOUS
  <2>2. QED
    BY <1>1, <2>1, LeastNatural
<1>3. n \in 0 .. N /\ n \notin S /\ n # 0 /\ n - 1 \in 0 .. N
  OBVIOUS
<1>4. n - 1 \notin Missed
  BY <1>2, <1>3
<1>5. QED
  BY <1>3, <1>4

Turn(up, s) == IF up THEN Rise(s) ELSE Sink(s)

\* The states of a loop that starts in s, for N turns.
Loops(f, up, s, N) ==
  f = [n \in 0 .. N |-> IF n = 0 THEN s ELSE Turn(up, f[n - 1])]

LEMMA LoopExists ==
  ASSUME NEW up, NEW s, NEW N \in Nat
  PROVE  \E f : Loops(f, up, s, N)
<1> DEFINE S == {n \in 0 .. N : \E f : Loops(f, up, s, n)}
<1>1. 0 \in S
  <2> DEFINE f == [n \in 0 .. 0 |-> s]
  <2>1. f = [n \in 0 .. 0 |-> IF n = 0 THEN s ELSE Turn(up, f[n - 1])]
    OBVIOUS
  <2> HIDE DEF f
  <2>2. Loops(f, up, s, 0)
    BY <2>1 DEF Loops
  <2>3. QED
    BY <2>2
<1>2. ASSUME NEW n \in 0 .. N, n # 0, n - 1 \in S PROVE n \in S
  <2>1. PICK f : Loops(f, up, s, n - 1)
    BY <1>2
  <2> DEFINE g == [m \in 0 .. n |-> IF m = n THEN Turn(up, f[n - 1]) ELSE f[m]]
  <2>2. ASSUME NEW m \in 0 .. n
        PROVE  g[m] = IF m = 0 THEN s ELSE Turn(up, g[m - 1])
    <3>1. CASE m = 0
      BY <1>2, <2>1, <3>1 DEF Loops
    <3>2. CASE m = n
      <4>1. m - 1 \in 0 .. n /\ m - 1 # n
        BY <1>2, <3>2
      <4>2. g[m - 1] = f[n - 1] /\ g[m] = Turn(up, f[n - 1])
        BY <3>2, <4>1
      <4>3. QED
        BY <1>2, <3>2, <4>2
    <3>3. CASE m # 0 /\ m # n
      <4>1. m \in 0 .. n - 1 /\ m - 1 \in 0 .. n /\ m - 1 # n
        BY <3>3
      <4>2. f[m] = Turn(up, f[m - 1])
        BY <2>1, <3>3, <4>1 DEF Loops
      <4>3. g[m] = f[m] /\ g[m - 1] = f[m - 1]
        BY <3>3, <4>1
      <4>4. QED
        BY <3>3, <4>2, <4>3
    <3>4. QED
      BY <3>1, <3>2, <3>3
  <2>3. g = [m \in 0 .. n |-> g[m]]
    OBVIOUS
  <2> HIDE DEF g
  <2>4. g = [m \in 0 .. n |-> IF m = 0 THEN s ELSE Turn(up, g[m - 1])]
    BY <2>2, <2>3
  <2>5. Loops(g, up, s, n)
    BY <2>4 DEF Loops
  <2>6. QED
    BY <2>5
<1> HIDE DEF S
<1>3. 0 .. N \subseteq S
  BY <1>1, <1>2, TurnInduction
<1>4. N \in S
  BY <1>3
<1>5. QED
  BY <1>4 DEF S

Started(q, p) == [q |-> q, p |-> p, done |-> FALSE]

LEMMA ShiftIsLoop ==
  ASSUME QueueAssumption, NEW q, NEW p
  PROVE  /\ \E f : /\ Loops(f, TRUE, Started(q, p), Cardinality(Handles))
                   /\ ShiftUp(q, p) = f[Cardinality(Handles)]
         /\ \E f : /\ Loops(f, FALSE, Started(q, p), Cardinality(Handles))
                   /\ ShiftDown(q, p) = f[Cardinality(Handles)]
<1> DEFINE N == Cardinality(Handles)
           IsUp(f) == f = [n \in Turns |-> IF n = 0 THEN Started(q, p) ELSE Rise(f[n - 1])]
           IsDown(f) == f = [n \in Turns |-> IF n = 0 THEN Started(q, p) ELSE Sink(f[n - 1])]
<1>1. N \in Nat
  BY FS_CardinalityType DEF QueueAssumption
<1>2. \A f : IsUp(f) <=> Loops(f, TRUE, Started(q, p), N)
  BY DEF Loops, Turn, Turns
<1>3. \A f : IsDown(f) <=> Loops(f, FALSE, Started(q, p), N)
  BY DEF Loops, Turn, Turns
<1>4. ShiftUp(q, p) = (CHOOSE f : IsUp(f))[N]
  BY DEF ShiftUp, Started
<1>5. ShiftDown(q, p) = (CHOOSE f : IsDown(f))[N]
  BY DEF ShiftDown, Started
<1> HIDE DEF IsUp, IsDown
<1>6. IsUp(CHOOSE f : IsUp(f)) /\ IsDown(CHOOSE f : IsDown(f))
  BY <1>1, <1>2, <1>3, LoopExists
<1>7. QED
  BY <1>2, <1>3, <1>4, <1>5, <1>6


LEMMA SizeBound ==
  ASSUME QueueAssumption, NEW q, Sound(q)
  PROVE  /\ Cardinality(Handles) \in Nat /\ q.size \in Nat
         /\ q.size <= Cardinality(Handles)
<1> DEFINE n == q.size
           f == [p \in 0 .. n - 1 |-> At(q, p)]
<1>1. n \in Nat /\ IsFiniteSet(Handles)
  BY DEF Sound, IsQueue, QueueAssumption
<1>2. \A p \in 0 .. n - 1 : At(q, p) \in Handles /\ q.handle[At(q, p)].position = p
  BY SoundFacts
<1>3. f \in Injection(0 .. n - 1, Handles)
  <2>1. f \in [0 .. n - 1 -> Handles]
    BY <1>2
  <2>2. \A a, b \in 0 .. n - 1 : f[a] = f[b] => a = b
    BY <1>2
  <2> HIDE DEF f
  <2>3. QED
    BY <2>1, <2>2 DEF Injection, IsInjective
<1> HIDE DEF f
<1>4. IsFiniteSet(0 .. n - 1) /\ Cardinality(0 .. n - 1) <= Cardinality(Handles)
  BY <1>1, <1>3, FS_Injection
<1>5. Cardinality(0 .. n - 1) = n
  <2>1. Cardinality(0 .. n - 1) = IF 0 > n - 1 THEN 0 ELSE n - 1 - 0 + 1
    BY <1>1, FS_Interval, SMTT(60)
  <2>2. QED
    BY <1>1, <2>1
<1>6. Cardinality(Handles) \in Nat
  BY <1>1, FS_CardinalityType
<1>7. QED
  BY <1>1, <1>4, <1>5, <1>6

LEMMA SameTwice ==
  ASSUME NEW q, NEW r, NEW s, SameItems(q, r), SameItems(r, s)
  PROVE  SameItems(q, s)
BY DEF SameItems

(***************************************************************************)
(* The first loop ends where the item is no more than its parent.          *)
(***************************************************************************)
RisesWell(q, p, s, n) ==
  /\ s.done \in BOOLEAN
  /\ Sound(s.q) /\ SameItems(q, s.q) /\ HeapBut(s.q, s.p)
  /\ IF s.done THEN s.p # 0 => Ordered(s.q, s.p) ELSE s.p = 0 \/ s.p + n <= p

LEMMA RiseKeeps ==
  ASSUME QueueAssumption, NEW q, NEW p \in Nat, NEW s, NEW n \in Nat, RisesWell(q, p, s, n)
  PROVE  RisesWell(q, p, Rise(s), n + 1)
<1>1. /\ s.done \in BOOLEAN /\ Sound(s.q) /\ SameItems(q, s.q) /\ HeapBut(s.q, s.p)
      /\ IF s.done THEN s.p # 0 => Ordered(s.q, s.p) ELSE s.p = 0 \/ s.p + n <= p
      /\ s.p \in 0 .. s.q.size - 1 /\ s.q.size \in Nat
  BY SMTT(60) DEF RisesWell, HeapBut, Sound, IsQueue
<1>2. CASE s.done \/ s.p = 0
  <2>1. Rise(s) = s
    BY <1>2 DEF Rise
  <2>2. QED
    BY <1>1, <1>2, <2>1 DEF RisesWell
<1>3. CASE ~ s.done /\ s.p # 0 /\ Ordered(s.q, s.p)
  <2>1. Rise(s) = [q |-> s.q, p |-> s.p, done |-> TRUE]
    BY <1>3 DEF Rise, Ordered, Parent
  <2>2. QED
    BY <1>1, <1>3, <2>1 DEF RisesWell
<1>4. CASE ~ s.done /\ s.p # 0 /\ ~ Ordered(s.q, s.p)
  <2> DEFINE r == Swap(s.q, s.p, Parent(s.p))
  <2>1. Rise(s) = [q |-> r, p |-> Parent(s.p), done |-> FALSE]
    BY <1>4 DEF Rise, Ordered, Parent
  <2>2. Sound(r) /\ SameItems(s.q, r) /\ HeapBut(r, Parent(s.p))
    BY <1>1, <1>4, RiseSwap
  <2> HIDE DEF r
  <2>3. SameItems(q, r)
    BY <1>1, <2>2, SameTwice
  <2>4. Parent(s.p) \in Nat /\ Parent(s.p) < s.p /\ s.p \in Nat
    <3>1. s.p \in Nat /\ s.p > 0
      BY <1>1, <1>4
    <3>2. QED
      BY <3>1, ParentFacts
  <2>5. Parent(s.p) + (n + 1) <= p
    BY <1>1, <1>4, <2>4
  <2>6. QED
    BY <2>1, <2>2, <2>3, <2>5 DEF RisesWell
<1>5. QED
  BY <1>2, <1>3, <1>4

LEMMA ShiftUpFacts ==
  ASSUME QueueAssumption, NEW q, Sound(q), NEW p, HeapBut(q, p)
  PROVE  LET u == ShiftUp(q, p)
         IN /\ Sound(u.q) /\ SameItems(q, u.q) /\ HeapBut(u.q, u.p)
            /\ u.p # 0 => Ordered(u.q, u.p)
<1> DEFINE N == Cardinality(Handles)
<1>1. N \in Nat /\ q.size \in Nat /\ q.size <= N
  BY SizeBound
<1>2. p \in 0 .. q.size - 1 /\ p \in Nat
  BY <1>1 DEF HeapBut
<1>3. PICK f : Loops(f, TRUE, Started(q, p), N) /\ ShiftUp(q, p) = f[N]
  BY ShiftIsLoop
<1> HIDE DEF N
<1> DEFINE S == {n \in 0 .. N : RisesWell(q, p, f[n], n)}
<1>4. 0 \in S
  <2>1. f[0] = Started(q, p)
    BY <1>1, <1>3 DEF Loops
  <2>2. SameItems(q, q)
    BY DEF SameItems
  <2>3. RisesWell(q, p, Started(q, p), 0)
    BY <1>2, <2>2 DEF RisesWell, Started
  <2>4. QED
    BY <1>1, <2>1, <2>3
<1>5. ASSUME NEW n \in 0 .. N, n # 0, n - 1 \in S PROVE n \in S
  <2>1. f[n] = Rise(f[n - 1])
    BY <1>1, <1>3, <1>5 DEF Loops, Turn
  <2>2. n - 1 \in Nat /\ RisesWell(q, p, f[n - 1], n - 1) /\ (n - 1) + 1 = n
    BY <1>5
  <2>3. RisesWell(q, p, Rise(f[n - 1]), (n - 1) + 1)
    BY <1>2, <2>2, RiseKeeps
  <2>4. QED
    BY <2>1, <2>2, <2>3
<1> HIDE DEF S
<1>6. N \in S
  <2>1. 0 .. N \subseteq S
    BY <1>1, <1>4, <1>5, TurnInduction
  <2>2. QED
    BY <1>1, <2>1
<1> DEFINE u == f[N]
<1>7. RisesWell(q, p, u, N)
  BY <1>6 DEF S
<1> HIDE DEF u
<1>8. u.p \in 0 .. u.q.size - 1 /\ u.q.size = q.size
  BY <1>7 DEF RisesWell, HeapBut, SameItems
<1>9. u.p # 0 => Ordered(u.q, u.p)
  <2>1. ~ (u.p + N <= p)
    BY <1>1, <1>2, <1>8
  <2>2. QED
    BY <1>7, <2>1 DEF RisesWell
<1>10. QED
  BY <1>3, <1>7, <1>9 DEF RisesWell, u

(***************************************************************************)
(* The second loop ends with all items in order.                           *)
(***************************************************************************)
SinksWell(q, s, n) ==
  /\ s.done \in BOOLEAN
  /\ Sound(s.q) /\ SameItems(q, s.q) /\ HeapBut(s.q, s.p)
  /\ s.p # 0 => Ordered(s.q, s.p)
  /\ IF s.done THEN Heap(s.q) ELSE IsLeaf(s.q, s.p) \/ s.p >= n

LEMMA LeafIsLast ==
  ASSUME QueueAssumption, NEW q, Sound(q), NEW p, HeapBut(q, p), p # 0 => Ordered(q, p),
         IsLeaf(q, p)
  PROVE  Heap(q)
<1>1. q.size \in Nat /\ p \in 0 .. q.size - 1 /\ p \in Nat
  BY DEF Sound, IsQueue, HeapBut
<1>2. ASSUME NEW x \in 1 .. q.size - 1 PROVE Ordered(q, x)
  <2>1. x \in Nat /\ x > 0
    BY <1>1
  <2>2. Parent(x) # p
    <3>1. SUFFICES ASSUME Parent(x) = p PROVE FALSE
      OBVIOUS
    <3>2. x >= 2 * p + 1
      BY <1>1, <2>1, <3>1, ParentFacts
    <3>3. p >= q.size \div 2
      BY DEF IsLeaf
    <3>4. 2 * (q.size \div 2) >= q.size - 1
      BY <1>1
    <3>5. QED
      BY <1>1, <2>1, <3>2, <3>3, <3>4
  <2>3. QED
    BY <1>1, <2>1, <2>2 DEF HeapBut
<1>3. QED
  BY <1>2 DEF Heap

LEMMA SinkKeeps ==
  ASSUME QueueAssumption, NEW q, NEW s, NEW n \in Nat, SinksWell(q, s, n)
  PROVE  SinksWell(q, Sink(s), n + 1)
<1> DEFINE c == LargestChild(s.q, s.p)
<1>1. /\ s.done \in BOOLEAN /\ Sound(s.q) /\ SameItems(q, s.q) /\ HeapBut(s.q, s.p)
      /\ s.p # 0 => Ordered(s.q, s.p)
      /\ IF s.done THEN Heap(s.q) ELSE IsLeaf(s.q, s.p) \/ s.p >= n
      /\ s.p \in 0 .. s.q.size - 1 /\ s.q.size \in Nat
  BY DEF SinksWell, HeapBut, Sound, IsQueue
<1>2. CASE s.done \/ IsLeaf(s.q, s.p)
  <2>1. Sink(s) = s
    BY <1>2 DEF Sink
  <2>2. QED
    BY <1>1, <1>2, <2>1 DEF SinksWell
<1>3. CASE ~ s.done /\ ~ IsLeaf(s.q, s.p)
  <2>1. /\ c \in 1 .. s.q.size - 1 /\ Parent(c) = s.p
        /\ \A x \in 1 .. s.q.size - 1 :
             Parent(x) = s.p => PriorityAt(s.q, x) <= PriorityAt(s.q, c)
    BY <1>1, <1>3, LargestChildFacts
  <2>2. Sink(s) = IF PriorityAt(s.q, c) <= PriorityAt(s.q, s.p)
                    THEN [q |-> s.q, p |-> s.p, done |-> TRUE]
                    ELSE [q |-> Swap(s.q, s.p, c), p |-> c, done |-> FALSE]
    BY <1>3 DEF Sink
  <2> HIDE DEF c
  <2>3. c \in 0 .. s.q.size - 1 /\ \A x \in 0 .. s.q.size - 1 : PriorityAt(s.q, x) \in Int
    BY <1>1, <2>1, SoundFacts
  <2>4. CASE PriorityAt(s.q, c) <= PriorityAt(s.q, s.p)
    <3>1. ASSUME NEW x \in 1 .. s.q.size - 1 PROVE Ordered(s.q, x)
      <4>1. CASE Parent(x) = s.p
        <5>1. x \in 0 .. s.q.size - 1 /\ PriorityAt(s.q, x) <= PriorityAt(s.q, c)
          BY <1>1, <2>1, <4>1
        <5>2. QED
          BY <1>1, <2>3, <2>4, <4>1, <5>1 DEF Ordered
      <4>2. CASE x = s.p
        BY <1>1, <4>2
      <4>3. CASE x # s.p /\ Parent(x) # s.p
        BY <1>1, <4>3 DEF HeapBut
      <4>4. QED
        BY <4>1, <4>2, <4>3
    <3>2. Heap(s.q)
      BY <3>1 DEF Heap
    <3>3. Sink(s) = [q |-> s.q, p |-> s.p, done |-> TRUE]
      BY <2>2, <2>4
    <3>4. QED
      BY <1>1, <3>2, <3>3 DEF SinksWell
  <2>5. CASE ~ (PriorityAt(s.q, c) <= PriorityAt(s.q, s.p))
    <3> DEFINE r == Swap(s.q, s.p, c)
    <3>1. PriorityAt(s.q, c) > PriorityAt(s.q, s.p)
      BY <1>1, <2>3, <2>5
    <3>2. Sound(r) /\ SameItems(s.q, r) /\ HeapBut(r, c) /\ Ordered(r, c)
      BY <1>1, <2>1, <3>1, SinkSwap
    <3>3. Sink(s) = [q |-> r, p |-> c, done |-> FALSE]
      BY <2>2, <2>5
    <3> HIDE DEF r
    <3>4. SameItems(q, r)
      BY <1>1, <3>2, SameTwice
    <3>5. s.p < c /\ c \in Nat /\ s.p \in Nat
      <4>1. c \in Nat /\ c > 0 /\ s.p \in Nat
        BY <1>1, <2>1
      <4>2. QED
        BY <2>1, <4>1, ParentFacts
    <3>6. c >= n + 1
      BY <1>1, <1>3, <3>5
    <3>7. QED
      BY <3>2, <3>3, <3>4, <3>6 DEF SinksWell
  <2>6. QED
    BY <2>4, <2>5
<1>4. QED
  BY <1>1, <1>2, <1>3

LEMMA ShiftDownFacts ==
  ASSUME QueueAssumption, NEW q, Sound(q), NEW p, HeapBut(q, p), p # 0 => Ordered(q, p)
  PROVE  LET d == ShiftDown(q, p)
         IN Sound(d.q) /\ SameItems(q, d.q) /\ Heap(d.q)
<1> DEFINE N == Cardinality(Handles)
<1>1. N \in Nat /\ q.size \in Nat /\ q.size <= N
  BY SizeBound
<1>2. p \in 0 .. q.size - 1 /\ p \in Nat
  BY <1>1 DEF HeapBut
<1>3. PICK f : Loops(f, FALSE, Started(q, p), N) /\ ShiftDown(q, p) = f[N]
  BY ShiftIsLoop
<1> HIDE DEF N
<1> DEFINE S == {n \in 0 .. N : SinksWell(q, f[n], n)}
<1>4. 0 \in S
  <2>1. f[0] = Started(q, p)
    BY <1>1, <1>3 DEF Loops
  <2>2. SameItems(q, q)
    BY DEF SameItems
  <2>3. SinksWell(q, Started(q, p), 0)
    BY <1>2, <2>2 DEF SinksWell, Started
  <2>4. QED
    BY <1>1, <2>1, <2>3
<1>5. ASSUME NEW n \in 0 .. N, n # 0, n - 1 \in S PROVE n \in S
  <2>1. f[n] = Sink(f[n - 1])
    BY <1>1, <1>3, <1>5 DEF Loops, Turn
  <2>2. n - 1 \in Nat /\ SinksWell(q, f[n - 1], n - 1) /\ (n - 1) + 1 = n
    BY <1>5
  <2>3. SinksWell(q, Sink(f[n - 1]), (n - 1) + 1)
    BY <2>2, SinkKeeps
  <2>4. QED
    BY <2>1, <2>2, <2>3
<1> HIDE DEF S
<1>6. N \in S
  <2>1. 0 .. N \subseteq S
    BY <1>1, <1>4, <1>5, TurnInduction
  <2>2. QED
    BY <1>1, <2>1
<1> DEFINE d == f[N]
<1>7. SinksWell(q, d, N)
  BY <1>6 DEF S
<1> HIDE DEF d
<1>8. d.p \in 0 .. d.q.size - 1 /\ d.q.size = q.size
  BY <1>7 DEF SinksWell, HeapBut, SameItems
<1>9. ~ (d.p >= N)
  BY <1>1, <1>8
<1>10. Heap(d.q)
  BY <1>7, <1>9, LeafIsLast DEF SinksWell
<1>11. QED
  BY <1>3, <1>7, <1>10 DEF SinksWell, d

(***************************************************************************)
(* Both loops together put one item that is out of order in its place.     *)
(***************************************************************************)
LEMMA SettleFacts ==
  ASSUME QueueAssumption, NEW q, Sound(q), NEW p, HeapBut(q, p)
  PROVE  Sound(Settle(q, p)) /\ SameItems(q, Settle(q, p)) /\ Heap(Settle(q, p))
<1> DEFINE u == ShiftUp(q, p)
<1>1. /\ Sound(u.q) /\ SameItems(q, u.q) /\ HeapBut(u.q, u.p)
      /\ u.p # 0 => Ordered(u.q, u.p)
  BY ShiftUpFacts
<1>2. Settle(q, p) = ShiftDown(u.q, u.p).q
  BY DEF Settle
<1> HIDE DEF u
<1>3. /\ Sound(Settle(q, p)) /\ SameItems(u.q, Settle(q, p)) /\ Heap(Settle(q, p))
  BY <1>1, <1>2, ShiftDownFacts
<1>4. QED
  BY <1>1, <1>3, SameTwice

-----------------------------------------------------------------------------
(* The calls.                                                              *)

\* The queue without its last item, which is freed.
WithoutLast(q) ==
  [items  |-> [q.items EXCEPT ![q.size - 1 + 1] = NULL],
   size   |-> q.size - 1,
   handle |-> [h \in DOMAIN q.handle \ {At(q, q.size - 1)} |-> q.handle[h]]]

LEMMA WithoutLastFacts ==
  ASSUME QueueAssumption, NEW q, Sound(q), q.size > 0
  PROVE  LET r == WithoutLast(q)
         IN /\ Sound(r) /\ r.size = q.size - 1
            /\ DOMAIN r.handle = DOMAIN q.handle \ {At(q, q.size - 1)}
            /\ \A h \in DOMAIN r.handle : r.handle[h].priority = q.handle[h].priority
            /\ \A x \in 0 .. r.size - 1 : PriorityAt(r, x) = PriorityAt(q, x)
<1> DEFINE last == q.size - 1
           g == At(q, last)
           r == WithoutLast(q)
<1>1. /\ q.size \in Nat /\ last \in 0 .. q.size - 1 /\ last + 1 \in 1 .. Len(q.items)
      /\ Len(q.items) \in Nat /\ q.size <= Len(q.items) /\ last + 1 = q.size
      /\ q.items \in Seq(Handles \cup {NULL})
      /\ \E n \in 0 .. Len(q.items) : Len(q.items) = 2 * n + 1
      /\ DOMAIN q.handle \subseteq Handles /\ q.handle \in [DOMAIN q.handle -> Items]
  BY DEF Sound, IsQueue
<1>2. g \in DOMAIN q.handle /\ q.handle[g].position = last
  BY <1>1, SoundFacts
<1>3. /\ r.items = [q.items EXCEPT ![last + 1] = NULL]
      /\ r.size = last
      /\ r.handle = [h \in DOMAIN q.handle \ {g} |-> q.handle[h]]
      /\ r = [items |-> r.items, size |-> r.size, handle |-> r.handle]
  BY DEF WithoutLast
<1> HIDE DEF r
<1>4. /\ r.items \in Seq(Handles \cup {NULL}) /\ Len(r.items) = Len(q.items)
      /\ \A i \in 1 .. Len(q.items) : r.items[i] = IF i = last + 1 THEN NULL ELSE q.items[i]
  BY <1>1, <1>3, ExceptSeq
<1>5. /\ DOMAIN r.handle = DOMAIN q.handle \ {g}
      /\ \A h \in DOMAIN r.handle : r.handle[h] = q.handle[h]
  BY <1>3
<1>6. IsQueue(r)
  <2>1. r.handle \in [DOMAIN r.handle -> Items]
    BY <1>1, <1>3
  <2>2. r.size \in 0 .. Len(r.items)
    BY <1>1, <1>3, <1>4
  <2>3. QED
    BY <1>1, <1>3, <1>4, <1>5, <2>1, <2>2 DEF IsQueue
<1>7. \A x \in 0 .. Len(q.items) - 1 : At(r, x) = IF x = last THEN NULL ELSE At(q, x)
  <2>1. ASSUME NEW x \in 0 .. Len(q.items) - 1
        PROVE  r.items[x + 1] = IF x = last THEN NULL ELSE q.items[x + 1]
    <3>1. x + 1 \in 1 .. Len(q.items) /\ (x + 1 = last + 1 <=> x = last)
      BY <1>1
    <3>2. QED
      BY <1>4, <3>1
  <2>2. QED
    BY <2>1 DEF At
<1>8. ASSUME NEW x \in 0 .. last - 1
      PROVE  /\ At(r, x) = At(q, x) /\ At(q, x) \in DOMAIN r.handle
             /\ q.handle[At(q, x)].position = x
  <2>1. x \in 0 .. q.size - 1 /\ x \in 0 .. Len(q.items) - 1 /\ x # last
    BY <1>1
  <2>2. At(q, x) \in DOMAIN q.handle /\ q.handle[At(q, x)].position = x
    BY <2>1, SoundFacts
  <2>3. QED
    BY <1>2, <1>5, <1>7, <2>1, <2>2
<1>9. Placed(r)
  <2>1. \A x \in 0 .. r.size - 1 : At(r, x) \in DOMAIN r.handle /\ r.handle[At(r, x)].position = x
    BY <1>3, <1>5, <1>8
  <2>2. ASSUME NEW x \in r.size .. Len(r.items) - 1 PROVE At(r, x) = NULL
    <3>1. x \in 0 .. Len(q.items) - 1 /\ (x # last => x \in q.size .. Len(q.items) - 1)
      BY <1>1, <1>3, <1>4, SMTT(60)
    <3>2. x # last => At(q, x) = NULL
      BY <3>1 DEF Sound, Placed
    <3>3. QED
      BY <1>7, <3>1, <3>2
  <2>3. ASSUME NEW h \in DOMAIN r.handle
        PROVE  r.handle[h].position < r.size /\ At(r, r.handle[h].position) = h
    <3> DEFINE x == q.handle[h].position
    <3>1. h \in DOMAIN q.handle /\ h # g /\ r.handle[h] = q.handle[h]
      BY <1>5
    <3>2. x < q.size /\ At(q, x) = h /\ x \in Nat
      BY <3>1, <1>1 DEF Sound, Placed, Items
    <3>3. x # last
      BY <3>1, <3>2
    <3> HIDE DEF x
    <3>4. x \in 0 .. last - 1
      BY <1>1, <3>2, <3>3
    <3>5. At(r, x) = h /\ x < r.size
      BY <1>1, <1>3, <1>8, <3>2, <3>4
    <3>6. QED
      BY <3>1, <3>5 DEF x
  <2>4. QED
    BY <2>1, <2>2, <2>3 DEF Placed
<1>10. \A x \in 0 .. r.size - 1 : PriorityAt(r, x) = PriorityAt(q, x)
  BY <1>3, <1>5, <1>8 DEF PriorityAt
<1>11. QED
  BY <1>3, <1>5, <1>6, <1>9, <1>10 DEF r, Sound

(***************************************************************************)
(* heapExtractItem: the item at p is gone, and only that.                  *)
(***************************************************************************)
LEMMA ExtractFacts ==
  ASSUME QueueAssumption, NEW q, Sound(q), Heap(q), NEW p \in 0 .. q.size - 1
  PROVE  LET r == Extract(q, p)
         IN /\ Sound(r) /\ Heap(r) /\ r.size = q.size - 1
            /\ DOMAIN r.handle = DOMAIN q.handle \ {At(q, p)}
            /\ \A h \in DOMAIN r.handle : r.handle[h].priority = q.handle[h].priority
<1> DEFINE last == q.size - 1
<1>1. /\ q.size \in Nat /\ p \in Nat /\ q.size > 0 /\ last \in 0 .. q.size - 1
  BY DEF Sound, IsQueue
<1>2. \A x \in 0 .. q.size - 1 : PriorityAt(q, x) \in Int
  BY SoundFacts
<1>3. ASSUME NEW x \in 1 .. q.size - 1
      PROVE  /\ x \in 0 .. q.size - 1 /\ Parent(x) \in 0 .. q.size - 1 /\ Parent(x) < x
             /\ PriorityAt(q, x) <= PriorityAt(q, Parent(x))
  <2>1. x \in Nat /\ x > 0 /\ x <= q.size - 1
    BY <1>1
  <2>2. Parent(x) \in Nat /\ Parent(x) < x
    BY <2>1, ParentFacts
  <2>3. QED
    BY <1>1, <2>1, <2>2 DEF Heap, Ordered
<1>4. CASE p = last
  <2> DEFINE r == WithoutLast(q)
  <2>1. /\ Sound(r) /\ r.size = q.size - 1
        /\ DOMAIN r.handle = DOMAIN q.handle \ {At(q, p)}
        /\ \A h \in DOMAIN r.handle : r.handle[h].priority = q.handle[h].priority
        /\ \A x \in 0 .. r.size - 1 : PriorityAt(r, x) = PriorityAt(q, x)
    BY <1>1, <1>4, WithoutLastFacts
  <2>2. Extract(q, p) = r
    BY <1>4 DEF Extract, WithoutLast
  <2> HIDE DEF r
  <2>3. ASSUME NEW x \in 1 .. r.size - 1 PROVE Ordered(r, x)
    <3>1. x \in 1 .. q.size - 1 /\ x \in 0 .. r.size - 1 /\ x <= r.size - 1
      BY <1>1, <2>1
    <3>2. Parent(x) \in 0 .. r.size - 1
      BY <1>1, <1>3, <2>1, <3>1
    <3>3. QED
      BY <1>3, <2>1, <3>1, <3>2 DEF Ordered
  <2>4. QED
    BY <2>1, <2>2, <2>3 DEF Heap
<1>5. CASE p # last
  <2> DEFINE m == Swap(q, p, last)
             r == WithoutLast(m)
  <2>1. /\ Sound(m) /\ SameItems(q, m) /\ m.size = q.size
        /\ PriorityAt(m, p) = PriorityAt(q, last) /\ At(m, last) = At(q, p)
        /\ \A x \in 0 .. q.size - 1 : x # p /\ x # last => PriorityAt(m, x) = PriorityAt(q, x)
    BY <1>1, <1>5, SwapFacts DEF SameItems
  <2> HIDE DEF m
  <2>2. /\ Sound(r) /\ r.size = q.size - 1
        /\ DOMAIN r.handle = DOMAIN q.handle \ {At(q, p)}
        /\ \A h \in DOMAIN r.handle : r.handle[h].priority = m.handle[h].priority
        /\ \A x \in 0 .. r.size - 1 : PriorityAt(r, x) = PriorityAt(m, x)
    <3>1. m.size > 0 /\ At(m, m.size - 1) = At(q, p) /\ DOMAIN m.handle = DOMAIN q.handle
      BY <1>1, <2>1 DEF SameItems
    <3>2. QED
      BY <2>1, <3>1, WithoutLastFacts
  <2>3. Extract(q, p) = Settle(r, p)
    BY <1>5, <2>1 DEF Extract, WithoutLast, m
  <2> HIDE DEF r
  <2>4. ASSUME NEW x \in 1 .. r.size - 1
        PROVE  /\ x \in 1 .. q.size - 1 /\ x # last
               /\ Parent(x) # last /\ Parent(x) \in 0 .. r.size - 1
               /\ x # p => PriorityAt(r, x) = PriorityAt(q, x)
               /\ Parent(x) # p => PriorityAt(r, Parent(x)) = PriorityAt(q, Parent(x))
    <3>1. x \in 1 .. q.size - 1 /\ x \in 0 .. r.size - 1 /\ x # last /\ x < last
      BY <1>1, <2>2
    <3>2. Parent(x) \in 0 .. r.size - 1 /\ Parent(x) # last /\ Parent(x) \in 0 .. q.size - 1
      BY <1>1, <1>3, <2>2, <3>1
    <3>3. x \in 0 .. q.size - 1
      BY <1>3, <3>1
    <3>4. QED
      BY <2>1, <2>2, <3>1, <3>2, <3>3
  <2>5. p \in 0 .. r.size - 1
    BY <1>1, <1>5, <2>2
  <2>6. ASSUME NEW x \in 1 .. r.size - 1, x # p, Parent(x) # p PROVE Ordered(r, x)
    BY <1>3, <2>4, <2>6 DEF Ordered
  <2>7. ASSUME p # 0, NEW x \in 1 .. r.size - 1, Parent(x) = p
        PROVE  PriorityAt(r, x) <= PriorityAt(r, Parent(p))
    <3>1. p \in 1 .. r.size - 1 /\ p \in 1 .. q.size - 1
      BY <1>1, <2>2, <2>5, <2>7
    <3>2. Parent(p) # p /\ x # p
      BY <1>3, <2>4, <2>7, <3>1, <1>1
    <3>3. /\ PriorityAt(r, x) = PriorityAt(q, x)
          /\ PriorityAt(r, Parent(p)) = PriorityAt(q, Parent(p))
      BY <2>4, <3>1, <3>2
    <3>4. /\ PriorityAt(q, x) <= PriorityAt(q, p) /\ PriorityAt(q, p) <= PriorityAt(q, Parent(p))
          /\ PriorityAt(q, x) \in Int /\ PriorityAt(q, p) \in Int /\ PriorityAt(q, Parent(p)) \in Int
      BY <1>2, <1>3, <2>4, <2>7, <3>1
    <3>5. QED
      BY <3>3, <3>4
  <2>8. HeapBut(r, p)
    BY <2>5, <2>6, <2>7 DEF HeapBut
  <2>9. Sound(Settle(r, p)) /\ SameItems(r, Settle(r, p)) /\ Heap(Settle(r, p))
    BY <2>2, <2>8, SettleFacts
  <2>10. QED
    BY <2>1, <2>2, <2>3, <2>9 DEF SameItems
<1>6. QED
  BY <1>4, <1>5

LEMMA GrownFacts ==
  ASSUME NEW items \in Seq(Handles \cup {NULL}), NEW size \in 0 .. Len(items),
         \E n \in 0 .. Len(items) : Len(items) = 2 * n + 1
  PROVE  LET g == Grown(items, size)
         IN /\ g \in Seq(Handles \cup {NULL}) /\ size < Len(g)
            /\ \E n \in 0 .. Len(g) : Len(g) = 2 * n + 1
            /\ Len(items) \in Nat /\ Len(items) <= Len(g) /\ Len(g) \in Nat
            /\ \A i \in 1 .. Len(g) : g[i] = IF i <= Len(items) THEN items[i] ELSE NULL
<1> DEFINE g == Grown(items, size)
           more == [n \in 1 .. size + 1 |-> NULL]
<1>1. Len(items) \in Nat /\ size \in Nat /\ size <= Len(items)
  OBVIOUS
<1>2. CASE size # Len(items)
  <2>1. g = items /\ size < Len(items)
    BY <1>1, <1>2 DEF Grown
  <2>2. QED
    BY <1>1, <2>1
<1>3. CASE size = Len(items)
  <2>1. g = items \o more
    BY <1>3 DEF Grown
  <2>2. /\ more \in Seq(Handles \cup {NULL}) /\ Len(more) = size + 1
        /\ \A i \in 1 .. size + 1 : more[i] = NULL
    BY <1>1
  <2> HIDE DEF more, g
  <2>3. /\ g \in Seq(Handles \cup {NULL}) /\ Len(g) = size + (size + 1)
        /\ \A i \in 1 .. Len(g) : g[i] = IF i <= Len(items) THEN items[i] ELSE more[i - Len(items)]
    <3> DEFINE T == Handles \cup {NULL}
    <3>1. items \in Seq(T) /\ more \in Seq(T)
      BY <2>2
    <3> HIDE DEF T
    <3>2. /\ items \o more \in Seq(T) /\ Len(items \o more) = Len(items) + Len(more)
          /\ \A i \in 1 .. Len(items) + Len(more) :
               (items \o more)[i] = IF i <= Len(items) THEN items[i] ELSE more[i - Len(items)]
      BY <3>1, ConcatProperties
    <3>3. QED
      BY <1>3, <2>1, <2>2, <3>2 DEF T
  <2>4. Len(g) = 2 * size + 1 /\ size \in 0 .. Len(g)
    BY <1>1, <2>3
  <2>5. ASSUME NEW i \in 1 .. Len(g), ~ (i <= Len(items)) PROVE more[i - Len(items)] = NULL
    BY <1>1, <1>3, <2>2, <2>4, <2>5
  <2>6. \A i \in 1 .. Len(g) : g[i] = IF i <= Len(items) THEN items[i] ELSE NULL
    BY <2>3, <2>5
  <2>7. size < Len(g) /\ Len(items) <= Len(g) /\ Len(g) \in Nat
    BY <1>1, <1>3, <2>4
  <2>8. QED
    BY <1>1, <2>3, <2>4, <2>6, <2>7 DEF g
<1>4. QED
  BY <1>2, <1>3

\* The queue with one item more, at the end.
WithOneMore(q, h, priority) ==
  [items  |-> [Grown(q.items, q.size) EXCEPT ![q.size + 1] = h],
   size   |-> q.size + 1,
   handle |-> With(q.handle, h, [priority |-> priority, position |-> q.size])]

LEMMA WithOneMoreFacts ==
  ASSUME QueueAssumption, NEW q, Sound(q), NEW h \in Handles \ DOMAIN q.handle,
         NEW priority \in Priorities
  PROVE  LET r == WithOneMore(q, h, priority)
         IN /\ Sound(r) /\ r.size = q.size + 1
            /\ DOMAIN r.handle = DOMAIN q.handle \cup {h} /\ r.handle[h].priority = priority
            /\ \A i \in DOMAIN q.handle : r.handle[i].priority = q.handle[i].priority
            /\ \A x \in 0 .. q.size - 1 : PriorityAt(r, x) = PriorityAt(q, x)
<1> DEFINE r == WithOneMore(q, h, priority)
           g == Grown(q.items, q.size)
           new == [priority |-> priority, position |-> q.size]
<1>1. /\ q.size \in Nat /\ Len(q.items) \in Nat /\ q.size \in 0 .. Len(q.items)
      /\ q.items \in Seq(Handles \cup {NULL})
      /\ \E n \in 0 .. Len(q.items) : Len(q.items) = 2 * n + 1
      /\ DOMAIN q.handle \subseteq Handles /\ q.handle \in [DOMAIN q.handle -> Items]
      /\ h \in Handles /\ h \notin DOMAIN q.handle
  BY DEF Sound, IsQueue
<1>2. /\ g \in Seq(Handles \cup {NULL}) /\ q.size < Len(g)
      /\ \E n \in 0 .. Len(g) : Len(g) = 2 * n + 1
      /\ Len(q.items) <= Len(g) /\ Len(g) \in Nat
      /\ \A i \in 1 .. Len(g) : g[i] = IF i <= Len(q.items) THEN q.items[i] ELSE NULL
  BY <1>1, GrownFacts
<1>3. /\ r.items = [g EXCEPT ![q.size + 1] = h]
      /\ r.size = q.size + 1
      /\ r.handle = [i \in DOMAIN q.handle \cup {h} |-> IF i = h THEN new ELSE q.handle[i]]
      /\ r = [items |-> r.items, size |-> r.size, handle |-> r.handle]
  BY DEF WithOneMore, With
<1> HIDE DEF r, g
<1>4. /\ r.items \in Seq(Handles \cup {NULL}) /\ Len(r.items) = Len(g)
      /\ \A i \in 1 .. Len(g) : r.items[i] = IF i = q.size + 1 THEN h ELSE g[i]
  <2>1. q.size + 1 \in 1 .. Len(g)
    BY <1>1, <1>2
  <2>2. QED
    BY <1>1, <1>2, <1>3, <2>1, ExceptSeq
<1>5. /\ DOMAIN r.handle = DOMAIN q.handle \cup {h} /\ r.handle[h] = new
      /\ \A i \in DOMAIN q.handle : r.handle[i] = q.handle[i]
  BY <1>1, <1>3
<1>6. IsQueue(r)
  <2>1. new \in Items
    BY <1>1 DEF Items
  <2>2. r.handle \in [DOMAIN r.handle -> Items]
    BY <1>1, <1>3, <2>1
  <2>3. r.size \in 0 .. Len(r.items)
    BY <1>1, <1>2, <1>3, <1>4
  <2>4. QED
    BY <1>1, <1>2, <1>3, <1>4, <1>5, <2>2, <2>3 DEF IsQueue
<1>7. /\ At(r, q.size) = h
      /\ \A x \in 0 .. q.size - 1 : At(r, x) = At(q, x)
      /\ \A x \in q.size + 1 .. Len(g) - 1 : At(r, x) = NULL
  <2>1. r.items[q.size + 1] = h
    <3>1. q.size + 1 \in 1 .. Len(g)
      BY <1>1, <1>2
    <3>2. QED
      BY <1>4, <3>1
  <2>2. ASSUME NEW x \in 0 .. q.size - 1 PROVE r.items[x + 1] = q.items[x + 1]
    <3>1. x + 1 \in 1 .. Len(g) /\ x + 1 <= Len(q.items) /\ x + 1 # q.size + 1
      BY <1>1, <1>2, SMTT(60)
    <3>2. QED
      BY <1>2, <1>4, <3>1
  <2>3. ASSUME NEW x \in q.size + 1 .. Len(g) - 1 PROVE r.items[x + 1] = NULL
    <3>1. x + 1 \in 1 .. Len(g) /\ x + 1 # q.size + 1
      BY <1>1, <1>2
    <3>2. CASE x + 1 <= Len(q.items)
      <4>1. x \in q.size .. Len(q.items) - 1
        BY <1>1, <3>1, <3>2
      <4>2. q.items[x + 1] = NULL
        BY <4>1 DEF Sound, Placed, At
      <4>3. QED
        BY <1>2, <1>4, <3>1, <3>2, <4>2
    <3>3. CASE ~ (x + 1 <= Len(q.items))
      BY <1>2, <1>4, <3>1, <3>3
    <3>4. QED
      BY <3>2, <3>3
  <2>4. QED
    BY <2>1, <2>2, <2>3 DEF At
<1>8. \A x \in 0 .. q.size - 1 : At(q, x) \in DOMAIN q.handle /\ q.handle[At(q, x)].position = x
  BY SoundFacts
<1>9. Placed(r)
  <2>1. ASSUME NEW x \in 0 .. r.size - 1
        PROVE  At(r, x) \in DOMAIN r.handle /\ r.handle[At(r, x)].position = x
    <3>1. x = q.size \/ x \in 0 .. q.size - 1
      BY <1>1, <1>3
    <3>2. QED
      BY <1>5, <1>7, <1>8, <3>1
  <2>2. \A x \in r.size .. Len(r.items) - 1 : At(r, x) = NULL
    BY <1>3, <1>4, <1>7
  <2>3. ASSUME NEW i \in DOMAIN r.handle
        PROVE  r.handle[i].position < r.size /\ At(r, r.handle[i].position) = i
    <3>1. CASE i = h
      BY <1>1, <1>3, <1>5, <1>7, <3>1
    <3>2. CASE i # h
      <4> DEFINE x == q.handle[i].position
      <4>1. i \in DOMAIN q.handle /\ r.handle[i] = q.handle[i]
        BY <1>5, <3>2
      <4>2. x < q.size /\ At(q, x) = i /\ x \in Nat
        BY <1>1, <4>1 DEF Sound, Placed, Items
      <4> HIDE DEF x
      <4>3. x \in 0 .. q.size - 1 /\ x < r.size
        BY <1>1, <1>3, <4>2
      <4>4. At(r, x) = i
        BY <1>7, <4>2, <4>3
      <4>5. QED
        BY <4>1, <4>3, <4>4 DEF x
    <3>3. QED
      BY <3>1, <3>2
  <2>4. QED
    BY <2>1, <2>2, <2>3 DEF Placed
<1>10. \A x \in 0 .. q.size - 1 : PriorityAt(r, x) = PriorityAt(q, x)
  BY <1>5, <1>7, <1>8 DEF PriorityAt
<1>11. QED
  BY <1>3, <1>5, <1>6, <1>9, <1>10 DEF r, Sound

(***************************************************************************)
(* xanQueue_put: one item more, and the others as they were.               *)
(***************************************************************************)
LEMMA PutFacts ==
  ASSUME QueueAssumption, NEW q, Sound(q), Heap(q), NEW h \in Handles \ DOMAIN q.handle,
         NEW priority \in Priorities
  PROVE  LET r == Put(q, h, priority)
         IN /\ Sound(r) /\ Heap(r) /\ r.size = q.size + 1
            /\ DOMAIN r.handle = DOMAIN q.handle \cup {h} /\ r.handle[h].priority = priority
            /\ \A i \in DOMAIN q.handle : r.handle[i].priority = q.handle[i].priority
<1> DEFINE r == WithOneMore(q, h, priority)
           p == q.size
<1>1. /\ Sound(r) /\ r.size = q.size + 1
      /\ DOMAIN r.handle = DOMAIN q.handle \cup {h} /\ r.handle[h].priority = priority
      /\ \A i \in DOMAIN q.handle : r.handle[i].priority = q.handle[i].priority
      /\ \A x \in 0 .. q.size - 1 : PriorityAt(r, x) = PriorityAt(q, x)
  BY WithOneMoreFacts
<1>2. Put(q, h, priority) = Settle(r, p)
  BY DEF Put, WithOneMore
<1> HIDE DEF r
<1>3. p \in Nat /\ p \in 0 .. r.size - 1
  BY <1>1 DEF Sound, IsQueue
<1>4. ASSUME NEW x \in 1 .. r.size - 1
      PROVE  x \in Nat /\ x > 0 /\ x <= p /\ Parent(x) \in Nat /\ Parent(x) < x
  <2>1. x \in Nat /\ x > 0 /\ x <= p
    BY <1>1, <1>3
  <2>2. QED
    BY <2>1, ParentFacts
<1>5. ASSUME NEW x \in 1 .. r.size - 1, x # p PROVE Ordered(r, x)
  <2>1. /\ x \in 1 .. q.size - 1 /\ x \in 0 .. q.size - 1 /\ Parent(x) \in 0 .. q.size - 1
    BY <1>3, <1>4, <1>5
  <2>2. QED
    BY <1>1, <2>1 DEF Heap, Ordered
<1>6. ASSUME NEW x \in 1 .. r.size - 1 PROVE Parent(x) # p
  BY <1>3, <1>4
<1>7. HeapBut(r, p)
  BY <1>3, <1>5, <1>6 DEF HeapBut
<1>8. Sound(Settle(r, p)) /\ SameItems(r, Settle(r, p)) /\ Heap(Settle(r, p))
  BY <1>1, <1>7, SettleFacts
<1>9. QED
  BY <1>1, <1>2, <1>8 DEF SameItems

(***************************************************************************)
(* xanQueue_changeItemPriority: the item has the new priority, and the     *)
(* others have theirs.                                                     *)
(***************************************************************************)
LEMMA ChangeFacts ==
  ASSUME QueueAssumption, NEW q, Sound(q), Heap(q), NEW h \in DOMAIN q.handle,
         NEW priority \in Priorities
  PROVE  LET r == Settle([q EXCEPT !.handle[h].priority = priority], q.handle[h].position)
         IN /\ Sound(r) /\ Heap(r) /\ r.size = q.size
            /\ DOMAIN r.handle = DOMAIN q.handle /\ r.handle[h].priority = priority
            /\ \A i \in DOMAIN q.handle : i # h => r.handle[i].priority = q.handle[i].priority
<1> DEFINE r == [q EXCEPT !.handle[h].priority = priority]
           p == q.handle[h].position
           new == [priority |-> priority, position |-> p]
<1>1. /\ q = [items |-> q.items, size |-> q.size, handle |-> q.handle]
      /\ q.handle \in [DOMAIN q.handle -> Items] /\ q.handle[h] \in Items
      /\ q.size \in Nat
  BY DEF Sound, IsQueue
<1>2. p \in 0 .. q.size - 1 /\ At(q, p) = h /\ p \in Nat /\ new \in Items
  BY <1>1 DEF Sound, Placed, Items
<1>3. r = [items |-> q.items, size |-> q.size,
           handle |-> [q.handle EXCEPT ![h].priority = priority]]
  BY <1>1
<1>4. /\ r = [items |-> r.items, size |-> r.size, handle |-> r.handle]
      /\ r.items = q.items /\ r.size = q.size
      /\ r.handle = [q.handle EXCEPT ![h].priority = priority]
  BY <1>3
<1> HIDE DEF r
<1>5. /\ DOMAIN r.handle = DOMAIN q.handle /\ r.handle[h] = new
      /\ \A i \in DOMAIN q.handle : i # h => r.handle[i] = q.handle[i]
      /\ r.handle \in [DOMAIN r.handle -> Items]
  <2>1. [q.handle[h] EXCEPT !.priority = priority] = new
    BY <1>1 DEF Items
  <2>2. r.handle = [q.handle EXCEPT ![h] = [q.handle[h] EXCEPT !.priority = priority]]
    BY <1>4
  <2> HIDE DEF new
  <2>3. QED
    BY <1>1, <1>2, <2>1, <2>2
<1>6. \A x : At(r, x) = At(q, x)
  BY <1>4 DEF At
<1>7. \A x \in 0 .. q.size - 1 : At(q, x) \in DOMAIN q.handle /\ q.handle[At(q, x)].position = x
  BY SoundFacts
<1>8. \A i \in DOMAIN q.handle : r.handle[i].position = q.handle[i].position
  BY <1>5
<1>9. Sound(r)
  <2>1. IsQueue(r)
    BY <1>4, <1>5 DEF Sound, IsQueue
  <2>2. Placed(r)
    BY <1>4, <1>5, <1>6, <1>8 DEF Sound, Placed
  <2>3. QED
    BY <2>1, <2>2 DEF Sound
<1>10. ASSUME NEW x \in 0 .. q.size - 1, x # p PROVE PriorityAt(r, x) = PriorityAt(q, x)
  <2>1. At(q, x) # h /\ At(q, x) \in DOMAIN q.handle
    BY <1>7, <1>10
  <2>2. QED
    BY <1>5, <1>6, <2>1 DEF PriorityAt
<1>11. ASSUME NEW x \in 1 .. q.size - 1
       PROVE  /\ x \in 0 .. q.size - 1 /\ Parent(x) \in 0 .. q.size - 1 /\ Parent(x) < x
              /\ PriorityAt(q, x) <= PriorityAt(q, Parent(x))
              /\ PriorityAt(q, x) \in Int /\ PriorityAt(q, Parent(x)) \in Int
  <2>1. x \in Nat /\ x > 0 /\ x <= q.size - 1
    BY <1>1
  <2>2. Parent(x) \in Nat /\ Parent(x) < x
    BY <2>1, ParentFacts
  <2>3. x \in 0 .. q.size - 1 /\ Parent(x) \in 0 .. q.size - 1
    BY <1>1, <2>1, <2>2
  <2>4. PriorityAt(q, x) \in Int /\ PriorityAt(q, Parent(x)) \in Int
    BY <2>3, SoundFacts
  <2>5. QED
    BY <2>2, <2>3, <2>4 DEF Heap, Ordered
<1>12. HeapBut(r, p)
  <2>1. ASSUME NEW x \in 1 .. r.size - 1, x # p, Parent(x) # p PROVE Ordered(r, x)
    BY <1>4, <1>10, <1>11, <2>1 DEF Ordered
  <2>2. ASSUME p # 0, NEW x \in 1 .. r.size - 1, Parent(x) = p
        PROVE  PriorityAt(r, x) <= PriorityAt(r, Parent(p))
    <3>1. p \in 1 .. q.size - 1 /\ x \in 1 .. q.size - 1
      BY <1>1, <1>2, <1>4, <2>2
    <3>2. x # p /\ Parent(p) # p
      BY <1>1, <1>2, <1>11, <2>2, <3>1
    <3>3. PriorityAt(r, x) = PriorityAt(q, x) /\ PriorityAt(r, Parent(p)) = PriorityAt(q, Parent(p))
      BY <1>10, <1>11, <3>1, <3>2
    <3>4. /\ PriorityAt(q, x) <= PriorityAt(q, p) /\ PriorityAt(q, p) <= PriorityAt(q, Parent(p))
          /\ PriorityAt(q, x) \in Int /\ PriorityAt(q, p) \in Int /\ PriorityAt(q, Parent(p)) \in Int
      BY <1>11, <2>2, <3>1
    <3>5. QED
      BY <3>3, <3>4
  <2>3. QED
    BY <1>2, <1>4, <2>1, <2>2 DEF HeapBut
<1> DEFINE s == Settle(r, p)
<1>13. Sound(s) /\ SameItems(r, s) /\ Heap(s)
  BY <1>9, <1>12, SettleFacts
<1> HIDE DEF s
<1>14. /\ s.size = q.size /\ DOMAIN s.handle = DOMAIN q.handle /\ s.handle[h].priority = priority
       /\ \A i \in DOMAIN q.handle : i # h => s.handle[i].priority = q.handle[i].priority
  BY <1>4, <1>5, <1>13 DEF SameItems
<1>15. QED
  BY <1>13, <1>14 DEF r, s

-----------------------------------------------------------------------------
(* The theorems.                                                           *)

AsWanted ==
  /\ DOMAIN wanted = DOMAIN handle
  /\ \A h \in DOMAIN handle : handle[h].priority = wanted[h]

(***************************************************************************)
(* HeapSound says that the first item is the highest; that it is again     *)
(* after the next call follows from the order of all items, and from the   *)
(* positions that handles and array agree about.                           *)
(***************************************************************************)
IInv ==
  /\ queue = [items |-> queue.items, size |-> queue.size]
  /\ Sound(Queue) /\ Heap(Queue)
  /\ AsWanted

LEMMA HighestIsFirst ==
  ASSUME QueueAssumption, NEW q, Sound(q), Heap(q), NEW p \in 0 .. q.size - 1
  PROVE  PriorityAt(q, p) <= PriorityAt(q, 0)
<1>1. q.size \in Nat /\ q.size > 0 /\ 0 \in 0 .. q.size - 1
  BY DEF Sound, IsQueue
<1>2. \A x \in 0 .. q.size - 1 : PriorityAt(q, x) \in Int
  BY SoundFacts
<1> DEFINE Higher == {x \in 0 .. q.size - 1 : ~ (PriorityAt(q, x) <= PriorityAt(q, 0))}
<1>3. SUFFICES ASSUME Higher # {} PROVE FALSE
  OBVIOUS
<1>4. PICK x \in Higher : \A y \in Higher : x <= y
  <2>1. Higher \in SUBSET Nat
    BY <1>1
  <2>2. QED
    BY <1>3, <2>1, LeastNatural
<1>5. x \in 0 .. q.size - 1 /\ ~ (PriorityAt(q, x) <= PriorityAt(q, 0)) /\ x # 0
  BY <1>1, <1>2
<1>6. x \in 1 .. q.size - 1 /\ x \in Nat /\ x > 0
  BY <1>1, <1>5
<1>7. Parent(x) \in Nat /\ Parent(x) < x /\ Parent(x) \in 0 .. q.size - 1
  <2>1. Parent(x) \in Nat /\ Parent(x) < x
    BY <1>6, ParentFacts
  <2>2. QED
    BY <1>1, <1>5, <2>1
<1>8. PriorityAt(q, x) <= PriorityAt(q, Parent(x))
  BY <1>6 DEF Heap, Ordered
<1>9. PriorityAt(q, Parent(x)) <= PriorityAt(q, 0)
  BY <1>4, <1>6, <1>7
<1>10. QED
  BY <1>1, <1>2, <1>5, <1>7, <1>8, <1>9

LEMMA InvImplies ==
  ASSUME QueueAssumption, IInv
  PROVE  HeapSound
<1> DEFINE q == Queue
<1>1. q.items = queue.items /\ q.size = queue.size /\ q.handle = handle
  BY DEF Queue
<1>2. Sound(q) /\ Heap(q) /\ q.size \in Nat /\ Len(queue.items) \in Nat
  BY <1>1 DEF IInv, Sound, IsQueue
<1> HIDE DEF q
<1>3. DOMAIN wanted = DOMAIN handle /\ \A h \in DOMAIN handle : handle[h].priority = wanted[h]
  BY DEF IInv, AsWanted
<1>4. /\ HeadPriority(q) = IF q.size = 0 THEN -1 ELSE PriorityAt(q, 0)
      /\ \A p : PriorityAt(q, p) = handle[At(q, p)].priority
  BY <1>1 DEF HeadPriority, PriorityAt
<1>5. ASSUME NEW h \in DOMAIN handle
      PROVE  /\ handle[h].position < queue.size
             /\ At(q, handle[h].position) = h
             /\ handle[h].priority = wanted[h]
             /\ wanted[h] <= wanted[At(q, 0)] /\ wanted[At(q, 0)] = HeadPriority(q)
  <2> DEFINE p == handle[h].position
  <2>1. p < q.size /\ At(q, p) = h /\ p \in Nat
    BY <1>1, <1>2 DEF Sound, IsQueue, Placed, Items
  <2> HIDE DEF p
  <2>2. p \in 0 .. q.size - 1 /\ 0 \in 0 .. q.size - 1 /\ q.size # 0
    BY <1>2, <2>1
  <2>3. PriorityAt(q, p) <= PriorityAt(q, 0) /\ At(q, 0) \in DOMAIN handle
    BY <1>1, <1>2, <2>2, HighestIsFirst, SoundFacts
  <2>4. /\ PriorityAt(q, p) = wanted[h] /\ PriorityAt(q, 0) = wanted[At(q, 0)]
        /\ handle[h].priority = wanted[h]
    BY <1>3, <1>4, <2>1, <2>3
  <2>5. QED
    BY <1>1, <1>4, <2>1, <2>2, <2>3, <2>4 DEF p
<1>6. wanted = <<>> => HeadPriority(q) = -1
  <2>1. SUFFICES ASSUME wanted = <<>>, q.size # 0 PROVE FALSE
    BY <1>4
  <2>2. 0 \in 0 .. q.size - 1
    BY <1>2, <2>1
  <2>3. At(q, 0) \in DOMAIN wanted
    BY <1>1, <1>2, <1>3, <2>2, SoundFacts
  <2>4. QED
    BY <2>1, <2>3
<1>7. ASSUME NEW p \in 0 .. Len(queue.items) - 1
      PROVE  At(q, p) = NULL <=> p >= queue.size
  <2>1. CASE p >= queue.size
    <3>1. p \in q.size .. Len(q.items) - 1
      BY <1>1, <1>2, <2>1
    <3>2. QED
      BY <1>2, <2>1, <3>1 DEF Sound, Placed
  <2>2. CASE ~ (p >= queue.size)
    <3>1. p \in 0 .. q.size - 1
      BY <1>1, <1>2, <2>2
    <3>2. QED
      BY <1>2, <2>2, <3>1, SoundFacts
  <2>3. QED
    BY <2>1, <2>2
<1>8. QED
  BY <1>3, <1>5, <1>6, <1>7 DEF HeapSound, q

LEMMA InitInv ==
  ASSUME QueueAssumption, Init
  PROVE  IInv
<1> DEFINE items == [n \in 1 .. DefaultSize |-> NULL]
           q == [items |-> items, size |-> 0, handle |-> handle]
<1>1. /\ queue = [items |-> items, size |-> 0] /\ DOMAIN handle = {} /\ DOMAIN wanted = {}
      /\ handle = [h \in {} |-> NULL]
  BY DEF Init
<1>2. /\ DefaultSize \in Nat /\ items \in Seq(Handles \cup {NULL}) /\ Len(items) = DefaultSize
      /\ \A i \in 1 .. DefaultSize : items[i] = NULL
  BY DEF QueueAssumption
<1>3. \E n \in 0 .. DefaultSize : DefaultSize = 2 * n + 1
  <2>1. DefaultSize \in Nat /\ DefaultSize % 2 = 1
    BY DEF QueueAssumption
  <2>2. DefaultSize = 2 * (DefaultSize \div 2) + 1 /\ DefaultSize \div 2 \in 0 .. DefaultSize
    BY <2>1
  <2>3. QED
    BY <2>2
<1>4. Queue = q /\ queue = [items |-> queue.items, size |-> queue.size]
  BY <1>1 DEF Queue
<1> HIDE DEF items
<1>5. q.items = items /\ q.size = 0 /\ q.handle = handle
  OBVIOUS
<1>6. IsQueue(q)
  <2>1. handle \in [DOMAIN handle -> Items]
    BY <1>1
  <2>2. QED
    BY <1>1, <1>2, <1>3, <1>5, <2>1 DEF IsQueue
<1>7. Placed(q)
  <2>1. ASSUME NEW p \in 0 .. DefaultSize - 1 PROVE At(q, p) = NULL
    BY <1>2, <1>5 DEF At
  <2>2. QED
    BY <1>1, <1>2, <1>5, <2>1 DEF Placed
<1>8. Heap(q)
  BY <1>5 DEF Heap
<1>9. AsWanted
  BY <1>1 DEF AsWanted
<1>10. QED
  BY <1>4, <1>6, <1>7, <1>8, <1>9 DEF IInv, Sound

LEMMA BecomesFacts ==
  ASSUME NEW r, Sound(r), Heap(r), Becomes(r), AsWanted'
  PROVE  IInv' /\ queue'.size = r.size
<1>1. r = [items |-> r.items, size |-> r.size, handle |-> r.handle]
  BY DEF Sound, IsQueue
<1>2. queue' = [items |-> r.items, size |-> r.size] /\ handle' = r.handle
  BY DEF Becomes
<1>3. Queue' = r /\ queue' = [items |-> queue'.items, size |-> queue'.size]
  BY <1>1, <1>2 DEF Queue
<1>4. Sound(Queue)' /\ Heap(Queue)'
  <2>1. Sound(Queue') /\ Heap(Queue')
    BY <1>3
  <2>2. QED
    BY <2>1 DEF Sound, IsQueue, Placed, Heap, Ordered, PriorityAt, At
<1>5. QED
  BY <1>2, <1>3, <1>4 DEF IInv

LEMMA QueueFacts ==
  ASSUME IInv
  PROVE  /\ Sound(Queue) /\ Heap(Queue) /\ AsWanted
         /\ Queue.handle = handle /\ Queue.size = queue.size /\ queue.size \in Nat
         /\ DOMAIN handle \subseteq Handles /\ DOMAIN wanted = DOMAIN handle
         /\ \A h \in DOMAIN handle : handle[h].priority = wanted[h]
BY DEF IInv, Queue, Sound, IsQueue, AsWanted

LEMMA PutItemInv ==
  ASSUME QueueAssumption, IInv, NEW priority \in Priorities, PutItem(priority)
  PROVE  IInv' /\ queue'.size = queue.size + 1
<1> DEFINE h == NewHandle
           r == Put(Queue, h, priority)
<1>1. h \in Handles \ DOMAIN handle
  <2>1. \E i \in Handles : i \notin DOMAIN handle
    BY QueueFacts DEF PutItem
  <2>2. QED
    BY <2>1 DEF NewHandle
<1>2. Becomes(r) /\ wanted' = With(wanted, h, priority)
  BY DEF PutItem
<1> HIDE DEF h
<1>3. /\ Sound(r) /\ Heap(r) /\ r.size = queue.size + 1
      /\ DOMAIN r.handle = DOMAIN handle \cup {h}
      /\ r.handle[h].priority = priority
      /\ \A i \in DOMAIN handle : r.handle[i].priority = handle[i].priority
  BY <1>1, QueueFacts, PutFacts
<1> HIDE DEF r
<1>4. AsWanted'
  <2>1. handle' = r.handle
    BY <1>2 DEF Becomes
  <2>2. /\ DOMAIN wanted' = DOMAIN handle \cup {h} /\ wanted'[h] = priority
        /\ \A i \in DOMAIN handle : wanted'[i] = wanted[i]
    BY <1>1, <1>2, QueueFacts DEF With
  <2>3. QED
    BY <1>3, <2>1, <2>2, QueueFacts DEF AsWanted
<1>5. QED
  BY <1>2, <1>3, <1>4, BecomesFacts

LEMMA TakenInv ==
  ASSUME QueueAssumption, IInv, NEW p \in 0 .. queue.size - 1,
         Becomes(Extract(Queue, p)),
         wanted' = [h \in DOMAIN wanted \ {At(Queue, p)} |-> wanted[h]]
  PROVE  IInv' /\ queue'.size = queue.size - 1
<1> DEFINE r == Extract(Queue, p)
<1>1. /\ Sound(r) /\ Heap(r) /\ r.size = queue.size - 1
      /\ DOMAIN r.handle = DOMAIN handle \ {At(Queue, p)}
      /\ \A h \in DOMAIN r.handle : r.handle[h].priority = handle[h].priority
  BY QueueFacts, ExtractFacts
<1> HIDE DEF r
<1>2. Becomes(r)
  BY DEF r
<1>3. AsWanted'
  <2>1. handle' = r.handle
    BY <1>2 DEF Becomes
  <2>2. QED
    BY <1>1, <2>1, QueueFacts DEF AsWanted
<1>4. QED
  BY <1>1, <1>2, <1>3, BecomesFacts

LEMMA GetInv ==
  ASSUME QueueAssumption, IInv, Get
  PROVE  IInv' /\ queue'.size = queue.size - 1
<1>1. 0 \in 0 .. queue.size - 1
  BY QueueFacts DEF Get
<1>2. QED
  BY <1>1, TakenInv DEF Get

LEMMA RemoveItemInv ==
  ASSUME QueueAssumption, IInv, NEW h \in DOMAIN handle, RemoveItem(h)
  PROVE  IInv' /\ queue'.size = queue.size - 1
<1> DEFINE p == handle[h].position
<1>1. p \in 0 .. queue.size - 1 /\ At(Queue, p) = h
  <2>1. /\ Queue.handle[h].position < Queue.size /\ At(Queue, Queue.handle[h].position) = h
        /\ Queue.handle[h] \in Items
    BY QueueFacts DEF Sound, Placed, IsQueue
  <2>2. p \in Nat /\ p < queue.size /\ At(Queue, p) = h
    BY <2>1, QueueFacts DEF Items
  <2>3. QED
    BY <2>2, QueueFacts
<1>2. Becomes(Extract(Queue, p)) /\ wanted' = [i \in DOMAIN wanted \ {h} |-> wanted[i]]
  BY DEF RemoveItem
<1> HIDE DEF p
<1>3. QED
  BY <1>1, <1>2, TakenInv

LEMMA ChangeItemPriorityInv ==
  ASSUME QueueAssumption, IInv, NEW h \in DOMAIN handle, NEW priority \in Priorities,
         ChangeItemPriority(h, priority)
  PROVE  IInv' /\ queue'.size = queue.size
<1> DEFINE r == Settle([Queue EXCEPT !.handle[h].priority = priority], Queue.handle[h].position)
<1>1. /\ Sound(r) /\ Heap(r) /\ r.size = queue.size /\ DOMAIN r.handle = DOMAIN handle
      /\ r.handle[h].priority = priority
      /\ \A i \in DOMAIN handle : i # h => r.handle[i].priority = handle[i].priority
  <2> DEFINE q == Queue
  <2>1. /\ Sound(q) /\ Heap(q) /\ q.handle = handle /\ q.size = queue.size
    BY QueueFacts
  <2> HIDE DEF q
  <2>2. h \in DOMAIN q.handle
    BY <2>1
  <2>3. LET s == Settle([q EXCEPT !.handle[h].priority = priority], q.handle[h].position)
        IN /\ Sound(s) /\ Heap(s) /\ s.size = q.size
           /\ DOMAIN s.handle = DOMAIN q.handle /\ s.handle[h].priority = priority
           /\ \A i \in DOMAIN q.handle : i # h => s.handle[i].priority = q.handle[i].priority
    BY <2>1, <2>2, ChangeFacts
  <2>4. QED
    BY <2>1, <2>3 DEF q
<1>2. Becomes(r) /\ wanted' = [wanted EXCEPT ![h] = priority]
  BY QueueFacts DEF ChangeItemPriority
<1> HIDE DEF r
<1>3. AsWanted'
  <2>1. handle' = r.handle
    BY <1>2 DEF Becomes
  <2>2. QED
    BY <1>1, <1>2, <2>1, QueueFacts DEF AsWanted
<1>4. QED
  BY <1>1, <1>2, <1>3, BecomesFacts

LEMMA StutterInv ==
  ASSUME IInv, UNCHANGED queueVars
  PROVE  IInv'
<1>1. queue' = queue /\ handle' = handle /\ wanted' = wanted
  BY DEF queueVars
<1>2. QED
  BY <1>1 DEF IInv, AsWanted, Queue, Sound, IsQueue, Placed, Heap, Ordered, PriorityAt, At

LEMMA NextInv ==
  ASSUME QueueAssumption, IInv, [Next]_queueVars
  PROVE  IInv'
<1>1. CASE \E priority \in Priorities : PutItem(priority)
  BY <1>1, PutItemInv
<1>2. CASE Get
  BY <1>2, GetInv
<1>3. CASE \E h \in DOMAIN handle : RemoveItem(h)
  BY <1>3, RemoveItemInv
<1>4. CASE \E h \in DOMAIN handle : \E priority \in Priorities : ChangeItemPriority(h, priority)
  BY <1>4, ChangeItemPriorityInv
<1>5. CASE UNCHANGED queueVars
  BY <1>5, StutterInv
<1>6. QED
  BY <1>1, <1>2, <1>3, <1>4, <1>5 DEF Next

(***************************************************************************)
(* Whatever is put, taken, removed and moved, the array holds the items    *)
(* that were put and not taken, and the first has the highest priority     *)
(* (xanqueue.c).                                                           *)
(***************************************************************************)
THEOREM HeapAlwaysSound ==
  ASSUME QueueAssumption
  PROVE  Spec => []HeapSound
<1>1. Init => IInv
  BY InitInv
<1>2. IInv /\ [Next]_queueVars => IInv'
  BY NextInv
<1>3. IInv => HeapSound
  BY InvImplies
<1>4. QED
  BY <1>1, <1>2, <1>3, PTL DEF Spec

-----------------------------------------------------------------------------
(* Threads that wait for items.                                            *)

\* That no thread sleeps next to items is inductive once the sizes that the
\* calls leave are known: a put adds one item, and only a get and a removal
\* take one.
SyncInv ==
  /\ IInv
  /\ getter \in [Threads -> {"idle", "getting", "asleep"}]
  /\ NobodySleepsNextToItems

LEMMA SyncGetInv ==
  ASSUME QueueAssumption, SyncInv, NEW t \in Threads,
         CallSyncGet(t) \/ SyncGet(t) \/ WaitCondVar(t)
  PROVE  SyncInv'
<1>1. queue.size \in Nat /\ getter \in [Threads -> {"idle", "getting", "asleep"}]
  BY QueueFacts DEF SyncInv
<1>2. CASE Get /\ getter' = [getter EXCEPT ![t] = "idle"]
  <2>1. IInv' /\ queue'.size = queue.size - 1
    BY <1>2, GetInv DEF SyncInv
  <2>2. \A u \in Threads : getter[u] # "asleep"
    BY <1>2 DEF SyncInv, NobodySleepsNextToItems, Get
  <2>3. QED
    BY <1>1, <1>2, <2>1, <2>2 DEF SyncInv, NobodySleepsNextToItems
<1>3. CASE /\ UNCHANGED queueVars
           /\ \/ getter' = [getter EXCEPT ![t] = "getting"]
              \/ queue.size = 0 /\ getter' = [getter EXCEPT ![t] = "asleep"]
  <2>1. IInv' /\ queue' = queue
    BY <1>3, StutterInv DEF SyncInv, queueVars
  <2>2. QED
    BY <1>1, <1>3, <2>1 DEF SyncInv, NobodySleepsNextToItems
<1>4. QED
  BY <1>2, <1>3 DEF CallSyncGet, SyncGet, WaitCondVar

LEMMA SyncPutInv ==
  ASSUME QueueAssumption, SyncInv, NEW priority \in Priorities, SyncPut(priority)
  PROVE  SyncInv'
<1>1. queue.size \in Nat /\ getter \in [Threads -> {"idle", "getting", "asleep"}]
  BY QueueFacts DEF SyncInv
<1>2. IInv' /\ queue'.size = queue.size + 1
  BY PutItemInv DEF SyncInv, SyncPut
<1>3. CASE queue.size = 0
  BY <1>1, <1>2, <1>3 DEF SyncInv, NobodySleepsNextToItems, SyncPut, BroadcastCondVar
<1>4. CASE queue.size > 0
  BY <1>1, <1>2, <1>4 DEF SyncInv, NobodySleepsNextToItems, SyncPut
<1>5. QED
  BY <1>1, <1>3, <1>4

LEMMA SyncNextInv ==
  ASSUME QueueAssumption, SyncInv, [SyncNext]_queueSyncVars
  PROVE  SyncInv'
<1>1. CASE \E t \in Threads : CallSyncGet(t) \/ SyncGet(t) \/ WaitCondVar(t)
  BY <1>1, SyncGetInv
<1>2. CASE \E priority \in Priorities : SyncPut(priority)
  BY <1>2, SyncPutInv
<1>3. CASE \E h \in DOMAIN handle : SyncRemoveItem(h)
  <2>1. IInv' /\ queue'.size = queue.size - 1 /\ getter' = getter
    BY <1>3, RemoveItemInv DEF SyncInv, SyncRemoveItem
  <2>2. queue.size \in Nat
    BY QueueFacts DEF SyncInv
  <2>3. QED
    BY <2>1, <2>2 DEF SyncInv, NobodySleepsNextToItems
<1>4. CASE \E h \in DOMAIN handle :
             \E priority \in Priorities : SyncChangeItemPriority(h, priority)
  <2>1. IInv' /\ queue'.size = queue.size /\ getter' = getter
    BY <1>4, ChangeItemPriorityInv DEF SyncInv, SyncChangeItemPriority
  <2>2. QED
    BY <2>1 DEF SyncInv, NobodySleepsNextToItems
<1>5. CASE UNCHANGED queueSyncVars
  <2>1. IInv' /\ queue' = queue /\ getter' = getter
    BY <1>5, StutterInv DEF SyncInv, queueSyncVars, queueVars
  <2>2. QED
    BY <2>1 DEF SyncInv, NobodySleepsNextToItems
<1>6. QED
  BY <1>1, <1>2, <1>3, <1>4, <1>5 DEF SyncNext

(***************************************************************************)
(* However many threads wait, get, put, remove and change priorities, none *)
(* sleeps in syncGet while the queue has an item, although a put wakes     *)
(* them only when it finds the queue empty; and what they get is the       *)
(* highest item of a sound queue (xanqueue.c).                             *)
(***************************************************************************)
THEOREM NobodyEverSleepsNextToItems ==
  ASSUME QueueAssumption
  PROVE  SyncSpec => [](NobodySleepsNextToItems /\ HeapSound)
<1>1. SyncInit => SyncInv
  BY InitInv DEF SyncInit, SyncInv, NobodySleepsNextToItems
<1>2. SyncInv /\ [SyncNext]_queueSyncVars => SyncInv'
  BY SyncNextInv
<1>3. SyncInv => NobodySleepsNextToItems /\ HeapSound
  BY InvImplies DEF SyncInv
<1>4. QED
  BY <1>1, <1>2, <1>3, PTL DEF SyncSpec

-----------------------------------------------------------------------------
(* The bit sets.                                                           *)

BitSets == [length : Nat \ {0}, capacity : Nat, data : SUBSET Nat]

\* A set has the members of S, all within its length, and no other bit in its words.
HoldsBits(s, S) ==
  /\ s \in BitSets
  /\ s.data = S
  /\ S \subseteq 0 .. s.length - 1

\* What holds of the bit sets between calls.
BInv ==
  /\ bitSet \in [Sets -> BitSets]
  /\ members \in [Sets -> SUBSET (0 .. MaxLength)]
  /\ \A x \in Sets : HoldsBits(bitSet[x], members[x])

(***************************************************************************)
(* Division (WORDS_NECESSARY, and the word of a bit, xanbitset.c).         *)
(***************************************************************************)
LEMMA QuotientGrows ==
  ASSUME NEW w \in Nat \ {0}, NEW i \in Nat, NEW j \in Nat, i <= j
  PROVE  i \div w \in Nat /\ j \div w \in Nat /\ i \div w <= j \div w
<1> DEFINE a == i \div w
           b == j \div w
<1>1. a \in Nat /\ b \in Nat /\ a * w <= i /\ j < (b + 1) * w
  BY Z3
<1>2. \A c, d \in Nat : d < c => (d + 1) * w <= c * w
  OBVIOUS
<1> HIDE DEF a, b
<1>3. ASSUME b < a PROVE FALSE
  <2>1. (b + 1) * w <= a * w /\ (b + 1) * w \in Nat /\ a * w \in Nat
    BY <1>1, <1>2, <1>3
  <2> QED
    BY <1>1, <2>1
<1>4. a <= b
  BY <1>1, <1>3
<1>5. QED
  BY <1>1, <1>4 DEF a, b

\* The words of a length are those of its bits.
LEMMA BitsAreInWords ==
  ASSUME B!BitSetAssumption, NEW len \in Nat \ {0}
  PROVE  /\ B!WordsNecessary(len) \in Nat
         /\ \A b \in 0 .. len - 1 :
              /\ b \div Word \in Nat /\ b \div Word < B!WordsNecessary(len)
              /\ b \in B!AllBits(B!WordsNecessary(len))
<1> DEFINE n == B!WordsNecessary(len)
<1>1. Word \in Nat \ {0} /\ len + Word - 1 \in Nat
  BY DEF B!BitSetAssumption
<1>2. n \in Nat /\ n = (len + Word - 1) \div Word
  BY <1>1, QuotientGrows DEF B!WordsNecessary
<1>3. len + Word - 1 < (n + 1) * Word
  BY <1>1, <1>2, Z3
<1>4. len <= n * Word /\ n * Word \in Nat
  <2> HIDE DEF n
  <2>1. (n + 1) * Word = n * Word + Word /\ n * Word \in Nat
    BY <1>1, <1>2
  <2> QED
    BY <1>1, <1>3, <2>1
<1>5. ASSUME NEW b \in 0 .. len - 1
      PROVE  b \div Word \in Nat /\ b \div Word < n /\ b \in B!AllBits(n)
  <2> DEFINE q == b \div Word
  <2>1. q \in Nat /\ q * Word <= b
    BY <1>1, Z3
  <2> HIDE DEF q, n
  <2>2. q * Word < n * Word /\ q * Word \in Nat
    BY <1>1, <1>4, <2>1
  <2>3. \A c, d \in Nat : d <= c => d * Word <= c * Word
    BY <1>1
  <2>4. q < n
    BY <1>2, <2>1, <2>2, <2>3, <1>4
  <2>5. b \in 0 .. n * Word - 1
    BY <1>4
  <2> QED
    BY <2>1, <2>4, <2>5 DEF q, B!AllBits
<1>6. QED
  BY <1>2, <1>5

\* The words of the length hold all the members.
LEMMA WordsHoldAll ==
  ASSUME B!BitSetAssumption, NEW s, NEW S, HoldsBits(s, S)
  PROVE  /\ B!WordsOf(s) \in Nat
         /\ B!BitsOfWords(s, 0, B!WordsOf(s)) = S
         /\ S \subseteq B!AllBits(B!WordsOf(s))
<1>1. s.length \in Nat \ {0} /\ s.data = S /\ S \subseteq 0 .. s.length - 1
  BY DEF HoldsBits, BitSets
<1>2. /\ B!WordsOf(s) \in Nat
      /\ \A b \in S : b \div Word \in Nat /\ b \div Word < B!WordsOf(s) /\ b \in B!AllBits(B!WordsOf(s))
  BY <1>1, BitsAreInWords DEF B!WordsOf
<1>3. \A b \in S : 0 <= b \div Word /\ b \div Word < B!WordsOf(s)
  BY <1>2
<1>4. QED
  BY <1>1, <1>2, <1>3 DEF B!BitsOfWords

\* The words that both sets have hold what is in both.
LEMMA SharedWords ==
  ASSUME B!BitSetAssumption, NEW s, NEW S, HoldsBits(s, S), NEW t, NEW T, HoldsBits(t, T)
  PROVE  /\ B!Shared(s, t) \in Nat
         /\ B!Shared(s, t) <= B!WordsOf(s) /\ B!Shared(s, t) <= B!WordsOf(t)
         /\ S \cap T \subseteq B!BitsOfWords(s, 0, B!Shared(s, t))
         /\ S \cap T \subseteq B!BitsOfWords(t, 0, B!Shared(s, t))
         /\ B!BitsOfWords(s, 0, B!Shared(s, t)) \subseteq S
         /\ B!BitsOfWords(t, 0, B!Shared(s, t)) \subseteq T
<1>1. /\ s.length \in Nat \ {0} /\ s.data = S /\ S \subseteq 0 .. s.length - 1
      /\ t.length \in Nat \ {0} /\ t.data = T /\ T \subseteq 0 .. t.length - 1
  BY DEF HoldsBits, BitSets
<1>2. B!WordsOf(s) \in Nat /\ B!WordsOf(t) \in Nat
  BY WordsHoldAll
<1>3. \A b \in S : b \div Word \in Nat /\ b \div Word < B!WordsOf(s)
  BY <1>1, BitsAreInWords DEF B!WordsOf
<1>4. \A b \in T : b \div Word \in Nat /\ b \div Word < B!WordsOf(t)
  BY <1>1, BitsAreInWords DEF B!WordsOf
<1>5. /\ B!Shared(s, t) \in {B!WordsOf(s), B!WordsOf(t)}
      /\ B!Shared(s, t) <= B!WordsOf(s) /\ B!Shared(s, t) <= B!WordsOf(t)
  BY <1>2 DEF B!Shared
<1>6. \A b \in S \cap T : 0 <= b \div Word /\ b \div Word < B!Shared(s, t)
  BY <1>3, <1>4, <1>5
<1>7. QED
  BY <1>1, <1>2, <1>5, <1>6 DEF B!BitsOfWords

-----------------------------------------------------------------------------
\* A set that expands keeps its members (expandBitSet).
LEMMA AtLeastHolds ==
  ASSUME B!BitSetAssumption, NEW s, NEW S, HoldsBits(s, S), NEW length \in Nat \ {0}
  PROVE  /\ HoldsBits(B!AtLeast(s, length), S)
         /\ B!AtLeast(s, length).length >= length
<1>1. s \in BitSets /\ s.data = S /\ S \subseteq 0 .. s.length - 1
  BY DEF HoldsBits
<1>2. CASE ~(length > s.length)
  BY <1>1, <1>2 DEF B!AtLeast, BitSets, HoldsBits
<1>3. CASE length > s.length
  <2>1. B!AtLeast(s, length) = B!Expand(s, length)
    BY <1>3 DEF B!AtLeast
  <2>2. S \subseteq 0 .. length - 1
    BY <1>1, <1>3 DEF BitSets
  <2>3. CASE B!WordsNecessary(length) <= s.capacity
    <3>1. B!Expand(s, length) = [s EXCEPT !.length = length]
      BY <2>3 DEF B!Expand
    <3>2. [s EXCEPT !.length = length] \in BitSets
      BY <1>1 DEF BitSets
    <3> QED
      BY <1>1, <2>1, <2>2, <3>1, <3>2 DEF HoldsBits, BitSets
  <2>4. CASE ~(B!WordsNecessary(length) <= s.capacity)
    <3>1. B!Expand(s, length) = [B!EmptySet(length) EXCEPT !.data = S]
      BY <2>4, WordsHoldAll DEF B!Expand
    <3>2. B!EmptySet(length) \in BitSets /\ B!EmptySet(length).length = length
      <4>1. length + length \div 2 \in Nat \ {0}
        OBVIOUS
      <4>2. B!CapacityNecessary(length) \in Nat
        BY <4>1, BitsAreInWords DEF B!CapacityNecessary
      <4> QED
        BY <4>2 DEF B!EmptySet, BitSets
    <3>3. [B!EmptySet(length) EXCEPT !.data = S] \in BitSets
      BY <1>1, <3>2 DEF BitSets
    <3> QED
      BY <1>1, <2>1, <2>2, <3>1, <3>2, <3>3 DEF HoldsBits, BitSets
  <2> QED
    BY <2>3, <2>4
<1>4. QED
  BY <1>2, <1>3

LEMMA EmptySetHolds ==
  ASSUME B!BitSetAssumption, NEW length \in Nat \ {0}
  PROVE  HoldsBits(B!EmptySet(length), {}) /\ B!EmptySet(length).length = length
<1>1. length + length \div 2 \in Nat \ {0}
  OBVIOUS
<1>2. B!CapacityNecessary(length) \in Nat
  BY <1>1, BitsAreInWords DEF B!CapacityNecessary
<1>3. QED
  BY <1>2 DEF B!EmptySet, BitSets, HoldsBits

\* The bits of a set replaced by others within its length.
LEMMA WithData ==
  ASSUME NEW s, NEW S, HoldsBits(s, S), NEW T, T \subseteq 0 .. s.length - 1
  PROVE  HoldsBits([s EXCEPT !.data = T], T)
<1>1. s \in BitSets
  BY DEF HoldsBits
<1>2. T \subseteq Nat
  BY <1>1 DEF BitSets
<1>3. QED
  BY <1>1, <1>2 DEF HoldsBits, BitSets

LEMMA BecomesInv ==
  ASSUME B!BitSetAssumption, BInv, NEW x \in Sets, NEW s, NEW S, HoldsBits(s, S), B!Becomes(x, s, S)
  PROVE  BInv'
<1>1. S \in SUBSET (0 .. MaxLength)
  BY DEF HoldsBits, BitSets, B!Becomes, B!BitSetAssumption
<1>2. s \in BitSets
  BY DEF HoldsBits
<1>3. /\ bitSet' = [bitSet EXCEPT ![x] = s] /\ members' = [members EXCEPT ![x] = S]
  BY DEF B!Becomes
<1>4. bitSet' \in [Sets -> BitSets] /\ members' \in [Sets -> SUBSET (0 .. MaxLength)]
  BY <1>1, <1>2, <1>3 DEF BInv
<1>5. ASSUME NEW y \in Sets PROVE HoldsBits(bitSet[y], members[y])'
  <2>1. CASE y = x
    <3>1. bitSet'[y] = s /\ members'[y] = S
      BY <1>3, <2>1 DEF BInv
    <3> QED
      BY <3>1 DEF HoldsBits
  <2>2. CASE y # x
    <3>1. bitSet'[y] = bitSet[y] /\ members'[y] = members[y]
      BY <1>3, <2>2 DEF BInv
    <3> QED
      BY <3>1 DEF BInv, HoldsBits
  <2> QED
    BY <2>1, <2>2
<1>6. QED
  BY <1>4, <1>5 DEF BInv
-----------------------------------------------------------------------------
(***************************************************************************)
(* What the operations make of the members.                                *)
(***************************************************************************)
LEMMA CombinationsHold ==
  ASSUME B!BitSetAssumption, NEW s, NEW S, HoldsBits(s, S), NEW t, NEW T, HoldsBits(t, T)
  PROVE  /\ HoldsBits(B!Intersected(s, t), S \cap T)
         /\ HoldsBits(B!United(s, t), S \cup T)
         /\ HoldsBits(B!Copied(s, t), T)
         /\ HoldsBits(B!CloneOf(t), T)
         /\ HoldsBits(B!Subtracted(s, t), S \ T)
<1>1. /\ s \in BitSets /\ s.data = S /\ S \subseteq 0 .. s.length - 1
      /\ t \in BitSets /\ t.data = T /\ T \subseteq 0 .. t.length - 1
      /\ s.length \in Nat \ {0} /\ t.length \in Nat \ {0}
  BY DEF HoldsBits, BitSets
<1> DEFINE shared == B!BitsOfWords(t, 0, B!Shared(s, t))
           u == B!AtLeast(s, t.length)
<1>2. S \cap T \subseteq shared /\ shared \subseteq T
  BY SharedWords
<1>3. /\ S \subseteq B!AllBits(B!WordsOf(s))
      /\ B!BitsOfWords(t, 0, B!WordsOf(t)) = T
  BY WordsHoldAll
<1>4. HoldsBits(u, S) /\ u.length >= t.length /\ S \subseteq B!AllBits(B!WordsOf(u))
  BY <1>1, AtLeastHolds, WordsHoldAll
<1>5. /\ u \in BitSets /\ u.data = S
      /\ T \subseteq 0 .. u.length - 1 /\ S \cup T \subseteq 0 .. u.length - 1
  BY <1>1, <1>4 DEF HoldsBits, BitSets
<1>6. HoldsBits(B!Intersected(s, t), S \cap T)
  <2>1. B!Intersected(s, t) = [s EXCEPT !.data = (S \cap shared) \cup (S \ B!AllBits(B!WordsOf(s)))]
    BY <1>1 DEF B!Intersected, BitSets
  <2>2. (S \cap shared) \cup (S \ B!AllBits(B!WordsOf(s))) = S \cap T
    BY <1>2, <1>3
  <2>3. S \cap T \subseteq 0 .. s.length - 1
    BY <1>1
  <2> QED
    BY <2>1, <2>2, <2>3, WithData
<1>7. HoldsBits(B!United(s, t), S \cup T)
  <2>1. B!United(s, t) = [u EXCEPT !.data = S \cup T]
    BY <1>3, <1>5 DEF B!United, BitSets
  <2> QED
    BY <1>4, <1>5, <2>1, WithData
<1>8. HoldsBits(B!Copied(s, t), T)
  <2>1. B!Copied(s, t) = [u EXCEPT !.data = T \cup (S \ B!AllBits(B!WordsOf(u)))]
    BY <1>3, <1>5 DEF B!Copied, BitSets
  <2>2. T \cup (S \ B!AllBits(B!WordsOf(u))) = T
    BY <1>4
  <2> QED
    BY <1>4, <1>5, <2>1, <2>2, WithData
<1>9. HoldsBits(B!CloneOf(t), T)
  <2>1. B!CloneOf(t) = [B!EmptySet(t.length) EXCEPT !.data = T]
    BY <1>3 DEF B!CloneOf
  <2>2. HoldsBits(B!EmptySet(t.length), {}) /\ B!EmptySet(t.length).length = t.length
    BY <1>1, EmptySetHolds
  <2> QED
    BY <1>1, <2>1, <2>2, WithData
<1>10. HoldsBits(B!Subtracted(s, t), S \ T)
  <2>1. B!Subtracted(s, t) = [s EXCEPT !.data = S \ shared]
    BY <1>1 DEF B!Subtracted, BitSets
  <2>2. S \ shared = S \ T
    BY <1>2
  <2>3. S \ T \subseteq 0 .. s.length - 1
    BY <1>1
  <2> QED
    BY <2>1, <2>2, <2>3, WithData
<1>11. QED
  BY <1>6, <1>7, <1>8, <1>9, <1>10

\* The bits of all the words are those of a length that fills them.
LEMMA FilledWords ==
  ASSUME B!BitSetAssumption, NEW len \in Nat \ {0}, len % Word = 0
  PROVE  B!AllBits(B!WordsNecessary(len)) = 0 .. len - 1
<1> DEFINE n == B!WordsNecessary(len)
           k == len \div Word
<1>1. Word \in Nat \ {0}
  BY DEF B!BitSetAssumption
<1>2. k \in Nat /\ len = k * Word
  BY <1>1, Z3
<1>3. n \in Nat /\ n * Word <= len + Word - 1 /\ len + Word - 1 < (n + 1) * Word
  <2>1. n = (len + Word - 1) \div Word
    BY DEF B!WordsNecessary
  <2>2. len + Word - 1 \in Nat
    BY <1>1
  <2> QED
    BY <1>1, <2>1, <2>2, Z3
<1> HIDE DEF n, k
<1>4. \A c, d \in Nat : d < c => (d + 1) * Word <= c * Word
  BY <1>1
<1>5. /\ k * Word \in Nat /\ n * Word \in Nat
      /\ (k + 1) * Word = k * Word + Word /\ (n + 1) * Word = n * Word + Word
  BY <1>1, <1>2, <1>3
<1>6. ASSUME n < k PROVE FALSE
  <2>1. (n + 1) * Word <= k * Word
    BY <1>2, <1>3, <1>4, <1>6
  <2> QED
    BY <1>1, <1>2, <1>3, <1>5, <2>1
<1>7. ASSUME k < n PROVE FALSE
  <2>1. (k + 1) * Word <= n * Word
    BY <1>2, <1>3, <1>4, <1>7
  <2> QED
    BY <1>1, <1>2, <1>3, <1>5, <2>1
<1>8. n = k
  BY <1>2, <1>3, <1>6, <1>7
<1>9. QED
  BY <1>2, <1>8 DEF n, B!AllBits

LEMMA SingleSetsHold ==
  ASSUME B!BitSetAssumption, NEW s, NEW S, HoldsBits(s, S)
  PROVE  /\ HoldsBits(B!Cleared(s), {})
         /\ B!FillsItsWords(s) =>
              /\ HoldsBits(B!Filled(s), 0 .. s.length - 1)
              /\ HoldsBits(B!Inverted(s), (0 .. s.length - 1) \ S)
         /\ \A start, end \in Nat :
              start <= end => HoldsBits(B!WithBits(s, start, end), S \cup (start .. end))
         /\ \A pos \in Nat : HoldsBits(B!WithoutBit(s, pos), S \ {pos})
<1> DEFINE all == B!AllBits(B!WordsOf(s))
<1>1. /\ s \in BitSets /\ s.data = S /\ S \subseteq 0 .. s.length - 1
      /\ s.length \in Nat \ {0} /\ S \subseteq all
  BY WordsHoldAll DEF HoldsBits, BitSets
<1>2. HoldsBits(B!Cleared(s), {})
  <2>1. B!Cleared(s) = [s EXCEPT !.data = S \ all]
    BY <1>1 DEF B!Cleared, BitSets
  <2>2. S \ all = {} /\ {} \subseteq 0 .. s.length - 1
    BY <1>1
  <2> QED
    BY <2>1, <2>2, WithData
<1>3. ASSUME B!FillsItsWords(s)
      PROVE  /\ HoldsBits(B!Filled(s), 0 .. s.length - 1)
             /\ HoldsBits(B!Inverted(s), (0 .. s.length - 1) \ S)
  <2>1. all = 0 .. s.length - 1
    BY <1>1, <1>3, FilledWords DEF B!FillsItsWords, B!WordsOf
  <2>2. B!Filled(s) = [s EXCEPT !.data = S \cup all] /\ S \cup all = 0 .. s.length - 1
    BY <1>1, <2>1 DEF B!Filled, BitSets
  <2>3. /\ B!Inverted(s) = [s EXCEPT !.data = (all \ S) \cup (S \ all)]
        /\ (all \ S) \cup (S \ all) = (0 .. s.length - 1) \ S
        /\ (0 .. s.length - 1) \ S \subseteq 0 .. s.length - 1
    BY <1>1, <2>1 DEF B!Inverted, BitSets
  <2> QED
    BY <2>2, <2>3, WithData
<1>4. ASSUME NEW start \in Nat, NEW end \in Nat, start <= end
      PROVE  HoldsBits(B!WithBits(s, start, end), S \cup (start .. end))
  <2> DEFINE u == B!AtLeast(s, end + 1)
  <2>1. HoldsBits(u, S) /\ u.length >= end + 1
    BY AtLeastHolds
  <2>2. B!WithBits(s, start, end) = [u EXCEPT !.data = S \cup (start .. end)]
    BY <2>1 DEF B!WithBits, HoldsBits, BitSets
  <2>3. S \cup (start .. end) \subseteq 0 .. u.length - 1
    BY <2>1 DEF HoldsBits, BitSets
  <2> QED
    BY <2>1, <2>2, <2>3, WithData
<1>5. ASSUME NEW pos \in Nat
      PROVE  HoldsBits(B!WithoutBit(s, pos), S \ {pos})
  <2>1. CASE pos < s.length
    <3>1. B!WithoutBit(s, pos) = [s EXCEPT !.data = S \ {pos}]
      BY <1>1, <2>1 DEF B!WithoutBit, BitSets
    <3>2. S \ {pos} \subseteq 0 .. s.length - 1
      BY <1>1
    <3> QED
      BY <3>1, <3>2, WithData
  <2>2. CASE ~(pos < s.length)
    <3>1. B!WithoutBit(s, pos) = s /\ S \ {pos} = S
      BY <1>1, <2>2 DEF B!WithoutBit
    <3> QED
      BY <3>1
  <2> QED
    BY <2>1, <2>2
<1>6. QED
  BY <1>2, <1>3, <1>4, <1>5

(***************************************************************************)
(* A bit set holds the bits that its client put there, and none beyond its *)
(* length: the bits that it uncovers when it grows are clear.              *)
(***************************************************************************)
THEOREM BitSetsHoldTheirBits ==
  ASSUME B!BitSetAssumption
  PROVE  B!Spec => []BInv
<1>1. B!Init => BInv
  <2> SUFFICES ASSUME B!Init PROVE BInv
    OBVIOUS
  <2>1. HoldsBits(B!EmptySet(1), {}) /\ B!EmptySet(1) \in BitSets
    BY EmptySetHolds DEF HoldsBits
  <2>2. bitSet = [x \in Sets |-> B!EmptySet(1)] /\ members = [x \in Sets |-> {}]
    BY DEF B!Init
  <2> QED
    BY <2>1, <2>2 DEF BInv
<1>2. BInv /\ [B!Next]_B!bitSetVars => BInv'
  <2> SUFFICES ASSUME BInv, [B!Next]_B!bitSetVars PROVE BInv'
    OBVIOUS
  <2>0. \A x \in Sets : HoldsBits(bitSet[x], members[x])
    BY DEF BInv
  <2>1. ASSUME NEW x \in Sets, NEW length \in 1 .. MaxLength, B!New(x, length)
        PROVE  BInv'
    <3>1. length \in Nat \ {0}
      BY DEF B!BitSetAssumption
    <3> QED
      BY <2>1, <3>1, EmptySetHolds, BecomesInv DEF B!New
  <2>2. ASSUME NEW x \in Sets, NEW start \in 0 .. MaxLength - 1, NEW end \in 0 .. MaxLength - 1,
               start <= end, B!SetBits(x, start, end)
        PROVE  BInv'
    <3>1. start \in Nat /\ end \in Nat
      BY DEF B!BitSetAssumption
    <3>2. HoldsBits(B!WithBits(bitSet[x], start, end), members[x] \cup (start .. end))
      BY <2>0, <2>2, <3>1, SingleSetsHold
    <3> QED
      BY <2>2, <3>2, BecomesInv DEF B!SetBits
  <2>3. ASSUME NEW x \in Sets, NEW pos \in 0 .. MaxLength - 1, B!ClearBit(x, pos)
        PROVE  BInv'
    <3>1. pos \in Nat
      BY DEF B!BitSetAssumption
    <3> QED
      BY <2>0, <2>3, <3>1, SingleSetsHold, BecomesInv DEF B!ClearBit
  <2>4. ASSUME NEW x \in Sets, B!ClearAll(x)
        PROVE  BInv'
    BY <2>0, <2>4, SingleSetsHold, BecomesInv DEF B!ClearAll
  <2>5. ASSUME NEW x \in Sets, B!SetAll(x)
        PROVE  BInv'
    BY <2>0, <2>5, SingleSetsHold, BecomesInv DEF B!SetAll
  <2>6. ASSUME NEW x \in Sets, B!InvertBits(x)
        PROVE  BInv'
    BY <2>0, <2>6, SingleSetsHold, BecomesInv DEF B!InvertBits
  <2>7. ASSUME NEW x \in Sets, NEW y \in Sets, B!Intersect(x, y)
        PROVE  BInv'
    <3>1. HoldsBits(B!Intersected(bitSet[x], bitSet[y]), members[x] \cap members[y])
      BY <2>0, CombinationsHold
    <3> QED
      BY <2>7, <3>1, BecomesInv DEF B!Intersect
  <2>8. ASSUME NEW x \in Sets, NEW y \in Sets, B!Union(x, y)
        PROVE  BInv'
    <3>1. HoldsBits(B!United(bitSet[x], bitSet[y]), members[x] \cup members[y])
      BY <2>0, CombinationsHold
    <3> QED
      BY <2>8, <3>1, BecomesInv DEF B!Union
  <2>9. ASSUME NEW x \in Sets, NEW y \in Sets, B!Subtract(x, y)
        PROVE  BInv'
    <3>1. HoldsBits(B!Subtracted(bitSet[x], bitSet[y]), members[x] \ members[y])
      BY <2>0, CombinationsHold
    <3> QED
      BY <2>9, <3>1, BecomesInv DEF B!Subtract
  <2>10. ASSUME NEW x \in Sets, NEW y \in Sets, B!Copy(x, y)
        PROVE  BInv'
    <3>1. HoldsBits(B!Copied(bitSet[x], bitSet[y]), members[y])
      BY <2>0, CombinationsHold
    <3> QED
      BY <2>10, <3>1, BecomesInv DEF B!Copy
  <2>11. ASSUME NEW x \in Sets, NEW y \in Sets, B!Clone(x, y)
        PROVE  BInv'
    <3>1. HoldsBits(B!CloneOf(bitSet[y]), members[y])
      BY <2>0, CombinationsHold
    <3> QED
      BY <2>11, <3>1, BecomesInv DEF B!Clone
  <2>12. CASE UNCHANGED B!bitSetVars
    BY <2>12 DEF B!bitSetVars, BInv, HoldsBits
  <2> QED
    BY <2>1, <2>2, <2>3, <2>4, <2>5, <2>6, <2>7, <2>8, <2>9, <2>10, <2>11, <2>12 DEF B!Next
<1> QED
  BY <1>1, <1>2, PTL DEF B!Spec

\* Every question about one or two sets is answered for their members.
LEMMA QuestionsAnswered ==
  ASSUME B!BitSetAssumption, NEW s, NEW S, HoldsBits(s, S), NEW t, NEW T, HoldsBits(t, T)
  PROVE  /\ B!Count(s) = B!Cardinality(S)
         /\ B!IsEmpty(s) <=> S = {}
         /\ B!Equal(s, t) <=> S = T
         /\ B!IsSubSetOf(s, t) <=> S \subseteq T
         /\ B!IsIntersectionEmpty(s, t) <=> S \cap T = {}
<1> DEFINE n == B!Shared(s, t)
<1>1. /\ s.data = S /\ S \subseteq 0 .. s.length - 1 /\ s.length \in Nat \ {0}
      /\ t.data = T /\ T \subseteq 0 .. t.length - 1 /\ t.length \in Nat \ {0}
  BY DEF HoldsBits, BitSets
<1>2. /\ S \cap T \subseteq B!BitsOfWords(s, 0, n) /\ B!BitsOfWords(s, 0, n) \subseteq S
      /\ S \cap T \subseteq B!BitsOfWords(t, 0, n) /\ B!BitsOfWords(t, 0, n) \subseteq T
      /\ n \in Nat
  BY SharedWords
<1>3. /\ B!BitsOfWords(s, 0, B!WordsOf(s)) = S
      /\ B!BitsOfWords(t, 0, B!WordsOf(t)) = T
  BY WordsHoldAll
<1>4. B!Count(s) = B!Cardinality(S)
  <2>1. s.data \cap (0 .. s.length - 1) = S
    BY <1>1
  <2> QED
    BY <2>1 DEF B!Count
<1>5. B!IsEmpty(s) <=> S = {}
  BY <1>3 DEF B!IsEmpty
<1>6. B!Equal(s, t) <=> S = T
  <2>1. ASSUME NEW b \in S
        PROVE  b \in B!BitsOfWords(s, 0, n) \/ b \in B!BitsOfWords(s, n, B!WordsOf(s))
    <3>1. b \in s.data /\ b \div Word \in Nat /\ b \div Word < B!WordsOf(s)
      BY <1>1, BitsAreInWords DEF B!WordsOf
    <3>2. 0 <= b \div Word /\ (b \div Word < n \/ n <= b \div Word)
      BY <1>2, <3>1
    <3> QED
      BY <3>1, <3>2 DEF B!BitsOfWords
  <2>2. ASSUME NEW b \in T
        PROVE  b \in B!BitsOfWords(t, 0, n) \/ b \in B!BitsOfWords(t, n, B!WordsOf(t))
    <3>1. b \in t.data /\ b \div Word \in Nat /\ b \div Word < B!WordsOf(t)
      BY <1>1, BitsAreInWords DEF B!WordsOf
    <3>2. 0 <= b \div Word /\ (b \div Word < n \/ n <= b \div Word)
      BY <1>2, <3>1
    <3> QED
      BY <3>1, <3>2 DEF B!BitsOfWords
  <2>3. ASSUME B!Equal(s, t) PROVE S = T
    <3>1. /\ B!BitsOfWords(s, 0, n) = B!BitsOfWords(t, 0, n)
          /\ B!BitsOfWords(s, n, B!WordsOf(s)) = {} /\ B!BitsOfWords(t, n, B!WordsOf(t)) = {}
      BY <2>3 DEF B!Equal
    <3> QED
      BY <1>2, <2>1, <2>2, <3>1
  <2>4. ASSUME S = T PROVE B!Equal(s, t)
    <3>1. B!BitsOfWords(s, 0, n) = S /\ B!BitsOfWords(t, 0, n) = S
      BY <1>2, <2>4
    <3>2. \A b \in S : b \div Word < n
      BY <3>1 DEF B!BitsOfWords
    <3>3. \A b \in S : b \div Word \in Nat
      BY <1>1, BitsAreInWords
    <3>4. \A b \in S : ~(n <= b \div Word)
      BY <1>2, <3>2, <3>3
    <3>5. B!BitsOfWords(s, n, B!WordsOf(s)) = {} /\ B!BitsOfWords(t, n, B!WordsOf(t)) = {}
      BY <1>1, <2>4, <3>4 DEF B!BitsOfWords
    <3> QED
      BY <3>1, <3>5 DEF B!Equal
  <2> QED
    BY <2>3, <2>4
<1>7. B!IsSubSetOf(s, t) <=> S \subseteq T
  BY <1>1 DEF B!IsSubSetOf
<1>8. B!IsIntersectionEmpty(s, t) <=> S \cap T = {}
  BY <1>2 DEF B!IsIntersectionEmpty
<1>9. QED
  BY <1>4, <1>5, <1>6, <1>7, <1>8

LEMMA InvBitSetsAreSets ==
  ASSUME B!BitSetAssumption, BInv
  PROVE  B!BitSetsAreSets
<1> SUFFICES ASSUME NEW x \in Sets, NEW y \in Sets
             PROVE  /\ {pos \in 0 .. MaxLength : B!IsBitSet(bitSet[x], pos)} = members[x]
                    /\ B!Count(bitSet[x]) = B!Cardinality(members[x])
                    /\ B!IsEmpty(bitSet[x]) <=> members[x] = {}
                    /\ B!Equal(bitSet[x], bitSet[y]) <=> members[x] = members[y]
                    /\ B!IsSubSetOf(bitSet[x], bitSet[y]) <=> members[x] \subseteq members[y]
                    /\ B!IsIntersectionEmpty(bitSet[x], bitSet[y]) <=> members[x] \cap members[y] = {}
  BY Zenon DEF B!BitSetsAreSets
<1>1. HoldsBits(bitSet[x], members[x]) /\ HoldsBits(bitSet[y], members[y])
  BY DEF BInv
<1>2. {pos \in 0 .. MaxLength : B!IsBitSet(bitSet[x], pos)} = members[x]
  BY <1>1 DEF BInv, HoldsBits, BitSets, B!IsBitSet
<1>3. QED
  BY <1>1, <1>2, QuestionsAnswered

-----------------------------------------------------------------------------
(* The ranges that are written for a bit set.                              *)

LEMMA LeastOrNone ==
  ASSUME NEW T \in SUBSET Nat
  PROVE  /\ T = {} => B!MinOrNone(T) = -1
         /\ T # {} => /\ B!MinOrNone(T) = B!Min(T)
                      /\ B!Min(T) \in T /\ \A y \in T : B!Min(T) <= y
<1>1. ASSUME T # {} PROVE B!Min(T) \in T /\ \A y \in T : B!Min(T) <= y
  <2>1. \E x \in T : \A y \in T : x <= y
    BY <1>1, LeastNatural
  <2> QED
    BY <2>1 DEF B!Min
<1>2. QED
  BY <1>1 DEF B!MinOrNone

LEMMA SameCardinality == \A S : B!Cardinality(S) = Cardinality(S)
BY Zenon DEF B!Cardinality, Cardinality

\* The next bit that is set: the search skips only words without one.
LEMMA NextBitSet ==
  ASSUME B!BitSetAssumption, NEW s, NEW S, HoldsBits(s, S), NEW start \in Nat,
         NEW first, first = B!GetFirstBitSetInRange(s, start, s.length)
  PROVE  \/ /\ first = -1
            /\ \A b \in S : b < start
         \/ /\ first \in S /\ first >= start
            /\ \A b \in S : b < start \/ first <= b
<1> DEFINE end == s.length - 1
           zero == {w \in 0 .. B!WordsOf(s) : B!BitsOfWords(s, w, w + 1) = {}}
           T == {b \in B!Candidates(s, start, end, zero) : b \in s.data}
<1>1. /\ s.data = S /\ S \subseteq 0 .. end /\ end \in Nat /\ s.length = end + 1
      /\ Word \in Nat \ {0} /\ s.length \in Nat \ {0}
  BY DEF HoldsBits, BitSets, B!BitSetAssumption
<1>2. first = B!MinOrNone(T)
  <2>1. B!UpTo(s, s.length) = end
    BY <1>1 DEF B!UpTo
  <2> QED
    BY <2>1 DEF B!GetFirstBitSetInRange
<1>3. T \in SUBSET Nat /\ \A b \in T : b \in S /\ b >= start
  BY <1>1 DEF B!Candidates
<1>4. ASSUME NEW b \in S, b >= start PROVE b \in T
  <2>1. b \in Nat /\ b <= end
    BY <1>1
  <2>2. /\ start \div Word <= b \div Word /\ b \div Word <= end \div Word
        /\ b \div Word \in Nat
    BY <1>1, <1>4, <2>1, QuotientGrows
  <2>3. b \div Word < B!WordsOf(s) /\ B!WordsOf(s) \in Nat
    BY <1>1, BitsAreInWords DEF B!WordsOf
  <2>4. b \in B!BitsOfWords(s, b \div Word, b \div Word + 1)
    BY <1>1, <2>2 DEF B!BitsOfWords
  <2>5. b \div Word \notin zero
    BY <2>4
  <2> HIDE DEF zero
  <2> QED
    BY <1>1, <1>4, <2>1, <2>2, <2>5 DEF B!Candidates
<1> HIDE DEF T
<1>5. CASE T = {}
  <2>1. first = -1
    BY <1>2, <1>3, <1>5, LeastOrNone
  <2>2. \A b \in S : b < start
    BY <1>1, <1>4, <1>5
  <2> QED
    BY <2>1, <2>2
<1>6. CASE T # {}
  <2>1. first \in T /\ \A b \in T : first <= b
    BY <1>2, <1>3, <1>6, LeastOrNone
  <2>2. \A b \in S : b < start \/ first <= b
    BY <1>1, <1>4, <2>1
  <2> QED
    BY <1>3, <2>1, <2>2
<1>7. QED
  BY <1>5, <1>6

\* A word with a bit that is clear is not full.
LEMMA NotFull ==
  ASSUME B!BitSetAssumption, NEW s, NEW S, HoldsBits(s, S), NEW b \in Nat, b \notin S
  PROVE  B!Cardinality(B!BitsOfWords(s, b \div Word, b \div Word + 1)) # Word
<1> DEFINE w == b \div Word
           I == w * Word .. w * Word + Word - 1
           T == B!BitsOfWords(s, w, w + 1)
<1>1. Word \in Nat \ {0} /\ s.data = S /\ S \subseteq Nat
  BY DEF HoldsBits, BitSets, B!BitSetAssumption
<1>2. \A c \in Nat : /\ c \div Word \in Nat
                     /\ (c \div Word) * Word <= c /\ c < (c \div Word) * Word + Word
  <2>1. SUFFICES ASSUME NEW c \in Nat
                 PROVE  /\ c \div Word \in Nat
                        /\ (c \div Word) * Word <= c /\ c < (c \div Word) * Word + Word
    OBVIOUS
  <2> QED
    BY <1>1, Z3
<1>3. w \in Nat /\ w * Word \in Nat /\ b \in I
  <2>1. w \in Nat /\ w * Word <= b /\ b < w * Word + Word
    BY <1>2
  <2> HIDE DEF w
  <2>2. w * Word \in Nat
    BY <1>1, <2>1
  <2> QED
    BY <1>1, <2>1, <2>2
<1>4. T \subseteq I
  <2>1. SUFFICES ASSUME NEW c \in T PROVE c \in I
    OBVIOUS
  <2>2. c \in S /\ c \in Nat /\ w <= c \div Word /\ c \div Word < w + 1
    BY <1>1 DEF B!BitsOfWords
  <2> DEFINE v == c \div Word
  <2>3. v \in Nat /\ v * Word <= c /\ c < v * Word + Word
    BY <1>2, <2>2
  <2>4. v = w
    BY <1>3, <2>2, <2>3
  <2> HIDE DEF v, w
  <2> QED
    BY <1>1, <1>3, <2>2, <2>3, <2>4
<1>5. b \notin T
  BY <1>1 DEF B!BitsOfWords
<1> HIDE DEF T, w
<1>6. IsFiniteSet(I) /\ Cardinality(I) = Word
  <2>1. w * Word \in Int /\ w * Word + Word - 1 \in Int
        /\ w * Word <= w * Word + Word - 1
        /\ (w * Word + Word - 1) - (w * Word) + 1 = Word
    BY <1>1, <1>3
  <2> QED
    BY <2>1, FS_Interval
<1> HIDE DEF I
<1>7. Cardinality(T) # Word
  BY <1>3, <1>4, <1>5, <1>6, FS_Subset
<1>8. QED
  BY <1>7, SameCardinality DEF T, w

\* The next bit that is clear, or the length: the search skips only full words.
LEMMA NextBitUnset ==
  ASSUME B!BitSetAssumption, NEW s, NEW S, HoldsBits(s, S), NEW start \in S,
         NEW unset, unset = B!GetFirstBitUnsetInRange(s, start, s.length)
  PROVE  /\ unset \in Nat /\ unset > start /\ unset <= s.length /\ unset \notin S
         /\ \A b \in start .. unset - 1 : b \in S
<1> DEFINE end == s.length - 1
           full == {w \in 0 .. B!WordsOf(s) : B!Cardinality(B!BitsOfWords(s, w, w + 1)) = Word}
           T == {b \in B!Candidates(s, start, end, full) : b \notin s.data}
<1>1. /\ s.data = S /\ S \subseteq 0 .. end /\ end \in Nat /\ s.length = end + 1
      /\ Word \in Nat \ {0} /\ s.length \in Nat \ {0} /\ start \in Nat /\ start <= end
  BY DEF HoldsBits, BitSets, B!BitSetAssumption
<1>2. unset = IF T # {} THEN B!Min(T) ELSE s.length
  <2>1. B!UpTo(s, s.length) = end /\ s.length >= s.length
    BY <1>1 DEF B!UpTo
  <2> QED
    BY <2>1 DEF B!GetFirstBitUnsetInRange
<1>3. T \in SUBSET Nat /\ \A b \in T : b \notin S /\ b >= start /\ b <= end
  BY <1>1 DEF B!Candidates
<1>4. ASSUME NEW b \in start .. end, b \notin S PROVE b \in T
  <2>1. b \in Nat /\ b <= end /\ start <= b
    BY <1>1
  <2>2. /\ start \div Word <= b \div Word /\ b \div Word <= end \div Word
    BY <1>1, <2>1, QuotientGrows
  <2>3. b \div Word \notin full
    BY <1>4, <2>1, NotFull
  <2> HIDE DEF full
  <2> QED
    BY <1>1, <1>4, <2>1, <2>2, <2>3 DEF B!Candidates
<1> HIDE DEF T
<1>5. CASE T = {}
  <2>1. unset = s.length
    BY <1>2, <1>5
  <2> QED
    BY <1>1, <1>4, <1>5, <2>1
<1>6. CASE T # {}
  <2>1. unset \in T /\ \A b \in T : unset <= b
    BY <1>2, <1>3, <1>6, LeastOrNone
  <2>2. unset \in Nat /\ unset \notin S /\ unset >= start /\ unset <= end
    BY <1>3, <2>1
  <2>3. unset # start
    BY <2>2
  <2>4. ASSUME NEW b \in start .. unset - 1 PROVE b \in S
    <3>1. b \in start .. end /\ ~(unset <= b)
      BY <1>1, <2>2
    <3> QED
      BY <1>4, <2>1, <3>1
  <2> QED
    BY <1>1, <2>2, <2>3, <2>4
<1>7. QED
  BY <1>5, <1>6

\* The range that is written after the bit at which the search stopped.
RangeAfter(s, after) ==
  LET first == B!GetFirstBitSetInRange(s, after + 1, s.length)
      unset == B!GetFirstBitUnsetInRange(s, first, s.length)
  IN IF first = -1 THEN <<>>
     ELSE <<<<first, IF unset = -1 THEN s.length - 1 ELSE unset - 1>>>>

IsRun(a, e, S) == a <= e /\ (\A b \in a .. e : b \in S) /\ e + 1 \notin S

LEMMA RangeAfterFacts ==
  ASSUME B!BitSetAssumption, NEW s, NEW S, HoldsBits(s, S), NEW after \in Nat \cup {-1}
  PROVE  \/ /\ RangeAfter(s, after) = <<>>
            /\ \A b \in S : b <= after
         \/ \E a, e \in Nat :
              /\ RangeAfter(s, after) = <<<<a, e>>>>
              /\ IsRun(a, e, S) /\ a > after
              /\ \A b \in S : b <= after \/ a <= b
<1> DEFINE first == B!GetFirstBitSetInRange(s, after + 1, s.length)
           unset == B!GetFirstBitUnsetInRange(s, first, s.length)
<1>1. S \subseteq Nat /\ after + 1 \in Nat
  BY DEF HoldsBits, BitSets
<1>2. \/ first = -1 /\ \A b \in S : b < after + 1
      \/ first \in S /\ first >= after + 1 /\ \A b \in S : b < after + 1 \/ first <= b
  BY <1>1, NextBitSet
<1>3. RangeAfter(s, after) =
        IF first = -1 THEN <<>>
        ELSE <<<<first, IF unset = -1 THEN s.length - 1 ELSE unset - 1>>>>
  BY DEF RangeAfter
<1>4. first \in S => /\ unset \in Nat /\ unset > first /\ unset \notin S
                     /\ \A b \in first .. unset - 1 : b \in S
  BY NextBitUnset
<1> HIDE DEF first, unset
<1>5. CASE first = -1 /\ \A b \in S : b < after + 1
  <2>1. \A b \in S : b <= after
    BY <1>1, <1>5
  <2> QED
    BY <1>3, <1>5, <2>1
<1>6. CASE first \in S /\ first >= after + 1 /\ \A b \in S : b < after + 1 \/ first <= b
  <2> DEFINE e == unset - 1
  <2>1. /\ first \in Nat /\ first # -1 /\ unset # -1 /\ first > after
        /\ e \in Nat /\ first <= e /\ e + 1 \notin S
    BY <1>1, <1>4, <1>6
  <2>2. RangeAfter(s, after) = <<<<first, e>>>>
    BY <1>3, <2>1
  <2>3. \A b \in first .. e : b \in S
    BY <1>4, <1>6
  <2>4. \A b \in S : b <= after \/ first <= b
    BY <1>1, <1>6
  <2> HIDE DEF e
  <2>5. IsRun(first, e, S)
    BY <2>1, <2>3 DEF IsRun
  <2> QED
    BY <2>1, <2>2, <2>4, <2>5
<1>7. QED
  BY <1>2, <1>5, <1>6

\* The ranges so far, after the n-th one if there is one.
NextRanges(s, n, r) == IF Len(r) < n THEN r ELSE r \o RangeAfter(s, r[n][2] + 1)

IsSearch(f, s, N) ==
  f = [n \in 0 .. N |-> IF n = 0 THEN RangeAfter(s, -1) ELSE NextRanges(s, n, f[n - 1])]

LEMMA SearchExists ==
  ASSUME NEW s, NEW N \in Nat
  PROVE  \E f : IsSearch(f, s, N)
<1> DEFINE S == {n \in 0 .. N : \E f : IsSearch(f, s, n)}
           start == RangeAfter(s, -1)
<1>1. 0 \in S
  <2> DEFINE f == [n \in 0 .. 0 |-> start]
  <2>1. f = [n \in 0 .. 0 |-> IF n = 0 THEN start ELSE NextRanges(s, n, f[n - 1])]
    OBVIOUS
  <2> HIDE DEF f
  <2>2. IsSearch(f, s, 0)
    BY <2>1 DEF IsSearch
  <2>3. QED
    BY <2>2
<1>2. ASSUME NEW n \in 0 .. N, n # 0, n - 1 \in S PROVE n \in S
  <2>1. PICK f : IsSearch(f, s, n - 1)
    BY <1>2
  <2> DEFINE g == [m \in 0 .. n |-> IF m = n THEN NextRanges(s, n, f[n - 1]) ELSE f[m]]
  <2>2. ASSUME NEW m \in 0 .. n
        PROVE  g[m] = IF m = 0 THEN start ELSE NextRanges(s, m, g[m - 1])
    <3>1. CASE m = 0
      BY <1>2, <2>1, <3>1 DEF IsSearch
    <3>2. CASE m = n
      <4>1. m - 1 \in 0 .. n /\ m - 1 # n
        BY <1>2, <3>2
      <4>2. g[m - 1] = f[n - 1] /\ g[m] = NextRanges(s, n, f[n - 1])
        BY <3>2, <4>1
      <4>3. QED
        BY <1>2, <3>2, <4>2
    <3>3. CASE m # 0 /\ m # n
      <4>1. m \in 0 .. n - 1 /\ m - 1 \in 0 .. n /\ m - 1 # n
        BY <3>3
      <4>2. f[m] = NextRanges(s, m, f[m - 1])
        BY <2>1, <3>3, <4>1 DEF IsSearch
      <4>3. g[m] = f[m] /\ g[m - 1] = f[m - 1]
        BY <3>3, <4>1
      <4>4. QED
        BY <3>3, <4>2, <4>3
    <3>4. QED
      BY <3>1, <3>2, <3>3
  <2>3. g = [m \in 0 .. n |-> g[m]]
    OBVIOUS
  <2> HIDE DEF g
  <2>4. g = [m \in 0 .. n |-> IF m = 0 THEN start ELSE NextRanges(s, m, g[m - 1])]
    BY <2>2, <2>3
  <2>5. IsSearch(g, s, n)
    BY <2>4 DEF IsSearch
  <2>6. QED
    BY <2>5
<1> HIDE DEF S
<1>3. 0 .. N \subseteq S
  BY <1>1, <1>2, TurnInduction
<1>4. N \in S
  BY <1>3
<1>5. QED
  BY <1>4 DEF S

LEMMA RangesAreSearched ==
  ASSUME NEW s, s.length \in Nat
  PROVE  \E f : IsSearch(f, s, s.length) /\ B!Ranges(s) = f[s.length]
<1> DEFINE f == CHOOSE f : IsSearch(f, s, s.length)
<1>1. IsSearch(f, s, s.length)
  BY SearchExists
<1>2. B!Ranges(s) = f[s.length]
  BY DEF B!Ranges, IsSearch, NextRanges, RangeAfter
<1> HIDE DEF f
<1>3. QED
  BY <1>1, <1>2

-----------------------------------------------------------------------------
(***************************************************************************)
(* The ranges in r are runs of S, in order and with gaps between them.     *)
(***************************************************************************)
AreRuns(r, S) ==
  /\ r \in Seq(Nat \X Nat)
  /\ \A i \in 1 .. Len(r) : IsRun(r[i][1], r[i][2], S)
  /\ \A i \in 1 .. Len(r) - 1 : r[i][2] + 1 < r[i + 1][1]

InRanges(b, r) == \E i \in 1 .. Len(r) : b \in r[i][1] .. r[i][2]

\* A range that begins at a leaves a gap after those in r.
Leaves(r, a) == Len(r) > 0 => r[Len(r)][2] + 1 < a

\* q has one range more than r, the one from a to e.
OneMore(q, r, a, e) ==
  /\ Len(q) = Len(r) + 1 /\ q[Len(r) + 1] = <<a, e>>
  /\ \A b : InRanges(b, r) => InRanges(b, q)
  /\ \A b \in a .. e : InRanges(b, q)

LEMMA AnotherRun ==
  ASSUME NEW S, NEW r, AreRuns(r, S), NEW a \in Nat, NEW e \in Nat, IsRun(a, e, S), Leaves(r, a)
  PROVE  AreRuns(r \o <<<<a, e>>>>, S) /\ OneMore(r \o <<<<a, e>>>>, r, a, e)
<1> DEFINE q == r \o <<<<a, e>>>>
           n == Len(r)
<1>1. /\ r \in Seq(Nat \X Nat) /\ n \in Nat
      /\ \A i \in 1 .. n : IsRun(r[i][1], r[i][2], S)
      /\ \A i \in 1 .. n - 1 : r[i][2] + 1 < r[i + 1][1]
  <2>1. r \in Seq(Nat \X Nat)
    BY DEF AreRuns
  <2>2. n \in Nat
    BY <2>1, LenProperties
  <2> QED
    BY <2>1, <2>2, Zenon DEF AreRuns
<1>2. /\ q \in Seq(Nat \X Nat) /\ Len(q) = n + 1 /\ q[n + 1] = <<a, e>>
      /\ \A i \in 1 .. n : q[i] = r[i]
  <2>1. <<a, e>> \in Nat \X Nat
    OBVIOUS
  <2>2. /\ <<<<a, e>>>> \in Seq(Nat \X Nat) /\ Len(<<<<a, e>>>>) = 1
        /\ <<<<a, e>>>>[1] = <<a, e>>
    BY <2>1
  <2>3. /\ q \in Seq(Nat \X Nat) /\ Len(q) = n + 1
        /\ \A i \in 1 .. n + 1 : q[i] = IF i <= n THEN r[i] ELSE <<<<a, e>>>>[i - n]
    BY <1>1, <2>2, ConcatProperties
  <2> HIDE DEF q, n
  <2>4. n + 1 \in 1 .. n + 1 /\ ~(n + 1 <= n) /\ (n + 1) - n = 1
    BY <1>1
  <2>5. q[n + 1] = <<a, e>>
    BY <2>2, <2>3, <2>4
  <2>6. ASSUME NEW i \in 1 .. n PROVE q[i] = r[i]
    <3>1. i \in 1 .. n + 1 /\ i <= n
      BY <1>1
    <3> QED
      BY <2>3, <3>1
  <2> QED
    BY <2>3, <2>5, <2>6
<1> HIDE DEF q
<1>3. ASSUME NEW i \in 1 .. n + 1 PROVE IsRun(q[i][1], q[i][2], S)
  <2>1. CASE i = n + 1
    BY <1>2, <2>1
  <2>2. CASE i \in 1 .. n
    BY <1>1, <1>2, <2>2
  <2> QED
    BY <1>1, <2>1, <2>2
<1>4. ASSUME NEW i \in 1 .. n PROVE q[i][2] + 1 < q[i + 1][1]
  <2>1. CASE i = n
    <3>1. q[i] = r[n] /\ q[i + 1] = <<a, e>> /\ n > 0
      BY <1>1, <1>2, <2>1
    <3> QED
      BY <3>1 DEF Leaves
  <2>2. CASE i # n
    <3>1. i \in 1 .. n - 1 /\ i + 1 \in 1 .. n
      BY <1>1, <2>2
    <3> QED
      BY <1>1, <1>2, <3>1
  <2> QED
    BY <2>1, <2>2
<1>5. AreRuns(q, S)
  <2>1. Len(q) - 1 = n
    BY <1>1, <1>2
  <2> QED
    BY <1>2, <1>3, <1>4, <2>1 DEF AreRuns
<1>6. ASSUME NEW b, InRanges(b, r) PROVE InRanges(b, q)
  <2>1. PICK i \in 1 .. n : b \in r[i][1] .. r[i][2]
    BY <1>6 DEF InRanges
  <2>2. i \in 1 .. n + 1 /\ q[i] = r[i]
    BY <1>1, <1>2
  <2> QED
    BY <1>2, <2>1, <2>2 DEF InRanges
<1>7. ASSUME NEW b \in a .. e PROVE InRanges(b, q)
  <2>1. n + 1 \in 1 .. Len(q)
    BY <1>1, <1>2
  <2>2. b \in q[n + 1][1] .. q[n + 1][2]
    BY <1>2
  <2> QED
    BY <2>1, <2>2 DEF InRanges
<1>8. QED
  BY <1>2, <1>5, <1>6, <1>7 DEF OneMore, q

\* After n turns: the first n + 1 runs of S, or all of them.
Searched(r, n, S) ==
  /\ AreRuns(r, S) /\ Len(r) <= n + 1
  /\ Len(r) = n + 1 => r[n + 1][2] >= n /\ \A b \in S : b <= r[n + 1][2] => InRanges(b, r)
  /\ Len(r) # n + 1 => \A b \in S : InRanges(b, r)

LEMMA FirstRange ==
  ASSUME B!BitSetAssumption, NEW s, NEW S, HoldsBits(s, S)
  PROVE  Searched(RangeAfter(s, -1), 0, S)
<1> DEFINE r == RangeAfter(s, -1)
<1>1. S \subseteq Nat
  BY DEF HoldsBits, BitSets
<1>2. AreRuns(<<>>, S) /\ Len(<<>>) = 0
  BY EmptySeq DEF AreRuns
<1>3. CASE r = <<>> /\ \A b \in S : b <= -1
  <2>1. \A b \in S : FALSE
    BY <1>1, <1>3
  <2> QED
    BY <1>2, <1>3, <2>1 DEF Searched
<1>4. CASE \E a, e \in Nat : /\ r = <<<<a, e>>>> /\ IsRun(a, e, S) /\ a > -1
                             /\ \A b \in S : b <= -1 \/ a <= b
  <2>1. PICK a \in Nat, e \in Nat : /\ r = <<<<a, e>>>> /\ IsRun(a, e, S)
                                    /\ \A b \in S : b <= -1 \/ a <= b
    BY <1>4
  <2>2. r = <<>> \o <<<<a, e>>>>
    BY <2>1
  <2>3. Leaves(<<>>, a)
    BY <1>2 DEF Leaves
  <2> HIDE DEF r
  <2>4. AreRuns(r, S) /\ OneMore(r, <<>>, a, e)
    BY <1>2, <2>1, <2>2, <2>3, AnotherRun
  <2>5. Len(r) = 1 /\ r[1] = <<a, e>>
    BY <1>2, <2>4 DEF OneMore
  <2>6. \A b \in S : b <= e => InRanges(b, r)
    BY <1>1, <2>1, <2>4 DEF OneMore
  <2>7. 0 + 1 = 1 /\ r[1][2] = e /\ e >= 0 /\ Len(r) <= 1
    BY <2>5
  <2>8. Searched(r, 0, S)
    BY <2>4, <2>5, <2>6, <2>7 DEF Searched
  <2> QED
    BY <2>8 DEF r
<1>5. QED
  BY <1>3, <1>4, RangeAfterFacts

LEMMA NextRange ==
  ASSUME B!BitSetAssumption, NEW s, NEW S, HoldsBits(s, S), NEW n \in Nat, NEW r, Searched(r, n, S)
  PROVE  Searched(NextRanges(s, n + 1, r), n + 1, S)
<1> DEFINE m == n + 1
           q == NextRanges(s, m, r)
<1>1. /\ S \subseteq Nat /\ AreRuns(r, S) /\ r \in Seq(Nat \X Nat)
      /\ Len(r) \in Nat /\ Len(r) <= m
  BY DEF HoldsBits, BitSets, Searched, AreRuns
<1>2. CASE Len(r) < m
  <2>1. q = r /\ Len(r) # m /\ Len(r) # m + 1 /\ Len(r) <= m + 1
    BY <1>1, <1>2 DEF NextRanges
  <2> QED
    BY <1>1, <2>1 DEF Searched
<1>3. CASE Len(r) = m
  <2> DEFINE last == r[m][2]
             t == RangeAfter(s, last + 1)
  <2>1. /\ last \in Nat /\ last >= n /\ last + 1 \notin S
        /\ \A b \in S : b <= last => InRanges(b, r)
    <3>1. m \in 1 .. Len(r) /\ r[m] \in Nat \X Nat
      BY <1>1, <1>3
    <3> QED
      BY <1>3, <3>1 DEF Searched, AreRuns, IsRun
  <2>2. q = r \o t
    BY <1>1, <1>3 DEF NextRanges
  <2> HIDE DEF q, last
  <2>3. \A b \in S : b <= last + 1 => InRanges(b, r)
    BY <1>1, <2>1
  <2>4. CASE t = <<>> /\ \A b \in S : b <= last + 1
    <3>1. q = r
      BY <1>1, <2>2, <2>4, ConcatEmptySeq
    <3>2. Len(r) <= m + 1 /\ Len(r) # m + 1
      BY <1>1, <1>3
    <3> QED
      BY <1>1, <2>3, <2>4, <3>1, <3>2 DEF Searched, q
  <2>5. CASE \E a, e \in Nat : /\ t = <<<<a, e>>>> /\ IsRun(a, e, S) /\ a > last + 1
                               /\ \A b \in S : b <= last + 1 \/ a <= b
    <3>1. PICK a \in Nat, e \in Nat : /\ t = <<<<a, e>>>> /\ IsRun(a, e, S) /\ a > last + 1
                                      /\ \A b \in S : b <= last + 1 \/ a <= b
      BY <2>5
    <3>2. Leaves(r, a)
      BY <1>3, <2>1, <3>1 DEF last, Leaves
    <3>3. /\ AreRuns(q, S) /\ Len(q) = m + 1 /\ q[m + 1] = <<a, e>>
          /\ \A b : InRanges(b, r) => InRanges(b, q)
          /\ \A b \in a .. e : InRanges(b, q)
      <4>1. q = r \o <<<<a, e>>>>
        BY <2>2, <3>1
      <4>2. AreRuns(r, S) /\ IsRun(a, e, S) /\ Len(r) + 1 = m + 1
        BY <1>1, <1>3, <3>1
      <4> HIDE DEF m
      <4>3. AreRuns(q, S) /\ OneMore(q, r, a, e)
        BY <3>2, <4>1, <4>2, AnotherRun
      <4> QED
        BY <4>2, <4>3 DEF OneMore
    <3>4. q[m + 1][2] = e /\ e >= m /\ Len(q) <= m + 1
      BY <2>1, <3>1, <3>3 DEF IsRun
    <3>5. \A b \in S : b <= e => InRanges(b, q)
      BY <1>1, <2>1, <2>3, <3>1, <3>3
    <3> QED
      BY <3>3, <3>4, <3>5 DEF Searched, q
  <2> QED
    BY <2>1, <2>4, <2>5, RangeAfterFacts
<1>4. QED
  BY <1>1, <1>2, <1>3

LEMMA RangesAreRuns ==
  ASSUME B!BitSetAssumption, NEW s, NEW S, HoldsBits(s, S)
  PROVE  AreRuns(B!Ranges(s), S) /\ \A b \in S : InRanges(b, B!Ranges(s))
<1> DEFINE N == s.length
           r == B!Ranges(s)
<1>1. N \in Nat /\ S \subseteq 0 .. N - 1
  BY DEF HoldsBits, BitSets
<1>2. PICK f : IsSearch(f, s, N) /\ r = f[N]
  BY <1>1, RangesAreSearched
<1> DEFINE T == {n \in 0 .. N : Searched(f[n], n, S)}
<1>3. 0 \in T
  <2>1. f[0] = RangeAfter(s, -1)
    BY <1>1, <1>2 DEF IsSearch
  <2> QED
    BY <1>1, <2>1, FirstRange
<1>4. ASSUME NEW n \in 0 .. N, n # 0, n - 1 \in T PROVE n \in T
  <2>1. f[n] = NextRanges(s, n, f[n - 1])
    BY <1>2, <1>4 DEF IsSearch
  <2>2. n - 1 \in Nat /\ (n - 1) + 1 = n /\ Searched(f[n - 1], n - 1, S)
    BY <1>4
  <2> QED
    BY <2>1, <2>2, NextRange
<1>5. Searched(r, N, S)
  <2> HIDE DEF T
  <2>1. 0 .. N \subseteq T
    BY <1>1, <1>3, <1>4, TurnInduction
  <2>2. N \in T
    BY <1>1, <2>1
  <2> QED
    BY <1>2, <2>2 DEF T
<1> HIDE DEF r
<1>6. Len(r) # N + 1
  <2>1. SUFFICES ASSUME Len(r) = N + 1 PROVE FALSE
    OBVIOUS
  <2>2. r[N + 1][2] >= N /\ r[N + 1] \in Nat \X Nat /\ IsRun(r[N + 1][1], r[N + 1][2], S)
    BY <1>1, <1>5, <2>1 DEF Searched, AreRuns
  <2>3. r[N + 1][2] \in S
    BY <2>2 DEF IsRun
  <2> QED
    BY <1>1, <2>2, <2>3
<1>7. QED
  BY <1>5, <1>6 DEF Searched, r

LEMMA InvRangesExact ==
  ASSUME B!BitSetAssumption, BInv
  PROVE  B!RangesExact
<1> SUFFICES ASSUME NEW x \in Sets
             PROVE  LET ranges == B!Ranges(bitSet[x])
                    IN /\ members[x] = UNION {ranges[n][1] .. ranges[n][2] : n \in DOMAIN ranges}
                       /\ \A n \in DOMAIN ranges : ranges[n][1] <= ranges[n][2]
                       /\ \A n \in 1 .. Len(ranges) - 1 : ranges[n][2] + 1 < ranges[n + 1][1]
  BY Zenon DEF B!RangesExact
<1> DEFINE r == B!Ranges(bitSet[x])
<1>1. AreRuns(r, members[x]) /\ \A b \in members[x] : InRanges(b, r)
  BY RangesAreRuns DEF BInv
<1> HIDE DEF r
<1>2. /\ DOMAIN r = 1 .. Len(r)
      /\ \A n \in 1 .. Len(r) : IsRun(r[n][1], r[n][2], members[x])
      /\ \A n \in 1 .. Len(r) - 1 : r[n][2] + 1 < r[n + 1][1]
  <2>1. r \in Seq(Nat \X Nat)
    BY <1>1 DEF AreRuns
  <2>2. DOMAIN r = 1 .. Len(r)
    BY <2>1, LenProperties
  <2> QED
    BY <1>1, <2>2, Zenon DEF AreRuns
<1>3. members[x] = UNION {r[n][1] .. r[n][2] : n \in DOMAIN r}
  BY <1>1, <1>2 DEF IsRun, InRanges
<1>4. \A n \in DOMAIN r : r[n][1] <= r[n][2]
  BY <1>2 DEF IsRun
<1>5. QED
  BY <1>2, <1>3, <1>4 DEF r

(***************************************************************************)
(* For any word size and any length: a bit set is the set of the bits that *)
(* its client put there, for every question about one or two sets of any   *)
(* lengths, and the ranges that the loop tracer writes for it are its      *)
(* maximal runs, in order.                                                 *)
(***************************************************************************)
THEOREM BitSetsAlwaysExact ==
  ASSUME B!BitSetAssumption
  PROVE  B!Spec => [](B!BitSetsAreSets /\ B!RangesExact)
<1>1. BInv => B!BitSetsAreSets /\ B!RangesExact
  BY InvBitSetsAreSets, InvRangesExact
<1>2. QED
  BY <1>1, BitSetsHoldTheirBits, PTL

-----------------------------------------------------------------------------
(* The synchronised calls of all the containers.                           *)

CONSTANTS Containers, MaxPuts
VARIABLES mutex, call, items, thread, puts, putAtEnd

Sync == INSTANCE XanSync

P == INSTANCE XanPipe

\* The sizes of sets that XanSync speaks of are those of the library's facts.
LEMMA SameSizes ==
  \A T : /\ Sync!Cardinality(T) = Cardinality(T)
         /\ Sync!IsFiniteSet(T) <=> IsFiniteSet(T)
BY Zenon DEF Sync!Cardinality, Cardinality, Sync!IsFiniteSet, IsFiniteSet

Calls ==
  [locks : Seq(Containers), held : Nat,
   doing : {"nothing", "locking", "working", "unlocking"}]

CallsTyped ==
  /\ mutex \in [Containers -> Threads \cup {NULL}]
  /\ call \in [Threads -> Calls]

\* The mutexes that a call has locked and not unlocked.
Held(t) == {call[t].locks[i] : i \in 1 .. call[t].held}

\* A call takes its mutexes one after the other, and gives them all back.
InStep(t) ==
  /\ call[t].doing = "nothing" => call[t] = Sync!Idle
  /\ call[t].doing = "locking" => call[t].held < Len(call[t].locks)
  /\ call[t].doing = "working" => call[t].held = Len(call[t].locks) /\ call[t].held > 0
  /\ call[t].doing = "unlocking" => call[t].held \in 1 .. Len(call[t].locks)

\* It holds none of them twice, for the mutexes are not recursive.
HeldOnce(t) ==
  \A i, j \in 1 .. call[t].held : i # j => call[t].locks[i] # call[t].locks[j]

Owns(t) == \A c \in Containers : mutex[c] = t <=> c \in Held(t)

CallsInv ==
  /\ CallsTyped
  /\ \A t \in Threads : InStep(t) /\ HeldOnce(t) /\ Owns(t)

-----------------------------------------------------------------------------
(***************************************************************************)
(* A call that waits for a mutex wants that of a container (xanlist.c, the  *)
(* lock at the start of a call).                                           *)
(***************************************************************************)
LEMMA WantedIsContainer ==
  ASSUME CallsTyped, NEW t \in Threads, InStep(t), call[t].doing = "locking"
  PROVE  /\ call[t].held + 1 \in 1 .. Len(call[t].locks)
         /\ Sync!Wanted(t) \in Containers
<1>1. /\ call[t].held \in Nat /\ call[t].locks \in Seq(Containers)
      /\ call[t].held < Len(call[t].locks)
  BY DEF CallsTyped, Calls, InStep
<1>2. Len(call[t].locks) \in Nat
  BY <1>1, LenProperties
<1>3. call[t].held + 1 \in 1 .. Len(call[t].locks)
  BY <1>1, <1>2
<1>4. QED
  BY <1>1, <1>3, ElementOfSeq DEF Sync!Wanted

(***************************************************************************)
(* A thread between two calls has a call that takes nothing.               *)
(***************************************************************************)
LEMMA IdleIsCall == Sync!Idle \in Calls
BY EmptySeq DEF Sync!Idle, Calls

(***************************************************************************)
(* In the beginning no call holds a mutex.                                 *)
(***************************************************************************)
LEMMA InitCallsInv == Sync!SyncAssumption /\ Sync!Init => CallsInv
<1> SUFFICES ASSUME Sync!SyncAssumption, Sync!Init PROVE CallsInv
  OBVIOUS
<1>1. CallsTyped
  BY IdleIsCall DEF Sync!Init, CallsTyped
<1>2. ASSUME NEW t \in Threads
      PROVE  InStep(t) /\ HeldOnce(t) /\ Owns(t)
  <2>1. call[t] = Sync!Idle /\ Len(call[t].locks) = 0
    BY EmptySeq DEF Sync!Init, Sync!Idle
  <2>2. InStep(t) /\ HeldOnce(t)
    BY <2>1 DEF Sync!Idle, InStep, HeldOnce
  <2>3. Held(t) = {}
    BY <2>1 DEF Held, Sync!Idle
  <2>4. QED
    BY <2>2, <2>3 DEF Owns, Sync!Init, Sync!SyncAssumption
<1>3. QED
  BY <1>1, <1>2 DEF CallsInv

(***************************************************************************)
(* What another thread's step leaves alone: this call, and who holds the   *)
(* mutexes of this call.                                                   *)
(***************************************************************************)
LEMMA OtherCallKept ==
  ASSUME NEW t \in Threads, InStep(t), HeldOnce(t), Owns(t), call'[t] = call[t],
         \A c \in Containers : mutex'[c] = t <=> mutex[c] = t
  PROVE  (InStep(t) /\ HeldOnce(t) /\ Owns(t))'
BY DEF InStep, HeldOnce, Owns, Held

(***************************************************************************)
(* A call begins with no mutex locked.                                     *)
(***************************************************************************)
LEMMA CallKeepsCallsInv ==
  ASSUME CallsInv, NEW t \in Threads, NEW locks \in Seq(Containers), locks # <<>>,
         Sync!Call(t, locks)
  PROVE  CallsInv'
<1>1. call[t] = Sync!Idle /\ UNCHANGED mutex
  BY DEF Sync!Call
<1>2. /\ call'[t] = [locks |-> locks, held |-> 0, doing |-> "locking"]
      /\ \A u \in Threads : u # t => call'[u] = call[u]
  BY DEF Sync!Call, CallsInv, CallsTyped
<1>3. call'[t] \in Calls
  BY <1>2 DEF Calls
<1>4. CallsTyped'
  <2>1. call' \in [Threads -> Calls]
    BY <1>3 DEF Sync!Call, CallsInv, CallsTyped
  <2>2. QED
    BY <1>1, <2>1 DEF CallsInv, CallsTyped
<1>5. Len(locks) > 0
  BY EmptySeq, LenProperties
<1>6. (InStep(t) /\ HeldOnce(t))'
  BY <1>2, <1>5 DEF InStep, HeldOnce
<1>7. Owns(t)'
  <2>1. Held(t) = {} /\ Held(t)' = {}
    BY <1>1, <1>2 DEF Held, Sync!Idle
  <2>2. QED
    BY <1>1, <2>1 DEF CallsInv, Owns
<1>8. ASSUME NEW u \in Threads, u # t
      PROVE  (InStep(u) /\ HeldOnce(u) /\ Owns(u))'
  BY <1>1, <1>2, <1>8, OtherCallKept DEF CallsInv
<1>9. QED
  BY <1>4, <1>6, <1>7, <1>8 DEF CallsInv

(***************************************************************************)
(* A call that locks the mutex it waits for becomes its holder.            *)
(***************************************************************************)
LEMMA LockMutexKeepsCallsInv ==
  ASSUME Sync!SyncAssumption, CallsInv, NEW t \in Threads, Sync!LockMutex(t)
  PROVE  CallsInv'
<1> DEFINE n == call[t].held + 1
           locks == call[t].locks
<1>1. /\ call[t].doing = "locking" /\ mutex[Sync!Wanted(t)] = NULL
      /\ mutex' = [mutex EXCEPT ![Sync!Wanted(t)] = t]
  BY DEF Sync!LockMutex
<1>2. n \in 1 .. Len(locks) /\ Sync!Wanted(t) \in Containers /\ Sync!Wanted(t) = locks[n]
  BY <1>1, WantedIsContainer DEF CallsInv, Sync!Wanted
<1>3. call[t] \in Calls /\ locks \in Seq(Containers) /\ call[t].held \in Nat /\ Len(locks) \in Nat
  BY LenProperties DEF CallsInv, CallsTyped, Calls
<1>4. call'[t] = [locks |-> locks, held |-> n,
                  doing |-> IF n = Len(locks) THEN "working" ELSE "locking"]
  BY <1>3 DEF Sync!LockMutex, CallsInv, CallsTyped, Calls
<1>5. \A u \in Threads : u # t => call'[u] = call[u]
  BY DEF Sync!LockMutex, CallsInv, CallsTyped
<1>6. CallsTyped'
  <2>1. call'[t] \in Calls
    BY <1>3, <1>4 DEF Calls
  <2>2. call' \in [Threads -> Calls]
    <3>1. call' = [u \in Threads |-> call'[u]]
      BY DEF Sync!LockMutex, CallsInv, CallsTyped
    <3>2. \A u \in Threads : call'[u] \in Calls
      BY <1>5, <2>1 DEF CallsInv, CallsTyped
    <3>3. QED
      BY <3>1, <3>2
  <2>3. mutex' \in [Containers -> Threads \cup {NULL}]
    BY <1>1 DEF CallsInv, CallsTyped
  <2>4. QED
    BY <2>2, <2>3 DEF CallsTyped
<1>7. (InStep(t) /\ HeldOnce(t))'
  <2>1. \A i \in 1 .. n - 1 : locks[i] # locks[n]
    <3>1. mutex[locks[n]] # t
      BY <1>1, <1>2 DEF Sync!SyncAssumption
    <3>2. locks[n] \notin Held(t)
      BY <1>2, <3>1 DEF CallsInv, Owns
    <3>3. QED
      BY <1>3, <3>2 DEF Held
  <2>2. \A i, j \in 1 .. n - 1 : i # j => locks[i] # locks[j]
    BY <1>3 DEF CallsInv, HeldOnce
  <2>3. call'[t].held = n /\ call'[t].locks = locks
    BY <1>4
  <2>4. HeldOnce(t)'
    <3>1. SUFFICES ASSUME NEW i \in 1 .. n, NEW j \in 1 .. n, i # j
                   PROVE  locks[i] # locks[j]
      BY <2>3 DEF HeldOnce
    <3>2. CASE i = n
      <4>1. j \in 1 .. n - 1
        BY <1>3, <3>1, <3>2
      <4>2. QED
        BY <2>1, <3>2, <4>1
    <3>3. CASE j = n
      <4>1. i \in 1 .. n - 1
        BY <1>3, <3>1, <3>3
      <4>2. QED
        BY <2>1, <3>3, <4>1
    <3>4. CASE i # n /\ j # n
      <4>1. \A m \in Nat : \A k \in 1 .. m + 1 : k # m + 1 => k \in 1 .. (m + 1) - 1
        OBVIOUS
      <4>2. i \in 1 .. n - 1 /\ j \in 1 .. n - 1
        BY <1>3, <3>4, <4>1
      <4>3. QED
        BY <2>2, <3>1, <4>2
    <3>5. QED
      BY <3>2, <3>3, <3>4
  <2>5. InStep(t)'
    BY <1>2, <1>3, <1>4 DEF InStep, CallsInv
  <2>6. QED
    BY <2>4, <2>5
<1>8. Owns(t)'
  <2>1. Held(t)' = Held(t) \cup {Sync!Wanted(t)}
    <3>1. call'[t].held = n /\ call'[t].locks = locks /\ 1 .. n = (1 .. call[t].held) \cup {n}
      BY <1>2, <1>3, <1>4
    <3>2. QED
      BY <1>2, <3>1 DEF Held
  <2>2. ASSUME NEW c \in Containers
        PROVE  mutex'[c] = t <=> c \in Held(t)'
    <3>1. mutex'[c] = IF c = Sync!Wanted(t) THEN t ELSE mutex[c]
      BY <1>1 DEF CallsInv, CallsTyped
    <3>2. QED
      BY <2>1, <3>1 DEF CallsInv, Owns
  <2>3. QED
    BY <2>2 DEF Owns
<1>9. ASSUME NEW u \in Threads, u # t
      PROVE  (InStep(u) /\ HeldOnce(u) /\ Owns(u))'
  <2>1. \A c \in Containers : mutex'[c] = u <=> mutex[c] = u
    BY <1>1, <1>9 DEF CallsInv, CallsTyped, Sync!SyncAssumption
  <2>2. QED
    BY <1>5, <1>9, <2>1, OtherCallKept DEF CallsInv
<1>10. QED
  BY <1>6, <1>7, <1>8, <1>9 DEF CallsInv

(***************************************************************************)
(* The work itself needs no mutex and changes none.                        *)
(***************************************************************************)
LEMMA WorkKeepsCallsInv ==
  ASSUME CallsInv, NEW t \in Threads, Sync!Work(t)
  PROVE  CallsInv'
<1>1. call[t].doing = "working" /\ UNCHANGED mutex
  BY DEF Sync!Work
<1>2. call[t] \in Calls /\ call[t].locks \in Seq(Containers) /\ call[t].held \in Nat
  BY DEF CallsInv, CallsTyped, Calls
<1>3. /\ call'[t] = [locks |-> call[t].locks, held |-> call[t].held, doing |-> "unlocking"]
      /\ \A u \in Threads : u # t => call'[u] = call[u]
  BY <1>2 DEF Sync!Work, CallsInv, CallsTyped, Calls
<1>4. CallsTyped'
  <2>1. call'[t] \in Calls
    BY <1>2, <1>3 DEF Calls
  <2>2. call' = [u \in Threads |-> call'[u]]
    BY DEF Sync!Work, CallsInv, CallsTyped
  <2>3. \A u \in Threads : call'[u] \in Calls
    BY <1>3, <2>1 DEF CallsInv, CallsTyped
  <2>4. QED
    BY <1>1, <2>2, <2>3 DEF CallsInv, CallsTyped
<1>5. (InStep(t) /\ HeldOnce(t) /\ Owns(t))'
  <2>1. Held(t)' = Held(t)
    BY <1>3 DEF Held
  <2>2. Owns(t)'
    BY <1>1, <2>1 DEF Owns, CallsInv
  <2>3. (InStep(t) /\ HeldOnce(t))'
    BY <1>1, <1>2, <1>3, LenProperties DEF InStep, HeldOnce, CallsInv
  <2>4. QED
    BY <2>2, <2>3
<1>6. ASSUME NEW u \in Threads, u # t
      PROVE  (InStep(u) /\ HeldOnce(u) /\ Owns(u))'
  BY <1>1, <1>3, <1>6, OtherCallKept DEF CallsInv
<1>7. QED
  BY <1>4, <1>5, <1>6 DEF CallsInv

(***************************************************************************)
(* A call gives up the mutex that it locked last, and no other, as it      *)
(* holds none of them twice.                                               *)
(***************************************************************************)
LEMMA UnlockMutexKeepsCallsInv ==
  ASSUME Sync!SyncAssumption, CallsInv, NEW t \in Threads, Sync!UnlockMutex(t)
  PROVE  CallsInv'
<1> DEFINE n == call[t].held
           locks == call[t].locks
<1>1. call[t].doing = "unlocking" /\ mutex' = [mutex EXCEPT ![locks[n]] = NULL]
  BY DEF Sync!UnlockMutex, Sync!Unlocked
<1>2. /\ call[t] \in Calls /\ locks \in Seq(Containers) /\ n \in Nat /\ Len(locks) \in Nat
      /\ n \in 1 .. Len(locks)
  BY <1>1, LenProperties DEF CallsInv, InStep, CallsTyped, Calls
<1>3. locks[n] \in Containers
  BY <1>2, ElementOfSeq
<1>4. /\ n = 1 => call'[t] = Sync!Idle
      /\ n # 1 => call'[t] = [locks |-> locks, held |-> n - 1, doing |-> "unlocking"]
      /\ \A u \in Threads : u # t => call'[u] = call[u]
  <2>1. /\ call'[t] = IF n = 1 THEN Sync!Idle ELSE [call[t] EXCEPT !.held = @ - 1]
        /\ \A u \in Threads : u # t => call'[u] = call[u]
    BY DEF Sync!UnlockMutex, CallsInv, CallsTyped
  <2>2. [call[t] EXCEPT !.held = @ - 1] = [locks |-> locks, held |-> n - 1, doing |-> "unlocking"]
    BY <1>1, <1>2 DEF Calls
  <2>3. QED
    BY <2>1, <2>2
<1>5. CallsTyped'
  <2>1. call'[t] \in Calls
    <3>1. CASE n = 1
      BY <1>4, <3>1, IdleIsCall
    <3>2. CASE n # 1
      BY <1>2, <1>4, <3>2 DEF Calls
    <3>3. QED
      BY <3>1, <3>2
  <2>2. call' = [u \in Threads |-> call'[u]]
    BY DEF Sync!UnlockMutex, CallsInv, CallsTyped
  <2>3. \A u \in Threads : call'[u] \in Calls
    BY <1>4, <2>1 DEF CallsInv, CallsTyped
  <2>4. mutex' \in [Containers -> Threads \cup {NULL}]
    BY <1>1 DEF CallsInv, CallsTyped
  <2>5. QED
    BY <2>2, <2>3, <2>4 DEF CallsTyped
<1>6. (InStep(t) /\ HeldOnce(t))'
  <2>1. CASE n = 1
    <3>1. Len(<<>>) = 0
      BY EmptySeq
    <3>2. QED
      BY <1>4, <2>1, <3>1 DEF InStep, HeldOnce, Sync!Idle
  <2>2. CASE n # 1
    <3>1. /\ call'[t].locks = locks /\ call'[t].held = n - 1 /\ call'[t].doing = "unlocking"
          /\ n - 1 \in 1 .. Len(locks)
      BY <1>2, <1>4, <2>2
    <3>2. InStep(t)'
      BY <3>1 DEF InStep
    <3>3. \A i \in 1 .. n - 1 : i \in 1 .. n
      BY <1>2
    <3>4. \A i, j \in 1 .. n : i # j => locks[i] # locks[j]
      BY DEF CallsInv, HeldOnce
    <3>5. HeldOnce(t)'
      BY <3>1, <3>3, <3>4 DEF HeldOnce
    <3>6. QED
      BY <3>2, <3>5
  <2>3. QED
    BY <2>1, <2>2
<1>7. Held(t)' = Held(t) \ {locks[n]}
  <2>1. CASE n = 1
    BY <1>4, <2>1 DEF Held, Sync!Idle
  <2>2. CASE n # 1
    <3>1. \A i \in 1 .. n - 1 : locks[i] # locks[n]
      BY <1>2 DEF CallsInv, HeldOnce
    <3>2. 1 .. n = (1 .. n - 1) \cup {n} /\ call'[t].held = n - 1 /\ call'[t].locks = locks
      BY <1>2, <1>4, <2>2
    <3>3. QED
      BY <3>1, <3>2 DEF Held
  <2>3. QED
    BY <2>1, <2>2
<1>8. Owns(t)'
  <2>1. ASSUME NEW c \in Containers
        PROVE  mutex'[c] = t <=> c \in Held(t)'
    <3>1. mutex'[c] = IF c = locks[n] THEN NULL ELSE mutex[c]
      BY <1>1 DEF CallsInv, CallsTyped
    <3>2. QED
      BY <1>7, <3>1 DEF CallsInv, Owns, Sync!SyncAssumption
  <2>2. QED
    BY <2>1 DEF Owns
<1>9. ASSUME NEW u \in Threads, u # t
      PROVE  (InStep(u) /\ HeldOnce(u) /\ Owns(u))'
  <2>1. mutex[locks[n]] = t
    BY <1>2, <1>3 DEF CallsInv, Owns, Held
  <2>2. \A c \in Containers : mutex'[c] = u <=> mutex[c] = u
    BY <1>1, <1>9, <2>1 DEF CallsInv, CallsTyped, Sync!SyncAssumption
  <2>3. QED
    BY <1>4, <1>9, <2>2, OtherCallKept DEF CallsInv
<1>10. QED
  BY <1>5, <1>6, <1>8, <1>9 DEF CallsInv

(***************************************************************************)
(* No call, on any containers, and no step of it breaks the invariant.     *)
(***************************************************************************)
LEMMA NextCallsInv == Sync!SyncAssumption /\ CallsInv /\ [Sync!Next]_Sync!syncVars => CallsInv'
<1> SUFFICES ASSUME Sync!SyncAssumption, CallsInv, [Sync!Next]_Sync!syncVars PROVE CallsInv'
  OBVIOUS
<1>1. CASE UNCHANGED Sync!syncVars
  BY <1>1 DEF Sync!syncVars, CallsInv, CallsTyped, InStep, HeldOnce, Owns, Held
<1>2. ASSUME NEW t \in Threads, NEW c \in Containers, Sync!Call(t, Sync!OwnMutex(c))
      PROVE  CallsInv'
  <2> DEFINE locks == <<c>>
  <2>1. locks \in Seq(Containers) /\ locks # <<>>
    OBVIOUS
  <2>2. Sync!Call(t, locks)
    BY <1>2 DEF Sync!OwnMutex
  <2> HIDE DEF locks
  <2>3. QED
    BY <2>1, <2>2, CallKeepsCallsInv
<1>3. ASSUME NEW t \in Threads, NEW c \in Containers, NEW d \in Containers,
             Sync!Call(t, Sync!BothMutexes(c, d))
      PROVE  CallsInv'
  <2> DEFINE locks == <<c, d>>
  <2>1. locks \in Seq(Containers) /\ locks # <<>>
    OBVIOUS
  <2>2. Sync!Call(t, locks)
    BY <1>3 DEF Sync!BothMutexes
  <2> HIDE DEF locks
  <2>3. QED
    BY <2>1, <2>2, CallKeepsCallsInv
<1>4. ASSUME NEW t \in Threads, Sync!LockMutex(t) PROVE CallsInv'
  BY <1>4, LockMutexKeepsCallsInv
<1>5. ASSUME NEW t \in Threads, Sync!Work(t) PROVE CallsInv'
  BY <1>5, WorkKeepsCallsInv
<1>6. ASSUME NEW t \in Threads, Sync!UnlockMutex(t) PROVE CallsInv'
  BY <1>6, UnlockMutexKeepsCallsInv
<1>7. ASSUME NEW t \in Threads, NEW c \in Containers, Sync!Call(t, Sync!InsertAfterMutexes(c))
      PROVE  CallsInv'
  BY <1>3, <1>7 DEF Sync!BothMutexes, Sync!InsertAfterMutexes
<1>8. QED
  BY <1>1, <1>2, <1>3, <1>4, <1>5, <1>6, <1>7 DEF Sync!Next

-----------------------------------------------------------------------------
(***************************************************************************)
(* A call that works on a container holds its mutex, which only one can    *)
(* (xanlist.c, the body of a synchronised call).                           *)
(***************************************************************************)
LEMMA WorkersExclude ==
  ASSUME Sync!SyncAssumption, CallsInv, NEW c \in Containers
  PROVE  Sync!Cardinality(Sync!Users(c)) <= 1
<1>1. ASSUME NEW t \in Sync!Users(c) PROVE mutex[c] = t
  <2>1. /\ t \in Threads /\ call[t].doing = "working"
        /\ \E i \in 1 .. Len(call[t].locks) : call[t].locks[i] = c
    BY <1>1 DEF Sync!Users, Sync!Contains
  <2>2. c \in Held(t)
    BY <2>1 DEF CallsInv, InStep, Held
  <2>3. QED
    BY <2>1, <2>2 DEF CallsInv, Owns
<1>2. Sync!Users(c) \in SUBSET {mutex[c]}
  BY <1>1
<1>3. IsFiniteSet({mutex[c]}) /\ Cardinality({mutex[c]}) = 1
  BY FS_Singleton
<1>4. QED
  BY <1>2, <1>3, SameSizes, FS_Subset, FS_CardinalityType

(***************************************************************************)
(* The thread that a waiting call waits for holds what it wants; if it     *)
(* waits in turn, and takes its mutexes in order, then for a later one.    *)
(***************************************************************************)
LEMMA WaitsUpwards ==
  ASSUME Sync!SyncAssumption, CallsInv, NEW t \in Threads, NEW u \in Threads,
         Sync!WaitsFor(t) = u, Sync!WaitsFor(u) \in Threads, Sync!LockedInOrder(u)
  PROVE  /\ Sync!Wanted(t) \in Containers /\ Sync!Wanted(u) \in Containers
         /\ Sync!Wanted(t) < Sync!Wanted(u)
<1>1. /\ call[t].doing = "locking" /\ mutex[Sync!Wanted(t)] = u
      /\ call[u].doing = "locking"
  BY DEF Sync!WaitsFor, Sync!SyncAssumption
<1>2. /\ Sync!Wanted(t) \in Containers /\ Sync!Wanted(u) \in Containers
      /\ call[u].held + 1 \in 1 .. Len(call[u].locks)
  BY <1>1, WantedIsContainer DEF CallsInv
<1>3. PICK i \in 1 .. call[u].held : call[u].locks[i] = Sync!Wanted(t)
  BY <1>1, <1>2 DEF CallsInv, Owns, Held
<1>4. call[u].held \in Nat /\ Len(call[u].locks) \in Nat
  BY LenProperties DEF CallsInv, CallsTyped, Calls
<1>5. i \in 1 .. Len(call[u].locks) /\ i < call[u].held + 1
  <2>1. \A m, n \in Nat : n + 1 \in 1 .. m => \A k \in 1 .. n : k \in 1 .. m /\ k < n + 1
    OBVIOUS
  <2>2. QED
    BY <1>2, <1>4, <2>1
<1>6. call[u].locks[i] < call[u].locks[call[u].held + 1]
  <2>1. DOMAIN call[u].locks = 1 .. Len(call[u].locks)
    BY LenProperties DEF CallsInv, CallsTyped, Calls
  <2>2. QED
    BY <1>2, <1>5, <2>1 DEF Sync!LockedInOrder
<1>7. QED
  BY <1>2, <1>3, <1>6 DEF Sync!Wanted

(***************************************************************************)
(* Every non-empty finite set of natural numbers has a greatest element:   *)
(* one above which there is least.                                         *)
(***************************************************************************)
LEMMA GreatestNatural ==
  ASSUME NEW T \in SUBSET Nat, IsFiniteSet(T), T # {}
  PROVE  \E x \in T : \A y \in T : y <= x
<1> DEFINE Above(x) == {y \in T : y > x}
           All == {Above(x) : x \in T}
           R == StrictSubsetOrdering(T)
<1>1. PICK C \in All : \A D \in All : <<D, C>> \notin R
  <2>1. IsWellFoundedOn(R, SUBSET T)
    BY FS_StrictSubsetOrderingWellFounded, FS_FiniteSubsetsOfFinite
  <2>2. All \subseteq SUBSET T /\ All # {}
    OBVIOUS
  <2> HIDE DEF All, R
  <2>3. QED
    BY <2>1, <2>2, WFMin
<1>2. PICK x \in T : C = Above(x)
  OBVIOUS
<1>3. ASSUME NEW y \in T, y > x PROVE FALSE
  <2>1. x \in Nat /\ y \in Nat
    OBVIOUS
  <2>2. Above(y) \subseteq Above(x) /\ y \in Above(x) /\ y \notin Above(y)
    <3>1. \A z \in T : z \in Nat /\ (z > y => z > x) /\ ~ (y > y)
      BY <1>3, <2>1
    <3>2. QED
      BY <1>3, <3>1
  <2>3. <<Above(y), C>> \in R
    BY <1>2, <2>2 DEF StrictSubsetOrdering
  <2>4. QED
    BY <1>1, <2>3
<1>4. \A y \in T : y \in Nat /\ (y > x \/ y <= x)
  OBVIOUS
<1>5. QED
  BY <1>3, <1>4

(***************************************************************************)
(* So where all calls take their mutexes in order there is no circle: of   *)
(* the threads that wait for each other, one wants the last mutex.         *)
(***************************************************************************)
LEMMA NoCircle ==
  ASSUME Sync!SyncAssumption, CallsInv, NEW waiting \in SUBSET Threads, Sync!Stuck(waiting)
  PROVE  \E t \in waiting : ~ Sync!LockedInOrder(t)
<1> SUFFICES ASSUME \A t \in waiting : Sync!LockedInOrder(t)
             PROVE  FALSE
  OBVIOUS
<1> DEFINE W == {Sync!Wanted(t) : t \in waiting}
<1>1. \A t \in waiting : /\ Sync!WaitsFor(t) \in waiting
                         /\ Sync!Wanted(t) \in Containers /\ Sync!Wanted(t) < Sync!Wanted(Sync!WaitsFor(t))
  BY WaitsUpwards DEF Sync!Stuck
<1>2. W \in SUBSET Containers /\ W # {}
  BY <1>1 DEF Sync!Stuck
<1>3. IsFiniteSet(W) /\ W \in SUBSET Nat
  BY <1>2, SameSizes, FS_Subset DEF Sync!SyncAssumption
<1>4. PICK x \in W : \A y \in W : y <= x
  <2> HIDE DEF W
  <2>1. QED
    BY <1>2, <1>3, GreatestNatural
<1>5. PICK t \in waiting : Sync!Wanted(t) = x
  OBVIOUS
<1>6. Sync!Wanted(Sync!WaitsFor(t)) \in W
  BY <1>1
<1>7. x \in Nat /\ Sync!Wanted(Sync!WaitsFor(t)) \in Nat
  BY <1>3, <1>6
<1>8. QED
  BY <1>1, <1>4, <1>5, <1>6, <1>7

(***************************************************************************)
(* No two calls work on a container at the same time, no returned call has *)
(* kept a mutex, and where threads wait for each other, one of them takes  *)
(* its mutexes out of order (the synchronised calls of xanlist.c,          *)
(* xantable.c and the others).  Nothing is assumed of the calls' order.    *)
(***************************************************************************)
THEOREM CallsAlwaysExclusive ==
  ASSUME Sync!SyncAssumption
  PROVE  Sync!Spec => []Sync!CallsExclusive
<1>1. Sync!Init => CallsInv
  BY InitCallsInv
<1>2. CallsInv /\ [Sync!Next]_Sync!syncVars => CallsInv'
  BY NextCallsInv
<1>3. CallsInv => Sync!CallsExclusive
  <2> SUFFICES ASSUME CallsInv PROVE Sync!CallsExclusive
    OBVIOUS
  <2>1. \A c \in Containers : Sync!Cardinality(Sync!Users(c)) <= 1
    BY WorkersExclude
  <2>2. ASSUME NEW c \in Containers, mutex[c] # NULL
        PROVE  call[mutex[c]] # Sync!Idle
    <3>1. mutex[c] \in Threads /\ c \in Held(mutex[c])
      BY <2>2 DEF CallsInv, CallsTyped, Owns
    <3>2. \E i \in 1 .. call[mutex[c]].held : TRUE
      BY <3>1 DEF Held
    <3>3. QED
      BY <3>2 DEF Sync!Idle
  <2>3. \A threads \in SUBSET Threads :
          Sync!Stuck(threads) => \E t \in threads : ~ Sync!LockedInOrder(t)
    BY NoCircle
  <2>4. QED
    BY <2>1, <2>2, <2>3 DEF Sync!CallsExclusive
<1>4. QED
  BY <1>1, <1>2, <1>3, PTL DEF Sync!Spec

-----------------------------------------------------------------------------
(***************************************************************************)
(* Taking an item out of the middle of a pipe leaves a pipe (xanpipe.c,    *)
(* xanPipe_removeItem).                                                    *)
(***************************************************************************)
LEMMA RemoveAtType ==
  ASSUME NEW S, NEW s \in Seq(S), NEW k \in DOMAIN s
  PROVE  P!RemoveAt(s, k) \in Seq(S)
<1>1. k \in 1 .. Len(s)
  BY LenProperties
<1>2. SubSeq(s, 1, k - 1) \in Seq(S) /\ SubSeq(s, k + 1, Len(s)) \in Seq(S)
  BY <1>1, SubSeqProperties
<1> QED
  BY <1>2, ConcatProperties DEF P!RemoveAt

(***************************************************************************)
(* Every call leaves the pipe well typed (xanpipe.c).                      *)
(***************************************************************************)
THEOREM PipeTypeCorrect == P!Spec => []P!TypeOK
<1>1. P!Init => P!TypeOK
  <2> SUFFICES ASSUME P!Init PROVE P!TypeOK
    OBVIOUS
  <2>1. items \in Seq(Nat)
    BY EmptySeq DEF P!Init
  <2>2. puts \in Nat /\ putAtEnd \in BOOLEAN
    BY DEF P!Init
  <2>3. thread \in [Threads -> {"idle", "getting", "asleep"}]
    BY DEF P!Init
  <2> QED
    BY <2>1, <2>2, <2>3 DEF P!TypeOK
<1>2. P!TypeOK /\ [P!Next]_P!pipeVars => P!TypeOK'
  <2> SUFFICES ASSUME P!TypeOK, [P!Next]_P!pipeVars
               PROVE  P!TypeOK'
    OBVIOUS
  <2> USE DEF P!TypeOK
  <2>1. CASE UNCHANGED P!pipeVars
    BY <2>1 DEF P!pipeVars
  <2>2. ASSUME NEW t \in Threads, P!CallSyncGet(t) \/ P!SpuriousWakeup(t)
        PROVE  P!TypeOK'
    BY <2>2 DEF P!CallSyncGet, P!SpuriousWakeup
  <2>3. ASSUME NEW t \in Threads, P!SyncGet(t)
        PROVE  P!TypeOK'
    BY <2>3, HeadTailProperties, SMTT(60) DEF P!SyncGet
  <2>4. ASSUME NEW t \in Threads, P!SyncPut(t)
        PROVE  P!TypeOK'
    <3>1. items' \in Seq(Nat) /\ puts' \in Nat /\ putAtEnd' \in BOOLEAN
      BY <2>4, AppendProperties DEF P!SyncPut
    <3>2. thread' \in [Threads -> {"idle", "getting", "asleep"}]
      BY <2>4 DEF P!SyncPut, P!BroadcastCondVar
    <3> QED
      BY <3>1, <3>2
  <2>5. ASSUME NEW t \in Threads, P!SyncPutAtEnd(t)
        PROVE  P!TypeOK'
    <3>1. items' \in Seq(Nat) /\ puts' \in Nat /\ putAtEnd' \in BOOLEAN
      BY <2>5, ConcatProperties DEF P!SyncPutAtEnd
    <3>2. thread' \in [Threads -> {"idle", "getting", "asleep"}]
      BY <2>5 DEF P!SyncPutAtEnd
    <3> QED
      BY <3>1, <3>2
  <2>6. ASSUME NEW t \in Threads, P!SyncMoveToEnd(t)
        PROVE  P!TypeOK'
    <3>1. PICK k \in DOMAIN items : items' = <<items[k]>> \o P!RemoveAt(items, k)
      BY <2>6 DEF P!SyncMoveToEnd
    <3>2. <<items[k]>> \in Seq(Nat) /\ P!RemoveAt(items, k) \in Seq(Nat)
      BY RemoveAtType, ElementOfSeq, LenProperties
    <3> QED
      BY <2>6, <3>1, <3>2, ConcatProperties DEF P!SyncMoveToEnd
  <2>7. ASSUME NEW t \in Threads, P!SyncRemoveItem(t)
        PROVE  P!TypeOK'
    BY <2>7, RemoveAtType DEF P!SyncRemoveItem
  <2> QED
    BY <2>1, <2>2, <2>3, <2>4, <2>5, <2>6, <2>7 DEF P!Next
<1> QED
  BY <1>1, <1>2, PTL DEF P!Spec

(***************************************************************************)
(* A thread sleeps in syncGet next to data only if some datum was put at   *)
(* the end: a put wakes all when the pipe was empty, and when it was not,  *)
(* nobody slept (xanpipe.c, xanPipe_put and xanPipe_syncGet).              *)
(***************************************************************************)
THEOREM NoWakeupLost == P!Spec => []P!NoLostWakeup
<1>1. P!Init => P!NoLostWakeup
  BY DEF P!Init, P!NoLostWakeup
<1>2. P!TypeOK /\ P!NoLostWakeup /\ [P!Next]_P!pipeVars => P!NoLostWakeup'
  <2> SUFFICES ASSUME P!TypeOK, P!NoLostWakeup, [P!Next]_P!pipeVars
               PROVE  P!NoLostWakeup'
    OBVIOUS
  <2>1. CASE UNCHANGED P!pipeVars
    BY <2>1 DEF P!pipeVars, P!NoLostWakeup, P!Asleep
  <2>2. ASSUME NEW t \in Threads, P!CallSyncGet(t) \/ P!SpuriousWakeup(t)
        PROVE  P!NoLostWakeup'
    BY <2>2 DEF P!CallSyncGet, P!SpuriousWakeup, P!NoLostWakeup, P!Asleep, P!TypeOK
  <2>3. ASSUME NEW t \in Threads, P!SyncGet(t)
        PROVE  P!NoLostWakeup'
    BY <2>3 DEF P!SyncGet, P!NoLostWakeup, P!Asleep, P!TypeOK
  <2>4. ASSUME NEW t \in Threads, P!SyncPut(t)
        PROVE  P!NoLostWakeup'
    <3>1. CASE items = <<>>
      <4>1. Len(items') = 1
        BY <2>4, <3>1, AppendProperties, EmptySeq DEF P!SyncPut, P!TypeOK
      <4>2. thread' = P!BroadcastCondVar
        BY <2>4, <4>1 DEF P!SyncPut
      <4> QED
        BY <4>2 DEF P!BroadcastCondVar, P!NoLostWakeup, P!Asleep
    <3>2. CASE items # <<>>
      <4>1. Len(items') # 1
        BY <2>4, <3>2, AppendProperties, EmptySeq DEF P!SyncPut, P!TypeOK
      <4>2. UNCHANGED <<thread, putAtEnd>>
        BY <2>4, <4>1 DEF P!SyncPut
      <4> QED
        BY <3>2, <4>2 DEF P!NoLostWakeup, P!Asleep
    <3> QED
      BY <3>1, <3>2
  <2>5. ASSUME NEW t \in Threads, P!SyncPutAtEnd(t)
        PROVE  P!NoLostWakeup'
    BY <2>5 DEF P!SyncPutAtEnd, P!NoLostWakeup
  <2>6. ASSUME NEW t \in Threads, P!SyncMoveToEnd(t) \/ P!SyncRemoveItem(t)
        PROVE  P!NoLostWakeup'
    <3>1. items # <<>>
      <4>1. PICK k \in DOMAIN items : TRUE
        BY <2>6 DEF P!SyncMoveToEnd, P!SyncRemoveItem
      <4>2. Len(items) # 0
        BY <4>1, LenProperties DEF P!TypeOK
      <4> QED
        BY <4>2, EmptySeq
    <3>2. UNCHANGED <<thread, putAtEnd>>
      BY <2>6 DEF P!SyncMoveToEnd, P!SyncRemoveItem
    <3> QED
      BY <3>1, <3>2 DEF P!NoLostWakeup, P!Asleep
  <2> QED
    BY <2>1, <2>2, <2>3, <2>4, <2>5, <2>6 DEF P!Next
<1> QED
  BY <1>1, <1>2, PipeTypeCorrect, PTL DEF P!Spec

-----------------------------------------------------------------------------
(***************************************************************************)
(* The graphs (xangraph.c).  What an edge is in its two nodes' tables is   *)
(* said of any sequences of nodes and edges and any pairs, so that it can  *)
(* be used twice for an undirected edge, which is connected in two steps.  *)
(***************************************************************************)
CONSTANTS NodeData, EdgeData, MaxGraphNodes, MaxGraphEdges
VARIABLES nodes, edges, connected

Net == INSTANCE XanGraph

NodeTables == UNION {[D -> Nat] : D \in SUBSET Nat}
GraphNodes == [data : NodeData, incomingEdges : NodeTables, outgoingEdges : NodeTables]
GraphEdges == [data : EdgeData, p1 : Nat, p2 : Nat]

\* The edges of ns and es are those between the pairs, and found from both ends.
Ends(ns, es, pairsOf) ==
  /\ ns \in Seq(GraphNodes) /\ es \in Seq(GraphEdges)
  /\ pairsOf \in SUBSET ((1 .. Len(ns)) \X (1 .. Len(ns))) /\ IsFiniteSet(pairsOf)
  /\ Len(es) = Cardinality(pairsOf)
  /\ \A n1 \in 1 .. Len(ns), n2 \in Nat :
       /\ n2 \in DOMAIN ns[n1].outgoingEdges <=> <<n1, n2>> \in pairsOf
       /\ n2 \in DOMAIN ns[n1].incomingEdges <=> <<n2, n1>> \in pairsOf
  /\ \A n1, n2 \in 1 .. Len(ns) : <<n1, n2>> \in pairsOf =>
       LET e == ns[n1].outgoingEdges[n2]
       IN /\ e \in 1 .. Len(es) /\ es[e].p1 = n1 /\ es[e].p2 = n2
          /\ ns[n2].incomingEdges[n1] = e

GraphInv == Ends(nodes, edges, connected)

\* A table has one key more, with the edge, and the other keys as before.
LEMMA EnteredTable ==
  ASSUME NEW t \in NodeTables, NEW n \in Nat, NEW e \in Nat
  PROVE  /\ Net!Entered(t, n, e) \in NodeTables
         /\ DOMAIN Net!Entered(t, n, e) = DOMAIN t \cup {n}
         /\ Net!Entered(t, n, e)[n] = e
<1>1. PICK D \in SUBSET Nat : t \in [D -> Nat]
  BY DEF NodeTables
<1>2. Net!Entered(t, n, e) \in [D \cup {n} -> Nat]
  BY <1>1 DEF Net!Entered
<1>3. D \cup {n} \in SUBSET Nat
  OBVIOUS
<1>4. Net!Entered(t, n, e) \in NodeTables
  BY <1>2, <1>3 DEF NodeTables
<1>5. QED
  BY <1>4 DEF Net!Entered

LEMMA EnteredKeeps ==
  ASSUME NEW t, NEW n, NEW e, NEW m \in DOMAIN t, m # n
  PROVE  Net!Entered(t, n, e)[m] = t[m]
BY DEF Net!Entered

LEMMA NoTable == <<>> \in NodeTables /\ DOMAIN <<>> = {}
<1>1. <<>> \in [{} -> Nat] /\ DOMAIN <<>> = {}
  OBVIOUS
<1>2. QED
  BY <1>1 DEF NodeTables

LEMMA NodeFields ==
  ASSUME NEW r \in GraphNodes, NEW t
  PROVE  /\ r = [data |-> r.data, incomingEdges |-> r.incomingEdges, outgoingEdges |-> r.outgoingEdges]
         /\ [r EXCEPT !.outgoingEdges = t]
              = [data |-> r.data, incomingEdges |-> r.incomingEdges, outgoingEdges |-> t]
BY DEF GraphNodes

\* The parts of Ends, one by one.
LEMMA EndsTypes ==
  ASSUME NEW ns, NEW es, NEW C, Ends(ns, es, C)
  PROVE  /\ ns \in Seq(GraphNodes) /\ Len(ns) \in Nat /\ DOMAIN ns = 1 .. Len(ns)
         /\ es \in Seq(GraphEdges) /\ Len(es) \in Nat
         /\ C \in SUBSET ((1 .. Len(ns)) \X (1 .. Len(ns))) /\ IsFiniteSet(C)
         /\ Len(es) = Cardinality(C)
<1>1. /\ ns \in Seq(GraphNodes) /\ es \in Seq(GraphEdges)
      /\ C \in SUBSET ((1 .. Len(ns)) \X (1 .. Len(ns))) /\ IsFiniteSet(C)
      /\ Len(es) = Cardinality(C)
  BY DEF Ends
<1>2. QED
  BY <1>1

LEMMA EdgeBetween ==
  ASSUME NEW ns, NEW es, NEW C, Ends(ns, es, C),
         NEW n1 \in 1 .. Len(ns), NEW n2 \in 1 .. Len(ns), <<n1, n2>> \in C
  PROVE  LET e == ns[n1].outgoingEdges[n2]
         IN /\ e \in 1 .. Len(es) /\ es[e].p1 = n1 /\ es[e].p2 = n2
            /\ ns[n2].incomingEdges[n1] = e
BY DEF Ends

\* A new node has no edges.
LEMMA NodeEnds ==
  ASSUME NEW ns, NEW es, NEW C, Ends(ns, es, C), NEW d \in NodeData
  PROVE  Ends(Append(ns, Net!NewGraphNode(d)), es, C)
<1> DEFINE n == Len(ns) + 1
           ms == Append(ns, Net!NewGraphNode(d))
<1>1. /\ ns \in Seq(GraphNodes) /\ Len(ns) \in Nat /\ C \in SUBSET ((1 .. Len(ns)) \X (1 .. Len(ns)))
      /\ Net!NewGraphNode(d) = [data |-> d, incomingEdges |-> <<>>, outgoingEdges |-> <<>>]
  BY DEF Ends, Net!NewGraphNode
<1>2. Net!NewGraphNode(d) \in GraphNodes
  BY <1>1, NoTable DEF GraphNodes
<1>3. ms \in Seq(GraphNodes) /\ Len(ms) = n /\ ms[n] = Net!NewGraphNode(d)
      /\ \A m \in 1 .. Len(ns) : ms[m] = ns[m]
  BY <1>1, <1>2
<1>4. ms[n].incomingEdges = <<>> /\ ms[n].outgoingEdges = <<>>
  BY <1>1, <1>3
<1> HIDE DEF ms
<1>5. \A m \in Nat : <<n, m>> \notin C /\ <<m, n>> \notin C
  BY <1>1
<1>6. \A m \in 1 .. n : m \in 1 .. Len(ns) \/ m = n
  BY <1>1
<1>7. C \in SUBSET ((1 .. n) \X (1 .. n))
  BY <1>1
<1>8. ASSUME NEW n1 \in 1 .. n, NEW n2 \in Nat
      PROVE  /\ n2 \in DOMAIN ms[n1].outgoingEdges <=> <<n1, n2>> \in C
             /\ n2 \in DOMAIN ms[n1].incomingEdges <=> <<n2, n1>> \in C
  <2>1. CASE n1 \in 1 .. Len(ns)
    BY <1>3, <2>1 DEF Ends
  <2>2. CASE n1 = n
    BY <1>4, <1>5, <2>2, NoTable
  <2>3. QED
    BY <1>6, <2>1, <2>2
<1>9. ASSUME NEW n1 \in 1 .. n, NEW n2 \in 1 .. n, <<n1, n2>> \in C
      PROVE  /\ n1 \in 1 .. Len(ns) /\ n2 \in 1 .. Len(ns)
             /\ ms[n1] = ns[n1] /\ ms[n2] = ns[n2]
  BY <1>1, <1>3, <1>9
<1>10. Ends(ms, es, C)
  <2>1. es \in Seq(GraphEdges) /\ IsFiniteSet(C) /\ Len(es) = Cardinality(C)
    BY DEF Ends
  <2>2. ASSUME NEW n1 \in 1 .. n, NEW n2 \in 1 .. n, <<n1, n2>> \in C
        PROVE  LET e == ms[n1].outgoingEdges[n2]
               IN /\ e \in 1 .. Len(es) /\ es[e].p1 = n1 /\ es[e].p2 = n2
                  /\ ms[n2].incomingEdges[n1] = e
    <3>1. /\ n1 \in 1 .. Len(ns) /\ n2 \in 1 .. Len(ns)
          /\ ms[n1] = ns[n1] /\ ms[n2] = ns[n2]
      BY <1>9, <2>2
    <3> HIDE DEF n
    <3>2. QED
      BY <2>2, <3>1, EdgeBetween
  <2> HIDE DEF n
  <2>3. QED
    BY <1>3, <1>7, <1>8, <2>1, <2>2 DEF Ends
<1>11. QED
  BY <1>10 DEF ms

\* What connecting two nodes makes of a graph.
LEMMA ConnectEnds ==
  ASSUME NEW g, NEW C, Ends(g.nodes, g.edges, C),
         NEW n1 \in 1 .. Len(g.nodes), NEW n2 \in 1 .. Len(g.nodes), NEW d \in EdgeData,
         ~ Net!ExistDirectedEdge(g, n1, n2)
  PROVE  LET h == Net!Connect(g, n1, n2, d)
         IN Ends(h.nodes, h.edges, C \cup {<<n1, n2>>})
<1> DEFINE ns == g.nodes
           es == g.edges
           e == Len(es) + 1
           new == [data |-> d, p1 |-> n1, p2 |-> n2]
           fs == Append(es, new)
           ms == [ns EXCEPT ![n1].outgoingEdges = Net!Entered(@, n2, e),
                            ![n2].incomingEdges = Net!Entered(@, n1, e)]
           D == C \cup {<<n1, n2>>}
           N == 1 .. Len(ns)
<1>1. Net!Connect(g, n1, n2, d).nodes = ms /\ Net!Connect(g, n1, n2, d).edges = fs
  BY DEF Net!Connect
<1>2. /\ ns \in Seq(GraphNodes) /\ es \in Seq(GraphEdges) /\ Len(ns) \in Nat /\ Len(es) \in Nat
      /\ C \in SUBSET (N \X N) /\ IsFiniteSet(C) /\ Len(es) = Cardinality(C)
      /\ n1 \in Nat /\ n2 \in Nat /\ e \in Nat /\ DOMAIN ns = N
  <2>1. /\ ns \in Seq(GraphNodes) /\ es \in Seq(GraphEdges) /\ Len(ns) \in Nat /\ Len(es) \in Nat
        /\ C \in SUBSET (N \X N) /\ IsFiniteSet(C) /\ Len(es) = Cardinality(C) /\ DOMAIN ns = N
    BY EndsTypes
  <2>2. QED
    BY <2>1
<1>3. <<n1, n2>> \notin C
  BY <1>2 DEF Ends, Net!ExistDirectedEdge
<1>4. fs \in Seq(GraphEdges) /\ Len(fs) = e /\ e = Len(es) + 1 /\ fs[e] = new /\ \A k \in 1 .. Len(es) : fs[k] = es[k]
  <2>1. new \in GraphEdges
    BY <1>2 DEF GraphEdges
  <2>2. QED
    BY <1>2, <2>1
<1> HIDE DEF e
<1>5. \A n \in N : ns[n] \in GraphNodes
  BY <1>2
<1>6. \A n \in N : ns[n].outgoingEdges \in NodeTables /\ ns[n].incomingEdges \in NodeTables
                   /\ ns[n].data \in NodeData
  BY <1>5 DEF GraphNodes
<1> DEFINE out(n) == IF n = n1 THEN Net!Entered(ns[n].outgoingEdges, n2, e) ELSE ns[n].outgoingEdges
           in(n) == IF n = n2 THEN Net!Entered(ns[n].incomingEdges, n1, e) ELSE ns[n].incomingEdges
<1>7. ms = [n \in N |-> [data |-> ns[n].data, incomingEdges |-> in(n), outgoingEdges |-> out(n)]]
  <2> DEFINE ms1 == [ns EXCEPT ![n1].outgoingEdges = Net!Entered(@, n2, e)]
  <2>1. ms1 = [n \in N |-> [data |-> ns[n].data, incomingEdges |-> ns[n].incomingEdges,
                            outgoingEdges |-> out(n)]]
    <3>1. \A n \in N : ns[n] = [data |-> ns[n].data, incomingEdges |-> ns[n].incomingEdges,
                                outgoingEdges |-> ns[n].outgoingEdges]
      BY <1>5 DEF GraphNodes
    <3>2. \A n \in N : ms1[n] = [data |-> ns[n].data, incomingEdges |-> ns[n].incomingEdges,
                                 outgoingEdges |-> out(n)]
      <4> SUFFICES ASSUME NEW n \in N
                   PROVE  ms1[n] = [data |-> ns[n].data, incomingEdges |-> ns[n].incomingEdges,
                                    outgoingEdges |-> out(n)]
        OBVIOUS
      <4>1. CASE n = n1
        <5>1. ms1[n1] = [ns[n1] EXCEPT !.outgoingEdges = Net!Entered(@, n2, e)]
          BY <1>2
        <5>2. [ns[n1] EXCEPT !.outgoingEdges = Net!Entered(@, n2, e)]
                = [data |-> ns[n1].data, incomingEdges |-> ns[n1].incomingEdges,
                   outgoingEdges |-> Net!Entered(ns[n1].outgoingEdges, n2, e)]
          BY <1>2, <1>5, NodeFields
        <5> HIDE DEF ms1
        <5>3. QED
          BY <4>1, <5>1, <5>2
      <4>2. CASE n # n1
        <5>1. ms1[n] = ns[n]
          BY <1>2, <4>2
        <5> HIDE DEF ms1
        <5>2. QED
          BY <3>1, <4>2, <5>1
      <4>3. QED
        BY <4>1, <4>2
    <3>3. ms1 = [n \in N |-> ms1[n]]
      BY <1>2
    <3> HIDE DEF ms1, out
    <3>4. QED
      BY <3>2, <3>3
  <2>2. ms = [ms1 EXCEPT ![n2].incomingEdges = Net!Entered(@, n1, e)]
    OBVIOUS
  <2> HIDE DEF ms, ms1, out
  <2>3. \A n \in N : ms[n] = [data |-> ns[n].data, incomingEdges |-> in(n), outgoingEdges |-> out(n)]
    BY <2>1, <2>2
  <2>4. ms = [n \in N |-> ms[n]]
    BY <2>1, <2>2
  <2> HIDE DEF in
  <2>5. QED
    BY <2>3, <2>4
<1> HIDE DEF ms, fs
<1>8. \A n \in N : in(n) \in NodeTables /\ out(n) \in NodeTables
  BY <1>2, <1>6, EnteredTable
<1>9. \A n \in N : ms[n].outgoingEdges = out(n) /\ ms[n].incomingEdges = in(n) /\ ms[n] \in GraphNodes
  <2> HIDE DEF in, out
  <2>1. QED
    BY <1>6, <1>7, <1>8 DEF GraphNodes
<1>10. ms \in Seq(GraphNodes) /\ Len(ms) = Len(ns)
  <2> HIDE DEF in, out
  <2>1. ms \in [N -> GraphNodes]
    BY <1>7, <1>9
  <2>2. QED
    BY <1>2, <2>1
<1>11. D \in SUBSET (N \X N) /\ IsFiniteSet(D) /\ Len(fs) = Cardinality(D)
  <2>1. D \in SUBSET (N \X N)
    BY <1>2
  <2>2. IsFiniteSet(D) /\ Cardinality(D) = Cardinality(C) + 1
    BY <1>2, <1>3, FS_AddElement
  <2>3. QED
    BY <1>2, <1>4, <2>1, <2>2
<1>12. ASSUME NEW m1 \in N, NEW m2 \in Nat
       PROVE  /\ m2 \in DOMAIN ms[m1].outgoingEdges <=> <<m1, m2>> \in D
              /\ m2 \in DOMAIN ms[m1].incomingEdges <=> <<m2, m1>> \in D
  <2>1. /\ m2 \in DOMAIN ns[m1].outgoingEdges <=> <<m1, m2>> \in C
        /\ m2 \in DOMAIN ns[m1].incomingEdges <=> <<m2, m1>> \in C
    BY DEF Ends
  <2>2. DOMAIN out(m1) = IF m1 = n1 THEN DOMAIN ns[m1].outgoingEdges \cup {n2} ELSE DOMAIN ns[m1].outgoingEdges
    BY <1>2, <1>6, EnteredTable
  <2>3. DOMAIN in(m1) = IF m1 = n2 THEN DOMAIN ns[m1].incomingEdges \cup {n1} ELSE DOMAIN ns[m1].incomingEdges
    BY <1>2, <1>6, EnteredTable
  <2> HIDE DEF in, out
  <2>4. QED
    BY <1>9, <2>1, <2>2, <2>3
<1>13. ASSUME NEW m1 \in N, NEW m2 \in N, <<m1, m2>> \in D
       PROVE  LET k == ms[m1].outgoingEdges[m2]
              IN /\ k \in 1 .. Len(fs) /\ fs[k].p1 = m1 /\ fs[k].p2 = m2
                 /\ ms[m2].incomingEdges[m1] = k
  <2>1. CASE m1 = n1 /\ m2 = n2
    <3>1. /\ Net!Entered(ns[n1].outgoingEdges, n2, e)[n2] = e
          /\ Net!Entered(ns[n2].incomingEdges, n1, e)[n1] = e
      <4>1. ns[n1].outgoingEdges \in NodeTables /\ ns[n2].incomingEdges \in NodeTables
        BY <1>6
      <4>2. n1 \in Nat /\ n2 \in Nat /\ e \in Nat
        BY <1>2
      <4>3. Net!Entered(ns[n1].outgoingEdges, n2, e)[n2] = e
        BY <4>1, <4>2, EnteredTable
      <4>4. Net!Entered(ns[n2].incomingEdges, n1, e)[n1] = e
        BY <4>1, <4>2, EnteredTable
      <4>5. QED
        BY <4>3, <4>4
    <3>2. out(n1)[n2] = e /\ in(n2)[n1] = e
      BY <3>1
    <3> HIDE DEF in, out
    <3>3. e \in 1 .. Len(fs) /\ fs[e].p1 = m1 /\ fs[e].p2 = m2
      BY <1>2, <1>4, <2>1
    <3>4. QED
      BY <1>9, <2>1, <3>2, <3>3
  <2>2. CASE ~ (m1 = n1 /\ m2 = n2)
    <3>1. <<m1, m2>> \in C
      BY <1>13, <2>2
    <3> DEFINE k == ns[m1].outgoingEdges[m2]
    <3>2. /\ k \in 1 .. Len(es) /\ es[k].p1 = m1 /\ es[k].p2 = m2 /\ ns[m2].incomingEdges[m1] = k
      BY <3>1 DEF Ends
    <3>3. m2 \in DOMAIN ns[m1].outgoingEdges /\ m1 \in DOMAIN ns[m2].incomingEdges
      <4>1. m1 \in Nat /\ m2 \in Nat
        BY <1>2
      <4>2. QED
        BY <3>1, <4>1 DEF Ends
    <3>4. out(m1)[m2] = k
      <4>1. CASE m1 = n1
        <5>1. m2 \in DOMAIN ns[n1].outgoingEdges /\ ns[n1].outgoingEdges \in NodeTables /\ m2 # n2
          BY <1>6, <2>2, <3>3, <4>1
        <5>2. n2 \in Nat /\ e \in Nat
          BY <1>2
        <5>3. Net!Entered(ns[n1].outgoingEdges, n2, e)[m2] = ns[n1].outgoingEdges[m2]
          BY <5>1, EnteredKeeps
        <5>4. QED
          BY <4>1, <5>3
      <4>2. QED
        BY <4>1
    <3>5. in(m2)[m1] = ns[m2].incomingEdges[m1]
      <4>1. CASE m2 = n2
        <5>1. m1 \in DOMAIN ns[n2].incomingEdges /\ ns[n2].incomingEdges \in NodeTables /\ m1 # n1
          BY <1>6, <2>2, <3>3, <4>1
        <5>2. n1 \in Nat /\ e \in Nat
          BY <1>2
        <5>3. Net!Entered(ns[n2].incomingEdges, n1, e)[m1] = ns[n2].incomingEdges[m1]
          BY <5>1, EnteredKeeps
        <5>4. QED
          BY <4>1, <5>3
      <4>2. QED
        BY <4>1
    <3> HIDE DEF in, out, k
    <3>6. k \in 1 .. Len(fs) /\ fs[k] = es[k]
      BY <1>2, <1>4, <3>2
    <3>7. QED
      BY <1>9, <3>2, <3>4, <3>5, <3>6
  <2>3. QED
    BY <2>1, <2>2
<1>14. Ends(ms, fs, D)
  <2> HIDE DEF D, in, out
  <2>1. N = 1 .. Len(ms)
    BY <1>10
  <2>2. \A m1 \in 1 .. Len(ms), m2 \in Nat :
          /\ m2 \in DOMAIN ms[m1].outgoingEdges <=> <<m1, m2>> \in D
          /\ m2 \in DOMAIN ms[m1].incomingEdges <=> <<m2, m1>> \in D
    BY <1>12, <2>1
  <2>3. \A m1, m2 \in 1 .. Len(ms) : <<m1, m2>> \in D =>
          LET k == ms[m1].outgoingEdges[m2]
          IN /\ k \in 1 .. Len(fs) /\ fs[k].p1 = m1 /\ fs[k].p2 = m2
             /\ ms[m2].incomingEdges[m1] = k
    BY <1>13, <2>1
  <2>4. D \in SUBSET ((1 .. Len(ms)) \X (1 .. Len(ms)))
    BY <1>11, <2>1
  <2> HIDE DEF N
  <2>5. QED
    BY <1>4, <1>10, <1>11, <2>2, <2>3, <2>4 DEF Ends
<1>15. QED
  BY <1>1, <1>10, <1>14

\* An empty graph, and every call on a graph.
LEMMA GraphInit == Net!Init => GraphInv
<1> SUFFICES ASSUME Net!Init PROVE GraphInv
  OBVIOUS
<1>1. nodes = <<>> /\ edges = <<>> /\ connected = {}
  BY DEF Net!Init
<1>2. QED
  BY <1>1, FS_EmptySet DEF GraphInv, Ends

LEMMA GraphStep == GraphInv /\ [Net!Next]_Net!xanGraphVars => GraphInv'
<1> SUFFICES ASSUME GraphInv, [Net!Next]_Net!xanGraphVars PROVE GraphInv'
  OBVIOUS
<1> USE DEF GraphInv
<1>1. CASE UNCHANGED Net!xanGraphVars
  BY <1>1 DEF Net!xanGraphVars, Ends
<1>2. ASSUME NEW d \in NodeData, Net!AddANewNode(d) PROVE GraphInv'
  BY <1>2, NodeEnds DEF Net!AddANewNode
<1>3. ASSUME NEW d \in NodeData, Net!AddANewNodeIfNotExist(d) PROVE GraphInv'
  BY <1>2, <1>3 DEF Net!AddANewNodeIfNotExist
<1>4. /\ DOMAIN nodes = 1 .. Len(nodes)
      /\ Net!Graph.nodes = nodes /\ Net!Graph.edges = edges
  BY DEF Ends, Net!Graph
<1>5. ASSUME NEW n1 \in DOMAIN nodes, NEW n2 \in DOMAIN nodes, NEW d \in EdgeData,
             Net!AddDirectedEdge(n1, n2, d)
      PROVE  GraphInv'
  <2>1. /\ nodes' = Net!Connect(Net!Graph, n1, n2, d).nodes
        /\ edges' = Net!Connect(Net!Graph, n1, n2, d).edges
        /\ connected' = connected \cup {<<n1, n2>>} /\ ~ Net!ExistDirectedEdge(Net!Graph, n1, n2)
    BY <1>5 DEF Net!AddDirectedEdge
  <2>2. QED
    BY <1>4, <2>1, ConnectEnds
<1>6. ASSUME NEW n1 \in DOMAIN nodes, NEW n2 \in DOMAIN nodes, NEW d \in EdgeData,
             Net!AddUndirectedEdge(n1, n2, d)
      PROVE  GraphInv'
  <2> DEFINE one == Net!Connect(Net!Graph, n1, n2, d)
             two == Net!Connect(one, n2, n1, d)
             C == connected \cup {<<n1, n2>>}
  <2>1. /\ nodes' = two.nodes /\ edges' = two.edges
        /\ connected' = connected \cup {<<n1, n2>>, <<n2, n1>>} /\ n1 # n2
        /\ ~ Net!ExistDirectedEdge(Net!Graph, n1, n2) /\ ~ Net!ExistDirectedEdge(Net!Graph, n2, n1)
    BY <1>6 DEF Net!AddUndirectedEdge
  <2>2. Ends(one.nodes, one.edges, C) /\ Len(one.nodes) = Len(nodes)
    <3>1. ~ Net!ExistDirectedEdge(Net!Graph, n1, n2)
      BY <2>1
    <3> HIDE DEF two
    <3>2. Ends(one.nodes, one.edges, C)
      BY <1>4, <3>1, ConnectEnds
    <3>3. Len(one.nodes) = Len(nodes)
      BY <1>4 DEF Net!Connect, Ends
    <3>4. QED
      BY <3>2, <3>3
  <2>3. <<n2, n1>> \notin C
    <3>1. <<n2, n1>> \notin connected
      <4>1. n2 \in 1 .. Len(nodes) /\ n1 \in Nat
        BY <1>4 DEF Ends
      <4>2. n1 \notin DOMAIN nodes[n2].outgoingEdges
        BY <1>4, <2>1 DEF Net!ExistDirectedEdge
      <4>3. QED
        BY <4>1, <4>2 DEF Ends
    <3>2. QED
      BY <2>1, <3>1
  <2> HIDE DEF one
  <2>4. ~ Net!ExistDirectedEdge(one, n2, n1)
    <3>1. n2 \in 1 .. Len(one.nodes) /\ n1 \in Nat
      <4>1. Len(nodes) \in Nat
        BY EndsTypes
      <4>2. QED
        BY <1>4, <2>2, <4>1
    <3> HIDE DEF C
    <3>2. n1 \notin DOMAIN one.nodes[n2].outgoingEdges
      BY <2>2, <2>3, <3>1 DEF Ends
    <3>3. QED
      BY <3>2 DEF Net!ExistDirectedEdge
  <2>5. Ends(two.nodes, two.edges, C \cup {<<n2, n1>>})
    BY <1>4, <2>2, <2>4, ConnectEnds
  <2>6. connected' = C \cup {<<n2, n1>>}
    BY <2>1
  <2> HIDE DEF C, two
  <2>7. QED
    BY <2>1, <2>5, <2>6
<1>7. CASE Net!DestroyGraph
  <2>1. nodes' = <<>> /\ edges' = <<>> /\ connected' = {}
    BY <1>7 DEF Net!DestroyGraph
  <2>2. QED
    BY <2>1, FS_EmptySet DEF Ends
<1>8. QED
  BY <1>1, <1>2, <1>3, <1>5, <1>6, <1>7 DEF Net!Next

\* A lookup by the data of an edge finds it, or an older one.
LEMMA LookupFinds ==
  ASSUME NEW e \in 1 .. Len(edges), Len(edges) \in Nat
  PROVE  Net!Lookup(edges, edges[e].data) \in 1 .. e
<1> DEFINE T == {k \in 1 .. Len(edges) : edges[k].data = edges[e].data}
<1>1. e \in T /\ T \in SUBSET Nat
  OBVIOUS
<1>2. PICK x \in T : \A y \in T : x <= y
  <2> HIDE DEF T
  <2>1. QED
    BY <1>1, LeastNatural
<1>3. Net!Min(T) \in T /\ \A y \in T : Net!Min(T) <= y
  <2> HIDE DEF T
  <2>1. QED
    BY <1>2 DEF Net!Min
<1>4. Net!Lookup(edges, edges[e].data) = Net!Min(T)
  BY <1>1 DEF Net!Lookup, Net!SelectInSeq
<1>5. QED
  BY <1>1, <1>3, <1>4

(***************************************************************************)
(* Whatever nodes are created and connected, an edge is found from both of *)
(* its ends and in the graph's table, each pair that was connected has one *)
(* edge, and no other pair has (xangraph.c).                               *)
(***************************************************************************)
THEOREM EdgesAlwaysAtBothEnds == Net!Spec => []Net!EdgesAtBothEnds
<1>1. GraphInv => Net!EdgesAtBothEnds
  <2> SUFFICES ASSUME GraphInv PROVE Net!EdgesAtBothEnds
    OBVIOUS
  <2>1. /\ DOMAIN nodes = 1 .. Len(nodes) /\ Len(nodes) \in Nat /\ Len(edges) \in Nat
        /\ Len(edges) = Cardinality(connected)
    BY DEF GraphInv, Ends
  <2>2. ASSUME NEW n1 \in DOMAIN nodes, NEW n2 \in DOMAIN nodes
        PROVE  /\ Net!ExistDirectedEdge(Net!Graph, n1, n2) <=> <<n1, n2>> \in connected
               /\ n2 \in DOMAIN nodes[n1].outgoingEdges <=> n1 \in DOMAIN nodes[n2].incomingEdges
    <3>1. n1 \in 1 .. Len(nodes) /\ n2 \in 1 .. Len(nodes) /\ n1 \in Nat /\ n2 \in Nat
      BY <2>1
    <3>2. n2 \in DOMAIN nodes[n1].outgoingEdges <=> <<n1, n2>> \in connected
      BY <3>1 DEF GraphInv, Ends
    <3>3. n1 \in DOMAIN nodes[n2].incomingEdges <=> <<n1, n2>> \in connected
      BY <3>1 DEF GraphInv, Ends
    <3>4. QED
      BY <3>2, <3>3 DEF Net!ExistDirectedEdge, Net!Graph
  <2>3. ASSUME NEW n1 \in DOMAIN nodes, NEW n2 \in DOMAIN nodes,
               Net!ExistDirectedEdge(Net!Graph, n1, n2)
        PROVE  LET e == Net!GetDirectedEdge(Net!Graph, n1, n2)
               IN /\ edges[e].p1 = n1 /\ edges[e].p2 = n2
                  /\ nodes[n2].incomingEdges[n1] = e
                  /\ Net!Lookup(edges, edges[e].data) \in 1 .. e
    <3> DEFINE e == nodes[n1].outgoingEdges[n2]
    <3>1. /\ e \in 1 .. Len(edges) /\ edges[e].p1 = n1 /\ edges[e].p2 = n2
          /\ nodes[n2].incomingEdges[n1] = e
      BY <2>1, <2>2, <2>3 DEF GraphInv, Ends
    <3>2. Net!GetDirectedEdge(Net!Graph, n1, n2) = e
      BY DEF Net!GetDirectedEdge, Net!Graph
    <3> HIDE DEF e
    <3>3. QED
      BY <2>1, <3>1, <3>2, LookupFinds
  <2>4. Len(edges) = Net!Cardinality(connected)
    BY <2>1 DEF Net!Cardinality, Cardinality
  <2>5. QED
    BY <2>2, <2>3, <2>4 DEF Net!EdgesAtBothEnds
<1>2. QED
  BY <1>1, GraphInit, GraphStep, PTL DEF Net!Spec
=============================================================================
