------------------------ MODULE MemoryAllocator_proofs ------------------------
(***************************************************************************)
(* The estimate of the memory in use is the size of what is alive, for any *)
(* sizes of the blocks and of xanlib's structures, any width of the words  *)
(* of a bit set, and any number of objects.                                *)
(*                                                                         *)
(* The proof takes one object at a time out of the sum over the heap.      *)
(***************************************************************************)
EXTENDS MemoryAllocator, MemSets_proofs

Total(h) == MapThenSumSet(LAMBDA p : Size(h[p]), DOMAIN h)

\* A heap that can be summed.
Sized(h) ==
  /\ h = [p \in DOMAIN h |-> h[p]] /\ IsFiniteSet(DOMAIN h)
  /\ \A p \in DOMAIN h : Size(h[p]) \in Nat

-----------------------------------------------------------------------------
(* The sum over the heap.                                                  *)

(***************************************************************************)
(* It does not matter which summand is taken out first.                    *)
(***************************************************************************)
LEMMA AnyTakenOut ==
  ASSUME NEW S, IsFiniteSet(S), NEW w \in [S -> Nat],
         NEW g \in [SUBSET S -> Nat], SumsUp(g, w, SUBSET S), NEW x \in S
  PROVE  g[S] = w[x] + g[S \ {x}]
<1> DEFINE P(T) == \A y \in T : g[T] = w[y] + g[T \ {y}]
           N == {n \in Nat : \A T \in UpToSize(S, n) : P(T)}
<1>1. \A n : UpToSize(S, n) \subseteq SUBSET S
  BY DEF UpToSize
<1>2. 0 \in N
  BY OneTakenOut
<1>3. ASSUME NEW n \in Nat, n \in N PROVE n + 1 \in N
  <2>1. ASSUME NEW T \in UpToSize(S, n + 1), NEW y \in T
        PROVE  g[T] = w[y] + g[T \ {y}]
    <3> DEFINE a == AnyOf(T)
    <3>1. T \in SUBSET S /\ a \in T /\ y \in S /\ a \in S
      BY <1>1 DEF AnyOf
    <3>2. g[T] = w[a] + g[T \ {a}]
      BY <3>1 DEF SumsUp
    <3>3. ASSUME NEW z \in T PROVE T \ {z} \in UpToSize(S, n)
      <4>1. IsFiniteSet(T) /\ Cardinality(T) \in Nat /\ Cardinality(T) <= n + 1
        BY <3>1, FS_Subset, FS_CardinalityType DEF UpToSize
      <4>2. Cardinality(T \ {z}) = Cardinality(T) - 1
        BY <4>1, FS_RemoveElement
      <4>3. Cardinality(T \ {z}) <= n
        BY <4>1, <4>2
      <4>4. QED
        BY <3>1, <4>3 DEF UpToSize
    <3> HIDE DEF a
    <3>4. CASE a = y
      BY <3>2, <3>4
    <3>5. CASE a # y
      <4>1. /\ g[T \ {a}] = w[y] + g[(T \ {a}) \ {y}]
            /\ g[T \ {y}] = w[a] + g[(T \ {y}) \ {a}]
        BY <1>3, <3>1, <3>3, <3>5
      <4>2. (T \ {a}) \ {y} = (T \ {y}) \ {a} /\ (T \ {a}) \ {y} \in SUBSET S
        BY <3>1
      <4>3. w[a] \in Nat /\ w[y] \in Nat /\ g[(T \ {a}) \ {y}] \in Nat
        BY <3>1, <4>2
      <4>4. \A i, j, k \in Nat : i + (j + k) = j + (i + k)
        OBVIOUS
      <4> DEFINE rest == g[(T \ {a}) \ {y}]
      <4>5. /\ g[T] = w[a] + (w[y] + rest) /\ g[T \ {y}] = w[a] + rest
            /\ w[a] \in Nat /\ w[y] \in Nat /\ rest \in Nat
        BY <3>2, <4>1, <4>2, <4>3
      <4> HIDE DEF rest
      <4>6. QED
        BY <4>4, <4>5
    <3>6. QED
      BY <3>4, <3>5
  <2>2. QED
    BY <2>1
<1>4. Nat \subseteq N
  <2> HIDE DEF N
  <2>1. QED
    BY <1>2, <1>3, SetInduction
<1>5. Cardinality(S) \in N /\ S \in UpToSize(S, Cardinality(S))
  BY <1>4, OneTakenOut
<1>6. QED
  BY <1>5

\* The fold over the domain satisfies the equations of a sum.
LEMMA TotalIsSum ==
  ASSUME NEW h, Sized(h)
  PROVE  \E w \in [DOMAIN h -> Nat], g \in [SUBSET DOMAIN h -> Nat] :
           /\ SumsUp(g, w, SUBSET DOMAIN h) /\ \A p \in DOMAIN h : w[p] = Size(h[p])
           /\ Total(h) = g[DOMAIN h]
<1> DEFINE S == DOMAIN h
           w == [p \in S |-> Size(h[p])]
           Solves(g) == g = [T \in SUBSET S |->
                               IF T = {} THEN 0 ELSE Size(h[AnyOf(T)]) + g[T \ {AnyOf(T)}]]
           iter == CHOOSE g : Solves(g)
<1>1. IsFiniteSet(S) /\ w \in [S -> Nat] /\ \A p \in S : w[p] = Size(h[p])
  BY DEF Sized
<1> HIDE DEF w
<1>2. \A T \in SUBSET S : T # {} => w[AnyOf(T)] = Size(h[AnyOf(T)])
  BY <1>1 DEF AnyOf
<1>3. PICK g \in [SUBSET S -> Nat] : SumsUp(g, w, SUBSET S)
  BY <1>1, SumExists
<1>4. Solves(g)
  BY <1>2, <1>3 DEF SumsUp
<1>5. Solves(iter)
  BY <1>4
<1>6. Total(h) = iter[S]
  BY DEF Total, MapThenSumSet, MapThenFoldSet, AnyOf
<1> HIDE DEF iter
<1>7. SumsUp(iter, w, SUBSET S)
  BY <1>2, <1>5 DEF SumsUp
<1>8. iter[S] = g[S]
  BY <1>1, <1>3, <1>7, SumUnique
<1>9. QED
  BY <1>1, <1>3, <1>6, <1>8

\* One object less.
LEMMA TotalWithout ==
  ASSUME NEW h, Sized(h), NEW p \in DOMAIN h
  PROVE  LET k == Without(h, {p})
         IN /\ Sized(k) /\ DOMAIN k = DOMAIN h \ {p} /\ Total(k) \in Nat /\ Total(h) \in Nat
            /\ Total(h) = Total(k) + Size(h[p])
<1> DEFINE k == Without(h, {p})
           D == DOMAIN h \ {p}
<1>1. DOMAIN k = D /\ \A q \in D : k[q] = h[q]
  BY DEF Without
<1>2. Sized(k)
  <2>1. IsFiniteSet(D)
    BY FS_Subset DEF Sized
  <2>2. k = [q \in DOMAIN k |-> k[q]]
    BY DEF Without
  <2>3. QED
    BY <1>1, <2>1, <2>2 DEF Sized
<1>3. PICK w \in [DOMAIN h -> Nat], g \in [SUBSET DOMAIN h -> Nat] :
        /\ SumsUp(g, w, SUBSET DOMAIN h) /\ \A q \in DOMAIN h : w[q] = Size(h[q])
        /\ Total(h) = g[DOMAIN h]
  BY TotalIsSum
<1> HIDE DEF k
<1>4. PICK v \in [DOMAIN k -> Nat], f \in [SUBSET DOMAIN k -> Nat] :
        /\ SumsUp(f, v, SUBSET DOMAIN k) /\ \A q \in DOMAIN k : v[q] = Size(k[q])
        /\ Total(k) = f[DOMAIN k]
  BY <1>2, TotalIsSum
<1>5. SumsUp(g, v, SUBSET D)
  <2>1. ASSUME NEW T \in SUBSET D, T # {} PROVE w[AnyOf(T)] = v[AnyOf(T)]
    <3>1. AnyOf(T) \in D
      BY <2>1 DEF AnyOf
    <3>2. QED
      BY <1>1, <1>3, <1>4, <3>1
  <2>2. SUBSET D \subseteq SUBSET DOMAIN h
    OBVIOUS
  <2> HIDE DEF D
  <2>3. QED
    BY <1>3, <2>1, <2>2 DEF SumsUp
<1>6. g[D] = f[D]
  <2>1. IsFiniteSet(D)
    BY <1>1, <1>2 DEF Sized
  <2> HIDE DEF D
  <2>2. QED
    BY <1>1, <1>4, <1>5, <2>1, SumUnique
<1>7. g[DOMAIN h] = w[p] + g[D]
  <2>1. IsFiniteSet(DOMAIN h)
    BY DEF Sized
  <2> DEFINE S == DOMAIN h
  <2>2. g[S] = w[p] + g[S \ {p}]
    <3>1. IsFiniteSet(S) /\ w \in [S -> Nat] /\ g \in [SUBSET S -> Nat]
          /\ SumsUp(g, w, SUBSET S) /\ p \in S
      BY <1>3, <2>1
    <3> HIDE DEF S
    <3>2. QED
      BY <3>1, AnyTakenOut
  <2>3. QED
    BY <2>2
<1>8. g[D] \in Nat /\ w[p] \in Nat /\ g[DOMAIN h] \in Nat
  BY <1>3
<1>9. Total(k) = g[D] /\ Total(h) = w[p] + g[D] /\ w[p] = Size(h[p])
  BY <1>1, <1>3, <1>4, <1>6, <1>7
<1>10. Total(h) = Total(k) + Size(h[p]) /\ Total(k) \in Nat /\ Total(h) \in Nat
  <2>1. \A i, j \in Nat : i + j = j + i /\ i + j \in Nat
    OBVIOUS
  <2>2. QED
    BY <1>8, <1>9, <2>1
<1>11. QED
  BY <1>1, <1>2, <1>10 DEF k

\* One object more.
LEMMA TotalWith ==
  ASSUME NEW h, Sized(h), NEW p, p \notin DOMAIN h, NEW o, Size(o) \in Nat
  PROVE  LET k == With(h, p, o)
         IN /\ Sized(k) /\ DOMAIN k = DOMAIN h \cup {p} /\ Total(h) \in Nat
            /\ Total(k) = Total(h) + Size(o)
<1> DEFINE k == With(h, p, o)
<1>1. DOMAIN k = DOMAIN h \cup {p} /\ k[p] = o /\ \A q \in DOMAIN h : k[q] = h[q]
  BY DEF With
<1>2. Sized(k)
  <2>1. IsFiniteSet(DOMAIN h \cup {p})
    BY FS_AddElement DEF Sized
  <2>2. k = [q \in DOMAIN k |-> k[q]]
    BY DEF With
  <2>3. \A q \in DOMAIN k : Size(k[q]) \in Nat
    BY <1>1 DEF Sized
  <2>4. QED
    BY <1>1, <2>1, <2>2, <2>3 DEF Sized
<1> HIDE DEF k
<1>3. Without(k, {p}) = h
  <2>1. DOMAIN k \ {p} = DOMAIN h
    BY <1>1
  <2>2. Without(k, {p}) = [q \in DOMAIN h |-> h[q]]
    BY <1>1, <2>1 DEF Without
  <2>3. QED
    BY <2>2 DEF Sized
<1>4. Total(k) = Total(h) + Size(o) /\ Total(h) \in Nat
  BY <1>1, <1>2, <1>3, TotalWithout
<1>5. QED
  BY <1>1, <1>2, <1>4 DEF k

\* One object in the place of another.
LEMMA TotalReplaced ==
  ASSUME NEW h, Sized(h), NEW p \in DOMAIN h, NEW o, Size(o) \in Nat,
         NEW k, k = [h EXCEPT ![p] = o]
  PROVE  /\ Sized(k) /\ DOMAIN k = DOMAIN h
         /\ {Total(h), Total(k), Size(h[p])} \subseteq Nat /\ Total(h) >= Size(h[p])
         /\ Total(k) = Total(h) - Size(h[p]) + Size(o)
<1>1. DOMAIN k = DOMAIN h /\ k[p] = o /\ \A q \in DOMAIN h : q # p => k[q] = h[q]
  BY DEF Sized
<1>2. Sized(k)
  <2>1. k = [q \in DOMAIN k |-> k[q]]
    OBVIOUS
  <2>2. QED
    BY <1>1, <2>1 DEF Sized
<1>3. Without(k, {p}) = Without(h, {p})
  BY <1>1 DEF Without
<1>4. /\ Total(k) = Total(Without(h, {p})) + Size(o) /\ Total(k) \in Nat
      /\ Total(h) = Total(Without(h, {p})) + Size(h[p]) /\ Total(h) \in Nat
      /\ Total(Without(h, {p})) \in Nat
  BY <1>1, <1>2, <1>3, TotalWithout
<1>5. Size(h[p]) \in Nat
  BY DEF Sized
<1>6. QED
  BY <1>1, <1>2, <1>4, <1>5

-----------------------------------------------------------------------------
(* Objects, and the account of them.                                       *)

ItemSize(kind) == IF kind = "table" THEN SizeOf.tableItem ELSE SizeOf.listItem

IsItems(items, kind) ==
  /\ \E S : items \in Seq(S)
  /\ kind = "table" => \A n \in DOMAIN items : DOMAIN items[n] = {"key", "element"}

IsObject(o) ==
  \/ /\ o = [kind |-> o.kind, size |-> o.size]
     /\ o.kind \in {"block", "object"} /\ o.size \in Nat \ {0}
  \/ /\ o = [kind |-> o.kind, items |-> o.items]
     /\ o.kind \in {"table", "list", "stack"} /\ IsItems(o.items, o.kind)
  \/ /\ o = [kind |-> "bitset", length |-> o.length, capacity |-> o.capacity]
     /\ o.length \in Nat /\ o.capacity \in Nat

Exact(m) == [memUsed |-> m, asserted |-> TRUE]

(***************************************************************************)
(* AccountExact is nearly inductive: of the objects it needs to know only  *)
(* that their sizes are numbers, and of the items of tables that they have *)
(* a key and an element to be freed.                                       *)
(***************************************************************************)
AInv ==
  /\ heap = [p \in DOMAIN heap |-> heap[p]] /\ IsFiniteSet(DOMAIN heap)
  /\ \A p \in DOMAIN heap : IsObject(heap[p])
  /\ account = Exact(Total(heap))

LEMMA SizeOfFacts ==
  ASSUME AllocatorAssumption
  PROVE  /\ \A kind \in {"table", "list", "stack"} :
              SizeOf[kind] \in Nat \ {0} /\ ItemSize(kind) \in Nat \ {0}
         /\ SizeOf.bitset \in Nat \ {0} /\ SizeOf.word \in Nat \ {0}
BY DEF AllocatorAssumption, ItemSize

\* The size of an object is a number greater than zero, made as its kind has it.
LEMMA SizeFacts ==
  ASSUME AllocatorAssumption, NEW o, IsObject(o)
  PROVE  /\ Size(o) \in Nat \ {0}
         /\ o.kind \in {"block", "object"} => Size(o) = o.size
         /\ o.kind \in {"table", "list", "stack"} =>
              /\ o = [kind |-> o.kind, items |-> o.items]
              /\ IsItems(o.items, o.kind) /\ Len(o.items) \in Nat
              /\ Len(o.items) * ItemSize(o.kind) \in Nat
              /\ Size(o) = SizeOf[o.kind] + Len(o.items) * ItemSize(o.kind)
         /\ o.kind = "bitset" =>
              /\ o = [kind |-> "bitset", length |-> o.length, capacity |-> o.capacity]
              /\ o.length \in Nat /\ o.capacity \in Nat /\ o.capacity * SizeOf.word \in Nat
              /\ Size(o) = SizeOf.bitset + o.capacity * SizeOf.word
<1>1. \A i, j \in Nat : i * j \in Nat
  OBVIOUS
<1>2. CASE o.kind \in {"block", "object"}
  BY <1>2 DEF IsObject, Size
<1>3. CASE o.kind \in {"table", "list", "stack"}
  <2>1. o = [kind |-> o.kind, items |-> o.items] /\ IsItems(o.items, o.kind)
    BY <1>3 DEF IsObject
  <2>2. Len(o.items) \in Nat
    BY <2>1 DEF IsItems
  <2>3. Size(o) = SizeOf[o.kind] + Len(o.items) * ItemSize(o.kind)
    BY <1>3 DEF Size, ItemSize
  <2>4. Len(o.items) * ItemSize(o.kind) \in Nat /\ SizeOf[o.kind] \in Nat \ {0}
    BY <1>1, <1>3, <2>2, SizeOfFacts
  <2>5. QED
    BY <1>3, <2>1, <2>2, <2>3, <2>4
<1>4. CASE o.kind = "bitset"
  <2>1. o = [kind |-> "bitset", length |-> o.length, capacity |-> o.capacity]
        /\ o.length \in Nat /\ o.capacity \in Nat
    BY <1>4 DEF IsObject
  <2>2. Size(o) = SizeOf.bitset + o.capacity * SizeOf.word
    BY <1>4 DEF Size
  <2>3. o.capacity * SizeOf.word \in Nat /\ SizeOf.bitset \in Nat \ {0}
    BY <1>1, <2>1, SizeOfFacts
  <2>4. QED
    BY <1>4, <2>1, <2>2, <2>3
<1>5. o.kind \in {"block", "object", "table", "list", "stack", "bitset"}
  BY DEF IsObject
<1>6. QED
  BY <1>2, <1>3, <1>4, <1>5

\* What is freed is more than nothing and no more than is there.
LEMMA AccountFacts ==
  ASSUME NEW m \in Nat, NEW size \in Nat
  PROVE  /\ AllocatedMem(Exact(m), size) = Exact(m + size)
         /\ size # 0 /\ m >= size => FreedMem(Exact(m), size) = Exact(m - size)
<1>1. Exact(m).memUsed = m /\ Exact(m).asserted = TRUE
  BY DEF Exact
<1>2. \A b, x, y : [[memUsed |-> x, asserted |-> b] EXCEPT !.memUsed = y]
                    = [memUsed |-> y, asserted |-> b]
  OBVIOUS
<1>3. AllocatedMem(Exact(m), size) = Exact(m + size)
  <2>1. [Exact(m) EXCEPT !.memUsed = m + size] = Exact(m + size)
    BY <1>2, Zenon DEF Exact
  <2>2. QED
    BY <1>1, <2>1, Zenon DEF AllocatedMem
<1>4. ASSUME size # 0, m >= size PROVE FreedMem(Exact(m), size) = Exact(m - size)
  <2>1. size > 0 /\ m >= size
    BY <1>4
  <2>2. (Exact(m).asserted /\ size > 0 /\ Exact(m).memUsed >= size) = TRUE
    BY <1>1, <2>1, Zenon
  <2>3. QED
    BY <1>1, <2>2, Zenon DEF FreedMem, Exact
<1>5. QED
  BY <1>3, <1>4

LEMMA FreedItemsFacts ==
  ASSUME NEW m \in Nat, NEW n \in Nat, NEW size \in Nat \ {0}, m >= n * size
  PROVE  FreedItems(Exact(m), n, size) = Exact(m - n * size)
<1>1. n * size \in Nat /\ (n > 0 => n * size # 0) /\ (n = 0 => n * size = 0)
  OBVIOUS
<1>2. CASE n > 0
  BY <1>1, <1>2, AccountFacts DEF FreedItems
<1>3. CASE n = 0
  BY <1>1, <1>3 DEF FreedItems
<1>4. QED
  BY <1>2, <1>3

-----------------------------------------------------------------------------
(* Three kinds of steps.                                                   *)

LEMMA HeapFacts ==
  ASSUME AllocatorAssumption, AInv
  PROVE  /\ Sized(heap) /\ account = Exact(Total(heap))
         /\ \A p \in DOMAIN heap : /\ IsObject(heap[p]) /\ Size(heap[p]) \in Nat \ {0}
                                   /\ Total(heap) \in Nat /\ Total(heap) >= Size(heap[p])
<1>1. Sized(heap) /\ account = Exact(Total(heap)) /\ \A p \in DOMAIN heap : IsObject(heap[p])
  BY SizeFacts DEF AInv, Sized
<1>2. ASSUME NEW p \in DOMAIN heap
      PROVE  /\ Size(heap[p]) \in Nat \ {0} /\ Total(heap) \in Nat
             /\ Total(heap) >= Size(heap[p])
  <2> DEFINE rest == Total(Without(heap, {p}))
  <2>1. Size(heap[p]) \in Nat \ {0}
    BY <1>1, SizeFacts
  <2>2. Total(heap) = rest + Size(heap[p]) /\ rest \in Nat /\ Total(heap) \in Nat
    BY <1>1, TotalWithout
  <2> HIDE DEF rest
  <2>3. QED
    BY <2>1, <2>2
<1>3. QED
  BY <1>1, <1>2

\* An object is added, and its size.
LEMMA AllocateInv ==
  ASSUME AllocatorAssumption, AInv, NEW o, IsObject(o), NEW size, size = Size(o),
         Allocate(o, size)
  PROVE  AInv'
<1>1. Unused \notin DOMAIN heap
  BY DEF Allocate, Unused
<1>2. Size(o) \in Nat
  BY SizeFacts
<1>3. heap' = With(heap, Unused, o) /\ account' = AllocatedMem(account, Size(o))
  BY DEF Allocate
<1>4. /\ Sized(heap') /\ Total(heap') = Total(heap) + Size(o) /\ Total(heap) \in Nat
      /\ DOMAIN heap' = DOMAIN heap \cup {Unused}
  BY <1>1, <1>2, <1>3, HeapFacts, TotalWith
<1>5. \A p \in DOMAIN heap' : IsObject(heap'[p])
  BY <1>3, <1>4, HeapFacts DEF With
<1>6. account' = Exact(Total(heap'))
  BY <1>2, <1>3, <1>4, HeapFacts, AccountFacts
<1>7. QED
  BY <1>4, <1>5, <1>6 DEF AInv, Sized

\* An object goes, and its size.
LEMMA FreedInv ==
  ASSUME AllocatorAssumption, AInv, NEW p \in DOMAIN heap, heap' = Without(heap, {p}),
         account' = Exact(Total(heap) - Size(heap[p]))
  PROVE  AInv'
<1>1. /\ Sized(heap') /\ DOMAIN heap' = DOMAIN heap \ {p} /\ Total(heap') \in Nat
      /\ Total(heap) = Total(heap') + Size(heap[p]) /\ Size(heap[p]) \in Nat
  BY HeapFacts, TotalWithout
<1>2. Total(heap') = Total(heap) - Size(heap[p])
  BY <1>1
<1>3. \A q \in DOMAIN heap' : IsObject(heap'[q])
  BY <1>1, HeapFacts DEF Without
<1>4. QED
  BY <1>1, <1>2, <1>3 DEF AInv, Sized

\* An object changes, and its size.
LEMMA ReplacedInv ==
  ASSUME AllocatorAssumption, AInv, NEW p \in DOMAIN heap, NEW o, IsObject(o),
         heap' = [heap EXCEPT ![p] = o],
         account' = Exact(Total(heap) - Size(heap[p]) + Size(o))
  PROVE  AInv'
<1>1. Size(o) \in Nat
  BY SizeFacts
<1>2. /\ Sized(heap') /\ DOMAIN heap' = DOMAIN heap
      /\ Total(heap') = Total(heap) - Size(heap[p]) + Size(o)
  <2>1. Sized(heap) /\ p \in DOMAIN heap
    BY HeapFacts
  <2>2. \A h, x, j : /\ Sized(h) /\ p \in DOMAIN h /\ Size(x) \in Nat
                      /\ j = [h EXCEPT ![p] = x]
                      => /\ Sized(j) /\ DOMAIN j = DOMAIN h
                         /\ Total(j) = Total(h) - Size(h[p]) + Size(x)
    BY TotalReplaced
  <2>3. QED
    BY <1>1, <2>1, <2>2
<1>3. \A q \in DOMAIN heap' : IsObject(heap'[q])
  BY <1>2, HeapFacts
<1>4. QED
  BY <1>2, <1>3 DEF AInv, Sized

-----------------------------------------------------------------------------
(* The items of a table, a list or a stack.                                *)

LEMMA ContainerFacts ==
  ASSUME AllocatorAssumption, AInv,
         NEW p \in DOMAIN heap, heap[p].kind \in {"table", "list", "stack"}
  PROVE  LET size == ItemSize(heap[p].kind)
             n == Len(heap[p].items)
         IN /\ size \in Nat \ {0} /\ n \in Nat /\ n * size \in Nat
            /\ SizeOf[heap[p].kind] \in Nat \ {0}
            /\ IsItems(heap[p].items, heap[p].kind)
            /\ Size(heap[p]) = SizeOf[heap[p].kind] + n * size
            /\ Total(heap) \in Nat /\ Total(heap) >= SizeOf[heap[p].kind] + n * size
<1>1. IsObject(heap[p]) /\ Total(heap) \in Nat /\ Total(heap) >= Size(heap[p])
  BY HeapFacts
<1>2. QED
  BY <1>1, SizeFacts, SizeOfFacts

\* Whatever happens to the items, the estimate changes by their number.
LEMMA ItemsInv ==
  ASSUME AllocatorAssumption, AInv,
         NEW p \in DOMAIN heap, heap[p].kind \in {"table", "list", "stack"},
         NEW items, IsItems(items, heap[p].kind), heap' = [heap EXCEPT ![p].items = items],
         account' = Exact(Total(heap) - Len(heap[p].items) * ItemSize(heap[p].kind)
                                      + Len(items) * ItemSize(heap[p].kind))
  PROVE  AInv'
<1> DEFINE kind == heap[p].kind
           o == [kind |-> kind, items |-> items]
<1>1. IsObject(o) /\ o.kind \in {"table", "list", "stack"} /\ o.items = items /\ o.kind = kind
  BY DEF IsObject
<1>2. Size(o) = SizeOf[kind] + Len(items) * ItemSize(kind)
      /\ Len(items) * ItemSize(kind) \in Nat
  BY <1>1, SizeFacts
<1>3. heap' = [heap EXCEPT ![p] = o]
  <2>1. heap[p] = [kind |-> kind, items |-> heap[p].items]
    BY HeapFacts, SizeFacts
  <2>2. [heap[p] EXCEPT !.items = items] = o
    BY <2>1
  <2>3. heap' = [heap EXCEPT ![p] = [heap[p] EXCEPT !.items = items]]
    OBVIOUS
  <2>4. QED
    BY <2>2, <2>3
<1>4. Total(heap) - Len(heap[p].items) * ItemSize(kind) + Len(items) * ItemSize(kind)
        = Total(heap) - Size(heap[p]) + Size(o)
  <2> DEFINE t == Total(heap)
             a == SizeOf[kind]
             n == Len(heap[p].items) * ItemSize(kind)
             m == Len(items) * ItemSize(kind)
  <2>1. t \in Nat /\ a \in Nat /\ n \in Nat /\ m \in Nat
    BY <1>2, ContainerFacts
  <2>2. Size(heap[p]) = a + n /\ Size(o) = a + m
    BY <1>2, ContainerFacts
  <2> HIDE DEF o, t, a, n, m
  <2>3. t - n + m = t - Size(heap[p]) + Size(o)
    BY <2>1, <2>2
  <2>4. QED
    BY <2>3 DEF t, n, m
<1>5. account' = Exact(Total(heap) - Size(heap[p]) + Size(o))
  BY <1>4
<1> HIDE DEF o
<1>6. QED
  BY <1>1, <1>3, <1>5, ReplacedInv

LEMMA ItemAddedInv ==
  ASSUME AllocatorAssumption, AInv,
         NEW p \in DOMAIN heap, heap[p].kind \in {"table", "list", "stack"},
         NEW items, IsItems(items, heap[p].kind), heap' = [heap EXCEPT ![p].items = items],
         Len(items) = Len(heap[p].items) + 1,
         account' = AllocatedMem(account, ItemSize(heap[p].kind))
  PROVE  AInv'
<1> DEFINE size == ItemSize(heap[p].kind)
           n == Len(heap[p].items)
<1>1. size \in Nat /\ n \in Nat /\ Total(heap) \in Nat
  BY ContainerFacts
<1>2. account' = Exact(Total(heap) + size)
  BY <1>1, HeapFacts, AccountFacts
<1>3. \A t, i, s \in Nat : t + s = t - i * s + (i + 1) * s
  OBVIOUS
<1>4. account' = Exact(Total(heap) - n * size + (n + 1) * size)
  BY <1>1, <1>2, <1>3
<1>5. QED
  BY <1>4, ItemsInv

LEMMA ItemTakenInv ==
  ASSUME AllocatorAssumption, AInv,
         NEW p \in DOMAIN heap, heap[p].kind \in {"table", "list", "stack"},
         NEW items, IsItems(items, heap[p].kind), heap' = [heap EXCEPT ![p].items = items],
         Len(items) = Len(heap[p].items) - 1, heap[p].items # <<>>,
         account' = FreedMem(account, ItemSize(heap[p].kind))
  PROVE  AInv'
<1> DEFINE size == ItemSize(heap[p].kind)
           n == Len(heap[p].items)
<1>1. /\ size \in Nat \ {0} /\ n \in Nat /\ Total(heap) \in Nat /\ n * size \in Nat
      /\ SizeOf[heap[p].kind] \in Nat /\ Total(heap) >= SizeOf[heap[p].kind] + n * size
      /\ \E S : heap[p].items \in Seq(S)
  BY ContainerFacts DEF IsItems
<1>2. n >= 1
  BY <1>1
<1> HIDE DEF size
<1>3. size <= n * size
  <2>1. \A i, s \in Nat : i >= 1 => s <= i * s
    OBVIOUS
  <2> HIDE DEF n
  <2>2. QED
    BY <1>1, <1>2, <2>1
<1>4. Total(heap) >= size
  BY <1>1, <1>3
<1>5. account' = Exact(Total(heap) - size)
  BY <1>1, <1>4, HeapFacts, AccountFacts DEF size
<1>6. Total(heap) - size = Total(heap) - n * size + (n - 1) * size
  <2> DEFINE t == Total(heap)
  <2>1. t \in Nat /\ n \in Nat /\ size \in Nat
    BY <1>1
  <2>2. \A u, i, s \in Nat : u - s = u - i * s + (i - 1) * s
    OBVIOUS
  <2> HIDE DEF t, n
  <2>3. t - size = t - n * size + (n - 1) * size
    BY <2>1, <2>2
  <2>4. QED
    BY <2>3 DEF t
<1>7. account' = Exact(Total(heap) - n * size + (n - 1) * size)
  BY <1>5, <1>6
<1>8. QED
  BY <1>7, ItemsInv DEF size

LEMMA ItemsFreed ==
  ASSUME AllocatorAssumption, AInv,
         NEW p \in DOMAIN heap, heap[p].kind \in {"table", "list", "stack"}
  PROVE  FreedItems(account, Len(heap[p].items), ItemSize(heap[p].kind))
           = Exact(Total(heap) - Len(heap[p].items) * ItemSize(heap[p].kind))
<1> DEFINE size == ItemSize(heap[p].kind)
           n == Len(heap[p].items)
<1>1. /\ size \in Nat \ {0} /\ n \in Nat /\ Total(heap) \in Nat /\ n * size \in Nat
      /\ SizeOf[heap[p].kind] \in Nat /\ Total(heap) >= SizeOf[heap[p].kind] + n * size
  BY ContainerFacts
<1>2. account = Exact(Total(heap))
  BY HeapFacts
<1> HIDE DEF size, n
<1>3. Total(heap) >= n * size
  BY <1>1
<1>4. FreedItems(Exact(Total(heap)), n, size) = Exact(Total(heap) - n * size)
  BY <1>1, <1>3, FreedItemsFacts
<1>5. QED
  BY <1>2, <1>4 DEF size, n

LEMMA EmptiedInv ==
  ASSUME AllocatorAssumption, AInv,
         NEW p \in DOMAIN heap, heap[p].kind \in {"table", "list", "stack"},
         heap' = [heap EXCEPT ![p].items = <<>>],
         account' = FreedItems(account, Len(heap[p].items), ItemSize(heap[p].kind))
  PROVE  AInv'
<1> DEFINE size == ItemSize(heap[p].kind)
           n == Len(heap[p].items)
<1>1. /\ size \in Nat \ {0} /\ n \in Nat /\ Total(heap) \in Nat /\ n * size \in Nat
  BY ContainerFacts
<1>2. FreedItems(account, n, size) = Exact(Total(heap) - n * size)
  BY ItemsFreed
<1>3. account' = Exact(Total(heap) - n * size)
  BY <1>2
<1>4. Total(heap) - n * size = Total(heap) - n * size + Len(<<>>) * size
  BY <1>1
<1>5. IsItems(<<>>, heap[p].kind)
  BY DEF IsItems
<1>6. QED
  BY <1>3, <1>4, <1>5, ItemsInv

LEMMA ContainerFreedInv ==
  ASSUME AllocatorAssumption, AInv,
         NEW p \in DOMAIN heap, heap[p].kind \in {"table", "list", "stack"},
         heap' = Without(heap, {p}),
         account' = FreedMem(FreedItems(account, Len(heap[p].items), ItemSize(heap[p].kind)),
                             SizeOf[heap[p].kind])
  PROVE  AInv'
<1> DEFINE size == ItemSize(heap[p].kind)
           n == Len(heap[p].items)
           base == SizeOf[heap[p].kind]
<1>1. /\ size \in Nat \ {0} /\ n \in Nat /\ Total(heap) \in Nat /\ n * size \in Nat
      /\ base \in Nat \ {0} /\ Total(heap) >= base + n * size
      /\ Size(heap[p]) = base + n * size
  BY ContainerFacts
<1>2. FreedItems(account, n, size) = Exact(Total(heap) - n * size)
  BY ItemsFreed
<1> HIDE DEF size, n, base
<1>3. Total(heap) - n * size \in Nat /\ Total(heap) - n * size >= base
  BY <1>1
<1>4. account' = Exact(Total(heap) - n * size - base)
  <2>1. account' = FreedMem(Exact(Total(heap) - n * size), base)
    BY <1>2 DEF size, n, base
  <2>2. FreedMem(Exact(Total(heap) - n * size), base) = Exact(Total(heap) - n * size - base)
    BY <1>1, <1>3, AccountFacts
  <2>3. QED
    BY <2>1, <2>2
<1>5. Total(heap) - n * size - base = Total(heap) - Size(heap[p])
  BY <1>1
<1>6. QED
  BY <1>4, <1>5, FreedInv

-----------------------------------------------------------------------------
(* The actions, but for those that drain a table.                          *)

LEMMA NewObjectInv ==
  ASSUME AllocatorAssumption, AInv, NEW size \in BlockSizes, AllocMem(size) \/ NewMem(size)
  PROVE  AInv'
<1>1. size \in Nat \ {0} /\ SizeOf.word \in Nat \ {0}
  BY DEF AllocatorAssumption
<1>2. CASE AllocMem(size)
  <2>1. IsObject(Block(size + SizeOf.word))
    BY <1>1 DEF IsObject, Block
  <2>2. Size(Block(size + SizeOf.word)) = size + SizeOf.word
    BY DEF Size, Block
  <2>3. QED
    BY <1>2, <2>1, <2>2, AllocateInv DEF AllocMem
<1>3. CASE NewMem(size)
  <2>1. IsObject(Object(size))
    BY <1>1 DEF IsObject, Object
  <2>2. Size(Object(size)) = size
    BY DEF Size, Object
  <2>3. QED
    BY <1>3, <2>1, <2>2, AllocateInv DEF NewMem
<1>4. QED
  BY <1>2, <1>3

LEMMA NewContainerInv ==
  ASSUME AllocatorAssumption, AInv, AllocHashTable \/ AllocStack \/ AllocList
  PROVE  AInv'
<1>1. IsObject(Table) /\ IsObject(Stack) /\ IsObject(List)
  BY DEF IsObject, IsItems, Table, Stack, List
<1>2. SizeOf.table \in Nat /\ SizeOf.stack \in Nat /\ SizeOf.list \in Nat
      /\ SizeOf.tableItem \in Nat /\ SizeOf.listItem \in Nat
  BY DEF AllocatorAssumption
<1>3. Size(Table) = SizeOf.table + 0 * SizeOf.tableItem
  BY DEF Size, Table
<1>4. Size(Stack) = SizeOf.stack + 0 * SizeOf.listItem
  BY DEF Size, Stack
<1>5. Size(List) = SizeOf.list + 0 * SizeOf.listItem
  BY DEF Size, List
<1>6. Size(Table) = SizeOf.table /\ Size(Stack) = SizeOf.stack /\ Size(List) = SizeOf.list
  BY <1>2, <1>3, <1>4, <1>5
<1>7. QED
  BY <1>1, <1>6, AllocateInv DEF AllocHashTable, AllocStack, AllocList

LEMMA BlockFreedInv ==
  ASSUME AllocatorAssumption, AInv, NEW p \in DOMAIN heap, FreeMem(p) \/ DeleteMem(p)
  PROVE  AInv'
<1>1. heap[p].kind \in {"block", "object"} /\ heap' = Without(heap, {p})
      /\ account' = FreedMem(account, heap[p].size)
  BY DEF FreeMem, DeleteMem, Live
<1>2. /\ Size(heap[p]) = heap[p].size /\ Size(heap[p]) \in Nat \ {0}
      /\ Total(heap) \in Nat /\ Total(heap) >= Size(heap[p]) /\ account = Exact(Total(heap))
  BY <1>1, HeapFacts, SizeFacts
<1>3. FreedMem(Exact(Total(heap)), Size(heap[p])) = Exact(Total(heap) - Size(heap[p]))
  BY <1>2, AccountFacts
<1>4. account' = Exact(Total(heap) - Size(heap[p]))
  BY <1>1, <1>2, <1>3
<1>5. QED
  BY <1>1, <1>4, FreedInv

LEMMA ContainerGoneInv ==
  ASSUME AllocatorAssumption, AInv, NEW p \in DOMAIN heap,
         FreeHashTable(p) \/ FreeStack(p) \/ FreeList(p)
  PROVE  AInv'
<1>1. /\ heap[p].kind \in {"table", "list", "stack"} /\ heap' = Without(heap, {p})
      /\ account' = FreedMem(FreedItems(account, Len(heap[p].items), ItemSize(heap[p].kind)),
                             SizeOf[heap[p].kind])
  BY DEF FreeHashTable, FreeStack, FreeList, Live, ItemSize
<1>2. QED
  BY <1>1, ContainerFreedInv

LEMMA ContainerEmptiedInv ==
  ASSUME AllocatorAssumption, AInv, NEW p \in DOMAIN heap,
         HashTableEmptyOutTable(p) \/ ListEmptyOutList(p)
  PROVE  AInv'
<1>1. /\ heap[p].kind \in {"table", "list", "stack"} /\ heap' = [heap EXCEPT ![p].items = <<>>]
      /\ account' = FreedItems(account, Len(heap[p].items), ItemSize(heap[p].kind))
  BY DEF HashTableEmptyOutTable, ListEmptyOutList, Live, ItemSize
<1>2. QED
  BY <1>1, EmptiedInv

\* At either end, an item makes a container longer by one.
LEMMA AppendedItems ==
  ASSUME NEW kind, NEW items, IsItems(items, kind), NEW e,
         kind = "table" => DOMAIN e = {"key", "element"}
  PROVE  /\ IsItems(Append(items, e), kind) /\ Len(Append(items, e)) = Len(items) + 1
         /\ kind # "table" =>
              IsItems(<<e>> \o items, kind) /\ Len(<<e>> \o items) = Len(items) + 1
<1>1. PICK S : items \in Seq(S)
  BY DEF IsItems
<1> DEFINE R == S \cup {e}
<1>2. items \in Seq(R) /\ e \in R /\ <<e>> \in Seq(R)
  BY <1>1
<1> HIDE DEF R
<1>3. /\ Append(items, e) \in Seq(R) /\ Len(Append(items, e)) = Len(items) + 1
      /\ <<e>> \o items \in Seq(R) /\ Len(<<e>> \o items) = Len(items) + 1
  BY <1>2
<1>4. \A n \in DOMAIN Append(items, e) :
        (n \in DOMAIN items /\ Append(items, e)[n] = items[n]) \/ Append(items, e)[n] = e
  BY <1>2
<1>5. QED
  BY <1>3, <1>4 DEF IsItems

LEMMA ItemInserted ==
  ASSUME AllocatorAssumption, AInv, NEW p \in DOMAIN heap, NEW k, NEW e,
         HashTableInsert(p, k, e) \/ StackPush(p, e) \/ ListAppend(p, e)
  PROVE  AInv'
<1>1. CASE HashTableInsert(p, k, e)
  <2> DEFINE items == Append(heap[p].items, [key |-> k, element |-> e])
  <2>1. /\ heap[p].kind = "table" /\ heap' = [heap EXCEPT ![p].items = items]
        /\ account' = AllocatedMem(account, ItemSize(heap[p].kind))
    BY <1>1 DEF HashTableInsert, Live, ItemSize
  <2>2. IsItems(heap[p].items, heap[p].kind)
    BY <2>1, ContainerFacts
  <2>3. IsItems(items, heap[p].kind) /\ Len(items) = Len(heap[p].items) + 1
    BY <2>2, AppendedItems
  <2> HIDE DEF items
  <2>4. QED
    BY <2>1, <2>3, ItemAddedInv
<1>2. CASE StackPush(p, e)
  <2> DEFINE items == Pushed(heap[p].items, e)
  <2>1. /\ heap[p].kind = "stack" /\ heap' = [heap EXCEPT ![p].items = items]
        /\ account' = AllocatedMem(account, ItemSize(heap[p].kind))
    BY <1>2 DEF StackPush, Live, ItemSize
  <2>2. IsItems(heap[p].items, heap[p].kind)
    BY <2>1, ContainerFacts
  <2>3. IsItems(items, heap[p].kind) /\ Len(items) = Len(heap[p].items) + 1
    BY <2>1, <2>2, AppendedItems DEF Pushed
  <2> HIDE DEF items
  <2>4. QED
    BY <2>1, <2>3, ItemAddedInv
<1>3. CASE ListAppend(p, e)
  <2> DEFINE items == Append(heap[p].items, [element |-> e])
  <2>1. /\ heap[p].kind = "list" /\ heap' = [heap EXCEPT ![p].items = items]
        /\ account' = AllocatedMem(account, ItemSize(heap[p].kind))
    BY <1>3 DEF ListAppend, Live, ItemSize
  <2>2. IsItems(heap[p].items, heap[p].kind)
    BY <2>1, ContainerFacts
  <2>3. IsItems(items, heap[p].kind) /\ Len(items) = Len(heap[p].items) + 1
    BY <2>1, <2>2, AppendedItems
  <2> HIDE DEF items
  <2>4. QED
    BY <2>1, <2>3, ItemAddedInv
<1>4. QED
  BY <1>1, <1>2, <1>3

\* Wherever an item is taken out, the container is shorter by one.
LEMMA RemovedItems ==
  ASSUME NEW kind, NEW items, IsItems(items, kind), NEW n \in DOMAIN items
  PROVE  /\ IsItems(RemoveAt(items, n), kind)
         /\ Len(RemoveAt(items, n)) = Len(items) - 1 /\ items # <<>>
<1>1. PICK S : items \in Seq(S)
  BY DEF IsItems
<1> DEFINE front == SubSeq(items, 1, n - 1)
           back == SubSeq(items, n + 1, Len(items))
<1>2. n \in 1 .. Len(items) /\ Len(items) \in Nat
  BY <1>1
<1>3. front \in Seq(S) /\ Len(front) = n - 1 /\ \A i \in 1 .. n - 1 : front[i] = items[i]
  BY <1>1, <1>2
<1>4. back \in Seq(S) /\ Len(back) = Len(items) - n
      /\ \A i \in 1 .. Len(items) - n : back[i] = items[n + i]
  BY <1>1, <1>2
<1> HIDE DEF front, back
<1>5. front \o back \in Seq(S) /\ Len(front \o back) = Len(items) - 1
  BY <1>2, <1>3, <1>4
<1>6. \A i \in 1 .. Len(items) - 1 : \E j \in DOMAIN items : (front \o back)[i] = items[j]
  <2>1. ASSUME NEW i \in 1 .. Len(items) - 1, i < n PROVE (front \o back)[i] = items[i]
    BY <1>2, <1>3, <1>4, <2>1
  <2>2. ASSUME NEW i \in 1 .. Len(items) - 1, i >= n PROVE (front \o back)[i] = items[i + 1]
    <3>1. (front \o back)[i] = back[i - (n - 1)] /\ i - (n - 1) \in 1 .. Len(items) - n
      BY <1>2, <1>3, <1>4, <2>2, SMTT(60)
    <3>2. n + (i - (n - 1)) = i + 1
      BY <1>2
    <3>3. QED
      BY <1>4, <3>1, <3>2
  <2>3. \A i \in 1 .. Len(items) - 1 : i \in DOMAIN items /\ i + 1 \in DOMAIN items
    BY <1>1
  <2>4. ASSUME NEW i \in 1 .. Len(items) - 1
        PROVE  \E j \in DOMAIN items : (front \o back)[i] = items[j]
    <3>1. i < n \/ i >= n
      BY <1>2
    <3>2. (front \o back)[i] = items[i] \/ (front \o back)[i] = items[i + 1]
      BY <2>1, <2>2, <3>1
    <3>3. QED
      BY <2>3, <3>2
  <2>5. QED
    BY <2>4
<1>7. RemoveAt(items, n) = front \o back
  BY DEF RemoveAt, front, back
<1>8. DOMAIN (front \o back) = 1 .. Len(items) - 1
  BY <1>2, <1>5
<1>9. IsItems(front \o back, kind)
  BY <1>5, <1>6, <1>8 DEF IsItems
<1>10. QED
  BY <1>1, <1>2, <1>5, <1>7, <1>9

LEMMA ItemRemoved ==
  ASSUME AllocatorAssumption, AInv, NEW p \in DOMAIN heap, NEW n \in DOMAIN heap[p].items,
         \/ p \in Live("table") /\ HashTableRemoveItem(p, n)
         \/ p \in Live("list") /\ ListDeleteItem(p, n)
  PROVE  AInv'
<1> DEFINE items == RemoveAt(heap[p].items, n)
<1>1. /\ heap[p].kind \in {"table", "list", "stack"} /\ heap' = [heap EXCEPT ![p].items = items]
      /\ account' = FreedMem(account, ItemSize(heap[p].kind))
  BY DEF HashTableRemoveItem, ListDeleteItem, Live, ItemSize
<1>2. IsItems(heap[p].items, heap[p].kind)
  BY <1>1, ContainerFacts
<1>3. IsItems(items, heap[p].kind) /\ Len(items) = Len(heap[p].items) - 1
      /\ heap[p].items # <<>>
  BY <1>2, RemovedItems
<1> HIDE DEF items
<1>4. QED
  BY <1>1, <1>3, ItemTakenInv

LEMMA ItemPopped ==
  ASSUME AllocatorAssumption, AInv, NEW p \in DOMAIN heap, StackPop(p)
  PROVE  AInv'
<1> DEFINE items == Tail(heap[p].items)
<1>1. /\ heap[p].kind = "stack" /\ heap' = [heap EXCEPT ![p].items = items]
      /\ account' = FreedMem(account, ItemSize(heap[p].kind)) /\ heap[p].items # <<>>
  BY DEF StackPop, Popped, Live, ItemSize
<1>2. IsItems(heap[p].items, heap[p].kind)
  BY <1>1, ContainerFacts
<1>3. IsItems(items, heap[p].kind) /\ Len(items) = Len(heap[p].items) - 1
  BY <1>1, <1>2 DEF IsItems
<1> HIDE DEF items
<1>4. QED
  BY <1>1, <1>3, ItemTakenInv

\* The list of a stack is counted with its items (stackToList).
LEMMA ListCloned ==
  ASSUME AllocatorAssumption, AInv, NEW p \in DOMAIN heap, StackToList(p)
  PROVE  AInv'
<1> DEFINE items == heap[p].items
           o == [kind |-> "list", items |-> items]
           counted == AllocatedMem(account, SizeOf.list)
<1>1. /\ heap[p].kind = "stack" /\ Addresses \ DOMAIN heap # {}
      /\ heap' = With(heap, Unused, o)
      /\ account' = IF items = <<>> THEN counted
                    ELSE AllocatedMem(counted, Len(items) * SizeOf.listItem)
  BY DEF StackToList, Live
<1>2. /\ IsItems(items, "stack") /\ Len(items) \in Nat /\ Len(items) * SizeOf.listItem \in Nat
      /\ Total(heap) \in Nat /\ account = Exact(Total(heap))
  BY <1>1, ContainerFacts, HeapFacts DEF ItemSize
<1>3. SizeOf.list \in Nat /\ SizeOf.listItem \in Nat
  BY DEF AllocatorAssumption
<1>4. IsObject(o)
  BY <1>2 DEF IsObject, IsItems
<1>5. Size(o) = SizeOf.list + Len(items) * SizeOf.listItem
  BY DEF Size
<1> HIDE DEF items, o
<1>6. counted = Exact(Total(heap) + SizeOf.list) /\ Total(heap) + SizeOf.list \in Nat
  <2>1. AllocatedMem(Exact(Total(heap)), SizeOf.list) = Exact(Total(heap) + SizeOf.list)
    BY <1>2, <1>3, AccountFacts
  <2>2. QED
    BY <1>2, <1>3, <2>1
<1> HIDE DEF counted
<1>7. account' = Exact(Total(heap) + SizeOf.list + Len(items) * SizeOf.listItem)
  <2>1. CASE items = <<>>
    <3>1. Len(items) = 0
      BY <2>1
    <3>2. Total(heap) + SizeOf.list + 0 * SizeOf.listItem = Total(heap) + SizeOf.list
      BY <1>2, <1>3
    <3>3. QED
      BY <1>1, <1>6, <2>1, <3>1, <3>2
  <2>2. CASE items # <<>>
    BY <1>1, <1>2, <1>6, <2>2, AccountFacts
  <2>3. QED
    BY <2>1, <2>2
<1>8. Size(o) \in Nat
  BY <1>4, SizeFacts
<1>9. Total(heap) + SizeOf.list + Len(items) * SizeOf.listItem = Total(heap) + Size(o)
  BY <1>2, <1>3, <1>5
<1>10. AllocatedMem(account, Size(o)) = Exact(Total(heap) + Size(o))
  BY <1>2, <1>8, AccountFacts
<1>11. Allocate(o, Size(o))
  BY <1>1, <1>7, <1>9, <1>10 DEF Allocate
<1>12. QED
  BY <1>4, <1>11, AllocateInv

LEMMA QuotientGrows ==
  ASSUME NEW w \in Nat \ {0}, NEW i \in Nat, NEW j \in Nat, i <= j
  PROVE  i \div w \in Nat /\ j \div w \in Nat /\ i \div w <= j \div w
<1> DEFINE a == i \div w
           b == j \div w
<1>1. a \in Nat /\ b \in Nat /\ a * w <= i /\ j < (b + 1) * w
  BY Z3
<1>2. \A c, d \in Nat : d < c => (d + 1) * w <= c * w
  OBVIOUS
<1> HIDE DEF a, b
<1>3. ASSUME b < a PROVE FALSE
  <2>1. (b + 1) * w <= a * w /\ (b + 1) * w \in Nat /\ a * w \in Nat
    BY <1>1, <1>2, <1>3
  <2> QED
    BY <1>1, <2>1
<1>4. a <= b
  BY <1>1, <1>3
<1>5. QED
  BY <1>1, <1>4 DEF a, b

\* More bits need no fewer words.
LEMMA WordsGrow ==
  ASSUME AllocatorAssumption, NEW i \in Nat, NEW j \in Nat, i <= j
  PROVE  /\ WordsNecessary(i) \in Nat /\ WordsNecessary(j) \in Nat
         /\ WordsNecessary(i) <= WordsNecessary(j)
<1>1. /\ WordBits \in Nat \ {0} /\ i + WordBits - 1 \in Nat /\ j + WordBits - 1 \in Nat
      /\ i + WordBits - 1 <= j + WordBits - 1
  BY DEF AllocatorAssumption
<1>2. QED
  BY <1>1, QuotientGrows DEF WordsNecessary

\* A new bit set is at least as large as its length asks for.
LEMMA BitSetFacts ==
  ASSUME AllocatorAssumption, NEW length \in Nat
  PROVE  /\ IsObject(BitSet(length)) /\ BitSet(length).capacity \in Nat
         /\ WordsNecessary(length) \in Nat /\ BitSet(length).capacity >= WordsNecessary(length)
<1>1. length \div 2 \in Nat /\ length <= length + length \div 2 /\ length + length \div 2 \in Nat
  OBVIOUS
<1>2. /\ WordsNecessary(length) \in Nat /\ CapacityNecessary(length) \in Nat
      /\ CapacityNecessary(length) >= WordsNecessary(length)
  BY <1>1, WordsGrow DEF CapacityNecessary
<1>3. QED
  BY <1>2 DEF BitSet, IsObject

LEMMA NewBitSetInv ==
  ASSUME AllocatorAssumption, AInv, NEW length \in 0 .. MaxLength, AllocBitSet(length)
  PROVE  AInv'
<1>1. length \in Nat
  BY DEF AllocatorAssumption
<1>2. QED
  BY <1>1, BitSetFacts, AllocateInv DEF AllocBitSet

LEMMA BitSetFreedInv ==
  ASSUME AllocatorAssumption, AInv, NEW p \in DOMAIN heap, FreeBitSet(p)
  PROVE  AInv'
<1>1. heap[p].kind = "bitset" /\ heap' = Without(heap, {p})
      /\ account' = FreedMem(account, SizeOf.bitset + heap[p].capacity * SizeOf.word)
  BY DEF FreeBitSet, Live
<1>2. /\ Size(heap[p]) = SizeOf.bitset + heap[p].capacity * SizeOf.word
      /\ Size(heap[p]) \in Nat \ {0} /\ Total(heap) \in Nat /\ Total(heap) >= Size(heap[p])
      /\ account = Exact(Total(heap))
  BY <1>1, HeapFacts, SizeFacts
<1>3. FreedMem(Exact(Total(heap)), Size(heap[p])) = Exact(Total(heap) - Size(heap[p]))
  BY <1>2, AccountFacts
<1>4. account' = Exact(Total(heap) - Size(heap[p]))
  BY <1>1, <1>2, <1>3
<1>5. QED
  BY <1>1, <1>4, FreedInv

\* A bit set that expands was too small, so that it grows (setBit).
LEMMA BitSetInv ==
  ASSUME AllocatorAssumption, AInv, NEW p \in DOMAIN heap, NEW pos \in 0 .. MaxLength - 1,
         SetBit(p, pos)
  PROVE  AInv'
<1> DEFINE s == heap[p]
           o == WithBit(s, pos)
           more == o.capacity - s.capacity
<1>1. pos + 1 \in Nat /\ pos \in Nat /\ SizeOf.word \in Nat \ {0} /\ SizeOf.bitset \in Nat
  BY DEF AllocatorAssumption
<1>2. s.kind = "bitset" /\ heap' = [heap EXCEPT ![p] = o] /\ heap'[p] = o
  BY DEF SetBit, Live, AInv
<1>3. account' = IF more > 0 THEN AllocatedMem(account, more * SizeOf.word) ELSE account
  BY <1>2 DEF SetBit
<1>4. /\ IsObject(s)
      /\ s = [kind |-> "bitset", length |-> s.length, capacity |-> s.capacity]
      /\ s.length \in Nat /\ s.capacity \in Nat
      /\ Size(s) = SizeOf.bitset + s.capacity * SizeOf.word
  BY <1>2, HeapFacts, SizeFacts
<1>5. IsObject(o) /\ o.kind = "bitset" /\ more \in Nat
  <2>1. CASE pos < s.length
    BY <1>4, <2>1 DEF WithBit
  <2>2. CASE pos >= s.length /\ WordsNecessary(pos + 1) <= s.capacity
    <3>1. o = [kind |-> "bitset", length |-> pos + 1, capacity |-> s.capacity]
      BY <1>1, <1>4, <2>2 DEF WithBit
    <3>2. QED
      BY <1>1, <1>4, <3>1 DEF IsObject
  <2>3. CASE pos >= s.length /\ ~ (WordsNecessary(pos + 1) <= s.capacity)
    <3>1. o = BitSet(pos + 1)
      BY <1>1, <1>4, <2>3 DEF WithBit
    <3>2. QED
      BY <1>1, <1>4, <2>3, <3>1, BitSetFacts DEF BitSet
  <2>4. QED
    BY <1>1, <1>4, <2>1, <2>2, <2>3
<1>6. /\ Size(o) = SizeOf.bitset + o.capacity * SizeOf.word /\ o.capacity \in Nat
      /\ Size(o) \in Nat
  BY <1>5, SizeFacts
<1>7. account = Exact(Total(heap)) /\ Total(heap) \in Nat /\ Total(heap) >= Size(s)
  BY HeapFacts
<1> HIDE DEF s, o
<1>8. /\ more * SizeOf.word \in Nat
      /\ Total(heap) - Size(s) + Size(o) = Total(heap) + more * SizeOf.word
  <2> DEFINE t == Total(heap)
             w == SizeOf.word
             b == SizeOf.bitset
             c == s.capacity
             d == o.capacity
  <2>1. t \in Nat /\ w \in Nat /\ b \in Nat /\ c \in Nat /\ d \in Nat /\ d - c \in Nat
    BY <1>1, <1>4, <1>5, <1>6, <1>7
  <2>2. Size(s) = b + c * w /\ Size(o) = b + d * w
    BY <1>4, <1>6
  <2> HIDE DEF t, w, b, c, d
  <2>3. (d - c) * w \in Nat /\ c * w \in Nat /\ d * w \in Nat /\ (d - c) * w = d * w - c * w
    BY <2>1
  <2>4. t - Size(s) + Size(o) = t + (d - c) * w
    BY <2>1, <2>2, <2>3
  <2>5. QED
    BY <2>3, <2>4 DEF t, w, c, d
<1>9. account' = Exact(Total(heap) + more * SizeOf.word)
  <2>1. CASE more > 0
    <3>1. AllocatedMem(Exact(Total(heap)), more * SizeOf.word)
            = Exact(Total(heap) + more * SizeOf.word)
      BY <1>7, <1>8, AccountFacts
    <3>2. QED
      BY <1>3, <1>7, <2>1, <3>1
  <2>2. CASE more = 0
    <3>1. Total(heap) + 0 * SizeOf.word = Total(heap)
      BY <1>1, <1>7
    <3>2. QED
      BY <1>3, <1>7, <2>2, <3>1
  <2>3. QED
    BY <1>5, <2>1, <2>2
<1>10. account' = Exact(Total(heap) - Size(heap[p]) + Size(o))
  BY <1>8, <1>9 DEF s
<1>11. QED
  BY <1>2, <1>5, <1>10, ReplacedInv

-----------------------------------------------------------------------------
(* Draining a table.                                                       *)

(***************************************************************************)
(* What is freed with the first n items.                                   *)
(***************************************************************************)
FreedWith(p, parts, n) == {heap[p].items[i][part] : i \in 1 .. n, part \in parts}

\* What FreesOnce says of the parts of a table.
PartsApart(p, parts) ==
  \A i \in 1 .. Len(heap[p].items) : \A part \in parts :
    /\ heap[p].items[i][part] \in Live("block")
    /\ \A j \in 1 .. Len(heap[p].items) : \A other \in parts :
         heap[p].items[i][part] = heap[p].items[j][other] => i = j /\ part = other

\* The keys and elements to be freed are blocks, each in one place.
LEMMA TableParts ==
  ASSUME AllocatorAssumption, AInv, NEW p \in Live("table"),
         NEW parts, parts \subseteq {"key", "element"}, FreesOnce(p, parts)
  PROVE  /\ PartsApart(p, parts)
         /\ PartsOf(p, parts) = FreedWith(p, parts, Len(heap[p].items))
<1> DEFINE items == heap[p].items
           N == Len(items)
<1>1. /\ p \in DOMAIN heap /\ heap[p].kind = "table" /\ IsItems(items, "table")
      /\ DOMAIN items = 1 .. N /\ \A i \in 1 .. N : DOMAIN items[i] = {"key", "element"}
  <2>1. p \in DOMAIN heap /\ heap[p].kind = "table"
    BY DEF Live
  <2>2. IsItems(items, "table")
    BY <2>1, ContainerFacts
  <2>3. DOMAIN items = 1 .. N
    BY <2>2 DEF IsItems
  <2>4. QED
    BY <2>1, <2>2, <2>3 DEF IsItems
<1>2. \A i \in 1 .. N : \A part \in parts :
        <<p, i, part>> \in References /\ Target(<<p, i, part>>) = items[i][part]
  <2>1. ASSUME NEW i \in 1 .. N, NEW part \in parts
        PROVE  <<p, i, part>> \in References
    <3>1. part \in DOMAIN items[i] /\ i \in DOMAIN items
      BY <1>1
    <3>2. QED
      BY <3>1 DEF References
  <2>2. \A i, part : Target(<<p, i, part>>) = items[i][part]
    BY DEF Target
  <2>3. QED
    BY <2>1, <2>2
<1>3. \A r \in References : r[1] = p =>
        r = <<p, r[2], r[3]>> /\ r[2] \in 1 .. N /\ Target(r) = items[r[2]][r[3]]
  BY <1>1 DEF References, Target
<1>4. PartsApart(p, parts)
  <2>1. ASSUME NEW i \in 1 .. N, NEW part \in parts,
               NEW j \in 1 .. N, NEW other \in parts
        PROVE  /\ items[i][part] \in Live("block")
               /\ items[i][part] = items[j][other] => i = j /\ part = other
    <3> DEFINE r == <<p, i, part>>
               q == <<p, j, other>>
    <3>1. /\ r \in References /\ Target(r) = items[i][part] /\ r[1] = p /\ r[3] \in parts
          /\ q \in References /\ Target(q) = items[j][other]
      BY <1>2
    <3>2. r = q => i = j /\ part = other
      OBVIOUS
    <3> HIDE DEF r, q, items
    <3>3. QED
      BY <3>1, <3>2 DEF FreesOnce
  <2>2. QED
    BY <2>1 DEF PartsApart
<1>5. PartsOf(p, parts) = FreedWith(p, parts, N)
  <2>1. ASSUME NEW b \in PartsOf(p, parts) PROVE b \in FreedWith(p, parts, N)
    <3>1. PICK r \in References : r[1] = p /\ r[3] \in parts /\ b = Target(r)
      BY DEF PartsOf
    <3>2. r[2] \in 1 .. N /\ Target(r) = items[r[2]][r[3]]
      BY <1>3, <3>1
    <3> DEFINE i == r[2]
               part == r[3]
    <3>3. i \in 1 .. N /\ part \in parts /\ b = items[i][part]
      BY <3>1, <3>2
    <3> HIDE DEF i, part
    <3>4. QED
      BY <3>3 DEF FreedWith
  <2>2. ASSUME NEW b \in FreedWith(p, parts, N) PROVE b \in PartsOf(p, parts)
    <3>1. PICK i \in 1 .. N, part \in parts : b = items[i][part]
      BY DEF FreedWith
    <3> DEFINE r == <<p, i, part>>
    <3>2. r \in References /\ r[1] = p /\ r[3] \in parts /\ Target(r) = b
      BY <1>2, <3>1
    <3> HIDE DEF r
    <3>3. QED
      BY <3>2 DEF PartsOf
  <2>3. QED
    BY <2>1, <2>2
<1>6. QED
  BY <1>4, <1>5

\* What is left after some objects were freed.
LEMMA OthersLeft ==
  ASSUME AllocatorAssumption, AInv, NEW S
  PROVE  LET k == Without(heap, S)
         IN /\ Sized(k) /\ DOMAIN k = DOMAIN heap \ S /\ \A q \in DOMAIN k : k[q] = heap[q]
            /\ \A b : Without(k, {b}) = Without(heap, S \cup {b})
<1> DEFINE k == Without(heap, S)
<1>1. DOMAIN k = DOMAIN heap \ S /\ (\A q \in DOMAIN k : k[q] = heap[q])
      /\ k = [q \in DOMAIN k |-> k[q]]
  BY DEF Without
<1>2. IsFiniteSet(DOMAIN heap \ S)
  BY HeapFacts, FS_Subset DEF Sized
<1>3. \A q \in DOMAIN k : Size(k[q]) \in Nat
  BY <1>1, HeapFacts
<1>4. Sized(k)
  BY <1>1, <1>2, <1>3 DEF Sized
<1>5. ASSUME NEW b PROVE Without(k, {b}) = Without(heap, S \cup {b})
  <2>1. (DOMAIN heap \ S) \ {b} = DOMAIN heap \ (S \cup {b})
    OBVIOUS
  <2>2. QED
    BY <1>1, <2>1 DEF Without
<1>6. QED
  BY <1>1, <1>4, <1>5

\* A block is freed, m of the size of table p having been counted as freed before.
LEMMA BlockTaken ==
  ASSUME AllocatorAssumption, AInv, NEW S, NEW p \in DOMAIN heap \ S,
         NEW b \in DOMAIN heap \ S, b # p, heap[b].kind = "block",
         NEW m \in Nat, m <= Size(heap[p])
  PROVE  FreedMem(Exact(Total(Without(heap, S)) - m), heap[b].size)
           = Exact(Total(Without(heap, S \cup {b})) - m)
<1> DEFINE k == Without(heap, S)
           j == Without(heap, S \cup {b})
<1>1. /\ Sized(k) /\ b \in DOMAIN k /\ k[b] = heap[b] /\ Without(k, {b}) = j
      /\ Sized(j) /\ p \in DOMAIN j /\ j[p] = heap[p]
  BY OthersLeft
<1>2. Size(heap[b]) = heap[b].size /\ Size(heap[b]) \in Nat \ {0} /\ Size(heap[p]) \in Nat
  BY HeapFacts, SizeFacts
<1> HIDE DEF k, j
<1>3. Total(k) = Total(j) + Size(heap[b]) /\ Total(k) \in Nat /\ Total(j) \in Nat
  BY <1>1, TotalWithout
<1>4. Total(j) >= Size(heap[p])
  <2> DEFINE rest == Total(Without(j, {p}))
  <2>1. Total(j) = rest + Size(heap[p]) /\ rest \in Nat
    BY <1>1, TotalWithout
  <2> HIDE DEF rest
  <2>2. QED
    BY <1>2, <2>1
<1>5. /\ Total(k) - m \in Nat /\ Total(k) - m >= Size(heap[b])
      /\ Total(k) - m - Size(heap[b]) = Total(j) - m
  BY <1>2, <1>3, <1>4
<1>6. FreedMem(Exact(Total(k) - m), Size(heap[b])) = Exact(Total(k) - m - Size(heap[b]))
  BY <1>2, <1>5, AccountFacts
<1>7. QED
  BY <1>2, <1>5, <1>6 DEF k, j

\* So is the part of an item, if it is one to be freed.
LEMMA PartTaken ==
  ASSUME AllocatorAssumption, AInv, NEW S, NEW p \in DOMAIN heap \ S,
         NEW item, NEW part, NEW parts,
         part \in parts => item[part] \in Live("block") /\ item[part] \notin S \cup {p},
         NEW m \in Nat, m <= Size(heap[p])
  PROVE  FreedPart(Exact(Total(Without(heap, S)) - m), item, part, parts)
           = Exact(Total(Without(heap, S \cup {item[q] : q \in {part} \cap parts})) - m)
<1>1. CASE part \in parts
  <2>1. item[part] \in DOMAIN heap \ S /\ item[part] # p /\ heap[item[part]].kind = "block"
    BY <1>1 DEF Live
  <2>2. {item[q] : q \in {part} \cap parts} = {item[part]}
    BY <1>1
  <2>3. QED
    BY <1>1, <2>1, <2>2, BlockTaken DEF FreedPart
<1>2. CASE part \notin parts
  <2>1. S \cup {item[q] : q \in {part} \cap parts} = S
    BY <1>2
  <2>2. QED
    BY <1>2, <2>1 DEF FreedPart
<1>3. QED
  BY <1>1, <1>2

\* While its items are taken out the table itself is still there.
LEMMA TableLeft ==
  ASSUME AllocatorAssumption, AInv, NEW p \in Live("table"),
         NEW parts, PartsApart(p, parts), NEW n \in 0 .. Len(heap[p].items)
  PROVE  LET T == Total(Without(heap, FreedWith(p, parts, n)))
             m == n * SizeOf.tableItem
         IN /\ p \in DOMAIN heap \ FreedWith(p, parts, n)
            /\ m \in Nat /\ m <= Size(heap[p]) /\ Size(heap[p]) \in Nat
            /\ T \in Nat /\ T >= Size(heap[p])
            /\ SizeOf.table \in Nat \ {0} /\ SizeOf.tableItem \in Nat \ {0}
            /\ Size(heap[p]) = SizeOf.table + Len(heap[p].items) * SizeOf.tableItem
<1> DEFINE F == FreedWith(p, parts, n)
           k == Without(heap, F)
           N == Len(heap[p].items)
<1>1. p \in DOMAIN heap /\ heap[p].kind = "table"
  BY DEF Live
<1>2. /\ N \in Nat /\ SizeOf.table \in Nat \ {0} /\ SizeOf.tableItem \in Nat \ {0}
      /\ Size(heap[p]) = SizeOf.table + N * SizeOf.tableItem
  BY <1>1, ContainerFacts DEF ItemSize
<1>3. p \notin F
  <2>1. \A b \in F : b \in Live("block")
    BY <1>2, SMTT(60) DEF FreedWith, PartsApart
  <2>2. QED
    BY <1>1, <2>1 DEF Live
<1>4. n * SizeOf.tableItem \in Nat /\ n * SizeOf.tableItem <= N * SizeOf.tableItem
      /\ N * SizeOf.tableItem \in Nat
  <2>1. \A i, j, s \in Nat : i <= j => i * s \in Nat /\ j * s \in Nat /\ i * s <= j * s
    OBVIOUS
  <2>2. n \in Nat /\ N \in Nat /\ n <= N /\ SizeOf.tableItem \in Nat
    BY <1>2
  <2> HIDE DEF N
  <2>3. QED
    BY <2>1, <2>2
<1>5. Sized(k) /\ p \in DOMAIN k /\ k[p] = heap[p]
  BY <1>1, <1>3, OthersLeft
<1> HIDE DEF F, k, N
<1>6. Total(k) \in Nat /\ Total(k) >= Size(heap[p])
  <2> DEFINE rest == Total(Without(k, {p}))
  <2>1. Total(k) = rest + Size(heap[p]) /\ rest \in Nat
    BY <1>5, TotalWithout
  <2> HIDE DEF rest
  <2>2. QED
    BY <1>2, <1>4, <2>1, SMTT(60)
<1>7. n * SizeOf.tableItem <= Size(heap[p]) /\ Size(heap[p]) \in Nat
  BY <1>2, <1>4
<1>8. QED
  BY <1>1, <1>2, <1>3, <1>4, <1>6, <1>7 DEF F, k, N

\* One turn of the loop of freeHashTableAndData and the like.
LEMMA ItemDrained ==
  ASSUME AllocatorAssumption, AInv, NEW p \in Live("table"),
         NEW parts, parts \subseteq {"key", "element"}, PartsApart(p, parts),
         NEW n \in Nat, n + 1 <= Len(heap[p].items)
  PROVE  FreedItem(Exact(Total(Without(heap, FreedWith(p, parts, n))) - n * SizeOf.tableItem),
                   heap[p].items[n + 1], parts)
           = Exact(Total(Without(heap, FreedWith(p, parts, n + 1)))
                     - (n + 1) * SizeOf.tableItem)
<1> DEFINE item == heap[p].items[n + 1]
           F == FreedWith(p, parts, n)
           K == {item[q] : q \in {"key"} \cap parts}
           E == {item[q] : q \in {"element"} \cap parts}
           size == SizeOf.tableItem
           m == n * size
<1>0. Len(heap[p].items) \in Nat
  BY ContainerFacts DEF Live
<1>1. n \in 0 .. Len(heap[p].items) /\ n + 1 \in 1 .. Len(heap[p].items)
      /\ n + 1 \in 0 .. Len(heap[p].items)
  BY <1>0
<1>2. p \in DOMAIN heap \ F /\ m \in Nat /\ m <= Size(heap[p])
  BY <1>1, TableLeft
<1>3. heap[p].kind = "table"
  BY DEF Live
<1>4. \A part \in parts : item[part] \in Live("block") /\ item[part] # p
  BY <1>1, <1>3 DEF PartsApart, Live
<1>5. \A part \in parts : item[part] \notin F
  <2>1. ASSUME NEW part \in parts, item[part] \in F PROVE FALSE
    <3>1. PICK i \in 1 .. n, other \in parts : item[part] = heap[p].items[i][other]
      BY <2>1 DEF FreedWith
    <3>2. i \in 1 .. Len(heap[p].items) /\ i # n + 1
      BY <1>1
    <3>3. QED
      BY <1>1, <3>1, <3>2 DEF PartsApart
  <2>2. QED
    BY <2>1
<1>6. "element" \in parts => item["element"] \notin K
  BY <1>1 DEF PartsApart
<1>7. (F \cup K) \cup E = FreedWith(p, parts, n + 1)
  <2>1. 1 .. n + 1 = 1 .. n \cup {n + 1}
    OBVIOUS
  <2>2. FreedWith(p, parts, n + 1) = F \cup {item[q] : q \in parts}
    BY <2>1 DEF FreedWith
  <2>3. {item[q] : q \in parts} = K \cup E
    OBVIOUS
  <2>4. QED
    BY <2>2, <2>3
<1>8. p \notin K
  BY <1>4
<1>9. \A part \in parts : item[part] \in Live("block") /\ item[part] \notin F \cup {p}
  BY <1>4, <1>5
<1> HIDE DEF item, F, m, size
<1>10. FreedPart(Exact(Total(Without(heap, F)) - m), item, "key", parts)
         = Exact(Total(Without(heap, F \cup K)) - m)
  <2>1. "key" \in parts => item["key"] \in Live("block") /\ item["key"] \notin F \cup {p}
    BY <1>9
  <2>2. QED
    BY <1>2, <2>1, PartTaken
<1>11. FreedPart(Exact(Total(Without(heap, F \cup K)) - m), item, "element", parts)
         = Exact(Total(Without(heap, (F \cup K) \cup E)) - m)
  <2> DEFINE S == F \cup K
  <2>1. p \in DOMAIN heap \ S
    BY <1>2, <1>8
  <2>2. "element" \in parts => item["element"] \in Live("block")
                               /\ item["element"] \notin S \cup {p}
    BY <1>6, <1>9
  <2> HIDE DEF S
  <2>3. FreedPart(Exact(Total(Without(heap, S)) - m), item, "element", parts)
         = Exact(Total(Without(heap, S \cup E)) - m)
    BY <1>2, <2>1, <2>2, PartTaken
  <2>4. QED
    BY <2>3 DEF S
<1> HIDE DEF K, E
<1> DEFINE t == Total(Without(heap, FreedWith(p, parts, n + 1)))
<1>12. FreedItem(Exact(Total(Without(heap, F)) - m), item, parts)
         = FreedMem(Exact(t - m), size)
  BY <1>7, <1>10, <1>11 DEF FreedItem, size
<1>13. /\ t \in Nat /\ t >= (n + 1) * size /\ (n + 1) * size \in Nat /\ size \in Nat \ {0}
  <2>1. /\ (n + 1) * size \in Nat /\ (n + 1) * size <= Size(heap[p]) /\ Size(heap[p]) \in Nat
        /\ t \in Nat /\ t >= Size(heap[p]) /\ size \in Nat \ {0}
    BY <1>1, TableLeft DEF size
  <2> HIDE DEF t
  <2>2. QED
    BY <2>1
<1> HIDE DEF t
<1>14. (n + 1) * size = m + size
  BY <1>13 DEF m
<1>15. t - m \in Nat /\ t - m >= size /\ t - m - size = t - (n + 1) * size
  BY <1>2, <1>13, <1>14
<1>16. FreedMem(Exact(t - m), size) = Exact(t - m - size)
  BY <1>13, <1>15, AccountFacts
<1>17. QED
  BY <1>12, <1>15, <1>16 DEF item, F, m, size, t

\* All turns: the blocks have gone, and what the items took.
LEMMA DrainedFacts ==
  ASSUME AllocatorAssumption, AInv, NEW p \in Live("table"),
         NEW parts, parts \subseteq {"key", "element"}, FreesOnce(p, parts)
  PROVE  Drained(p, parts) = Exact(Total(Without(heap, PartsOf(p, parts)))
                                     - Len(heap[p].items) * SizeOf.tableItem)
<1> DEFINE items == heap[p].items
           N == Len(items)
           size == SizeOf.tableItem
           Left(n) == Exact(Total(Without(heap, FreedWith(p, parts, n))) - n * size)
           closed == [n \in 0 .. N |-> Left(n)]
           Solves(f) == f = [n \in 0 .. N |->
                               IF n = 0 THEN account ELSE FreedItem(f[n - 1], items[n], parts)]
           iter == CHOOSE f : Solves(f)
<1>1. N \in Nat /\ size \in Nat /\ PartsApart(p, parts)
  BY ContainerFacts, TableParts DEF Live, ItemSize
<1>2. Left(0) = account
  <2>1. FreedWith(p, parts, 0) = {}
    BY DEF FreedWith
  <2>2. Without(heap, {}) = heap
    BY DEF AInv, Without
  <2>3. Total(heap) - 0 * size = Total(heap) /\ account = Exact(Total(heap))
    BY <1>1, HeapFacts DEF Live
  <2>4. QED
    BY <2>1, <2>2, <2>3
<1>3. ASSUME NEW n \in Nat, n + 1 <= N
      PROVE  FreedItem(Left(n), items[n + 1], parts) = Left(n + 1)
  BY <1>1, <1>3, ItemDrained
<1> HIDE DEF Left, N, items
<1>4. Solves(closed)
  <2>1. ASSUME NEW n \in 0 .. N, n # 0
        PROVE  closed[n] = FreedItem(closed[n - 1], items[n], parts)
    <3>1. n - 1 \in Nat /\ n - 1 \in 0 .. N /\ (n - 1) + 1 = n /\ n <= N
      BY <1>1, <2>1
    <3>2. closed[n] = Left(n) /\ closed[n - 1] = Left(n - 1)
      BY <3>1
    <3>3. FreedItem(Left(n - 1), items[n], parts) = Left(n)
      BY <1>3, <3>1
    <3>4. QED
      BY <3>2, <3>3
  <2>2. 0 \in 0 .. N => closed[0] = account
    BY <1>2
  <2> DEFINE Step(n) == IF n = 0 THEN account ELSE FreedItem(closed[n - 1], items[n], parts)
  <2>3. \A n \in 0 .. N : closed[n] = Step(n)
    BY <2>1, <2>2
  <2>4. closed = [n \in 0 .. N |-> closed[n]]
    OBVIOUS
  <2> HIDE DEF closed
  <2>5. closed = [n \in 0 .. N |-> Step(n)]
    BY <2>3, <2>4
  <2>6. QED
    BY <2>5
<1> HIDE DEF closed
<1>5. Solves(iter)
  BY <1>4
<1> HIDE DEF iter
<1>6. \A n \in 0 .. N : iter[n] = Left(n)
  <2> DEFINE P == {n \in Nat : n <= N => iter[n] = Left(n)}
  <2>1. 0 \in P
    BY <1>1, <1>2, <1>5
  <2>2. ASSUME NEW n \in Nat, n \in P PROVE n + 1 \in P
    <3>1. SUFFICES ASSUME n + 1 <= N PROVE iter[n + 1] = Left(n + 1)
      OBVIOUS
    <3>2. n + 1 \in 0 .. N /\ n + 1 # 0 /\ (n + 1) - 1 = n /\ n <= N
      BY <1>1, <3>1
    <3>3. iter[n + 1] = FreedItem(iter[n], items[n + 1], parts)
      BY <1>5, <3>2
    <3>4. iter[n] = Left(n)
      BY <2>2, <3>2
    <3>5. QED
      BY <1>3, <3>1, <3>3, <3>4
  <2> HIDE DEF P
  <2>3. Nat \subseteq P
    BY <2>1, <2>2, SetInduction
  <2>4. QED
    BY <2>3 DEF P
<1>7. Drained(p, parts) = iter[N]
  BY DEF Drained, iter, N, items
<1>8. Drained(p, parts) = Left(N)
  BY <1>1, <1>6, <1>7
<1>9. PartsOf(p, parts) = FreedWith(p, parts, N)
  BY TableParts DEF N, items
<1>10. QED
  BY <1>8, <1>9 DEF Left, N, items

LEMMA DrainedLeaves ==
  ASSUME AllocatorAssumption, AInv, NEW p \in Live("table"),
         NEW parts, parts \subseteq {"key", "element"}, FreesOnce(p, parts)
  PROVE  LET k == Without(heap, PartsOf(p, parts))
         IN /\ Sized(k) /\ p \in DOMAIN k /\ k[p] = heap[p]
            /\ \A q \in DOMAIN k : IsObject(k[q])
            /\ Total(k) \in Nat /\ Total(k) >= Size(heap[p])
            /\ Drained(p, parts) = Exact(Total(k) - Len(heap[p].items) * SizeOf.tableItem)
            /\ SizeOf.table \in Nat \ {0} /\ Len(heap[p].items) * SizeOf.tableItem \in Nat
            /\ Size(heap[p]) = SizeOf.table + Len(heap[p].items) * SizeOf.tableItem
<1> DEFINE N == Len(heap[p].items)
           F == PartsOf(p, parts)
<1>1. PartsApart(p, parts) /\ F = FreedWith(p, parts, N) /\ N \in 0 .. N
  <2>1. N \in Nat
    BY ContainerFacts DEF Live
  <2>2. N \in 0 .. N
    BY <2>1
  <2>3. PartsApart(p, parts) /\ F = FreedWith(p, parts, N)
    BY TableParts
  <2>4. QED
    BY <2>2, <2>3
<1>2. /\ p \in DOMAIN heap \ F /\ Total(Without(heap, F)) \in Nat
      /\ Total(Without(heap, F)) >= Size(heap[p]) /\ SizeOf.table \in Nat \ {0}
      /\ N * SizeOf.tableItem \in Nat /\ Size(heap[p]) = SizeOf.table + N * SizeOf.tableItem
  BY <1>1, TableLeft
<1>3. Drained(p, parts) = Exact(Total(Without(heap, F)) - N * SizeOf.tableItem)
  BY DrainedFacts
<1> HIDE DEF N, F
<1>4. /\ Sized(Without(heap, F)) /\ p \in DOMAIN Without(heap, F)
      /\ Without(heap, F)[p] = heap[p]
      /\ \A q \in DOMAIN Without(heap, F) : IsObject(Without(heap, F)[q])
  BY <1>2, OthersLeft, HeapFacts
<1>5. QED
  BY <1>2, <1>3, <1>4 DEF N, F

LEMMA TableDrainedInv ==
  ASSUME AllocatorAssumption, AInv, NEW p \in DOMAIN heap,
         NEW parts \in {{"element"}, {"key"}, {"key", "element"}}, FreeHashTableAnd(p, parts)
  PROVE  AInv'
<1> DEFINE F == PartsOf(p, parts)
           k == Without(heap, F)
           n == Len(heap[p].items) * SizeOf.tableItem
<1>1. /\ p \in Live("table") /\ FreesOnce(p, parts) /\ parts \subseteq {"key", "element"}
      /\ heap' = Without(heap, {p} \cup F)
      /\ account' = FreedMem(Drained(p, parts), SizeOf.table)
  BY DEF FreeHashTableAnd
<1>2. /\ Sized(k) /\ p \in DOMAIN k /\ k[p] = heap[p] /\ \A q \in DOMAIN k : IsObject(k[q])
      /\ Total(k) \in Nat /\ Total(k) >= Size(heap[p]) /\ n \in Nat
      /\ Drained(p, parts) = Exact(Total(k) - n) /\ SizeOf.table \in Nat \ {0}
      /\ Size(heap[p]) = SizeOf.table + n
  BY <1>1, DrainedLeaves
<1>3. heap' = Without(k, {p})
  <2>1. {p} \cup F = F \cup {p}
    OBVIOUS
  <2>2. Without(k, {p}) = Without(heap, F \cup {p})
    BY OthersLeft
  <2>3. QED
    BY <1>1, <2>1, <2>2
<1> HIDE DEF F, k, n
<1>4. /\ Sized(heap') /\ DOMAIN heap' = DOMAIN k \ {p} /\ Total(heap') \in Nat
      /\ Total(k) = Total(heap') + Size(heap[p])
  BY <1>2, <1>3, TotalWithout
<1>5. /\ Total(k) - n \in Nat /\ Total(k) - n >= SizeOf.table
      /\ Total(k) - n - SizeOf.table = Total(heap')
  BY <1>2, <1>4
<1>6. account' = Exact(Total(heap'))
  <2>1. FreedMem(Exact(Total(k) - n), SizeOf.table) = Exact(Total(k) - n - SizeOf.table)
    BY <1>2, <1>5, AccountFacts
  <2>2. QED
    BY <1>1, <1>2, <1>5, <2>1
<1>7. \A q \in DOMAIN heap' : IsObject(heap'[q])
  BY <1>2, <1>3, <1>4 DEF Without
<1>8. QED
  BY <1>4, <1>6, <1>7 DEF AInv, Sized

LEMMA TableEmptiedInv ==
  ASSUME AllocatorAssumption, AInv, NEW p \in DOMAIN heap, HashTableEmptyOutTableFreeData(p)
  PROVE  AInv'
<1> DEFINE F == PartsOf(p, {"element"})
           k == Without(heap, F)
           n == Len(heap[p].items) * SizeOf.tableItem
           o == [kind |-> "table", items |-> <<>>]
<1>1. /\ p \in Live("table") /\ FreesOnce(p, {"element"})
      /\ heap' = [k EXCEPT ![p].items = <<>>] /\ account' = Drained(p, {"element"})
  BY DEF HashTableEmptyOutTableFreeData
<1>2. /\ Sized(k) /\ p \in DOMAIN k /\ k[p] = heap[p] /\ \A q \in DOMAIN k : IsObject(k[q])
      /\ Total(k) \in Nat /\ Total(k) >= Size(heap[p]) /\ n \in Nat
      /\ Drained(p, {"element"}) = Exact(Total(k) - n) /\ SizeOf.table \in Nat \ {0}
      /\ Size(heap[p]) = SizeOf.table + n
  BY <1>1, DrainedLeaves
<1>3. heap' = [k EXCEPT ![p] = o]
  <2>1. k[p] = [kind |-> "table", items |-> k[p].items]
    BY <1>1, <1>2, SizeFacts DEF Live
  <2>2. [k[p] EXCEPT !.items = <<>>] = o
    BY <2>1
  <2>3. heap' = [k EXCEPT ![p] = [k[p] EXCEPT !.items = <<>>]]
    BY <1>1
  <2>4. QED
    BY <2>2, <2>3
<1>4. IsObject(o) /\ Size(o) = SizeOf.table + 0 * SizeOf.tableItem
  BY DEF IsObject, IsItems, Size
<1>5. Size(o) = SizeOf.table /\ Size(o) \in Nat
  BY <1>4 DEF AllocatorAssumption
<1> HIDE DEF F, k, n, o
<1>6. /\ Sized(heap') /\ DOMAIN heap' = DOMAIN k
      /\ Total(heap') = Total(k) - Size(k[p]) + Size(o)
  <2>1. \A h, x, j : /\ Sized(h) /\ p \in DOMAIN h /\ Size(x) \in Nat
                      /\ j = [h EXCEPT ![p] = x]
                      => /\ Sized(j) /\ DOMAIN j = DOMAIN h
                         /\ Total(j) = Total(h) - Size(h[p]) + Size(x)
    BY TotalReplaced
  <2>2. QED
    BY <1>2, <1>3, <1>5, <2>1
<1>7. Total(heap') = Total(k) - n
  BY <1>2, <1>5, <1>6
<1>8. \A q \in DOMAIN heap' : IsObject(heap'[q])
  BY <1>2, <1>3, <1>4, <1>6
<1>9. QED
  BY <1>1, <1>2, <1>6, <1>7, <1>8 DEF AInv, Sized

-----------------------------------------------------------------------------
\* No call disturbs the account.
LEMMA NextKeepsAccount ==
  ASSUME AllocatorAssumption, AInv, [Next]_allocatorVars
  PROVE  AInv'
<1>1. CASE \E size \in BlockSizes : AllocMem(size) \/ NewMem(size)
  BY <1>1, NewObjectInv
<1>2. CASE AllocHashTable \/ AllocStack \/ AllocList
  BY <1>2, NewContainerInv
<1>3. CASE \E length \in 0 .. MaxLength : AllocBitSet(length)
  BY <1>3, NewBitSetInv
<1>4. ASSUME NEW p \in DOMAIN heap,
             \/ FreeMem(p) \/ DeleteMem(p)
             \/ FreeHashTable(p) \/ HashTableEmptyOutTable(p)
             \/ FreeStack(p) \/ FreeList(p) \/ ListEmptyOutList(p)
      PROVE  AInv'
  BY <1>4, BlockFreedInv, ContainerGoneInv, ContainerEmptiedInv
<1>5. ASSUME NEW p \in DOMAIN heap,
             \/ HashTableEmptyOutTableFreeData(p)
             \/ \E parts \in {{"element"}, {"key"}, {"key", "element"}} : FreeHashTableAnd(p, parts)
      PROVE  AInv'
  BY <1>5, TableEmptiedInv, TableDrainedInv
<1>6. ASSUME NEW p \in DOMAIN heap,
             \/ \E k \in Values, e \in Values : HashTableInsert(p, k, e)
             \/ \E e \in Values : StackPush(p, e) \/ ListAppend(p, e)
      PROVE  AInv'
  BY <1>6, ItemInserted
<1>7. ASSUME NEW p \in DOMAIN heap, StackPop(p) \/ StackToList(p)
      PROVE  AInv'
  BY <1>7, ItemPopped, ListCloned
<1>8. ASSUME NEW p \in DOMAIN heap,
             FreeBitSet(p) \/ \E pos \in 0 .. MaxLength - 1 : SetBit(p, pos)
      PROVE  AInv'
  BY <1>8, BitSetFreedInv, BitSetInv
<1>9. ASSUME NEW p \in DOMAIN heap, NEW n \in DOMAIN heap[p].items,
             \/ p \in Live("table") /\ HashTableRemoveItem(p, n)
             \/ p \in Live("list") /\ ListDeleteItem(p, n)
      PROVE  AInv'
  BY <1>9, ItemRemoved
<1>10. CASE UNCHANGED allocatorVars
  BY <1>10 DEF AInv, allocatorVars
<1>11. \A kind : Live(kind) \subseteq DOMAIN heap
  BY DEF Live
<1>12. QED
  BY <1>1, <1>2, <1>3, <1>4, <1>5, <1>6, <1>7, <1>8, <1>9, <1>10, <1>11 DEF Next

(***************************************************************************)
(* The estimate is the size of what is alive, and no assertion fails,      *)
(* whatever calls are made (MemoryAllocator's wrappers,                    *)
(* memory_allocator.cpp:48-391).                                           *)
(***************************************************************************)
THEOREM AccountAlwaysExact ==
  ASSUME AllocatorAssumption
  PROVE  Spec => []AccountExact
<1>1. Init => AInv
  <2>1. SUFFICES ASSUME Init PROVE AInv
    OBVIOUS
  <2>2. heap = [p \in {} |-> 0] /\ DOMAIN heap = {} /\ account = Exact(0)
    BY <2>1 DEF Init, Exact
  <2>3. IsFiniteSet({})
    BY FS_EmptySet
  <2>4. Total(heap) = 0
    <3>1. Sized(heap)
      BY <2>2, <2>3 DEF Sized
    <3>2. PICK w \in [{} -> Nat], g \in [SUBSET {} -> Nat] :
            SumsUp(g, w, SUBSET {}) /\ Total(heap) = g[{}]
      BY <2>2, <3>1, TotalIsSum
    <3>3. QED
      BY <3>2 DEF SumsUp
  <2>5. QED
    BY <2>2, <2>3, <2>4 DEF AInv
<1>2. AInv /\ [Next]_allocatorVars => AInv'
  BY NextKeepsAccount
<1>3. AInv => AccountExact
  BY DEF AInv, AccountExact, Total, Exact
<1>4. QED
  BY <1>1, <1>2, <1>3, PTL DEF Spec
=============================================================================
