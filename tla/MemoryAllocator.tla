--------------------------- MODULE MemoryAllocator ---------------------------
(***************************************************************************)
(* The estimate of the memory in use (memory_allocator.cpp), on which the  *)
(* loop tracer decides when to dump.  All containers of the tracers are    *)
(* changed through the allocator, which adds and subtracts what each call  *)
(* allocates and frees; it keeps no record of what is alive, so that an    *)
(* amount that is missed once is wrong for the rest of the program.        *)
(*                                                                         *)
(* The containers are what XanList, XanHashTable and XanBitSet are checked *)
(* to be: lists and stacks are sequences of elements, tables sequences of  *)
(* pairs in the order in which iterations meet them, and a bit set is its  *)
(* length and capacity.  Elements and keys are blocks or plain values.     *)
(***************************************************************************)
EXTENDS Integers, SequencesExt, FiniteSetsExt

CONSTANTS
  Addresses,   (* bound: as many objects at most                           *)
  Plain,       (* a value that is not the address of a block               *)
  BlockSizes,  (* the sizes that are asked for                             *)
  SizeOf,      (* of a word, and of xanlib's structures                    *)
  WordBits,    (* 64: the bits in a word of a bit set                      *)
  MaxItems,    (* bound: the items in a container                          *)
  MaxLength    (* bound: the length of a bit set                           *)

AllocatorAssumption ==
  /\ BlockSizes \subseteq Nat \ {0} /\ WordBits \in Nat \ {0} /\ MaxLength \in Nat
  /\ SizeOf \in [{"word", "table", "tableItem", "list", "stack", "listItem", "bitset"}
                   -> Nat \ {0}]

VARIABLES
  heap,    \* the live objects, by address
  account  \* memUsed, and whether all assertions held

allocatorVars == <<heap, account>>

-----------------------------------------------------------------------------
(* The account.                                                            *)

\* The largest estimate so far, maxMemUsed, is kept for debuggers only.
AllocatedMem(a, size) == [a EXCEPT !.memUsed = @ + size]

FreedMem(a, size) ==
  [memUsed |-> a.memUsed - size, asserted |-> a.asserted /\ size > 0 /\ a.memUsed >= size]

\* As the code does for the items of a container, if there are any.
FreedItems(a, n, size) == IF n > 0 THEN FreedMem(a, n * size) ELSE a

-----------------------------------------------------------------------------
(* Objects.                                                                *)

Block(size) == [kind |-> "block", size |-> size]          \* with its size in front
Object(size) == [kind |-> "object", size |-> size]        \* of operator new
Table == [kind |-> "table", items |-> <<>>]
List == [kind |-> "list", items |-> <<>>]
Stack == [kind |-> "stack", items |-> <<>>]

WordsNecessary(length) == (length + WordBits - 1) \div WordBits
CapacityNecessary(length) == WordsNecessary(length + length \div 2)
BitSet(length) == [kind |-> "bitset", length |-> length, capacity |-> CapacityNecessary(length)]

\* xanBitSet_setBit
WithBit(s, pos) ==
  CASE pos < s.length -> s
    [] pos >= s.length /\ WordsNecessary(pos + 1) <= s.capacity -> [s EXCEPT !.length = pos + 1]
    [] OTHER -> BitSet(pos + 1)

Size(o) ==
  CASE o.kind \in {"block", "object"} -> o.size
    [] o.kind = "table" -> SizeOf.table + Len(o.items) * SizeOf.tableItem
    [] o.kind = "list" -> SizeOf.list + Len(o.items) * SizeOf.listItem
    [] o.kind = "stack" -> SizeOf.stack + Len(o.items) * SizeOf.listItem
    [] o.kind = "bitset" -> SizeOf.bitset + o.capacity * SizeOf.word

\* xanStack_push, xanStack_pop: the top of a stack is the first item of its list.
Pushed(items, e) == <<[element |-> e]>> \o items
Popped(items) == Tail(items)

Live(kind) == {p \in DOMAIN heap : heap[p].kind = kind}
Values == Live("block") \cup {Plain}

With(h, p, o) == [q \in DOMAIN h \cup {p} |-> IF q = p THEN o ELSE h[q]]
Without(h, ps) == [p \in DOMAIN h \ ps |-> h[p]]

\* Where keys and elements are: an object, the index of its item, the part of it.
References ==
  UNION {UNION {{<<p, n, part>> : part \in DOMAIN heap[p].items[n]} : n \in DOMAIN heap[p].items} :
           p \in Live("table") \cup Live("list") \cup Live("stack")}

Target(r) == heap[r[1]].items[r[2]][r[3]]

-----------------------------------------------------------------------------
Init ==
  /\ heap = [p \in {} |-> 0]
  /\ account = [memUsed |-> 0, asserted |-> TRUE]

\* A new object takes an unused address; which one does not matter.
Unused == CHOOSE p \in Addresses : p \notin DOMAIN heap

Allocate(o, size) ==
  /\ Addresses \ DOMAIN heap # {}
  /\ heap' = With(heap, Unused, o)
  /\ account' = AllocatedMem(account, size)

AllocMem(size) == Allocate(Block(size + SizeOf.word), size + SizeOf.word)

FreeMem(p) ==
  /\ p \in Live("block") /\ \A r \in References : Target(r) # p
  /\ heap' = Without(heap, {p})
  /\ account' = FreedMem(account, heap[p].size)

NewMem(size) == Allocate(Object(size), size)

DeleteMem(p) ==
  /\ p \in Live("object")
  /\ heap' = Without(heap, {p})
  /\ account' = FreedMem(account, heap[p].size)

-----------------------------------------------------------------------------
(* Hash tables.  A key may be in a table several times.                    *)

AllocHashTable == Allocate(Table, SizeOf.table)

FreeHashTable(p) ==
  /\ p \in Live("table")
  /\ heap' = Without(heap, {p})
  /\ account' = FreedMem(FreedItems(account, Len(heap[p].items), SizeOf.tableItem), SizeOf.table)

HashTableInsert(p, k, e) ==
  /\ p \in Live("table") /\ Len(heap[p].items) < MaxItems
  /\ heap' = [heap EXCEPT ![p].items = Append(@, [key |-> k, element |-> e])]
  /\ account' = AllocatedMem(account, SizeOf.tableItem)

HashTableRemoveItem(p, n) ==
  /\ heap' = [heap EXCEPT ![p].items = RemoveAt(@, n)]
  /\ account' = FreedMem(account, SizeOf.tableItem)

HashTableEmptyOutTable(p) ==
  /\ p \in Live("table")
  /\ heap' = [heap EXCEPT ![p].items = <<>>]
  /\ account' = FreedItems(account, Len(heap[p].items), SizeOf.tableItem)

(***************************************************************************)
(* Taking out the first item until there is none, and freeing its parts:   *)
(* its key, its element or both.  They are blocks that nothing else holds. *)
(***************************************************************************)
FreesOnce(p, parts) ==
  \A r \in References : r[1] = p /\ r[3] \in parts =>
    /\ Target(r) \in Live("block")
    /\ \A q \in References : Target(q) = Target(r) => q = r

FreedPart(a, i, part, parts) == IF part \in parts THEN FreedMem(a, heap[i[part]].size) ELSE a

FreedItem(a, i, parts) ==
  FreedMem(FreedPart(FreedPart(a, i, "key", parts), i, "element", parts), SizeOf.tableItem)

Drained(p, parts) ==
  LET items == heap[p].items
      after[n \in 0 .. Len(items)] ==
        IF n = 0 THEN account ELSE FreedItem(after[n - 1], items[n], parts)
  IN after[Len(items)]

PartsOf(p, parts) == {Target(r) : r \in {q \in References : q[1] = p /\ q[3] \in parts}}

\* freeHashTableAndData, freeHashTableAndKey and freeHashTableKeyAndData.
FreeHashTableAnd(p, parts) ==
  /\ p \in Live("table") /\ FreesOnce(p, parts)
  /\ heap' = Without(heap, {p} \cup PartsOf(p, parts))
  /\ account' = FreedMem(Drained(p, parts), SizeOf.table)

HashTableEmptyOutTableFreeData(p) ==
  /\ p \in Live("table") /\ FreesOnce(p, {"element"})
  /\ heap' = [Without(heap, PartsOf(p, {"element"})) EXCEPT ![p].items = <<>>]
  /\ account' = Drained(p, {"element"})

-----------------------------------------------------------------------------
(* Stacks.  The program pops only what it has pushed; the estimate would   *)
(* count an item that is not there.                                        *)

AllocStack == Allocate(Stack, SizeOf.stack)

FreeStack(p) ==
  /\ p \in Live("stack")
  /\ heap' = Without(heap, {p})
  /\ account' = FreedMem(FreedItems(account, Len(heap[p].items), SizeOf.listItem), SizeOf.stack)

StackPush(p, e) ==
  /\ p \in Live("stack") /\ Len(heap[p].items) < MaxItems
  /\ heap' = [heap EXCEPT ![p].items = Pushed(@, e)]
  /\ account' = AllocatedMem(account, SizeOf.listItem)

StackPop(p) ==
  /\ p \in Live("stack") /\ heap[p].items # <<>>
  /\ heap' = [heap EXCEPT ![p].items = Popped(@)]
  /\ account' = FreedMem(account, SizeOf.listItem)

\* xanStack_toList clones the stack's list.
StackToList(p) ==
  /\ p \in Live("stack") /\ Addresses \ DOMAIN heap # {}
  /\ LET items == heap[p].items
         counted == AllocatedMem(account, SizeOf.list)
     IN /\ heap' = With(heap, Unused, [kind |-> "list", items |-> items])
        /\ account' = IF items = <<>> THEN counted
                      ELSE AllocatedMem(counted, Len(items) * SizeOf.listItem)

-----------------------------------------------------------------------------
(* Bit sets.                                                               *)

AllocBitSet(length) == Allocate(BitSet(length), Size(BitSet(length)))

\* Mutant: by its length, which grows within the capacity.
FreeBitSet_ByLength(p) ==
  /\ p \in Live("bitset")
  /\ heap' = Without(heap, {p})
  /\ account' = FreedMem(account, SizeOf.bitset + WordsNecessary(heap[p].length) * SizeOf.word)

FreeBitSet(p) ==
  /\ p \in Live("bitset")
  /\ heap' = Without(heap, {p})
  /\ account' = FreedMem(account, SizeOf.bitset + heap[p].capacity * SizeOf.word)

SetBit(p, pos) ==
  /\ p \in Live("bitset")
  /\ heap' = [heap EXCEPT ![p] = WithBit(@, pos)]
  /\ LET more == heap'[p].capacity - heap[p].capacity
     IN account' = IF more > 0 THEN AllocatedMem(account, more * SizeOf.word) ELSE account

-----------------------------------------------------------------------------
(* Lists.                                                                  *)

AllocList == Allocate(List, SizeOf.list)

FreeList(p) ==
  /\ p \in Live("list")
  /\ heap' = Without(heap, {p})
  /\ account' = FreedMem(FreedItems(account, Len(heap[p].items), SizeOf.listItem), SizeOf.list)

ListAppend(p, e) ==
  /\ p \in Live("list") /\ Len(heap[p].items) < MaxItems
  /\ heap' = [heap EXCEPT ![p].items = Append(@, [element |-> e])]
  /\ account' = AllocatedMem(account, SizeOf.listItem)

ListDeleteItem(p, n) ==
  /\ heap' = [heap EXCEPT ![p].items = RemoveAt(@, n)]
  /\ account' = FreedMem(account, SizeOf.listItem)

ListEmptyOutList(p) ==
  /\ p \in Live("list")
  /\ heap' = [heap EXCEPT ![p].items = <<>>]
  /\ account' = FreedItems(account, Len(heap[p].items), SizeOf.listItem)

-----------------------------------------------------------------------------
Next ==
  \/ \E size \in BlockSizes : AllocMem(size) \/ NewMem(size)
  \/ AllocHashTable \/ AllocStack \/ AllocList
  \/ \E length \in 0 .. MaxLength : AllocBitSet(length)
  \/ \E p \in DOMAIN heap :
       \/ FreeMem(p) \/ DeleteMem(p)
       \/ FreeHashTable(p) \/ HashTableEmptyOutTable(p) \/ HashTableEmptyOutTableFreeData(p)
       \/ \E parts \in {{"element"}, {"key"}, {"key", "element"}} : FreeHashTableAnd(p, parts)
       \/ \E k \in Values, e \in Values : HashTableInsert(p, k, e)
       \/ FreeStack(p) \/ StackPop(p) \/ StackToList(p)
       \/ \E e \in Values : StackPush(p, e) \/ ListAppend(p, e)
       \/ FreeBitSet(p)
       \/ \E pos \in 0 .. MaxLength - 1 : SetBit(p, pos)
       \/ FreeList(p) \/ ListEmptyOutList(p)
  \/ \E p \in Live("table") : \E n \in DOMAIN heap[p].items : HashTableRemoveItem(p, n)
  \/ \E p \in Live("list") : \E n \in DOMAIN heap[p].items : ListDeleteItem(p, n)

Spec == Init /\ [][Next]_allocatorVars

-----------------------------------------------------------------------------
(***************************************************************************)
(* After any calls the estimate is the size of what is alive, so that the  *)
(* loop tracer dumps neither too late nor, its estimate having passed      *)
(* below zero, at every callback; and no call has freed more than is       *)
(* there, or nothing at all, which the code asserts.                       *)
(***************************************************************************)
AccountExact ==
  /\ account.asserted
  /\ account.memUsed = MapThenSumSet(LAMBDA p : Size(heap[p]), DOMAIN heap)
=============================================================================
