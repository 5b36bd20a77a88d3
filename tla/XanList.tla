------------------------------- MODULE XanList -------------------------------
(***************************************************************************)
(* The doubly linked lists of xanlib (xanlist.c).  Clients keep pointers   *)
(* to the items of a list, and a list keeps up to BufferSize of the items  *)
(* that were removed from it for its next insertions, so that a handle     *)
(* must not be used after its removal and an item must be in one place.    *)
(*                                                                         *)
(* An operation of the library is an operator from the state of a list to  *)
(* its next one.  That state is a record: the fields of the XanList, the   *)
(* buffered items, and the items that are allocated, of all lists.  Items  *)
(* come from malloc, which never fails and returns any unused address;     *)
(* which one does not matter, so that it is a CHOOSE.  The same element    *)
(* may be in a list several times.  Lists have no clone function.          *)
(***************************************************************************)
EXTENDS EntrySequences, FiniteSets

CONSTANTS
  Items,       (* the addresses of items                                     *)
  Data,        (* the elements                                               *)
  Lists,       (* the addresses of lists                                     *)
  BufferSize,  (* 4 in the code: how many removed items a list keeps          *)
  NULL

ListAssumption ==
  /\ IsFiniteSet(Items) /\ BufferSize \in Nat
  /\ NULL \notin Items \cup Lists \cup Data

VARIABLES
  lists,    \* XanList: firstItem, lastItem, len, bufferItems; NULL if there is none
  items,    \* XanListItem, for the allocated items
  contents  \* history: what the calls made so far promise of each list

listVars == <<lists, items, contents>>

Zeroed == [data |-> NULL, next |-> NULL, prev |-> NULL]
Empty == [first |-> NULL, last |-> NULL, len |-> 0, buffer |-> <<>>]

-----------------------------------------------------------------------------
(* Operations on s, a list with the heap: a record with the fields of a    *)
(* XanList and `items'.                                                    *)

NewItem(s) ==
  IF s.buffer = <<>> THEN CHOOSE i \in Items : i \notin DOMAIN s.items
                     ELSE Last(s.buffer)

Room(s, n) == n <= Len(s.buffer) + Cardinality(Items \ DOMAIN s.items)

SetNext(s, a, b) == IF a = NULL THEN s ELSE [s EXCEPT !.items[a].next = b]
SetPrev(s, a, b) == IF a = NULL THEN s ELSE [s EXCEPT !.items[a].prev = b]

\* internal_allocateItem, the assignment of the new item's fields, and len++.
AllocateItem(s, d, prev, next) ==
  [s EXCEPT !.buffer = IF @ = <<>> THEN @ ELSE Front(@),
            !.items  = (NewItem(s) :> [data |-> d, prev |-> prev, next |-> next]) @@ @,
            !.len    = @ + 1]

FreeItem(s, i) ==
  IF Len(s.buffer) = BufferSize
    THEN [s EXCEPT !.items = [j \in DOMAIN @ \ {i} |-> @[j]]]
    ELSE [s EXCEPT !.items[i] = Zeroed, !.buffer = Append(@, i)]

AppendItem(s, d) ==
  LET i == NewItem(s)
      t == [AllocateItem(s, d, IF s.first = NULL THEN NULL ELSE s.last, NULL)
              EXCEPT !.last = i]
  IN IF s.first = NULL THEN [t EXCEPT !.first = i] ELSE SetNext(t, s.last, i)

InsertItem(s, d) ==
  LET i == NewItem(s)
      t == [AllocateItem(s, d, NULL, s.first) EXCEPT !.first = i]
  IN IF s.first = NULL THEN [t EXCEPT !.last = i] ELSE SetPrev(t, s.first, i)

InsertItemBefore(s, at, d) ==
  LET i    == NewItem(s)
      prev == s.items[at].prev
  IN IF s.first = at THEN InsertItem(s, d)
     ELSE SetPrev(SetNext(AllocateItem(s, d, prev, at), prev, i), at, i)

InsertItemAfter(s, at, d) ==
  LET i    == NewItem(s)
      next == s.items[at].next
      t    == SetPrev(SetNext(AllocateItem(s, d, at, next), at, i), next, i)
  IN IF s.len \in {0, 1} THEN AppendItem(s, d)
     ELSE IF next = NULL THEN [t EXCEPT !.last = i] ELSE t

\* `place' differs from the item to move.
MoveItemBefore(s, i, place) ==
  LET placePrev == s.items[place].prev
      prev   == s.items[i].prev
      next   == s.items[i].next
      placed == SetPrev(SetNext(SetNext(SetPrev(s, i, placePrev), placePrev, i),
                                i, place), place, i)
      closed == SetPrev(SetNext(placed, prev, next), next, prev)
  IN IF placePrev = i THEN s
     ELSE [closed EXCEPT !.first = IF @ = place THEN i ELSE IF @ = i THEN next ELSE @,
                         !.last  = IF @ = i THEN prev ELSE @]

MoveItemToBegin(s, i) ==
  LET prev == s.items[i].prev
      next == s.items[i].next
      out  == SetPrev(SetNext(s, prev, next), next, prev)
      put  == SetPrev(SetPrev(SetNext(out, i, s.first), i, NULL), s.first, i)
  IN IF s.first = i THEN s
     ELSE [put EXCEPT !.first = i, !.last = IF @ = i THEN prev ELSE @]

\* The item is freed before its neighbours are linked, from their saved addresses.
Delete(s, i) ==
  LET prev  == s.items[i].prev
      next  == s.items[i].next
      freed == FreeItem([s EXCEPT !.last = IF next = NULL THEN prev ELSE @], i)
      out   == IF prev = NULL THEN [freed EXCEPT !.first = next]
                              ELSE SetNext(freed, prev, next)
  IN [SetPrev(out, next, prev) EXCEPT !.len = @ - 1]

(***************************************************************************)
(* The items met from firstItem along next, and from lastItem along prev:  *)
(* a walk stops at NULL, or after more steps than there are items.         *)
(***************************************************************************)
Along(s, from, field) ==
  LET step(i) == IF s.items[i][field] = NULL THEN <<>> ELSE <<s.items[i][field]>>
      walk[n \in 0 .. Cardinality(Items)] ==
        IF n = 0 THEN IF from = NULL THEN <<>> ELSE <<from>>
        ELSE LET w == walk[n - 1] IN IF w = <<>> THEN w ELSE w \o step(Last(w))
  IN walk[Cardinality(Items)]

Walk(s) == Along(s, s.first, "next")
WalkBack(s) == Along(s, s.last, "prev")

Find(s, d) ==
  LET w == Walk(s)
      k == SelectInSeq(w, LAMBDA i : s.items[i].data = d)
  IN IF k = 0 THEN NULL ELSE w[k]

DeleteElement(s, d) == IF Find(s, d) = NULL THEN s ELSE Delete(s, Find(s, d))

\* Mutant: only the first.
DeleteAllElements_First(s, d) == DeleteElement(s, d)

DeleteAllElements(s, d) ==
  FoldLeft(LAMBDA t, i : DeleteElement(t, d), s, Walk(s))

\* toDelete is the list of the items to delete, made before the first deletion.
DeleteContained(s, D) ==
  LET toDelete == SelectSeq(Walk(s), LAMBDA i : s.items[i].data \in D)
  IN FoldLeft(Delete, s, toDelete)

EmptyOut(s) == FoldLeft(LAMBDA t, i : Delete(t, t.first), s, Walk(s))

\* The inner loop: the items after i that hold the same element.
DeleteClonesOf(s, i) ==
  LET w     == Walk(s)
      later == SubSeq(w, SelectInSeq(w, LAMBDA j : j = i) + 1, Len(w))
  IN FoldLeft(Delete, s, SelectSeq(later, LAMBDA j : s.items[j].data = s.items[i].data))

\* The outer loop visits the items that are left when their turn comes.
DeleteClonesIn(s) ==
  FoldLeft(LAMBDA t, i : IF Contains(Walk(t), i) THEN DeleteClonesOf(t, i) ELSE t,
           s, Walk(s))

DataOf(s) == [k \in DOMAIN Walk(s) |-> s.items[Walk(s)[k]].data]

(* The questions.  `n' is a position number, from 0.                       *)

PositionNumber(s, d) == SelectInSeq(DataOf(s), LAMBDA e : e = d) - 1

ElementAt(s, n) ==
  IF n >= s.len THEN NULL
  ELSE IF n = 0 THEN s.first ELSE IF n = s.len - 1 THEN s.last ELSE Walk(s)[n + 1]

ShareSomeElements(s, t) == \E d \in ToSet(DataOf(s)) : Contains(DataOf(t), d)

ContainsAllElements(s, t) == \A d \in ToSet(DataOf(s)) : Find(t, d) # NULL

\* Repeated elements of s may stand for others of t.
ContainsTheSameElements(s, t) == s.len = t.len /\ ContainsAllElements(s, t)

EqualsInstancesNumber(s, d) == Len(SelectSeq(DataOf(s), LAMBDA e : e = d))

SharedElements(s, t) == SelectSeq(DataOf(s), LAMBDA d : Find(t, d) # NULL)

AppendData(s, data) == FoldLeft(AppendItem, s, data)

Reversed(s) ==
  [s EXCEPT !.items = [i \in DOMAIN @ |->
                         IF Contains(Walk(s), i)
                           THEN [@[i] EXCEPT !.next = s.items[i].prev,
                                             !.prev = s.items[i].next]
                           ELSE @[i]],
            !.first = s.last, !.last = s.first]

\* destroyList frees the items of the list, then the buffered ones.
HeapWithout(s) ==
  [i \in DOMAIN s.items \ (ToSet(Walk(s)) \cup ToSet(s.buffer)) |-> s.items[i]]

-----------------------------------------------------------------------------
Live == {l \in Lists : lists[l] # NULL}

Load(l) == lists[l] @@ [items |-> items]

\* The list becomes s; its clients expect the entries that follow.
Store(l, s, expected) ==
  /\ lists' = [lists EXCEPT ![l] = [first |-> s.first, last |-> s.last, len |-> s.len,
                                    buffer |-> s.buffer]]
  /\ items' = s.items
  /\ contents' = [contents EXCEPT ![l] = expected]

\* The entries of the elements of m in their order, under the handles of w.
Copies(w, m) == [k \in DOMAIN w |-> Entry(w[k], contents[m][k].data)]

Init ==
  /\ lists = [l \in Lists |-> NULL]
  /\ items = [i \in {} |-> Zeroed]
  /\ contents = [l \in Lists |-> NULL]

New(l) ==
  /\ lists[l] = NULL
  /\ Store(l, Empty @@ [items |-> items], <<>>)

AppendTo(l, d) ==
  LET s == Load(l)
  IN /\ Room(s, 1)
     /\ Store(l, AppendItem(s, d), Append(contents[l], Entry(NewItem(s), d)))

Insert(l, d) ==
  LET s == Load(l)
  IN /\ Room(s, 1)
     /\ Store(l, InsertItem(s, d), <<Entry(NewItem(s), d)>> \o contents[l])

InsertBefore(l, at, d) ==
  LET s == Load(l)
  IN /\ Room(s, 1)
     /\ Store(l, InsertItemBefore(s, at, d),
              PutBefore(contents[l], at, Entry(NewItem(s), d)))

InsertAfter(l, at, d) ==
  LET s == Load(l)
  IN /\ Room(s, 1)
     /\ Store(l, InsertItemAfter(s, at, d),
              PutAfter(contents[l], at, Entry(NewItem(s), d)))

MoveBeforeItem(l, i, place) ==
  /\ i # place
  /\ Store(l, MoveItemBefore(Load(l), i, place), MovedBefore(contents[l], i, place))

MoveToBegin(l, i) == Store(l, MoveItemToBegin(Load(l), i), MovedToBegin(contents[l], i))

DeleteItem(l, i) == Store(l, Delete(Load(l), i), WithoutItem(contents[l], i))

RemoveElement(l, d) == Store(l, DeleteElement(Load(l), d), WithoutFirst(contents[l], d))

RemoveAllElements(l, d) ==
  Store(l, DeleteAllElements(Load(l), d), WithoutElements(contents[l], {d}))

\* A list must not remove its own elements: its loop would read a freed item.
RemoveElements(l, m) ==
  /\ l # m
  /\ Store(l, FoldLeft(DeleteElement, Load(l), DataOf(Load(m))),
           FoldLeft(WithoutFirst, contents[l], Elements(contents[m])))

RemoveElementsContainedInTable(l, D) ==
  Store(l, DeleteContained(Load(l), D), WithoutElements(contents[l], D))

EmptyOutList(l) == Store(l, EmptyOut(Load(l)), <<>>)

DeleteClones(l) == Store(l, DeleteClonesIn(Load(l)), WithoutClones(contents[l]))

ReverseList(l) == Store(l, Reversed(Load(l)), Reverse(contents[l]))

\* A list must not be appended to itself: its loop would never end.
AppendList(l, m) ==
  LET old == Walk(Load(l))
      s   == AppendData(Load(l), DataOf(Load(m)))
  IN /\ l # m
     /\ Room(Load(l), lists[m].len)
     /\ Store(l, s, contents[l] \o Copies(SubSeq(Walk(s), Len(old) + 1, Len(Walk(s))), m))

\* The clone starts with an empty buffer.
CloneList(l, m) ==
  LET new == Empty @@ [items |-> items]
      s   == AppendData(new, DataOf(Load(l)))
  IN /\ lists[m] = NULL
     /\ Room(new, lists[l].len)
     /\ Store(m, s, Copies(Walk(s), l))

DestroyList(l) ==
  /\ lists' = [lists EXCEPT ![l] = NULL]
  /\ items' = HeapWithout(Load(l))
  /\ contents' = [contents EXCEPT ![l] = NULL]

Next ==
  \/ \E l \in Lists : New(l)
  \/ \E l \in Live :
       \/ \E d \in Data : \/ AppendTo(l, d) \/ Insert(l, d)
                          \/ RemoveElement(l, d) \/ RemoveAllElements(l, d)
       \/ \E at \in ToSet(Walk(Load(l))), d \in Data :
            InsertBefore(l, at, d) \/ InsertAfter(l, at, d)
       \/ \E i \in ToSet(Walk(Load(l))), place \in ToSet(Walk(Load(l))) :
            MoveBeforeItem(l, i, place)
       \/ \E i \in ToSet(Walk(Load(l))) : MoveToBegin(l, i) \/ DeleteItem(l, i)
       \/ \E D \in SUBSET Data : RemoveElementsContainedInTable(l, D)
       \/ \E m \in Live : RemoveElements(l, m) \/ AppendList(l, m)
       \/ \E m \in Lists : CloneList(l, m)
       \/ EmptyOutList(l)
       \/ DeleteClones(l)
       \/ ReverseList(l)
       \/ DestroyList(l)

Spec == Init /\ [][Next]_listVars

-----------------------------------------------------------------------------
(***************************************************************************)
(* The links of a list agree in both directions, with its first and last   *)
(* items and its length, and every allocated item is in exactly one place: *)
(* one list, or the buffer of one list.  A client that keeps a handle to   *)
(* an item in a list therefore never sees that item reused, and none leaks.*)
(***************************************************************************)
ListsSound ==
  /\ \A l \in Live :
       LET s == Load(l)
       IN /\ WalkBack(s) = Reverse(Walk(s))
          /\ Len(Walk(s)) = s.len
          /\ Len(s.buffer) <= BufferSize
  /\ LET owned == [l \in Live |-> Walk(Load(l)) \o lists[l].buffer]
     IN /\ DOMAIN items = UNION {ToSet(owned[l]) : l \in Live}
        /\ Cardinality(DOMAIN items) = FoldFunction(LAMBDA o, n : Len(o) + n, 0, owned)

(***************************************************************************)
(* Seen through first and next, every list is the sequence of entries that *)
(* EntrySequences makes of the calls: an operation does what its name and  *)
(* arguments say, wherever in the list they point, and nothing to another  *)
(* list.  The questions about lists are answered for those sequences; that *)
(* two lists contain the same elements, only if they have no clones.       *)
(***************************************************************************)
ListsAreSequences ==
  /\ \A l \in Lists :
       contents[l] = IF lists[l] = NULL THEN NULL
                     ELSE LET w == Walk(Load(l))
                          IN [k \in DOMAIN w |-> Entry(w[k], items[w[k]].data)]
  /\ \A l, m \in Live :
       LET s == Load(l)
           t == Load(m)
           there == Elements(contents[l])
           other == Elements(contents[m])
       IN /\ \A n \in 0 .. Len(there) :
               ElementAt(s, n) = IF n = Len(there) THEN NULL ELSE contents[l][n + 1].item
          /\ \A d \in Data :
               /\ PositionNumber(s, d) + 1 = FirstWith(contents[l], d)
               /\ EqualsInstancesNumber(s, d) = Cardinality({k \in DOMAIN there : there[k] = d})
          /\ ShareSomeElements(s, t) <=> ToSet(there) \cap ToSet(other) # {}
          /\ ToSet(SharedElements(s, t)) = ToSet(there) \cap ToSet(other)
          /\ IsInjective(there) /\ IsInjective(other) =>
               (ContainsTheSameElements(s, t) <=> ToSet(there) = ToSet(other))
=============================================================================
