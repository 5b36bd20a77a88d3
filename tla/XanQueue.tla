------------------------------- MODULE XanQueue -------------------------------
(***************************************************************************)
(* The priority queue of xanlib (xanqueue.c): a binary heap in an array    *)
(* of pointers to items that grows from DefaultSize; an item keeps its     *)
(* position in the array, and its address is the handle by which clients   *)
(* change its priority or remove it.                                       *)
(*                                                                         *)
(* The array is a sequence of handles, NULL where the code's is; its index *)
(* is the code's plus one, the positions are the code's.  Priorities are   *)
(* integers.  A thread that gets from an empty queue waits: see            *)
(* XanQueueSync.                                                           *)
(***************************************************************************)
EXTENDS Integers, FiniteSets, SequencesExt

CONSTANTS
  Handles,      (* the addresses of items                          *)
  Priorities,
  DefaultSize,  (* DEFAULT_HEAP_SIZE                               *)
  NULL

\* With an odd number of slots (15 in the code, and 2 * n + 1 after growing)
\* the right child that heapShiftDown looks at is in the array.
QueueAssumption ==
  /\ IsFiniteSet(Handles) /\ NULL \notin Handles
  /\ Priorities \subseteq Int
  /\ DefaultSize \in Nat /\ DefaultSize % 2 = 1

VARIABLES
  queue,   \* XanQueue: items (maxSize is its length), size
  handle,  \* XanQueueItem: priority and position, for the allocated handles
  wanted   \* history: the priority that each item in the queue should have

queueVars == <<queue, handle, wanted>>

-----------------------------------------------------------------------------
(* Operations on q, the queue with its items: a record with the fields of  *)
(* `queue' and `handle'.                                                   *)

\* f with x for h.
With(f, h, x) == [i \in DOMAIN f \cup {h} |-> IF i = h THEN x ELSE f[i]]

At(q, p) == q.items[p + 1]
PriorityAt(q, p) == q.handle[At(q, p)].priority

IsLeaf(q, p) == p >= q.size \div 2

\* Mutant: only the first item learns its new position.
Swap_OnePosition(q, p1, p2) ==
  [q EXCEPT !.items[p1 + 1] = At(q, p2), !.items[p2 + 1] = At(q, p1),
            !.handle[At(q, p1)].position = p2]

Swap(q, p1, p2) ==
  [items  |-> [q.items EXCEPT ![p1 + 1] = At(q, p2), ![p2 + 1] = At(q, p1)],
   size   |-> q.size,
   handle |-> [q.handle EXCEPT ![At(q, p1)].position = p2, ![At(q, p2)].position = p1]]

LargestChild(q, p) ==
  LET left  == 2 * p + 1
      right == 2 * p + 2
  IN IF At(q, left) = NULL THEN right
     ELSE IF At(q, right) = NULL THEN left
     ELSE IF PriorityAt(q, left) >= PriorityAt(q, right) THEN left ELSE right

(***************************************************************************)
(* Both loops, a turn at a time.  An item moves at most once per level:    *)
(* the number of handles bounds the turns.                                 *)
(***************************************************************************)
Sink(s) ==
  IF s.done \/ IsLeaf(s.q, s.p) THEN s
  ELSE LET largest == LargestChild(s.q, s.p)
       IN IF PriorityAt(s.q, largest) <= PriorityAt(s.q, s.p)
            THEN [q |-> s.q, p |-> s.p, done |-> TRUE]
            ELSE [q |-> Swap(s.q, s.p, largest), p |-> largest, done |-> FALSE]

Rise(s) ==
  IF s.done \/ s.p = 0 THEN s
  ELSE LET parent == (s.p - 1) \div 2
       IN IF PriorityAt(s.q, s.p) <= PriorityAt(s.q, parent)
            THEN [q |-> s.q, p |-> s.p, done |-> TRUE]
            ELSE [q |-> Swap(s.q, s.p, parent), p |-> parent, done |-> FALSE]

Turns == 0 .. Cardinality(Handles)

ShiftDown(q, p) ==
  LET sunk[n \in Turns] ==
        IF n = 0 THEN [q |-> q, p |-> p, done |-> FALSE] ELSE Sink(sunk[n - 1])
  IN sunk[Cardinality(Handles)]

ShiftUp(q, p) ==
  LET risen[n \in Turns] ==
        IF n = 0 THEN [q |-> q, p |-> p, done |-> FALSE] ELSE Rise(risen[n - 1])
  IN risen[Cardinality(Handles)]

\* Up, then down from where the item arrived.
Settle(q, p) == ShiftDown(ShiftUp(q, p).q, ShiftUp(q, p).p).q

\* The last item takes the place of the extracted one, which is freed.
Extract(q, p) ==
  LET last  == q.size - 1
      moved == IF p = last THEN q ELSE Swap(q, p, last)
      freed == [items  |-> [moved.items EXCEPT ![last + 1] = NULL],
                size   |-> last,
                handle |-> [h \in DOMAIN moved.handle \ {At(q, p)} |-> moved.handle[h]]]
  IN IF p = last THEN freed ELSE Settle(freed, p)

\* A full array of n slots becomes one of 2 * n + 1, the new slots NULL.
Grown(items, size) ==
  IF size = Len(items) THEN items \o [n \in 1 .. size + 1 |-> NULL] ELSE items

Put(q, h, priority) ==
  LET p == q.size
  IN Settle([items  |-> [Grown(q.items, p) EXCEPT ![p + 1] = h],
             size   |-> p + 1,
             handle |-> With(q.handle, h, [priority |-> priority, position |-> p])], p)

HeadPriority(q) == IF q.size = 0 THEN -1 ELSE PriorityAt(q, 0)

-----------------------------------------------------------------------------
Queue == [items |-> queue.items, size |-> queue.size, handle |-> handle]

Becomes(q) == queue' = [items |-> q.items, size |-> q.size] /\ handle' = q.handle

Init ==
  /\ queue = [items |-> [n \in 1 .. DefaultSize |-> NULL], size |-> 0]
  /\ handle = [h \in {} |-> NULL]
  /\ wanted = [h \in {} |-> NULL]

\* malloc returns any unused address; which one does not matter.
NewHandle == CHOOSE h \in Handles : h \notin DOMAIN handle

PutItem(priority) ==
  /\ Handles # DOMAIN handle
  /\ Becomes(Put(Queue, NewHandle, priority))
  /\ wanted' = With(wanted, NewHandle, priority)

\* The client gets the first item of the array, whatever it is.
Get ==
  /\ queue.size > 0
  /\ Becomes(Extract(Queue, 0))
  /\ wanted' = [h \in DOMAIN wanted \ {At(Queue, 0)} |-> wanted[h]]

RemoveItem(h) ==
  /\ Becomes(Extract(Queue, handle[h].position))
  /\ wanted' = [i \in DOMAIN wanted \ {h} |-> wanted[i]]

ChangeItemPriority(h, priority) ==
  /\ Becomes(Settle([Queue EXCEPT !.handle[h].priority = priority], handle[h].position))
  /\ wanted' = [wanted EXCEPT ![h] = priority]

Next ==
  \/ \E priority \in Priorities : PutItem(priority)
  \/ Get
  \/ \E h \in DOMAIN handle :
       \/ RemoveItem(h)
       \/ \E priority \in Priorities : ChangeItemPriority(h, priority)

Spec == Init /\ [][Next]_queueVars

-----------------------------------------------------------------------------
(***************************************************************************)
(* After any calls in any order the array holds exactly the items that     *)
(* were put and not taken, each where its handle says and with the         *)
(* priority it was last given, and nothing beyond them; the first has the  *)
(* highest priority, so that Get takes such an item, and the priority of   *)
(* the head is that one, or -1.                                            *)
(***************************************************************************)
HeapSound ==
  /\ DOMAIN handle = DOMAIN wanted
  /\ \A h \in DOMAIN handle :
       /\ handle[h].position < queue.size
       /\ At(Queue, handle[h].position) = h
       /\ handle[h].priority = wanted[h]
       /\ wanted[h] <= wanted[At(Queue, 0)] /\ wanted[At(Queue, 0)] = HeadPriority(Queue)
  /\ wanted = <<>> => HeadPriority(Queue) = -1
  /\ \A p \in 0 .. Len(queue.items) - 1 : At(Queue, p) = NULL <=> p >= queue.size
=============================================================================
