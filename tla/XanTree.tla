-------------------------------- MODULE XanTree --------------------------------
(***************************************************************************)
(* The trees of xanlib (xanlib.c): nodes with a datum, a parent and a list *)
(* of children; the list is a sequence here, for it is XanList's.          *)
(*                                                                         *)
(* cloneTree puts the copies of a node's children into the copied node's   *)
(* list without telling them their parent.  addChildren only asks a node   *)
(* for its parent, so that such a copy stays in that list when it is added *)
(* to another node; it may be in two lists, or in one list twice.          *)
(*                                                                         *)
(* What is required of a client: it puts no node below itself, it does not *)
(* destroy or clone a tree with a list that has a child twice, over which  *)
(* no walk ends, and it destroys a tree only if each of its nodes is in    *)
(* one list, and the root in none, for destroyTree frees a node as often   *)
(* as it comes to it and takes it out of no other list.                    *)
(*                                                                         *)
(* Nodes come from malloc, which returns any unused address; which one     *)
(* does not matter, so that it is a CHOOSE.  There is no clone function.   *)
(***************************************************************************)
EXTENDS Naturals, FiniteSets, SequencesExt, Functions

CONSTANTS
  Addresses,   (* where nodes may be: numbers *)
  Values,      (* the data           *)
  MaxNodes,    (* bound: the nodes that are allocated at a time *)
  NULL

VARIABLES
  node,   \* XanNode: data, parent, childrens, for the allocated nodes
  stale   \* history, for each node: whose list has it besides its parent's

treeVars == <<node, stale>>

-----------------------------------------------------------------------------
(* Operations on t, the allocated nodes.                                   *)

Free(t) == Addresses \ DOMAIN t

\* The k-th address that malloc returns.
Fresh(t, k) == CHOOSE a \in Free(t) : Cardinality({b \in Free(t) : b < a}) = k - 1

NewNode(v, parent) == [data |-> v, parent |-> parent, childrens |-> <<>>]

DeletedChildren(t, n, c) ==
  [t EXCEPT ![c].parent = NULL, ![n].childrens = RemoveFirst(@, c)]

\* Mutant: the old parent keeps the child.
AddedChildren_TwoParents(t, n, c) ==
  [t EXCEPT ![c].parent = n, ![n].childrens = Append(@, c)]

GetParent(t, n) == t[n].parent

AddedChildren(t, n, c) ==
  LET freed == IF GetParent(t, c) = NULL THEN t ELSE DeletedChildren(t, GetParent(t, c), c)
  IN [freed EXCEPT ![c].parent = n, ![n].childrens = Append(@, c)]

AddedNewChildren(t, n, v) ==
  LET c == Fresh(t, 1)
  IN [t EXCEPT ![n].childrens = Append(@, c)] @@ (c :> NewNode(v, n))

\* The child of n after c, or the first one, which is the one after NULL.
GetNextChildren(t, n, c) ==
  LET childrens == t[n].childrens
      place == IF c = NULL THEN 1 ELSE SelectInSeq(childrens, LAMBDA d : d = c) + 1
  IN IF place > Len(childrens) THEN NULL ELSE childrens[place]

\* A client's walk over the children of n, one call after the other.
Stepped(t, n) ==
  FoldLeft(LAMBDA w, k : IF w.at = NULL THEN w
                         ELSE [at |-> GetNextChildren(t, n, w.at), met |-> Append(w.met, w.at)],
           [at |-> GetNextChildren(t, n, NULL), met |-> <<>>],
           [k \in 1 .. Cardinality(DOMAIN t) |-> k])

\* The nodes of the tree rooted at n, each before its children ...
PreOrder(t, n) ==
  LET order[m \in DOMAIN t] ==
        <<m>> \o FlattenSeq([k \in DOMAIN t[m].childrens |-> order[t[m].childrens[k]]])
  IN order[n]

\* ... after them ...
PostOrder(t, n) ==
  LET order[m \in DOMAIN t] ==
        FlattenSeq([k \in DOMAIN t[m].childrens |-> order[t[m].childrens[k]]]) \o <<m>>
  IN order[n]

\* ... or after the first.  The other children are listed in pre-order.
InOrder(t, n) ==
  LET order[m \in DOMAIN t] ==
        LET c == t[m].childrens
        IN IF c = <<>> THEN <<m>>
           ELSE order[Head(c)] \o <<m>>
                  \o FlattenSeq([k \in DOMAIN Tail(c) |-> PreOrder(t, Tail(c)[k])])
  IN order[n]

DataOf(t, order) == [k \in DOMAIN order |-> t[order[k]].data]

FindNode(t, n, v) ==
  LET k == SelectInSeq(PreOrder(t, n), LAMBDA m : t[m].data = v)
  IN IF k = 0 THEN NULL ELSE PreOrder(t, n)[k]

GetDepth(t, n) ==
  LET depth[m \in DOMAIN t] ==
        FoldLeft(LAMBDA d, c : IF depth[c] + 1 > d THEN depth[c] + 1 ELSE d,
                 1, t[m].childrens)
  IN depth[n]

\* The copies are allocated in pre-order, one for each time that the walk
\* comes to a node, and inserted at the front of their list, one after the
\* other: it has them in reverse order.
ClonedTree(t, n) ==
  LET met == PreOrder(t, n)
      copies == [k \in DOMAIN met |-> Fresh(t, k)]
      place(k, j) == LET before == SubSeq(t[met[k]].childrens, 1, j - 1)
                     IN k + 1 + Len(FlattenSeq([i \in DOMAIN before |-> PreOrder(t, before[i])]))
  IN t @@ [c \in Range(copies) |->
             LET k == CHOOSE k \in DOMAIN met : copies[k] = c
             IN [data |-> t[met[k]].data, parent |-> NULL,
                 childrens |-> Reverse([j \in DOMAIN t[met[k]].childrens |-> copies[place(k, j)]])]]

Destroyed(t, n) == Restrict(t, DOMAIN t \ Range(PreOrder(t, n)))

-----------------------------------------------------------------------------
Nodes == DOMAIN node
Below(n) == Range(PreOrder(node, n))

\* Where a node is in a list.
Places(c) ==
  UNION {{n} \X {k \in DOMAIN node[n].childrens : node[n].childrens[k] = c} : n \in Nodes}

\* A walk over the tree ends.
Walkable(n) == \A m \in Below(n) : IsInjective(node[m].childrens)

Init == node = <<>> /\ stale = <<>>

\* xanNode_new, and setData.
New(v) ==
  /\ Cardinality(Nodes) < MaxNodes
  /\ node' = node @@ (Fresh(node, 1) :> NewNode(v, NULL))
  /\ stale' = stale @@ (Fresh(node, 1) :> NULL)

AddNewChildren(n, v) ==
  /\ Cardinality(Nodes) < MaxNodes
  /\ node' = AddedNewChildren(node, n, v)
  /\ stale' = stale @@ (Fresh(node, 1) :> NULL)

AddChildren(n, c) ==
  /\ n \notin Below(c)
  /\ node' = AddedChildren(node, n, c)
  /\ UNCHANGED stale

\* The child forgets its parent, also where that is another node.
DeleteChildren(n, c) ==
  /\ Contains(node[n].childrens, c)
  /\ node' = DeletedChildren(node, n, c)
  /\ stale' = [stale EXCEPT ![c] = IF @ = n THEN GetParent(node, c) ELSE @]

\* A client may name a node that has the child in its list.
SetParent(c, n) ==
  /\ n # NULL /\ stale[c] = n
  /\ node' = [node EXCEPT ![c].parent = n]
  /\ stale' = [stale EXCEPT ![c] = GetParent(node, c)]

CloneTree(n) ==
  /\ Walkable(n) /\ Cardinality(Nodes) + Len(PreOrder(node, n)) <= MaxNodes
  /\ node' = ClonedTree(node, n)
  /\ stale' = stale @@ [c \in DOMAIN node' \ Nodes |->
       IF c = Fresh(node, 1) THEN NULL
       ELSE CHOOSE m \in DOMAIN node' : Contains(node'[m].childrens, c)]

\* With or without the data; a leaf may also be destroyed as a node.
DestroyTree(n) ==
  /\ \A m \in Below(n) : Cardinality(Places(m)) = IF m = n THEN 0 ELSE 1
  /\ node' = Destroyed(node, n)
  /\ stale' = Restrict(stale, Nodes \ Below(n))

Next ==
  \/ \E v \in Values : New(v)
  \/ \E n \in Nodes :
       \/ \E v \in Values : AddNewChildren(n, v)
       \/ \E c \in Nodes : AddChildren(n, c) \/ DeleteChildren(n, c) \/ SetParent(c, n)
       \/ CloneTree(n) \/ DestroyTree(n)

Spec == Init /\ [][Next]_treeVars

-----------------------------------------------------------------------------
\* The nodes that are k - 1 steps below n, by any way.
Generation(n, k) ==
  LET generation[i \in 1 .. k] ==
        IF i = 1 THEN {n} ELSE UNION {Range(node[m].childrens) : m \in generation[i - 1]}
  IN generation[k]

(***************************************************************************)
(* Through any moves, clonings and destructions a node is in the list of   *)
(* the parent that it names, once, so that addChildren finds it there, and *)
(* in one list more at most, if it comes from a clone; no list has a node  *)
(* that was destroyed.  Asking for the next child meets each child once,   *)
(* and ends, unless a child is in the list twice.  The three listings of a *)
(* tree have the same nodes equally often, and each once where no node is  *)
(* in two lists; its depth is that of its lowest node, and a clone is its  *)
(* mirror image (xanlib.c, the functions of a node).                       *)
(***************************************************************************)
TreesSound ==
  /\ \A n \in Nodes :
       /\ Range(node[n].childrens) \subseteq Nodes
       /\ \A c \in Nodes :
            Cardinality({k \in DOMAIN node[n].childrens : node[n].childrens[k] = c})
              = (IF GetParent(node, c) = n THEN 1 ELSE 0) + (IF stale[c] = n THEN 1 ELSE 0)
       /\ IF IsInjective(node[n].childrens)
            THEN Stepped(node, n) = [at |-> NULL, met |-> node[n].childrens]
            ELSE Stepped(node, n).at # NULL
  /\ \A n \in {m \in Nodes : Places(m) = {} /\ Walkable(m)} :
       LET met == PreOrder(node, n)
           clone == ClonedTree(node, n)
           times(order) == [m \in Below(n) |-> Cardinality({k \in DOMAIN order : order[k] = m})]
       IN /\ times(PostOrder(node, n)) = times(met) /\ times(InOrder(node, n)) = times(met)
          /\ (\A m \in Below(n) : Cardinality(Places(m)) <= 1) => IsInjective(met)
          /\ Generation(n, GetDepth(node, n)) # {} /\ Generation(n, GetDepth(node, n) + 1) = {}
          /\ Len(met) <= Cardinality(Free(node)) =>
               DataOf(clone, PreOrder(clone, Fresh(node, 1)))
                 = Reverse(DataOf(node, PostOrder(node, n)))
          /\ \A v \in Values :
               FindNode(node, n, v) = NULL <=> \A m \in Below(n) : node[m].data # v

(***************************************************************************)
(* What addChildren means to do when it sees to "the old parent of the     *)
(* child" (xanlib.c:609): a node is a child of one node at a time.  A      *)
(* child of a clone has a parent of which it does not know, and stays in   *)
(* its list when it is added to another node.                              *)
(***************************************************************************)
InOneList == \A c \in Nodes : Cardinality(Places(c)) <= 1
=============================================================================
