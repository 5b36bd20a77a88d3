----------------------------- MODULE IntervalTree -----------------------------
(***************************************************************************)
(* The interval tree in which the dependence analysis looks up the writes  *)
(* that may clash with a pattern (intervaltree/IntervalTree.h): how it is  *)
(* built from the patterns' extents, and the iterator with which the       *)
(* analysis fetches one overlap after the other and may stop at any.       *)
(*                                                                         *)
(* A node is addressed by its path from the root, its parent by all but    *)
(* the last step of that path.  Trees are not copied here: the copy        *)
(* constructor and the assignment, which the program does not call, leave  *)
(* the parent of the copied root unset.                                    *)
(***************************************************************************)
EXTENDS Naturals, Sequences, SequencesExt, FiniteSetsExt

CONSTANTS
  Coordinates,           (* the addresses                                  *)
  MaxIntervals,          (* bound: the intervals in a tree                 *)
  Depth,                 (* 16 in the code: the levels of a tree           *)
  MinBucket, MaxBucket   (* 64, 512: fewer intervals than both are a leaf  *)

VARIABLES
  intervals,  \* what the tree is built from: buildIntervalTree's vector
  tree,       \* the nodes: intervals, center, maxstop
  query,      \* start and stop of the lookup
  cursor,     \* OverlapIterator: the node, and the index into its intervals
  found       \* the intervals the iterator has pointed to

treeVars == <<intervals, tree, query, cursor, found>>

Extents == {e \in [start : Coordinates, stop : Coordinates] : e.start <= e.stop}

-----------------------------------------------------------------------------
Root == <<>>
Left(n) == Append(n, "left")
Right(n) == Append(n, "right")
Paths == UNION {[1 .. k -> {"left", "right"}] : k \in 0 .. Depth - 1}

IsLeaf(n, ivals) ==
  \/ Len(n) + 1 = Depth
  \/ Len(ivals) < MinBucket /\ Len(ivals) < MaxBucket

Center(ivals) == ivals[Len(ivals) \div 2 + 1].start

\* What a node that is given ivals keeps, or hands to its left or right child.
Part(n, ivals, side) ==
  LET SideOf(i) == IF i.stop < Center(ivals) THEN "left"
                   ELSE IF i.start > Center(ivals) THEN "right" ELSE "here"
  IN IF IsLeaf(n, ivals) THEN IF side = "here" THEN ivals ELSE <<>>
     ELSE SelectSeq(ivals, LAMBDA i : SideOf(i) = side)

Given(ivals) ==
  LET given[n \in Paths] ==
        IF n = Root THEN SortSeq(ivals, LAMBDA a, b : a.start < b.start)
                    ELSE Part(Front(n), given[Front(n)], Last(n))
  IN given

MaxStop(ivals) == Max({0} \cup {i.stop : i \in Range(ivals)})

\* A leaf's center is never read.  Children are only made to hold something.
Built(ivals) ==
  LET given == Given(ivals)
      Kept(n) == Part(n, given[n], "here")
  IN [n \in {p \in Paths : p = Root \/ given[p] # <<>>} |->
        [intervals |-> Kept(n),
         center    |-> IF IsLeaf(n, given[n]) THEN 0 ELSE Center(given[n]),
         maxstop   |-> MaxStop(Kept(n))]]

-----------------------------------------------------------------------------
Nodes == DOMAIN tree

Overlaps(q, i) == i.stop >= q.start /\ i.start <= q.stop
Within(q, i) == i.start >= q.start /\ i.stop <= q.stop

GoesLeft(q, n) == Left(n) \in Nodes /\ q.start <= tree[n].center
GoesRight(q, n) == Right(n) \in Nodes /\ q.stop >= tree[n].center
StartsAfter(q, n) == tree[n].intervals = <<>> \/ q.stop < tree[n].intervals[1].start

\* The intervals that the recursive lookups test, in their order.
Tested(q) ==
  LET tested[n \in Nodes] ==
        (IF StartsAfter(q, n) THEN <<>> ELSE tree[n].intervals)
          \o (IF GoesLeft(q, n) THEN tested[Left(n)] ELSE <<>>)
          \o (IF GoesRight(q, n) THEN tested[Right(n)] ELSE <<>>)
  IN tested[Root]

FindOverlapping(q) == SelectSeq(Tested(q), LAMBDA i : Overlaps(q, i))
FindContained(q) == SelectSeq(Tested(q), LAMBDA i : Within(q, i))

End == [node |-> <<"end">>, index |-> 0]

\* Mutant: it only looks for the sibling of n itself.
Climb_OneLevel(q, n) ==
  IF n # Root /\ Last(n) = "left" /\ GoesRight(q, Front(n))
    THEN [node |-> Right(Front(n)), index |-> 1] ELSE End

\* Up from n, to the first right sibling that may overlap.
Climb(q, n) ==
  LET climb[m \in Nodes] ==
        IF m = Root THEN End
        ELSE IF Last(m) = "left" /\ GoesRight(q, Front(m))
          THEN [node |-> Right(Front(m)), index |-> 1]
          ELSE climb[Front(m)]
  IN climb[n]

\* Where the search goes on when it is done with the intervals of n.
After(q, n) ==
  IF GoesLeft(q, n) THEN [node |-> Left(n), index |-> 1]
  ELSE IF GoesRight(q, n) THEN [node |-> Right(n), index |-> 1]
  ELSE Climb(q, n)

\* The first overlap in n at or after the index, 0 if there is none.
InNode(q, n, index) ==
  LET hits == {k \in index .. Len(tree[n].intervals) : Overlaps(q, tree[n].intervals[k])}
  IN IF StartsAfter(q, n) \/ q.start > tree[n].maxstop \/ hits = {} THEN 0 ELSE Min(hits)

\* The iterator visits nodes in the order of their paths, each at most once.
Seek(q, n, index) ==
  LET seek[m \in Nodes] ==
        LET k == InNode(q, m, IF m = n THEN index ELSE 1)
            next == After(q, m)
        IN IF k # 0 THEN [node |-> m, index |-> k]
           ELSE IF next = End THEN End ELSE seek[next.node]
  IN seek[n]

Begin(q) == Seek(q, Root, 1)
Following(q, oiter) == Seek(q, oiter.node, oiter.index + 1)

-----------------------------------------------------------------------------
Idle == [node |-> <<"idle">>, index |-> 0]

\* Bound: the vector comes with the largest starts first, so that all of it is sorted.
Init ==
  /\ \E k \in 0 .. MaxIntervals : \E extents \in [1 .. k -> Extents] :
       /\ \A n \in 1 .. k - 1 : extents[n].start >= extents[n + 1].start
       /\ intervals = [n \in 1 .. k |-> [start |-> extents[n].start,
                                         stop |-> extents[n].stop, value |-> n]]
  /\ tree = Built(intervals)
  /\ query \in Extents
  /\ cursor = Idle
  /\ found = <<>>

PointTo(oiter) ==
  /\ cursor' = oiter
  /\ found' = IF oiter = End THEN found
              ELSE Append(found, tree[oiter.node].intervals[oiter.index])
  /\ UNCHANGED <<intervals, tree, query>>

OverlapIteratorBegin == cursor = Idle /\ PointTo(Begin(query))

OverlapIteratorNext ==
  cursor \notin {Idle, End} /\ PointTo(Following(query, cursor))

Next == OverlapIteratorBegin \/ OverlapIteratorNext

Spec == Init /\ [][Next]_treeVars

-----------------------------------------------------------------------------
ExactlyThose(results, S) == Len(results) = Cardinality(S) /\ Range(results) = S

(***************************************************************************)
(* However the intervals fall around the centers, and whichever subtrees   *)
(* a lookup skips, it finds each interval that overlaps the query, and     *)
(* each that lies in it, exactly once; the iterator, which finds its way   *)
(* through the tree without a stack, goes through the same intervals in    *)
(* the same order as the recursive lookup and ends after the last.         *)
(***************************************************************************)
LookupsExact ==
  /\ ExactlyThose(FindOverlapping(query), {i \in Range(intervals) : Overlaps(query, i)})
  /\ ExactlyThose(FindContained(query), {i \in Range(intervals) : Within(query, i)})
  /\ IsPrefix(found, FindOverlapping(query))
  /\ cursor = End => found = FindOverlapping(query)
=============================================================================
