---------------------------- MODULE EntrySequences ----------------------------
(***************************************************************************)
(* What the operations of a list promise to its clients, for a list that   *)
(* is a sequence of entries: an entry is the handle of an item and the     *)
(* element it holds.  A handle keeps its entry, at its place among the     *)
(* others, until that entry is removed.                                    *)
(***************************************************************************)
EXTENDS Naturals, SequencesExt

Entry(i, d) == [item |-> i, data |-> d]

Position(entries, i) == SelectInSeq(entries, LAMBDA e : e.item = i)
FirstWith(entries, d) == SelectInSeq(entries, LAMBDA e : e.data = d)
Elements(entries) == [k \in DOMAIN entries |-> entries[k].data]

PutBefore(entries, at, e) == InsertAt(entries, Position(entries, at), e)
PutAfter(entries, at, e) == InsertAt(entries, Position(entries, at) + 1, e)

WithoutItem(entries, i) == RemoveAt(entries, Position(entries, i))

MovedBefore(entries, i, place) ==
  PutBefore(WithoutItem(entries, i), place, entries[Position(entries, i)])

MovedToBegin(entries, i) ==
  <<entries[Position(entries, i)]>> \o WithoutItem(entries, i)

\* Without the first entry that holds d, if there is one.
WithoutFirst(entries, d) ==
  LET k == FirstWith(entries, d)
  IN IF k = 0 THEN entries ELSE RemoveAt(entries, k)

WithoutElements(entries, D) == SelectSeq(entries, LAMBDA e : e.data \notin D)

\* Only the first of the entries that hold the same element.
WithoutClones(entries) ==
  FoldLeft(LAMBDA kept, e : IF FirstWith(kept, e.data) = 0 THEN Append(kept, e) ELSE kept,
           <<>>, entries)
==============================================================================
