------------------------------- MODULE XanStack -------------------------------
(***************************************************************************)
(* The stacks of xanlib (xanstack.c), on which the loop tracer keeps what  *)
(* is running: a list (XanList) that is only changed at its first item.    *)
(* A clone makes a list of its own, destroys it and takes a clone of the   *)
(* other's instead; it and the destruction are those of the lists.         *)
(***************************************************************************)
EXTENDS XanList

PushItem(s, d) == InsertItem(s, d)

PopItem(s) == IF s.len > 0 THEN Delete(s, s.first) ELSE s

\* Reading the top of an empty stack aborts.
Top(s) == s.items[s.first].data

GetSize(s) == s.len

StackContains(s, d) == Find(s, d) # NULL

Push(l, d) == Insert(l, d)

Pop(l) ==
  Store(l, PopItem(Load(l)), IF contents[l] = <<>> THEN <<>> ELSE Tail(contents[l]))

StackNext ==
  \/ Next
  \/ \E l \in Live : Pop(l) \/ \E d \in Data : Push(l, d)

-----------------------------------------------------------------------------
(***************************************************************************)
(* A stack shows and gives back what was pushed last, whatever its list    *)
(* went through before and whichever item it reuses, and is then as it was.*)
(***************************************************************************)
LastPushedFirst ==
  \A l \in Live, d \in Data :
    LET s == Load(l)
        pushed == PushItem(s, d)
    IN /\ \A e \in Data : StackContains(s, e) <=> Contains(Elements(contents[l]), e)
       /\ contents[l] # <<>> => Top(s) = Head(contents[l]).data
       /\ Room(s, 1) =>
            /\ Top(pushed) = d /\ GetSize(pushed) = Len(contents[l]) + 1
            /\ Walk(PopItem(pushed)) = Walk(s) /\ WalkBack(PopItem(pushed)) = WalkBack(s)
===============================================================================
