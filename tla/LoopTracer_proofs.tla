--------------------------- MODULE LoopTracer_proofs ---------------------------
(***************************************************************************)
(* That every invocation is in one group of each trace, and that the loop  *)
(* trace can be read to its end, for any program that uses the loop tracer *)
(* as LoopTracer says, and any dumps.                                      *)
(*                                                                         *)
(* The proof follows the groups through Share, the one operator that all   *)
(* recording is made of, then the globals through what a dump does, and    *)
(* then the callbacks one by one.  What is in a group, the body, does not  *)
(* matter to it: which groups are found alike is left open.                *)
(*                                                                         *)
(* What was written can be read because it fits what is held: nothing is   *)
(* open in the file, or what is written next begins with the rest of it.   *)
(***************************************************************************)
EXTENDS LoopTraceStreamer, SequenceTheorems, FiniteSetTheorems, WellFoundedInduction, TLAPS

-----------------------------------------------------------------------------
(* Groups                                                                  *)

IsGroup(x) ==
  /\ x = [sharers |-> x.sharers, body |-> x.body, partiallyDumped |-> x.partiallyDumped]
  /\ x.partiallyDumped \in BOOLEAN

IsGroups(groups) ==
  /\ \E S : groups.items \in Seq(S)
  /\ \A i \in DOMAIN groups.items : IsGroup(groups.items[i])
  /\ groups.recent \in Seq(DOMAIN groups.items)
  /\ Len(groups.recent) <= MaxRecent

First(m, S) == m \in S /\ \A x \in S : m <= x

(***************************************************************************)
(* The groups divide the numbers from a to n - 1 among them, in the order  *)
(* of the first number of each.                                            *)
(***************************************************************************)
Divide(groups, a, n) ==
  /\ \A i \in DOMAIN groups.items :
       /\ groups.items[i].sharers \subseteq a .. n - 1
       /\ \E m : First(m, groups.items[i].sharers)
  /\ \A x \in a .. n - 1 : \E i \in DOMAIN groups.items : x \in groups.items[i].sharers
  /\ \A i, j \in DOMAIN groups.items : i < j =>
       /\ \A m, k : First(m, groups.items[i].sharers) /\ First(k, groups.items[j].sharers)
                      => m < k
       /\ groups.items[i].sharers \cap groups.items[j].sharers = {}

LEMMA NoGroupsFacts ==
  ASSUME NEW a \in Nat
  PROVE  IsGroups(NoGroups) /\ Divide(NoGroups, a, a)
<1>1. <<>> \in Seq({})
  OBVIOUS
<1>2. NoGroups.items = <<>> /\ NoGroups.recent = <<>> /\ DOMAIN <<>> = {} /\ Len(<<>>) = 0
  BY DEF NoGroups
<1>3. IsGroups(NoGroups)
  BY <1>1, <1>2, LoopTracerAssumption DEF IsGroups
<1>4. a .. a - 1 = {}
  OBVIOUS
<1>5. QED
  BY <1>2, <1>3, <1>4 DEF Divide

\* What is new in the cache, and what moves to its front.
LEMMA MostRecentFacts ==
  ASSUME NEW S, NEW j \in S, NEW recent \in Seq(S)
  PROVE  MostRecent(j, recent) \in Seq(S) /\ Len(MostRecent(j, recent)) <= MaxRecent
<1>1. <<j>> \o recent \in Seq(S) /\ Len(<<j>> \o recent) = Len(recent) + 1
  OBVIOUS
<1> DEFINE T == {MaxRecent, Len(recent) + 1}
<1>2. MaxRecent \in Nat /\ MaxRecent >= 1 /\ Len(recent) + 1 \in Nat
  BY LoopTracerAssumption
<1>3. Min(T) \in T /\ Min(T) <= MaxRecent /\ Min(T) <= Len(recent) + 1
  <2>1. \E x \in T : \A y \in T : x <= y
    BY <1>2
  <2>2. QED
    BY <2>1 DEF Min
<1>4. Min(T) \in Nat
  BY <1>2, <1>3
<1>5. SubSeq(<<j>> \o recent, 1, Min(T)) \in Seq(S)
      /\ Len(SubSeq(<<j>> \o recent, 1, Min(T))) = Min(T)
  <2> HIDE DEF T
  <2>1. QED
    BY <1>1, <1>3, <1>4, SubSeqProperties
<1>6. QED
  BY <1>3, <1>5 DEF MostRecent

LEMMA MovedToFront ==
  ASSUME NEW S, NEW recent \in Seq(S), NEW i \in DOMAIN recent
  PROVE  /\ <<recent[i]>> \o RemoveAt(recent, i) \in Seq(S)
         /\ Len(<<recent[i]>> \o RemoveAt(recent, i)) = Len(recent)
<1>1. i \in 1 .. Len(recent) /\ Len(recent) \in Nat /\ recent[i] \in S
  OBVIOUS
<1> DEFINE front == SubSeq(recent, 1, i - 1)
           back == SubSeq(recent, i + 1, Len(recent))
<1>2. front \in Seq(S) /\ Len(front) = i - 1
  BY <1>1, SubSeqProperties
<1>3. back \in Seq(S) /\ Len(back) = Len(recent) - i
  BY <1>1, SubSeqProperties
<1>d. RemoveAt(recent, i) = front \o back
  BY DEF RemoveAt
<1> HIDE DEF front, back
<1>4. RemoveAt(recent, i) \in Seq(S) /\ Len(RemoveAt(recent, i)) = Len(recent) - 1
  BY <1>1, <1>2, <1>3, <1>d, ConcatProperties
<1>5. QED
  BY <1>1, <1>4

\* The group at place c of the cache takes n as a sharer.
SharesAt(groups, n, c) ==
  [items  |-> [groups.items EXCEPT ![groups.recent[c]].sharers = @ \cup {n}],
   recent |-> <<groups.recent[c]>> \o RemoveAt(groups.recent, c)]

\* Every non-empty set of natural numbers has a least element.
LEMMA LeastNatural ==
  ASSUME NEW T \in SUBSET Nat, T # {}
  PROVE  \E x \in T : \A y \in T : x <= y
<1> DEFINE R == OpToRel(<, Nat)
<1>1. \E x \in T : \A y \in T : ~ (<<y, x>> \in R)
  BY NatLessThanWellFounded, WFMin
<1>2. \A x, y \in Nat : y < x => <<y, x>> \in R
  BY DEF OpToRel
<1> HIDE DEF R
<1>3. PICK x \in T : \A y \in T : ~ (<<y, x>> \in R)
  BY <1>1
<1>4. ASSUME NEW y \in T PROVE x <= y
  <2>1. x \in Nat /\ y \in Nat /\ ~ (<<y, x>> \in R)
    BY <1>3
  <2>2. ~ (y < x)
    BY <2>1, <1>2
  <2>3. QED
    BY <2>1, <2>2
<1>5. QED
  BY <1>4

(***************************************************************************)
(* Share, by cases: n becomes a sharer of a group there is, or gets a new  *)
(* one at the end.                                                         *)
(***************************************************************************)
LEMMA ShareCases ==
  ASSUME NEW groups, IsGroups(groups), NEW n, NEW body, NEW attemptMatch \in BOOLEAN,
         NEW alike
  PROVE  \/ Share(groups, n, body, attemptMatch, alike)
              = NewGroup(groups, n, body, ~ attemptMatch)
         \/ \E c \in DOMAIN groups.recent :
              /\ Share(groups, n, body, attemptMatch, alike) = SharesAt(groups, n, c)
              /\ attemptMatch
              /\ ~ groups.items[groups.recent[c]].partiallyDumped
<1> DEFINE Ms == Matches(groups, alike)
<1>1. CASE attemptMatch /\ Ms # {}
  <2>1. Ms \subseteq DOMAIN groups.recent /\ DOMAIN groups.recent = 1 .. Len(groups.recent)
    BY DEF Matches, IsGroups
  <2>2. Ms \in SUBSET Nat
    BY <2>1
  <2>3. Min(Ms) \in Ms
    <3> HIDE DEF Ms
    <3>1. \E x \in Ms : \A y \in Ms : x <= y
      BY <1>1, <2>2, LeastNatural
    <3>2. QED
      BY <3>1 DEF Min
  <2>4. ~ groups.items[groups.recent[Min(Ms)]].partiallyDumped
    BY <2>3 DEF Matches
  <2>5. QED
    BY <1>1, <2>1, <2>3, <2>4 DEF Share, SharesAt
<1>2. CASE ~ (attemptMatch /\ Ms # {})
  BY <1>2 DEF Share
<1>3. QED
  BY <1>1, <1>2

LEMMA ShareIsGroups ==
  ASSUME NEW groups, IsGroups(groups), NEW n, NEW body, NEW attemptMatch \in BOOLEAN,
         NEW alike
  PROVE  IsGroups(Share(groups, n, body, attemptMatch, alike))
<1> DEFINE t == Share(groups, n, body, attemptMatch, alike)
<1>0. PICK S : groups.items \in Seq(S)
  BY DEF IsGroups
<1>1. DOMAIN groups.items = 1 .. Len(groups.items) /\ Len(groups.items) \in Nat
  BY <1>0
<1>2. CASE t = NewGroup(groups, n, body, ~ attemptMatch)
  <2> DEFINE g == Group(n, body, ~ attemptMatch)
  <2>1. t.items = Append(groups.items, g)
        /\ t.recent = MostRecent(Len(groups.items) + 1, groups.recent)
    BY <1>2 DEF NewGroup
  <2>2. IsGroup(g)
    BY DEF IsGroup, Group
  <2> HIDE DEF t, g
  <2>3. groups.items \in Seq(S \cup {g})
    BY <1>0
  <2>4. /\ t.items \in Seq(S \cup {g})
        /\ DOMAIN t.items = 1 .. Len(groups.items) + 1
        /\ \A i \in 1 .. Len(groups.items) : t.items[i] = groups.items[i]
        /\ t.items[Len(groups.items) + 1] = g
    BY <2>1, <2>3, AppendProperties
  <2>5. groups.recent \in Seq(1 .. Len(groups.items) + 1)
    <3>1. groups.recent \in Seq(1 .. Len(groups.items))
      BY <1>1 DEF IsGroups
    <3>2. 1 .. Len(groups.items) \subseteq 1 .. Len(groups.items) + 1
      BY <1>1
    <3>3. QED
      BY <3>1, <3>2
  <2>6. Len(groups.items) + 1 \in 1 .. Len(groups.items) + 1
    BY <1>1
  <2>7. t.recent \in Seq(DOMAIN t.items) /\ Len(t.recent) <= MaxRecent
    BY <2>1, <2>4, <2>5, <2>6, MostRecentFacts
  <2>8. \A i \in DOMAIN t.items : IsGroup(t.items[i])
    BY <1>1, <2>2, <2>4, SMTT(60) DEF IsGroups
  <2>9. QED
    BY <2>4, <2>7, <2>8 DEF IsGroups, t
<1>3. ASSUME NEW i \in DOMAIN groups.recent, t = SharesAt(groups, n, i)
      PROVE  IsGroups(t)
  <2> DEFINE j == groups.recent[i]
             g == [groups.items[j] EXCEPT !.sharers = @ \cup {n}]
  <2>1. j \in DOMAIN groups.items /\ groups.recent \in Seq(DOMAIN groups.items)
    BY DEF IsGroups
  <2>2. t.items = [groups.items EXCEPT ![j] = g]
        /\ t.recent = <<groups.recent[i]>> \o RemoveAt(groups.recent, i)
    BY <1>3 DEF SharesAt
  <2>m. /\ <<groups.recent[i]>> \o RemoveAt(groups.recent, i) \in Seq(DOMAIN groups.items)
        /\ Len(<<groups.recent[i]>> \o RemoveAt(groups.recent, i)) = Len(groups.recent)
    BY <2>1, MovedToFront
  <2>3. IsGroup(g)
    <3>1. \A x : IsGroup(x) => IsGroup([x EXCEPT !.sharers = @ \cup {n}])
      BY DEF IsGroup
    <3>2. QED
      BY <2>1, <3>1 DEF IsGroups
  <2> HIDE DEF t, g, j
  <2>4. DOMAIN t.items = DOMAIN groups.items /\ t.items \in Seq(S \cup {g})
    BY <1>0, <2>1, <2>2
  <2>5. t.recent \in Seq(DOMAIN t.items) /\ Len(t.recent) <= MaxRecent
    BY <2>m, <2>2, <2>4 DEF IsGroups
  <2>6. \A k \in DOMAIN t.items : IsGroup(t.items[k])
    BY <2>1, <2>2, <2>3, <2>4 DEF IsGroups
  <2>7. QED
    BY <2>4, <2>5, <2>6 DEF IsGroups, t
<1>4. QED
  BY <1>2, <1>3, ShareCases

(***************************************************************************)
(* A number above all others, given to a group, keeps the groups divided.  *)
(***************************************************************************)
LEMMA ShareDivides ==
  ASSUME NEW groups, IsGroups(groups), NEW body, NEW attemptMatch \in BOOLEAN,
         NEW alike, NEW a \in Nat, NEW n \in Nat, a <= n, Divide(groups, a, n)
  PROVE  Divide(Share(groups, n, body, attemptMatch, alike), a, n + 1)
<1> DEFINE t == Share(groups, n, body, attemptMatch, alike)
<1>0. PICK S : groups.items \in Seq(S)
  BY DEF IsGroups
<1>1. DOMAIN groups.items = 1 .. Len(groups.items) /\ Len(groups.items) \in Nat
  BY <1>0
<1>e. a .. n + 1 - 1 = (a .. n - 1) \cup {n}
  OBVIOUS
<1>2. CASE t = NewGroup(groups, n, body, ~ attemptMatch)
  <2> DEFINE g == Group(n, body, ~ attemptMatch)
             l == Len(groups.items)
  <2>1. t.items = Append(groups.items, g)
    BY <1>2 DEF NewGroup
  <2>2. g.sharers = {n}
    BY DEF Group
  <2> HIDE DEF t, g
  <2>4. /\ DOMAIN t.items = 1 .. l + 1
        /\ \A i \in 1 .. l : t.items[i] = groups.items[i]
        /\ t.items[l + 1].sharers = {n}
    <3>1. groups.items \in Seq(S \cup {g})
      BY <1>0
    <3>2. QED
      BY <2>1, <2>2, <3>1, AppendProperties
  <2> HIDE DEF l
  <2>l. l \in Nat /\ DOMAIN groups.items = 1 .. l
    BY <1>1 DEF l
  <2>5. ASSUME NEW i \in DOMAIN t.items
        PROVE  /\ t.items[i].sharers \subseteq a .. n + 1 - 1
               /\ \E m : First(m, t.items[i].sharers)
    <3>1. CASE i \in 1 .. l
      BY <2>4, <2>l, <3>1, <1>e DEF Divide
    <3>2. CASE i = l + 1
      <4>1. First(n, {n})
        BY DEF First
      <4>2. QED
        BY <4>1, <3>2, <2>4, <1>e
    <3>3. QED
      BY <3>1, <3>2, <2>4, <2>l
  <2>6. ASSUME NEW x \in a .. n + 1 - 1
        PROVE  \E i \in DOMAIN t.items : x \in t.items[i].sharers
    <3>1. CASE x = n
      <4>1. l + 1 \in DOMAIN t.items /\ x \in t.items[l + 1].sharers
        BY <3>1, <2>4, <2>l
      <4>2. QED
        BY <4>1
    <3>2. CASE x \in a .. n - 1
      <4>1. PICK i \in 1 .. l : x \in groups.items[i].sharers
        BY <3>2, <2>l DEF Divide
      <4>2. i \in DOMAIN t.items /\ x \in t.items[i].sharers
        BY <4>1, <2>4, <2>l
      <4>3. QED
        BY <4>2
    <3>3. QED
      BY <3>1, <3>2, <1>e
  <2>7. ASSUME NEW i \in DOMAIN t.items, NEW j \in DOMAIN t.items, i < j
        PROVE  /\ \A m, k : First(m, t.items[i].sharers) /\ First(k, t.items[j].sharers)
                              => m < k
               /\ t.items[i].sharers \cap t.items[j].sharers = {}
    <3>1. i \in 1 .. l /\ t.items[i] = groups.items[i]
      BY <2>4, <2>7, <2>l
    <3>2. CASE j \in 1 .. l
      BY <3>1, <3>2, <2>4, <2>7, <2>l DEF Divide
    <3>3. CASE j = l + 1
      <4>1. t.items[i].sharers \subseteq a .. n - 1
        BY <3>1, <2>l DEF Divide
      <4>2. t.items[j].sharers = {n}
        BY <3>3, <2>4
      <4>3. QED
        BY <4>1, <4>2 DEF First
    <3>4. QED
      BY <3>2, <3>3, <2>4, <2>l
  <2>8. Divide(t, a, n + 1)
    BY <2>5, <2>6, <2>7 DEF Divide
  <2>9. QED
    BY <2>8 DEF t
<1>3. ASSUME NEW c \in DOMAIN groups.recent, t = SharesAt(groups, n, c)
      PROVE  Divide(t, a, n + 1)
  <2> DEFINE h == groups.recent[c]
             g == [groups.items[h] EXCEPT !.sharers = @ \cup {n}]
             Old(i) == groups.items[i].sharers
             New(i) == t.items[i].sharers
  <2>1. h \in DOMAIN groups.items
    BY DEF IsGroups
  <2>2. t.items = [groups.items EXCEPT ![h] = g]
    BY <1>3 DEF SharesAt
  <2>3. g.sharers = groups.items[h].sharers \cup {n}
    BY <2>1 DEF IsGroups, IsGroup
  <2> HIDE DEF t, g, h
  <2>4. /\ DOMAIN t.items = DOMAIN groups.items
        /\ \A i \in DOMAIN groups.items : New(i) = IF i = h THEN Old(i) \cup {n} ELSE Old(i)
    BY <2>1, <2>2, <2>3
  <2>5. \A i \in DOMAIN groups.items : Old(i) \subseteq a .. n - 1 /\ \E m : First(m, Old(i))
    BY DEF Divide
  <2>6. ASSUME NEW i \in DOMAIN groups.items, NEW m
        PROVE  First(m, New(i)) <=> First(m, Old(i))
    <3>1. CASE i = h
      <4>1. New(i) = Old(i) \cup {n}
        BY <2>4, <3>1
      <4>2. PICK k : First(k, Old(i))
        BY <2>5
      <4>3. k \in Int /\ k < n /\ Old(i) \subseteq a .. n - 1
        BY <2>5, <4>2 DEF First
      <4>4. QED
        BY <4>1, <4>2, <4>3 DEF First
    <3>2. CASE i # h
      BY <2>4, <3>2
    <3>3. QED
      BY <3>1, <3>2
  <2>7. \A i, j \in DOMAIN groups.items : i < j => Old(i) \cap Old(j) = {}
    BY DEF Divide
  <2>8. \A i, j \in DOMAIN groups.items : i < j =>
           \A m, k : First(m, Old(i)) /\ First(k, Old(j)) => m < k
    BY DEF Divide
  <2>9. \A x \in a .. n - 1 : \E i \in DOMAIN groups.items : x \in Old(i)
    BY DEF Divide
  <2>10. n \notin a .. n - 1
    OBVIOUS
  <2> HIDE DEF Old, New
  <2>11. \A i \in DOMAIN t.items : New(i) \subseteq a .. n + 1 - 1 /\ \E m : First(m, New(i))
    BY <2>4, <2>5, <2>6, <1>e
  <2>12. ASSUME NEW x \in a .. n + 1 - 1
         PROVE  \E i \in DOMAIN t.items : x \in New(i)
    <3>1. CASE x = n
      BY <2>1, <2>4, <3>1
    <3>2. CASE x \in a .. n - 1
      BY <2>9, <2>4, <3>2
    <3>3. QED
      BY <3>1, <3>2, <1>e
  <2>13. ASSUME NEW i \in DOMAIN t.items, NEW j \in DOMAIN t.items, i < j
         PROVE  /\ \A m, k : First(m, New(i)) /\ First(k, New(j)) => m < k
                /\ New(i) \cap New(j) = {}
    <3>1. \A m, k : First(m, New(i)) /\ First(k, New(j)) => m < k
      BY <2>4, <2>6, <2>8, <2>13
    <3>2. New(i) \cap New(j) = {}
      <4>1. Old(i) \cap Old(j) = {} /\ n \notin Old(i) /\ n \notin Old(j) /\ i # j
        BY <2>4, <2>5, <2>7, <2>10, <2>13, <1>1
      <4>2. QED
        BY <4>1, <2>4
    <3>3. QED
      BY <3>1, <3>2
  <2>14. QED
    BY <2>11, <2>12, <2>13 DEF Divide, New
<1>4. QED
  BY <1>2, <1>3, ShareCases

(***************************************************************************)
(* What is recorded comes behind a group that was torn, and is in a group  *)
(* of its own when it is torn itself.                                      *)
(***************************************************************************)
Extends(old, new, n, attemptMatch) ==
  /\ new.items # <<>>
  /\ old.items # <<>> /\ old.items[1].partiallyDumped => new.items[1] = old.items[1]
  /\ ~ attemptMatch => /\ Len(new.items) = Len(old.items) + 1
                       /\ new.items[Len(new.items)].sharers = {n}
                       /\ new.items[Len(new.items)].partiallyDumped

LEMMA ShareExtends ==
  ASSUME NEW groups, IsGroups(groups), NEW n, NEW body, NEW attemptMatch \in BOOLEAN,
         NEW alike
  PROVE  Extends(groups, Share(groups, n, body, attemptMatch, alike), n, attemptMatch)
<1> DEFINE t == Share(groups, n, body, attemptMatch, alike)
           l == Len(groups.items)
<1>0. PICK S : groups.items \in Seq(S)
  BY DEF IsGroups
<1>1. l \in Nat /\ DOMAIN groups.items = 1 .. l /\ (groups.items # <<>> => l > 0)
  BY <1>0
<1>2. CASE t = NewGroup(groups, n, body, ~ attemptMatch)
  <2> DEFINE g == Group(n, body, ~ attemptMatch)
  <2>1. t.items = Append(groups.items, g)
    BY <1>2 DEF NewGroup
  <2>2. g.sharers = {n} /\ (~ attemptMatch => g.partiallyDumped)
    BY DEF Group
  <2> HIDE DEF t, g
  <2>3. /\ Len(t.items) = l + 1 /\ t.items # <<>> /\ t.items[l + 1] = g
        /\ \A i \in 1 .. l : t.items[i] = groups.items[i]
    <3>1. groups.items \in Seq(S \cup {g}) /\ g \in S \cup {g}
      BY <1>0
    <3>2. QED
      BY <2>1, <3>1
  <2> HIDE DEF l
  <2>4. groups.items # <<>> => t.items[1] = groups.items[1]
    BY <1>1, <2>3
  <2>5. Extends(groups, t, n, attemptMatch)
    BY <2>2, <2>3, <2>4 DEF Extends, l
  <2>6. QED
    BY <2>5 DEF t
<1>3. ASSUME NEW c \in DOMAIN groups.recent, t = SharesAt(groups, n, c), attemptMatch,
             ~ groups.items[groups.recent[c]].partiallyDumped
      PROVE  Extends(groups, t, n, attemptMatch)
  <2> DEFINE j == groups.recent[c]
             x == [groups.items[j] EXCEPT !.sharers = @ \cup {n}]
  <2>1. t.items = [groups.items EXCEPT ![j] = x]
    <3>1. t = SharesAt(groups, n, c)
      BY <1>3
    <3> HIDE DEF t
    <3>2. QED
      BY ONLY <3>1 DEF SharesAt
  <2>2. j \in 1 .. l
    BY <1>1 DEF IsGroups
  <2> HIDE DEF t, x
  <2>3. t.items # <<>>
    BY <1>0, <1>1, <2>1, <2>2
  <2>4. ASSUME groups.items # <<>>, groups.items[1].partiallyDumped
        PROVE  t.items[1] = groups.items[1]
    <3>1. j # 1
      BY <1>3, <2>4
    <3>2. 1 \in DOMAIN groups.items
      BY <1>1, <2>4
    <3>3. QED
      BY <2>1, <3>1, <3>2
  <2>5. QED
    BY <1>3, <2>3, <2>4 DEF Extends
<1>4. QED
  BY <1>2, <1>3, ShareCases

-----------------------------------------------------------------------------
(* Reading a file                                                          *)

\* Induction up to N, for the set of the numbers for which something holds.
LEMMA TurnInduction ==
  ASSUME NEW N \in Nat, NEW S, 0 \in S,
         \A n \in 0 .. N : n # 0 /\ n - 1 \in S => n \in S
  PROVE  0 .. N \subseteq S
<1> DEFINE Missed == (0 .. N) \ S
<1>1. SUFFICES ASSUME Missed # {} PROVE FALSE
  OBVIOUS
<1>2. PICK n \in Missed : \A m \in Missed : n <= m
  <2>1. Missed \in SUBSET Nat
    OBVIOUS
  <2>2. QED
    BY <1>1, <2>1, LeastNatural
<1>3. n \in 0 .. N /\ n \notin S /\ n # 0 /\ n - 1 \in 0 .. N
  OBVIOUS
<1>4. n - 1 \notin Missed
  BY <1>2, <1>3
<1>5. QED
  BY <1>3, <1>4

\* The states of the scanner over the first N lines of the file.
IsScan(s, file, N) ==
  s = [n \in 0 .. N |-> IF n = 0 THEN Unread ELSE Scan(s[n - 1], file[n])]

LEMMA ScanExists ==
  ASSUME NEW file, NEW N \in Nat
  PROVE  \E s : IsScan(s, file, N)
<1> DEFINE S == {n \in 0 .. N : \E s : IsScan(s, file, n)}
<1>1. 0 \in S
  <2> DEFINE s == [n \in 0 .. 0 |-> Unread]
  <2>1. s = [n \in 0 .. 0 |-> IF n = 0 THEN Unread ELSE Scan(s[n - 1], file[n])]
    OBVIOUS
  <2> HIDE DEF s
  <2>2. IsScan(s, file, 0)
    BY <2>1 DEF IsScan
  <2>3. QED
    BY <2>2
<1>2. ASSUME NEW n \in 0 .. N, n # 0, n - 1 \in S PROVE n \in S
  <2>1. PICK s : IsScan(s, file, n - 1)
    BY <1>2
  <2> DEFINE t == [m \in 0 .. n |-> IF m = n THEN Scan(s[n - 1], file[n]) ELSE s[m]]
  <2>2. ASSUME NEW m \in 0 .. n
        PROVE  t[m] = IF m = 0 THEN Unread ELSE Scan(t[m - 1], file[m])
    <3>1. CASE m = 0
      BY <1>2, <2>1, <3>1 DEF IsScan
    <3>2. CASE m = n
      <4>1. m - 1 \in 0 .. n /\ m - 1 # n
        BY <1>2, <3>2
      <4>2. t[m - 1] = s[n - 1] /\ t[m] = Scan(s[n - 1], file[n])
        BY <3>2, <4>1
      <4>3. QED
        BY <1>2, <3>2, <4>2
    <3>3. CASE m # 0 /\ m # n
      <4>1. m \in 0 .. n - 1 /\ m - 1 \in 0 .. n /\ m - 1 # n
        BY <3>3
      <4>2. s[m] = Scan(s[m - 1], file[m])
        BY <2>1, <3>3, <4>1 DEF IsScan
      <4>3. t[m] = s[m] /\ t[m - 1] = s[m - 1]
        BY <3>3, <4>1
      <4>4. QED
        BY <3>3, <4>2, <4>3
    <3>4. QED
      BY <3>1, <3>2, <3>3
  <2>3. t = [m \in 0 .. n |-> t[m]]
    OBVIOUS
  <2> HIDE DEF t
  <2>4. t = [m \in 0 .. n |-> IF m = 0 THEN Unread ELSE Scan(t[m - 1], file[m])]
    BY <2>2, <2>3
  <2>5. IsScan(t, file, n)
    BY <2>4 DEF IsScan
  <2>6. QED
    BY <2>5
<1> HIDE DEF S
<1>3. 0 .. N \subseteq S
  BY <1>1, <1>2, TurnInduction
<1>4. N \in S
  BY <1>3
<1>5. QED
  BY <1>4 DEF S

\* A file that starts with another is scanned as the other, and then further.
LEMMA ScannedSteps ==
  ASSUME NEW file, NEW longer, Len(file) \in Nat, Len(longer) \in Nat,
         Len(file) <= Len(longer),
         \A n \in 1 .. Len(file) : longer[n] = file[n]
  PROVE  \E s : /\ s[Len(file)] = Scanned(file)
                /\ \A n \in Len(file) + 1 .. Len(longer) : s[n] = Scan(s[n - 1], longer[n])
                /\ Scanned(longer) = s[Len(longer)]
<1> DEFINE s == CHOOSE s : IsScan(s, longer, Len(longer))
           t == CHOOSE t : IsScan(t, file, Len(file))
<1>1. IsScan(s, longer, Len(longer)) /\ IsScan(t, file, Len(file))
  BY ScanExists
<1>2. Scanned(longer) = s[Len(longer)] /\ Scanned(file) = t[Len(file)]
  BY DEF Scanned, IsScan
<1> HIDE DEF s, t
<1>3. \A n \in 0 .. Len(longer) : s[n] = IF n = 0 THEN Unread ELSE Scan(s[n - 1], longer[n])
  BY <1>1 DEF IsScan
<1>4. \A n \in 0 .. Len(file) : t[n] = IF n = 0 THEN Unread ELSE Scan(t[n - 1], file[n])
  BY <1>1 DEF IsScan
<1> DEFINE S == {n \in 0 .. Len(file) : s[n] = t[n]}
<1>5. 0 \in S
  BY <1>3, <1>4
<1>6. ASSUME NEW n \in 0 .. Len(file), n # 0, n - 1 \in S PROVE n \in S
  <2>1. n \in 1 .. Len(file) /\ n \in 0 .. Len(longer) /\ s[n - 1] = t[n - 1]
    BY <1>6
  <2>2. s[n] = Scan(s[n - 1], longer[n]) /\ t[n] = Scan(t[n - 1], file[n])
    BY <1>3, <1>4, <1>6, <2>1
  <2>3. QED
    BY <2>1, <2>2
<1>7. s[Len(file)] = t[Len(file)]
  <2> HIDE DEF S
  <2>1. 0 .. Len(file) \subseteq S
    BY <1>5, <1>6, TurnInduction
  <2>2. Len(file) \in S
    BY <2>1
  <2>3. QED
    BY <2>2 DEF S
<1>8. \A n \in Len(file) + 1 .. Len(longer) : s[n] = Scan(s[n - 1], longer[n])
  BY <1>3
<1>9. QED
  BY <1>2, <1>7, <1>8

\* What was read when the first N entries are joined.
IsJoining(r, entries, N) ==
  r = [n \in 0 .. N |-> IF n = 0 THEN Nothing ELSE NextEntry(r[n - 1], entries[n])]

LEMMA JoiningExists ==
  ASSUME NEW entries, NEW N \in Nat
  PROVE  \E r : IsJoining(r, entries, N)
<1> DEFINE S == {n \in 0 .. N : \E r : IsJoining(r, entries, n)}
<1>1. 0 \in S
  <2> DEFINE r == [n \in 0 .. 0 |-> Nothing]
  <2>1. r = [n \in 0 .. 0 |-> IF n = 0 THEN Nothing ELSE NextEntry(r[n - 1], entries[n])]
    OBVIOUS
  <2> HIDE DEF r
  <2>2. IsJoining(r, entries, 0)
    BY <2>1 DEF IsJoining
  <2>3. QED
    BY <2>2
<1>2. ASSUME NEW n \in 0 .. N, n # 0, n - 1 \in S PROVE n \in S
  <2>1. PICK r : IsJoining(r, entries, n - 1)
    BY <1>2
  <2> DEFINE t == [m \in 0 .. n |-> IF m = n THEN NextEntry(r[n - 1], entries[n]) ELSE r[m]]
  <2>2. ASSUME NEW m \in 0 .. n
        PROVE  t[m] = IF m = 0 THEN Nothing ELSE NextEntry(t[m - 1], entries[m])
    <3>1. CASE m = 0
      BY <1>2, <2>1, <3>1 DEF IsJoining
    <3>2. CASE m = n
      <4>1. m - 1 \in 0 .. n /\ m - 1 # n
        BY <1>2, <3>2
      <4>2. t[m - 1] = r[n - 1] /\ t[m] = NextEntry(r[n - 1], entries[n])
        BY <3>2, <4>1
      <4>3. QED
        BY <1>2, <3>2, <4>2
    <3>3. CASE m # 0 /\ m # n
      <4>1. m \in 0 .. n - 1 /\ m - 1 \in 0 .. n /\ m - 1 # n
        BY <3>3
      <4>2. r[m] = NextEntry(r[m - 1], entries[m])
        BY <2>1, <3>3, <4>1 DEF IsJoining
      <4>3. t[m] = r[m] /\ t[m - 1] = r[m - 1]
        BY <3>3, <4>1
      <4>4. QED
        BY <3>3, <4>2, <4>3
    <3>4. QED
      BY <3>1, <3>2, <3>3
  <2>3. t = [m \in 0 .. n |-> t[m]]
    OBVIOUS
  <2> HIDE DEF t
  <2>4. t = [m \in 0 .. n |-> IF m = 0 THEN Nothing ELSE NextEntry(t[m - 1], entries[m])]
    BY <2>2, <2>3
  <2>5. IsJoining(t, entries, n)
    BY <2>4 DEF IsJoining
  <2>6. QED
    BY <2>5
<1> HIDE DEF S
<1>3. 0 .. N \subseteq S
  BY <1>1, <1>2, TurnInduction
<1>4. N \in S
  BY <1>3
<1>5. QED
  BY <1>4 DEF S

\* One more entry is joined to what was read before.
LEMMA JoinedAppend ==
  ASSUME NEW S, NEW entries \in Seq(S), NEW e \in S
  PROVE  Joined(Append(entries, e)) = NextEntry(Joined(entries), e)
<1> DEFINE N == Len(entries)
           more == Append(entries, e)
           r == CHOOSE r : IsJoining(r, more, N + 1)
           t == CHOOSE t : IsJoining(t, entries, N)
<1>1. /\ N \in Nat /\ Len(more) = N + 1 /\ more[N + 1] = e
      /\ \A n \in 1 .. N : more[n] = entries[n]
  OBVIOUS
<1> HIDE DEF N, more
<1>2. IsJoining(r, more, N + 1) /\ IsJoining(t, entries, N)
  <2>1. N + 1 \in Nat
    BY <1>1
  <2>2. (\E q : IsJoining(q, more, N + 1)) /\ (\E q : IsJoining(q, entries, N))
    BY <1>1, <2>1, JoiningExists
  <2>3. QED
    BY <2>2
<1>3. Joined(more) = r[N + 1] /\ Joined(entries) = t[N]
  <2>1. Joined(entries) = t[N]
    BY DEF Joined, IsJoining, N
  <2>2. Joined(more) = (CHOOSE q : IsJoining(q, more, Len(more)))[Len(more)]
    BY DEF Joined, IsJoining
  <2>3. QED
    BY <1>1, <2>1, <2>2
<1> HIDE DEF r, t
<1>4. \A n \in 0 .. N + 1 : r[n] = IF n = 0 THEN Nothing ELSE NextEntry(r[n - 1], more[n])
  BY <1>2 DEF IsJoining
<1>5. \A n \in 0 .. N : t[n] = IF n = 0 THEN Nothing ELSE NextEntry(t[n - 1], entries[n])
  BY <1>2 DEF IsJoining
<1> DEFINE T == {n \in 0 .. N : r[n] = t[n]}
<1>6. 0 \in T
  BY <1>1, <1>4, <1>5
<1>7. ASSUME NEW n \in 0 .. N, n # 0, n - 1 \in T PROVE n \in T
  <2>1. n \in 1 .. N /\ n \in 0 .. N + 1 /\ r[n - 1] = t[n - 1]
    BY <1>1, <1>7
  <2>2. r[n] = NextEntry(r[n - 1], more[n]) /\ t[n] = NextEntry(t[n - 1], entries[n])
    BY <1>4, <1>5, <1>7, <2>1
  <2>3. more[n] = entries[n]
    BY <1>1, <2>1
  <2>4. r[n] = t[n]
    BY <2>1, <2>2, <2>3
  <2>5. QED
    BY <2>4
<1>8. r[N] = t[N]
  <2> HIDE DEF T
  <2>1. 0 .. N \subseteq T
    BY <1>1, <1>6, <1>7, TurnInduction
  <2>2. N \in T
    BY <1>1, <2>1
  <2>3. QED
    BY <2>2 DEF T
<1>9. r[N + 1] = NextEntry(r[N], e)
  <2>1. N + 1 \in 0 .. N + 1 /\ N + 1 # 0 /\ (N + 1) - 1 = N
    BY <1>1
  <2>2. r[N + 1] = NextEntry(r[(N + 1) - 1], more[N + 1])
    BY <1>4, <2>1
  <2>3. QED
    BY <1>1, <2>1, <2>2
<1>10. QED
  BY <1>3, <1>8, <1>9 DEF more

-----------------------------------------------------------------------------
(* What was read so far, and whether its last entry is still open          *)

IsEntryRead(x) ==
  /\ x = [ranges |-> x.ranges, parts |-> x.parts, complete |-> x.complete]
  /\ x.complete \in BOOLEAN

\* The entries were joined without an error, and give read.
Reads(entries, read) ==
  /\ \E S : entries \in Seq(S)
  /\ \E S : read \in Seq(S)
  /\ read # <<>> => IsEntryRead(read[Len(read)])
  /\ Joined(entries) = [status |-> "ok", read |-> read]

Closed(read) == read = <<>> \/ read[Len(read)].complete

\* The last entry holds the invocation n, and is to be continued.
Open(read, n) ==
  /\ read # <<>>
  /\ ~ read[Len(read)].complete
  /\ read[Len(read)].ranges = <<<<n, n>>>>

\* The entry e can follow: nothing is open, or e goes on with it.
Follows(read, e) == Closed(read) \/ \E n : Open(read, n) /\ e.ranges = <<<<n, n>>>>

LEMMA GoesOnWithOne ==
  ASSUME NEW n, NEW e, NEW f, e.ranges = <<<<n, n>>>>, f.ranges = <<<<n, n>>>>
  PROVE  GoesOn(e, f)
BY DEF GoesOn, LastInstance, FirstInstance, IsSingleton, Last

LEMMA MergedFields ==
  ASSUME NEW x, IsEntryRead(x), NEW e
  PROVE  Merged(x, e)
           = [ranges |-> x.ranges, parts |-> Append(x.parts, e.body), complete |-> e.complete]
<1>1. PICK r, q, c : x = [ranges |-> r, parts |-> q, complete |-> c]
  BY Zenon DEF IsEntryRead
<1>2. \A p : [x EXCEPT !.parts = p] = [ranges |-> r, parts |-> p, complete |-> c]
  BY <1>1
<1>3. \A p, b : [[ranges |-> r, parts |-> p, complete |-> c] EXCEPT !.complete = b]
                  = [ranges |-> r, parts |-> p, complete |-> b]
  OBVIOUS
<1>4. \A p, b : [x EXCEPT !.parts = p, !.complete = b]
                  = [ranges |-> r, parts |-> p, complete |-> b]
  BY <1>2, <1>3, Zenon
<1>5. x.ranges = r
  BY <1>1
<1>6. QED
  BY <1>4, <1>5, Zenon DEF Merged

LEMMA JoinsOneMore ==
  ASSUME NEW entries, NEW read, Reads(entries, read), NEW e,
         e.complete \in BOOLEAN, Follows(read, e)
  PROVE  \E more : /\ Reads(Append(entries, e), more)
                   /\ more # <<>>
                   /\ more[Len(more)].complete = e.complete
                   /\ more[Len(more)].ranges = e.ranges
<1>1. PICK S : entries \in Seq(S)
  BY DEF Reads
<1>2. PICK T : read \in Seq(T)
  BY DEF Reads
<1>3. Append(entries, e) \in Seq(S \cup {e})
      /\ Joined(Append(entries, e)) = NextEntry(Joined(entries), e)
  <2>1. entries \in Seq(S \cup {e}) /\ e \in S \cup {e}
    BY <1>1
  <2>2. QED
    BY <2>1, JoinedAppend
<1>4. Joined(entries) = [status |-> "ok", read |-> read]
  BY DEF Reads
<1>5. CASE Closed(read)
  <2> DEFINE x == [ranges |-> e.ranges, parts |-> <<e.body>>, complete |-> e.complete]
             more == Append(read, x)
  <2>1. ~ (read # <<>> /\ ~ Last(read).complete)
    BY <1>5 DEF Closed, Last
  <2>2. NextEntry(Joined(entries), e) = [status |-> "ok", read |-> more]
    <3> DEFINE r == [status |-> "ok", read |-> read]
    <3>1. r.read = read
      OBVIOUS
    <3>2. ~ (r.read # <<>> /\ ~ Last(r.read).complete)
      BY <2>1, <3>1, Zenon
    <3> HIDE DEF r
    <3>3. NextEntry(r, e) = [r EXCEPT !.read = Append(@, x)]
      BY <3>2, Zenon DEF NextEntry
    <3> HIDE DEF x
    <3>4. [r EXCEPT !.read = Append(@, x)] = [status |-> "ok", read |-> Append(read, x)]
      BY DEF r
    <3>5. QED
      BY <1>4, <3>3, <3>4 DEF r
  <2>3. IsEntryRead(x) /\ x.complete = e.complete /\ x.ranges = e.ranges
    BY DEF IsEntryRead
  <2> HIDE DEF x
  <2>4. more \in Seq(T \cup {x}) /\ more # <<>> /\ more[Len(more)] = x
    <3>1. read \in Seq(T \cup {x}) /\ x \in T \cup {x}
      BY <1>2
    <3>2. QED
      BY <3>1
  <2> HIDE DEF more
  <2>5. Reads(Append(entries, e), more)
    BY <1>3, <2>2, <2>3, <2>4 DEF Reads
  <2>6. QED
    BY <2>3, <2>4, <2>5
<1>6. CASE \E n : Open(read, n) /\ e.ranges = <<<<n, n>>>>
  <2> DEFINE l == Len(read)
             x == read[l]
             y == Merged(x, e)
             more == [read EXCEPT ![l] = y]
  <2>1. PICK n : Open(read, n) /\ e.ranges = <<<<n, n>>>>
    BY <1>6
  <2>2. /\ read # <<>> /\ ~ x.complete /\ x.ranges = <<<<n, n>>>> /\ IsEntryRead(x)
        /\ Last(read) = x
    BY <2>1 DEF Open, Reads, Last
  <2>3. GoesOn(x, e)
    BY <2>1, <2>2, GoesOnWithOne
  <2>4. NextEntry(Joined(entries), e) = [status |-> "ok", read |-> more]
    <3> DEFINE r == [status |-> "ok", read |-> read]
    <3>1. r.read = read
      OBVIOUS
    <3>2. (r.read # <<>> /\ ~ Last(r.read).complete) /\ GoesOn(Last(r.read), e)
      BY <2>2, <2>3, <3>1, Zenon
    <3> HIDE DEF r, y
    <3>3. NextEntry(r, e) = [r EXCEPT !.read[Len(r.read)] = Merged(@, e)]
      BY <3>2, Zenon DEF NextEntry
    <3>4. r.read[Len(r.read)] = x
      BY <3>1
    <3>5. NextEntry(r, e) = [r EXCEPT !.read[Len(r.read)] = y]
      BY <3>3, <3>4, Zenon DEF y
    <3>6. [r EXCEPT !.read[Len(r.read)] = y] = [status |-> "ok", read |-> more]
      BY DEF r
    <3>7. QED
      BY <1>4, <3>5, <3>6 DEF r
  <2>5. y = [ranges |-> x.ranges, parts |-> Append(x.parts, e.body), complete |-> e.complete]
    BY <2>2, MergedFields
  <2>6. IsEntryRead(y) /\ y.complete = e.complete /\ y.ranges = e.ranges
    <3> HIDE DEF x, y
    <3>1. QED
      BY <2>1, <2>2, <2>5 DEF IsEntryRead
  <2> HIDE DEF y
  <2>7. more \in Seq(T \cup {y}) /\ more # <<>> /\ more[Len(more)] = y
    <3>1. read \in Seq(T \cup {y}) /\ l \in 1 .. Len(read)
      BY <1>2, <2>2
    <3>2. QED
      BY <3>1
  <2> HIDE DEF more
  <2>8. Reads(Append(entries, e), more)
    BY <1>3, <2>4, <2>6, <2>7 DEF Reads
  <2>9. QED
    BY <2>6, <2>7, <2>8
<1>7. QED
  BY <1>5, <1>6 DEF Follows

\* The scanner before an entry, with m entries to come.
Before(m, x, entries) == [state |-> 2, remaining |-> m, entry |-> x, entries |-> entries]

IsEntry(e) == e = Entry(e.ranges, e.body)

\* The scanner behind e, one of m entries, and its marker, and what was read.
Behind(s, m, e, c) ==
  \E entries, read :
    /\ s = [state |-> IF m = 1 THEN 0 ELSE 2, remaining |-> m - 1, entry |-> e,
            entries |-> entries]
    /\ Reads(entries, read)
    /\ read # <<>>
    /\ read[Len(read)].complete <=> c
    /\ read[Len(read)].ranges = e.ranges

LEMMA ScansOneMore ==
  ASSUME NEW m \in Nat, m > 0, NEW x, NEW entries, NEW read, Reads(entries, read),
         NEW e, IsEntry(e), Follows(read, e), NEW c \in BOOLEAN
  PROVE  Behind(Scan(Scan(Before(m, x, entries), e), Marker(c)), m, e, c)
<1> DEFINE mark == Marker(c)
           s == Before(m, x, entries)
           t == [state |-> 6, remaining |-> m - 1, entry |-> e, entries |-> entries]
           f == [ranges |-> e.ranges, body |-> e.body, complete |-> mark.kind = "COMPLETE"]
           u == [state |-> IF m = 1 THEN 0 ELSE 2, remaining |-> m - 1, entry |-> e,
                 entries |-> Append(entries, f)]
<1>1. Scan(s, e) = t
  <2>1. e.kind = "entry"
    BY DEF IsEntry, Entry
  <2>2. s.state = 2 /\ s.state # 0
    BY DEF Before
  <2>3. Scan(s, e) = [s EXCEPT !.state = 6, !.remaining = @ - 1, !.entry = e]
    BY <2>1, <2>2 DEF Scan
  <2>4. QED
    BY <2>3 DEF Before
<1>2. mark.kind \in {"COMPLETE", "INCOMPLETE"} /\ (mark.kind = "COMPLETE" <=> c)
  BY DEF Marker
<1> HIDE DEF mark
<1>3. Scan(t, mark) = u
  <2>1. Scan(t, mark) = [t EXCEPT !.state = IF t.remaining > 0 THEN 2 ELSE 0,
                           !.entries = Append(@, [ranges |-> t.entry.ranges,
                                                  body |-> t.entry.body,
                                                  complete |-> mark.kind = "COMPLETE"])]
    <3>1. t.state = 6 /\ t.state # 0 /\ t.state # 2
      OBVIOUS
    <3> HIDE DEF t
    <3>2. QED
      BY <1>2, <3>1, Zenon DEF Scan
  <2>2. t.entry = e /\ t.entries = entries
    OBVIOUS
  <2>3. (IF t.remaining > 0 THEN 2 ELSE 0) = IF m = 1 THEN 0 ELSE 2
    OBVIOUS
  <2>4. Scan(t, mark) = [t EXCEPT !.state = IF m = 1 THEN 0 ELSE 2,
                                  !.entries = Append(entries, f)]
    <3> HIDE DEF t
    <3>1. QED
      BY <2>1, <2>2, <2>3, Zenon
  <2> HIDE DEF f
  <2>5. QED
    BY <2>4
<1>4. f.complete \in BOOLEAN /\ f.ranges = e.ranges /\ (f.complete <=> c)
  BY <1>2
<1> HIDE DEF f
<1>5. Follows(read, f)
  BY <1>4 DEF Follows
<1>6. PICK more : /\ Reads(Append(entries, f), more)
                  /\ more # <<>>
                  /\ more[Len(more)].complete = f.complete
                  /\ more[Len(more)].ranges = f.ranges
  BY <1>4, <1>5, JoinsOneMore
<1>7. Scan(Scan(s, e), mark) = u
  BY <1>1, <1>3
<1>8. (more[Len(more)].complete <=> c) /\ more[Len(more)].ranges = e.ranges
  BY <1>4, <1>6
<1>9. QED
  BY <1>6, <1>7, <1>8 DEF Behind, mark, s, u

\* The file is read up to its end, between two entries, and gives read.
Reached(file, read) ==
  /\ \E S : file \in Seq(S)
  /\ \E m, x, entries :
       /\ Scanned(file) = [state |-> 0, remaining |-> m, entry |-> x, entries |-> entries]
       /\ Reads(entries, read)

LEMMA NothingWritten == Reached(<<>>, <<>>) /\ Closed(<<>>)
<1> DEFINE e == <<>>
<1>1. e \in Seq({}) /\ Len(e) = 0 /\ e = <<>>
  OBVIOUS
<1> HIDE DEF e
<1>2. Scanned(e) = Unread
  <2> DEFINE s == CHOOSE s : IsScan(s, e, Len(e))
  <2>1. IsScan(s, e, Len(e))
    BY <1>1, ScanExists
  <2>2. Scanned(e) = s[Len(e)]
    BY DEF Scanned, IsScan
  <2> HIDE DEF s
  <2>3. s[0] = Unread
    BY <1>1, <2>1 DEF IsScan
  <2>4. QED
    BY <1>1, <2>2, <2>3
<1>3. Joined(e) = Nothing
  <2> DEFINE r == CHOOSE r : IsJoining(r, e, Len(e))
  <2>1. IsJoining(r, e, Len(e))
    BY <1>1, JoiningExists
  <2>2. Joined(e) = r[Len(e)]
    BY DEF Joined, IsJoining
  <2> HIDE DEF r
  <2>3. r[0] = Nothing
    BY <1>1, <2>1 DEF IsJoining
  <2>4. QED
    BY <1>1, <2>2, <2>3
<1>4. Reads(e, e)
  BY <1>1, <1>3 DEF Reads, Nothing
<1>5. Reached(e, e)
  BY <1>1, <1>2, <1>4 DEF Reached, Unread
<1>6. QED
  BY <1>1, <1>5 DEF Closed

\* What WriteTraces adds to the file when there are entries.
Written(file, entries, complete) == file \o Lines(entries) \o <<Marker(complete)>>

\* The lines of w, a file of l lines and k entries behind them.
HasLines(w, file, l, es, k, c) ==
  /\ \E U : w \in Seq(U)
  /\ Len(w) = l + 2 * k + 1
  /\ \A n \in 1 .. l : w[n] = file[n]
  /\ k > 0 => w[l + 1] = Count(k)
  /\ \A i \in 1 .. k : w[l + 2 * i] = es[i]
  /\ \A i \in 1 .. k - 1 : w[l + 2 * i + 1] = Marker(TRUE)
  /\ w[l + 2 * k + 1] = Marker(c)

LEMMA WrittenLines ==
  ASSUME NEW S, NEW file \in Seq(S), NEW T, NEW es \in Seq(T), NEW c
  PROVE  HasLines(Written(file, es, c), file, Len(file), es, Len(es), c)
<1> DEFINE w == Written(file, es, c)
           ls == Lines(es)
           l == Len(file)
           k == Len(es)
           N == 2 * k
           Kinds == {Count(k), Marker(TRUE), Marker(c)}
           U == S \cup T \cup Kinds
<1>1. k \in Nat /\ l \in Nat /\ N \in Nat
  OBVIOUS
<1>2. ls = [j \in 1 .. N |-> CASE j = 1     -> Count(k)
                              [] j % 2 = 0 -> es[j \div 2]
                              [] OTHER     -> Marker(TRUE)]
  BY DEF Lines
<1> HIDE DEF N
<1>3. \A j \in 1 .. N : j = 1 => ls[j] = Count(k)
  BY <1>2
<1>4. \A j \in 1 .. N : j # 1 /\ j % 2 = 0 => ls[j] = es[j \div 2]
  BY <1>2
<1>5. \A j \in 1 .. N : j # 1 /\ j % 2 # 0 => ls[j] = Marker(TRUE)
  BY <1>2
<1>6. \A i \in 1 .. k : /\ 2 * i \in 1 .. N /\ 2 * i # 1 /\ (2 * i) % 2 = 0
                       /\ (2 * i) \div 2 = i
  BY <1>1 DEF N
<1>7. \A i \in 1 .. k - 1 : 2 * i + 1 \in 1 .. N /\ 2 * i + 1 # 1 /\ (2 * i + 1) % 2 # 0
  BY <1>1 DEF N
<1>8. \A j \in 1 .. N : j % 2 = 0 => j \div 2 \in 1 .. k
  BY <1>1 DEF N
<1>9. ls \in Seq(U) /\ Len(ls) = N
  <2>1. \A j \in 1 .. N : ls[j] \in U
    <3>1. \A i \in 1 .. k : es[i] \in T
      OBVIOUS
    <3> HIDE DEF ls
    <3>2. QED
      BY <1>3, <1>4, <1>5, <1>8, <3>1
  <2>2. DOMAIN ls = 1 .. N /\ ls = [j \in 1 .. N |-> ls[j]]
    BY <1>2
  <2> HIDE DEF ls, U
  <2>3. ls \in [1 .. N -> U]
    BY <2>1, <2>2
  <2>4. QED
    BY <1>1, <2>3
<1> HIDE DEF ls
<1> DEFINE end == <<Marker(c)>>
<1>10. file \in Seq(U) /\ end \in Seq(U) /\ Len(end) = 1 /\ end[1] = Marker(c)
  <2>1. Marker(c) \in U /\ S \subseteq U
    OBVIOUS
  <2> HIDE DEF U
  <2>2. QED
    BY <2>1
<1>11. w = (file \o ls) \o end
  BY DEF Written, ls
<1> HIDE DEF w, U, end
<1>12. /\ file \o ls \in Seq(U) /\ Len(file \o ls) = l + N
       /\ \A n \in 1 .. l : (file \o ls)[n] = file[n]
       /\ \A j \in 1 .. N : (file \o ls)[l + j] = ls[j]
  BY <1>1, <1>9, <1>10
<1>13. /\ w \in Seq(U) /\ Len(w) = l + N + 1
       /\ \A n \in 1 .. l + N : w[n] = (file \o ls)[n]
       /\ w[l + N + 1] = Marker(c)
  <2> DEFINE all == file \o ls
  <2>1. all \in Seq(U) /\ Len(all) = l + N /\ w = all \o end
    BY <1>11, <1>12
  <2> HIDE DEF all
  <2>2. /\ w \in Seq(U) /\ Len(w) = Len(all) + 1
        /\ \A n \in 1 .. Len(all) : w[n] = all[n]
        /\ w[Len(all) + 1] = end[1]
    <3> DEFINE N1 == Len(all)
    <3>1. N1 \in Nat
      BY <2>1
    <3>2. /\ w \in Seq(U) /\ Len(w) = N1 + 1
          /\ \A n \in 1 .. N1 + 1 : w[n] = IF n <= N1 THEN all[n] ELSE end[n - N1]
      <4>1. /\ all \o end \in Seq(U) /\ Len(all \o end) = Len(all) + Len(end)
            /\ \A n \in 1 .. Len(all) + Len(end) :
                 (all \o end)[n] = IF n <= Len(all) THEN all[n] ELSE end[n - Len(all)]
        <5>1. all \in Seq(U) /\ end \in Seq(U)
          BY <1>10, <2>1
        <5> HIDE DEF N1
        <5>2. QED
          BY ONLY <5>1, ConcatProperties
      <4>2. QED
        BY <1>10, <2>1, <4>1
    <3> HIDE DEF N1
    <3>3. \A n \in 1 .. N1 : w[n] = all[n]
      BY <3>1, <3>2
    <3>4. w[N1 + 1] = end[(N1 + 1) - N1] /\ (N1 + 1) - N1 = 1
      BY <3>1, <3>2
    <3>5. QED
      BY <3>2, <3>3, <3>4 DEF N1
  <2>3. QED
    BY <1>10, <2>1, <2>2 DEF all
<1>14. \A n \in 1 .. l : w[n] = file[n]
  BY <1>1, <1>12, <1>13
<1>15. \A j \in 1 .. N : w[l + j] = ls[j]
  BY <1>1, <1>12, <1>13
<1>16. k > 0 => w[l + 1] = Count(k)
  BY <1>1, <1>3, <1>15 DEF N
<1>17. \A i \in 1 .. k : w[l + 2 * i] = es[i]
  BY <1>4, <1>6, <1>15
<1>18. \A i \in 1 .. k - 1 : w[l + 2 * i + 1] = Marker(TRUE)
  <2>1. ASSUME NEW i \in 1 .. k - 1 PROVE w[l + 2 * i + 1] = Marker(TRUE)
    <3>1. ls[2 * i + 1] = Marker(TRUE) /\ 2 * i + 1 \in 1 .. N
      BY <1>5, <1>7
    <3>2. w[l + (2 * i + 1)] = Marker(TRUE)
      BY <1>15, <3>1
    <3>3. l + (2 * i + 1) = l + 2 * i + 1
      BY <1>1
    <3>4. QED
      BY <3>2, <3>3
  <2>2. QED
    BY <2>1
<1>19. QED
  BY <1>13, <1>14, <1>16, <1>17, <1>18 DEF N, w, HasLines

(***************************************************************************)
(* Entries that can be read after what is in the file: each but the first  *)
(* comes after a complete one, and the marker behind the last one says     *)
(* whether it is open.                                                     *)
(***************************************************************************)
LEMMA WrittenIsRead ==
  ASSUME NEW file, NEW read, Reached(file, read), NEW T, NEW es \in Seq(T), es # <<>>,
         \A i \in 1 .. Len(es) : IsEntry(es[i]), Follows(read, es[1]), NEW c \in BOOLEAN
  PROVE  \E more : /\ Reached(Written(file, es, c), more)
                   /\ more # <<>>
                   /\ more[Len(more)].complete <=> c
                   /\ more[Len(more)].ranges = es[Len(es)].ranges
<1> DEFINE w == Written(file, es, c)
           l == Len(file)
           k == Len(es)
<1>1. PICK S : file \in Seq(S)
  BY DEF Reached
<1>2. /\ \E U : w \in Seq(U)
      /\ Len(w) = l + 2 * k + 1
      /\ \A n \in 1 .. l : w[n] = file[n]
      /\ k > 0 => w[l + 1] = Count(k)
      /\ \A i \in 1 .. k : w[l + 2 * i] = es[i]
      /\ \A i \in 1 .. k - 1 : w[l + 2 * i + 1] = Marker(TRUE)
      /\ w[l + 2 * k + 1] = Marker(c)
  <2>1. HasLines(w, file, l, es, k, c)
    BY <1>1, WrittenLines
  <2> HIDE DEF w, l, k
  <2>2. QED
    BY <2>1 DEF HasLines
<1>3. l \in Nat /\ k \in Nat /\ k > 0 /\ k - 1 \in Nat
  BY <1>1
<1> HIDE DEF w, l, k
<1>4. PICK s : /\ s[l] = Scanned(file)
               /\ \A n \in l + 1 .. l + 2 * k + 1 : s[n] = Scan(s[n - 1], w[n])
               /\ Scanned(w) = s[l + 2 * k + 1]
  <2>1. Len(file) \in Nat /\ Len(w) \in Nat /\ Len(file) <= Len(w)
        /\ \A n \in 1 .. Len(file) : w[n] = file[n]
    BY <1>2, <1>3 DEF l
  <2>2. \E s : /\ s[Len(file)] = Scanned(file)
               /\ \A n \in Len(file) + 1 .. Len(w) : s[n] = Scan(s[n - 1], w[n])
               /\ Scanned(w) = s[Len(w)]
    BY <2>1, ScannedSteps
  <2>3. Len(file) = l /\ Len(w) = l + 2 * k + 1
    BY <1>2 DEF l
  <2>4. \E s : /\ s[l] = Scanned(file)
               /\ \A n \in l + 1 .. l + 2 * k + 1 : s[n] = Scan(s[n - 1], w[n])
               /\ Scanned(w) = s[l + 2 * k + 1]
    BY <2>2, <2>3, Zenon
  <2>5. QED
    BY <2>4, Zenon
<1>5. PICK m, x, entries :
        /\ Scanned(file) = [state |-> 0, remaining |-> m, entry |-> x, entries |-> entries]
        /\ Reads(entries, read)
  BY DEF Reached
\* P(i): the first i entries are read, and another is to come.
<1> DEFINE P(i) == \E y, all, more :
             /\ s[l + 2 * i + 1] = Before(k - i, y, all)
             /\ Reads(all, more)
             /\ Follows(more, es[i + 1])
<1>6. P(0)
  <2>1. s[l + 1] = Before(k, x, entries)
    <3>1. l + 1 \in l + 1 .. l + 2 * k + 1 /\ (l + 1) - 1 = l
      BY <1>3
    <3>2. s[l + 1] = Scan(s[l], Count(k))
      BY <1>2, <1>3, <1>4, <3>1
    <3> DEFINE z == [state |-> 0, remaining |-> m, entry |-> x, entries |-> entries]
    <3>3. Scan(z, Count(k)) = [z EXCEPT !.state = 2, !.remaining = k]
      <4>1. z.state = 0 /\ Count(k).kind = "count" /\ Count(k).n = k
        BY DEF Count
      <4> HIDE DEF z
      <4>2. QED
        BY <4>1 DEF Scan
    <3>4. [z EXCEPT !.state = 2, !.remaining = k] = Before(k, x, entries)
      <4>1. [z EXCEPT !.state = 2]
              = [state |-> 2, remaining |-> m, entry |-> x, entries |-> entries]
        OBVIOUS
      <4>2. [[state |-> 2, remaining |-> m, entry |-> x, entries |-> entries]
              EXCEPT !.remaining = k] = Before(k, x, entries)
        BY DEF Before
      <4>3. QED
        BY <4>1, <4>2, Zenon
    <3>5. QED
      BY <1>4, <1>5, <3>2, <3>3, <3>4
  <2>2. l + 2 * 0 + 1 = l + 1 /\ k - 0 = k /\ 0 + 1 = 1
    BY <1>3
  <2>3. QED
    BY <1>5, <2>1, <2>2
\* What an entry and its marker add.
<1>7. ASSUME NEW i \in 0 .. k - 1, P(i), NEW b \in BOOLEAN, w[l + 2 * i + 3] = Marker(b)
      PROVE  Behind(s[l + 2 * i + 3], k - i, es[i + 1], b)
  <2>1. PICK y, all, more : /\ s[l + 2 * i + 1] = Before(k - i, y, all)
                            /\ Reads(all, more)
                            /\ Follows(more, es[i + 1])
    BY <1>7
  <2>2. /\ l + 2 * i + 2 \in l + 1 .. l + 2 * k + 1
        /\ l + 2 * i + 3 \in l + 1 .. l + 2 * k + 1
        /\ (l + 2 * i + 2) - 1 = l + 2 * i + 1 /\ (l + 2 * i + 3) - 1 = l + 2 * i + 2
        /\ i + 1 \in 1 .. k /\ l + 2 * (i + 1) = l + 2 * i + 2
        /\ k - i \in Nat /\ k - i > 0
    BY <1>3
  <2>3. w[l + 2 * i + 2] = es[i + 1] /\ IsEntry(es[i + 1])
    BY <1>2, <2>2 DEF k
  <2>4. /\ s[l + 2 * i + 2] = Scan(s[l + 2 * i + 1], w[l + 2 * i + 2])
        /\ s[l + 2 * i + 3] = Scan(s[l + 2 * i + 2], w[l + 2 * i + 3])
    BY <1>4, <2>2
  <2>5. s[l + 2 * i + 3] = Scan(Scan(Before(k - i, y, all), es[i + 1]), Marker(b))
    BY <1>7, <2>1, <2>3, <2>4
  <2>6. QED
    BY <2>1, <2>2, <2>3, <2>5, ScansOneMore
<1>8. ASSUME NEW i \in 1 .. k - 1, P(i - 1) PROVE P(i)
  <2>1. /\ i - 1 \in 0 .. k - 1 /\ l + 2 * (i - 1) + 3 = l + 2 * i + 1
        /\ k - (i - 1) # 1 /\ (k - (i - 1)) - 1 = k - i /\ (i - 1) + 1 = i
    BY <1>3
  <2>2. w[l + 2 * (i - 1) + 3] = Marker(TRUE)
    BY <1>2, <2>1
  <2> HIDE DEF P
  <2>3. Behind(s[l + 2 * (i - 1) + 3], k - (i - 1), es[(i - 1) + 1], TRUE)
    BY <1>7, <1>8, <2>1, <2>2
  <2>3a. PICK all, more :
          /\ s[l + 2 * i + 1]
               = [state |-> IF k - (i - 1) = 1 THEN 0 ELSE 2, remaining |-> (k - (i - 1)) - 1,
                  entry |-> es[i], entries |-> all]
          /\ Reads(all, more)
          /\ more # <<>>
          /\ more[Len(more)].complete
    BY <2>1, <2>3 DEF Behind
  <2>4. s[l + 2 * i + 1] = Before(k - i, es[i], all)
    BY <2>1, <2>3a DEF Before
  <2>5. Follows(more, es[i + 1])
    BY <2>3a DEF Follows, Closed
  <2>6. QED
    BY <2>3a, <2>4, <2>5 DEF P
<1>9. P(k - 1)
  <2> HIDE DEF P
  <2> DEFINE Q == {i \in 0 .. k - 1 : P(i)}
  <2>1. 0 \in Q
    BY <1>3, <1>6
  <2>2. ASSUME NEW i \in 0 .. k - 1, i # 0, i - 1 \in Q PROVE i \in Q
    BY <1>8, <2>2
  <2> HIDE DEF Q
  <2>3. 0 .. k - 1 \subseteq Q
    BY <1>3, <2>1, <2>2, TurnInduction
  <2>4. k - 1 \in Q
    BY <1>3, <2>3
  <2>5. QED
    BY <2>4 DEF Q
<1>10. Behind(s[l + 2 * k + 1], 1, es[k], c)
  <2> HIDE DEF P
  <2>1. /\ k - 1 \in 0 .. k - 1 /\ l + 2 * (k - 1) + 3 = l + 2 * k + 1
        /\ k - (k - 1) = 1 /\ (k - 1) + 1 = k
    BY <1>3
  <2>2. w[l + 2 * (k - 1) + 3] = Marker(c)
    BY <1>2, <2>1
  <2>3. Behind(s[l + 2 * (k - 1) + 3], k - (k - 1), es[(k - 1) + 1], c)
    BY <1>7, <1>9, <2>1, <2>2
  <2>4. QED
    BY <2>1, <2>3
<1>11. PICK all, more :
         /\ Scanned(w) = [state |-> 0, remaining |-> 1 - 1, entry |-> es[k],
                          entries |-> all]
         /\ Reads(all, more)
         /\ more # <<>>
         /\ more[Len(more)].complete <=> c
         /\ more[Len(more)].ranges = es[k].ranges
  BY <1>4, <1>10 DEF Behind
<1>12. Reached(w, more)
  BY <1>2, <1>11 DEF Reached
<1>13. QED
  BY <1>11, <1>12 DEF w, k

-----------------------------------------------------------------------------
(* Writing it                                                              *)

LEMMA RangesOfOne ==
  ASSUME NEW n \in Int
  PROVE  Ranges({n}) = <<<<n, n>>>>
<1> DEFINE S == {n}
           starts == {m \in S : m - 1 \notin S}
           start(i) == CHOOSE m \in starts : Cardinality({k \in starts : k <= m}) = i
           last(i) == Min({m \in S : m >= start(i) /\ m + 1 \notin S})
<1>1. starts = {n}
  OBVIOUS
<1>2. Cardinality({n}) = 1
  BY FS_Singleton
<1>3. start(1) = n
  <2>1. {k \in starts : k <= n} = {n}
    BY <1>1
  <2> QED
    BY <1>1, <1>2, <2>1
<1>4. last(1) = n
  <2> HIDE DEF start
  <2>1. {m \in S : m >= start(1) /\ m + 1 \notin S} = {n}
    BY <1>3
  <2>2. \A m \in {n} : m <= n
    OBVIOUS
  <2>3. Min({n}) \in {n}
    BY <2>2, Zenon DEF Min
  <2> QED
    BY <2>1, <2>3
<1>5. Ranges({n}) = [i \in 1 .. Cardinality(starts) |-> <<start(i), last(i)>>]
  BY DEF Ranges
<1> HIDE DEF start, last
<1>6. Ranges({n}) = [i \in 1 .. 1 |-> <<start(i), last(i)>>]
  BY <1>1, <1>2, <1>5
<1> QED
  BY <1>3, <1>4, <1>6

-----------------------------------------------------------------------------
(* PassGlobals                                                             *)

HasFields(g) ==
  /\ g = [stack |-> g.stack, loop |-> g.loop, call |-> g.call, trace |-> g.trace,
          callTraces |-> g.callTraces, callInfos |-> g.callInfos,
          waitingForInvocCompletion |-> g.waitingForInvocCompletion,
          traceDumpID |-> g.traceDumpID, timedOut |-> g.timedOut,
          loopFile |-> g.loopFile, callFile |-> g.callFile]
  /\ g.loop = [invocationNum |-> g.loop.invocationNum, iterationNum |-> g.loop.iterationNum,
               currCFC |-> g.loop.currCFC, iterations |-> g.loop.iterations,
               partiallyDumped |-> g.loop.partiallyDumped]
  /\ g.call = [id |-> g.call.id, invocationNum |-> g.call.invocationNum,
               currCFC |-> g.call.currCFC, partiallyDumped |-> g.call.partiallyDumped]

IsTypedTrace(t) ==
  /\ t = [numInvocations |-> t.numInvocations, groups |-> t.groups]
  /\ t.numInvocations \in Nat
  /\ IsGroups(t.groups)

IsLoop(loop) ==
  /\ loop.iterationNum \in -1 .. MaxIterations - 1
  /\ loop.currCFC \in Seq(Instrs \cup Calls)
  /\ loop.partiallyDumped \in BOOLEAN

IsCall(call) ==
  /\ call.id \in Calls \cup {0}
  /\ call.currCFC \in Seq(SubInstrs)
  /\ call.partiallyDumped \in BOOLEAN

IsCallTraces(traces) ==
  /\ traces = [c \in Calls |-> traces[c]]
  /\ \A c \in Calls : IsTypedTrace(traces[c])

Typed(g) ==
  /\ HasFields(g)
  /\ g.stack \in {<<>>, <<"loop">>, <<"loop", "call">>}
  /\ IsLoop(g.loop)
  /\ IsCall(g.call)
  /\ IsTypedTrace(g.trace)
  /\ IsCallTraces(g.callTraces)
  /\ IsGroups(g.callInfos)
  /\ g.waitingForInvocCompletion \in BOOLEAN
  /\ g.timedOut \in BOOLEAN

\* What no dump changes, and what else InvocationsGrouped is about.
Same(g, h) ==
  /\ h.stack = g.stack
  /\ h.loop.invocationNum = g.loop.invocationNum
  /\ h.trace.numInvocations = g.trace.numInvocations

\* What only a dump changes of what Readable is about.
Undumped(g, h) ==
  /\ h.loopFile = g.loopFile
  /\ h.loop.partiallyDumped = g.loop.partiallyDumped

Shares(old, new, n, attemptMatch) ==
  \E body, alike : new = Share(old, n, body, attemptMatch, alike)

LEMMA SharesExtend ==
  ASSUME NEW old, NEW new, NEW n, NEW attemptMatch \in BOOLEAN,
         Shares(old, new, n, attemptMatch), IsGroups(old)
  PROVE  Extends(old, new, n, attemptMatch)
BY ShareExtends DEF Shares

LEMMA RecordIterationFacts ==
  ASSUME NEW g, Typed(g)
  PROVE  LET loop == RecordIteration(g.loop)
         IN  /\ loop = [invocationNum |-> g.loop.invocationNum,
                        iterationNum |-> g.loop.iterationNum, currCFC |-> loop.currCFC,
                        iterations |-> loop.iterations,
                        partiallyDumped |-> g.loop.partiallyDumped]
             /\ loop.currCFC \in Seq(Instrs \cup Calls)
<1>1. CASE g.loop.iterationNum = -1
  BY <1>1 DEF RecordIteration, Typed, HasFields, IsLoop
<1>2. CASE g.loop.iterationNum # -1
  <2> DEFINE i == Share(g.loop.iterations, g.loop.iterationNum, g.loop.currCFC, TRUE,
                        Alike(g.loop.iterations, g.loop.currCFC))
             loop == RecordIteration(g.loop)
  <2>1. loop = [g.loop EXCEPT !.iterations = i, !.currCFC = <<>>]
    BY <1>2 DEF RecordIteration
  <2> HIDE DEF i, loop
  <2>2. loop = [invocationNum |-> g.loop.invocationNum,
                iterationNum |-> g.loop.iterationNum, currCFC |-> <<>>,
                iterations |-> i, partiallyDumped |-> g.loop.partiallyDumped]
    BY <2>1 DEF Typed, HasFields
  <2>3. QED
    BY <2>2 DEF loop
<1>3. QED
  BY <1>1, <1>2

LEMMA FinishLoopFacts ==
  ASSUME NEW g, Typed(g), NEW attemptMatch \in BOOLEAN
  PROVE  LET h == FinishLoop(g, attemptMatch)
         IN  /\ Typed(h) /\ Same(g, h)
             /\ Shares(g.trace.groups, h.trace.groups, g.loop.invocationNum, attemptMatch)
             /\ h.callInfos = g.callInfos
             /\ Undumped(g, h)
<1> DEFINE h == FinishLoop(g, attemptMatch)
           loop == RecordIteration(g.loop)
           s == Share(g.trace.groups, loop.invocationNum, loop.iterations.items, attemptMatch,
                      Alike(g.trace.groups, loop.iterations.items))
           last == [loop EXCEPT !.iterations = NoGroups]
<1>1. /\ loop = [invocationNum |-> g.loop.invocationNum,
                 iterationNum |-> g.loop.iterationNum, currCFC |-> loop.currCFC,
                 iterations |-> loop.iterations,
                 partiallyDumped |-> g.loop.partiallyDumped]
      /\ loop.currCFC \in Seq(Instrs \cup Calls)
  BY RecordIterationFacts
<1>2. h = [g EXCEPT !.trace.groups = s, !.loop = last]
  BY DEF FinishLoop
<1>3. IsGroups(s) /\ Shares(g.trace.groups, s, g.loop.invocationNum, attemptMatch)
  <2> HIDE DEF loop
  <2>1. IsGroups(s)
    BY ShareIsGroups DEF Typed, IsTypedTrace
  <2>2. loop.invocationNum = g.loop.invocationNum
    BY <1>1
  <2>3. QED
    BY <2>1, <2>2 DEF Shares
<1> HIDE DEF loop, s, h
<1>4. last = [invocationNum |-> g.loop.invocationNum,
              iterationNum |-> g.loop.iterationNum, currCFC |-> loop.currCFC,
              iterations |-> NoGroups, partiallyDumped |-> g.loop.partiallyDumped]
  BY <1>1
<1> HIDE DEF last
<1>5. /\ h = [stack |-> g.stack, loop |-> last, call |-> g.call,
              trace |-> [numInvocations |-> g.trace.numInvocations, groups |-> s],
              callTraces |-> g.callTraces, callInfos |-> g.callInfos,
              waitingForInvocCompletion |-> g.waitingForInvocCompletion,
              traceDumpID |-> g.traceDumpID, timedOut |-> g.timedOut,
              loopFile |-> g.loopFile, callFile |-> g.callFile]
  BY <1>2 DEF Typed, HasFields, IsTypedTrace
<1>6. HasFields(h)
  BY <1>4, <1>5 DEF HasFields, Typed
<1>7. IsLoop(h.loop)
  BY <1>1, <1>4, <1>5 DEF IsLoop, Typed
<1>8. IsTypedTrace(h.trace)
  BY <1>3, <1>5 DEF IsTypedTrace, Typed
<1>9. Typed(h)
  BY <1>5, <1>6, <1>7, <1>8 DEF Typed
<1>10. Same(g, h)
  BY <1>4, <1>5 DEF Same
<1>11. h.trace.groups = s /\ h.callInfos = g.callInfos
  BY <1>5
<1>12. Undumped(g, h)
  BY <1>4, <1>5, Zenon DEF Undumped
<1>13. QED
  BY <1>3, <1>9, <1>10, <1>11, <1>12 DEF h

LEMMA RecordCallTracesFacts ==
  ASSUME NEW g, Typed(g), NEW attemptMatch \in BOOLEAN
  PROVE  LET h == RecordCallTraces(g, attemptMatch)
         IN  /\ Typed(h) /\ Same(g, h)
             /\ Shares(g.callInfos, h.callInfos, g.loop.invocationNum, attemptMatch)
             /\ h.trace = g.trace
             /\ Undumped(g, h)
<1> DEFINE h == RecordCallTraces(g, attemptMatch)
           alike == {i \in DOMAIN g.callInfos.items :
                       SameCalls(g.callInfos.items[i].body, g.callTraces)}
           s == Share(g.callInfos, g.loop.invocationNum, g.callTraces, attemptMatch, alike)
<1>1. h = [g EXCEPT !.callInfos = s]
  BY DEF RecordCallTraces
<1> HIDE DEF alike, h
<1>2. IsGroups(s) /\ Shares(g.callInfos, s, g.loop.invocationNum, attemptMatch)
  <2>1. IsGroups(s)
    BY ShareIsGroups DEF Typed
  <2>2. QED
    BY <2>1 DEF Shares
<1> HIDE DEF s
<1>3. h = [stack |-> g.stack, loop |-> g.loop, call |-> g.call, trace |-> g.trace,
           callTraces |-> g.callTraces, callInfos |-> s,
           waitingForInvocCompletion |-> g.waitingForInvocCompletion,
           traceDumpID |-> g.traceDumpID, timedOut |-> g.timedOut,
           loopFile |-> g.loopFile, callFile |-> g.callFile]
  BY <1>1 DEF Typed, HasFields
<1>4. HasFields(h)
  BY <1>3 DEF HasFields, Typed
<1>5. Typed(h)
  BY <1>2, <1>3, <1>4 DEF Typed
<1>6. Same(g, h) /\ h.callInfos = s /\ h.trace = g.trace
  BY <1>3 DEF Same
<1>7. Undumped(g, h)
  BY <1>3 DEF Undumped
<1>8. QED
  BY <1>2, <1>5, <1>6, <1>7 DEF h

LEMMA FinishCallFacts ==
  ASSUME NEW g, Typed(g), NEW attemptMatch \in BOOLEAN
  PROVE  LET h == FinishCall(g, attemptMatch)
         IN  /\ Typed(h) /\ Same(g, h)
             /\ h.trace = g.trace /\ h.callInfos = g.callInfos
             /\ Undumped(g, h)
<1> DEFINE h == FinishCall(g, attemptMatch)
           old == g.callTraces[g.call.id].groups
           s == Share(old, g.call.invocationNum, g.call.currCFC, attemptMatch,
                      Alike(old, g.call.currCFC))
           traces == [g.callTraces EXCEPT ![g.call.id].groups = s]
           call == [g.call EXCEPT !.currCFC = <<>>]
<1>1. h = [g EXCEPT !.callTraces = traces, !.call = call]
  BY DEF FinishCall
<1>2. ASSUME g.call.id \in Calls
      PROVE  IsGroups(s)
  BY <1>2, ShareIsGroups DEF Typed, IsCallTraces, IsTypedTrace
<1> HIDE DEF h, s
<1>3. IsCallTraces(traces)
  <2>1. g.callTraces = [c \in Calls |-> g.callTraces[c]]
        /\ \A c \in Calls : IsTypedTrace(g.callTraces[c])
    BY DEF Typed, IsCallTraces
  <2>2. DOMAIN traces = Calls /\ traces = [c \in Calls |-> traces[c]]
    BY <2>1
  <2>3. ASSUME NEW c \in Calls
        PROVE  IsTypedTrace(traces[c])
    <3>1. CASE c = g.call.id
      <4>1. traces[c] = [g.callTraces[c] EXCEPT !.groups = s]
        BY <2>1, <3>1
      <4>2. traces[c] = [numInvocations |-> g.callTraces[c].numInvocations, groups |-> s]
        BY <4>1, <2>1 DEF IsTypedTrace
      <4>3. QED
        BY <4>2, <1>2, <2>1, <3>1, ZenonT(60) DEF IsTypedTrace
    <3>2. CASE c # g.call.id
      <4>1. traces[c] = g.callTraces[c]
        BY <2>1, <3>2
      <4>2. QED
        BY <4>1, <2>1
    <3>3. QED
      BY <3>1, <3>2
  <2>4. QED
    BY <2>2, <2>3 DEF IsCallTraces
<1>4. call = [id |-> g.call.id, invocationNum |-> g.call.invocationNum,
              currCFC |-> <<>>, partiallyDumped |-> g.call.partiallyDumped]
  BY DEF Typed, HasFields
<1>5. IsCall(call)
  BY <1>4 DEF Typed, IsCall
<1> HIDE DEF traces, call
<1>6. h = [stack |-> g.stack, loop |-> g.loop, call |-> call, trace |-> g.trace,
           callTraces |-> traces, callInfos |-> g.callInfos,
           waitingForInvocCompletion |-> g.waitingForInvocCompletion,
           traceDumpID |-> g.traceDumpID, timedOut |-> g.timedOut,
           loopFile |-> g.loopFile, callFile |-> g.callFile]
  BY <1>1 DEF Typed, HasFields
<1>7. HasFields(h)
  BY <1>4, <1>6 DEF HasFields, Typed
<1>8. Typed(h)
  BY <1>3, <1>5, <1>6, <1>7 DEF Typed
<1>9. Same(g, h) /\ h.trace = g.trace /\ h.callInfos = g.callInfos
  BY <1>6 DEF Same
<1>10. Undumped(g, h)
  BY <1>6 DEF Undumped
<1>11. QED
  BY <1>8, <1>9, <1>10 DEF h

(***************************************************************************)
(* dumpTraces: nothing is left in the groups, and what is running goes on. *)
(***************************************************************************)
LEMMA FinishRunningFacts ==
  ASSUME NEW g, Typed(g)
  PROVE  LET f == FinishRunning(g)
         IN  /\ Typed(f) /\ Same(g, f)
             /\ f.loopFile = g.loopFile
             /\ LoopRunning(g) => /\ f.loop.partiallyDumped
                                 /\ Shares(g.trace.groups, f.trace.groups,
                                           g.loop.invocationNum, FALSE)
             /\ ~ LoopRunning(g) => f.trace = g.trace
<1> DEFINE g1 == [g EXCEPT !.loop.partiallyDumped = TRUE]
           h == IF LoopRunning(g) THEN FinishLoop(g1, FALSE) ELSE g
           h1 == [h EXCEPT !.call.partiallyDumped = TRUE]
           k == IF CallRunning(h) THEN FinishCall(h1, FALSE) ELSE h
<1>1. FinishRunning(g) = IF LoopRunning(k) THEN RecordCallTraces(k, FALSE) ELSE k
  BY DEF FinishRunning
<1>2. /\ Typed(g1) /\ Same(g, g1) /\ g1.loop.partiallyDumped = TRUE
      /\ g1.loopFile = g.loopFile /\ g1.trace = g.trace
  <2> DEFINE loop == [g.loop EXCEPT !.partiallyDumped = TRUE]
  <2>0. g1 = [g EXCEPT !.loop = loop]
    OBVIOUS
  <2>l. loop = [invocationNum |-> g.loop.invocationNum,
                iterationNum |-> g.loop.iterationNum,
                currCFC |-> g.loop.currCFC, iterations |-> g.loop.iterations,
                partiallyDumped |-> TRUE]
    <3>1. \A b : [g.loop EXCEPT !.partiallyDumped = b]
                 = [invocationNum |-> g.loop.invocationNum,
                    iterationNum |-> g.loop.iterationNum,
                    currCFC |-> g.loop.currCFC, iterations |-> g.loop.iterations,
                    partiallyDumped |-> b]
      BY DEF Typed, HasFields
    <3>2. QED
      BY <3>1, Zenon
  <2> HIDE DEF g1, loop
  <2>1. g1 = [stack |-> g.stack, loop |-> loop, call |-> g.call, trace |-> g.trace,
              callTraces |-> g.callTraces, callInfos |-> g.callInfos,
              waitingForInvocCompletion |-> g.waitingForInvocCompletion,
              traceDumpID |-> g.traceDumpID, timedOut |-> g.timedOut,
              loopFile |-> g.loopFile, callFile |-> g.callFile]
    BY <2>0 DEF Typed, HasFields
  <2>2. HasFields(g1) /\ IsLoop(g1.loop)
    BY <2>1, <2>l DEF HasFields, IsLoop, Typed
  <2>3. QED
    <3>1. Typed(g1) /\ Same(g, g1)
      BY <2>1, <2>l, <2>2 DEF Typed, Same
    <3>2. g1.loop.partiallyDumped = TRUE /\ g1.loopFile = g.loopFile /\ g1.trace = g.trace
      BY <2>1, <2>l
    <3>3. QED
      BY <3>1, <3>2
<1> HIDE DEF g1
<1> DEFINE After(f) == /\ f.loopFile = g.loopFile
                       /\ LoopRunning(g) => /\ f.loop.partiallyDumped = TRUE
                                           /\ Shares(g.trace.groups, f.trace.groups,
                                                     g.loop.invocationNum, FALSE)
                       /\ ~ LoopRunning(g) => f.trace = g.trace
<1>3. Typed(h) /\ Same(g, h) /\ After(h)
  <2>1. CASE LoopRunning(g)
    <3>1. /\ Typed(h) /\ Same(g1, h) /\ Undumped(g1, h)
          /\ Shares(g1.trace.groups, h.trace.groups, g1.loop.invocationNum, FALSE)
      BY <1>2, <2>1, FinishLoopFacts
    <3> HIDE DEF h
    <3>2. QED
      BY <1>2, <2>1, <3>1 DEF Same, Undumped
  <2>2. CASE ~ LoopRunning(g)
    BY <2>2 DEF Same
  <2>3. QED
    BY <2>1, <2>2
<1> HIDE DEF h, After
<1>4. /\ Typed(h1) /\ Same(g, h1) /\ h1.loop = h.loop
      /\ h1.loopFile = h.loopFile /\ h1.trace = h.trace
  <2> DEFINE call == [h.call EXCEPT !.partiallyDumped = TRUE]
  <2>0. h1 = [h EXCEPT !.call = call]
    OBVIOUS
  <2>l. call = [id |-> h.call.id, invocationNum |-> h.call.invocationNum,
                currCFC |-> h.call.currCFC, partiallyDumped |-> TRUE]
    <3>1. \A b : [h.call EXCEPT !.partiallyDumped = b]
                 = [id |-> h.call.id, invocationNum |-> h.call.invocationNum,
                    currCFC |-> h.call.currCFC, partiallyDumped |-> b]
      BY <1>3 DEF Typed, HasFields
    <3>2. QED
      BY <3>1, Zenon
  <2> HIDE DEF h1, call
  <2>1. h1 = [stack |-> h.stack, loop |-> h.loop, call |-> call, trace |-> h.trace,
              callTraces |-> h.callTraces, callInfos |-> h.callInfos,
              waitingForInvocCompletion |-> h.waitingForInvocCompletion,
              traceDumpID |-> h.traceDumpID, timedOut |-> h.timedOut,
              loopFile |-> h.loopFile, callFile |-> h.callFile]
    BY <1>3, <2>0 DEF Typed, HasFields
  <2>2. HasFields(h1) /\ IsCall(h1.call)
    BY <1>3, <2>1, <2>l DEF HasFields, IsCall, Typed
  <2>3. Typed(h1) /\ Same(g, h1)
    BY <1>3, <2>1, <2>l, <2>2 DEF Typed, Same
  <2>4. h1.loop = h.loop /\ h1.loopFile = h.loopFile /\ h1.trace = h.trace
    BY <2>1
  <2>5. QED
    BY <2>3, <2>4
<1> HIDE DEF h1
<1>5. Typed(k) /\ Same(g, k) /\ After(k)
  <2>1. CASE CallRunning(h)
    <3>1. Typed(k) /\ Same(h1, k) /\ Undumped(h1, k) /\ k.trace = h1.trace
      BY <1>4, <2>1, FinishCallFacts
    <3> HIDE DEF k
    <3>2. QED
      BY <1>3, <1>4, <3>1 DEF After, Same, Undumped
  <2>2. CASE ~ CallRunning(h)
    BY <1>3, <2>2
  <2>3. QED
    BY <2>1, <2>2
<1> HIDE DEF k
<1> DEFINE f == IF LoopRunning(k) THEN RecordCallTraces(k, FALSE) ELSE k
<1>6. Typed(f) /\ Same(g, f) /\ After(f)
  <2>1. CASE LoopRunning(k)
    <3>1. Typed(f) /\ Same(k, f) /\ Undumped(k, f) /\ f.trace = k.trace
      BY <1>5, <2>1, RecordCallTracesFacts
    <3> HIDE DEF f
    <3>2. QED
      BY <1>5, <3>1 DEF After, Same, Undumped
  <2>2. CASE ~ LoopRunning(k)
    BY <1>5, <2>2
  <2>3. QED
    BY <2>1, <2>2
<1>7. FinishRunning(g) = f
  BY <1>1
<1> HIDE DEF f
<1>8. QED
  BY <1>6, <1>7 DEF After

LEMMA WriteTracesFacts ==
  ASSUME NEW g, Typed(g)
  PROVE  LET h == WriteTraces(g)
         IN  /\ Typed(h) /\ Same(g, h)
             /\ h.trace = g.trace /\ h.callInfos = g.callInfos
             /\ h.loop = g.loop /\ h.timedOut = g.timedOut
             /\ h.loopFile = IF g.trace.numInvocations = 0
                            THEN g.loopFile
                            ELSE Written(g.loopFile, LoopEntries(g.trace.groups.items),
                                         ~ LoopRunning(g))
<1> DEFINE h == WriteTraces(g)
           f1 == IF g.trace.numInvocations = 0
                 THEN g.loopFile
                 ELSE Written(g.loopFile, LoopEntries(g.trace.groups.items), ~ LoopRunning(g))
<1>1. \E f2 : h = [g EXCEPT !.loopFile = f1, !.callFile = f2]
  BY Zenon DEF WriteTraces, Written
<1> HIDE DEF h, f1
<1>2. PICK f2 : h = [g EXCEPT !.loopFile = f1, !.callFile = f2]
  BY <1>1
<1>3. h = [stack |-> g.stack, loop |-> g.loop, call |-> g.call, trace |-> g.trace,
           callTraces |-> g.callTraces, callInfos |-> g.callInfos,
           waitingForInvocCompletion |-> g.waitingForInvocCompletion,
           traceDumpID |-> g.traceDumpID, timedOut |-> g.timedOut,
           loopFile |-> f1, callFile |-> f2]
  BY <1>2 DEF Typed, HasFields
<1>4. HasFields(h)
  BY <1>3 DEF HasFields, Typed
<1>5. Typed(h) /\ Same(g, h) /\ h.trace = g.trace /\ h.callInfos = g.callInfos
  BY <1>3, <1>4 DEF Typed, Same
<1>6. h.loop = g.loop /\ h.timedOut = g.timedOut /\ h.loopFile = f1
  BY <1>3
<1>7. QED
  BY <1>5, <1>6 DEF h, f1

LEMMA NoTraceTyped == IsTypedTrace(NoTrace) /\ IsCallTraces(NoCallTraces)
<1>1. IsTypedTrace(NoTrace)
  <2>1. IsGroups(NoGroups)
    BY NoGroupsFacts
  <2>2. QED
    BY <2>1 DEF IsTypedTrace, NoTrace
<1>2. QED
  BY <1>1 DEF IsCallTraces, NoCallTraces

LEMMA ClearTracesFacts ==
  ASSUME NEW g, Typed(g)
  PROVE  LET h == ClearTraces(g)
         IN  /\ Typed(h) /\ Same(g, h)
             /\ h.trace.groups = NoGroups /\ h.callInfos = NoGroups
             /\ Undumped(g, h)
<1> DEFINE h == ClearTraces(g)
           traces == [c \in Calls |-> [g.callTraces[c] EXCEPT !.groups = NoGroups]]
<1>1. h = [g EXCEPT !.trace.groups = NoGroups, !.callTraces = traces, !.callInfos = NoGroups]
  BY DEF ClearTraces
<1>2. IsGroups(NoGroups)
  BY NoGroupsFacts
<1> HIDE DEF h
<1>3. IsCallTraces(traces)
  <2>1. ASSUME NEW c \in Calls
        PROVE  IsTypedTrace(traces[c])
    <3>1. traces[c] = [g.callTraces[c] EXCEPT !.groups = NoGroups]
          /\ IsTypedTrace(g.callTraces[c])
      BY DEF Typed, IsCallTraces
    <3>2. QED
      BY <3>1, <1>2 DEF IsTypedTrace
  <2>2. QED
    BY <2>1 DEF IsCallTraces
<1> HIDE DEF traces
<1>4. h = [stack |-> g.stack, loop |-> g.loop, call |-> g.call,
           trace |-> [numInvocations |-> g.trace.numInvocations, groups |-> NoGroups],
           callTraces |-> traces, callInfos |-> NoGroups,
           waitingForInvocCompletion |-> g.waitingForInvocCompletion,
           traceDumpID |-> g.traceDumpID, timedOut |-> g.timedOut,
           loopFile |-> g.loopFile, callFile |-> g.callFile]
  BY <1>1 DEF Typed, HasFields, IsTypedTrace
<1>5. HasFields(h)
  BY <1>4 DEF HasFields, Typed
<1>6. IsTypedTrace(h.trace)
  BY <1>2, <1>4 DEF IsTypedTrace, Typed
<1>7. Typed(h) /\ Same(g, h) /\ h.trace.groups = NoGroups /\ h.callInfos = NoGroups
  BY <1>2, <1>3, <1>4, <1>5, <1>6 DEF Typed, Same
<1>8. Undumped(g, h)
  BY <1>4 DEF Undumped
<1>9. QED
  BY <1>7, <1>8 DEF h

LEMMA DumpTracesFacts ==
  ASSUME NEW g, Typed(g)
  PROVE  LET h == DumpTraces(g)
         IN  /\ Typed(h) /\ Same(g, h)
             /\ h.trace.groups = NoGroups /\ h.callInfos = NoGroups
             /\ Undumped(WriteTraces(FinishRunning(g)), h)
<1> DEFINE f == FinishRunning(g)
           w == WriteTraces(f)
           c == ClearTraces(w)
           h == DumpTraces(g)
<1>1. Typed(f) /\ Same(g, f)
  BY FinishRunningFacts
<1> HIDE DEF f
<1>2. Typed(w) /\ Same(g, w)
  BY <1>1, WriteTracesFacts DEF Same
<1> HIDE DEF w
<1>3. /\ Typed(c) /\ Same(g, c) /\ c.trace.groups = NoGroups /\ c.callInfos = NoGroups
      /\ Undumped(w, c)
  BY <1>2, ClearTracesFacts DEF Same
<1>4. h = [c EXCEPT !.waitingForInvocCompletion = TRUE, !.traceDumpID = @ + 1]
  BY DEF DumpTraces, c, w, f
<1> HIDE DEF c, h
<1>5. h = [stack |-> c.stack, loop |-> c.loop, call |-> c.call, trace |-> c.trace,
           callTraces |-> c.callTraces, callInfos |-> c.callInfos,
           waitingForInvocCompletion |-> TRUE,
           traceDumpID |-> c.traceDumpID + 1, timedOut |-> c.timedOut,
           loopFile |-> c.loopFile, callFile |-> c.callFile]
  BY <1>3, <1>4 DEF Typed, HasFields
<1>6. HasFields(h)
  BY <1>3, <1>5 DEF HasFields, Typed
<1>7. Typed(h) /\ Same(g, h) /\ h.trace.groups = NoGroups /\ h.callInfos = NoGroups
  BY <1>3, <1>5, <1>6 DEF Typed, Same
<1>8. Undumped(w, h)
  BY <1>3, <1>5 DEF Undumped
<1>9. QED
  BY <1>7, <1>8 DEF h, w, f

-----------------------------------------------------------------------------
(* The inductive invariant                                                 *)

\* The number of invocations completed so far.
Completed(g) == g.trace.numInvocations - (IF LoopRunning(g) THEN 1 ELSE 0)

(***************************************************************************)
(* The groups of both traces divide the same invocations among them: all   *)
(* that were completed since some dump.  That this includes the number of  *)
(* the one that runs, under which it will be grouped, is what makes it     *)
(* inductive.                                                              *)
(***************************************************************************)
Grouped(g) ==
  /\ \E a \in Nat : /\ a <= Completed(g)
                    /\ Divide(g.trace.groups, a, Completed(g))
                    /\ Divide(g.callInfos, a, Completed(g))
  /\ LoopRunning(g) => g.loop.invocationNum = Completed(g)

\* The invocation n goes on: it runs, or its rest is in the first group.
Pending(g, n) ==
  LET items == g.trace.groups.items
  IN IF items = <<>>
     THEN LoopRunning(g) /\ g.loop.invocationNum = n /\ g.loop.partiallyDumped
     ELSE items[1].sharers = {n} /\ items[1].partiallyDumped

(***************************************************************************)
(* What is written and what is held fit together: either the file is       *)
(* closed, and there is an entry to write once an invocation is completed, *)
(* or an invocation is open in it, and goes on.                            *)
(***************************************************************************)
Fits(g) ==
  \E read :
    /\ Reached(g.loopFile, read)
    /\ \/ Closed(read) /\ (Completed(g) > 0 => g.trace.groups.items # <<>>)
       \/ \E n \in Nat : Open(read, n) /\ Pending(g, n)

Finished(file) == \E read : Reached(file, read) /\ Closed(read)

IInv ==
  /\ Typed(globals)
  /\ closed \in BOOLEAN /\ idleDump \in BOOLEAN
  /\ atCall \in Calls \cup {0}
  /\ atCall # 0 => globals.stack = <<"loop">>
  /\ Grouped(globals)
  /\ ~ closed /\ ~ idleDump => Fits(globals)
  /\ closed /\ ~ idleDump /\ ~ globals.timedOut => Finished(globals.loopFile)

LEMMA CompletedIsInt ==
  ASSUME NEW g, Typed(g)
  PROVE  Completed(g) \in Int
BY DEF Completed, Typed, IsTypedTrace

LEMMA SameGrouped ==
  ASSUME NEW g, NEW h, Grouped(g), Same(g, h),
         h.trace.groups = g.trace.groups, h.callInfos = g.callInfos
  PROVE  Grouped(h)
<1>1. Completed(h) = Completed(g) /\ (LoopRunning(h) <=> LoopRunning(g))
  BY DEF Same, Completed, LoopRunning
<1>2. QED
  BY <1>1 DEF Grouped, Same

LEMMA DumpGrouped ==
  ASSUME NEW g, Typed(g), Grouped(g)
  PROVE  Grouped(DumpTraces(g))
<1> DEFINE h == DumpTraces(g)
<1>1. Same(g, h) /\ h.trace.groups = NoGroups /\ h.callInfos = NoGroups
  BY DumpTracesFacts
<1> HIDE DEF h
<1>2. Completed(h) = Completed(g) /\ (LoopRunning(h) <=> LoopRunning(g))
  BY <1>1 DEF Same, Completed, LoopRunning
<1>3. Completed(g) \in Nat
  BY CompletedIsInt DEF Grouped
<1>4. Divide(NoGroups, Completed(g), Completed(g)) /\ Completed(g) <= Completed(g)
  BY <1>3, NoGroupsFacts
<1>5. Grouped(h)
  BY <1>1, <1>2, <1>3, <1>4 DEF Grouped, Same
<1>6. QED
  BY <1>5 DEF h

\* The entries of the groups, and the lines that they have.
LEMMA LoopEntriesFacts ==
  ASSUME NEW groups, IsGroups(groups)
  PROVE  LET es == LoopEntries(groups.items)
         IN  /\ \E T : es \in Seq(T)
             /\ Len(es) = Len(groups.items)
             /\ \A i \in 1 .. Len(groups.items) :
                  IsEntry(es[i]) /\ es[i].ranges = Ranges(groups.items[i].sharers)
<1> DEFINE items == groups.items
           e(i) == Entry(Ranges(items[i].sharers), WrittenGroups(items[i].body))
           es == LoopEntries(items)
<1>1. PICK S : items \in Seq(S)
  BY DEF IsGroups
<1>2. DOMAIN items = 1 .. Len(items) /\ Len(items) \in Nat
  BY <1>1
<1>3. es = [i \in DOMAIN items |-> e(i)]
  BY DEF LoopEntries
<1>4. \A i : IsEntry(e(i)) /\ e(i).ranges = Ranges(items[i].sharers)
  BY DEF IsEntry, Entry
<1> HIDE DEF e, es
<1>5. es \in Seq({e(i) : i \in 1 .. Len(items)}) /\ Len(es) = Len(items)
      /\ \A i \in 1 .. Len(items) : es[i] = e(i)
  BY <1>2, <1>3
<1>6. QED
  BY <1>4, <1>5 DEF es

(***************************************************************************)
(* The groups can be written behind what they continue.                    *)
(***************************************************************************)
LEMMA GroupsAreRead ==
  ASSUME NEW groups, IsGroups(groups), groups.items # <<>>, NEW file, NEW read,
         Reached(file, read),
         Closed(read) \/ \E n \in Nat : Open(read, n) /\ groups.items[1].sharers = {n},
         NEW c \in BOOLEAN
  PROVE  \E more : /\ Reached(Written(file, LoopEntries(groups.items), c), more)
                   /\ more # <<>>
                   /\ more[Len(more)].complete <=> c
                   /\ more[Len(more)].ranges
                        = Ranges(groups.items[Len(groups.items)].sharers)
<1> DEFINE es == LoopEntries(groups.items)
           k == Len(groups.items)
<1>1. PICK S : groups.items \in Seq(S)
  BY DEF IsGroups
<1>2. k \in Nat /\ 1 \in 1 .. k /\ k \in 1 .. k
  BY <1>1
<1>3. /\ \E T : es \in Seq(T)
      /\ Len(es) = k
      /\ \A i \in 1 .. k : IsEntry(es[i]) /\ es[i].ranges = Ranges(groups.items[i].sharers)
  BY LoopEntriesFacts
<1> HIDE DEF es, k
<1>4. PICK T : es \in Seq(T)
  BY <1>3
<1>5. es # <<>>
  BY <1>2, <1>3, <1>4
<1>6. Follows(read, es[1])
  <2>1. CASE Closed(read)
    BY <2>1 DEF Follows
  <2>2. ASSUME NEW n \in Nat, Open(read, n), groups.items[1].sharers = {n}
        PROVE  Follows(read, es[1])
    <3>1. es[1].ranges = <<<<n, n>>>>
      BY <1>2, <1>3, <2>2, RangesOfOne
    <3>2. QED
      BY <2>2, <3>1 DEF Follows
  <2>3. QED
    BY <2>1, <2>2
<1>7. \A i \in 1 .. Len(es) : IsEntry(es[i])
  BY <1>3
<1>8. \E more : /\ Reached(Written(file, es, c), more)
                /\ more # <<>>
                /\ more[Len(more)].complete <=> c
                /\ more[Len(more)].ranges = es[Len(es)].ranges
  BY <1>4, <1>5, <1>6, <1>7, WrittenIsRead
<1>9. es[Len(es)].ranges = Ranges(groups.items[k].sharers)
  BY <1>2, <1>3
<1>10. QED
  BY <1>8, <1>9, Zenon DEF es, k

\* There are invocations as long as the loop runs.
LEMMA RunningFacts ==
  ASSUME NEW g, Typed(g), Grouped(g), LoopRunning(g)
  PROVE  g.trace.numInvocations # 0 /\ g.loop.invocationNum \in Nat
<1>1. g.loop.invocationNum = Completed(g)
      /\ \E a \in Nat : a <= Completed(g)
  BY DEF Grouped
<1>2. Completed(g) = g.trace.numInvocations - 1 /\ g.trace.numInvocations \in Nat
  BY DEF Completed, Typed, IsTypedTrace
<1>3. QED
  BY <1>1, <1>2

\* A dump leaves open what runs.
LEMMA DumpFits ==
  ASSUME NEW g, Typed(g), Grouped(g), LoopRunning(g), Fits(g)
  PROVE  Fits(DumpTraces(g))
<1> DEFINE f == FinishRunning(g)
           w == WriteTraces(f)
           h == DumpTraces(g)
           n == g.loop.invocationNum
           old == g.trace.groups
           new == f.trace.groups
<1>1. /\ Typed(f) /\ Same(g, f) /\ f.loopFile = g.loopFile /\ f.loop.partiallyDumped
      /\ Shares(old, new, n, FALSE)
  BY FinishRunningFacts
<1>2. /\ Typed(w) /\ w.loop = f.loop
      /\ w.loopFile = IF f.trace.numInvocations = 0
                      THEN f.loopFile
                      ELSE Written(f.loopFile, LoopEntries(new.items), ~ LoopRunning(f))
  BY <1>1, WriteTracesFacts
<1>3. Same(g, h) /\ h.trace.groups = NoGroups /\ Undumped(w, h)
  BY DumpTracesFacts
<1>4. n \in Nat /\ g.trace.numInvocations # 0
  BY RunningFacts
<1> HIDE DEF f, w, h
<1>5. LoopRunning(f) /\ LoopRunning(h) /\ f.trace.numInvocations # 0
  BY <1>1, <1>3, <1>4 DEF Same, LoopRunning
<1>6. IsGroups(old) /\ IsGroups(new)
  BY <1>1 DEF Typed, IsTypedTrace
<1>7. /\ new.items # <<>>
      /\ old.items # <<>> /\ old.items[1].partiallyDumped => new.items[1] = old.items[1]
      /\ Len(new.items) = Len(old.items) + 1
      /\ new.items[Len(new.items)].sharers = {n}
  <2>1. FALSE \in BOOLEAN /\ ~ FALSE
    OBVIOUS
  <2> HIDE DEF old, new, n
  <2>2. Extends(old, new, n, FALSE)
    BY <1>1, <1>6, <2>1, SharesExtend, Zenon
  <2>3. QED
    BY <2>1, <2>2, Zenon DEF Extends
<1>8. PICK read : /\ Reached(g.loopFile, read)
                  /\ \/ Closed(read) /\ (Completed(g) > 0 => old.items # <<>>)
                     \/ \E m \in Nat : Open(read, m) /\ Pending(g, m)
  BY DEF Fits
<1>9. Closed(read) \/ \E m \in Nat : Open(read, m) /\ new.items[1].sharers = {m}
  <2>1. ASSUME NEW m \in Nat, Open(read, m), Pending(g, m)
        PROVE  new.items[1].sharers = {m}
    <3>1. CASE old.items = <<>>
      <4>1. m = n
        BY <2>1, <3>1 DEF Pending
      <4>2. Len(new.items) = 1
        BY <1>7, <3>1
      <4>3. QED
        BY <1>7, <4>1, <4>2
    <3>2. CASE old.items # <<>>
      BY <1>7, <2>1, <3>2 DEF Pending
    <3>3. QED
      BY <3>1, <3>2
  <2>2. QED
    BY <1>8, <2>1
<1> DEFINE c == ~ LoopRunning(f)
<1>10. c \in BOOLEAN /\ ~ c
  BY <1>5
<1> HIDE DEF c, old, new, n
<1>11. PICK more : /\ Reached(Written(g.loopFile, LoopEntries(new.items), c), more)
                   /\ more # <<>>
                   /\ more[Len(more)].complete <=> c
                   /\ more[Len(more)].ranges = Ranges(new.items[Len(new.items)].sharers)
  BY <1>6, <1>7, <1>8, <1>9, <1>10, GroupsAreRead
<1>12. h.loopFile = Written(g.loopFile, LoopEntries(new.items), c)
  BY <1>1, <1>2, <1>3, <1>5, Zenon DEF Undumped, c
<1>13. Open(more, n)
  BY <1>4, <1>7, <1>10, <1>11, RangesOfOne DEF Open
<1>14. Pending(h, n)
  <2>1. h.trace.groups.items = <<>>
    BY <1>3 DEF NoGroups
  <2>2. h.loop.invocationNum = n /\ h.loop.partiallyDumped
    BY <1>1, <1>2, <1>3, Zenon DEF Same, Undumped, n
  <2>3. QED
    BY <1>5, <2>1, <2>2 DEF Pending
<1>15. Fits(h)
  BY <1>4, <1>11, <1>12, <1>13, <1>14 DEF Fits
<1>16. QED
  BY <1>15 DEF h

\* The shutdown closes the file when nothing runs.
LEMMA WriteFinishes ==
  ASSUME NEW g, Typed(g), Grouped(g), ~ LoopRunning(g), Fits(g)
  PROVE  Finished(WriteTraces(g).loopFile)
<1> DEFINE file == WriteTraces(g).loopFile
           items == g.trace.groups.items
           c == ~ LoopRunning(g)
<1>1. PICK read : /\ Reached(g.loopFile, read)
                  /\ \/ Closed(read) /\ (Completed(g) > 0 => items # <<>>)
                     \/ \E n \in Nat : Open(read, n) /\ Pending(g, n)
  BY DEF Fits
<1>2. file = IF g.trace.numInvocations = 0
             THEN g.loopFile
             ELSE Written(g.loopFile, LoopEntries(items), c)
  BY WriteTracesFacts
<1>3. c \in BOOLEAN /\ c
  OBVIOUS
<1>4. Completed(g) = g.trace.numInvocations /\ g.trace.numInvocations \in Nat
  BY DEF Completed, Typed, IsTypedTrace
<1>5. \A n \in Nat : Pending(g, n) => items # <<>> /\ items[1].sharers = {n}
  BY DEF Pending
<1> HIDE DEF file, c
<1>6. CASE g.trace.numInvocations = 0
  <2>1. ASSUME NEW n \in Nat, Pending(g, n) PROVE FALSE
    <3>1. items # <<>> /\ items[1].sharers = {n}
      BY <1>5, <2>1
    <3>2. 1 \in DOMAIN items
      BY <3>1 DEF Typed, IsTypedTrace, IsGroups
    <3>3. PICK a \in Nat : Divide(g.trace.groups, a, 0)
      BY <1>4, <1>6 DEF Grouped
    <3>4. items[1].sharers \subseteq a .. 0 - 1
      BY <3>2, <3>3 DEF Divide
    <3>5. QED
      BY <3>1, <3>4
  <2>2. file = g.loopFile
    BY <1>2, <1>6
  <2>3. QED
    BY <1>1, <2>1, <2>2 DEF Finished, file
<1>7. CASE g.trace.numInvocations # 0
  <2>1. items # <<>>
    BY <1>1, <1>4, <1>5, <1>7
  <2>2. Closed(read) \/ \E n \in Nat : Open(read, n) /\ items[1].sharers = {n}
    BY <1>1, <1>5
  <2>3. IsGroups(g.trace.groups)
    BY DEF Typed, IsTypedTrace
  <2>4. PICK more : /\ Reached(Written(g.loopFile, LoopEntries(items), c), more)
                    /\ more # <<>>
                    /\ more[Len(more)].complete <=> c
    BY <1>1, <1>3, <2>1, <2>2, <2>3, GroupsAreRead
  <2>5. Closed(more)
    BY <1>3, <2>4 DEF Closed
  <2>6. file = Written(g.loopFile, LoopEntries(items), c)
    BY <1>2, <1>7
  <2>7. QED
    BY <2>4, <2>5, <2>6 DEF Finished, file
<1>8. QED
  BY <1>6, <1>7

\* What does not change whether it fits.
LEMMA SameFits ==
  ASSUME NEW g, NEW h, Fits(g), h.loopFile = g.loopFile,
         h.trace.groups = g.trace.groups, Completed(h) = Completed(g),
         LoopRunning(g) => /\ LoopRunning(h)
                           /\ h.loop.invocationNum = g.loop.invocationNum
                           /\ h.loop.partiallyDumped = g.loop.partiallyDumped
  PROVE  Fits(h)
<1>1. \A n : Pending(g, n) => Pending(h, n)
  BY DEF Pending
<1>2. QED
  BY <1>1 DEF Fits

\* The end of an invocation: its group is there, and what was open goes on.
LEMMA EndFits ==
  ASSUME NEW g, NEW h, Fits(g), IsGroups(g.trace.groups), IsGroups(h.trace.groups),
         NEW attemptMatch \in BOOLEAN,
         Extends(g.trace.groups, h.trace.groups, g.loop.invocationNum, attemptMatch),
         g.loop.partiallyDumped => ~ attemptMatch, h.loopFile = g.loopFile
  PROVE  Fits(h)
<1> DEFINE old == g.trace.groups.items
           new == h.trace.groups.items
           n == g.loop.invocationNum
<1>1. new # <<>>
  BY DEF Extends
<1>2. ASSUME NEW m \in Nat, Pending(g, m)
      PROVE  Pending(h, m)
  <2>1. CASE old = <<>>
    <3>1. m = n /\ ~ attemptMatch
      BY <1>2, <2>1 DEF Pending
    <3>2. /\ Len(new) = Len(old) + 1 /\ new[Len(new)].sharers = {n}
          /\ new[Len(new)].partiallyDumped
      BY <3>1, Zenon DEF Extends
    <3>3. Len(new) = 1
      BY <2>1, <3>2
    <3>4. new[1].sharers = {m} /\ new[1].partiallyDumped
      BY <3>1, <3>2, <3>3
    <3>5. QED
      BY <1>1, <3>4 DEF Pending
  <2>2. CASE old # <<>>
    <3>1. old[1].sharers = {m} /\ old[1].partiallyDumped
      BY <1>2, <2>2 DEF Pending
    <3>2. new[1] = old[1]
      BY <2>2, <3>1 DEF Extends
    <3>3. QED
      BY <1>1, <3>1, <3>2 DEF Pending
  <2>3. QED
    BY <2>1, <2>2
<1>3. QED
  BY <1>1, <1>2 DEF Fits

\* Every callback, after what it does itself.
LEMMA CallbackFacts ==
  ASSUME NEW g, Typed(g), Grouped(g), Callback(g)
  PROVE  /\ Typed(globals') /\ Grouped(globals')
         /\ globals'.stack = g.stack
         /\ ~ closed /\ closed' = closed /\ idleDump' = idleDump
         /\ Fits(g) => Fits(globals')
<1>1. PICK h \in MayDump(g), t \in BOOLEAN : globals' = [h EXCEPT !.timedOut = t]
  BY DEF Callback
<1>2. Typed(h) /\ Grouped(h) /\ h.stack = g.stack /\ (Fits(g) => Fits(h))
  <2>1. CASE h = g
    BY <2>1
  <2>2. CASE h = DumpTraces(g) /\ LoopRunning(g)
    <3>1. Typed(h) /\ Grouped(h) /\ h.stack = g.stack
      BY <2>2, DumpTracesFacts, DumpGrouped DEF Same
    <3>2. Fits(g) => Fits(h)
      BY <2>2, DumpFits
    <3>3. QED
      BY <3>1, <3>2
  <2>3. QED
    BY <1>1, <2>1, <2>2 DEF MayDump
<1> DEFINE k == [h EXCEPT !.timedOut = t]
<1>3. k = [stack |-> h.stack, loop |-> h.loop, call |-> h.call, trace |-> h.trace,
           callTraces |-> h.callTraces, callInfos |-> h.callInfos,
           waitingForInvocCompletion |-> h.waitingForInvocCompletion,
           traceDumpID |-> h.traceDumpID, timedOut |-> t,
           loopFile |-> h.loopFile, callFile |-> h.callFile]
  <2>1. \A b : [h EXCEPT !.timedOut = b] =
          [stack |-> h.stack, loop |-> h.loop, call |-> h.call, trace |-> h.trace,
           callTraces |-> h.callTraces, callInfos |-> h.callInfos,
           waitingForInvocCompletion |-> h.waitingForInvocCompletion,
           traceDumpID |-> h.traceDumpID, timedOut |-> b,
           loopFile |-> h.loopFile, callFile |-> h.callFile]
    BY <1>2 DEF Typed, HasFields
  <2>2. QED
    BY <2>1, Zenon
<1>4. k.timedOut \in BOOLEAN
  BY <1>1, <1>3, Zenon
<1> HIDE DEF k
<1>5. HasFields(k)
  <2>1. \A b : LET r == [stack |-> h.stack, loop |-> h.loop, call |-> h.call, trace |-> h.trace,
           callTraces |-> h.callTraces, callInfos |-> h.callInfos,
           waitingForInvocCompletion |-> h.waitingForInvocCompletion,
           traceDumpID |-> h.traceDumpID, timedOut |-> b,
           loopFile |-> h.loopFile, callFile |-> h.callFile]
           IN HasFields(r)
    BY <1>2 DEF HasFields, Typed
  <2>2. QED
    BY <2>1, <1>3, Zenon
<1>6. /\ k.stack = h.stack /\ k.loop = h.loop /\ k.call = h.call /\ k.trace = h.trace
      /\ k.callTraces = h.callTraces /\ k.callInfos = h.callInfos
      /\ k.waitingForInvocCompletion = h.waitingForInvocCompletion
      /\ k.loopFile = h.loopFile
  BY <1>3
<1>7. Typed(k)
  BY <1>2, <1>4, <1>5, <1>6 DEF Typed
<1>8. Same(h, k)
  BY <1>6 DEF Same
<1>9. Grouped(k)
  BY <1>2, <1>6, <1>8, SameGrouped
<1>10. globals' = k /\ ~ closed /\ closed' = closed /\ idleDump' = idleDump
  BY <1>1 DEF Callback, k
<1>11. Fits(h) => Fits(k)
  <2>1. Completed(k) = Completed(h) /\ (LoopRunning(h) => LoopRunning(k))
    BY <1>6 DEF Completed, LoopRunning
  <2>2. QED
    BY <1>6, <2>1, SameFits
<1>12. QED
  BY <1>2, <1>6, <1>7, <1>9, <1>10, <1>11

LEMMA CallbackKeepsIInv ==
  ASSUME IInv, NEW g, Typed(g), Grouped(g), Callback(g), ~ idleDump => Fits(g),
         atCall' \in Calls \cup {0}, atCall' # 0 => g.stack = <<"loop">>
  PROVE  IInv'
<1>1. /\ Typed(globals') /\ Grouped(globals')
      /\ globals'.stack = g.stack
      /\ ~ closed /\ closed' = closed /\ idleDump' = idleDump
      /\ Fits(g) => Fits(globals')
  BY CallbackFacts
<1>2. closed' \in BOOLEAN /\ idleDump' \in BOOLEAN
  BY <1>1 DEF IInv
<1>3. /\ ~ closed' /\ ~ idleDump' => Fits(globals')
      /\ closed' /\ ~ idleDump' /\ ~ globals'.timedOut => Finished(globals'.loopFile)
  BY <1>1
<1>4. QED
  BY <1>1, <1>2, <1>3 DEF IInv

\* What fits before a callback.
LEMMA FitsBefore ==
  ASSUME IInv, NEW g, Callback(g)
  PROVE  ~ idleDump => Fits(globals)
BY DEF IInv, Callback

\* The fields of globals, as a record made of them.
Fields(g) ==
  [stack |-> g.stack, loop |-> g.loop, call |-> g.call, trace |-> g.trace,
   callTraces |-> g.callTraces, callInfos |-> g.callInfos,
   waitingForInvocCompletion |-> g.waitingForInvocCompletion,
   traceDumpID |-> g.traceDumpID, timedOut |-> g.timedOut,
   loopFile |-> g.loopFile, callFile |-> g.callFile]

LoopFields(loop) ==
  [invocationNum |-> loop.invocationNum, iterationNum |-> loop.iterationNum,
   currCFC |-> loop.currCFC, iterations |-> loop.iterations,
   partiallyDumped |-> loop.partiallyDumped]

CallFields(call) ==
  [id |-> call.id, invocationNum |-> call.invocationNum, currCFC |-> call.currCFC,
   partiallyDumped |-> call.partiallyDumped]

LEMMA FieldsFacts ==
  \A g : HasFields(g) <=> /\ g = Fields(g) /\ g.loop = LoopFields(g.loop)
                          /\ g.call = CallFields(g.call)
BY DEF HasFields, Fields, LoopFields, CallFields

Started(loop, n, i, b) ==
  [loop EXCEPT !.invocationNum = n, !.iterationNum = i, !.partiallyDumped = b]

LEMMA InvocationStarts ==
  ASSUME NEW loop, loop = LoopFields(loop), NEW n, NEW i, NEW b, NEW h,
         h = Started(loop, n, i, b)
  PROVE  /\ h = LoopFields(h)
         /\ h.invocationNum = n /\ h.iterationNum = i /\ h.currCFC = loop.currCFC
         /\ h.partiallyDumped = b
<1>1. h = LoopFields(h)
  BY DEF LoopFields, Started
<1>2. h.invocationNum = n /\ h.iterationNum = i /\ h.partiallyDumped = b
  BY DEF LoopFields, Started
<1>3. h.currCFC = loop.currCFC
  BY DEF LoopFields, Started
<1>4. QED
  BY <1>1, <1>2, <1>3

WithLoop(g, s, l, t) ==
  [g EXCEPT !.stack = s, !.loop = l, !.trace = t]

LEMMA StackLoopTrace ==
  ASSUME NEW g, g = Fields(g), NEW s, NEW l, NEW t, NEW h,
         h = WithLoop(g, s, l, t)
  PROVE  /\ h = Fields(h)
         /\ h.stack = s /\ h.loop = l /\ h.call = g.call /\ h.trace = t
         /\ h.callTraces = g.callTraces /\ h.callInfos = g.callInfos
         /\ h.waitingForInvocCompletion = g.waitingForInvocCompletion
         /\ h.timedOut = g.timedOut /\ h.loopFile = g.loopFile
<1>1. h = Fields(h)
  BY DEF Fields, WithLoop
<1>2. h.stack = s /\ h.loop = l /\ h.call = g.call /\ h.trace = t
  BY DEF Fields, WithLoop
<1>3. h.callTraces = g.callTraces /\ h.callInfos = g.callInfos
  BY DEF Fields, WithLoop
<1>4. /\ h.waitingForInvocCompletion = g.waitingForInvocCompletion
      /\ h.timedOut = g.timedOut /\ h.loopFile = g.loopFile
  BY DEF Fields, WithLoop
<1>5. QED
  BY <1>1, <1>2, <1>3, <1>4

WithCalls(g, c, w) ==
  [g EXCEPT !.callTraces = c, !.waitingForInvocCompletion = w]

LEMMA CallTracesWaiting ==
  ASSUME NEW g, g = Fields(g), NEW c, NEW w, NEW h,
         h = WithCalls(g, c, w)
  PROVE  /\ h = Fields(h)
         /\ h.stack = g.stack /\ h.loop = g.loop /\ h.call = g.call /\ h.trace = g.trace
         /\ h.callTraces = c /\ h.callInfos = g.callInfos
         /\ h.waitingForInvocCompletion = w
         /\ h.timedOut = g.timedOut /\ h.loopFile = g.loopFile
<1>1. h = Fields(h)
  BY DEF Fields, WithCalls
<1>2. h.stack = g.stack /\ h.loop = g.loop /\ h.call = g.call /\ h.trace = g.trace
  BY DEF Fields, WithCalls
<1>3. h.callTraces = c /\ h.callInfos = g.callInfos
  BY DEF Fields, WithCalls
<1>4. /\ h.waitingForInvocCompletion = w
      /\ h.timedOut = g.timedOut /\ h.loopFile = g.loopFile
  BY DEF Fields, WithCalls
<1>5. QED
  BY <1>1, <1>2, <1>3, <1>4

LEMMA InitIInv == Init => IInv
<1> SUFFICES ASSUME Init PROVE IInv
  OBVIOUS
<1>1. globals = [stack       |-> <<>>,
                 loop        |-> [invocationNum |-> 0, iterationNum |-> -1, currCFC |-> <<>>,
                                  iterations |-> NoGroups, partiallyDumped |-> FALSE],
                 call        |-> [id |-> 0, invocationNum |-> 0, currCFC |-> <<>>,
                                  partiallyDumped |-> FALSE],
                 trace       |-> NoTrace,
                 callTraces  |-> NoCallTraces,
                 callInfos   |-> NoGroups,
                 waitingForInvocCompletion |-> FALSE,
                 traceDumpID |-> 0,
                 timedOut    |-> FALSE,
                 loopFile    |-> <<>>,
                 callFile    |-> <<>>]
      /\ atCall = 0 /\ closed = FALSE /\ idleDump = FALSE
  BY DEF Init
<1>2. IsGroups(NoGroups) /\ Divide(NoGroups, 0, 0)
  BY NoGroupsFacts
<1>3. HasFields(globals)
  BY <1>1 DEF HasFields
<1>4. IsLoop(globals.loop) /\ IsCall(globals.call)
  <2>1. MaxIterations \in Nat
    BY LoopTracerAssumption
  <2>2. <<>> \in Seq(Instrs \cup Calls) /\ <<>> \in Seq(SubInstrs)
    OBVIOUS
  <2>3. /\ globals.loop.iterationNum = -1 /\ globals.loop.currCFC = <<>>
        /\ globals.call.id = 0 /\ globals.call.currCFC = <<>>
    BY <1>1
  <2>4. globals.loop.partiallyDumped \in BOOLEAN /\ globals.call.partiallyDumped \in BOOLEAN
    BY <1>1
  <2>5. QED
    BY <2>1, <2>2, <2>3, <2>4 DEF IsLoop, IsCall
<1>5. /\ globals.stack = <<>> /\ globals.trace = NoTrace /\ globals.callTraces = NoCallTraces
      /\ globals.callInfos = NoGroups /\ globals.waitingForInvocCompletion \in BOOLEAN
      /\ globals.timedOut \in BOOLEAN
  BY <1>1
<1>6. Typed(globals)
  BY <1>2, <1>3, <1>4, <1>5, NoTraceTyped DEF Typed
<1>7. Completed(globals) = 0 /\ ~ LoopRunning(globals) /\ globals.trace.groups = NoGroups
  BY <1>5 DEF Completed, LoopRunning, NoTrace
<1>8. Grouped(globals)
  BY <1>2, <1>5, <1>7 DEF Grouped
<1>9. Fits(globals)
  <2>1. globals.loopFile = <<>> /\ Completed(globals) = 0
    BY <1>1, <1>7
  <2>2. QED
    BY <2>1, NothingWritten DEF Fits
<1>10. QED
  BY <1>1, <1>6, <1>8, <1>9 DEF IInv

LEMMA LoopInvocationStartKeepsIInv == IInv /\ LoopInvocationStart => IInv'
<1> SUFFICES ASSUME IInv, LoopInvocationStart PROVE IInv'
  OBVIOUS
<1> DEFINE n == globals.trace.numInvocations
           loop == [globals.loop EXCEPT !.invocationNum = n, !.iterationNum = -1,
                                        !.partiallyDumped = FALSE]
           trace == [globals.trace EXCEPT !.numInvocations = @ + 1]
           g == [globals EXCEPT !.stack = <<"loop">>, !.loop = loop, !.trace = trace]
<1>1. Callback(g) /\ atCall' = atCall /\ ~ LoopRunning(globals)
  BY DEF LoopInvocationStart
<1>2. Typed(globals) /\ Grouped(globals) /\ atCall = 0 /\ n \in Nat
  <2>1. Typed(globals) /\ Grouped(globals) /\ (atCall # 0 => globals.stack = <<"loop">>)
    BY DEF IInv
  <2>2. globals.stack # <<"loop">>
    BY <1>1 DEF LoopRunning
  <2>3. n \in Nat
    BY <2>1 DEF Typed, IsTypedTrace
  <2>4. QED
    BY <2>1, <2>2, <2>3
<1>f. globals = Fields(globals) /\ globals.loop = LoopFields(globals.loop)
      /\ globals.call = CallFields(globals.call)
  BY <1>2, FieldsFacts DEF Typed
<1>3. /\ loop = LoopFields(loop)
      /\ loop.invocationNum = n /\ loop.iterationNum = -1
      /\ loop.currCFC = globals.loop.currCFC /\ loop.partiallyDumped \in BOOLEAN
  <2>0. loop = Started(globals.loop, n, -1, FALSE)
    BY DEF Started
  <2> HIDE DEF n, loop
  <2>1. /\ loop = LoopFields(loop)
        /\ loop.invocationNum = n /\ loop.iterationNum = -1
        /\ loop.currCFC = globals.loop.currCFC
        /\ loop.partiallyDumped = FALSE
    <3>1. \A b, h : h = Started(globals.loop, n, -1, b) =>
                  /\ h = LoopFields(h)
                  /\ h.invocationNum = n /\ h.iterationNum = -1
                  /\ h.currCFC = globals.loop.currCFC
                  /\ h.partiallyDumped = b
      BY <1>f, InvocationStarts
    <3>2. QED
      BY <2>0, <3>1, Zenon
  <2>2. QED
    BY <2>1
<1>t. trace = [numInvocations |-> n + 1, groups |-> globals.trace.groups]
  BY <1>2 DEF Typed, IsTypedTrace
<1> HIDE DEF loop, trace
<1>g. g = WithLoop(globals, <<"loop">>, loop, trace)
  BY DEF WithLoop
<1> HIDE DEF g
<1>4. /\ g = Fields(g)
      /\ g.stack = <<"loop">> /\ g.loop = loop /\ g.call = globals.call /\ g.trace = trace
      /\ g.callTraces = globals.callTraces /\ g.callInfos = globals.callInfos
      /\ g.waitingForInvocCompletion = globals.waitingForInvocCompletion
      /\ g.timedOut = globals.timedOut /\ g.loopFile = globals.loopFile
  BY <1>f, <1>g, StackLoopTrace
<1>5. IsLoop(loop)
  BY <1>2, <1>3, LoopTracerAssumption DEF IsLoop, Typed
<1>6. HasFields(g)
  BY <1>f, <1>3, <1>4, FieldsFacts
<1>7. Typed(g)
  BY <1>2, <1>t, <1>4, <1>5, <1>6 DEF Typed, IsTypedTrace
<1>8. Completed(g) = Completed(globals) /\ LoopRunning(g) /\ Completed(globals) = n
  BY <1>1, <1>2, <1>t, <1>4 DEF Completed, LoopRunning
<1>9. /\ g.loop.invocationNum = n /\ g.trace.groups = globals.trace.groups
      /\ g.callInfos = globals.callInfos
  BY <1>3, <1>t, <1>4
<1>10. Grouped(g)
  BY <1>2, <1>8, <1>9 DEF Grouped
<1>11. ~ idleDump => Fits(g)
  BY <1>1, <1>4, <1>8, <1>9, FitsBefore, SameFits
<1>12. atCall' = 0
  BY <1>1, <1>2
<1>13. QED
  BY <1>1, <1>7, <1>10, <1>11, <1>12, CallbackKeepsIInv

LEMMA SharesDivide ==
  ASSUME NEW old, NEW new, NEW n \in Nat, NEW attemptMatch \in BOOLEAN,
         Shares(old, new, n, attemptMatch), IsGroups(old),
         NEW a \in Nat, a <= n, Divide(old, a, n)
  PROVE  Divide(new, a, n + 1)
BY ShareDivides DEF Shares

LEMMA LoopInvocationEndKeepsIInv == IInv /\ LoopInvocationEnd => IInv'
<1> SUFFICES ASSUME IInv, LoopInvocationEnd PROVE IInv'
  OBVIOUS
<1> DEFINE g0 == [globals EXCEPT !.stack = <<>>]
           g1 == FinishLoop(g0, ~ globals.loop.partiallyDumped)
           g2 == RecordCallTraces(g1, ~ g1.waitingForInvocCompletion)
           g == [g2 EXCEPT !.callTraces = NoCallTraces, !.waitingForInvocCompletion = FALSE]
           n == globals.loop.invocationNum
<1>1. Callback(g) /\ atCall' = atCall /\ globals.stack = <<"loop">> /\ atCall = 0
  BY DEF LoopInvocationEnd
<1>2. Typed(globals) /\ Grouped(globals)
  BY DEF IInv
<1>3. g0 = [stack |-> <<>>, loop |-> globals.loop, call |-> globals.call,
            trace |-> globals.trace,
            callTraces |-> globals.callTraces, callInfos |-> globals.callInfos,
            waitingForInvocCompletion |-> globals.waitingForInvocCompletion,
            traceDumpID |-> globals.traceDumpID, timedOut |-> globals.timedOut,
            loopFile |-> globals.loopFile, callFile |-> globals.callFile]
  BY <1>2 DEF Typed, HasFields
<1>b. (~ globals.loop.partiallyDumped) \in BOOLEAN
  OBVIOUS
<1> HIDE DEF g0
<1>4. HasFields(g0)
  BY <1>2, <1>3 DEF HasFields, Typed
<1>5. Typed(g0)
  BY <1>2, <1>3, <1>4 DEF Typed
<1>6. /\ Typed(g1) /\ Same(g0, g1) /\ g1.callInfos = g0.callInfos
      /\ Shares(g0.trace.groups, g1.trace.groups, g0.loop.invocationNum,
                ~ globals.loop.partiallyDumped)
      /\ Undumped(g0, g1)
  BY <1>5, <1>b, FinishLoopFacts
<1>c. (~ g1.waitingForInvocCompletion) \in BOOLEAN
  OBVIOUS
<1> HIDE DEF g1
<1>7. /\ Typed(g2) /\ Same(g1, g2) /\ g2.trace = g1.trace
      /\ Shares(g1.callInfos, g2.callInfos, g1.loop.invocationNum,
                ~ g1.waitingForInvocCompletion)
      /\ Undumped(g1, g2)
  BY <1>6, <1>c, RecordCallTracesFacts
<1> HIDE DEF g2
<1>f. g2 = Fields(g2) /\ g2.loop = LoopFields(g2.loop) /\ g2.call = CallFields(g2.call)
  BY <1>7, FieldsFacts DEF Typed
<1>g. g = WithCalls(g2, NoCallTraces, FALSE)
  BY DEF WithCalls
<1> HIDE DEF g
<1>8. /\ g = Fields(g)
      /\ g.stack = g2.stack /\ g.loop = g2.loop /\ g.call = g2.call /\ g.trace = g2.trace
      /\ g.callTraces = NoCallTraces /\ g.callInfos = g2.callInfos
      /\ g.waitingForInvocCompletion \in BOOLEAN
      /\ g.timedOut = g2.timedOut /\ g.loopFile = g2.loopFile
  <2>1. FALSE \in BOOLEAN
    OBVIOUS
  <2>2. QED
    <3>1. \A w, h : h = WithCalls(g2, NoCallTraces, w) =>
             /\ h = Fields(h)
             /\ h.stack = g2.stack /\ h.loop = g2.loop /\ h.call = g2.call
             /\ h.trace = g2.trace
             /\ h.callTraces = NoCallTraces /\ h.callInfos = g2.callInfos
             /\ h.waitingForInvocCompletion = w
             /\ h.timedOut = g2.timedOut /\ h.loopFile = g2.loopFile
      BY <1>f, CallTracesWaiting
    <3>2. QED
      BY <1>g, <2>1, <3>1, ZenonT(60)
<1>9. HasFields(g)
  BY <1>f, <1>8, FieldsFacts
<1>10. Typed(g)
  BY <1>7, <1>8, <1>9, NoTraceTyped DEF Typed
<1>11. LoopRunning(globals) /\ ~ LoopRunning(g) /\ g.stack = <<>>
       /\ g.trace.numInvocations = globals.trace.numInvocations
  BY <1>1, <1>3, <1>6, <1>7, <1>8 DEF LoopRunning, Same
<1>12. n = Completed(globals) /\ n \in Nat /\ Completed(g) = n + 1
  <2>1. n = Completed(globals) /\ n \in Nat
    BY <1>2, <1>11, CompletedIsInt DEF Grouped
  <2>2. Completed(globals) = globals.trace.numInvocations - 1
        /\ Completed(g) = g.trace.numInvocations - 0
        /\ globals.trace.numInvocations \in Nat
    BY <1>2, <1>11 DEF Completed, Typed, IsTypedTrace
  <2>3. QED
    BY <2>1, <2>2, <1>11
<1>13. g0.loop.invocationNum = n /\ g1.loop.invocationNum = n
  BY <1>3, <1>6 DEF Same
<1>14. PICK a \in Nat : /\ a <= n /\ Divide(globals.trace.groups, a, n)
                        /\ Divide(globals.callInfos, a, n)
  BY <1>2, <1>12 DEF Grouped
<1> HIDE DEF n
<1>15. Divide(g1.trace.groups, a, n + 1)
  <2>1. IsGroups(g0.trace.groups) /\ Divide(g0.trace.groups, a, n)
    BY <1>3, <1>5, <1>14 DEF Typed, IsTypedTrace
  <2>2. QED
    BY <2>1, <1>6, <1>b, <1>12, <1>13, <1>14, SharesDivide
<1>16. Divide(g2.callInfos, a, n + 1)
  <2>1. IsGroups(g1.callInfos) /\ Divide(g1.callInfos, a, n)
    BY <1>3, <1>6, <1>14 DEF Typed
  <2>2. QED
    BY <2>1, <1>7, <1>c, <1>12, <1>13, <1>14, SharesDivide
<1>17. Grouped(g)
  <2>1. Divide(g.trace.groups, a, n + 1) /\ Divide(g.callInfos, a, n + 1) /\ a <= n + 1
    BY <1>7, <1>8, <1>12, <1>14, <1>15, <1>16
  <2>2. QED
    BY <2>1, <1>11, <1>12 DEF Grouped
<1>18. ~ idleDump => Fits(g)
  <2> DEFINE attemptMatch == ~ globals.loop.partiallyDumped
  <2>1. g.loopFile = globals.loopFile /\ g.trace.groups = g1.trace.groups
    BY <1>3, <1>6, <1>7, <1>8 DEF Undumped
  <2>2. IsGroups(globals.trace.groups) /\ IsGroups(g.trace.groups)
    BY <1>2, <1>10 DEF Typed, IsTypedTrace
  <2>3. Shares(globals.trace.groups, g.trace.groups, globals.loop.invocationNum, attemptMatch)
    BY <1>3, <1>6, <2>1
  <2>4. attemptMatch \in BOOLEAN /\ (globals.loop.partiallyDumped => ~ attemptMatch)
    OBVIOUS
  <2> HIDE DEF attemptMatch
  <2>5. Extends(globals.trace.groups, g.trace.groups, globals.loop.invocationNum, attemptMatch)
    BY <2>2, <2>3, <2>4, SharesExtend
  <2>6. QED
    BY <1>1, <2>1, <2>2, <2>4, <2>5, FitsBefore, EndFits
<1>19. atCall' = 0
  BY <1>1
<1>20. QED
  BY <1>1, <1>10, <1>17, <1>18, <1>19, CallbackKeepsIInv

LEMMA LoopChanges ==
  ASSUME NEW g, Typed(g), Grouped(g), NEW loop, loop = LoopFields(loop), IsLoop(loop),
         loop.invocationNum = g.loop.invocationNum,
         loop.partiallyDumped = g.loop.partiallyDumped, NEW h, h = [g EXCEPT !.loop = loop]
  PROVE  Typed(h) /\ Grouped(h) /\ h.stack = g.stack /\ (Fits(g) => Fits(h))
<1>1. g = Fields(g) /\ g.loop = LoopFields(g.loop) /\ g.call = CallFields(g.call)
  BY FieldsFacts DEF Typed
<1>2. /\ h = Fields(h)
      /\ h.stack = g.stack /\ h.loop = loop /\ h.call = g.call /\ h.trace = g.trace
  BY <1>1 DEF Fields
<1>3. /\ h.callTraces = g.callTraces /\ h.callInfos = g.callInfos
      /\ h.waitingForInvocCompletion = g.waitingForInvocCompletion
      /\ h.timedOut = g.timedOut /\ h.loopFile = g.loopFile
  BY <1>1 DEF Fields
<1>4. HasFields(h)
  BY <1>1, <1>2, FieldsFacts
<1>5. Typed(h)
  BY <1>2, <1>3, <1>4 DEF Typed
<1>6. Same(g, h)
  BY <1>2 DEF Same
<1>7. Fits(g) => Fits(h)
  <2>1. Completed(h) = Completed(g) /\ (LoopRunning(g) => LoopRunning(h))
    BY <1>2 DEF Completed, LoopRunning
  <2>2. QED
    BY <1>2, <1>3, <2>1, SameFits
<1>8. QED
  BY <1>2, <1>3, <1>5, <1>6, <1>7, SameGrouped

LEMMA CallChanges ==
  ASSUME NEW g, Typed(g), Grouped(g), NEW call, call = CallFields(call), IsCall(call),
         NEW h, h = [g EXCEPT !.call = call]
  PROVE  Typed(h) /\ Grouped(h) /\ h.stack = g.stack /\ (Fits(g) => Fits(h))
<1>1. g = Fields(g) /\ g.loop = LoopFields(g.loop) /\ g.call = CallFields(g.call)
  BY FieldsFacts DEF Typed
<1>2. /\ h = Fields(h)
      /\ h.stack = g.stack /\ h.loop = g.loop /\ h.call = call /\ h.trace = g.trace
  BY <1>1 DEF Fields
<1>3. /\ h.callTraces = g.callTraces /\ h.callInfos = g.callInfos
      /\ h.waitingForInvocCompletion = g.waitingForInvocCompletion
      /\ h.timedOut = g.timedOut /\ h.loopFile = g.loopFile
  BY <1>1 DEF Fields
<1>4. HasFields(h)
  BY <1>1, <1>2, FieldsFacts
<1>5. Typed(h)
  BY <1>2, <1>3, <1>4 DEF Typed
<1>6. Same(g, h)
  BY <1>2 DEF Same
<1>7. Fits(g) => Fits(h)
  <2>1. Completed(h) = Completed(g) /\ (LoopRunning(g) => LoopRunning(h))
    BY <1>2 DEF Completed, LoopRunning
  <2>2. QED
    BY <1>2, <1>3, <2>1, SameFits
<1>8. QED
  BY <1>2, <1>3, <1>5, <1>6, <1>7, SameGrouped

LEMMA LoopIterationStartKeepsIInv == IInv /\ LoopIterationStart => IInv'
<1> SUFFICES ASSUME IInv, LoopIterationStart PROVE IInv'
  OBVIOUS
<1> DEFINE r == RecordIteration(globals.loop)
           loop == [r EXCEPT !.iterationNum = @ + 1]
           g == [globals EXCEPT !.loop = loop]
<1>1. /\ Callback(g) /\ atCall' = atCall /\ atCall = 0
      /\ globals.loop.iterationNum + 1 < MaxIterations
  BY DEF LoopIterationStart
<1>2. Typed(globals) /\ Grouped(globals)
  BY DEF IInv
<1>3. /\ r = LoopFields(r) /\ r.invocationNum = globals.loop.invocationNum
      /\ r.iterationNum = globals.loop.iterationNum
      /\ r.partiallyDumped = globals.loop.partiallyDumped
      /\ r.currCFC \in Seq(Instrs \cup Calls)
  <2>1. /\ r = [invocationNum |-> globals.loop.invocationNum,
                iterationNum |-> globals.loop.iterationNum, currCFC |-> r.currCFC,
                iterations |-> r.iterations,
                partiallyDumped |-> globals.loop.partiallyDumped]
        /\ r.currCFC \in Seq(Instrs \cup Calls)
    BY <1>2, RecordIterationFacts
  <2> HIDE DEF r
  <2>2. /\ r.invocationNum = globals.loop.invocationNum
        /\ r.iterationNum = globals.loop.iterationNum
        /\ r.partiallyDumped = globals.loop.partiallyDumped
    BY <2>1
  <2>3. r = LoopFields(r)
    BY <2>1, <2>2 DEF LoopFields
  <2>4. QED
    BY <2>1, <2>2, <2>3
<1> HIDE DEF r
<1>4. /\ loop = LoopFields(loop) /\ loop.invocationNum = r.invocationNum
      /\ loop.iterationNum = r.iterationNum + 1
      /\ loop.partiallyDumped = r.partiallyDumped
      /\ loop.currCFC = r.currCFC
  BY <1>3 DEF LoopFields
<1> HIDE DEF loop
<1>5. IsLoop(loop)
  <2>1. MaxIterations \in Nat
    BY LoopTracerAssumption
  <2>2. loop.iterationNum \in -1 .. MaxIterations - 1
    BY <1>1, <1>2, <1>3, <1>4, <2>1 DEF Typed, IsLoop
  <2>3. loop.partiallyDumped \in BOOLEAN
    BY <1>2, <1>3, <1>4 DEF Typed, IsLoop
  <2>4. QED
    BY <1>3, <1>4, <2>2, <2>3 DEF IsLoop
<1>6. Typed(g) /\ Grouped(g) /\ (Fits(globals) => Fits(g))
  BY <1>2, <1>3, <1>4, <1>5, LoopChanges
<1> HIDE DEF g
<1>7. ~ idleDump => Fits(g)
  BY <1>1, <1>6, FitsBefore
<1>8. QED
  BY <1>1, <1>6, <1>7, CallbackKeepsIInv

LEMMA LoopSeenInstructionKeepsIInv ==
  ASSUME IInv, NEW i \in Instrs \cup Calls, LoopSeenInstruction(i)
  PROVE  IInv'
<1> DEFINE loop == [globals.loop EXCEPT !.currCFC = Append(@, i)]
           g == [globals EXCEPT !.loop = loop]
<1>1. /\ Callback(g) /\ atCall' = (IF i \in Calls THEN i ELSE 0)
      /\ globals.stack = <<"loop">>
  BY DEF LoopSeenInstruction
<1>2. Typed(globals) /\ Grouped(globals) /\ globals.loop = LoopFields(globals.loop)
  BY FieldsFacts DEF IInv, Typed
<1>3. /\ loop = LoopFields(loop) /\ loop.invocationNum = globals.loop.invocationNum
      /\ loop.iterationNum = globals.loop.iterationNum
      /\ loop.partiallyDumped = globals.loop.partiallyDumped
      /\ loop.currCFC = Append(globals.loop.currCFC, i)
  BY <1>2 DEF LoopFields
<1> HIDE DEF loop
<1>4. IsLoop(loop)
  BY <1>2, <1>3 DEF Typed, IsLoop
<1>5. Typed(g) /\ Grouped(g) /\ g.stack = globals.stack /\ (Fits(globals) => Fits(g))
  BY <1>2, <1>3, <1>4, LoopChanges
<1> HIDE DEF g
<1>6. atCall' \in Calls \cup {0} /\ (~ idleDump => Fits(g))
  BY <1>1, <1>5, FitsBefore
<1>7. QED
  BY <1>1, <1>5, <1>6, CallbackKeepsIInv

LEMMA CallSeenInstructionKeepsIInv ==
  ASSUME IInv, NEW i \in SubInstrs, CallSeenInstruction(i)
  PROVE  IInv'
<1> DEFINE call == [globals.call EXCEPT !.currCFC = Append(@, i)]
           g == [globals EXCEPT !.call = call]
<1>1. Callback(g) /\ atCall' = atCall
  BY DEF CallSeenInstruction
<1>2. Typed(globals) /\ Grouped(globals) /\ globals.call = CallFields(globals.call)
  BY FieldsFacts DEF IInv, Typed
<1>3. /\ call = CallFields(call) /\ call.id = globals.call.id
      /\ call.partiallyDumped = globals.call.partiallyDumped
      /\ call.currCFC = Append(globals.call.currCFC, i)
  BY <1>2, SMTT(60) DEF CallFields
<1> HIDE DEF call
<1>4. IsCall(call)
  BY <1>2, <1>3 DEF Typed, IsCall
<1>5. Typed(g) /\ Grouped(g) /\ g.stack = globals.stack /\ (Fits(globals) => Fits(g))
  BY <1>2, <1>3, <1>4, CallChanges
<1> HIDE DEF g
<1>6. ~ idleDump => Fits(g)
  BY <1>1, <1>5, FitsBefore
<1>7. atCall' \in Calls \cup {0} /\ (atCall' # 0 => g.stack = <<"loop">>)
  BY <1>1, <1>5 DEF IInv
<1>8. QED
  BY <1>1, <1>5, <1>6, <1>7, CallbackKeepsIInv

\* What CallInvocationStart does to globals.
WithCall(g, s, call, traces) ==
  [g EXCEPT !.stack = s, !.call = call, !.callTraces = traces]

LEMMA StackCallTraces ==
  ASSUME NEW g, g = Fields(g), NEW s, NEW call, NEW traces, NEW h,
         h = WithCall(g, s, call, traces)
  PROVE  /\ h = Fields(h)
         /\ h.stack = s /\ h.loop = g.loop /\ h.call = call /\ h.trace = g.trace
         /\ h.callTraces = traces /\ h.callInfos = g.callInfos
         /\ h.waitingForInvocCompletion = g.waitingForInvocCompletion
         /\ h.timedOut = g.timedOut /\ h.loopFile = g.loopFile
<1>1. h = Fields(h)
  BY DEF Fields, WithCall
<1>2. h.stack = s /\ h.loop = g.loop /\ h.call = call /\ h.trace = g.trace
  BY DEF Fields, WithCall
<1>3. h.callTraces = traces /\ h.callInfos = g.callInfos
  BY DEF Fields, WithCall
<1>4. /\ h.waitingForInvocCompletion = g.waitingForInvocCompletion
      /\ h.timedOut = g.timedOut /\ h.loopFile = g.loopFile
  BY DEF Fields, WithCall
<1>5. QED
  BY <1>1, <1>2, <1>3, <1>4

CallStarted(call, id, n, b) ==
  [call EXCEPT !.id = id, !.invocationNum = n, !.partiallyDumped = b]

LEMMA CallStarts ==
  ASSUME NEW call, call = CallFields(call), NEW id, NEW n, NEW b, NEW h,
         h = CallStarted(call, id, n, b)
  PROVE  /\ h = CallFields(h)
         /\ h.id = id /\ h.currCFC = call.currCFC /\ h.partiallyDumped = b
<1>1. h = CallFields(h)
  BY DEF CallFields, CallStarted
<1>2. h.id = id /\ h.currCFC = call.currCFC /\ h.partiallyDumped = b
  BY DEF CallFields, CallStarted
<1>3. QED
  BY <1>1, <1>2

LEMMA AppendedPair ==
  ASSUME NEW x, NEW y
  PROVE  Append(<<x>>, y) = <<x, y>>
<1> DEFINE S == {x, y}
           r == Append(<<x>>, y)
           q == <<x, y>>
<1>1. <<x>> \in Seq(S) /\ y \in S /\ Len(<<x>>) = 1 /\ <<x>>[1] = x
  OBVIOUS
<1>2. r \in Seq(S)
  BY <1>1, AppendProperties
<1>3. Len(r) = 2
  BY <1>1
<1>4. r[1] = x
  BY <1>1
<1>5. r[2] = y
  BY <1>1
<1>6. q \in Seq(S)
  OBVIOUS
<1>7. Len(q) = 2 /\ q[1] = x /\ q[2] = y
  OBVIOUS
<1>8. \A i \in 1 .. 2 : i = 1 \/ i = 2
  OBVIOUS
<1> HIDE DEF r, q, S
<1>9. r = q
  BY <1>2, <1>3, <1>4, <1>5, <1>6, <1>7, <1>8, SeqEqual
<1>10. QED
  BY <1>9 DEF r, q

LEMMA CallInvocationStartKeepsIInv == IInv /\ CallInvocationStart => IInv'
<1> SUFFICES ASSUME IInv, CallInvocationStart PROVE IInv'
  OBVIOUS
<1> DEFINE s == Append(globals.stack, "call")
           n == globals.callTraces[atCall].numInvocations
           call == [globals.call EXCEPT !.id = atCall, !.invocationNum = n,
                                        !.partiallyDumped = FALSE]
           traces == [globals.callTraces EXCEPT ![atCall].numInvocations = @ + 1]
           g == [globals EXCEPT !.stack = s, !.call = call, !.callTraces = traces]
<1>1. Callback(g) /\ atCall # 0 /\ atCall' = 0
  BY DEF CallInvocationStart
<1>2. /\ Typed(globals) /\ Grouped(globals) /\ globals.stack = <<"loop">>
      /\ atCall \in Calls
  BY <1>1 DEF IInv
<1>3. /\ globals = Fields(globals) /\ globals.loop = LoopFields(globals.loop)
      /\ globals.call = CallFields(globals.call)
  BY <1>2, FieldsFacts DEF Typed
<1>4. s = <<"loop", "call">>
  <2>1. Append(<<"loop">>, "call") = <<"loop", "call">>
    BY AppendedPair
  <2>2. QED
    BY <1>2, <2>1
<1>5. /\ call = CallFields(call) /\ call.id = atCall
      /\ call.currCFC = globals.call.currCFC /\ call.partiallyDumped = FALSE
  <2>1. call = CallStarted(globals.call, atCall, n, FALSE)
    BY DEF CallStarted
  <2> HIDE DEF call
  <2>2. \A b, h : h = CallStarted(globals.call, atCall, n, b) =>
          /\ h = CallFields(h) /\ h.id = atCall
          /\ h.currCFC = globals.call.currCFC /\ h.partiallyDumped = b
    BY <1>3, CallStarts
  <2>3. QED
    BY <2>1, <2>2, Zenon
<1>6. IsCall(call)
  <2> HIDE DEF call
  <2>1. call.partiallyDumped \in BOOLEAN
    BY <1>5
  <2>2. QED
    BY <1>2, <1>5, <2>1 DEF IsCall, Typed
<1>7. IsCallTraces(traces)
  <2>1. globals.callTraces = [c \in Calls |-> globals.callTraces[c]]
        /\ \A c \in Calls : IsTypedTrace(globals.callTraces[c])
    BY <1>2 DEF Typed, IsCallTraces
  <2>2. traces = [c \in Calls |-> traces[c]]
    BY <2>1
  <2>3. ASSUME NEW c \in Calls
        PROVE  IsTypedTrace(traces[c])
    <3>1. CASE c = atCall
      <4>1. traces[c] = [globals.callTraces[c] EXCEPT !.numInvocations = @ + 1]
        BY <2>1, <3>1
      <4>2. traces[c] = [numInvocations |-> globals.callTraces[c].numInvocations + 1,
                         groups |-> globals.callTraces[c].groups]
        BY <4>1, <2>1 DEF IsTypedTrace
      <4>3. /\ globals.callTraces[c].numInvocations + 1 \in Nat
            /\ IsGroups(globals.callTraces[c].groups)
        <5>1. IsTypedTrace(globals.callTraces[c])
          BY <2>1
        <5>2. \A t : IsTypedTrace(t) => t.numInvocations + 1 \in Nat /\ IsGroups(t.groups)
          BY DEF IsTypedTrace
        <5>3. QED
          BY <5>1, <5>2
      <4>4. QED
        BY <4>2, <4>3 DEF IsTypedTrace
    <3>2. CASE c # atCall
      <4>1. traces[c] = globals.callTraces[c]
        BY <2>1, <3>2
      <4>2. QED
        BY <4>1, <2>1
    <3>3. QED
      BY <3>1, <3>2
  <2>4. QED
    BY <2>2, <2>3 DEF IsCallTraces
<1> HIDE DEF s, n, call, traces
<1>8. g = WithCall(globals, s, call, traces)
  BY DEF WithCall
<1> HIDE DEF g
<1>9. /\ g = Fields(g)
      /\ g.stack = s /\ g.loop = globals.loop /\ g.call = call /\ g.trace = globals.trace
      /\ g.callTraces = traces /\ g.callInfos = globals.callInfos
      /\ g.waitingForInvocCompletion = globals.waitingForInvocCompletion
      /\ g.timedOut = globals.timedOut /\ g.loopFile = globals.loopFile
  BY <1>3, <1>8, StackCallTraces
<1>10. HasFields(g)
  BY <1>3, <1>5, <1>9, FieldsFacts
<1>11. Typed(g)
  BY <1>2, <1>4, <1>6, <1>7, <1>9, <1>10 DEF Typed
<1>12. LoopRunning(globals) /\ LoopRunning(g) /\ Completed(g) = Completed(globals)
  BY <1>2, <1>4, <1>9 DEF LoopRunning, Completed
<1>13. Grouped(g)
  BY <1>2, <1>9, <1>12 DEF Grouped
<1>14. ~ idleDump => Fits(g)
  BY <1>1, <1>9, <1>12, FitsBefore, SameFits
<1>15. QED
  BY <1>1, <1>11, <1>13, <1>14, CallbackKeepsIInv

LEMMA StackChanges ==
  ASSUME NEW g, Typed(g), NEW s \in {<<>>, <<"loop">>, <<"loop", "call">>}, NEW h,
         h = [g EXCEPT !.stack = s]
  PROVE  /\ Typed(h) /\ h.stack = s /\ h.trace = g.trace /\ h.callInfos = g.callInfos
         /\ h.loop = g.loop /\ h.loopFile = g.loopFile
<1>1. g = Fields(g) /\ g.loop = LoopFields(g.loop) /\ g.call = CallFields(g.call)
  BY FieldsFacts DEF Typed
<1>2. /\ h = Fields(h)
      /\ h.stack = s /\ h.loop = g.loop /\ h.call = g.call /\ h.trace = g.trace
  BY <1>1 DEF Fields
<1>3. /\ h.callTraces = g.callTraces /\ h.callInfos = g.callInfos
      /\ h.waitingForInvocCompletion = g.waitingForInvocCompletion
      /\ h.timedOut = g.timedOut /\ h.loopFile = g.loopFile
  BY <1>1 DEF Fields
<1>4. HasFields(h)
  BY <1>1, <1>2, FieldsFacts
<1>5. QED
  BY <1>2, <1>3, <1>4 DEF Typed

LEMMA CallInvocationEndKeepsIInv == IInv /\ CallInvocationEnd => IInv'
<1> SUFFICES ASSUME IInv, CallInvocationEnd PROVE IInv'
  OBVIOUS
<1> DEFINE g0 == [globals EXCEPT !.stack = <<"loop">>]
           g == FinishCall(g0, ~ globals.call.partiallyDumped)
<1>1. Callback(g) /\ atCall' = atCall /\ CallRunning(globals)
  BY DEF CallInvocationEnd
<1>2. Typed(globals) /\ Grouped(globals)
  BY DEF IInv
<1>3. LoopRunning(globals)
  <2>1. Len(globals.stack) = 2
    BY <1>1 DEF CallRunning
  <2>2. QED
    BY <2>1 DEF LoopRunning
<1>4. /\ Typed(g0) /\ g0.stack = <<"loop">> /\ g0.trace = globals.trace
      /\ g0.callInfos = globals.callInfos /\ g0.loop = globals.loop
      /\ g0.loopFile = globals.loopFile
  BY <1>2, StackChanges
<1> HIDE DEF g0
<1>b. (~ globals.call.partiallyDumped) \in BOOLEAN
  OBVIOUS
<1>5. /\ Typed(g) /\ Same(g0, g) /\ g.trace = g0.trace /\ g.callInfos = g0.callInfos
      /\ Undumped(g0, g)
  BY <1>4, <1>b, FinishCallFacts
<1> HIDE DEF g
<1>6. LoopRunning(g) /\ Completed(g) = Completed(globals) /\ g.stack = <<"loop">>
  BY <1>3, <1>4, <1>5 DEF Same, LoopRunning, Completed
<1>7. Grouped(g)
  BY <1>2, <1>3, <1>4, <1>5, <1>6 DEF Grouped, Same
<1>8. ~ idleDump => Fits(g)
  <2>1. /\ g.loopFile = globals.loopFile /\ g.trace.groups = globals.trace.groups
        /\ g.loop.invocationNum = globals.loop.invocationNum
        /\ g.loop.partiallyDumped = globals.loop.partiallyDumped
    BY <1>4, <1>5 DEF Same, Undumped
  <2>2. QED
    BY <1>1, <1>6, <2>1, FitsBefore, SameFits
<1>9. atCall' \in Calls \cup {0}
  BY <1>1 DEF IInv
<1>10. QED
  BY <1>1, <1>5, <1>6, <1>7, <1>8, <1>9, CallbackKeepsIInv

LEMMA ForceLoopTraceDumpKeepsIInv == IInv /\ ForceLoopTraceDump => IInv'
<1> SUFFICES ASSUME IInv, ForceLoopTraceDump PROVE IInv'
  OBVIOUS
<1>1. /\ globals' = DumpTraces(globals) /\ ~ closed /\ closed' = closed /\ atCall' = atCall
      /\ idleDump' = (idleDump \/ ~ LoopRunning(globals))
  BY DEF ForceLoopTraceDump
<1>2. Typed(globals) /\ Grouped(globals)
  BY DEF IInv
<1>3. Typed(globals') /\ Grouped(globals') /\ globals'.stack = globals.stack
  BY <1>1, <1>2, DumpTracesFacts, DumpGrouped DEF Same
<1>4. idleDump' \in BOOLEAN
  BY <1>1
<1>5. ~ idleDump' => Fits(globals')
  BY <1>1, <1>2, DumpFits DEF IInv
<1>6. QED
  BY <1>1, <1>3, <1>4, <1>5 DEF IInv

LEMMA LoopTraceShutdownKeepsIInv == IInv /\ LoopTraceShutdown => IInv'
<1> SUFFICES ASSUME IInv, LoopTraceShutdown PROVE IInv'
  OBVIOUS
<1>1. /\ globals' = WriteTraces(globals) /\ ~ closed /\ closed' = TRUE /\ atCall' = atCall
      /\ idleDump' = idleDump
      /\ ~ LoopRunning(globals) \/ globals.timedOut
  BY DEF LoopTraceShutdown
<1>2. Typed(globals) /\ Grouped(globals)
  BY DEF IInv
<1>3. /\ Typed(globals') /\ Same(globals, globals') /\ globals'.trace = globals.trace
      /\ globals'.callInfos = globals.callInfos /\ globals'.timedOut = globals.timedOut
  BY <1>1, <1>2, WriteTracesFacts
<1>4. Grouped(globals')
  BY <1>2, <1>3, SameGrouped
<1>5. ~ idleDump' /\ ~ globals'.timedOut => Finished(globals'.loopFile)
  <2>1. SUFFICES ASSUME ~ idleDump', ~ globals'.timedOut
                 PROVE  Finished(globals'.loopFile)
    OBVIOUS
  <2>2. ~ LoopRunning(globals) /\ Fits(globals)
    BY <1>1, <1>3, <2>1 DEF IInv
  <2>3. QED
    BY <1>1, <1>2, <2>2, WriteFinishes
<1>6. closed' \in BOOLEAN /\ closed'
  BY <1>1
<1>7. QED
  BY <1>1, <1>3, <1>4, <1>5, <1>6 DEF IInv, Same

LEMMA NextIInv == IInv /\ [Next]_vars => IInv'
<1> SUFFICES ASSUME IInv, [Next]_vars PROVE IInv'
  OBVIOUS
<1>1. CASE LoopInvocationStart
  BY <1>1, LoopInvocationStartKeepsIInv
<1>2. CASE LoopInvocationEnd
  BY <1>2, LoopInvocationEndKeepsIInv
<1>3. CASE LoopIterationStart
  BY <1>3, LoopIterationStartKeepsIInv
<1>4. CASE \E i \in Instrs \cup Calls : LoopSeenInstruction(i)
  BY <1>4, LoopSeenInstructionKeepsIInv
<1>5. CASE CallInvocationStart
  BY <1>5, CallInvocationStartKeepsIInv
<1>6. CASE \E i \in SubInstrs : CallSeenInstruction(i)
  BY <1>6, CallSeenInstructionKeepsIInv
<1>7. CASE CallInvocationEnd
  BY <1>7, CallInvocationEndKeepsIInv
<1>8. CASE ForceLoopTraceDump
  BY <1>8, ForceLoopTraceDumpKeepsIInv
<1>9. CASE LoopTraceShutdown
  BY <1>9, LoopTraceShutdownKeepsIInv
<1>10. CASE UNCHANGED vars
  BY <1>10 DEF vars, IInv
<1>11. QED
  BY <1>1, <1>2, <1>3, <1>4, <1>5, <1>6, <1>7, <1>8, <1>9, <1>10 DEF Next

LEMMA MinIsFirst ==
  ASSUME NEW S \in SUBSET Int, NEW m, First(m, S)
  PROVE  Min(S) = m
<1>1. m \in S /\ \A y \in S : m <= y
  BY DEF First
<1>2. Min(S) \in S /\ \A y \in S : Min(S) <= y
  BY <1>1 DEF Min
<1>3. m \in Int /\ Min(S) \in Int /\ m <= Min(S) /\ Min(S) <= m
  BY <1>1, <1>2
<1>4. QED
  BY <1>3

LEMMA IntervalEnds ==
  ASSUME NEW a \in Int, NEW b \in Int, a <= b
  PROVE  Min(a .. b) = a /\ Max(a .. b) = b
BY DEF Min, Max

-----------------------------------------------------------------------------
(* The theorem                                                             *)

(***************************************************************************)
(* For any number of invocations, iterations, instructions, calls and      *)
(* dumps, wherever the dumps fall: between two dumps, each invocation      *)
(* completed is in one group of the loop trace and in one of the call      *)
(* trace, without a gap and in order, so that the reader may take the next *)
(* entry of the file without looking which invocations it is for           *)
(* (processInvocation, recordCallTracesForInvocation, dumpTraces).         *)
(***************************************************************************)
THEOREM InvocationsAlwaysGrouped == Spec => []InvocationsGrouped
<1>1. ASSUME IInv PROVE InvocationsGrouped
  <2>1. Typed(globals) /\ Grouped(globals)
    BY <1>1 DEF IInv
  <2> DEFINE k == Completed(globals)
             lg == globals.trace.groups
             cg == globals.callInfos
  <2>2. PICK a \in Nat : a <= k /\ Divide(lg, a, k) /\ Divide(cg, a, k)
    BY <2>1 DEF Grouped
  <2>3. k \in Int
    BY <2>1, CompletedIsInt
  <2>4. ASSUME NEW t, IsTypedTrace(t)
        PROVE  IsTrace(t)
    <3>1. PICK S : t.groups.items \in Seq(S)
      BY <2>4 DEF IsTypedTrace, IsGroups
    <3>2. ToSet(t.groups.recent) \subseteq DOMAIN t.groups.items
      BY <2>4 DEF IsTypedTrace, IsGroups, ToSet
    <3>3. \A i \in DOMAIN t.groups.items : t.groups.items[i].partiallyDumped \in BOOLEAN
      BY <2>4 DEF IsTypedTrace, IsGroups, IsGroup
    <3>4. QED
      BY <2>4, <3>2, <3>3 DEF IsTrace, IsTypedTrace, IsGroups
  <2>5. TypeOK
    <3>1. IsTrace(globals.trace) /\ \A c \in Calls : IsTrace(globals.callTraces[c])
      BY <2>1, <2>4 DEF Typed, IsCallTraces
    <3>2. {globals.waitingForInvocCompletion, globals.timedOut, closed, idleDump} \subseteq BOOLEAN
      BY <1>1, <2>1 DEF IInv, Typed
    <3>3. QED
      BY <1>1, <2>1, <3>1, <3>2 DEF TypeOK, IInv, Typed, IsLoop, IsCall
  <2> HIDE DEF k
  <2>6. ASSUME NEW groups, Divide(groups, a, k)
        PROVE  /\ \A i, j \in DOMAIN groups.items :
                    i < j => /\ Min(groups.items[i].sharers) < Min(groups.items[j].sharers)
                             /\ groups.items[i].sharers \cap groups.items[j].sharers = {}
               /\ Sharers(groups) = a .. k - 1
    <3> DEFINE S(i) == groups.items[i].sharers
    <3>1. ASSUME NEW i \in DOMAIN groups.items, NEW j \in DOMAIN groups.items, i < j
          PROVE  Min(S(i)) < Min(S(j)) /\ S(i) \cap S(j) = {}
      <4>1. PICK m : First(m, S(i))
        BY <2>6 DEF Divide
      <4>2. PICK l : First(l, S(j))
        BY <2>6 DEF Divide
      <4>3. m < l /\ S(i) \cap S(j) = {}
        BY <2>6, <3>1, <4>1, <4>2 DEF Divide
      <4>4. S(i) \in SUBSET Int /\ S(j) \in SUBSET Int
        BY <2>3, <2>6 DEF Divide
      <4> HIDE DEF S
      <4>5. Min(S(i)) = m /\ Min(S(j)) = l
        BY <4>1, <4>2, <4>4, MinIsFirst
      <4>6. QED
        BY <4>3, <4>5
    <3>2. \A x : x \in Sharers(groups) <=> \E i \in DOMAIN groups.items : x \in S(i)
      BY DEF Sharers
    <3>3. \A i \in DOMAIN groups.items : S(i) \subseteq a .. k - 1
      BY <2>6 DEF Divide
    <3>4. \A x \in a .. k - 1 : \E i \in DOMAIN groups.items : x \in S(i)
      BY <2>6 DEF Divide
    <3>5. Sharers(groups) = a .. k - 1
      <4> HIDE DEF S
      <4>1. QED
        BY <3>2, <3>3, <3>4
    <3>6. QED
      BY <3>1, <3>5
  <2>7. Sharers(lg) = a .. k - 1 /\ Sharers(cg) = a .. k - 1
    BY <2>2, <2>6
  <2>8. a .. k - 1 # {} => Min(a .. k - 1) = a /\ Max(a .. k - 1) = k - 1
    BY <2>3, IntervalEnds
  <2>9. ~ LoopRunning(globals) => k - 1 = globals.trace.numInvocations - 1
    BY <2>1 DEF k, Completed, Typed, IsTypedTrace
  <2>10. QED
    BY <2>2, <2>5, <2>6, <2>7, <2>8, <2>9 DEF InvocationsGrouped
<1>2. Spec => []IInv
  BY InitIInv, NextIInv, PTL DEF Spec
<1>3. QED
  BY <1>1, <1>2, PTL

(***************************************************************************)
(* For any program and any dumps: a loop trace that was closed without a   *)
(* dump between invocations, and without the timeout, is read to its end.  *)
(* The scanner never aborts (loop_trace_cfc_parser.lex), and the streamer  *)
(* finds behind every incomplete entry one that goes on with the same      *)
(* invocation (LoopTraceStreamer::getNextEntry, mergeIntoAndReturnRemaining)*)
(***************************************************************************)
THEOREM LoopTraceAlwaysReadable == Spec => []Readable
<1>1. ASSUME IInv PROVE Readable
  <2>1. SUFFICES ASSUME closed, ~ idleDump, ~ globals.timedOut
                 PROVE  ReadEntries(globals.loopFile).status = "ok"
    BY DEF Readable, LoopTraceRead
  <2> DEFINE file == globals.loopFile
  <2>2. PICK read : Reached(file, read) /\ Closed(read)
    BY <1>1, <2>1 DEF IInv, Finished
  <2>3. PICK m, x, entries :
          /\ Scanned(file) = [state |-> 0, remaining |-> m, entry |-> x, entries |-> entries]
          /\ Reads(entries, read)
    BY <2>2 DEF Reached
  <2>4. Joined(entries) = [status |-> "ok", read |-> read]
    BY <2>3 DEF Reads
  <2> DEFINE r == Joined(Scanned(file).entries)
  <2>5. Scanned(file).state = 0 /\ Scanned(file).entries = entries
    BY <2>3
  <2>6. r.status = "ok" /\ r.read = read
    BY <2>4, <2>5
  <2>7. Scanned(file).state # Aborted
    BY <2>5 DEF Aborted
  <2>8. ~ (r.read # <<>> /\ ~ Last(r.read).complete)
    BY <2>2, <2>6 DEF Closed, Last
  <2> HIDE DEF r, file
  <2>9. ReadEntries(file) = r
    BY <2>7, <2>8 DEF ReadEntries, r
  <2>10. QED
    BY <2>6, <2>9 DEF file
<1>2. Spec => []IInv
  BY InitIInv, NextIInv, PTL DEF Spec
<1>3. QED
  BY <1>1, <1>2, PTL
=============================================================================
