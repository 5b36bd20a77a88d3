---------------------- MODULE DependenceAnalysis_proofs ----------------------
(***************************************************************************)
(* The analysis reads the memory streams in step with the loop and call    *)
(* traces, tags what it reads with the iteration and the instruction it    *)
(* belongs to, ends, and finds exactly the dependences of the execution,   *)
(* for all programs, traces and menus.                                     *)
(***************************************************************************)
EXTENDS DependenceAnalysis, MemSets_proofs

-----------------------------------------------------------------------------
(* The menus.                                                              *)

RwPairs == Writes \X Reads
WwPairs == Writes \X Writes

Typed(list, way) == list \in Seq(IF way = "rw" THEN RwPairs ELSE WwPairs)

LEMMA InputFacts ==
  ASSUME input \in Inputs
  PROVE  /\ input.program \in Seq(Seq(Executed)) /\ input.recorded \in Nat
         /\ input.reads \in Seq(Reads) /\ input.writes \in Seq(Writes)
         /\ input.mode \in Modes
         /\ input.ddg \in Seq([from : Instrs, to : Instrs, kinds : SUBSET {"raw", "war", "waw"}])
BY InputsAssumption DEF Input

(***************************************************************************)
(* Every pair of the menu is of a write and of a read or another write     *)
(* (buildInstrPairMenu).                                                   *)
(***************************************************************************)
LEMMA AllPairsTyped ==
  ASSUME input \in Inputs
  PROVE  Typed(AllRw, "rw") /\ Typed(AllWw, "ww")
<1> DEFINE R == input.reads
           W == input.writes
<1>1. R \in Seq(Reads) /\ W \in Seq(Writes)
  BY InputFacts
<1>2. Len(W) \in Nat /\ DOMAIN W = 1 .. Len(W) /\ Len(R) \in Nat /\ DOMAIN R = 1 .. Len(R)
      /\ (\A k \in DOMAIN W : W[k] \in Writes) /\ \A k \in DOMAIN R : R[k] \in Reads
  BY <1>1
<1>3. Typed(AllRw, "rw")
  <2> DEFINE row(k) == [l \in DOMAIN R |-> <<W[k], R[l]>>]
             rows == [k \in DOMAIN W |-> row(k)]
  <2>1. ASSUME NEW k \in DOMAIN W PROVE row(k) \in Seq(RwPairs)
    BY <1>2, <2>1 DEF RwPairs
  <2>2. rows \in Seq(Seq(RwPairs))
    <3> HIDE DEF row
    <3>1. \A k \in 1 .. Len(W) : row(k) \in Seq(RwPairs)
      BY <1>2, <2>1
    <3>2. QED
      BY <1>2, <3>1
  <2>3. FlattenSeq(rows) \in Seq(RwPairs)
    <3> HIDE DEF rows
    <3>1. QED
      BY <2>2, FlattenType
  <2>4. QED
    BY <2>3 DEF AllRw, Typed
<1>4. Typed(AllWw, "ww")
  <2> DEFINE row(k) == [l \in 1 .. Len(W) - k + 1 |-> <<W[k], W[k + l - 1]>>]
             rows == [k \in DOMAIN W |-> row(k)]
  <2>1. ASSUME NEW k \in DOMAIN W PROVE row(k) \in Seq(WwPairs)
    <3>1. \A l \in 1 .. Len(W) - k + 1 : k + l - 1 \in DOMAIN W
      BY <1>2, <2>1
    <3>2. \A l \in 1 .. Len(W) - k + 1 : <<W[k], W[k + l - 1]>> \in WwPairs
      BY <1>2, <2>1, <3>1 DEF WwPairs
    <3> DEFINE n == Len(W) - k + 1
               pair(l) == <<W[k], W[k + l - 1]>>
    <3>3. n \in Nat /\ \A l \in 1 .. n : pair(l) \in WwPairs
      BY <1>2, <2>1, <3>2
    <3>4. [l \in 1 .. n |-> pair(l)] \in Seq(WwPairs)
      <4> HIDE DEF n, pair
      <4>1. QED
        BY <3>3
    <3>5. QED
      BY <3>4
  <2>2. rows \in Seq(Seq(WwPairs))
    <3> HIDE DEF row
    <3>1. \A k \in 1 .. Len(W) : row(k) \in Seq(WwPairs)
      BY <1>2, <2>1
    <3>2. QED
      BY <1>2, <3>1
  <2>3. FlattenSeq(rows) \in Seq(WwPairs)
    <3> HIDE DEF rows
    <3>1. QED
      BY <2>2, FlattenType
  <2>4. QED
    BY <2>3 DEF AllWw, Typed
<1>5. QED
  BY <1>3, <1>4

LEMMA FromDDGTyped ==
  ASSUME input \in Inputs, NEW way, NEW S, NEW all \in Seq(S)
  PROVE  FromDDG(all, way) \in Seq(S)
<1> DEFINE hits(k) == {d \in DOMAIN input.ddg : Matches(all[k], input.ddg[d], way)}
           row(k) == IF InLoopBody(all[k])
                     THEN [l \in 1 .. Cardinality(hits(k)) |-> all[k]]
                     ELSE <<all[k]>>
           rows == [k \in DOMAIN all |-> row(k)]
<1>1. ASSUME NEW k PROVE Cardinality(hits(k)) \in Nat
  <2>1. Len(input.ddg) \in Nat /\ DOMAIN input.ddg = 1 .. Len(input.ddg)
    BY InputFacts
  <2>2. IsFiniteSet(1 .. Len(input.ddg))
    BY <2>1, FS_Interval
  <2>3. hits(k) \subseteq 1 .. Len(input.ddg)
    BY <2>1
  <2>4. IsFiniteSet(hits(k))
    BY <2>2, <2>3, FS_Subset
  <2>5. QED
    BY <2>4, FS_CardinalityType
<1>2. ASSUME NEW k \in DOMAIN all PROVE row(k) \in Seq(S)
  <2> DEFINE n == Cardinality(hits(k))
  <2>1. all[k] \in S /\ n \in Nat
    BY <1>1
  <2> HIDE DEF n
  <2>2. [l \in 1 .. n |-> all[k]] \in Seq(S) /\ <<all[k]>> \in Seq(S)
    BY <2>1
  <2>3. QED
    BY <2>2 DEF n
<1>3. rows \in Seq(Seq(S))
  <2> HIDE DEF row
  <2>1. QED
    BY <1>2
<1>4. FlattenSeq(rows) \in Seq(S)
  <2> HIDE DEF rows
  <2>1. QED
    BY <1>3, FlattenType
<1>5. QED
  BY <1>4 DEF FromDDG

LEMMA MenuTyped ==
  ASSUME input \in Inputs
  PROVE  Typed(Menu("rw"), "rw") /\ Typed(Menu("ww"), "ww")
<1>1. AllRw \in Seq(RwPairs) /\ AllWw \in Seq(WwPairs)
  BY AllPairsTyped DEF Typed
<1>2. FromDDG(AllRw, "rw") \in Seq(RwPairs) /\ FromDDG(AllWw, "ww") \in Seq(WwPairs)
  BY <1>1, FromDDGTyped
<1>3. QED
  BY <1>1, <1>2 DEF Menu, Typed

(***************************************************************************)
(* Removing a pair keeps those before it in their places and moves those   *)
(* after it up (vector::erase).                                            *)
(***************************************************************************)
LEMMA EraseFacts ==
  ASSUME NEW S, NEW s \in Seq(S), NEW k \in 1 .. Len(s)
  PROVE  /\ Erase(s, k) \in Seq(S) /\ Len(Erase(s, k)) = Len(s) - 1
         /\ \A j \in 1 .. Len(s) - 1 :
              Erase(s, k)[j] = IF j < k THEN s[j] ELSE s[j + 1]
<1> DEFINE a == SubSeq(s, 1, k - 1)
           b == SubSeq(s, k + 1, Len(s))
<1>1. a \in Seq(S) /\ Len(a) = k - 1 /\ (\A j \in 1 .. k - 1 : a[j] = s[j])
  OBVIOUS
<1>2. b \in Seq(S) /\ Len(b) = Len(s) - k /\ (\A j \in 1 .. Len(s) - k : b[j] = s[k + j])
  OBVIOUS
<1> HIDE DEF a, b
<1>3. Joined(a \o b, a, b, Len(a), Len(b)) /\ a \o b \in Seq(S)
  BY <1>1, <1>2, ConcatJoins
<1>4. ASSUME NEW j \in 1 .. Len(s) - 1
      PROVE  (a \o b)[j] = IF j < k THEN s[j] ELSE s[j + 1]
  <2> DEFINE c == a \o b
  <2>1. /\ \A i \in 1 .. Len(a) : c[i] = a[i]
        /\ \A i \in 1 .. Len(b) : c[Len(a) + i] = b[i]
    BY <1>3 DEF Joined
  <2> HIDE DEF c
  <2>2. ASSUME j < k PROVE c[j] = s[j]
    BY <1>1, <2>1, <2>2
  <2>3. ASSUME ~ (j < k) PROVE c[j] = s[j + 1]
    <3>1. j - (k - 1) \in 1 .. Len(b) /\ Len(a) + (j - (k - 1)) = j
      BY <1>1, <1>2, <2>3
    <3>2. c[j] = b[j - (k - 1)] /\ b[j - (k - 1)] = s[k + (j - (k - 1))]
      BY <1>2, <2>1, <3>1
    <3>3. k + (j - (k - 1)) = j + 1
      OBVIOUS
    <3>4. QED
      BY <3>2, <3>3
  <2>4. c[j] = IF j < k THEN s[j] ELSE s[j + 1]
    BY <2>2, <2>3
  <2>5. QED
    BY <2>4, Zenon DEF c
<1>5. Len(a \o b) = Len(s) - 1
  BY <1>1, <1>2, <1>3 DEF Joined
<1>6. QED
  BY <1>3, <1>4, <1>5 DEF Erase, RemoveAt, a, b

(***************************************************************************)
(* A map one to one and onto preserves the number of elements.             *)
(***************************************************************************)
LEMMA OneToOneCounts ==
  ASSUME NEW S, IsFiniteSet(S), NEW T, NEW f \in [S -> T],
         \A x, y \in S : f[x] = f[y] => x = y,
         \A y \in T : \E x \in S : f[x] = y
  PROVE  IsFiniteSet(T) /\ Cardinality(T) = Cardinality(S)
<1>1. f \in Bijection(S, T)
  BY DEF Bijection, Injection, Surjection, IsInjective
<1>2. ExistsBijection(S, T)
  BY <1>1 DEF ExistsBijection
<1>3. QED
  BY <1>2, FS_Bijection

-----------------------------------------------------------------------------
(* How many instances of an instruction there are.                         *)

Of(s, i) == {k \in 1 .. Len(s) : s[k].instr = i}
CountOf(s, i) == Cardinality(Of(s, i))

LEMMA OfFinite ==
  ASSUME NEW S, NEW s \in Seq(S), NEW i
  PROVE  IsFiniteSet(Of(s, i)) /\ CountOf(s, i) \in Nat
<1>1. Len(s) \in Nat
  OBVIOUS
<1>2. IsFiniteSet(1 .. Len(s))
  BY <1>1, FS_Interval
<1>3. IsFiniteSet(Of(s, i))
  BY <1>2, FS_Subset DEF Of
<1>4. QED
  BY <1>3, FS_CardinalityType DEF CountOf

LEMMA CountsAdd ==
  ASSUME NEW S, NEW s \in Seq(S), NEW t \in Seq(S), NEW i
  PROVE  CountOf(s \o t, i) = CountOf(s, i) + CountOf(t, i)
<1> DEFINE u == s \o t
           n == Len(s)
           later == {k \in Of(u, i) : k > n}
           f == [k \in Of(t, i) |-> n + k]
<1>1. Joined(u, s, t, n, Len(t)) /\ u \in Seq(S)
  BY ConcatJoins
<1>2. n \in Nat /\ Len(t) \in Nat
  OBVIOUS
<1> HIDE DEF u, n
<1>3. Of(u, i) = Of(s, i) \cup later /\ Of(s, i) \cap later = {}
  <2>1. Len(u) = n + Len(t) /\ \A k \in 1 .. n : u[k] = s[k]
    BY <1>1 DEF Joined
  <2>2. QED
    BY <1>2, <2>1 DEF Of, n
<1>4. f \in [Of(t, i) -> later]
  <2>1. ASSUME NEW k \in Of(t, i) PROVE n + k \in later
    BY <1>1, <1>2 DEF Of, Joined
  <2>2. QED
    BY <2>1
<1>5. \A x, y \in Of(t, i) : f[x] = f[y] => x = y
  BY <1>2 DEF Of
<1>6. \A y \in later : \E x \in Of(t, i) : f[x] = y
  <2>1. ASSUME NEW y \in later PROVE y - n \in Of(t, i) /\ f[y - n] = y
    <3>1. y \in 1 .. n + Len(t) /\ y > n /\ u[y].instr = i
      BY <1>1, <2>1 DEF Of, Joined
    <3>2. y - n \in 1 .. Len(t) /\ n + (y - n) = y
      BY <1>2, <3>1
    <3>3. u[y] = t[y - n]
      BY <1>1, <3>2 DEF Joined
    <3>4. y - n \in Of(t, i)
      BY <3>1, <3>2, <3>3 DEF Of
    <3>5. QED
      BY <3>2, <3>4
  <2>2. QED
    BY <2>1
<1>7. IsFiniteSet(Of(s, i)) /\ IsFiniteSet(Of(t, i)) /\ CountOf(s, i) \in Nat
  BY OfFinite
<1>8. IsFiniteSet(later) /\ Cardinality(later) = CountOf(t, i)
  <2> HIDE DEF f, later
  <2>1. QED
    BY <1>4, <1>5, <1>6, <1>7, OneToOneCounts DEF CountOf
<1>9. Cardinality(Of(s, i) \cup later) = CountOf(s, i) + CountOf(t, i) - Cardinality({})
  BY <1>3, <1>7, <1>8, FS_Union DEF CountOf
<1>10. CountOf(u, i) = CountOf(s, i) + CountOf(t, i)
  <2>1. CountOf(t, i) \in Nat
    BY OfFinite
  <2>2. CountOf(u, i) = Cardinality(Of(s, i) \cup later)
    BY <1>3 DEF CountOf
  <2> HIDE DEF later
  <2>3. QED
    BY <1>7, <1>9, <2>1, <2>2, FS_EmptySet
<1>11. QED
  BY <1>10, Zenon DEF u

(***************************************************************************)
(* The place of an execution in its call determines it.                    *)
(***************************************************************************)
Rank(inv, call, k) == Cardinality({l \in CallBody(inv, call) : l <= k})

LEMMA RankFacts ==
  ASSUME NEW inv \in Seq(Executed), NEW call
  PROVE  /\ \A k \in CallBody(inv, call) : Rank(inv, call, k) \in Nat
         /\ \A k, l \in CallBody(inv, call) : Rank(inv, call, k) = Rank(inv, call, l) => k = l
<1> DEFINE B == CallBody(inv, call)
           upTo(k) == {l \in B : l <= k}
<1>1. B \subseteq 1 .. Len(inv) /\ Len(inv) \in Nat
  BY DEF CallBody
<1>2. ASSUME NEW k PROVE IsFiniteSet(upTo(k)) /\ Cardinality(upTo(k)) \in Nat
  <2>1. IsFiniteSet(1 .. Len(inv))
    BY <1>1, FS_Interval
  <2>2. upTo(k) \in SUBSET (1 .. Len(inv))
    BY <1>1
  <2>3. QED
    BY <2>1, <2>2, FS_Subset, FS_CardinalityType
<1>3. ASSUME NEW k \in B, NEW l \in B, k < l PROVE Cardinality(upTo(k)) # Cardinality(upTo(l))
  <2>1. upTo(k) \in SUBSET upTo(l) /\ l \in upTo(l) /\ l \notin upTo(k)
    BY <1>1, <1>3
  <2>2. upTo(k) # upTo(l)
    BY <2>1
  <2>3. QED
    BY <1>2, <2>1, <2>2, FS_Subset
<1>4. ASSUME NEW k \in B, NEW l \in B, Rank(inv, call, k) = Rank(inv, call, l) PROVE k = l
  <2>1. k \in Nat /\ l \in Nat
    BY <1>1
  <2>2. Cardinality(upTo(k)) = Cardinality(upTo(l))
    BY <1>4 DEF Rank
  <2>3. ~ (k < l) /\ ~ (l < k)
    BY <1>3, <2>2
  <2>4. QED
    BY <2>1, <2>3
<1>5. QED
  BY <1>2, <1>4 DEF Rank

(***************************************************************************)
(* The call trace of an invocation tells how often its calls executed an   *)
(* instruction: equal call traces, equal numbers, whatever else the two    *)
(* invocations executed (CallTraceLoopInvocationGroup).                    *)
(***************************************************************************)
Places(info, i) ==
  {x \in (Calls \X Nat) \X Nat : x[1] \in DOMAIN info /\ <<x[2], i>> \in info[x[1]]}

\* What info tells of an instruction i of the invocation.
Tells(info, inv, i) ==
  /\ DOMAIN info = Calls \X {inv[k].inst : k \in DOMAIN inv}
  /\ \A call \in DOMAIN info :
       \A r : <<r, i>> \in info[call]
                <=> \E k \in CallBody(inv, call) : r = Rank(inv, call, k) /\ i = inv[k].instr

LEMMA InfoFacts ==
  ASSUME NEW inv, NEW i
  PROVE  Tells(CallInfo(inv), inv, i)
<1> DEFINE placed(call) == {<<Rank(inv, call, k), inv[k].instr>> : k \in CallBody(inv, call)}
<1>1. CallInfo(inv) = [call \in Calls \X {inv[k].inst : k \in DOMAIN inv} |-> placed(call)]
  BY DEF CallInfo, Rank
<1>2. ASSUME NEW call, NEW r
      PROVE  <<r, i>> \in placed(call)
               <=> \E k \in CallBody(inv, call) : r = Rank(inv, call, k) /\ i = inv[k].instr
  OBVIOUS
<1> HIDE DEF placed
<1>3. QED
  BY <1>1, <1>2 DEF Tells

LEMMA InfoCounts ==
  ASSUME NEW inv \in Seq(Executed), NEW i
  PROVE  Cardinality(Places(CallInfo(inv), i)) = Cardinality(InCalls(inv, i))
<1> DEFINE info == CallInfo(inv)
           S == InCalls(inv, i)
           T == Places(info, i)
           made(k) == <<inv[k].call, inv[k].inst>>
           rank(k) == Rank(inv, made(k), k)
           f == [k \in S |-> <<made(k), rank(k)>>]
<1>1. /\ DOMAIN inv = 1 .. Len(inv) /\ Len(inv) \in Nat
      /\ \A k \in DOMAIN inv : inv[k].call \in Calls \cup {0} /\ inv[k].inst \in Nat
  <2>1. DOMAIN inv = 1 .. Len(inv) /\ Len(inv) \in Nat /\ \A k \in DOMAIN inv : inv[k] \in Executed
    OBVIOUS
  <2>2. QED
    BY <2>1 DEF Executed
<1>2. IsFiniteSet(S)
  <2>1. Len(inv) \in Nat
    OBVIOUS
  <2>2. IsFiniteSet(1 .. Len(inv))
    BY <2>1, FS_Interval
  <2>3. InCalls(inv, i) \in SUBSET (1 .. Len(inv))
    BY <1>1 DEF InCalls
  <2>4. QED
    BY <2>2, <2>3, FS_Subset
<1> HIDE DEF info
<1>3. Tells(info, inv, i)
  BY InfoFacts DEF info
<1>4. ASSUME NEW k \in S
      PROVE  /\ k \in DOMAIN inv /\ inv[k].instr = i
             /\ made(k) \in Calls \X Nat /\ made(k) \in DOMAIN info
             /\ k \in CallBody(inv, made(k)) /\ rank(k) \in Nat
             /\ <<rank(k), i>> \in info[made(k)]
  <2>1. k \in DOMAIN inv /\ inv[k].instr = i /\ inv[k].call \in Calls
    BY <1>1, <1>4 DEF InCalls
  <2>2. made(k) \in Calls \X Nat /\ made(k) \in DOMAIN info
    <3>1. inv[k].inst \in {inv[l].inst : l \in DOMAIN inv} /\ inv[k].inst \in Nat
      BY <1>1, <2>1
    <3>2. QED
      BY <1>3, <2>1, <3>1 DEF Tells
  <2>3. k \in CallBody(inv, made(k))
    BY <2>1 DEF CallBody
  <2> HIDE DEF made
  <2>4. rank(k) \in Nat
    BY <2>3, RankFacts
  <2>5. <<rank(k), i>> \in info[made(k)]
    BY <1>3, <2>1, <2>2, <2>3 DEF Tells
  <2>6. QED
    BY <2>1, <2>2, <2>3, <2>4, <2>5
<1> HIDE DEF made, S
<1>5. f \in [S -> T]
  <2> HIDE DEF rank
  <2>1. ASSUME NEW k \in S PROVE <<made(k), rank(k)>> \in T
    BY <1>4 DEF Places
  <2>2. QED
    BY <2>1
<1>6. ASSUME NEW k \in S, NEW l \in S, f[k] = f[l] PROVE k = l
  <2>1. made(k) = made(l) /\ rank(k) = rank(l)
    BY <1>6
  <2>2. k \in CallBody(inv, made(k)) /\ l \in CallBody(inv, made(k))
    BY <1>4, <2>1
  <2>3. QED
    BY <2>1, <2>2, RankFacts
<1>7. ASSUME NEW x \in T PROVE \E k \in S : f[k] = x
  <2>1. x \in (Calls \X Nat) \X Nat /\ x[1] \in DOMAIN info /\ <<x[2], i>> \in info[x[1]]
    BY DEF Places
  <2>2. PICK k \in CallBody(inv, x[1]) : x[2] = Rank(inv, x[1], k) /\ i = inv[k].instr
    BY <1>3, <2>1 DEF Tells
  <2>3. k \in DOMAIN inv /\ made(k) = x[1]
    BY DEF CallBody, made
  <2>4. inv[k].call # 0
    BY <2>1, <2>3, InstrsAssumption DEF made
  <2>5. k \in S
    BY <2>2, <2>3, <2>4 DEF InCalls, S
  <2>6. f[k] = <<x[1], x[2]>>
    BY <2>2, <2>3, <2>5
  <2>7. QED
    BY <2>1, <2>5, <2>6
<1>8. QED
  <2> HIDE DEF f, T
  <2>1. Cardinality(T) = Cardinality(S)
    BY <1>2, <1>5, <1>6, <1>7, OneToOneCounts
  <2>2. QED
    BY <2>1 DEF S, T, info

-----------------------------------------------------------------------------
(* The instances that the analysis asks for.                               *)

LEMMA FirstAlikeFacts ==
  ASSUME NEW n \in Nat \ {0}
  PROVE  FirstAlike(n) \in 1 .. n /\ CallInfo(Program[FirstAlike(n)]) = CallInfo(Program[n])
<1> DEFINE S == {m \in 1 .. n : CallInfo(Program[m]) = CallInfo(Program[n])}
<1>1. n \in S /\ S \in SUBSET Nat
  OBVIOUS
<1>2. \E x \in S : \A y \in S : x <= y
  <2> HIDE DEF S
  <2>1. QED
    BY <1>1, LeastNatural
<1>3. Min(S) \in S
  <2> HIDE DEF S
  <2>1. QED
    BY <1>2 DEF Min
<1>4. QED
  BY <1>3 DEF FirstAlike

(***************************************************************************)
(* Never more instances of an instruction are asked for in an invocation   *)
(* than it executed, also when the numbers are another invocation's.       *)
(***************************************************************************)
LEMMA InstancesBounded ==
  ASSUME input \in Inputs, NEW n \in 1 .. Len(Program), NEW i
  PROVE  /\ NumInstancesInInvocation(n, i) \in Nat
         /\ NumInstancesInInvocation(n, i) <= CountOf(Program[n], i)
<1>1. Program \in Seq(Seq(Executed))
  BY InputFacts DEF Program
<1>2. Program[n] \in Seq(Executed) /\ Len(Program[n]) \in Nat /\ n \in Nat \ {0}
  BY <1>1
<1>3. IsFiniteSet(Of(Program[n], i))
  BY <1>2, OfFinite
<1>4. /\ InLoop(Program[n], i) \subseteq Of(Program[n], i)
      /\ InCalls(Program[n], i) \subseteq Of(Program[n], i)
  BY <1>2 DEF InLoop, InCalls, Of
<1>5. ASSUME NEW T, T \subseteq Of(Program[n], i)
      PROVE  Cardinality(T) \in Nat /\ Cardinality(T) <= CountOf(Program[n], i)
  BY <1>3, <1>5, FS_Subset, FS_CardinalityType DEF CountOf
<1>6. CASE i \notin SubInstrs
  BY <1>4, <1>5, <1>6 DEF NumInstancesInInvocation
<1>7. CASE i \in SubInstrs
  <2> DEFINE m == FirstAlike(n)
  <2>1. m \in 1 .. n /\ CallInfo(Program[m]) = CallInfo(Program[n])
    BY <1>2, FirstAlikeFacts
  <2>2. Program[m] \in Seq(Executed)
    BY <1>1, <2>1
  <2>3. Cardinality(InCalls(Program[m], i)) = Cardinality(InCalls(Program[n], i))
    BY <1>2, <2>1, <2>2, InfoCounts
  <2>4. QED
    BY <1>4, <1>5, <1>7, <2>3 DEF NumInstancesInInvocation
<1>8. QED
  BY <1>6, <1>7

(***************************************************************************)
(* The instances in the first n invocations, and in all of them.           *)
(***************************************************************************)
Through(n) == FlattenSeq(SubSeq(Program, 1, n))

Counted(n, i) == CountOf(Through(n), i)

LEMMA ThroughGrows ==
  ASSUME input \in Inputs, NEW n \in 0 .. Len(Program) - 1
  PROVE  /\ Through(n + 1) = Through(n) \o Program[n + 1]
         /\ Through(n) \in Seq(Executed) /\ Program[n + 1] \in Seq(Executed)
<1> DEFINE p == SubSeq(Program, 1, n)
           q == SubSeq(Program, 1, n + 1)
<1>1. Program \in Seq(Seq(Executed))
  BY InputFacts DEF Program
<1>2. n \in Nat /\ n + 1 \in 1 .. Len(Program)
  BY <1>1
<1>3. /\ p \in [1 .. n -> Seq(Executed)] /\ q \in [1 .. n + 1 -> Seq(Executed)]
      /\ (\A i \in 1 .. n : q[i] = p[i]) /\ q[n + 1] = Program[n + 1]
  <2> DEFINE P == Program
             S == Seq(Executed)
  <2>1. P \in Seq(S) /\ n \in 0 .. Len(P) /\ n + 1 \in 0 .. Len(P) /\ Len(P) \in Nat
    BY <1>1, <1>2
  <2> DEFINE a == SubSeq(P, 1, n)
             b == SubSeq(P, 1, n + 1)
  <2> HIDE DEF P, S
  <2>2. a = [i \in 1 .. n |-> P[i]] /\ b = [i \in 1 .. n + 1 |-> P[i]]
    BY <2>1
  <2>3. \A i \in 1 .. n + 1 : P[i] \in S
    BY <1>2, <2>1
  <2> HIDE DEF a, b
  <2>4. /\ a \in [1 .. n -> S] /\ b \in [1 .. n + 1 -> S]
        /\ (\A i \in 1 .. n : b[i] = a[i]) /\ b[n + 1] = P[n + 1]
    BY <1>2, <2>2, <2>3
  <2>5. p = a /\ q = b
    BY DEF p, q, a, b, P
  <2>6. QED
    BY <2>4, <2>5 DEF P, S
<1> HIDE DEF p, q
<1>4. FlattenSeq(q) = FlattenSeq(p) \o q[n + 1] /\ FlattenSeq(p) \in Seq(Executed)
  BY <1>2, <1>3, FlattenExtend, ZenonT(60)
<1>5. Program[n + 1] \in Seq(Executed)
  BY <1>1, <1>2
<1>6. Through(n) = FlattenSeq(p) /\ Through(n + 1) = FlattenSeq(q)
  BY DEF Through, p, q
<1>7. QED
  BY <1>3, <1>4, <1>5, <1>6, Zenon

LEMMA ThroughEnds ==
  ASSUME input \in Inputs
  PROVE  /\ Len(Program) \in Nat
         /\ Through(0) = <<>> /\ Through(Len(Program)) = FlattenSeq(Program)
         /\ FlattenSeq(Program) \in Seq(Executed)
<1>1. Program \in Seq(Seq(Executed))
  BY InputFacts DEF Program
<1>2. Len(Program) \in Nat
  BY <1>1
<1>3. SubSeq(Program, 1, 0) = <<>>
  BY <1>1
<1>4. SubSeq(Program, 1, Len(Program)) = Program
  BY <1>1, <1>2
<1>5. FlattenSeq(Program) \in Seq(Executed)
  BY <1>1, FlattenType
<1>6. QED
  BY <1>2, <1>3, <1>4, <1>5, FlattenEmpty DEF Through

LEMMA CountedGrows ==
  ASSUME input \in Inputs, NEW i
  PROVE  /\ Counted(0, i) = 0
         /\ \A n \in 0 .. Len(Program) - 1 :
              /\ Counted(n + 1, i) = Counted(n, i) + CountOf(Program[n + 1], i)
              /\ Counted(n, i) \in Nat /\ CountOf(Program[n + 1], i) \in Nat
<1>1. Counted(0, i) = 0
  <2>1. Of(<<>>, i) = {}
    BY DEF Of
  <2>2. QED
    BY <2>1, ThroughEnds, FS_EmptySet DEF Counted, CountOf
<1>2. ASSUME NEW n \in 0 .. Len(Program) - 1
      PROVE  /\ Counted(n + 1, i) = Counted(n, i) + CountOf(Program[n + 1], i)
             /\ Counted(n, i) \in Nat /\ CountOf(Program[n + 1], i) \in Nat
  <2> DEFINE a == Through(n)
             b == Program[n + 1]
  <2>1. Through(n + 1) = a \o b /\ a \in Seq(Executed) /\ b \in Seq(Executed)
    BY ThroughGrows, Zenon
  <2> HIDE DEF a, b
  <2>2. CountOf(a \o b, i) = CountOf(a, i) + CountOf(b, i)
    BY <2>1, CountsAdd
  <2>3. CountOf(a, i) \in Nat /\ CountOf(b, i) \in Nat
    BY <2>1, OfFinite
  <2>4. Counted(n + 1, i) = CountOf(a \o b, i)
    BY <2>1, Zenon DEF Counted
  <2>5. QED
    BY <2>2, <2>3, <2>4 DEF Counted, a, b
<1>3. QED
  BY <1>1, <1>2

LEMMA CountedAtMostAll ==
  ASSUME input \in Inputs, NEW i, NEW n \in 0 .. Len(Program)
  PROVE  Counted(n, i) \in Nat /\ Counted(n, i) <= CountOf(FlattenSeq(Program), i)
<1> DEFINE L == Len(Program)
           all == CountOf(FlattenSeq(Program), i)
           T == {m \in Nat : m <= L => Counted(L - m, i) \in Nat /\ Counted(L - m, i) <= all}
<1>1. L \in Nat /\ Counted(L, i) = all /\ all \in Nat
  BY ThroughEnds, OfFinite DEF Counted
<1> HIDE DEF L, all
<1>2. 0 \in T
  BY <1>1
<1>3. ASSUME NEW m \in Nat, m \in T PROVE m + 1 \in T
  <2>1. SUFFICES ASSUME m + 1 <= L
                 PROVE  Counted(L - (m + 1), i) \in Nat /\ Counted(L - (m + 1), i) <= all
    BY <1>3
  <2> DEFINE c == L - (m + 1)
  <2>2. c \in 0 .. Len(Program) - 1 /\ c + 1 = L - m
    BY <1>1, <2>1 DEF L
  <2>3. /\ Counted(c + 1, i) = Counted(c, i) + CountOf(Program[c + 1], i)
        /\ Counted(c, i) \in Nat /\ CountOf(Program[c + 1], i) \in Nat
    BY <2>2, CountedGrows
  <2> HIDE DEF c
  <2>4. Counted(c + 1, i) \in Nat /\ Counted(c + 1, i) <= all
    BY <1>1, <1>3, <2>1, <2>2
  <2>5. Counted(c, i) <= all
    BY <1>1, <2>3, <2>4
  <2>6. QED
    BY <2>3, <2>5 DEF c
<1>4. Nat \subseteq T
  <2> HIDE DEF T
  <2>1. QED
    BY <1>2, <1>3, SetInduction
<1>5. L - n \in T /\ L - (L - n) = n /\ L - n <= L
  BY <1>1, <1>4 DEF L
<1>6. QED
  BY <1>5 DEF all

(***************************************************************************)
(* Of a complete trace, a stream holds everything that was executed.       *)
(***************************************************************************)
LEMMA CompleteStreams ==
  ASSUME input \in Inputs, Complete, NEW i
  PROVE  NumRecorded(i) = CountOf(FlattenSeq(Program), i)
<1> DEFINE all == FlattenSeq(Program)
<1>1. all \in Seq(Executed) /\ Len(all) \in Nat /\ input.recorded \in Nat
  BY ThroughEnds, InputFacts
<1>2. input.recorded >= Len(all)
  BY DEF Complete, Size
<1> HIDE DEF all
<1>3. Min({input.recorded, Len(all)}) = Len(all)
  BY <1>1, <1>2 DEF Min
<1>4. QED
  BY <1>3 DEF NumRecorded, CountOf, Of, all

-----------------------------------------------------------------------------
(* The inductive invariant.                                                *)

Ways == {"rw", "ww"}

TypedState ==
  /\ TypeOK
  /\ Typed(menu["rw"], "rw") /\ Typed(menu["ww"], "ww")

(***************************************************************************)
(* Within an invocation, a stream that a pair of the menu needs has been   *)
(* read for this invocation if its set was fetched, and only then; a pair  *)
(* that was passed has its sets, or nothing to fetch.                      *)
(***************************************************************************)
Expected(s) ==
  instrCounts[s[1]] + (IF s \in DOMAIN invMemoryTrace THEN instances[s[1]] ELSE 0)

ReadSoFar(s) ==
  /\ status = "next" => InStep(s)
  /\ status = "pairs" => position[s] = Expected(s)

Passed(way, k) == (pass = "ww" /\ way = "rw") \/ (pass = way /\ k < at)

Ready(s) == s \in DOMAIN invMemoryTrace \/ instances[s[1]] = 0

KeepsStep ==
  \A way \in Ways : \A k \in DOMAIN menu[way] : \A s \in StreamsOf(menu[way][k], way) :
    /\ ReadSoFar(s)
    /\ status = "pairs" /\ Passed(way, k) => Ready(s)

(***************************************************************************)
(* No more instances were asked for than there were.                       *)
(***************************************************************************)
KeepsCount ==
  /\ invocNum <= Len(Program) + 1
  /\ \A i \in Instrs : instrCounts[i] <= Counted(invocNum - 1, i)
  /\ status = "pairs" =>
       /\ invocNum <= Len(Program)
       /\ \A i \in Instrs : instances[i] = NumInstancesInInvocation(invocNum, i)

IInv == TypedState /\ KeepsStep /\ KeepsCount /\ NeverRunsOut

-----------------------------------------------------------------------------
(* Types.                                                                  *)

LEMMA PairStreams ==
  ASSUME TypedState, NEW way \in Ways, NEW k \in DOMAIN menu[way]
  PROVE  /\ menu[way][k] \in Instrs \X Instrs
         /\ StreamsOf(menu[way][k], way) \subseteq Streams
         /\ \A s \in StreamsOf(menu[way][k], way) : s[1] \in Instrs
<1> DEFINE p == menu[way][k]
<1>1. CASE way = "rw"
  <2>1. p \in RwPairs
    BY <1>1 DEF TypedState, Typed
  <2>2. QED
    BY <1>1, <2>1, InstrsAssumption DEF RwPairs, StreamsOf, WriteStream, OtherStream, Streams
<1>2. CASE way = "ww"
  <2>1. p \in WwPairs
    BY <1>2 DEF TypedState, Typed
  <2>2. QED
    BY <1>2, <2>1, InstrsAssumption DEF WwPairs, StreamsOf, WriteStream, OtherStream, Streams
<1>3. QED
  BY <1>1, <1>2 DEF Ways

LEMMA TypeFacts ==
  ASSUME TypedState
  PROVE  /\ input \in Inputs /\ invocNum \in Nat \ {0} /\ pass \in Ways /\ at \in Nat \ {0}
         /\ \A way \in Ways : /\ menu[way] \in Seq(Instrs \X Instrs) /\ Len(menu[way]) \in Nat
                              /\ DOMAIN menu[way] = 1 .. Len(menu[way])
         /\ DOMAIN menu = Ways
         /\ position \in [Streams -> Nat] /\ instances \in [Instrs -> Nat]
         /\ instrCounts \in [Instrs -> Nat] /\ DOMAIN invMemoryTrace \subseteq Streams
         /\ status \in {"next", "pairs", "written", "timed out", "undefined"}
         /\ DOMAIN pairs = Ways
<1>1. menu \in [Ways -> Seq(Instrs \X Instrs)]
  BY DEF TypedState, TypeOK, Ways
<1>2. ASSUME NEW way \in Ways
      PROVE  /\ menu[way] \in Seq(Instrs \X Instrs) /\ Len(menu[way]) \in Nat
             /\ DOMAIN menu[way] = 1 .. Len(menu[way])
  <2> DEFINE m == menu[way]
  <2>1. m \in Seq(Instrs \X Instrs)
    BY <1>1
  <2> HIDE DEF m
  <2>2. Len(m) \in Nat /\ DOMAIN m = 1 .. Len(m)
    BY <2>1
  <2>3. QED
    BY <2>1, <2>2 DEF m
<1>3. QED
  BY <1>1, <1>2 DEF TypedState, TypeOK, Ways

LEMMA MoreTyped ==
  ASSUME NEW list, NEW way \in Ways, Typed(list, way)
  PROVE  list \in Seq(Instrs \X Instrs)
BY InstrsAssumption DEF Typed, RwPairs, WwPairs, Ways

LEMMA InitInv ==
  ASSUME Init
  PROVE  IInv
<1>1. input \in Inputs /\ Typed(menu["rw"], "rw") /\ Typed(menu["ww"], "ww")
  BY MenuTyped DEF Init
<1>2. TypedState
  <2>1. menu \in [{"rw", "ww"} -> Seq(Instrs \X Instrs)]
    <3>1. menu["rw"] \in Seq(Instrs \X Instrs) /\ menu["ww"] \in Seq(Instrs \X Instrs)
      BY <1>1, MoreTyped DEF Ways
    <3>2. QED
      BY <3>1 DEF Init
  <2>2. DOMAIN invMemoryTrace \subseteq Streams
    BY DEF Init
  <2>3. QED
    BY <1>1, <2>1, <2>2 DEF Init, TypedState, TypeOK
<1>3. KeepsStep
  <2>1. ASSUME NEW way \in Ways, NEW k \in DOMAIN menu[way], NEW s \in StreamsOf(menu[way][k], way)
        PROVE  ReadSoFar(s) /\ (status = "pairs" /\ Passed(way, k) => Ready(s))
    <3>1. s \in Streams /\ s[1] \in Instrs
      BY <1>2, <2>1, PairStreams
    <3>2. QED
      BY <3>1 DEF Init, ReadSoFar, InStep
  <2>2. QED
    BY <2>1 DEF KeepsStep
<1>4. KeepsCount
  <2>1. Len(Program) \in Nat
    BY <1>1, ThroughEnds
  <2>2. ASSUME NEW i \in Instrs PROVE instrCounts[i] <= Counted(invocNum - 1, i)
    <3>1. Counted(0, i) = 0
      BY <1>1, CountedGrows
    <3>2. invocNum - 1 = 0 /\ instrCounts[i] = 0
      BY DEF Init
    <3>3. QED
      BY <3>1, <3>2
  <2>3. QED
    BY <2>1, <2>2 DEF Init, KeepsCount
<1>5. NeverRunsOut
  BY DEF Init, NeverRunsOut
<1>6. QED
  BY <1>2, <1>3, <1>4, <1>5 DEF IInv

-----------------------------------------------------------------------------
(* Every step keeps the types.                                             *)

LEMMA StartTyped ==
  ASSUME TypedState, StartInvocation
  PROVE  TypedState'
<1>1. input \in Inputs /\ invocNum \in 1 .. Len(Program)
  BY TypeFacts, ThroughEnds DEF StartInvocation
<1>2. instances' \in [Instrs -> Nat]
  <2>1. \A i \in Instrs : NumInstancesInInvocation(invocNum, i) \in Nat
    BY <1>1, InstancesBounded
  <2>2. QED
    BY <2>1 DEF StartInvocation
<1>3. DOMAIN invMemoryTrace' \subseteq Streams
  BY DEF StartInvocation
<1>4. QED
  BY <1>2, <1>3 DEF StartInvocation, TypedState, TypeOK, Typed

(***************************************************************************)
(* What a pair that is analysed does to menu, place and streams            *)
(* (invocation_analysis_memeff).                                           *)
(***************************************************************************)
LEMMA AnalyseFacts ==
  ASSUME TypedState, AnalysePair
  PROVE  /\ pass \in Ways /\ at \in DOMAIN menu[pass] /\ Pair \in Instrs \X Instrs
         /\ DOMAIN invMemoryTrace' = DOMAIN invMemoryTrace \cup Missing(Pair, pass)
         /\ \/ menu' = [menu EXCEPT ![pass] = Erase(menu[pass], at)] /\ at' = at
            \/ menu' = menu /\ at' = at + 1
<1>1. pass \in Ways /\ at \in DOMAIN menu[pass]
  <2>1. pass \in Ways /\ at \in Nat \ {0} /\ at <= Len(menu[pass])
    BY TypeFacts DEF AnalysePair
  <2>2. Len(menu[pass]) \in Nat /\ DOMAIN menu[pass] = 1 .. Len(menu[pass])
    BY <2>1, TypeFacts
  <2>3. QED
    BY <2>1, <2>2
<1>2. Pair \in Instrs \X Instrs
  BY <1>1, PairStreams DEF Pair
<1>3. DOMAIN invMemoryTrace' = DOMAIN invMemoryTrace \cup Missing(Pair, pass)
  BY DEF AnalysePair
<1>4. \/ menu' = [menu EXCEPT ![pass] = Erase(menu[pass], at)] /\ at' = at
      \/ menu' = menu /\ at' = at + 1
  BY DEF AnalysePair
<1>5. QED
  BY <1>1, <1>2, <1>3, <1>4

LEMMA EraseTyped ==
  ASSUME TypedState, NEW way \in Ways, NEW k \in DOMAIN menu[way]
  PROVE  /\ Typed(Erase(menu[way], k), way) /\ Len(Erase(menu[way], k)) = Len(menu[way]) - 1
         /\ \A j \in DOMAIN Erase(menu[way], k) :
              /\ j \in DOMAIN menu[way] /\ j + 1 \in DOMAIN menu[way]
              /\ Erase(menu[way], k)[j] = IF j < k THEN menu[way][j] ELSE menu[way][j + 1]
<1> DEFINE m == menu[way]
           S == IF way = "rw" THEN RwPairs ELSE WwPairs
<1>1. m \in Seq(S) /\ k \in 1 .. Len(m)
  BY TypeFacts DEF TypedState, Typed, Ways
<1> HIDE DEF m, S
<1>2. /\ Erase(m, k) \in Seq(S) /\ Len(Erase(m, k)) = Len(m) - 1
      /\ \A j \in 1 .. Len(m) - 1 : Erase(m, k)[j] = IF j < k THEN m[j] ELSE m[j + 1]
  BY <1>1, EraseFacts
<1> DEFINE e == Erase(m, k)
<1> HIDE DEF e
<1>3. DOMAIN e = 1 .. Len(m) - 1 /\ DOMAIN m = 1 .. Len(m) /\ Len(m) \in Nat
  BY <1>1, <1>2 DEF e
<1>4. QED
  BY <1>2, <1>3 DEF m, S, e, Typed

LEMMA AnalyseTyped ==
  ASSUME TypedState, AnalysePair
  PROVE  TypedState'
<1>1. /\ pass \in Ways /\ at \in DOMAIN menu[pass]
      /\ DOMAIN invMemoryTrace' = DOMAIN invMemoryTrace \cup Missing(Pair, pass)
      /\ \/ menu' = [menu EXCEPT ![pass] = Erase(menu[pass], at)] /\ at' = at
         \/ menu' = menu /\ at' = at + 1
  BY AnalyseFacts
<1>2. DOMAIN invMemoryTrace' \subseteq Streams
  <2>1. StreamsOf(Pair, pass) \subseteq Streams
    BY <1>1, PairStreams DEF Pair
  <2>2. QED
    BY <1>1, <2>1, TypeFacts DEF Missing
<1>3. position' \in [Streams -> Nat]
  <2>1. \A s \in Streams : s[1] \in Instrs
    BY InstrsAssumption DEF Streams
  <2>2. \A s \in Streams : position[s] \in Nat /\ instances[s[1]] \in Nat
    BY <2>1, TypeFacts
  <2>3. \A s \in Streams :
          position[s] + (IF s \in Missing(Pair, pass) THEN instances[s[1]] ELSE 0) \in Nat
    BY <2>2
  <2>4. QED
    BY <2>3 DEF AnalysePair
<1>4. /\ menu' \in [Ways -> Seq(Instrs \X Instrs)]
      /\ Typed(menu'["rw"], "rw") /\ Typed(menu'["ww"], "ww")
  <2> DEFINE e == Erase(menu[pass], at)
  <2>1. Typed(e, pass)
    BY <1>1, EraseTyped
  <2>2. e \in Seq(Instrs \X Instrs)
    BY <1>1, <2>1, MoreTyped
  <2>3. /\ menu \in [Ways -> Seq(Instrs \X Instrs)]
        /\ Typed(menu["rw"], "rw") /\ Typed(menu["ww"], "ww")
    BY DEF TypedState, TypeOK, Ways
  <2> HIDE DEF e
  <2>4. CASE menu' = [menu EXCEPT ![pass] = e]
    <3>1. \A way \in Ways : menu'[way] = IF way = pass THEN e ELSE menu[way]
      BY <2>3, <2>4
    <3>2. QED
      BY <1>1, <2>1, <2>2, <2>3, <2>4, <3>1 DEF Ways
  <2>5. CASE menu' = menu
    BY <2>3, <2>5
  <2>6. QED
    BY <1>1, <2>4, <2>5 DEF e
<1>5. at' \in Nat \ {0}
  <2>1. at \in Nat \ {0}
    BY TypeFacts
  <2>2. at' = at \/ at' = at + 1
    BY <1>1
  <2>3. QED
    BY <2>1, <2>2
<1>6. DOMAIN pairs' = {"rw", "ww"}
  BY TypeFacts DEF AnalysePair, Ways
<1>7. /\ input' = input /\ status' = status /\ invocNum' = invocNum /\ pass' = pass
      /\ instances' = instances /\ instrCounts' = instrCounts
  BY DEF AnalysePair
<1>8. QED
  BY <1>2, <1>3, <1>4, <1>5, <1>6, <1>7 DEF TypedState, TypeOK, Ways

LEMMA StepTyped ==
  ASSUME TypedState, [Next \/ Exited]_vars
  PROVE  TypedState'
<1>1. CASE SkipInvocation
  BY <1>1 DEF SkipInvocation, TypedState, TypeOK, Typed
<1>2. CASE StartInvocation
  BY <1>2, StartTyped
<1>3. CASE SkipPair
  <2>1. at' \in Nat \ {0}
    <3>1. at \in Nat \ {0}
      BY TypeFacts
    <3>2. at' = at + 1
      BY <1>3 DEF SkipPair
    <3>3. QED
      BY <3>1, <3>2
  <2>2. QED
    BY <1>3, <2>1 DEF SkipPair, TypedState, TypeOK, Typed
<1>4. CASE AnalysePair
  BY <1>4, AnalyseTyped
<1>5. CASE RunOut
  BY <1>5 DEF RunOut, TypedState, TypeOK, Typed
<1>6. CASE NextPass
  BY <1>6 DEF NextPass, TypedState, TypeOK, Typed
<1>7. CASE EndInvocation
  <2>1. \A i \in Instrs : instrCounts[i] + instances[i] \in Nat
    <3>1. instrCounts \in [Instrs -> Nat] /\ instances \in [Instrs -> Nat]
      BY TypeFacts
    <3>2. QED
      BY <3>1
  <2>2. instrCounts' \in [Instrs -> Nat]
    BY <1>7, <2>1 DEF EndInvocation
  <2>3. QED
    BY <1>7, <2>2 DEF EndInvocation, TypedState, TypeOK, Typed
<1>8. CASE TimeOut
  BY <1>8 DEF TimeOut, TypedState, TypeOK, Typed
<1>9. CASE Output
  BY <1>9 DEF Output, TypedState, TypeOK, Typed
<1>10. CASE UNCHANGED vars
  BY <1>10 DEF vars, TypedState, TypeOK, Typed
<1>11. QED
  BY <1>1, <1>2, <1>3, <1>4, <1>5, <1>6, <1>7, <1>8, <1>9, <1>10 DEF Next, Exited

(***************************************************************************)
(* Every step is nearer to the exit (the loops of loop_analysis_memeff and *)
(* invocation_analysis_memeff, with the erasure from the menu they go      *)
(* over).                                                                  *)
(***************************************************************************)
LEMMA StepNearer ==
  ASSUME TypedState, Next
  PROVE  Nearer
<1>1. /\ invocNum \in Nat /\ at \in Nat /\ pass \in Ways
      /\ \A way \in Ways : Len(menu[way]) \in Nat
  BY TypeFacts
<1>2. CASE SkipInvocation
  BY <1>1, <1>2 DEF SkipInvocation, Nearer
<1>3. CASE StartInvocation
  BY <1>3 DEF StartInvocation, Nearer, PassesLeft
<1>4. CASE SkipPair
  <2>1. PassesLeft' = PassesLeft /\ invocNum' = invocNum
    BY <1>4 DEF SkipPair, PassesLeft
  <2>2. Len(menu'[pass]) - at' < Len(menu[pass]) - at
    BY <1>1, <1>4 DEF SkipPair
  <2>3. QED
    BY <2>1, <2>2 DEF Nearer
<1>5. CASE AnalysePair
  <2>1. PassesLeft' = PassesLeft /\ invocNum' = invocNum
    BY <1>5 DEF AnalysePair, PassesLeft
  <2>2. Len(menu'[pass]) - at' < Len(menu[pass]) - at
    <3>1. /\ at \in DOMAIN menu[pass]
          /\ \/ menu' = [menu EXCEPT ![pass] = Erase(menu[pass], at)] /\ at' = at
             \/ menu' = menu /\ at' = at + 1
      BY <1>5, AnalyseFacts
    <3>2. CASE menu' = [menu EXCEPT ![pass] = Erase(menu[pass], at)] /\ at' = at
      <4>1. menu'[pass] = Erase(menu[pass], at)
        BY <1>1, <3>2, TypeFacts
      <4>2. Len(Erase(menu[pass], at)) = Len(menu[pass]) - 1
        BY <1>1, <3>1, EraseTyped
      <4>3. QED
        BY <1>1, <3>2, <4>1, <4>2
    <3>3. CASE menu' = menu /\ at' = at + 1
      BY <1>1, <3>3
    <3>4. QED
      BY <3>1, <3>2, <3>3
  <2>3. QED
    BY <2>1, <2>2 DEF Nearer
<1>6. CASE RunOut
  BY <1>6 DEF RunOut, Nearer, PassesLeft
<1>7. CASE NextPass
  BY <1>7 DEF NextPass, Nearer, PassesLeft
<1>8. CASE EndInvocation
  BY <1>1, <1>8 DEF EndInvocation, Nearer
<1>9. CASE TimeOut
  <2>1. PassesLeft = 3 /\ PassesLeft' = 0 /\ invocNum' = invocNum
    BY <1>9 DEF TimeOut, PassesLeft
  <2>2. QED
    BY <2>1 DEF Nearer
<1>10. CASE Output
  BY <1>10 DEF Output, Nearer, PassesLeft
<1>11. QED
  BY <1>2, <1>3, <1>4, <1>5, <1>6, <1>7, <1>8, <1>9, <1>10 DEF Next

-----------------------------------------------------------------------------
(* Every step keeps the streams in step.                                   *)

\* A stream that a pair of the menu needs is read at the right place.
LEMMA NeededStream ==
  ASSUME TypedState, KeepsStep, NEW way \in Ways, NEW k \in DOMAIN menu[way],
         NEW s \in StreamsOf(menu[way][k], way)
  PROVE  /\ s \in Streams /\ s[1] \in Instrs
         /\ position[s] \in Nat /\ instances[s[1]] \in Nat /\ instrCounts[s[1]] \in Nat
         /\ ReadSoFar(s) /\ (status = "pairs" /\ Passed(way, k) => Ready(s))
<1>1. s \in Streams /\ s[1] \in Instrs
  BY PairStreams
<1>2. position[s] \in Nat /\ instances[s[1]] \in Nat /\ instrCounts[s[1]] \in Nat
  BY <1>1, TypeFacts
<1>3. QED
  BY <1>1, <1>2 DEF KeepsStep

\* Steps that leave the menu and the streams alone.
LEMMA QuietKeepsStep ==
  ASSUME KeepsStep,
         menu' = menu, position' = position, instances' = instances,
         invMemoryTrace' = invMemoryTrace, instrCounts' = instrCounts,
         status' = status \/ status' \notin {"next", "pairs"},
         status' = "pairs" =>
           \A way \in Ways : \A k \in DOMAIN menu[way] : Passed(way, k)' => Passed(way, k)
  PROVE  KeepsStep'
<1>1. SUFFICES ASSUME NEW way \in Ways, NEW k \in DOMAIN menu[way],
                      NEW s \in StreamsOf(menu[way][k], way)
               PROVE  ReadSoFar(s)' /\ (status' = "pairs" /\ Passed(way, k)' => Ready(s)')
  <2>1. KeepsStep' <=> \A way \in Ways : \A k \in DOMAIN menu[way] :
                         \A s \in StreamsOf(menu[way][k], way) :
                           ReadSoFar(s)' /\ (status' = "pairs" /\ Passed(way, k)' => Ready(s)')
    BY DEF KeepsStep, StreamsOf, WriteStream, OtherStream
  <2>2. QED
    BY <2>1
<1>2. ReadSoFar(s) /\ (status = "pairs" /\ Passed(way, k) => Ready(s))
  BY <1>1 DEF KeepsStep
<1>3. Ready(s)' <=> Ready(s)
  BY DEF Ready
<1>4. Expected(s)' = Expected(s)
  BY DEF Expected
<1>5. ReadSoFar(s)'
  BY <1>2, <1>4 DEF ReadSoFar, InStep
<1>6. QED
  BY <1>1, <1>2, <1>3, <1>5

LEMMA StartKeepsStep ==
  ASSUME TypedState, KeepsStep, StartInvocation
  PROVE  KeepsStep'
<1>1. SUFFICES ASSUME NEW way \in Ways, NEW k \in DOMAIN menu[way],
                      NEW s \in StreamsOf(menu[way][k], way)
               PROVE  position[s] = Expected(s)' /\ ~ Passed(way, k)'
  BY DEF StartInvocation, KeepsStep, ReadSoFar, StreamsOf, WriteStream, OtherStream
<1>2. position[s] = instrCounts[s[1]] /\ instrCounts[s[1]] \in Nat
  BY <1>1, NeededStream DEF StartInvocation, ReadSoFar, InStep
<1>3. Expected(s)' = instrCounts[s[1]] + 0
  BY DEF Expected, StartInvocation
<1>4. k \in 1 .. Len(menu[way]) /\ Len(menu[way]) \in Nat
  BY <1>1, TypeFacts
<1>5. ~ Passed(way, k)'
  BY <1>1, <1>4 DEF Passed, StartInvocation
<1>6. QED
  BY <1>2, <1>3, <1>5

LEMMA AnalyseKeepsStep ==
  ASSUME TypedState, KeepsStep, AnalysePair
  PROVE  KeepsStep'
<1>1. /\ pass \in Ways /\ at \in DOMAIN menu[pass]
      /\ DOMAIN invMemoryTrace' = DOMAIN invMemoryTrace \cup Missing(Pair, pass)
      /\ \/ menu' = [menu EXCEPT ![pass] = Erase(menu[pass], at)] /\ at' = at
         \/ menu' = menu /\ at' = at + 1
  BY AnalyseFacts
<1>2. /\ status = "pairs" /\ status' = "pairs" /\ pass' = pass /\ instances' = instances
      /\ instrCounts' = instrCounts
      /\ \A s \in Streams :
           position'[s] = position[s] + (IF s \in Missing(Pair, pass) THEN instances[s[1]] ELSE 0)
  BY DEF AnalysePair
<1>3. ASSUME NEW way \in Ways, NEW k \in DOMAIN menu[way], NEW s \in StreamsOf(menu[way][k], way)
      PROVE  /\ position'[s] = Expected(s)'
             /\ Passed(way, k) \/ (way = pass /\ k = at) => Ready(s)'
  <2>1. /\ s \in Streams /\ position[s] \in Nat /\ instances[s[1]] \in Nat
        /\ instrCounts[s[1]] \in Nat /\ ReadSoFar(s) /\ (Passed(way, k) => Ready(s))
    BY <1>2, <1>3, NeededStream
  <2>2. position[s] = instrCounts[s[1]] + (IF s \in DOMAIN invMemoryTrace THEN instances[s[1]] ELSE 0)
    BY <1>2, <2>1 DEF ReadSoFar, Expected
  <2>3. s \in Missing(Pair, pass) => s \notin DOMAIN invMemoryTrace
    BY DEF Missing
  <2>4. Expected(s)' = instrCounts[s[1]] + (IF s \in DOMAIN invMemoryTrace' THEN instances[s[1]] ELSE 0)
    BY <1>2 DEF Expected
  <2>5. position'[s] = Expected(s)'
    BY <1>1, <1>2, <2>1, <2>2, <2>3, <2>4
  <2>6. ASSUME way = pass /\ k = at PROVE s \in DOMAIN invMemoryTrace'
    BY <1>1, <1>3, <2>6 DEF Missing, Pair
  <2>7. QED
    BY <1>1, <1>2, <2>1, <2>5, <2>6 DEF Ready
<1>4. at \in Nat /\ \A way \in Ways : DOMAIN menu[way] = 1 .. Len(menu[way]) /\ Len(menu[way]) \in Nat
  BY TypeFacts
<1>5. \A way \in Ways : \A k \in DOMAIN menu'[way] :
        \E j \in DOMAIN menu[way] :
          /\ menu'[way][k] = menu[way][j]
          /\ Passed(way, k)' => Passed(way, j) \/ (way = pass /\ j = at)
  <2>1. SUFFICES ASSUME NEW way \in Ways, NEW k \in DOMAIN menu'[way]
                 PROVE  \E j \in DOMAIN menu[way] :
                          /\ menu'[way][k] = menu[way][j]
                          /\ Passed(way, k)' => Passed(way, j) \/ (way = pass /\ j = at)
    OBVIOUS
  <2>2. CASE menu' = menu /\ at' = at + 1
    <3>1. k \in DOMAIN menu[way] /\ menu'[way][k] = menu[way][k] /\ k \in Nat
      BY <1>4, <2>1, <2>2
    <3>2. Passed(way, k)' => Passed(way, k) \/ (way = pass /\ k = at)
      BY <1>2, <1>4, <2>2, <3>1 DEF Passed
    <3>3. QED
      BY <3>1, <3>2
  <2>3. CASE menu' = [menu EXCEPT ![pass] = Erase(menu[pass], at)] /\ at' = at
    <3>1. CASE way # pass
      <4>1. menu'[way] = menu[way]
        BY <2>3, <3>1
      <4>2. Passed(way, k)' => Passed(way, k)
        BY <1>2, <3>1 DEF Passed
      <4>3. QED
        BY <2>1, <4>1, <4>2
    <3>2. CASE way = pass
      <4> DEFINE e == Erase(menu[pass], at)
      <4>1. menu'[way] = e
        BY <1>1, <2>3, <3>2, TypeFacts
      <4>2. /\ k \in DOMAIN menu[way] /\ k + 1 \in DOMAIN menu[way]
            /\ e[k] = IF k < at THEN menu[way][k] ELSE menu[way][k + 1]
        BY <1>1, <2>1, <3>2, <4>1, EraseTyped
      <4> HIDE DEF e
      <4>3. CASE k < at
        <5>1. menu'[way][k] = menu[way][k]
          BY <4>1, <4>2, <4>3
        <5>2. Passed(way, k)' => Passed(way, k)
          BY <1>2, <2>3 DEF Passed
        <5>3. QED
          BY <4>2, <5>1, <5>2
      <4>4. CASE ~ (k < at)
        <5>1. menu'[way][k] = menu[way][k + 1]
          BY <4>1, <4>2, <4>4
        <5>2. Passed(way, k)' => Passed(way, k + 1)
          BY <1>2, <2>3, <3>2, <4>4 DEF Passed
        <5>3. QED
          BY <4>2, <5>1, <5>2
      <4>5. QED
        BY <4>3, <4>4
    <3>3. QED
      BY <3>1, <3>2
  <2>4. QED
    BY <1>1, <2>2, <2>3
<1>6. ASSUME NEW way \in Ways, NEW k \in DOMAIN menu'[way], NEW s \in StreamsOf(menu'[way][k], way)
      PROVE  ReadSoFar(s)' /\ (Passed(way, k)' => Ready(s)')
  <2>1. PICK j \in DOMAIN menu[way] :
          /\ menu'[way][k] = menu[way][j]
          /\ Passed(way, k)' => Passed(way, j) \/ (way = pass /\ j = at)
    BY <1>5, <1>6
  <2>2. s \in StreamsOf(menu[way][j], way)
    BY <1>6, <2>1
  <2>3. /\ position'[s] = Expected(s)'
        /\ Passed(way, j) \/ (way = pass /\ j = at) => Ready(s)'
    BY <1>3, <1>6, <2>1, <2>2
  <2>4. QED
    BY <1>2, <2>1, <2>3 DEF ReadSoFar
<1>7. QED
  BY <1>6 DEF KeepsStep, StreamsOf, WriteStream, OtherStream

(***************************************************************************)
(* When both passes are through, every pair that is left has its sets or   *)
(* had nothing to fetch: the streams are where the counts are.             *)
(***************************************************************************)
LEMMA EndKeepsStep ==
  ASSUME TypedState, KeepsStep, EndInvocation
  PROVE  KeepsStep'
<1>1. SUFFICES ASSUME NEW way \in Ways, NEW k \in DOMAIN menu[way],
                      NEW s \in StreamsOf(menu[way][k], way)
               PROVE  position[s] = instrCounts'[s[1]]
  BY ZenonT(60) DEF EndInvocation, KeepsStep, ReadSoFar, InStep, StreamsOf, WriteStream, OtherStream
<1>2. /\ s \in Streams /\ s[1] \in Instrs
      /\ position[s] \in Nat /\ instances[s[1]] \in Nat /\ instrCounts[s[1]] \in Nat
      /\ ReadSoFar(s) /\ (Passed(way, k) => Ready(s))
  BY <1>1, NeededStream DEF EndInvocation
<1>3. Passed(way, k)
  <2>1. k \in 1 .. Len(menu[way]) /\ Len(menu[way]) \in Nat /\ at \in Nat
    BY <1>1, TypeFacts
  <2>2. pass = "ww" /\ at > Len(menu[pass]) /\ way \in {"rw", "ww"}
    BY <1>1 DEF EndInvocation, Ways
  <2>3. QED
    BY <2>1, <2>2 DEF Passed
<1>4. position[s] = instrCounts[s[1]] + (IF s \in DOMAIN invMemoryTrace THEN instances[s[1]] ELSE 0)
  BY <1>2 DEF ReadSoFar, Expected, EndInvocation
<1>5. position[s] = instrCounts[s[1]] + instances[s[1]]
  BY <1>2, <1>3, <1>4 DEF Ready
<1>6. QED
  BY <1>2, <1>5 DEF EndInvocation

LEMMA StepKeepsStep ==
  ASSUME TypedState, KeepsStep, [Next \/ Exited]_vars
  PROVE  KeepsStep'
<1>1. CASE SkipInvocation
  BY <1>1, QuietKeepsStep DEF SkipInvocation
<1>2. CASE StartInvocation
  BY <1>2, StartKeepsStep
<1>3. CASE SkipPair
  <2>1. ASSUME NEW s \in StreamsOf(Pair, pass) PROVE Ready(s)
    BY <1>3 DEF SkipPair, Skips, StreamsOf, WriteStream, OtherStream, Ready
  <2>2. SUFFICES ASSUME NEW way \in Ways, NEW k \in DOMAIN menu[way],
                        NEW s \in StreamsOf(menu[way][k], way)
                 PROVE  ReadSoFar(s)' /\ (Passed(way, k)' => Ready(s)')
    BY <1>3 DEF SkipPair, KeepsStep, StreamsOf, WriteStream, OtherStream
  <2>3. ReadSoFar(s) /\ (Passed(way, k) => Ready(s))
    BY <1>3, <2>2, NeededStream DEF SkipPair
  <2>4. Passed(way, k)' => Passed(way, k) \/ (way = pass /\ k = at)
    <3>1. k \in Nat /\ at \in Nat
      <4>1. k \in 1 .. Len(menu[way]) /\ Len(menu[way]) \in Nat
        BY <2>2, TypeFacts
      <4>2. at \in Nat \ {0}
        BY TypeFacts
      <4>3. QED
        BY <4>1, <4>2
    <3>2. pass' = pass /\ at' = at + 1
      BY <1>3 DEF SkipPair
    <3>3. QED
      BY <3>1, <3>2 DEF Passed
  <2>5. Passed(way, k)' => Ready(s)
    BY <2>1, <2>2, <2>3, <2>4 DEF Pair
  <2>6. QED
    BY <1>3, <2>3, <2>5 DEF SkipPair, ReadSoFar, InStep, Expected, Ready
<1>4. CASE AnalysePair
  BY <1>4, AnalyseKeepsStep
<1>5. CASE RunOut
  BY <1>5, QuietKeepsStep DEF RunOut
<1>6. CASE NextPass
  <2>1. ASSUME NEW way \in Ways, NEW k \in DOMAIN menu[way] PROVE Passed(way, k)' => Passed(way, k)
    <3>1. k \in 1 .. Len(menu[way]) /\ Len(menu[way]) \in Nat /\ at \in Nat
      BY <2>1, TypeFacts
    <3>2. pass = "rw" /\ pass' = "ww" /\ at' = 1 /\ at > Len(menu["rw"])
      BY <1>6 DEF NextPass
    <3>3. way = "rw" => Passed(way, k)
      BY <3>1, <3>2 DEF Passed
    <3>4. way = "ww" => ~ Passed(way, k)'
      BY <3>1, <3>2 DEF Passed
    <3>5. QED
      BY <2>1, <3>3, <3>4 DEF Ways
  <2>2. QED
    BY <1>6, <2>1, QuietKeepsStep DEF NextPass
<1>7. CASE EndInvocation
  BY <1>7, EndKeepsStep
<1>8. CASE TimeOut
  BY <1>8, QuietKeepsStep DEF TimeOut
<1>9. CASE Output
  BY <1>9, QuietKeepsStep DEF Output
<1>10. CASE UNCHANGED vars
  BY <1>10, QuietKeepsStep DEF vars, Passed
<1>11. QED
  BY <1>1, <1>2, <1>3, <1>4, <1>5, <1>6, <1>7, <1>8, <1>9, <1>10 DEF Next, Exited

-----------------------------------------------------------------------------
(* Every step keeps the counts within what was executed.                   *)

LEMMA StepKeepsCount ==
  ASSUME TypedState, KeepsCount, [Next \/ Exited]_vars
  PROVE  KeepsCount'
<1>1. /\ input \in Inputs /\ invocNum \in Nat \ {0} /\ Len(Program) \in Nat
      /\ instances \in [Instrs -> Nat] /\ instrCounts \in [Instrs -> Nat]
  BY TypeFacts, ThroughEnds
<1>2. input' = input /\ Program' = Program
  BY DEF Next, Exited, vars, SkipInvocation, StartInvocation, SkipPair, AnalysePair, RunOut,
         NextPass, EndInvocation, TimeOut, Output, Program
<1>3. \A n, i : /\ Counted(n, i)' = Counted(n, i)
                /\ NumInstancesInInvocation(n, i)' = NumInstancesInInvocation(n, i)
  BY <1>2 DEF Counted, Through, NumInstancesInInvocation, FirstAlike
<1>4. ASSUME instrCounts' = instrCounts, invocNum' = invocNum, status' # "pairs"
      PROVE  KeepsCount'
  BY <1>2, <1>3, <1>4 DEF KeepsCount
<1>5. ASSUME instrCounts' = instrCounts, invocNum' = invocNum, instances' = instances,
             status' = status
      PROVE  KeepsCount'
  BY <1>2, <1>3, <1>5 DEF KeepsCount
<1>6. ASSUME invocNum <= Len(Program), NEW i
      PROVE  /\ Counted(invocNum, i) = Counted(invocNum - 1, i) + CountOf(Program[invocNum], i)
             /\ Counted(invocNum - 1, i) \in Nat /\ CountOf(Program[invocNum], i) \in Nat
  <2> DEFINE n == invocNum - 1
  <2>1. n \in 0 .. Len(Program) - 1 /\ n + 1 = invocNum
    BY <1>1, <1>6
  <2> HIDE DEF n
  <2>2. /\ Counted(n + 1, i) = Counted(n, i) + CountOf(Program[n + 1], i)
        /\ Counted(n, i) \in Nat /\ CountOf(Program[n + 1], i) \in Nat
    BY <1>1, <2>1, CountedGrows
  <2>3. QED
    BY <2>1, <2>2 DEF n
<1>7. CASE SkipInvocation
  <2>1. invocNum <= Len(Program) /\ invocNum' = invocNum + 1 /\ status' = "next"
        /\ instrCounts' = instrCounts
    BY <1>7 DEF SkipInvocation
  <2>2. ASSUME NEW i \in Instrs PROVE instrCounts[i] <= Counted(invocNum, i)
    BY <1>1, <1>6, <2>1 DEF KeepsCount
  <2>3. invocNum' - 1 = invocNum /\ invocNum' <= Len(Program) + 1
    BY <1>1, <2>1
  <2>4. QED
    BY <1>2, <1>3, <2>1, <2>2, <2>3 DEF KeepsCount
<1>8. CASE StartInvocation
  <2>1. /\ invocNum <= Len(Program) /\ invocNum' = invocNum /\ instrCounts' = instrCounts
        /\ \A i \in Instrs : instances'[i] = NumInstancesInInvocation(invocNum, i)
    BY <1>8 DEF StartInvocation
  <2>2. QED
    BY <1>2, <1>3, <2>1 DEF KeepsCount
<1>9. CASE SkipPair
  BY <1>5, <1>9 DEF SkipPair
<1>10. CASE AnalysePair
  BY <1>5, <1>10 DEF AnalysePair
<1>11. CASE RunOut
  BY <1>4, <1>11 DEF RunOut
<1>12. CASE NextPass
  BY <1>5, <1>12 DEF NextPass
<1>13. CASE EndInvocation
  <2>1. /\ status = "pairs" /\ status' = "next" /\ invocNum' = invocNum + 1
        /\ \A i \in Instrs : instrCounts'[i] = instrCounts[i] + instances[i]
    BY <1>13 DEF EndInvocation
  <2>2. invocNum <= Len(Program)
    BY <2>1 DEF KeepsCount
  <2>3. ASSUME NEW i \in Instrs PROVE instrCounts'[i] <= Counted(invocNum, i)
    <3>1. instrCounts[i] <= Counted(invocNum - 1, i)
          /\ instances[i] = NumInstancesInInvocation(invocNum, i)
      BY <2>1 DEF KeepsCount
    <3>2. NumInstancesInInvocation(invocNum, i) <= CountOf(Program[invocNum], i)
      BY <1>1, <2>2, InstancesBounded
    <3>3. /\ Counted(invocNum, i) = Counted(invocNum - 1, i) + CountOf(Program[invocNum], i)
          /\ Counted(invocNum - 1, i) \in Nat /\ CountOf(Program[invocNum], i) \in Nat
      BY <1>6, <2>2
    <3>4. instrCounts[i] \in Nat /\ instances[i] \in Nat
      BY <1>1
    <3>5. QED
      BY <2>1, <3>1, <3>2, <3>3, <3>4
  <2>4. invocNum' - 1 = invocNum /\ invocNum' <= Len(Program) + 1
    BY <1>1, <2>1, <2>2
  <2>5. QED
    BY <1>2, <1>3, <2>1, <2>3, <2>4 DEF KeepsCount
<1>14. CASE TimeOut
  BY <1>4, <1>14 DEF TimeOut
<1>15. CASE Output
  BY <1>4, <1>15 DEF Output
<1>16. CASE UNCHANGED vars
  BY <1>5, <1>16 DEF vars
<1>17. QED
  BY <1>7, <1>8, <1>9, <1>10, <1>11, <1>12, <1>13, <1>14, <1>15, <1>16 DEF Next, Exited

(***************************************************************************)
(* A stream that is fetched has the instances asked for: it was read up to *)
(* the instances of the invocations before, and they and those of this     *)
(* one are in the trace, if it is complete (getNextChunk).                 *)
(***************************************************************************)
LEMMA StreamsSuffice ==
  ASSUME IInv, Complete
  PROVE  ~ RunOut
<1>1. SUFFICES ASSUME RunOut PROVE FALSE
  OBVIOUS
<1>2. TypedState /\ KeepsStep /\ KeepsCount
  BY DEF IInv
<1>3. status = "pairs" /\ pass \in Ways /\ at \in DOMAIN menu[pass]
  <2>1. status = "pairs" /\ pass \in Ways /\ at \in Nat \ {0} /\ at <= Len(menu[pass])
    BY <1>1, <1>2, TypeFacts DEF RunOut
  <2>2. Len(menu[pass]) \in Nat /\ DOMAIN menu[pass] = 1 .. Len(menu[pass])
    BY <1>2, <2>1, TypeFacts
  <2>3. QED
    BY <2>1, <2>2
<1>4. PICK s \in StreamsOf(Pair, pass) : s \notin DOMAIN invMemoryTrace /\ ~ CanFetch(s)
  BY <1>1 DEF RunOut, Missing
<1>5. /\ s[1] \in Instrs /\ position[s] \in Nat /\ instances[s[1]] \in Nat
      /\ instrCounts[s[1]] \in Nat /\ ReadSoFar(s)
  BY <1>2, <1>3, <1>4, NeededStream DEF Pair
<1>6. position[s] = instrCounts[s[1]]
  BY <1>3, <1>4, <1>5 DEF ReadSoFar, Expected
<1> DEFINE i == s[1]
<1>7. /\ input \in Inputs /\ invocNum \in Nat \ {0} /\ Len(Program) \in Nat
      /\ invocNum <= Len(Program)
      /\ instrCounts[i] <= Counted(invocNum - 1, i)
      /\ instances[i] = NumInstancesInInvocation(invocNum, i)
  BY <1>2, <1>3, <1>5, TypeFacts, ThroughEnds DEF KeepsCount
<1>8. instances[i] <= CountOf(Program[invocNum], i)
  BY <1>7, InstancesBounded
<1>9. /\ Counted(invocNum, i) = Counted(invocNum - 1, i) + CountOf(Program[invocNum], i)
      /\ Counted(invocNum - 1, i) \in Nat /\ CountOf(Program[invocNum], i) \in Nat
  <2> DEFINE n == invocNum - 1
  <2>1. n \in 0 .. Len(Program) - 1 /\ n + 1 = invocNum
    BY <1>7
  <2> HIDE DEF n, i
  <2>2. /\ Counted(n + 1, i) = Counted(n, i) + CountOf(Program[n + 1], i)
        /\ Counted(n, i) \in Nat /\ CountOf(Program[n + 1], i) \in Nat
    BY <1>7, <2>1, CountedGrows
  <2>3. QED
    BY <2>1, <2>2 DEF n
<1>10. Counted(invocNum, i) \in Nat /\ Counted(invocNum, i) <= CountOf(FlattenSeq(Program), i)
  BY <1>7, CountedAtMostAll
<1>11. NumRecorded(i) = CountOf(FlattenSeq(Program), i) /\ CountOf(FlattenSeq(Program), i) \in Nat
  BY <1>7, CompleteStreams, ThroughEnds, OfFinite
<1> HIDE DEF i
<1>12. position[s] + instances[i] <= NumRecorded(i)
  BY <1>5, <1>6, <1>7, <1>8, <1>9, <1>10, <1>11 DEF i
<1>13. QED
  BY <1>4, <1>12 DEF CanFetch, i

LEMMA StepNeverRunsOut ==
  ASSUME IInv, [Next \/ Exited]_vars
  PROVE  NeverRunsOut'
<1>1. SUFFICES ASSUME Complete' PROVE status' # "undefined"
  BY DEF NeverRunsOut
<1>2. input' = input
  BY DEF Next, Exited, vars, SkipInvocation, StartInvocation, SkipPair, AnalysePair, RunOut,
         NextPass, EndInvocation, TimeOut, Output
<1>3. Complete
  BY <1>1, <1>2 DEF Complete, Size, Program
<1>4. ~ RunOut /\ status # "undefined"
  BY <1>3, StreamsSuffice DEF IInv, NeverRunsOut
<1>5. QED
  BY <1>4 DEF Next, Exited, vars, SkipInvocation, StartInvocation, SkipPair, AnalysePair,
              NextPass, EndInvocation, TimeOut, Output

-----------------------------------------------------------------------------
(* Theorems.                                                               *)

LEMMA StepInv ==
  ASSUME IInv, [Next \/ Exited]_vars
  PROVE  IInv'
BY StepTyped, StepKeepsStep, StepKeepsCount, StepNeverRunsOut DEF IInv

LEMMA InvAlways == Spec => []IInv
BY InitInv, StepInv, PTL DEF Spec

(***************************************************************************)
(* Whatever the program, the traces, the mode and the menu: between        *)
(* invocations every stream that a pair still needs has been read exactly  *)
(* as far as its instruction was executed, although the two passes read on *)
(* demand, share what they fetch, skip pairs and remove them               *)
(* (invocation_analysis_memeff).                                           *)
(***************************************************************************)
THEOREM StreamsAlwaysInStep == Spec => []StreamsInStep
<1>1. ASSUME IInv PROVE StreamsInStep
  <2>1. TypedState /\ KeepsStep
    BY <1>1 DEF IInv
  <2>2. ASSUME status = "next", NEW way \in {"rw", "ww"}, NEW k \in DOMAIN menu[way],
               NEW s \in StreamsOf(menu[way][k], way)
        PROVE  InStep(s)
    BY <2>1, <2>2, NeededStream DEF Ways, ReadSoFar
  <2>3. QED
    BY <2>1, <2>2 DEF StreamsInStep, TypedState
<1>2. QED
  BY <1>1, InvAlways, PTL

(***************************************************************************)
(* With a complete memory trace no stream is read past its end, also where *)
(* the number of instances is taken from another invocation of a group     *)
(* (getNextChunk in both passes).                                          *)
(***************************************************************************)
THEOREM StreamsNeverRunOut == Spec => []NeverRunsOut
<1>1. IInv => NeverRunsOut
  BY DEF IInv
<1>2. QED
  BY <1>1, InvAlways, PTL

(***************************************************************************)
(* Every step of the analysis is nearer to its exit.                       *)
(***************************************************************************)
THEOREM AnalysisProgresses == Spec => Progress
<1>1. ASSUME IInv, [Next \/ Exited]_vars PROVE [Nearer]_vars
  BY <1>1, StepNearer DEF IInv, Exited
<1>2. QED
  BY <1>1, InvAlways, PTL DEF Spec, Progress

-----------------------------------------------------------------------------
(* What FlattenSeq and AtPlaces return.                                    *)

FirstOf(s, n) == [k \in 1 .. n |-> s[k]]

LEMMA FirstOfFacts ==
  ASSUME NEW S, NEW s \in Seq(S), NEW n \in 0 .. Len(s)
  PROVE  /\ FirstOf(s, n) \in [1 .. n -> S] /\ n \in Nat /\ Len(s) \in Nat
         /\ FirstOf(s, n) \in Seq(S) /\ Len(FirstOf(s, n)) = n
         /\ FirstOf(s, 0) = <<>> /\ FirstOf(s, Len(s)) = s
<1>1. Len(s) \in Nat /\ n \in Nat
  OBVIOUS
<1>2. FirstOf(s, n) \in [1 .. n -> S]
  BY <1>1 DEF FirstOf
<1>3. FirstOf(s, n) \in Seq(S) /\ Len(FirstOf(s, n)) = n
  BY <1>1, <1>2, IsASeq
<1>4. FirstOf(s, 0) = <<>>
  BY DEF FirstOf
<1>5. FirstOf(s, Len(s)) = s
  BY DEF FirstOf
<1>6. QED
  BY <1>1, <1>2, <1>3, <1>4, <1>5

LEMMA FlattenFirst ==
  ASSUME NEW S, NEW s \in Seq(Seq(S)), NEW n \in 0 .. Len(s) - 1
  PROVE  /\ FlattenSeq(FirstOf(s, n + 1)) = FlattenSeq(FirstOf(s, n)) \o s[n + 1]
         /\ FlattenSeq(FirstOf(s, n)) \in Seq(S) /\ FlattenSeq(FirstOf(s, n + 1)) \in Seq(S)
         /\ s[n + 1] \in Seq(S)
<1> DEFINE p == FirstOf(s, n)
           q == FirstOf(s, n + 1)
<1>1. n \in Nat /\ n \in 0 .. Len(s) /\ n + 1 \in 0 .. Len(s) /\ n + 1 \in 1 .. n + 1 /\ n + 1 \in 1 .. Len(s)
  OBVIOUS
<1>2. p \in [1 .. n -> Seq(S)] /\ q \in [1 .. n + 1 -> Seq(S)]
  BY <1>1, FirstOfFacts
<1>3. (\A i \in 1 .. n : q[i] = p[i]) /\ q[n + 1] = s[n + 1]
  BY <1>1 DEF FirstOf
<1> HIDE DEF p, q
<1>4. /\ FlattenSeq(q) = FlattenSeq(p) \o q[n + 1]
      /\ FlattenSeq(p) \in Seq(S) /\ FlattenSeq(q) \in Seq(S)
  BY <1>1, <1>2, <1>3, FlattenExtend
<1>5. s[n + 1] \in Seq(S)
  BY <1>1
<1>6. QED
  BY <1>3, <1>4, <1>5 DEF p, q

LEMMA FlattenConcat ==
  ASSUME NEW S, NEW s \in Seq(Seq(S)), NEW t \in Seq(Seq(S))
  PROVE  FlattenSeq(s \o t) = FlattenSeq(s) \o FlattenSeq(t)
<1> DEFINE u == s \o t
           m == Len(s)
           T == {n \in Nat : n <= Len(t) =>
                   FlattenSeq(FirstOf(u, m + n)) = FlattenSeq(s) \o FlattenSeq(FirstOf(t, n))}
<1>1. u \in Seq(Seq(S)) /\ Joined(u, s, t, m, Len(t)) /\ m \in Nat /\ Len(t) \in Nat
  BY ConcatJoins, LenProperties
<1>2. Len(u) = m + Len(t) /\ \A i \in 1 .. m : u[i] = s[i]
  BY <1>1 DEF Joined
<1>3. FlattenSeq(s) \in Seq(S)
  BY FlattenType
<1>4. FirstOf(u, m) = s
  <2>1. FirstOf(u, m) = FirstOf(s, m)
    BY <1>2 DEF FirstOf
  <2>2. QED
    BY <1>1, <2>1, FirstOfFacts
<1> HIDE DEF u, m
<1>5. 0 \in T
  <2>1. FirstOf(t, 0) = <<>> /\ m + 0 = m
    BY <1>1, FirstOfFacts
  <2>2. FlattenSeq(s) \o <<>> = FlattenSeq(s)
    BY <1>3, ConcatEmptySeq
  <2>3. QED
    BY <1>4, <2>1, <2>2, FlattenEmpty
<1>6. ASSUME NEW n \in Nat, n \in T PROVE n + 1 \in T
  <2>1. SUFFICES ASSUME n + 1 <= Len(t)
                 PROVE  FlattenSeq(FirstOf(u, m + (n + 1)))
                          = FlattenSeq(s) \o FlattenSeq(FirstOf(t, n + 1))
    BY <1>6
  <2> DEFINE k == m + n
  <2>2. k \in 0 .. Len(u) - 1 /\ k + 1 = m + (n + 1) /\ n \in 0 .. Len(t) - 1 /\ n + 1 \in 1 .. Len(t)
        /\ n <= Len(t)
    BY <1>1, <1>2, <2>1
  <2>3. u[k + 1] = t[n + 1]
    BY <1>1, <2>2 DEF Joined
  <2> HIDE DEF k
  <2>4. FlattenSeq(FirstOf(u, k + 1)) = FlattenSeq(FirstOf(u, k)) \o u[k + 1]
    BY <1>1, <2>2, FlattenFirst
  <2>5. /\ FlattenSeq(FirstOf(t, n + 1)) = FlattenSeq(FirstOf(t, n)) \o t[n + 1]
        /\ FlattenSeq(FirstOf(t, n)) \in Seq(S) /\ t[n + 1] \in Seq(S)
    BY <2>2, FlattenFirst
  <2>6. FlattenSeq(FirstOf(u, k)) = FlattenSeq(s) \o FlattenSeq(FirstOf(t, n))
    BY <1>6, <2>2 DEF k
  <2>7. (FlattenSeq(s) \o FlattenSeq(FirstOf(t, n))) \o t[n + 1]
          = FlattenSeq(s) \o (FlattenSeq(FirstOf(t, n)) \o t[n + 1])
    <3> DEFINE a == FlattenSeq(s)
               b == FlattenSeq(FirstOf(t, n))
               c == t[n + 1]
    <3>1. a \in Seq(S) /\ b \in Seq(S) /\ c \in Seq(S)
      BY <1>3, <2>5
    <3> HIDE DEF a, b, c
    <3>2. (a \o b) \o c = a \o (b \o c)
      BY <3>1, ConcatAssociative, SMTT(60)
    <3>3. QED
      BY <3>2, Zenon DEF a, b, c
  <2>8. QED
    BY <2>2, <2>3, <2>4, <2>5, <2>6, <2>7
<1>7. Nat \subseteq T
  <2> HIDE DEF T
  <2>1. QED
    BY <1>5, <1>6, SetInduction
<1>8. FlattenSeq(FirstOf(u, m + Len(t))) = FlattenSeq(s) \o FlattenSeq(FirstOf(t, Len(t)))
  <2>1. Len(t) \in T /\ Len(t) <= Len(t)
    BY <1>1, <1>7
  <2>2. QED
    BY <2>1
<1>9. FirstOf(t, Len(t)) = t
  BY <1>1, FirstOfFacts
<1>10. FirstOf(u, m + Len(t)) = u
  <2>1. Len(u) \in 0 .. Len(u)
    BY <1>1, <1>2
  <2>2. FirstOf(u, Len(u)) = u
    BY <1>1, <2>1, FirstOfFacts
  <2>3. QED
    BY <1>2, <2>2
<1>11. QED
  BY <1>8, <1>9, <1>10, Zenon DEF u

\* How many of the places K are among the first n.
Until(K, n) == K \cap (1 .. n)
CountUntil(K, n) == Cardinality(Until(K, n))

LEMMA UntilFacts ==
  ASSUME NEW N \in Nat, NEW K \in SUBSET (1 .. N)
  PROVE  /\ CountUntil(K, 0) = 0 /\ CountUntil(K, N) = Cardinality(K)
         /\ \A n \in Nat :
              /\ IsFiniteSet(Until(K, n)) /\ CountUntil(K, n) \in Nat
              /\ CountUntil(K, n + 1) = CountUntil(K, n) + (IF n + 1 \in K THEN 1 ELSE 0)
<1>1. IsFiniteSet(1 .. N)
  BY FS_Interval
<1>2. \A j : IsFiniteSet(Until(K, j)) /\ CountUntil(K, j) \in Nat
  BY <1>1, FS_Subset, FS_CardinalityType DEF Until, CountUntil
<1>5. \A k \in K : k \in Nat /\ 1 <= k /\ k <= N
  OBVIOUS
<1>3. Until(K, 0) = {} /\ Until(K, N) = K
  <2>1. 1 .. 0 = {}
    OBVIOUS
  <2>2. K \cap (1 .. N) = K
    OBVIOUS
  <2>3. QED
    BY <2>1, <2>2 DEF Until
<1>4. ASSUME NEW n \in Nat
      PROVE  CountUntil(K, n + 1) = CountUntil(K, n) + (IF n + 1 \in K THEN 1 ELSE 0)
  <2>1. CASE n + 1 \in K
    <3>1. Until(K, n + 1) = Until(K, n) \cup {n + 1} /\ n + 1 \notin Until(K, n)
      BY <1>5, <2>1 DEF Until
    <3>2. QED
      BY <1>2, <2>1, <3>1, FS_AddElement DEF CountUntil
  <2>2. CASE n + 1 \notin K
    <3>1. Until(K, n + 1) = Until(K, n)
      BY <1>5, <2>2 DEF Until
    <3>2. QED
      BY <1>2, <2>2, <3>1 DEF CountUntil
  <2>3. QED
    BY <2>1, <2>2
<1>6. QED
  BY <1>2, <1>3, <1>4, FS_EmptySet DEF CountUntil

(***************************************************************************)
(* AtPlaces has one member for every place, in the order of the places.    *)
(***************************************************************************)
IfPlaced(s, K) == [k \in DOMAIN s |-> IF k \in K THEN <<s[k]>> ELSE <<>>]

LEMMA IfPlacedType ==
  ASSUME NEW S, NEW s \in Seq(S), NEW K
  PROVE  /\ IfPlaced(s, K) \in Seq(Seq(S)) /\ Len(IfPlaced(s, K)) = Len(s) /\ Len(s) \in Nat
         /\ AtPlaces(s, K) = FlattenSeq(IfPlaced(s, K)) /\ AtPlaces(s, K) \in Seq(S)
         /\ \A k \in 1 .. Len(s) : IfPlaced(s, K)[k] = IF k \in K THEN <<s[k]>> ELSE <<>>
<1> DEFINE f == IfPlaced(s, K)
<1>1. DOMAIN s = 1 .. Len(s) /\ Len(s) \in Nat
  OBVIOUS
<1>2. ASSUME NEW k \in 1 .. Len(s) PROVE f[k] = (IF k \in K THEN <<s[k]>> ELSE <<>>) /\ f[k] \in Seq(S)
  <2>1. f[k] = IF k \in K THEN <<s[k]>> ELSE <<>>
    BY <1>1, Zenon DEF IfPlaced
  <2>2. s[k] \in S
    OBVIOUS
  <2>3. QED
    BY <2>1, <2>2
<1>3. DOMAIN f = 1 .. Len(s)
  BY <1>1, Zenon DEF IfPlaced
<1>4. f = [k \in DOMAIN f |-> f[k]]
  BY Zenon DEF IfPlaced
<1> HIDE DEF f
<1>5. f \in [1 .. Len(s) -> Seq(S)]
  BY <1>2, <1>3, <1>4
<1>6. f \in Seq(Seq(S)) /\ Len(f) = Len(s)
  BY <1>1, <1>5, IsASeq
<1>7. AtPlaces(s, K) = FlattenSeq(f)
  BY Zenon DEF AtPlaces, f, IfPlaced
<1>8. QED
  BY <1>1, <1>2, <1>6, <1>7, FlattenType DEF f

LEMMA PlacesFacts ==
  ASSUME NEW S, NEW s \in Seq(S), NEW K, K \subseteq 1 .. Len(s)
  PROVE  /\ AtPlaces(s, K) \in Seq(S) /\ Len(AtPlaces(s, K)) = Cardinality(K)
         /\ \A k \in K : /\ CountUntil(K, k) \in 1 .. Cardinality(K)
                         /\ AtPlaces(s, K)[CountUntil(K, k)] = s[k]
         /\ \A m \in 1 .. Cardinality(K) : \E k \in K : CountUntil(K, k) = m
<1> DEFINE f == IfPlaced(s, K)
           N == Len(s)
           g(n) == FlattenSeq(FirstOf(f, n))
           P(n) == /\ g(n) \in Seq(S) /\ Len(g(n)) = CountUntil(K, n)
                   /\ \A k \in K : k <= n => /\ CountUntil(K, k) \in 1 .. CountUntil(K, n)
                                             /\ g(n)[CountUntil(K, k)] = s[k]
                   /\ \A m \in 1 .. CountUntil(K, n) : \E k \in K : k <= n /\ CountUntil(K, k) = m
           T == {n \in Nat : n <= N => P(n)}
<1>1. /\ f \in Seq(Seq(S)) /\ Len(f) = N /\ N \in Nat /\ AtPlaces(s, K) = FlattenSeq(f)
      /\ \A k \in 1 .. N : f[k] = IF k \in K THEN <<s[k]>> ELSE <<>>
  BY IfPlacedType
<1> HIDE DEF f
<1>2. /\ \A n \in Nat : /\ CountUntil(K, n) \in Nat
                        /\ CountUntil(K, n + 1) = CountUntil(K, n) + (IF n + 1 \in K THEN 1 ELSE 0)
      /\ CountUntil(K, 0) = 0 /\ CountUntil(K, N) = Cardinality(K)
  <2>1. N \in Nat /\ K \in SUBSET (1 .. N)
    BY <1>1
  <2> HIDE DEF N
  <2>2. QED
    BY <2>1, UntilFacts, SMTT(60)
<1>3. \A k \in K : k \in 1 .. N /\ k \in Nat /\ 1 <= k /\ k <= N
  BY <1>1
<1>4. \A k \in 1 .. N : s[k] \in S
  OBVIOUS
<1> HIDE DEF N
<1>5. P(0)
  <2>1. g(0) = <<>>
    BY <1>1, FirstOfFacts, FlattenEmpty
  <2> HIDE DEF g
  <2>2. g(0) \in Seq(S) /\ Len(g(0)) = 0
    BY <2>1, EmptySeq
  <2>3. \A k \in K : ~ (k <= 0)
    BY <1>3
  <2>4. CountUntil(K, 0) = 0 /\ 1 .. CountUntil(K, 0) = {}
    BY <1>2
  <2>5. QED
    BY <2>2, <2>3, <2>4
<1>6. ASSUME NEW n \in Nat, n \in T PROVE n + 1 \in T
  <2>1. SUFFICES ASSUME n + 1 <= N PROVE P(n + 1)
    <3>1. n + 1 \in Nat
      OBVIOUS
    <3>2. QED
      BY <3>1, Zenon
  <2>2. n \in 0 .. Len(f) - 1 /\ n + 1 \in 1 .. N /\ n <= N
    BY <1>1, <2>1
  <2>3. /\ g(n + 1) = g(n) \o f[n + 1] /\ g(n + 1) \in Seq(S) /\ g(n) \in Seq(S)
        /\ f[n + 1] \in Seq(S)
    BY <1>1, <2>2, FlattenFirst
  <2>4. Joined(g(n + 1), g(n), f[n + 1], Len(g(n)), Len(f[n + 1]))
    BY <2>3, ConcatJoins
  <2>5. P(n)
    BY <1>6, <2>2
  <2> DEFINE a == g(n)
             b == g(n + 1)
             c(k) == CountUntil(K, k)
  <2>6. Len(a) = c(n) /\ c(n) \in Nat /\ c(n + 1) \in Nat
    <3>1. n + 1 \in Nat
      OBVIOUS
    <3>2. Len(a) = c(n)
      BY <2>5
    <3>3. QED
      BY <1>2, <3>1, <3>2
  <2>7. /\ \A k \in K : k <= n => c(k) \in 1 .. c(n) /\ a[c(k)] = s[k]
        /\ \A m \in 1 .. c(n) : \E k \in K : k <= n /\ c(k) = m
    BY <2>5
  <2>8. Joined(b, a, f[n + 1], c(n), Len(f[n + 1])) /\ b \in Seq(S)
    BY <2>3, <2>4, <2>6
  <2> HIDE DEF a, b, g
  <2>9. CASE n + 1 \in K
    <3>1. f[n + 1] = <<s[n + 1]>> /\ Len(f[n + 1]) = 1 /\ f[n + 1][1] = s[n + 1]
      BY <1>1, <2>2, <2>9
    <3>2. c(n + 1) = c(n) + 1
      BY <1>2, <2>9
    <3> HIDE DEF c
    <3>3. Len(b) = c(n) + 1 /\ (\A i \in 1 .. c(n) : b[i] = a[i]) /\ b[c(n) + 1] = s[n + 1]
      BY <2>8, <3>1 DEF Joined
    <3>4. ASSUME NEW k \in K, k <= n + 1
          PROVE  c(k) \in 1 .. c(n + 1) /\ b[c(k)] = s[k]
      <4>1. CASE k = n + 1
        BY <2>6, <3>2, <3>3, <4>1
      <4>2. CASE k <= n
        <5>1. c(k) \in 1 .. c(n) /\ a[c(k)] = s[k]
          BY <2>7, <3>4, <4>2
        <5>2. QED
          BY <2>6, <3>2, <3>3, <5>1
      <4>3. QED
        BY <1>3, <3>4, <4>1, <4>2
    <3>5. ASSUME NEW m \in 1 .. c(n + 1) PROVE \E k \in K : k <= n + 1 /\ c(k) = m
      <4>1. CASE m = c(n) + 1
        BY <2>9, <3>2, <4>1
      <4>2. CASE m \in 1 .. c(n)
        <5>1. PICK k \in K : k <= n /\ c(k) = m
          BY <2>7, <4>2
        <5>2. k <= n + 1
          BY <1>1, <1>3, <5>1
        <5>3. QED
          BY <5>1, <5>2
      <4>3. QED
        BY <2>6, <3>2, <3>5, <4>1, <4>2
    <3>6. QED
      BY <2>8, <3>2, <3>3, <3>4, <3>5 DEF b, c
  <2>10. CASE n + 1 \notin K
    <3>1. f[n + 1] = <<>> /\ Len(f[n + 1]) = 0
      BY <1>1, <2>2, <2>10
    <3>2. c(n + 1) = c(n)
      BY <1>2, <2>10
    <3> HIDE DEF c
    <3>3. Len(b) = c(n) /\ (\A i \in 1 .. c(n) : b[i] = a[i])
      BY <2>6, <2>8, <3>1 DEF Joined
    <3>4. ASSUME NEW k \in K, k <= n + 1
          PROVE  c(k) \in 1 .. c(n + 1) /\ b[c(k)] = s[k]
      <4>1. k <= n
        BY <1>1, <1>3, <2>10, <3>4
      <4>2. QED
        BY <2>7, <3>2, <3>3, <3>4, <4>1
    <3>5. ASSUME NEW m \in 1 .. c(n + 1) PROVE \E k \in K : k <= n + 1 /\ c(k) = m
      <4>1. PICK k \in K : k <= n /\ c(k) = m
        BY <2>7, <3>2, <3>5
      <4>2. k <= n + 1
        BY <1>1, <1>3, <4>1
      <4>3. QED
        BY <4>1, <4>2
    <3>6. QED
      BY <2>8, <3>2, <3>3, <3>4, <3>5 DEF b, c
  <2>11. QED
    BY <2>9, <2>10
<1> HIDE DEF P
<1>7. Nat \subseteq T
  <2>1. 0 \in T
    BY <1>5
  <2> HIDE DEF T
  <2>2. QED
    BY <1>6, <2>1, SetInduction
<1>8. P(N)
  BY <1>1, <1>7
<1>9. FirstOf(f, N) = f
  BY <1>1, FirstOfFacts
<1>10. g(N) = AtPlaces(s, K)
  BY <1>1, <1>9
<1> HIDE DEF g
<1>11. \A k \in K : k <= N
  BY <1>3
<1>12. QED
  BY <1>2, <1>8, <1>10, <1>11 DEF P

-----------------------------------------------------------------------------
(* The executions of one instruction.                                      *)

LEMMA RunsFacts ==
  ASSUME NEW S, NEW s \in Seq(S), NEW i
  PROVE  /\ Runs(s, i) = AtPlaces(s, Of(s, i)) /\ Of(s, i) \subseteq 1 .. Len(s)
         /\ Runs(s, i) \in Seq(S) /\ Len(Runs(s, i)) = CountOf(s, i) /\ CountOf(s, i) \in Nat
<1>1. DOMAIN s = 1 .. Len(s)
  OBVIOUS
<1>2. Runs(s, i) = AtPlaces(s, Of(s, i)) /\ Of(s, i) \subseteq 1 .. Len(s)
  BY <1>1, Zenon DEF Runs, Of
<1>3. AtPlaces(s, Of(s, i)) \in Seq(S) /\ Len(AtPlaces(s, Of(s, i))) = Cardinality(Of(s, i))
  BY <1>2, PlacesFacts
<1>4. QED
  BY <1>2, <1>3, OfFinite, Zenon DEF CountOf

LEMMA SplitAt ==
  ASSUME NEW S, NEW s \in Seq(S), NEW n \in 0 .. Len(s)
  PROVE  /\ SubSeq(s, 1, n) \in Seq(S) /\ SubSeq(s, n + 1, Len(s)) \in Seq(S)
         /\ SubSeq(s, 1, n) \o SubSeq(s, n + 1, Len(s)) = s
         /\ Len(SubSeq(s, 1, n)) = n /\ \A k \in 1 .. n : SubSeq(s, 1, n)[k] = s[k]
<1>1. SubSeq(s, 1, n) \in Seq(S) /\ SubSeq(s, n + 1, Len(s)) \in Seq(S)
  OBVIOUS
<1>2. SubSeq(s, 1, n) \o SubSeq(s, n + 1, Len(s)) = s
  <2> DEFINE a == SubSeq(s, 1, n)
             b == SubSeq(s, n + 1, Len(s))
             N == Len(s)
  <2>1. N \in Nat /\ n \in Nat /\ n <= N
    OBVIOUS
  <2>2. Len(a) = n /\ \A k \in 1 .. n : a[k] = s[k]
    OBVIOUS
  <2>3. Len(b) = N - n /\ \A k \in 1 .. N - n : b[k] = s[n + k]
    OBVIOUS
  <2>4. a \o b \in Seq(S) /\ Joined(a \o b, a, b, Len(a), Len(b))
    BY <1>1, ConcatJoins
  <2> HIDE DEF a, b, N
  <2>5. Joined(a \o b, a, b, n, N - n)
    BY <2>2, <2>3, <2>4
  <2> DEFINE c == a \o b
  <2>6. c \in Seq(S) /\ Joined(c, a, b, n, N - n)
    BY <2>4, <2>5
  <2> HIDE DEF c
  <2>7. Len(c) = N
    BY <2>1, <2>6 DEF Joined
  <2>8. ASSUME NEW k \in 1 .. N PROVE c[k] = s[k]
    <3>1. CASE k \in 1 .. n
      BY <2>2, <2>6, <3>1 DEF Joined
    <3>2. CASE ~ (k \in 1 .. n)
      <4>1. k - n \in 1 .. N - n /\ n + (k - n) = k
        BY <2>1, <3>2
      <4>2. QED
        BY <2>3, <2>6, <4>1 DEF Joined
    <3>3. QED
      BY <3>1, <3>2
  <2>9. c = s
    BY <2>6, <2>7, <2>8, SeqEqual DEF N
  <2>10. QED
    BY <2>9 DEF a, b, c, N
<1>3. Len(SubSeq(s, 1, n)) = n /\ \A k \in 1 .. n : SubSeq(s, 1, n)[k] = s[k]
  OBVIOUS
<1>4. QED
  BY <1>1, <1>2, <1>3

LEMMA RunsConcat ==
  ASSUME NEW S, NEW s \in Seq(S), NEW t \in Seq(S), NEW i
  PROVE  Runs(s \o t, i) = Runs(s, i) \o Runs(t, i)
<1> DEFINE u == s \o t
           m == Len(s)
           n == Len(t)
           a == IfPlaced(s, Of(s, i))
           b == IfPlaced(t, Of(t, i))
           c == IfPlaced(u, Of(u, i))
           d == a \o b
<1>1. u \in Seq(S) /\ Joined(u, s, t, m, n) /\ m \in Nat /\ n \in Nat
  BY ConcatJoins, LenProperties
<1>2. Len(u) = m + n
  BY <1>1 DEF Joined
<1> HIDE DEF u
<1>3. /\ a \in Seq(Seq(S)) /\ Len(a) = m
      /\ \A k \in 1 .. m : a[k] = IF k \in Of(s, i) THEN <<s[k]>> ELSE <<>>
  BY IfPlacedType
<1>4. /\ b \in Seq(Seq(S)) /\ Len(b) = n
      /\ \A k \in 1 .. n : b[k] = IF k \in Of(t, i) THEN <<t[k]>> ELSE <<>>
  BY IfPlacedType
<1>5. /\ c \in Seq(Seq(S)) /\ Len(c) = m + n
      /\ \A k \in 1 .. m + n : c[k] = IF k \in Of(u, i) THEN <<u[k]>> ELSE <<>>
  BY <1>1, <1>2, IfPlacedType
<1> HIDE DEF a, b, c, m, n
<1>6. d \in Seq(Seq(S)) /\ Joined(d, a, b, m, n)
  BY <1>3, <1>4, ConcatJoins
<1> HIDE DEF d
<1>7. ASSUME NEW k \in 1 .. m PROVE c[k] = d[k]
  <2>1. u[k] = s[k] /\ d[k] = a[k] /\ k \in 1 .. m + n
    BY <1>1, <1>6 DEF Joined
  <2>2. k \in Of(u, i) <=> k \in Of(s, i)
    BY <1>2, <2>1 DEF Of, m
  <2>3. QED
    BY <1>3, <1>5, <2>1, <2>2
<1>8. ASSUME NEW k \in 1 .. n PROVE c[m + k] = d[m + k]
  <2>1. u[m + k] = t[k] /\ d[m + k] = b[k] /\ m + k \in 1 .. m + n
    BY <1>1, <1>6, SMTT(60) DEF Joined
  <2>2. m + k \in Of(u, i) <=> k \in Of(t, i)
    BY <1>2, <2>1 DEF Of, n
  <2>3. QED
    BY <1>4, <1>5, <2>1, <2>2
<1>9. c = d
  <2>1. Len(d) = m + n
    BY <1>6 DEF Joined
  <2>2. ASSUME NEW k \in 1 .. m + n PROVE c[k] = d[k]
    <3>1. CASE k \in 1 .. m
      BY <1>7, <3>1
    <3>2. CASE ~ (k \in 1 .. m)
      <4>1. k - m \in 1 .. n /\ m + (k - m) = k
        BY <1>1, <3>2
      <4>2. QED
        BY <1>8, <4>1
    <3>3. QED
      BY <3>1, <3>2
  <2>3. QED
    BY <1>5, <1>6, <2>1, <2>2, SeqEqual
<1>10. FlattenSeq(d) = FlattenSeq(a) \o FlattenSeq(b)
  BY <1>3, <1>4, FlattenConcat DEF d
<1>11. Runs(u, i) = FlattenSeq(c) /\ Runs(s, i) = FlattenSeq(a) /\ Runs(t, i) = FlattenSeq(b)
  BY <1>1, RunsFacts, IfPlacedType DEF a, b, c
<1>12. QED
  BY <1>9, <1>10, <1>11 DEF u

-----------------------------------------------------------------------------
(* The recorded part of the executions.                                    *)

LEMMA LogIsPrefix ==
  ASSUME input \in Inputs, NEW i
  PROVE  /\ Log(i) \in Seq(Executed) /\ Len(Log(i)) = NumRecorded(i) /\ NumRecorded(i) \in Nat
         /\ \E rest \in Seq(Executed) : Runs(FlattenSeq(Program), i) = Log(i) \o rest
<1> DEFINE all == FlattenSeq(Program)
           N == Len(all)
           q == Min({input.recorded, N})
           a == SubSeq(all, 1, q)
           b == SubSeq(all, q + 1, N)
<1>1. all \in Seq(Executed) /\ N \in Nat /\ input.recorded \in Nat
  BY ThroughEnds, InputFacts
<1> HIDE DEF all
<1>2. q \in Nat /\ q <= N
  BY <1>1 DEF Min
<1> HIDE DEF N, q
<1>3. a \in Seq(Executed) /\ b \in Seq(Executed) /\ Len(a) = q /\ a \o b = all
      /\ \A k \in 1 .. q : a[k] = all[k]
  <2>1. q \in 0 .. Len(all)
    BY <1>1, <1>2 DEF N
  <2>2. QED
    BY <1>1, <2>1, SplitAt DEF N
<1> HIDE DEF a, b
<1>4. Runs(a \o b, i) = Runs(a, i) \o Runs(b, i) /\ Runs(b, i) \in Seq(Executed)
  <2>1. Runs(a \o b, i) = Runs(a, i) \o Runs(b, i)
    <3>1. a \in Seq(Executed) /\ b \in Seq(Executed)
      BY <1>3
    <3>2. QED
      BY <3>1, RunsConcat
  <2>2. Runs(b, i) \in Seq(Executed)
    BY <1>3, RunsFacts
  <2>3. QED
    BY <2>1, <2>2
<1>5. Log(i) = Runs(a, i)
  BY DEF Log, a, q, N, all
<1>6. Runs(a, i) \in Seq(Executed) /\ Len(Runs(a, i)) = CountOf(a, i) /\ CountOf(a, i) \in Nat
  BY <1>3, RunsFacts
<1>7. CountOf(a, i) = NumRecorded(i)
  <2>1. Of(a, i) = {k \in 1 .. q : all[k].instr = i}
    BY <1>3 DEF Of
  <2>2. NumRecorded(i) = Cardinality({k \in 1 .. q : all[k].instr = i})
    BY DEF NumRecorded, q, N, all
  <2>3. QED
    BY <2>1, <2>2 DEF CountOf
<1>8. QED
  BY <1>3, <1>4, <1>5, <1>6, <1>7 DEF all

(***************************************************************************)
(* The instances of an invocation come in the log after those of the       *)
(* invocations before it.                                                  *)
(***************************************************************************)
LEMMA LogHolds ==
  ASSUME input \in Inputs, NEW n \in 1 .. Len(Program), NEW i,
         NEW m \in 1 .. CountOf(Program[n], i), Counted(n - 1, i) + m <= NumRecorded(i)
  PROVE  Log(i)[Counted(n - 1, i) + m] = Runs(Program[n], i)[m]
<1> DEFINE a == Through(n - 1)
           b == Program[n]
           c == FlattenSeq(SubSeq(Program, n + 1, Len(Program)))
           all == FlattenSeq(Program)
<1>1. Program \in Seq(Seq(Executed)) /\ Len(Program) \in Nat
  BY InputFacts, ThroughEnds DEF Program
<1>2. Through(n) = a \o b /\ a \in Seq(Executed) /\ b \in Seq(Executed)
  <2> DEFINE j == n - 1
  <2>1. j \in 0 .. Len(Program) - 1 /\ j + 1 = n
    BY <1>1
  <2> HIDE DEF j
  <2>2. /\ Through(j + 1) = Through(j) \o Program[j + 1]
        /\ Through(j) \in Seq(Executed) /\ Program[j + 1] \in Seq(Executed)
    BY <2>1, ThroughGrows
  <2>3. QED
    BY <2>1, <2>2 DEF j
<1>3. all = Through(n) \o c /\ c \in Seq(Executed) /\ Through(n) \in Seq(Executed)
  <2> DEFINE P == Program
             p == SubSeq(P, 1, n)
             q == SubSeq(P, n + 1, Len(P))
             T == Seq(Executed)
  <2>1. P \in Seq(T) /\ n \in 1 .. Len(P) /\ Len(P) \in Nat
    BY <1>1
  <2> HIDE DEF P, T
  <2>2. p \in Seq(T) /\ q \in Seq(T) /\ p \o q = P
    BY <2>1, SplitAt
  <2>3. Through(n) = FlattenSeq(p) /\ c = FlattenSeq(q) /\ all = FlattenSeq(P)
    BY DEF Through, P
  <2> HIDE DEF p, q
  <2>4. FlattenSeq(p \o q) = FlattenSeq(p) \o FlattenSeq(q)
        /\ FlattenSeq(p) \in Seq(Executed) /\ FlattenSeq(q) \in Seq(Executed)
    BY <2>2, FlattenConcat, FlattenType DEF T
  <2>5. QED
    BY <2>2, <2>3, <2>4
<1> HIDE DEF a, b, c, all
<1> DEFINE ra == Runs(a, i)
           rb == Runs(b, i)
           rc == Runs(c, i)
           p == Counted(n - 1, i)
<1>4. Runs(all, i) = (ra \o rb) \o rc
  <2>1. Runs(Through(n) \o c, i) = Runs(Through(n), i) \o Runs(c, i)
    BY <1>3, RunsConcat
  <2>2. Runs(a \o b, i) = Runs(a, i) \o Runs(b, i)
    BY <1>2, RunsConcat
  <2>3. QED
    BY <1>2, <1>3, <2>1, <2>2
<1>5. /\ ra \in Seq(Executed) /\ rb \in Seq(Executed) /\ rc \in Seq(Executed)
      /\ Len(ra) = p /\ Len(rb) = CountOf(b, i) /\ p \in Nat /\ CountOf(b, i) \in Nat
  <2>1. CountOf(a, i) = p
    BY DEF Counted, a
  <2>2. QED
    BY <1>2, <1>3, <2>1, RunsFacts
<1>6. PICK rest \in Seq(Executed) : Runs(all, i) = Log(i) \o rest
  BY LogIsPrefix DEF all
<1>7. Log(i) \in Seq(Executed) /\ Len(Log(i)) = NumRecorded(i) /\ NumRecorded(i) \in Nat
  BY LogIsPrefix
<1>8. m \in 1 .. CountOf(b, i) /\ p + m <= NumRecorded(i)
  BY DEF b
<1>9. Log(i)[p + m] = (Log(i) \o rest)[p + m]
  <2>1. Joined(Log(i) \o rest, Log(i), rest, Len(Log(i)), Len(rest))
    BY <1>7, ConcatJoins
  <2> HIDE DEF p
  <2>2. p + m \in 1 .. Len(Log(i))
    BY <1>5, <1>7, <1>8
  <2>3. QED
    BY <2>1, <2>2 DEF Joined
<1>10. ((ra \o rb) \o rc)[p + m] = rb[m]
  <2> HIDE DEF ra, rb, rc, p
  <2>1. Joined(ra \o rb, ra, rb, p, CountOf(b, i)) /\ ra \o rb \in Seq(Executed)
    BY <1>5, ConcatJoins
  <2>2. Len(ra \o rb) = p + CountOf(b, i) /\ (ra \o rb)[p + m] = rb[m]
    BY <1>8, <2>1 DEF Joined
  <2> DEFINE u == ra \o rb
  <2> HIDE DEF u
  <2>3. Joined(u \o rc, u, rc, Len(u), Len(rc))
    BY <1>5, <2>1, ConcatJoins DEF u
  <2>4. p + m \in 1 .. Len(u)
    BY <1>5, <1>8, <2>2 DEF u
  <2>5. (u \o rc)[p + m] = u[p + m]
    BY <2>3, <2>4 DEF Joined
  <2>6. QED
    BY <2>2, <2>5 DEF u
<1>11. QED
  BY <1>4, <1>6, <1>9, <1>10 DEF b, p, rb

-----------------------------------------------------------------------------
(* Functions defined by recursion over a length.                           *)

\* f starts with b and takes the steps g.
Iterates(f, b, g, n) ==
  f[0] = b /\ \A k \in 1 .. n : f[k] = g[k][f[k - 1]]

LEMMA IterationExists ==
  ASSUME NEW N \in Nat, NEW T, NEW b \in T, NEW g \in [1 .. N -> [T -> T]]
  PROVE  \E f \in [0 .. N -> T] : Iterates(f, b, g, N)
<1> DEFINE S == {n \in Nat : n <= N => \E f \in [0 .. n -> T] : Iterates(f, b, g, n)}
<1>1. 0 \in S
  <2> DEFINE f == [k \in 0 .. 0 |-> b]
  <2>1. f \in [0 .. 0 -> T] /\ Iterates(f, b, g, 0)
    BY DEF Iterates
  <2>2. QED
    BY <2>1
<1>2. ASSUME NEW n \in Nat, n \in S PROVE n + 1 \in S
  <2>1. SUFFICES ASSUME n + 1 <= N PROVE \E f \in [0 .. n + 1 -> T] : Iterates(f, b, g, n + 1)
    OBVIOUS
  <2>2. PICK h \in [0 .. n -> T] : Iterates(h, b, g, n)
    BY <1>2, <2>1
  <2> DEFINE m == n + 1
             last == g[m][h[n]]
             f == [k \in 0 .. m |-> IF k = m THEN last ELSE h[k]]
  <2>3. last \in T
    BY <2>1, <2>2
  <2> HIDE DEF last
  <2>4. f \in [0 .. m -> T]
    BY <2>2, <2>3
  <2>5. f[0] = b
    BY <2>2 DEF Iterates
  <2>6. ASSUME NEW k \in 1 .. m PROVE f[k] = g[k][f[k - 1]]
    <3>1. k \in 0 .. m /\ k - 1 \in 0 .. n /\ k - 1 \in 0 .. m /\ k - 1 # m
      OBVIOUS
    <3>2. f[k - 1] = h[k - 1]
      BY <3>1
    <3>3. CASE k = m
      BY <3>1, <3>2, <3>3 DEF last
    <3>4. CASE k # m
      <4>1. k \in 1 .. n /\ f[k] = h[k]
        BY <3>1, <3>4
      <4>2. QED
        BY <2>2, <3>2, <4>1 DEF Iterates
    <3>5. QED
      BY <3>3, <3>4
  <2> HIDE DEF f
  <2>7. QED
    BY <2>4, <2>5, <2>6 DEF Iterates
<1>3. Nat \subseteq S
  <2> HIDE DEF S
  <2>1. QED
    BY <1>1, <1>2, SetInduction
<1>4. QED
  BY <1>3

-----------------------------------------------------------------------------
(* Patterns that hold a log.                                               *)

LEMMA AccessOfType ==
  ASSUME NEW x \in Executed
  PROVE  AccessOf(x) \in Access
<1>1. x.addr \in Word /\ x.len \in Nat
  BY DEF Executed
<1>2. QED
  BY <1>1 DEF AccessOf, Access

EntryHolds(e, F) ==
  /\ e \in MemSetEntry /\ e.start <= e.end
  /\ \A j \in e.start .. e.end :
       AccessLower(e, j - e.start) = F[j + 1].addr /\ e.length = F[j + 1].len

(***************************************************************************)
(* The entries of the set number the instances from a to the one before b  *)
(* and hold what F tells of them; F counts them from 1.                    *)
(***************************************************************************)
Holds(set, F, a, b) ==
  /\ set \in MemSet /\ ContiguousFrom(set, a)
  /\ b = IF set = <<>> THEN a ELSE set[Len(set)].end + 1
  /\ \A k \in 1 .. Len(set) : EntryHolds(set[k], F)

IsPatterns(f, log) ==
  f = [k \in 0 .. Len(log) |->
         IF k = 0 THEN <<>> ELSE RecordMemoryReference(f[k - 1], AccessOf(log[k]))]

LEMMA PatternsAreIterated ==
  ASSUME NEW log \in Seq(Executed)
  PROVE  \E f : IsPatterns(f, log) /\ Patterns(log) = f[Len(log)]
<1> DEFINE N == Len(log)
           g == [k \in 1 .. N |-> [v \in MemSet |-> RecordMemoryReference(v, AccessOf(log[k]))]]
<1>1. N \in Nat /\ \A k \in 1 .. N : AccessOf(log[k]) \in Access
  <2>1. N \in Nat /\ \A k \in 1 .. N : log[k] \in Executed
    OBVIOUS
  <2>2. QED
    BY <2>1, AccessOfType
<1>2. \A k \in 1 .. N : [v \in MemSet |-> RecordMemoryReference(v, AccessOf(log[k]))] \in [MemSet -> MemSet]
  BY <1>1, RecordType
<1>3. g \in [1 .. N -> [MemSet -> MemSet]] /\ <<>> \in MemSet
  BY <1>2, EmptySeq DEF MemSet
<1>4. \A k \in 1 .. N : \A v \in MemSet : g[k][v] = RecordMemoryReference(v, AccessOf(log[k]))
  OBVIOUS
<1> HIDE DEF g, N
<1>5. PICK f \in [0 .. N -> MemSet] : Iterates(f, <<>>, g, N)
  BY <1>1, <1>3, IterationExists
<1>6. \A k \in 0 .. N : f[k] = IF k = 0 THEN <<>> ELSE RecordMemoryReference(f[k - 1], AccessOf(log[k]))
  <2>1. SUFFICES ASSUME NEW k \in 1 .. N PROVE f[k] = RecordMemoryReference(f[k - 1], AccessOf(log[k]))
    BY <1>1, <1>5 DEF Iterates
  <2>2. k - 1 \in 0 .. N
    BY <1>1
  <2>3. f[k - 1] \in MemSet /\ f[k] = g[k][f[k - 1]]
    BY <1>5, <2>2 DEF Iterates
  <2>4. QED
    BY <1>4, <2>3
<1>7. f = [k \in 0 .. N |-> f[k]]
  BY <1>5
<1>8. IsPatterns(f, log)
  BY <1>6, <1>7 DEF IsPatterns, N
<1> DEFINE h == CHOOSE h : IsPatterns(h, log)
<1>9. IsPatterns(h, log)
  BY <1>8
<1>10. Patterns(log) = h[Len(log)]
  BY DEF Patterns, IsPatterns
<1> HIDE DEF h
<1>11. QED
  BY <1>9, <1>10

LEMMA PatternsFacts ==
  ASSUME NEW log \in Seq(Executed)
  PROVE  /\ Patterns(log) \in MemSet /\ ContiguousFrom(Patterns(log), 0)
         /\ Expand(Patterns(log)) \in Seq(Access) /\ Len(Expand(Patterns(log))) = Len(log)
         /\ \A k \in 1 .. Len(log) : Expand(Patterns(log))[k] = AccessOf(log[k])
<1> DEFINE N == Len(log)
<1>1. PICK f : IsPatterns(f, log) /\ Patterns(log) = f[N]
  BY PatternsAreIterated
<1>2. N \in Nat /\ \A k \in 1 .. N : AccessOf(log[k]) \in Access
  <2>1. N \in Nat /\ \A k \in 1 .. N : log[k] \in Executed
    OBVIOUS
  <2>2. QED
    BY <2>1, AccessOfType
<1>3. f[0] = <<>> /\ \A k \in 1 .. N : f[k] = RecordMemoryReference(f[k - 1], AccessOf(log[k]))
  BY <1>1, <1>2 DEF IsPatterns
<1> DEFINE P(n) == /\ f[n] \in MemSet /\ ContiguousFrom(f[n], 0)
                   /\ Expand(f[n]) \in Seq(Access) /\ Len(Expand(f[n])) = n
                   /\ \A k \in 1 .. n : Expand(f[n])[k] = AccessOf(log[k])
           T == {n \in Nat : n <= N => P(n)}
<1> HIDE DEF N
<1>4. P(0)
  <2>1. <<>> \in MemSet /\ ContiguousFrom(<<>>, 0)
    BY EmptySeq DEF MemSet, ContiguousFrom
  <2>2. Expand(<<>>) = <<>> /\ <<>> \in Seq(Access) /\ Len(<<>>) = 0
    BY EmptySeq DEF Expand
  <2>3. f[0] = <<>> /\ \A k \in 1 .. 0 : FALSE
    BY <1>3
  <2>4. QED
    BY <2>1, <2>2, <2>3, Zenon
<1>5. ASSUME NEW n \in Nat, n \in T PROVE n + 1 \in T
  <2>1. SUFFICES ASSUME n + 1 <= N PROVE P(n + 1)
    OBVIOUS
  <2>2. n + 1 \in 1 .. N /\ (n + 1) - 1 = n /\ n <= N
    BY <1>2, <2>1
  <2> DEFINE a == AccessOf(log[n + 1])
             v == f[n]
             w == f[n + 1]
  <2>3. w = RecordMemoryReference(v, a) /\ a \in Access
    BY <1>2, <1>3, <2>2
  <2>4. /\ v \in MemSet /\ ContiguousFrom(v, 0) /\ Expand(v) \in Seq(Access) /\ Len(Expand(v)) = n
        /\ \A k \in 1 .. n : Expand(v)[k] = AccessOf(log[k])
    BY <1>5, <2>2
  <2>5. a = AccessOf(log[n + 1])
    OBVIOUS
  <2> HIDE DEF a, v, w
  <2>6. w \in MemSet /\ ContiguousFrom(w, 0) /\ Expand(w) = Append(Expand(v), a)
    BY <2>3, <2>4, RecordType, RecordContiguous, RecordAppends
  <2> DEFINE x == Expand(v)
             y == Expand(w)
  <2> HIDE DEF x, y
  <2>7. x \in Seq(Access) /\ Len(x) = n /\ y = Append(x, a) /\ \A k \in 1 .. n : x[k] = AccessOf(log[k])
    BY <2>4, <2>6 DEF x, y
  <2>8. /\ y \in Seq(Access) /\ Len(y) = n + 1 /\ y[n + 1] = a
        /\ \A k \in 1 .. n : y[k] = x[k]
    BY <2>3, <2>7, AppendProperties
  <2>9. \A k \in 1 .. n + 1 : y[k] = AccessOf(log[k])
    <3>1. SUFFICES ASSUME NEW k \in 1 .. n + 1 PROVE y[k] = AccessOf(log[k])
      OBVIOUS
    <3>2. CASE k = n + 1
      BY <2>5, <2>8, <3>2
    <3>3. CASE k \in 1 .. n
      BY <2>7, <2>8, <3>3
    <3>4. QED
      BY <3>2, <3>3
  <2>10. QED
    BY <2>6, <2>8, <2>9 DEF w, y
<1>6. Nat \subseteq T
  <2> HIDE DEF P
  <2>1. 0 \in T
    BY <1>4
  <2> HIDE DEF T
  <2>2. QED
    BY <1>5, <2>1, SetInduction
<1>7. P(N)
  <2> HIDE DEF P
  <2>1. QED
    BY <1>2, <1>6
<1>8. QED
  BY <1>1, <1>7 DEF N

(***************************************************************************)
(* The patterns recorded for a log hold it (RecordMemoryReference).        *)
(***************************************************************************)
LEMMA PatternsHold ==
  ASSUME NEW log \in Seq(Executed)
  PROVE  Holds(Patterns(log), log, 0, Len(log))
<1> DEFINE set == Patterns(log)
           x == Expand(set)
           N == Len(log)
<1>1. /\ set \in MemSet /\ ContiguousFrom(set, 0) /\ x \in Seq(Access) /\ Len(x) = N
      /\ \A k \in 1 .. N : x[k] = AccessOf(log[k])
  BY PatternsFacts
<1> HIDE DEF set
<1>2. Len(x) = NextInstance(set) /\ \A k \in 1 .. NextInstance(set) : x[k] = AccessAt(set, k - 1)
  BY <1>1, ExpandLength
<1>3. \A i \in 1 .. Len(set) : /\ set[i] \in MemSetEntry
                               /\ set[i].start \in Nat /\ set[i].end \in Nat
                               /\ set[i].start <= set[i].end /\ set[i].end < N
  <2>1. After(set, 0) = N
    BY <1>1, <1>2 DEF After, NextInstance
  <2>2. \A i \in 1 .. Len(set) : set[i].end \in Nat /\ set[i].end < After(set, 0)
    BY <1>1, EndsBelow
  <2>3. \A i \in 1 .. Len(set) : set[i] \in MemSetEntry /\ set[i].start \in Nat /\ set[i].start <= set[i].end
    BY <1>1, EntryFacts
  <2>4. QED
    BY <2>1, <2>2, <2>3
<1> HIDE DEF x, N
<1>4. ASSUME NEW i \in 1 .. Len(set) PROVE EntryHolds(set[i], log)
  <2> DEFINE e == set[i]
  <2>1. e \in MemSetEntry /\ e.start <= e.end /\ e.start \in Nat /\ e.end \in Nat /\ e.end < N
    BY <1>3
  <2>2. ASSUME NEW j \in e.start .. e.end
        PROVE  AccessLower(e, j - e.start) = log[j + 1].addr /\ e.length = log[j + 1].len
    <3>1. AccessAt(set, j) = [addr |-> AccessLower(e, j - e.start), len |-> e.length]
      BY <1>1, AccessAtEntry
    <3> HIDE DEF e
    <3>2. j + 1 \in 1 .. N /\ (j + 1) - 1 = j /\ N \in Nat
      BY <1>1, <2>1 DEF N, x
    <3>3. x[j + 1] = AccessAt(set, j) /\ x[j + 1] = AccessOf(log[j + 1])
      BY <1>1, <1>2, <3>2
    <3>4. AccessOf(log[j + 1]) = [addr |-> AccessLower(e, j - e.start), len |-> e.length]
      BY <3>1, <3>3
    <3>5. QED
      BY <3>4 DEF AccessOf
  <2>3. QED
    BY <2>1, <2>2 DEF EntryHolds
<1>5. N = IF set = <<>> THEN 0 ELSE set[Len(set)].end + 1
  BY <1>1, <1>2 DEF NextInstance
<1>6. QED
  BY <1>1, <1>4, <1>5 DEF Holds, set, N

-----------------------------------------------------------------------------
(* Cutting a set.                                                          *)

LEMMA LargerSmaller ==
  ASSUME NEW x \in Int, NEW y \in Int
  PROVE  /\ Max({x, y}) = IF x <= y THEN y ELSE x
         /\ Min({x, y}) = IF x <= y THEN x ELSE y
<1>1. Max({x, y}) = IF x <= y THEN y ELSE x
  BY DEF Max
<1>2. Min({x, y}) = IF x <= y THEN x ELSE y
  BY DEF Min
<1>3. QED
  BY <1>1, <1>2

Slice(e, from, to) == GetSlice(e, Max({from, e.start}), Min({to, e.end}))

SlicesOf(h, from, to) == [k \in DOMAIN h |-> Slice(h[k], from, to)]

Hit(e, from, to) == from <= to /\ e.start <= to /\ from <= e.end

Hits(set, from, to) == {k \in DOMAIN set : Hit(set[k], from, to)}

LEMMA GetSliceForm ==
  ASSUME NEW e \in MemSetEntry, NEW a \in Nat, NEW b \in Nat
  PROVE  GetSlice(e, a, b) =
           [base |-> Wrap(e.base + (a - e.start) * e.stride), stride |-> e.stride,
            length |-> e.length, start |-> a, end |-> b]
<1> DEFINE c == Wrap(e.base + (a - e.start) * e.stride)
<1>1. GetSlice(e, a, b) = [e EXCEPT !.base = c, !.start = a, !.end = b]
  BY Zenon DEF GetSlice
<1> HIDE DEF c
<1>2. [e EXCEPT !.base = c, !.start = a, !.end = b]
        = [base |-> c, stride |-> e.stride, length |-> e.length, start |-> a, end |-> b]
  <2> DEFINE d == [e EXCEPT !.base = c]
             f == [d EXCEPT !.start = a]
  <2>1. d = [base |-> c, stride |-> e.stride, length |-> e.length, start |-> e.start, end |-> e.end]
    BY DEF MemSetEntry
  <2> HIDE DEF d
  <2>2. f = [base |-> c, stride |-> e.stride, length |-> e.length, start |-> a, end |-> e.end]
    BY <2>1
  <2> HIDE DEF f
  <2>3. [f EXCEPT !.end = b] = [base |-> c, stride |-> e.stride, length |-> e.length, start |-> a, end |-> b]
    BY <2>2
  <2>4. QED
    BY <2>3 DEF f, d
<1>3. QED
  BY <1>1, <1>2, Zenon DEF c

LEMMA SliceFacts ==
  ASSUME NEW e \in MemSetEntry, NEW from \in Nat, NEW to \in Int, Hit(e, from, to)
  PROVE  LET s == Slice(e, from, to)
         IN /\ s \in MemSetEntry
            /\ s.start = (IF from <= e.start THEN e.start ELSE from)
            /\ s.end = (IF to <= e.end THEN to ELSE e.end)
            /\ s.base = Wrap(e.base + (s.start - e.start) * e.stride)
            /\ s.stride = e.stride /\ s.length = e.length
<1> DEFINE a == Max({from, e.start})
           b == Min({to, e.end})
           c == Wrap(e.base + (a - e.start) * e.stride)
           s == [base |-> c, stride |-> e.stride, length |-> e.length, start |-> a, end |-> b]
<1>1. /\ e.start \in Nat /\ e.end \in Nat /\ e.base \in Word /\ e.stride \in SignedWord
      /\ e.length \in Nat /\ e.base \in Int /\ e.stride \in Int
  BY HAssumption DEF MemSetEntry, Word, SignedWord, M
<1>2. a = (IF from <= e.start THEN e.start ELSE from) /\ b = (IF to <= e.end THEN to ELSE e.end)
  <2>1. from \in Int /\ e.start \in Int /\ to \in Int /\ e.end \in Int
    BY <1>1
  <2>2. a = IF from <= e.start THEN e.start ELSE from
    BY <2>1, LargerSmaller
  <2>3. b = IF to <= e.end THEN to ELSE e.end
    BY <2>1, LargerSmaller
  <2>4. QED
    BY <2>2, <2>3
<1>0. Slice(e, from, to) = GetSlice(e, a, b)
  BY Zenon DEF Slice
<1> HIDE DEF a, b
<1>3. a \in Nat /\ b \in Nat
  BY <1>1, <1>2 DEF Hit
<1>4. (a - e.start) * e.stride \in Int
  BY <1>1, <1>3
<1>5. c \in Word
  BY <1>1, <1>4, WrapIsWord
<1>6. GetSlice(e, a, b) = s
  BY <1>3, GetSliceForm
<1>7. s \in MemSetEntry
  BY <1>1, <1>3, <1>5 DEF MemSetEntry
<1>8. QED
  BY <1>0, <1>2, <1>6, <1>7

LEMMA SliceHolds ==
  ASSUME NEW F, NEW e, EntryHolds(e, F), NEW from \in Nat, NEW to \in Int, Hit(e, from, to)
  PROVE  EntryHolds(Slice(e, from, to), F)
<1> DEFINE s == Slice(e, from, to)
<1>1. e \in MemSetEntry /\ e.start <= e.end
  BY DEF EntryHolds
<1>2. /\ e.start \in Nat /\ e.end \in Nat /\ e.base \in Int /\ e.stride \in Int
  BY <1>1, HAssumption DEF MemSetEntry, Word, SignedWord, M
<1>3. /\ s \in MemSetEntry
      /\ s.start = (IF from <= e.start THEN e.start ELSE from)
      /\ s.end = (IF to <= e.end THEN to ELSE e.end)
      /\ s.base = Wrap(e.base + (s.start - e.start) * e.stride)
      /\ s.stride = e.stride /\ s.length = e.length
  BY <1>1, SliceFacts
<1> HIDE DEF s
<1>4. s.start <= s.end /\ s.start \in e.start .. e.end /\ s.end \in e.start .. e.end
  BY <1>1, <1>2, <1>3 DEF Hit
<1>5. ASSUME NEW j \in s.start .. s.end
      PROVE  AccessLower(s, j - s.start) = F[j + 1].addr /\ s.length = F[j + 1].len
  <2> DEFINE p == (s.start - e.start) * e.stride
             q == (j - s.start) * e.stride
  <2>1. j \in e.start .. e.end /\ s.start \in Int /\ j \in Int
    BY <1>2, <1>4
  <2>2. AccessLower(e, j - e.start) = F[j + 1].addr /\ e.length = F[j + 1].len
    BY <2>1 DEF EntryHolds
  <2>3. p \in Int /\ q \in Int /\ (e.base + p) + q = e.base + (j - e.start) * e.stride
    BY <1>2, <2>1
  <2>4. AccessLower(s, j - s.start) = Wrap(Wrap(e.base + p) + q)
    BY <1>3, Zenon DEF AccessLower
  <2>5. Wrap(Wrap(e.base + p) + q) = Wrap((e.base + p) + q)
    <3> HIDE DEF p, q
    <3>1. e.base + p \in Int
      BY <1>2, <2>3
    <3>2. QED
      BY <2>3, <3>1, WrapSum
  <2>6. AccessLower(s, j - s.start) = AccessLower(e, j - e.start)
    BY <2>3, <2>4, <2>5 DEF AccessLower
  <2>7. QED
    BY <1>3, <2>2, <2>6
<1>6. QED
  BY <1>3, <1>4, <1>5 DEF EntryHolds, s

LEMMA HoldsAppend ==
  ASSUME NEW F, NEW a \in Nat, NEW b, NEW v, Holds(v, F, a, b),
         NEW e, EntryHolds(e, F), e.start = b
  PROVE  Holds(Append(v, e), F, a, e.end + 1)
<1> DEFINE w == Append(v, e)
           n == Len(v)
<1>1. v \in Seq(MemSetEntry) /\ e \in MemSetEntry /\ n \in Nat
  BY DEF Holds, EntryHolds, MemSet
<1>2. /\ w \in Seq(MemSetEntry) /\ Len(w) = n + 1 /\ w[n + 1] = e
      /\ \A k \in 1 .. n : w[k] = v[k]
  BY <1>1, AppendProperties
<1>3. v = <<>> <=> n = 0
  BY <1>1
<1> HIDE DEF w, n
<1>4. ASSUME NEW k \in 1 .. n + 1
      PROVE  /\ EntryHolds(w[k], F) /\ w[k].start <= w[k].end
             /\ w[k].start = IF k = 1 THEN a ELSE w[k - 1].end + 1
  <2>1. CASE k = n + 1
    <3>1. w[k] = e /\ e.start <= e.end
      BY <1>2, <2>1 DEF EntryHolds
    <3>2. CASE n = 0
      BY <1>3, <2>1, <3>1, <3>2 DEF Holds
    <3>3. CASE n # 0
      <4>1. b = v[n].end + 1
        BY <1>3, <3>3 DEF Holds, n
      <4>2. w[n] = v[n] /\ k - 1 = n /\ k # 1
        BY <1>1, <1>2, <2>1, <3>3
      <4>3. QED
        BY <3>1, <4>1, <4>2
    <3>4. QED
      BY <3>2, <3>3
  <2>2. CASE k \in 1 .. n
    <3>1. w[k] = v[k] /\ (k # 1 => k - 1 \in 1 .. n /\ w[k - 1] = v[k - 1])
      BY <1>1, <1>2, <2>2
    <3>2. EntryHolds(v[k], F)
      BY <2>2 DEF Holds, n
    <3>3. v[k].start <= v[k].end /\ v[k].start = IF k = 1 THEN a ELSE v[k - 1].end + 1
      BY <2>2 DEF Holds, ContiguousFrom, n
    <3>4. QED
      BY <3>1, <3>2, <3>3
  <2>3. QED
    BY <1>1, <2>1, <2>2
<1>5. ContiguousFrom(w, a)
  BY <1>2, <1>4 DEF ContiguousFrom
<1>6. w # <<>> /\ w[Len(w)] = e
  BY <1>1, <1>2
<1>7. QED
  BY <1>2, <1>4, <1>5, <1>6 DEF Holds, MemSet, w

LEMMA CutForm ==
  ASSUME NEW set \in MemSet, NEW from, NEW to
  PROVE  /\ Cut(set, from, to) = SlicesOf(AtPlaces(set, Hits(set, from, to)), from, to)
         /\ Hits(set, from, to) \subseteq 1 .. Len(set)
         /\ \A k \in 1 .. Len(set) : k \in Hits(set, from, to) <=> Hit(set[k], from, to)
<1>1. DOMAIN set = 1 .. Len(set)
  BY DEF MemSet
<1>2. Cut(set, from, to) = SlicesOf(AtPlaces(set, Hits(set, from, to)), from, to)
  BY Zenon DEF Cut, SlicesOf, Hits, Hit, Slice
<1>3. QED
  BY <1>1, <1>2 DEF Hits

\* Slices of a sequence with an entry more.
LEMMA SlicesAppend ==
  ASSUME NEW h \in MemSet, NEW e \in MemSetEntry, NEW from, NEW to,
         SlicesOf(h, from, to) \in MemSet, Slice(e, from, to) \in MemSetEntry
  PROVE  SlicesOf(h \o <<e>>, from, to) = Append(SlicesOf(h, from, to), Slice(e, from, to))
<1> DEFINE g == h \o <<e>>
           n == Len(h)
           x == SlicesOf(g, from, to)
           y == SlicesOf(h, from, to)
           z == Append(y, Slice(e, from, to))
<1>1. h \in Seq(MemSetEntry) /\ <<e>> \in Seq(MemSetEntry) /\ Len(<<e>>) = 1 /\ <<e>>[1] = e /\ n \in Nat
  BY DEF MemSet
<1>2. g \in Seq(MemSetEntry) /\ Joined(g, h, <<e>>, n, 1)
  BY <1>1, ConcatJoins
<1>3. Len(g) = n + 1 /\ (\A k \in 1 .. n : g[k] = h[k]) /\ g[n + 1] = e
  BY <1>1, <1>2 DEF Joined
<1> HIDE DEF g, n
<1>4. DOMAIN g = 1 .. n + 1 /\ DOMAIN h = 1 .. n
  BY <1>1, <1>2, <1>3 DEF n
<1>5. /\ x = [k \in 1 .. n + 1 |-> Slice(g[k], from, to)]
      /\ y = [k \in 1 .. n |-> Slice(h[k], from, to)]
  BY <1>4, Zenon DEF SlicesOf
<1>6. y \in Seq(MemSetEntry) /\ Slice(e, from, to) \in MemSetEntry
  BY DEF MemSet
<1> HIDE DEF x, y
<1>7. Len(y) = n
  BY <1>1, <1>5, <1>6
<1>8. /\ z \in Seq(MemSetEntry) /\ Len(z) = n + 1 /\ z[n + 1] = Slice(e, from, to)
      /\ \A k \in 1 .. n : z[k] = y[k]
  BY <1>6, <1>7, AppendProperties
<1> HIDE DEF z
<1>9. ASSUME NEW k \in 1 .. n + 1 PROVE x[k] = z[k]
  <2>1. CASE k = n + 1
    BY <1>1, <1>3, <1>5, <1>8, <2>1
  <2>2. CASE k \in 1 .. n
    BY <1>3, <1>5, <1>8, <2>2
  <2>3. QED
    BY <1>1, <2>1, <2>2
<1>10. z = [k \in 1 .. n + 1 |-> z[k]]
  BY <1>8
<1>11. x = z
  BY <1>5, <1>9, <1>10
<1>12. QED
  BY <1>11 DEF x, z, y, g

(***************************************************************************)
(* The cut of a set that holds the instances from a to the one before b    *)
(* holds those of the range it is cut to.                                  *)
(***************************************************************************)
LEMMA CutHolds ==
  ASSUME NEW F, NEW a \in Nat, NEW b \in Nat, NEW set, Holds(set, F, a, b),
         NEW from \in Nat, NEW u \in Nat, a <= from, from <= u, u <= b
  PROVE  Holds(Cut(set, from, u - 1), F, from, u)
<1> DEFINE to == u - 1
           K == Hits(set, from, to)
           f == IfPlaced(set, K)
           N == Len(set)
           h(n) == FlattenSeq(FirstOf(f, n))
           v(n) == SlicesOf(h(n), from, to)
           B(n) == IF n = 0 THEN a ELSE set[n].end + 1
           clamp(x) == IF x <= from THEN from ELSE IF x <= u THEN x ELSE u
           P(n) == h(n) \in MemSet /\ Holds(v(n), F, from, clamp(B(n)))
           T == {n \in Nat : n <= N => P(n)}
<1>1. /\ set \in MemSet /\ set \in Seq(MemSetEntry) /\ N \in Nat
      /\ ContiguousFrom(set, a) /\ to \in Int /\ (set = <<>> <=> N = 0)
      /\ \A k \in 1 .. N : EntryHolds(set[k], F)
  BY DEF Holds, MemSet
<1>2. /\ f \in Seq(Seq(MemSetEntry)) /\ Len(f) = N /\ AtPlaces(set, K) = FlattenSeq(f)
      /\ \A k \in 1 .. N : f[k] = IF k \in K THEN <<set[k]>> ELSE <<>>
  BY <1>1, IfPlacedType
<1>3. /\ Cut(set, from, to) = SlicesOf(AtPlaces(set, K), from, to)
      /\ \A k \in 1 .. N : k \in K <=> Hit(set[k], from, to)
  BY <1>1, CutForm
<1>4. \A k \in 1 .. N : /\ set[k].start = B(k - 1) /\ set[k].start <= set[k].end
                        /\ set[k].start \in Nat /\ set[k].end \in Nat /\ set[k] \in MemSetEntry
  <2>1. SUFFICES ASSUME NEW k \in 1 .. N
                 PROVE  /\ set[k].start = B(k - 1) /\ set[k].start <= set[k].end
                        /\ set[k].start \in Nat /\ set[k].end \in Nat /\ set[k] \in MemSetEntry
    OBVIOUS
  <2>2. EntryHolds(set[k], F)
    BY <1>1
  <2>3. set[k] \in MemSetEntry /\ set[k].start <= set[k].end
    BY <2>2 DEF EntryHolds
  <2>4. set[k].start \in Nat /\ set[k].end \in Nat
    BY <2>3 DEF MemSetEntry
  <2>5. set[k].start = IF k = 1 THEN a ELSE set[k - 1].end + 1
    BY <1>1 DEF ContiguousFrom
  <2>6. QED
    BY <2>3, <2>4, <2>5
<1>5. b = B(N)
  BY <1>1 DEF Holds
<1> HIDE DEF K, f, N, to
<1>6. P(0)
  <2>1. h(0) = <<>>
    BY <1>2, FirstOfFacts, FlattenEmpty
  <2> HIDE DEF h
  <2>2. v(0) = <<>>
    BY <2>1 DEF SlicesOf
  <2> HIDE DEF v
  <2>3. clamp(B(0)) = from
    OBVIOUS
  <2>4. Holds(<<>>, F, from, from) /\ <<>> \in MemSet
    BY EmptySeq DEF Holds, MemSet, ContiguousFrom
  <2>5. QED
    BY <2>1, <2>2, <2>3, <2>4, Zenon
<1>7. ASSUME NEW n \in Nat, n \in T PROVE n + 1 \in T
  <2>1. SUFFICES ASSUME n + 1 <= N PROVE P(n + 1)
    OBVIOUS
  <2>2. n \in 0 .. Len(f) - 1 /\ n + 1 \in 1 .. N /\ n <= N /\ (n + 1) - 1 = n
    BY <1>1, <1>2, <2>1
  <2>3. P(n)
    BY <1>7, <2>2
  <2>4. /\ h(n + 1) = h(n) \o f[n + 1] /\ h(n) \in Seq(MemSetEntry)
        /\ h(n + 1) \in Seq(MemSetEntry)
    BY <1>2, <2>2, FlattenFirst
  <2> DEFINE e == set[n + 1]
  <2>5. /\ e.start = B(n) /\ e.start <= e.end /\ e.start \in Nat /\ e.end \in Nat
        /\ e \in MemSetEntry /\ B(n + 1) = e.end + 1 /\ EntryHolds(e, F)
    BY <1>1, <1>4, <2>2
  <2> DEFINE g == h(n)
             g1 == h(n + 1)
             B0 == B(n)
             B1 == B(n + 1)
  <2> HIDE DEF h
  <2>6. CASE n + 1 \in K
    <3>1. Hit(e, from, to)
      BY <1>3, <2>2, <2>6
    <3>2. /\ g1 = g \o <<e>> /\ g \in MemSet /\ g1 \in MemSet
          /\ Holds(v(n), F, from, clamp(B0))
      BY <1>2, <2>2, <2>3, <2>4, <2>6 DEF MemSet
    <3>3. EntryHolds(Slice(e, from, to), F) /\ Slice(e, from, to) \in MemSetEntry
      <4>1. e \in MemSetEntry /\ EntryHolds(e, F) /\ Hit(e, from, to) /\ to \in Int
        BY <1>1, <2>5, <3>1
      <4> HIDE DEF e
      <4>2. EntryHolds(Slice(e, from, to), F)
        BY <4>1, SliceHolds
      <4>3. Slice(e, from, to) \in MemSetEntry
        BY <4>1, SliceFacts
      <4>4. QED
        BY <4>2, <4>3
    <3>4. /\ Slice(e, from, to).start = (IF from <= e.start THEN e.start ELSE from)
          /\ Slice(e, from, to).end = (IF to <= e.end THEN to ELSE e.end)
      BY <1>1, <2>5, <3>1, SliceFacts, SMTT(60)
    <3>5. clamp(B0) = Slice(e, from, to).start /\ clamp(B1) = Slice(e, from, to).end + 1
      <4> DEFINE s == Slice(e, from, to)
                 st == e.start
                 en == e.end
      <4>1. /\ s.start = (IF from <= st THEN st ELSE from) /\ s.end = (IF to <= en THEN to ELSE en)
            /\ B0 = st /\ B1 = en + 1 /\ st <= en /\ st \in Nat /\ en \in Nat /\ to = u - 1
            /\ from <= to /\ st <= to /\ from <= en
        BY <2>5, <3>1, <3>4 DEF Hit, to
      <4> HIDE DEF s, st, en, B0, B1, e
      <4>2. QED
        BY <4>1 DEF s
    <3>6. v(n + 1) = Append(v(n), Slice(e, from, to))
      <4>1. v(n) \in MemSet
        BY <3>2 DEF Holds
      <4>2. SlicesOf(g, from, to) \in MemSet
        BY <4>1
      <4> HIDE DEF e, g, g1
      <4>3. SlicesOf(g \o <<e>>, from, to) = Append(SlicesOf(g, from, to), Slice(e, from, to))
        BY <2>5, <3>2, <3>3, <4>2, SlicesAppend
      <4>4. QED
        BY <3>2, <4>3 DEF g, g1
    <3> DEFINE w == v(n)
               s == Slice(e, from, to)
               w1 == v(n + 1)
    <3>7. Holds(w, F, from, clamp(B0)) /\ EntryHolds(s, F) /\ s.start = clamp(B0) /\ w1 = Append(w, s)
          /\ s.end + 1 = clamp(B1)
      BY <3>2, <3>3, <3>5, <3>6
    <3>8. Holds(w1, F, from, clamp(B1))
      <4> DEFINE c0 == clamp(B0)
                 c1 == clamp(B1)
      <4>1. Holds(w, F, from, c0) /\ EntryHolds(s, F) /\ s.start = c0 /\ w1 = Append(w, s)
            /\ s.end + 1 = c1
        BY <3>7
      <4> HIDE DEF w, s, w1, c0, c1
      <4>2. Holds(Append(w, s), F, from, s.end + 1)
        BY <4>1, HoldsAppend
      <4>3. QED
        BY <4>1, <4>2 DEF w1, c1
    <3>9. QED
      BY <3>2, <3>8
  <2>7. CASE n + 1 \notin K
    <3>1. ~ Hit(e, from, to)
      BY <1>3, <2>2, <2>7
    <3>2. g1 = g
      <4>1. f[n + 1] = <<>>
        BY <1>2, <2>2, <2>7
      <4>2. QED
        BY <2>4, <4>1, ConcatEmptySeq
    <3>3. clamp(B0) = clamp(B1)
      <4> DEFINE st == e.start
                 en == e.end
      <4>1. /\ B0 = st /\ B1 = en + 1 /\ st <= en /\ st \in Nat /\ en \in Nat /\ to = u - 1
            /\ ~ (from <= to /\ st <= to /\ from <= en)
        BY <2>5, <3>1 DEF Hit, to
      <4> HIDE DEF st, en, B0, B1, e
      <4>2. QED
        BY <4>1
    <3>4. QED
      BY <2>3, <3>2, <3>3
  <2>8. QED
    BY <2>6, <2>7
<1> HIDE DEF P
<1>8. Nat \subseteq T
  <2>1. 0 \in T
    BY <1>6
  <2> HIDE DEF T
  <2>2. QED
    BY <1>7, <2>1, SetInduction
<1>9. P(N)
  BY <1>1, <1>8
<1>10. h(N) = AtPlaces(set, K)
  <2>1. FirstOf(f, N) = f
    BY <1>2, FirstOfFacts
  <2>2. QED
    BY <1>2, <2>1
<1>11. clamp(b) = u
  OBVIOUS
<1> HIDE DEF h, B, clamp
<1>12. Holds(Cut(set, from, to), F, from, u)
  BY <1>3, <1>5, <1>9, <1>10, <1>11 DEF P
<1>13. QED
  BY <1>12 DEF to

LEMMA SlicesType ==
  ASSUME NEW h \in MemSet, NEW from \in Nat, NEW to \in Int, \A k \in 1 .. Len(h) : Hit(h[k], from, to)
  PROVE  SlicesOf(h, from, to) \in MemSet
<1> DEFINE x == SlicesOf(h, from, to)
           N == Len(h)
<1>1. DOMAIN h = 1 .. N /\ N \in Nat /\ \A k \in 1 .. N : h[k] \in MemSetEntry
  BY DEF MemSet
<1>2. \A k \in 1 .. N : Slice(h[k], from, to) \in MemSetEntry
  <2>1. SUFFICES ASSUME NEW k \in 1 .. N PROVE Slice(h[k], from, to) \in MemSetEntry
    OBVIOUS
  <2> DEFINE e == h[k]
  <2>2. e \in MemSetEntry /\ Hit(e, from, to)
    BY <1>1
  <2> HIDE DEF e
  <2>3. Slice(e, from, to) \in MemSetEntry
    BY <2>2, SliceFacts
  <2>4. QED
    BY <2>3 DEF e
<1>3. x = [k \in 1 .. N |-> Slice(h[k], from, to)]
  BY <1>1, Zenon DEF SlicesOf
<1> HIDE DEF x, N
<1>4. x \in [1 .. N -> MemSetEntry]
  BY <1>2, <1>3
<1>5. QED
  BY <1>1, <1>4, IsASeq DEF x, MemSet

\* A cut of any set is one.
LEMMA CutType ==
  ASSUME NEW set \in MemSet, NEW from \in Nat, NEW to \in Int
  PROVE  Cut(set, from, to) \in MemSet
<1> DEFINE K == Hits(set, from, to)
           h == AtPlaces(set, K)
<1>1. /\ Cut(set, from, to) = SlicesOf(h, from, to) /\ K \subseteq 1 .. Len(set)
      /\ \A k \in 1 .. Len(set) : k \in K <=> Hit(set[k], from, to)
  BY CutForm
<1>2. set \in Seq(MemSetEntry)
  BY DEF MemSet
<1> HIDE DEF K
<1>3. /\ h \in Seq(MemSetEntry) /\ Len(h) = Cardinality(K)
      /\ \A k \in K : h[CountUntil(K, k)] = set[k]
      /\ \A m \in 1 .. Cardinality(K) : \E k \in K : CountUntil(K, k) = m
  <2>1. set \in Seq(MemSetEntry) /\ K \subseteq 1 .. Len(set)
    BY <1>1, <1>2
  <2>2. /\ AtPlaces(set, K) \in Seq(MemSetEntry) /\ Len(AtPlaces(set, K)) = Cardinality(K)
        /\ \A k \in K : AtPlaces(set, K)[CountUntil(K, k)] = set[k]
        /\ \A m \in 1 .. Cardinality(K) : \E k \in K : CountUntil(K, k) = m
    BY <2>1, PlacesFacts
  <2>3. QED
    BY <2>2
<1>4. \A m \in 1 .. Len(h) : Hit(h[m], from, to)
  <2>1. SUFFICES ASSUME NEW m \in 1 .. Len(h) PROVE Hit(h[m], from, to)
    OBVIOUS
  <2>2. PICK k \in K : CountUntil(K, k) = m
    BY <1>3
  <2>3. h[m] = set[k] /\ Hit(set[k], from, to)
    BY <1>1, <1>3, <2>2
  <2>4. QED
    BY <2>3
<1> HIDE DEF h
<1>5. SlicesOf(h, from, to) \in MemSet
  BY <1>3, <1>4, SlicesType DEF MemSet
<1>6. QED
  BY <1>1, <1>5

-----------------------------------------------------------------------------
(* The accesses of a tagged set.                                           *)

Tag(V) == [iter : V, id : V, n : Nat]

TaggedAccess(V) == [addr : Word, len : Nat, iter : V, id : V]

TaggedEntry(V) ==
  {x \in [entry : MemSetEntry, iter : V, id : V] : x.entry.start <= x.entry.end}

Attributed(x, tag) == [addr |-> x.addr, len |-> x.len, iter |-> tag.iter, id |-> tag.id]

Block(x) ==
  [l \in 1 .. NumInstances(x.entry) |->
     [addr |-> AccessLower(x.entry, l - 1), len |-> x.entry.length, iter |-> x.iter, id |-> x.id]]

Blocks(set) == [k \in DOMAIN set |-> Block(set[k])]

LEMMA BlockFacts ==
  ASSUME NEW V, NEW x \in TaggedEntry(V)
  PROVE  /\ Block(x) \in Seq(TaggedAccess(V)) /\ Len(Block(x)) = x.entry.end - x.entry.start + 1
         /\ \A l \in 1 .. x.entry.end - x.entry.start + 1 :
              Block(x)[l] = [addr |-> AccessLower(x.entry, l - 1), len |-> x.entry.length,
                             iter |-> x.iter, id |-> x.id]
<1> DEFINE e == x.entry
           n == NumInstances(e)
           r(l) == [addr |-> AccessLower(e, l - 1), len |-> e.length, iter |-> x.iter, id |-> x.id]
           B == Block(x)
<1>1. e \in MemSetEntry /\ x.iter \in V /\ x.id \in V /\ e.start <= e.end
  BY DEF TaggedEntry
<1>2. /\ e.start \in Nat /\ e.end \in Nat /\ e.base \in Int /\ e.stride \in Int /\ e.length \in Nat
  BY <1>1, HAssumption DEF MemSetEntry, Word, SignedWord, M
<1>3. n = e.end - e.start + 1 /\ n \in Nat
  BY <1>1, <1>2 DEF NumInstances
<1>4. B = [l \in 1 .. n |-> r(l)]
  BY Zenon DEF Block
<1> HIDE DEF e, n, B
<1>5. ASSUME NEW l \in 1 .. n PROVE r(l) \in TaggedAccess(V)
  <2>1. (l - 1) * e.stride \in Int
    BY <1>2, <1>3
  <2>2. AccessLower(e, l - 1) \in Word
    BY <1>2, <2>1, WrapIsWord DEF AccessLower
  <2>3. QED
    BY <1>1, <1>2, <2>2 DEF TaggedAccess
<1> HIDE DEF r
<1>6. B \in [1 .. n -> TaggedAccess(V)] /\ \A l \in 1 .. n : B[l] = r(l)
  BY <1>4, <1>5
<1>7. B \in Seq(TaggedAccess(V)) /\ Len(B) = n
  BY <1>3, <1>6, IsASeq
<1>8. QED
  BY <1>3, <1>6, <1>7 DEF B, e, r

LEMMA BlocksFacts ==
  ASSUME NEW V, NEW set \in Seq(TaggedEntry(V))
  PROVE  /\ Blocks(set) \in Seq(Seq(TaggedAccess(V))) /\ Len(Blocks(set)) = Len(set)
         /\ \A k \in 1 .. Len(set) : Blocks(set)[k] = Block(set[k])
         /\ Tagged(set) = FlattenSeq(Blocks(set)) /\ Tagged(set) \in Seq(TaggedAccess(V))
<1> DEFINE B == Blocks(set)
           N == Len(set)
<1>1. DOMAIN set = 1 .. N /\ N \in Nat /\ \A k \in 1 .. N : set[k] \in TaggedEntry(V)
  OBVIOUS
<1>2. \A k \in 1 .. N : Block(set[k]) \in Seq(TaggedAccess(V))
  BY <1>1, BlockFacts
<1>3. B = [k \in 1 .. N |-> Block(set[k])]
  BY <1>1, Zenon DEF Blocks
<1>4. Tagged(set) = FlattenSeq(B)
  BY Zenon DEF Tagged, Blocks, Block
<1> HIDE DEF B, N
<1>5. B \in [1 .. N -> Seq(TaggedAccess(V))] /\ \A k \in 1 .. N : B[k] = Block(set[k])
  BY <1>2, <1>3
<1>6. B \in Seq(Seq(TaggedAccess(V))) /\ Len(B) = N
  BY <1>1, <1>5, IsASeq
<1>7. QED
  BY <1>4, <1>5, <1>6, FlattenType DEF B, N

LEMMA TaggedConcat ==
  ASSUME NEW V, NEW s \in Seq(TaggedEntry(V)), NEW t \in Seq(TaggedEntry(V))
  PROVE  Tagged(s \o t) = Tagged(s) \o Tagged(t) /\ s \o t \in Seq(TaggedEntry(V))
<1> DEFINE u == s \o t
           m == Len(s)
           n == Len(t)
           a == Blocks(s)
           b == Blocks(t)
           c == Blocks(u)
           d == a \o b
<1>1. u \in Seq(TaggedEntry(V)) /\ Joined(u, s, t, m, n) /\ m \in Nat /\ n \in Nat
  BY ConcatJoins, LenProperties
<1>2. Len(u) = m + n
  BY <1>1 DEF Joined
<1> HIDE DEF u
<1>3. /\ a \in Seq(Seq(TaggedAccess(V))) /\ Len(a) = m /\ Tagged(s) = FlattenSeq(a)
      /\ \A k \in 1 .. m : a[k] = Block(s[k])
  BY BlocksFacts
<1>4. /\ b \in Seq(Seq(TaggedAccess(V))) /\ Len(b) = n /\ Tagged(t) = FlattenSeq(b)
      /\ \A k \in 1 .. n : b[k] = Block(t[k])
  BY BlocksFacts
<1>5. /\ c \in Seq(Seq(TaggedAccess(V))) /\ Len(c) = m + n /\ Tagged(u) = FlattenSeq(c)
      /\ \A k \in 1 .. m + n : c[k] = Block(u[k])
  BY <1>1, <1>2, BlocksFacts
<1> HIDE DEF a, b, c, m, n
<1>6. d \in Seq(Seq(TaggedAccess(V))) /\ Joined(d, a, b, m, n)
  BY <1>3, <1>4, ConcatJoins
<1> HIDE DEF d
<1>7. ASSUME NEW k \in 1 .. m PROVE c[k] = d[k]
  BY <1>1, <1>3, <1>5, <1>6 DEF Joined
<1>8. ASSUME NEW k \in 1 .. n PROVE c[m + k] = d[m + k]
  <2>1. u[m + k] = t[k] /\ d[m + k] = b[k] /\ m + k \in 1 .. m + n
    BY <1>1, <1>6, SMTT(60) DEF Joined
  <2>2. QED
    BY <1>4, <1>5, <2>1
<1>9. c = d
  <2>1. Len(d) = m + n
    BY <1>6 DEF Joined
  <2>2. ASSUME NEW k \in 1 .. m + n PROVE c[k] = d[k]
    <3>1. CASE k \in 1 .. m
      BY <1>7, <3>1
    <3>2. CASE ~ (k \in 1 .. m)
      <4>1. k - m \in 1 .. n /\ m + (k - m) = k
        BY <1>1, <3>2
      <4>2. QED
        BY <1>8, <4>1
    <3>3. QED
      BY <3>1, <3>2
  <2>3. QED
    BY <1>5, <1>6, <2>1, <2>2, SeqEqual
<1>10. FlattenSeq(d) = FlattenSeq(a) \o FlattenSeq(b)
  BY <1>3, <1>4, FlattenConcat DEF d
<1>11. QED
  BY <1>1, <1>3, <1>4, <1>5, <1>9, <1>10 DEF u

\* The set has the accesses that F tells of from a to the one before b, with the tag.
TaggedAs(V, set, F, a, b, tag) ==
  /\ set \in Seq(TaggedEntry(V)) /\ Len(Tagged(set)) = b - a
  /\ \A l \in 1 .. b - a : Tagged(set)[l] = Attributed(F[a + l], tag)

(***************************************************************************)
(* A tagged cut has the accesses that the cut holds, each with the tag.    *)
(***************************************************************************)
LEMMA CutTagged ==
  ASSUME NEW V, NEW F, NEW a \in Nat, NEW b \in Nat, NEW cut, Holds(cut, F, a, b), NEW tag \in Tag(V)
  PROVE  TaggedAs(V, TaggedWith(cut, tag), F, a, b, tag)
<1> DEFINE set == TaggedWith(cut, tag)
           N == Len(cut)
           f == Blocks(set)
           B(n) == IF n = 0 THEN a ELSE cut[n].end + 1
           h(n) == FlattenSeq(FirstOf(f, n))
           P(n) == /\ B(n) \in Nat /\ a <= B(n) /\ h(n) \in Seq(TaggedAccess(V)) /\ Len(h(n)) = B(n) - a
                   /\ \A l \in 1 .. B(n) - a : h(n)[l] = Attributed(F[a + l], tag)
           T == {n \in Nat : n <= N => P(n)}
<1>1. /\ cut \in Seq(MemSetEntry) /\ N \in Nat /\ ContiguousFrom(cut, a)
      /\ (cut = <<>> <=> N = 0) /\ \A k \in 1 .. N : EntryHolds(cut[k], F)
  BY DEF Holds, MemSet
<1>2. \A k \in 1 .. N : /\ cut[k].start = B(k - 1) /\ cut[k].start <= cut[k].end
                        /\ cut[k].start \in Nat /\ cut[k].end \in Nat /\ cut[k] \in MemSetEntry
  <2>1. SUFFICES ASSUME NEW k \in 1 .. N
                 PROVE  /\ cut[k].start = B(k - 1) /\ cut[k].start <= cut[k].end
                        /\ cut[k].start \in Nat /\ cut[k].end \in Nat /\ cut[k] \in MemSetEntry
    OBVIOUS
  <2>2. EntryHolds(cut[k], F)
    BY <1>1
  <2>3. cut[k] \in MemSetEntry /\ cut[k].start <= cut[k].end
    BY <2>2 DEF EntryHolds
  <2>4. cut[k].start \in Nat /\ cut[k].end \in Nat
    BY <2>3 DEF MemSetEntry
  <2>5. cut[k].start = IF k = 1 THEN a ELSE cut[k - 1].end + 1
    BY <1>1 DEF ContiguousFrom
  <2>6. QED
    BY <2>3, <2>4, <2>5
<1>3. b = B(N)
  BY <1>1 DEF Holds
<1>4. set \in Seq(TaggedEntry(V)) /\ Len(set) = N
      /\ \A k \in 1 .. N : set[k] = [entry |-> cut[k], iter |-> tag.iter, id |-> tag.id]
  <2>1. DOMAIN cut = 1 .. N
    BY <1>1
  <2>2. set = [k \in 1 .. N |-> [entry |-> cut[k], iter |-> tag.iter, id |-> tag.id]]
    BY <2>1, Zenon DEF TaggedWith
  <2>3. tag.iter \in V /\ tag.id \in V
    BY DEF Tag
  <2> HIDE DEF set, N
  <2>4. \A k \in 1 .. N : [entry |-> cut[k], iter |-> tag.iter, id |-> tag.id] \in TaggedEntry(V)
    BY <1>2, <2>3 DEF TaggedEntry
  <2>5. set \in [1 .. N -> TaggedEntry(V)]
    BY <2>2, <2>4
  <2>6. QED
    BY <1>1, <2>2, <2>5, IsASeq
<1> HIDE DEF N, set
<1>5. /\ f \in Seq(Seq(TaggedAccess(V))) /\ Len(f) = N /\ Tagged(set) = FlattenSeq(f)
      /\ \A k \in 1 .. N : f[k] = Block(set[k])
  BY <1>4, BlocksFacts
<1> HIDE DEF f
<1>6. P(0)
  <2>1. h(0) = <<>>
    BY <1>5, FirstOfFacts, FlattenEmpty
  <2> HIDE DEF h
  <2>2. h(0) \in Seq(TaggedAccess(V)) /\ Len(h(0)) = 0
    BY <2>1, EmptySeq
  <2>3. B(0) = a /\ 1 .. a - a = {}
    OBVIOUS
  <2> HIDE DEF B
  <2>4. QED
    BY <2>2, <2>3
<1>7. ASSUME NEW n \in Nat, n \in T PROVE n + 1 \in T
  <2>0. n + 1 \in Nat
    OBVIOUS
  <2>1. SUFFICES ASSUME n + 1 <= N PROVE P(n + 1)
    BY <2>0, Zenon
  <2>2. n \in 0 .. Len(f) - 1 /\ n + 1 \in 1 .. N /\ n <= N /\ (n + 1) - 1 = n
    BY <1>1, <1>5, <2>1
  <2>3. P(n)
    BY <1>7, <2>2
  <2>4. /\ h(n + 1) = h(n) \o f[n + 1] /\ h(n) \in Seq(TaggedAccess(V))
        /\ h(n + 1) \in Seq(TaggedAccess(V)) /\ f[n + 1] \in Seq(TaggedAccess(V))
    BY <1>5, <2>2, FlattenFirst
  <2> DEFINE e == cut[n + 1]
             x == set[n + 1]
             B0 == B(n)
             B1 == B(n + 1)
             c == f[n + 1]
  <2>5. /\ e.start = B0 /\ e.start <= e.end /\ e.start \in Nat /\ e.end \in Nat /\ B1 = e.end + 1
        /\ EntryHolds(e, F) /\ x = [entry |-> e, iter |-> tag.iter, id |-> tag.id]
        /\ x \in TaggedEntry(V) /\ c = Block(x)
    <3>1. e.start = B0 /\ e.start <= e.end /\ e.start \in Nat /\ e.end \in Nat
      BY <1>2, <2>2
    <3>2. B1 = e.end + 1
      OBVIOUS
    <3>3. EntryHolds(e, F) /\ c = Block(x)
      BY <1>1, <1>5, <2>2
    <3>4. x = [entry |-> e, iter |-> tag.iter, id |-> tag.id] /\ x \in TaggedEntry(V)
      BY <1>4, <2>2
    <3>5. QED
      BY <3>1, <3>2, <3>3, <3>4
  <2>6. /\ Len(c) = B1 - B0
        /\ \A l \in 1 .. B1 - B0 : c[l] = Attributed(F[B0 + l], tag)
    <3> DEFINE st == e.start
               en == e.end
    <3>1. /\ Len(c) = en - st + 1
          /\ \A l \in 1 .. en - st + 1 :
               c[l] = [addr |-> AccessLower(e, l - 1), len |-> e.length,
                       iter |-> tag.iter, id |-> tag.id]
      <4>1. x.entry = e /\ x.iter = tag.iter /\ x.id = tag.id
        BY <2>5
      <4>2. x \in TaggedEntry(V) /\ c = Block(x)
        BY <2>5
      <4> HIDE DEF x, e, c
      <4>3. /\ Len(Block(x)) = x.entry.end - x.entry.start + 1
            /\ \A l \in 1 .. x.entry.end - x.entry.start + 1 :
                 Block(x)[l] = [addr |-> AccessLower(x.entry, l - 1), len |-> x.entry.length,
                                iter |-> x.iter, id |-> x.id]
        BY <4>2, BlockFacts
      <4>4. QED
        BY <4>1, <4>2, <4>3
    <3>2. B1 - B0 = en - st + 1 /\ B0 = st /\ st \in Nat /\ en \in Nat
      BY <2>5
    <3>3. \A j \in st .. en : AccessLower(e, j - st) = F[j + 1].addr /\ e.length = F[j + 1].len
      BY <2>5 DEF EntryHolds
    <3> HIDE DEF e, st, en, B0, B1, c
    <3>4. ASSUME NEW l \in 1 .. en - st + 1 PROVE c[l] = Attributed(F[st + l], tag)
      <4> DEFINE j == st + (l - 1)
      <4>1. j \in st .. en /\ j - st = l - 1 /\ j + 1 = st + l
        BY <3>2
      <4> HIDE DEF j
      <4>2. AccessLower(e, l - 1) = F[st + l].addr /\ e.length = F[st + l].len
        BY <3>3, <4>1
      <4>3. c[l] = [addr |-> AccessLower(e, l - 1), len |-> e.length, iter |-> tag.iter, id |-> tag.id]
        BY <3>1
      <4>4. QED
        BY <4>2, <4>3 DEF Attributed
    <3>5. QED
      BY <3>1, <3>2, <3>4
  <2> DEFINE g == h(n)
             g1 == h(n + 1)
  <2>7. /\ B0 \in Nat /\ a <= B0 /\ Len(g) = B0 - a
        /\ \A l \in 1 .. B0 - a : g[l] = Attributed(F[a + l], tag)
    BY <2>3
  <2>8. B1 \in Nat /\ B0 < B1
    BY <2>5
  <2>9. g1 = g \o c /\ g \in Seq(TaggedAccess(V)) /\ c \in Seq(TaggedAccess(V)) /\ g1 \in Seq(TaggedAccess(V))
    BY <2>4
  <2> HIDE DEF g, g1, B0, B1, c
  <2>10. Joined(g1, g, c, B0 - a, B1 - B0)
    BY <2>6, <2>7, <2>9, ConcatJoins
  <2>11. Len(g1) = B1 - a
    BY <2>7, <2>8, <2>10 DEF Joined
  <2>12. ASSUME NEW l \in 1 .. B1 - a PROVE g1[l] = Attributed(F[a + l], tag)
    <3>1. CASE l <= B0 - a
      <4>1. l \in 1 .. B0 - a
        BY <2>7, <3>1
      <4>2. QED
        BY <2>7, <2>10, <4>1 DEF Joined
    <3>2. CASE ~ (l <= B0 - a)
      <4> DEFINE p == B0 - a
                 q == l - p
      <4>1. p \in Int /\ q \in 1 .. B1 - B0 /\ p + q = l /\ B0 + q = a + l
        BY <2>7, <2>8, <3>2
      <4> HIDE DEF q
      <4>2. g1[p + q] = c[q]
        BY <2>10, <4>1 DEF Joined
      <4>3. c[q] = Attributed(F[B0 + q], tag)
        BY <2>6, <4>1
      <4>4. QED
        BY <4>1, <4>2, <4>3
    <3>3. QED
      BY <3>1, <3>2
  <2>13. QED
    BY <2>7, <2>8, <2>9, <2>11, <2>12 DEF g1, B1
<1> HIDE DEF P
<1>8. Nat \subseteq T
  <2>1. 0 \in T
    BY <1>6
  <2> HIDE DEF T
  <2>2. QED
    BY <1>7, <2>1, SetInduction
<1>9. P(N)
  BY <1>1, <1>8
<1>10. h(N) = Tagged(set)
  <2>1. FirstOf(f, N) = f
    BY <1>5, FirstOfFacts
  <2>2. QED
    BY <1>5, <2>1
<1> HIDE DEF h, B
<1>11. QED
  BY <1>3, <1>4, <1>9, <1>10 DEF P, set, TaggedAs

-----------------------------------------------------------------------------
(* The tagged slices of a chunk.                                           *)

SlicedFrom(chunk, tag, v) ==
  [next |-> v.next + tag.n,
   set  |-> v.set \o TaggedWith(Cut(chunk, v.next, (v.next + tag.n) - 1), tag)]

IsSliced(f, chunk, from, tags) ==
  f = [k \in 0 .. Len(tags) |->
         IF k = 0 THEN [next |-> from, set |-> <<>>] ELSE SlicedFrom(chunk, tags[k], f[k - 1])]

LEMMA TaggedWithType ==
  ASSUME NEW V, NEW cut \in MemSet, NEW tag \in Tag(V)
  PROVE  TaggedWith(cut, tag) \in Seq([entry : MemSetEntry, iter : V, id : V])
<1> DEFINE N == Len(cut)
           x == TaggedWith(cut, tag)
           R == [entry : MemSetEntry, iter : V, id : V]
<1>1. DOMAIN cut = 1 .. N /\ N \in Nat /\ \A k \in 1 .. N : cut[k] \in MemSetEntry
  BY DEF MemSet
<1>2. x = [k \in 1 .. N |-> [entry |-> cut[k], iter |-> tag.iter, id |-> tag.id]]
  BY <1>1, Zenon DEF TaggedWith
<1>3. tag.iter \in V /\ tag.id \in V
  BY DEF Tag
<1> HIDE DEF x, N
<1>4. x \in [1 .. N -> R]
  BY <1>1, <1>2, <1>3
<1> HIDE DEF R
<1>5. x \in Seq(R)
  BY <1>1, <1>4, IsASeq
<1>6. QED
  BY <1>5 DEF x, R

LEMMA SlicedIsIterated ==
  ASSUME NEW V, NEW chunk \in MemSet, NEW from \in Nat, NEW tags \in Seq(Tag(V))
  PROVE  \E f : IsSliced(f, chunk, from, tags) /\ Sliced(chunk, from, tags) = f[Len(tags)].set
<1> DEFINE N == Len(tags)
           R == [entry : MemSetEntry, iter : V, id : V]
           T == [next : Nat, set : Seq(R)]
           b == [next |-> from, set |-> <<>>]
           g == [k \in 1 .. N |-> [v \in T |-> SlicedFrom(chunk, tags[k], v)]]
<1>1. N \in Nat /\ \A k \in 1 .. N : tags[k] \in Tag(V)
  OBVIOUS
<1>2. ASSUME NEW tag \in Tag(V), NEW v \in T PROVE SlicedFrom(chunk, tag, v) \in T
  <2> DEFINE cut == Cut(chunk, v.next, (v.next + tag.n) - 1)
             w == TaggedWith(cut, tag)
             c == v.set \o w
  <2>1. v.next \in Nat /\ v.set \in Seq(R) /\ tag.n \in Nat
    BY DEF Tag
  <2>2. cut \in MemSet
    <3> DEFINE to == (v.next + tag.n) - 1
    <3>1. v.next \in Nat /\ to \in Int
      BY <2>1
    <3> HIDE DEF to
    <3>2. Cut(chunk, v.next, to) \in MemSet
      BY <3>1, CutType
    <3>3. QED
      BY <3>2 DEF to
  <2> HIDE DEF cut
  <2>3. w \in Seq(R)
    BY <2>2, TaggedWithType
  <2> HIDE DEF w, R
  <2>4. c \in Seq(R)
    BY <2>1, <2>3, ConcatProperties
  <2>5. SlicedFrom(chunk, tag, v) = [next |-> v.next + tag.n, set |-> c]
    BY Zenon DEF SlicedFrom, c, w, cut
  <2> HIDE DEF c
  <2>6. QED
    BY <2>1, <2>4, <2>5
<1>3. b \in T
  BY EmptySeq
<1> HIDE DEF T, b, N
<1>4. g \in [1 .. N -> [T -> T]] /\ \A k \in 1 .. N : \A v \in T : g[k][v] = SlicedFrom(chunk, tags[k], v)
  BY <1>1, <1>2
<1> HIDE DEF g
<1>5. PICK f \in [0 .. N -> T] : Iterates(f, b, g, N)
  BY <1>1, <1>3, <1>4, IterationExists
<1>6. \A k \in 0 .. N : f[k] = IF k = 0 THEN b ELSE SlicedFrom(chunk, tags[k], f[k - 1])
  <2>1. SUFFICES ASSUME NEW k \in 1 .. N PROVE f[k] = SlicedFrom(chunk, tags[k], f[k - 1])
    BY <1>1, <1>5 DEF Iterates
  <2>2. k - 1 \in 0 .. N
    BY <1>1
  <2>3. f[k - 1] \in T /\ f[k] = g[k][f[k - 1]]
    BY <1>5, <2>2 DEF Iterates
  <2>4. QED
    BY <1>4, <2>3
<1>7. f = [k \in 0 .. N |-> f[k]]
  BY <1>5
<1>8. IsSliced(f, chunk, from, tags)
  BY <1>6, <1>7 DEF IsSliced, N, b
<1> DEFINE h == CHOOSE h : IsSliced(h, chunk, from, tags)
<1>9. IsSliced(h, chunk, from, tags)
  BY <1>8
<1>10. Sliced(chunk, from, tags) = h[Len(tags)].set
  BY Zenon DEF Sliced, IsSliced, SlicedFrom
<1> HIDE DEF h
<1>11. QED
  BY <1>9, <1>10

-----------------------------------------------------------------------------
(* The instances that tags speak of, one after the other.                  *)

Repeated(x, n) == [l \in 1 .. n |-> x]

TagBlocks(tags) == [k \in DOMAIN tags |-> Repeated(tags[k], tags[k].n)]

Spread(tags) == FlattenSeq(TagBlocks(tags))

LEMMA RepeatedFacts ==
  ASSUME NEW S, NEW x \in S, NEW n \in Nat
  PROVE  /\ Repeated(x, n) \in Seq(S) /\ Len(Repeated(x, n)) = n
         /\ \A l \in 1 .. n : Repeated(x, n)[l] = x
<1>1. Repeated(x, n) \in [1 .. n -> S] /\ \A l \in 1 .. n : Repeated(x, n)[l] = x
  BY DEF Repeated
<1>2. QED
  BY <1>1, IsASeq

LEMMA TagBlocksFacts ==
  ASSUME NEW V, NEW tags \in Seq(Tag(V))
  PROVE  /\ TagBlocks(tags) \in Seq(Seq(Tag(V))) /\ Len(TagBlocks(tags)) = Len(tags)
         /\ \A k \in 1 .. Len(tags) : TagBlocks(tags)[k] = Repeated(tags[k], tags[k].n)
         /\ Spread(tags) \in Seq(Tag(V))
<1> DEFINE N == Len(tags)
           f == TagBlocks(tags)
<1>1. DOMAIN tags = 1 .. N /\ N \in Nat /\ \A k \in 1 .. N : tags[k] \in Tag(V) /\ tags[k].n \in Nat
  <2>1. DOMAIN tags = 1 .. N /\ N \in Nat /\ \A k \in 1 .. N : tags[k] \in Tag(V)
    OBVIOUS
  <2>2. QED
    BY <2>1 DEF Tag
<1>2. f = [k \in 1 .. N |-> Repeated(tags[k], tags[k].n)]
  BY <1>1, Zenon DEF TagBlocks
<1>3. \A k \in 1 .. N : Repeated(tags[k], tags[k].n) \in Seq(Tag(V))
  BY <1>1, RepeatedFacts
<1> HIDE DEF f, N
<1>4. f \in [1 .. N -> Seq(Tag(V))] /\ \A k \in 1 .. N : f[k] = Repeated(tags[k], tags[k].n)
  BY <1>2, <1>3
<1>5. f \in Seq(Seq(Tag(V))) /\ Len(f) = N
  BY <1>1, <1>4, IsASeq
<1>6. QED
  BY <1>4, <1>5, FlattenType DEF Spread, f, N

SlicedAs(V, set, F, from, told) ==
  /\ set \in Seq(TaggedEntry(V))
  /\ Tagged(set) \in Seq(TaggedAccess(V)) /\ Len(Tagged(set)) = Len(told)
  /\ \A l \in 1 .. Len(told) : Tagged(set)[l] = Attributed(F[from + l], told[l])

(***************************************************************************)
(* Slicing a chunk tags its instances one after the other, if it holds as  *)
(* many from there on as the tags speak of.                                *)
(***************************************************************************)
THEOREM SlicedTagged ==
  ASSUME NEW V, NEW F, NEW a \in Nat, NEW b \in Nat, NEW chunk, Holds(chunk, F, a, b),
         NEW from \in Nat, a <= from, NEW tags \in Seq(Tag(V)), from + Len(Spread(tags)) <= b
  PROVE  SlicedAs(V, Sliced(chunk, from, tags), F, from, Spread(tags))
<1> DEFINE N == Len(tags)
           G == TagBlocks(tags)
           E(n) == FlattenSeq(FirstOf(G, n))
           ok(set, n) == /\ set \in Seq(TaggedEntry(V)) /\ Len(Tagged(set)) = Len(E(n))
                         /\ \A l \in 1 .. Len(E(n)) : Tagged(set)[l] = Attributed(F[from + l], E(n)[l])
<1>1. /\ G \in Seq(Seq(Tag(V))) /\ Len(G) = N /\ N \in Nat /\ Spread(tags) = FlattenSeq(G)
      /\ \A k \in 1 .. N : tags[k] \in Tag(V) /\ tags[k].n \in Nat /\ G[k] = Repeated(tags[k], tags[k].n)
  <2>1. N \in Nat /\ \A k \in 1 .. N : tags[k] \in Tag(V)
    OBVIOUS
  <2>2. \A k \in 1 .. N : tags[k].n \in Nat
    BY <2>1 DEF Tag
  <2>3. QED
    BY <2>1, <2>2, TagBlocksFacts DEF Spread
<1>2. PICK f : IsSliced(f, chunk, from, tags) /\ Sliced(chunk, from, tags) = f[N].set
  <2>1. chunk \in MemSet
    BY DEF Holds
  <2>2. QED
    BY <2>1, SlicedIsIterated
<1>3. /\ f[0] = [next |-> from, set |-> <<>>]
      /\ \A k \in 1 .. N : f[k] = SlicedFrom(chunk, tags[k], f[k - 1])
  <2>1. f = [k \in 0 .. N |->
              IF k = 0 THEN [next |-> from, set |-> <<>>] ELSE SlicedFrom(chunk, tags[k], f[k - 1])]
    BY <1>2, Zenon DEF IsSliced
  <2> HIDE DEF N
  <2>2. \A k \in 0 .. N :
          f[k] = IF k = 0 THEN [next |-> from, set |-> <<>>] ELSE SlicedFrom(chunk, tags[k], f[k - 1])
    BY <2>1, Zenon
  <2>3. 0 \in 0 .. N /\ \A k \in 1 .. N : k \in 0 .. N /\ k # 0
    BY <1>1
  <2>4. QED
    BY <2>2, <2>3, Zenon
<1> HIDE DEF N, G
<1> DEFINE P(n) == from + Len(E(n)) <= b => f[n].next = from + Len(E(n)) /\ ok(f[n].set, n)
           T == {n \in Nat : n <= N => P(n)}
<1>4. P(0)
  <2>1. E(0) = <<>>
    BY <1>1, FirstOfFacts, FlattenEmpty
  <2> HIDE DEF E
  <2>2. Len(E(0)) = 0 /\ 1 .. Len(E(0)) = {}
    BY <2>1
  <2>3. f[0].next = from /\ f[0].set = <<>>
    BY <1>3
  <2>4. <<>> \in Seq(TaggedEntry(V)) /\ Tagged(<<>>) = <<>>
    <3>1. Blocks(<<>>) = <<>>
      BY DEF Blocks
    <3>2. QED
      BY <3>1, EmptySeq, BlocksFacts, FlattenEmpty
  <2>5. QED
    BY <2>2, <2>3, <2>4
<1>5. ASSUME NEW n \in Nat, n \in T PROVE n + 1 \in T
  <2> DEFINE x == E(n)
             y == E(n + 1)
             tag == tags[n + 1]
             c == G[n + 1]
             q == Len(x)
             k == tag.n
  <2>1. SUFFICES ASSUME n + 1 <= N, from + Len(y) <= b
                 PROVE  f[n + 1].next = from + Len(y) /\ ok(f[n + 1].set, n + 1)
    OBVIOUS
  <2>2. n \in 0 .. Len(G) - 1 /\ n + 1 \in 1 .. N /\ n <= N /\ (n + 1) - 1 = n
    BY <1>1, <2>1
  <2>3. y = x \o c /\ x \in Seq(Tag(V)) /\ y \in Seq(Tag(V)) /\ c \in Seq(Tag(V))
    BY <1>1, <2>2, FlattenFirst
  <2>4. c = Repeated(tag, k) /\ tag \in Tag(V) /\ k \in Nat /\ f[n + 1] = SlicedFrom(chunk, tag, f[n])
    BY <1>1, <1>3, <2>2
  <2>5. Len(c) = k /\ \A l \in 1 .. k : c[l] = tag
    <3> HIDE DEF c, tag, k
    <3>1. Len(Repeated(tag, k)) = k /\ \A l \in 1 .. k : Repeated(tag, k)[l] = tag
      BY <2>4, RepeatedFacts
    <3>2. QED
      BY <2>4, <3>1
  <2>6. P(n)
    BY <1>5, <2>2
  <2> HIDE DEF E, c, tag
  <2>7. Joined(y, x, c, q, k) /\ q \in Nat
    BY <2>3, <2>5, ConcatJoins, LenProperties
  <2>8. Len(y) = q + k
    BY <2>7 DEF Joined
  <2>9. f[n].next = from + q /\ ok(f[n].set, n)
    <3>1. from + q <= b
      BY <2>1, <2>4, <2>7, <2>8
    <3>2. QED
      BY <2>6, <3>1
  <2> DEFINE p == from + q
             cut == Cut(chunk, p, (p + k) - 1)
             new == TaggedWith(cut, tag)
             s == f[n].set
             s1 == f[n + 1].set
  <2>10. f[n + 1] = [next |-> p + k, set |-> s \o new]
    BY <2>4, <2>9, Zenon DEF SlicedFrom
  <2>11. f[n + 1].next = p + k /\ s1 = s \o new
    <3> HIDE DEF p, k, new, s
    <3>1. QED
      BY <2>10 DEF s1
  <2>12. Holds(cut, F, p, p + k)
    <3> DEFINE u == p + k
    <3>1. p \in Nat /\ u \in Nat /\ a <= p /\ p <= u /\ u <= b
      BY <2>1, <2>4, <2>7, <2>8, SMTT(60)
    <3>2. cut = Cut(chunk, p, u - 1)
      OBVIOUS
    <3> HIDE DEF u, p, cut
    <3>3. Holds(Cut(chunk, p, u - 1), F, p, u)
      BY <3>1, CutHolds
    <3>4. QED
      BY <3>2, <3>3 DEF u
  <2>13. p \in Nat /\ p + k \in Nat /\ (p + k) - p = k
    BY <2>4, <2>7
  <2> HIDE DEF cut, p
  <2>14. /\ new \in Seq(TaggedEntry(V)) /\ Len(Tagged(new)) = k
         /\ \A l \in 1 .. k : Tagged(new)[l] = Attributed(F[p + l], tag)
    <3> DEFINE u == p + k
    <3>1. Holds(cut, F, p, u) /\ p \in Nat /\ u \in Nat /\ u - p = k
      BY <2>12, <2>13
    <3> HIDE DEF u
    <3>2. /\ new \in Seq(TaggedEntry(V)) /\ Len(Tagged(new)) = u - p
          /\ \A l \in 1 .. u - p : Tagged(new)[l] = Attributed(F[p + l], tag)
      <4>1. tag \in Tag(V) /\ Holds(cut, F, p, u)
        BY <2>4, <3>1
      <4>2. TaggedAs(V, TaggedWith(cut, tag), F, p, u, tag)
        BY <3>1, <4>1, CutTagged
      <4>3. QED
        BY <4>2 DEF TaggedAs
    <3>3. QED
      BY <3>1, <3>2
  <2> HIDE DEF new, s, s1, x, y, q, k
  <2>15. /\ s \in Seq(TaggedEntry(V)) /\ Len(Tagged(s)) = q
         /\ \A l \in 1 .. q : Tagged(s)[l] = Attributed(F[from + l], x[l])
    BY <2>9 DEF s, x, q
  <2>16. s1 \in Seq(TaggedEntry(V)) /\ Tagged(s1) = Tagged(s) \o Tagged(new)
    BY <2>11, <2>14, <2>15, TaggedConcat
  <2>17. Tagged(s) \in Seq(TaggedAccess(V)) /\ Tagged(new) \in Seq(TaggedAccess(V))
    BY <2>14, <2>15, BlocksFacts
  <2>18. Joined(Tagged(s1), Tagged(s), Tagged(new), q, k)
    BY <2>14, <2>15, <2>16, <2>17, ConcatJoins
  <2>19. Len(Tagged(s1)) = q + k
    BY <2>18 DEF Joined
  <2>20. ASSUME NEW l \in 1 .. q + k PROVE Tagged(s1)[l] = Attributed(F[from + l], y[l])
    <3>1. CASE l \in 1 .. q
      <4>1. Tagged(s1)[l] = Tagged(s)[l] /\ y[l] = x[l]
        BY <2>7, <2>18, <3>1 DEF Joined
      <4>2. QED
        BY <2>15, <3>1, <4>1
    <3>2. CASE ~ (l \in 1 .. q)
      <4> DEFINE j == l - q
      <4>1. j \in 1 .. k /\ q + j = l /\ p + j = from + l
        BY <2>4, <2>7, <3>2 DEF p
      <4> HIDE DEF j
      <4>2. Tagged(s1)[q + j] = Tagged(new)[j] /\ y[q + j] = c[j] /\ c[j] = tag
        BY <2>5, <2>7, <2>18, <4>1 DEF Joined
      <4>3. Tagged(new)[j] = Attributed(F[p + j], tag)
        BY <2>14, <4>1
      <4>4. QED
        BY <4>1, <4>2, <4>3
    <3>3. QED
      BY <3>1, <3>2
  <2>21. f[n + 1].next = from + Len(y)
    <3>1. p + k = from + (q + k)
      BY <2>4, <2>7 DEF p, q
    <3>2. QED
      BY <2>8, <2>11, <3>1 DEF q, k
  <2>22. ok(f[n + 1].set, n + 1)
    BY <2>8, <2>16, <2>19, <2>20 DEF s1, y, q, k
  <2>23. QED
    BY <2>21, <2>22
<1> HIDE DEF P
<1>6. Nat \subseteq T
  <2>1. 0 \in T
    BY <1>4
  <2> HIDE DEF T
  <2>2. QED
    BY <1>5, <2>1, SetInduction
<1>7. P(N)
  BY <1>1, <1>6
<1>8. E(N) = Spread(tags)
  <2>1. FirstOf(G, N) = G
    BY <1>1, FirstOfFacts
  <2>2. QED
    BY <1>1, <2>1
<1> HIDE DEF E
<1>9. ok(f[N].set, N)
  BY <1>7, <1>8 DEF P
<1>10. QED
  BY <1>2, <1>8, <1>9, BlocksFacts DEF N, SlicedAs

-----------------------------------------------------------------------------
(* The tags of an invocation.                                              *)

\* An entry for every instance, with its iteration and instruction.
TagsTell(tags, runs) ==
  /\ \E V : tags \in Seq(Tag(V))
  /\ Len(Spread(tags)) = Len(runs)
  /\ \A m \in 1 .. Len(runs) :
       Spread(tags)[m].iter = runs[m].iter /\ Spread(tags)[m].id = Id(runs[m])

LEMMA InvocationFacts ==
  ASSUME input \in Inputs, NEW n \in 1 .. Len(Program)
  PROVE  /\ Program[n] \in Seq(Executed) /\ DOMAIN Program[n] = 1 .. Len(Program[n])
         /\ Len(Program[n]) \in Nat /\ Orderly(Program[n])
         /\ \A k \in 1 .. Len(Program[n]) :
              /\ Program[n][k].iter \in Nat /\ Program[n][k].inst \in Nat
              /\ Program[n][k].call \in Calls \cup {0}
<1>1. Program \in Seq(Seq(Executed)) /\ Len(Program) \in Nat
  BY InputFacts, ThroughEnds DEF Program
<1>2. n \in DOMAIN input.program /\ Program = input.program
  BY <1>1 DEF Program
<1>3. Orderly(Program[n])
  BY <1>2, ProgramsAssumption
<1> DEFINE inv == Program[n]
<1>4. inv \in Seq(Executed)
  BY <1>1
<1> HIDE DEF inv
<1>5. Len(inv) \in Nat /\ DOMAIN inv = 1 .. Len(inv) /\ \A k \in 1 .. Len(inv) : inv[k] \in Executed
  BY <1>4
<1>6. \A k \in 1 .. Len(inv) : /\ inv[k].iter \in Nat /\ inv[k].inst \in Nat
                               /\ inv[k].call \in Calls \cup {0}
  BY <1>5 DEF Executed
<1>7. QED
  BY <1>3, <1>4, <1>5, <1>6 DEF inv

LEMMA IterationsFacts ==
  ASSUME NEW inv \in Seq(Executed), Orderly(inv)
  PROVE  /\ Cardinality(Iterations(inv)) \in Nat
         /\ \A k \in 1 .. Len(inv) : inv[k].iter \in Nat /\ inv[k].iter < Cardinality(Iterations(inv))
<1> DEFINE S == {0} \cup {inv[k].iter : k \in DOMAIN inv}
           N == Len(inv)
           x == Max(S)
<1>1. DOMAIN inv = 1 .. N /\ N \in Nat /\ \A k \in 1 .. N : inv[k].iter \in Nat
  <2>1. DOMAIN inv = 1 .. N /\ N \in Nat /\ \A k \in 1 .. N : inv[k] \in Executed
    OBVIOUS
  <2>2. QED
    BY <2>1 DEF Executed
<1>2. \A y \in S : y \in Nat
  BY <1>1
<1>3. \E m \in S : \A y \in S : m >= y
  <2>1. CASE N = 0
    BY <1>1, <2>1
  <2>2. CASE N # 0
    <3>1. N \in 1 .. N /\ inv[N].iter \in S
      BY <1>1, <2>2
    <3>2. \A k \in 1 .. N : inv[k].iter <= inv[N].iter
      BY <1>1, <3>1 DEF Orderly
    <3>3. \A y \in S : inv[N].iter >= y
      BY <1>1, <3>1, <3>2
    <3>4. QED
      BY <3>1, <3>3
  <2>3. QED
    BY <2>1, <2>2
<1>4. Iterations(inv) = 0 .. x
  BY DEF Iterations
<1>5. \A k \in 1 .. N : inv[k].iter \in S
  BY <1>1
<1> HIDE DEF S
<1>6. x \in S /\ \A y \in S : x >= y
  BY <1>3 DEF Max
<1> HIDE DEF x
<1>7. x \in Nat
  BY <1>2, <1>6
<1>8. Cardinality(0 .. x) = x + 1
  BY <1>7, FS_Interval
<1>9. \A k \in 1 .. N : inv[k].iter <= x
  BY <1>5, <1>6
<1>10. QED
  BY <1>1, <1>4, <1>7, <1>8, <1>9

(***************************************************************************)
(* How many of K come before the iteration j, and where those of the       *)
(* iteration itself come.                                                  *)
(***************************************************************************)
Earlier(inv, K, j) == {k \in K : inv[k].iter < j}
During(inv, K, j) == {k \in K : inv[k].iter = j}

LEMMA EarlierFacts ==
  ASSUME NEW inv \in Seq(Executed), Orderly(inv), NEW K \in SUBSET (1 .. Len(inv)), NEW j \in Nat
  PROVE  /\ Cardinality(Earlier(inv, K, j)) \in Nat /\ Cardinality(During(inv, K, j)) \in Nat
         /\ Cardinality(Earlier(inv, K, j + 1))
              = Cardinality(Earlier(inv, K, j)) + Cardinality(During(inv, K, j))
         /\ \A k \in Earlier(inv, K, j) : CountUntil(K, k) <= Cardinality(Earlier(inv, K, j))
         /\ \A k \in During(inv, K, j) : Cardinality(Earlier(inv, K, j)) < CountUntil(K, k)
         /\ \A k \in K : CountUntil(K, k) \in Nat
<1> DEFINE A == Earlier(inv, K, j)
           B == During(inv, K, j)
           N == Len(inv)
<1>1. DOMAIN inv = 1 .. N /\ N \in Nat /\ \A k \in 1 .. N : inv[k].iter \in Nat
  <2>1. DOMAIN inv = 1 .. N /\ N \in Nat /\ \A k \in 1 .. N : inv[k] \in Executed
    OBVIOUS
  <2>2. QED
    BY <2>1 DEF Executed
<1>2. \A k \in K : k \in 1 .. N /\ k \in Nat /\ inv[k].iter \in Nat
  BY <1>1
<1>3. \A k, l \in K : k <= l => inv[k].iter <= inv[l].iter
  BY <1>1, <1>2 DEF Orderly
<1>4. IsFiniteSet(K)
  <2>1. IsFiniteSet(1 .. N)
    BY <1>1, FS_Interval
  <2>2. QED
    BY <2>1, FS_Subset
<1>5. \A T \in SUBSET K : IsFiniteSet(T) /\ Cardinality(T) \in Nat
  BY <1>4, FS_Subset, FS_CardinalityType
<1>6. A \in SUBSET K /\ B \in SUBSET K /\ A \cap B = {} /\ Earlier(inv, K, j + 1) = A \cup B
  <2>1. A \in SUBSET K /\ B \in SUBSET K /\ A \cap B = {}
    BY <1>2 DEF Earlier, During
  <2>2. \A k \in K : inv[k].iter < j + 1 <=> inv[k].iter < j \/ inv[k].iter = j
    BY <1>2
  <2>3. Earlier(inv, K, j + 1) = A \cup B
    BY <2>2 DEF Earlier, During
  <2>4. QED
    BY <2>1, <2>3
<1>7. \A n : Until(K, n) \in SUBSET K /\ CountUntil(K, n) = Cardinality(Until(K, n))
  BY DEF Until, CountUntil
<1>8. ASSUME NEW k \in A PROVE CountUntil(K, k) <= Cardinality(A)
  <2>1. k \in K /\ inv[k].iter < j
    BY <1>8 DEF Earlier
  <2>2. \A l \in Until(K, k) : l \in A
    <3>1. SUFFICES ASSUME NEW l \in Until(K, k) PROVE l \in A
      OBVIOUS
    <3>2. l \in K /\ l <= k
      BY <1>2, <2>1 DEF Until
    <3>3. inv[l].iter <= inv[k].iter
      BY <1>3, <2>1, <3>2
    <3>4. inv[l].iter < j
      BY <1>2, <2>1, <3>2, <3>3
    <3>5. QED
      BY <3>2, <3>4 DEF Earlier
  <2>3. Until(K, k) \in SUBSET A
    BY <2>2
  <2>4. QED
    BY <1>5, <1>6, <1>7, <2>3, FS_Subset
<1>9. ASSUME NEW k \in B PROVE Cardinality(A) < CountUntil(K, k)
  <2>1. k \in K /\ inv[k].iter = j
    BY <1>9 DEF During
  <2>2. \A l \in A : l \in Until(K, k)
    <3>1. SUFFICES ASSUME NEW l \in A PROVE l \in Until(K, k)
      OBVIOUS
    <3>2. l \in K /\ inv[l].iter < j
      BY DEF Earlier
    <3>3. ~ (k <= l)
      BY <1>2, <1>3, <2>1, <3>2
    <3>4. l \in 1 .. k
      BY <1>2, <2>1, <3>2, <3>3
    <3>5. QED
      BY <3>2, <3>4 DEF Until
  <2>3. k \in Until(K, k) /\ k \notin A
    BY <1>2, <2>1 DEF Until, Earlier
  <2>4. A \cup {k} \in SUBSET Until(K, k)
    BY <2>2, <2>3
  <2>5. IsFiniteSet(A) /\ Cardinality(A) \in Nat /\ IsFiniteSet(Until(K, k))
        /\ Cardinality(Until(K, k)) \in Nat
    BY <1>5, <1>6, <1>7
  <2>6. Cardinality(A \cup {k}) = Cardinality(A) + 1
    BY <2>3, <2>5, FS_AddElement
  <2>7. Cardinality(A \cup {k}) <= Cardinality(Until(K, k))
    BY <2>4, <2>5, FS_Subset
  <2>8. QED
    BY <1>7, <2>5, <2>6, <2>7
<1>10. Cardinality(A \cup B) = Cardinality(A) + Cardinality(B)
  <2>1. IsFiniteSet(A) /\ IsFiniteSet(B) /\ Cardinality(A) \in Nat /\ Cardinality(B) \in Nat
    BY <1>5, <1>6
  <2> HIDE DEF A, B
  <2>2. Cardinality(A \cup B) = Cardinality(A) + Cardinality(B) - Cardinality(A \cap B)
    BY <2>1, FS_Union
  <2>3. QED
    <3>1. Cardinality(A \cap B) = 0
      BY <1>6, FS_EmptySet
    <3>2. QED
      BY <2>1, <2>2, <3>1
<1>11. QED
  BY <1>5, <1>6, <1>7, <1>8, <1>9, <1>10

\* The tags' numbers of instances, and that they are tags.
LEMMA LoopTagsFacts ==
  ASSUME NEW inv \in Seq(Executed), Orderly(inv), NEW i, NEW V, V = Nat \cup {i}
  PROVE  LET tags == LoopTags(inv, i)
             N == Cardinality(Iterations(inv))
         IN /\ tags \in Seq(Tag(V)) /\ Len(tags) = N /\ N \in Nat
            /\ InLoop(inv, i) \in SUBSET (1 .. Len(inv))
            /\ \A j \in 1 .. N :
                 /\ tags[j].iter = j - 1 /\ tags[j].id = i
                 /\ tags[j].n = Cardinality(During(inv, InLoop(inv, i), j - 1))
<1> DEFINE tags == LoopTags(inv, i)
           N == Cardinality(Iterations(inv))
           K == InLoop(inv, i)
           n(j) == Cardinality(During(inv, K, j - 1))
           r(j) == [iter |-> j - 1, id |-> i, n |-> n(j)]
<1>1. N \in Nat
  BY IterationsFacts
<1>2. K \in SUBSET (1 .. Len(inv))
  BY DEF InLoop
<1>3. tags = [j \in 1 .. N |-> r(j)]
  BY Zenon DEF LoopTags, During
<1> HIDE DEF tags, N, K
<1>4. ASSUME NEW j \in 1 .. N PROVE r(j) \in Tag(V)
  <2>1. j - 1 \in Nat
    BY <1>1
  <2>2. n(j) \in Nat
    BY <1>2, <2>1, EarlierFacts
  <2> HIDE DEF n
  <2>3. QED
    BY <2>1, <2>2 DEF Tag
<1>5. \A j \in 1 .. N : r(j).iter = j - 1 /\ r(j).id = i /\ r(j).n = n(j)
  OBVIOUS
<1> HIDE DEF r, n
<1>6. tags \in [1 .. N -> Tag(V)] /\ \A j \in 1 .. N : tags[j] = r(j)
  BY <1>3, <1>4
<1>7. tags \in Seq(Tag(V)) /\ Len(tags) = N
  <2> DEFINE S == Tag(V)
  <2>1. tags \in [1 .. N -> S] /\ N \in Nat
    BY <1>1, <1>6
  <2> HIDE DEF S
  <2>2. tags \in Seq(S) /\ Len(tags) = N
    BY <2>1, IsASeq
  <2>3. QED
    BY <2>2 DEF S
<1>8. QED
  BY <1>1, <1>2, <1>5, <1>6, <1>7 DEF tags, N, K, n

LEMMA LoopTagsSpread ==
  ASSUME NEW inv \in Seq(Executed), Orderly(inv), NEW i, NEW V, V = Nat \cup {i}
  PROVE  LET tags == LoopTags(inv, i)
             K == InLoop(inv, i)
         IN /\ tags \in Seq(Tag(V)) /\ Len(Spread(tags)) = Cardinality(K)
            /\ \A k \in K : /\ Spread(tags)[CountUntil(K, k)].iter = inv[k].iter
                            /\ Spread(tags)[CountUntil(K, k)].id = i
<1> DEFINE tags == LoopTags(inv, i)
           N == Cardinality(Iterations(inv))
           K == InLoop(inv, i)
           G == TagBlocks(tags)
           E(n) == FlattenSeq(FirstOf(G, n))
           C(n) == Cardinality(Earlier(inv, K, n))
           c(k) == CountUntil(K, k)
           P(n) == /\ Len(E(n)) = C(n)
                   /\ \A k \in Earlier(inv, K, n) :
                        /\ c(k) \in 1 .. C(n)
                        /\ E(n)[c(k)].iter = inv[k].iter /\ E(n)[c(k)].id = i
           T == {n \in Nat : n <= N => P(n)}
<1>1. /\ tags \in Seq(Tag(V)) /\ Len(tags) = N /\ N \in Nat
      /\ K \in SUBSET (1 .. Len(inv))
      /\ \A j \in 1 .. N : /\ tags[j].iter = j - 1 /\ tags[j].id = i
                           /\ tags[j].n = Cardinality(During(inv, K, j - 1))
  BY LoopTagsFacts
<1> HIDE DEF tags, N, K
<1>2. /\ G \in Seq(Seq(Tag(V))) /\ Len(G) = N /\ Spread(tags) = FlattenSeq(G)
      /\ \A k \in 1 .. N : G[k] = Repeated(tags[k], tags[k].n)
  BY <1>1, TagBlocksFacts DEF Spread
<1> HIDE DEF G
<1>3. \A k \in 1 .. Len(inv) : inv[k].iter \in Nat /\ inv[k].iter < N
  BY IterationsFacts DEF N
<1>4. Earlier(inv, K, 0) = {} /\ Earlier(inv, K, N) = K /\ \A k \in K : inv[k].iter \in Nat
  <2>1. \A k \in K : k \in 1 .. Len(inv)
    BY <1>1
  <2>2. \A k \in K : inv[k].iter \in Nat /\ inv[k].iter < N
    BY <1>3, <2>1
  <2>3. Earlier(inv, K, 0) = {}
    BY <2>2 DEF Earlier
  <2>4. Earlier(inv, K, N) = K
    BY <2>2 DEF Earlier
  <2>5. QED
    BY <2>2, <2>3, <2>4
<1>5. \A n \in Nat :
        /\ C(n) \in Nat /\ C(n + 1) = C(n) + Cardinality(During(inv, K, n))
        /\ Cardinality(During(inv, K, n)) \in Nat
        /\ \A k \in Earlier(inv, K, n) : c(k) <= C(n)
        /\ \A k \in During(inv, K, n) : C(n) < c(k)
        /\ \A k \in K : c(k) \in Nat
  BY <1>1, EarlierFacts
<1> HIDE DEF C, c
<1>6. P(0)
  <2>1. E(0) = <<>>
    BY <1>2, FirstOfFacts, FlattenEmpty
  <2> HIDE DEF E
  <2>2. C(0) = 0
    BY <1>4, FS_EmptySet DEF C
  <2>3. QED
    BY <1>4, <2>1, <2>2
<1>7. ASSUME NEW n \in Nat, n \in T PROVE n + 1 \in T
  <2> DEFINE x == E(n)
             y == E(n + 1)
             tag == tags[n + 1]
             g == G[n + 1]
             d == Cardinality(During(inv, K, n))
  <2>1. n + 1 \in Nat
    OBVIOUS
  <2>2. SUFFICES ASSUME n + 1 <= N PROVE P(n + 1)
    BY <2>1, Zenon
  <2>3. n \in 0 .. Len(G) - 1 /\ n + 1 \in 1 .. N /\ n <= N /\ (n + 1) - 1 = n
    <3>1. N \in Nat /\ Len(G) = N
      BY <1>1, <1>2
    <3>2. QED
      BY <2>2, <3>1
  <2>4. y = x \o g /\ x \in Seq(Tag(V)) /\ y \in Seq(Tag(V)) /\ g \in Seq(Tag(V))
    BY <1>2, <2>3, FlattenFirst
  <2>5. tag.iter = n /\ tag.id = i /\ tag.n = d /\ g = Repeated(tag, d) /\ tag \in Tag(V)
    <3>1. tag.iter = (n + 1) - 1 /\ tag.id = i /\ tag.n = Cardinality(During(inv, K, (n + 1) - 1))
      BY <1>1, <2>3
    <3>2. g = Repeated(tag, tag.n) /\ tag \in Tag(V)
      BY <1>1, <1>2, <2>3
    <3>3. QED
      BY <2>3, <3>1, <3>2
  <2>6. P(n)
    BY <1>7, <2>3
  <2>7. d \in Nat /\ C(n) \in Nat /\ C(n + 1) = C(n) + d
    BY <1>5
  <2> HIDE DEF E, tag, g, d
  <2>8. Len(g) = d /\ \A l \in 1 .. d : g[l] = tag
    BY <2>5, <2>7, RepeatedFacts, ZenonT(60)
  <2>9. Joined(y, x, g, C(n), d)
    BY <2>4, <2>6, <2>8, ConcatJoins
  <2>10. Len(y) = C(n + 1)
    BY <2>7, <2>9 DEF Joined
  <2>11. ASSUME NEW k \in Earlier(inv, K, n + 1)
         PROVE  c(k) \in 1 .. C(n + 1) /\ y[c(k)].iter = inv[k].iter /\ y[c(k)].id = i
    <3>1. k \in K /\ inv[k].iter \in Nat /\ inv[k].iter < n + 1
      BY <1>4 DEF Earlier
    <3>2. CASE inv[k].iter < n
      <4>1. k \in Earlier(inv, K, n)
        BY <3>1, <3>2 DEF Earlier
      <4>2. c(k) \in 1 .. C(n) /\ x[c(k)].iter = inv[k].iter /\ x[c(k)].id = i
        BY <2>6, <4>1
      <4>3. y[c(k)] = x[c(k)]
        BY <2>9, <4>2 DEF Joined
      <4>4. QED
        BY <2>7, <4>2, <4>3
    <3>3. CASE inv[k].iter = n
      <4>1. k \in During(inv, K, n)
        BY <3>1, <3>3 DEF During
      <4>2. C(n) < c(k) /\ c(k) <= C(n + 1) /\ c(k) \in Nat
        BY <1>5, <2>1, <2>11, <3>1, <4>1
      <4> DEFINE q == c(k) - C(n)
      <4>3. q \in 1 .. d /\ C(n) + q = c(k)
        BY <2>7, <4>2
      <4> HIDE DEF q
      <4>4. y[C(n) + q] = g[q] /\ g[q] = tag
        BY <2>8, <2>9, <4>3 DEF Joined
      <4>5. y[c(k)] = tag
        BY <4>3, <4>4
      <4>6. QED
        BY <2>5, <2>7, <3>3, <4>2, <4>5
    <3>4. QED
      BY <3>1, <3>2, <3>3
  <2>12. QED
    BY <2>10, <2>11
<1> HIDE DEF P
<1>8. Nat \subseteq T
  <2>1. 0 \in T
    BY <1>6
  <2> HIDE DEF T
  <2>2. QED
    BY <1>7, <2>1, SetInduction
<1>9. P(N)
  BY <1>1, <1>8
<1>10. E(N) = Spread(tags)
  <2>1. FirstOf(G, N) = G
    BY <1>2, FirstOfFacts
  <2>2. QED
    BY <1>2, <2>1
<1> HIDE DEF E
<1>11. C(N) = Cardinality(K)
  BY <1>4 DEF C
<1>12. QED
  BY <1>1, <1>4, <1>9, <1>10, <1>11 DEF P, c, tags, K

(***************************************************************************)
(* The tags of an instruction of the loop body tell of its executions.     *)
(***************************************************************************)
LEMMA LoopTagsTell ==
  ASSUME NEW inv \in Seq(Executed), Orderly(inv), NEW i \in LoopInstrs
  PROVE  TagsTell(LoopTags(inv, i), Runs(inv, i))
<1> DEFINE K == InLoop(inv, i)
           V == Nat \cup {i}
           tags == LoopTags(inv, i)
           runs == Runs(inv, i)
<1>1. DOMAIN inv = 1 .. Len(inv)
  OBVIOUS
<1>2. K = Of(inv, i) /\ \A k \in K : inv[k].call = 0 /\ inv[k].instr = i
  BY <1>1 DEF InLoop, Of, Orderly
<1>3. runs = AtPlaces(inv, K) /\ K \subseteq 1 .. Len(inv) /\ Len(runs) = Cardinality(K)
  BY <1>2, RunsFacts DEF CountOf
<1>4. /\ tags \in Seq(Tag(V)) /\ Len(Spread(tags)) = Cardinality(K)
      /\ \A k \in K : /\ Spread(tags)[CountUntil(K, k)].iter = inv[k].iter
                      /\ Spread(tags)[CountUntil(K, k)].id = i
  BY LoopTagsSpread
<1> HIDE DEF K, V, tags, runs
<1>5. /\ \A k \in K : AtPlaces(inv, K)[CountUntil(K, k)] = inv[k]
      /\ \A m \in 1 .. Cardinality(K) : \E k \in K : CountUntil(K, k) = m
  <2>1. inv \in Seq(Executed) /\ K \subseteq 1 .. Len(inv)
    BY <1>3
  <2>2. /\ AtPlaces(inv, K) \in Seq(Executed) /\ Len(AtPlaces(inv, K)) = Cardinality(K)
        /\ \A k \in K : /\ CountUntil(K, k) \in 1 .. Cardinality(K)
                        /\ AtPlaces(inv, K)[CountUntil(K, k)] = inv[k]
        /\ \A m \in 1 .. Cardinality(K) : \E k \in K : CountUntil(K, k) = m
    BY <2>1, PlacesFacts, ZenonT(60)
  <2>3. QED
    BY <2>2
<1>6. ASSUME NEW m \in 1 .. Len(runs)
      PROVE  Spread(tags)[m].iter = runs[m].iter /\ Spread(tags)[m].id = Id(runs[m])
  <2>1. PICK k \in K : CountUntil(K, k) = m
    BY <1>3, <1>5
  <2>2. runs[m] = inv[k]
    BY <1>3, <1>5, <2>1
  <2>3. Id(inv[k]) = i
    BY <1>2 DEF Id
  <2>4. QED
    BY <1>4, <2>1, <2>2, <2>3
<1>7. QED
  BY <1>3, <1>4, <1>6 DEF TagsTell, tags, runs

(***************************************************************************)
(* Sequences of blocks of the same lengths whose members are related, one  *)
(* by one, are related as a whole.                                         *)
(***************************************************************************)
LEMMA FlattenRelated ==
  ASSUME NEW S, NEW s \in Seq(Seq(S)), NEW T, NEW t \in Seq(Seq(T)), NEW R, Len(s) = Len(t),
         \A k \in 1 .. Len(s) :
           /\ Len(s[k]) = Len(t[k])
           /\ \A l \in 1 .. Len(s[k]) : <<s[k][l], t[k][l]>> \in R
  PROVE  /\ Len(FlattenSeq(s)) = Len(FlattenSeq(t))
         /\ \A m \in 1 .. Len(FlattenSeq(s)) : <<FlattenSeq(s)[m], FlattenSeq(t)[m]>> \in R
<1> DEFINE N == Len(s)
           g(n) == FlattenSeq(FirstOf(s, n))
           h(n) == FlattenSeq(FirstOf(t, n))
           P(n) == /\ Len(g(n)) = Len(h(n))
                   /\ \A m \in 1 .. Len(g(n)) : <<g(n)[m], h(n)[m]>> \in R
           I == {n \in Nat : n <= N => P(n)}
<1>1. N \in Nat /\ N = Len(t)
  BY LenProperties
<1> HIDE DEF N
<1>2. P(0)
  <2>1. g(0) = <<>> /\ h(0) = <<>>
    BY <1>1, FirstOfFacts, FlattenEmpty
  <2> HIDE DEF g, h
  <2>2. Len(g(0)) = 0 /\ Len(h(0)) = 0
    BY <2>1
  <2>3. QED
    BY <2>2
<1>3. ASSUME NEW n \in Nat, n \in I PROVE n + 1 \in I
  <2> DEFINE a == g(n)
             b == h(n)
             a1 == g(n + 1)
             b1 == h(n + 1)
             x == s[n + 1]
             y == t[n + 1]
             p == Len(a)
             q == Len(x)
  <2>1. n + 1 \in Nat
    OBVIOUS
  <2>2. SUFFICES ASSUME n + 1 <= N PROVE P(n + 1)
    BY <2>1, Zenon
  <2>3. n \in 0 .. N - 1 /\ n + 1 \in 1 .. N /\ n <= N
    BY <1>1, <2>2
  <2>4. a1 = a \o x /\ a \in Seq(S) /\ a1 \in Seq(S) /\ x \in Seq(S)
    BY <2>3, FlattenFirst DEF N
  <2>5. b1 = b \o y /\ b \in Seq(T) /\ b1 \in Seq(T) /\ y \in Seq(T)
    <3>1. n \in 0 .. Len(t) - 1
      BY <1>1, <2>3
    <3>2. QED
      BY <3>1, FlattenFirst
  <2>6. P(n)
    BY <1>3, <2>3
  <2>7. q = Len(y) /\ \A l \in 1 .. q : <<x[l], y[l]>> \in R
    BY <2>3 DEF N
  <2>8. p = Len(b) /\ \A m \in 1 .. p : <<a[m], b[m]>> \in R
    BY <2>6
  <2> HIDE DEF g, h, x, y
  <2>9. p \in Nat /\ q \in Nat
    BY <2>4, LenProperties
  <2>10. Joined(a1, a, x, p, q)
    BY <2>4, ConcatJoins
  <2>11. Joined(b1, b, y, p, q)
    <3>1. Joined(b1, b, y, Len(b), Len(y))
      BY <2>5, ConcatJoins
    <3>2. Len(b) = p /\ Len(y) = q
      BY <2>7, <2>8
    <3> HIDE DEF p, q
    <3>3. QED
      BY <3>1, <3>2
  <2> HIDE DEF a, b, a1, b1, p, q
  <2>12. Len(a1) = p + q /\ Len(b1) = p + q
    BY <2>10, <2>11 DEF Joined
  <2>13. ASSUME NEW m \in 1 .. p + q PROVE <<a1[m], b1[m]>> \in R
    <3>1. CASE m \in 1 .. p
      <4>1. a1[m] = a[m] /\ b1[m] = b[m]
        BY <2>10, <2>11, <3>1 DEF Joined
      <4>2. QED
        BY <2>8, <3>1, <4>1
    <3>2. CASE ~ (m \in 1 .. p)
      <4> DEFINE l == m - p
      <4>1. l \in 1 .. q /\ p + l = m
        BY <2>9, <3>2
      <4> HIDE DEF l
      <4>2. a1[p + l] = x[l] /\ b1[p + l] = y[l]
        BY <2>10, <2>11, <4>1 DEF Joined
      <4>3. QED
        BY <2>7, <4>1, <4>2
    <3>3. QED
      BY <3>1, <3>2
  <2>14. QED
    BY <2>12, <2>13 DEF a1, b1
<1> HIDE DEF P
<1>4. Nat \subseteq I
  <2>1. 0 \in I
    BY <1>2
  <2> HIDE DEF I
  <2>2. QED
    BY <1>3, <2>1, SetInduction
<1>5. P(N)
  BY <1>1, <1>4
<1>6. FirstOf(s, N) = s /\ FirstOf(t, N) = t
  <2>1. FirstOf(s, Len(s)) = s
    BY <1>1, FirstOfFacts DEF N
  <2>2. FirstOf(t, Len(t)) = t
    <3>1. Len(t) \in 0 .. Len(t)
      BY <1>1
    <3>2. QED
      BY <3>1, FirstOfFacts
  <2>3. QED
    BY <1>1, <2>1, <2>2 DEF N
<1>7. QED
  BY <1>5, <1>6 DEF P

-----------------------------------------------------------------------------
(* The cache of the calls.                                                 *)

CacheEntry(c, inv, i) ==
  [call |-> c.call, inst |-> c.inst, n |-> Cardinality(Executions(inv, i, c.call, c.inst))]

LEMMA CacheFacts ==
  ASSUME NEW inv \in Seq(Executed), NEW i
  PROVE  LET cache == CallTraceCache(inv, i)
         IN \E V : /\ cache \in Seq([call : V, inst : V, n : Nat])
                   /\ ((\A k \in DOMAIN inv : inv[k].instr = i => inv[k].call = 0) => cache = <<>>)
<1> DEFINE who(k) == [iter |-> inv[k].iter, call |-> inv[k].call, inst |-> inv[k].inst]
           D == {l \in DOMAIN inv : inv[l].instr = i /\ inv[l].call # 0}
           calls == {who(k) : k \in D}
           N == Cardinality(calls)
           pick(k) == CHOOSE c \in calls : Cardinality({d \in calls : Before(d, c)}) = k - 1
           order == [k \in 1 .. N |-> pick(k)]
           cache == CallTraceCache(inv, i)
           e(k) == CacheEntry(order[k], inv, i)
           V == {order[k].call : k \in 1 .. N} \cup {order[k].inst : k \in 1 .. N}
<1>1. DOMAIN inv = 1 .. Len(inv) /\ Len(inv) \in Nat
  OBVIOUS
<1>2. IsFiniteSet(DOMAIN inv)
  BY <1>1, FS_Interval
<1>3. cache = [k \in DOMAIN order |-> e(k)]
  BY Zenon DEF CallTraceCache, CacheEntry
<1>4. N \in Nat
  <2> DEFINE f == [k \in D |-> who(k)]
  <2>1. f \in Surjection(D, calls)
    <3> HIDE DEF who
    <3>1. f \in [D -> calls]
      OBVIOUS
    <3>2. \A y \in calls : \E x \in D : f[x] = y
      OBVIOUS
    <3>3. QED
      BY <3>1, <3>2 DEF Surjection
  <2>2. IsFiniteSet(D)
    <3>1. D \in SUBSET (DOMAIN inv)
      OBVIOUS
    <3> HIDE DEF D
    <3>2. QED
      BY <1>2, <3>1, FS_Subset
  <2> HIDE DEF f, D, calls
  <2>3. IsFiniteSet(calls)
    BY <2>1, <2>2, FS_Surjection
  <2>4. QED
    BY <2>3, FS_CardinalityType
<1>5. DOMAIN order = 1 .. N
  OBVIOUS
<1>6. (\A k \in DOMAIN inv : inv[k].instr = i => inv[k].call = 0) => N = 0
  <2>1. SUFFICES ASSUME \A k \in DOMAIN inv : inv[k].instr = i => inv[k].call = 0
                 PROVE  N = 0
    OBVIOUS
  <2>2. D = {}
    BY <2>1
  <2> HIDE DEF D
  <2>3. calls = {}
    BY <2>2
  <2>4. QED
    BY <2>3, FS_EmptySet
<1> HIDE DEF cache, order, N
<1>7. ASSUME NEW k \in 1 .. N PROVE e(k) \in [call : V, inst : V, n : Nat]
  <2> DEFINE X == Executions(inv, i, order[k].call, order[k].inst)
  <2>1. X \in SUBSET (DOMAIN inv)
    BY DEF Executions
  <2> HIDE DEF X
  <2>2. Cardinality(X) \in Nat
    BY <1>2, <2>1, FS_Subset, FS_CardinalityType
  <2>3. order[k].call \in V /\ order[k].inst \in V
    OBVIOUS
  <2> HIDE DEF V
  <2>4. e(k) = [call |-> order[k].call, inst |-> order[k].inst, n |-> Cardinality(X)]
    BY Zenon DEF CacheEntry, X
  <2>5. QED
    BY <2>2, <2>3, <2>4
<1> DEFINE S == [call : V, inst : V, n : Nat]
<1>8. \A k \in 1 .. N : e(k) \in S
  BY <1>7
<1> HIDE DEF e, S
<1>9. cache \in [1 .. N -> S]
  BY <1>3, <1>5, <1>8
<1>10. cache \in Seq(S) /\ (N = 0 => cache = <<>>)
  BY <1>4, <1>9, IsASeq
<1>11. QED
  BY <1>6, <1>10 DEF cache, S

LEMMA RunsMembers ==
  ASSUME NEW S, NEW s \in Seq(S), NEW i, NEW m \in 1 .. Len(Runs(s, i))
  PROVE  \E k \in 1 .. Len(s) : s[k].instr = i /\ Runs(s, i)[m] = s[k]
<1> DEFINE K == Of(s, i)
           r == Runs(s, i)
<1>1. r = AtPlaces(s, K) /\ K \subseteq 1 .. Len(s) /\ Len(r) = Cardinality(K)
  BY RunsFacts DEF CountOf
<1> HIDE DEF K, r
<1>2. /\ AtPlaces(s, K) \in Seq(S) /\ Len(AtPlaces(s, K)) = Cardinality(K)
      /\ \A k \in K : /\ CountUntil(K, k) \in 1 .. Cardinality(K)
                      /\ AtPlaces(s, K)[CountUntil(K, k)] = s[k]
      /\ \A j \in 1 .. Cardinality(K) : \E k \in K : CountUntil(K, k) = j
  BY <1>1, PlacesFacts
<1>3. m \in 1 .. Cardinality(K)
  BY <1>1 DEF r
<1>4. PICK k \in K : CountUntil(K, k) = m
  BY <1>2, <1>3
<1>5. r[m] = s[k]
  BY <1>1, <1>2, <1>4
<1>6. QED
  BY <1>1, <1>5 DEF K, Of, r

LEMMA IterationNumberFacts ==
  ASSUME NEW inv \in Seq(Executed), Orderly(inv), NEW k \in 1 .. Len(inv), inv[k].call # 0
  PROVE  IterationNumber(inv, inv[k].call, inv[k].inst) = inv[k].iter
<1> DEFINE l == CHOOSE l \in DOMAIN inv : inv[l].call = inv[k].call /\ inv[l].inst = inv[k].inst
<1>1. k \in DOMAIN inv
  OBVIOUS
<1>2. l \in DOMAIN inv /\ inv[l].call = inv[k].call /\ inv[l].inst = inv[k].inst
  BY <1>1, Zenon
<1>3. IterationNumber(inv, inv[k].call, inv[k].inst) = inv[l].iter
  BY Zenon DEF IterationNumber
<1> HIDE DEF l
<1>4. inv[l].iter = inv[k].iter
  BY <1>1, <1>2 DEF Orderly
<1>5. QED
  BY <1>3, <1>4

(***************************************************************************)
(* If the calls come in the order of the cache, the tags of an instruction *)
(* of a callee tell of its executions.                                     *)
(***************************************************************************)
LEMMA CallTagsTell ==
  ASSUME input \in Inputs, CallsInCacheOrder, NEW n \in 1 .. Len(Program), NEW i \in SubInstrs
  PROVE  TagsTell(CallTags(Program[n], CallTraceCache(Program[FirstAlike(n)], i)),
                  Runs(Program[n], i))
<1> DEFINE inv == Program[n]
           first == Program[FirstAlike(n)]
           cache == CallTraceCache(first, i)
           tags == CallTags(inv, cache)
           runs == Runs(inv, i)
           N == Len(cache)
           who(k) == <<cache[k].call, cache[k].inst>>
           tag(k) == [iter |-> IterationNumber(inv, cache[k].call, cache[k].inst),
                      id |-> cache[k].call, n |-> cache[k].n]
           V == {tag(k).iter : k \in 1 .. N} \cup {tag(k).id : k \in 1 .. N}
           s == [k \in DOMAIN cache |-> Repeated(who(k), cache[k].n)]
           t == TagBlocks(tags)
<1>1. /\ inv \in Seq(Executed) /\ DOMAIN inv = 1 .. Len(inv) /\ Orderly(inv)
      /\ \A k \in 1 .. Len(inv) : inv[k].iter \in Nat
  BY InvocationFacts
<1>2. first \in Seq(Executed)
  <2>1. n \in Nat \ {0} /\ Len(Program) \in Nat
    BY ThroughEnds
  <2>2. FirstAlike(n) \in 1 .. n
    BY <2>1, FirstAlikeFacts
  <2>3. FirstAlike(n) \in 1 .. Len(Program)
    BY <2>1, <2>2
  <2>4. QED
    BY <2>3, InvocationFacts
<1>3. [k \in DOMAIN runs |-> <<runs[k].call, runs[k].inst>>] = FlattenSeq(s)
  <2>1. n \in DOMAIN Program
    <3>1. Program \in Seq(Seq(Executed))
      BY InputFacts DEF Program
    <3>2. QED
      BY <3>1
  <2>2. QED
    BY <2>1, Zenon DEF CallsInCacheOrder, Repeated
<1> HIDE DEF inv, first, cache
<1>4. PICK W : cache \in Seq([call : W, inst : W, n : Nat])
  BY <1>2, CacheFacts DEF cache
<1>5. /\ DOMAIN cache = 1 .. N /\ N \in Nat
      /\ \A k \in 1 .. N : cache[k].call \in W /\ cache[k].inst \in W /\ cache[k].n \in Nat
  <2>1. DOMAIN cache = 1 .. N /\ N \in Nat
        /\ \A k \in 1 .. N : cache[k] \in [call : W, inst : W, n : Nat]
    <3> DEFINE S == [call : W, inst : W, n : Nat]
    <3>1. cache \in Seq(S)
      BY <1>4
    <3> HIDE DEF S
    <3>2. DOMAIN cache = 1 .. N /\ N \in Nat /\ \A k \in 1 .. N : cache[k] \in S
      BY <3>1
    <3>3. QED
      BY <3>2 DEF S
  <2>2. QED
    BY <2>1
<1>6. tags = [k \in 1 .. N |-> tag(k)]
  BY <1>5, Zenon DEF CallTags
<1>7. s = [k \in 1 .. N |-> Repeated(who(k), cache[k].n)]
  BY <1>5, Zenon
<1> HIDE DEF tags, s, N
<1>8. ASSUME NEW k \in 1 .. N PROVE tag(k) \in Tag(V)
  <2>1. tag(k).iter \in V /\ tag(k).id \in V
    OBVIOUS
  <2>2. tag(k).n \in Nat /\ tag(k) = [iter |-> tag(k).iter, id |-> tag(k).id, n |-> tag(k).n]
    BY <1>5
  <2> HIDE DEF tag, V
  <2>3. QED
    BY <2>1, <2>2 DEF Tag
<1>9. tags \in Seq(Tag(V)) /\ Len(tags) = N /\ \A k \in 1 .. N : tags[k] = tag(k)
  <2> DEFINE S == Tag(V)
  <2>1. \A k \in 1 .. N : tag(k) \in S
    BY <1>8
  <2> HIDE DEF S, V, tag
  <2>2. tags \in [1 .. N -> S] /\ \A k \in 1 .. N : tags[k] = tag(k)
    BY <1>6, <2>1
  <2>3. tags \in Seq(S) /\ Len(tags) = N
    BY <1>5, <2>2, IsASeq
  <2>4. QED
    BY <2>2, <2>3 DEF S
<1>10. /\ t \in Seq(Seq(Tag(V))) /\ Len(t) = N /\ Spread(tags) = FlattenSeq(t)
       /\ \A k \in 1 .. N : t[k] = Repeated(tag(k), cache[k].n)
  <2>1. \A k \in 1 .. N : tags[k].n = cache[k].n
    BY <1>9
  <2> HIDE DEF V, tag
  <2>2. /\ t \in Seq(Seq(Tag(V))) /\ Len(t) = Len(tags)
        /\ \A k \in 1 .. Len(tags) : t[k] = Repeated(tags[k], tags[k].n)
    BY <1>9, TagBlocksFacts
  <2>3. QED
    BY <1>9, <2>1, <2>2 DEF Spread
<1> HIDE DEF t
<1>11. ASSUME NEW k \in 1 .. N
       PROVE  /\ Repeated(who(k), cache[k].n) \in Seq(W \X W)
              /\ Len(Repeated(who(k), cache[k].n)) = cache[k].n
              /\ \A l \in 1 .. cache[k].n : Repeated(who(k), cache[k].n)[l] = who(k)
  <2> DEFINE S == W \X W
             x == who(k)
             j == cache[k].n
  <2>1. x \in S /\ j \in Nat
    BY <1>5
  <2> HIDE DEF S, x, j
  <2>2. /\ Repeated(x, j) \in Seq(S)
        /\ Len(Repeated(x, j)) = j /\ \A l \in 1 .. j : Repeated(x, j)[l] = x
    BY <2>1, RepeatedFacts
  <2>3. QED
    BY <2>2, Zenon DEF S, x, j
<1>12. ASSUME NEW k \in 1 .. N
       PROVE  /\ Len(Repeated(tag(k), cache[k].n)) = cache[k].n
              /\ \A l \in 1 .. cache[k].n : Repeated(tag(k), cache[k].n)[l] = tag(k)
  <2> DEFINE S == Tag(V)
             x == tag(k)
             j == cache[k].n
  <2>1. x \in S /\ j \in Nat
    BY <1>5, <1>8
  <2> HIDE DEF S, x, j
  <2>2. Len(Repeated(x, j)) = j /\ \A l \in 1 .. j : Repeated(x, j)[l] = x
    BY <2>1, RepeatedFacts
  <2>3. QED
    BY <2>2 DEF x, j
<1>13. s \in Seq(Seq(W \X W)) /\ Len(s) = N
       /\ \A k \in 1 .. N : s[k] = Repeated(who(k), cache[k].n)
  <2> DEFINE S == Seq(W \X W)
             r(k) == Repeated(who(k), cache[k].n)
  <2>1. \A k \in 1 .. N : r(k) \in S
    BY <1>11
  <2> HIDE DEF S, r
  <2>2. s = [k \in 1 .. N |-> r(k)]
    BY <1>7, Zenon DEF r
  <2>3. s \in [1 .. N -> S] /\ \A k \in 1 .. N : s[k] = r(k)
    BY <2>1, <2>2
  <2>4. s \in Seq(S) /\ Len(s) = N
    BY <1>5, <2>3, IsASeq
  <2>5. QED
    BY <2>3, <2>4 DEF S, r
<1> DEFINE R == {x \in (W \X W) \X Tag(V) : /\ x[2].iter = IterationNumber(inv, x[1][1], x[1][2])
                                           /\ x[2].id = x[1][1]}
<1>14. \A k \in 1 .. N : <<who(k), tag(k)>> \in R
  <2>1. SUFFICES ASSUME NEW k \in 1 .. N PROVE <<who(k), tag(k)>> \in R
    OBVIOUS
  <2>2. who(k) \in W \X W /\ tag(k) \in Tag(V)
    BY <1>5, <1>8
  <2>3. tag(k).iter = IterationNumber(inv, who(k)[1], who(k)[2]) /\ tag(k).id = who(k)[1]
    OBVIOUS
  <2> HIDE DEF who, tag, V
  <2>4. QED
    BY <2>2, <2>3
<1> HIDE DEF who, tag, R, V
<1>15. \A k \in 1 .. N : /\ Len(s[k]) = Len(t[k])
                         /\ \A l \in 1 .. Len(s[k]) : <<s[k][l], t[k][l]>> \in R
  <2>1. SUFFICES ASSUME NEW k \in 1 .. N
                 PROVE  /\ Len(s[k]) = Len(t[k])
                        /\ \A l \in 1 .. Len(s[k]) : <<s[k][l], t[k][l]>> \in R
    OBVIOUS
  <2>2. Len(s[k]) = cache[k].n /\ \A l \in 1 .. cache[k].n : s[k][l] = who(k)
    BY <1>11, <1>13
  <2>3. Len(t[k]) = cache[k].n /\ \A l \in 1 .. cache[k].n : t[k][l] = tag(k)
    BY <1>10, <1>12
  <2>4. QED
    BY <1>14, <2>2, <2>3
<1>16. /\ Len(FlattenSeq(s)) = Len(FlattenSeq(t))
       /\ \A m \in 1 .. Len(FlattenSeq(s)) : <<FlattenSeq(s)[m], FlattenSeq(t)[m]>> \in R
  <2> DEFINE A == W \X W
             B == Tag(V)
  <2>1. s \in Seq(Seq(A)) /\ t \in Seq(Seq(B)) /\ Len(s) = Len(t)
        /\ \A k \in 1 .. Len(s) : /\ Len(s[k]) = Len(t[k])
                                 /\ \A l \in 1 .. Len(s[k]) : <<s[k][l], t[k][l]>> \in R
    BY <1>10, <1>13, <1>15
  <2> HIDE DEF A, B
  <2>2. QED
    BY <2>1, FlattenRelated
<1>17. runs \in Seq(Executed) /\ DOMAIN runs = 1 .. Len(runs) /\ Len(runs) \in Nat
  <2>1. runs \in Seq(Executed)
    BY <1>1, RunsFacts
  <2> HIDE DEF runs
  <2>2. QED
    BY <2>1
<1> DEFINE calls == FlattenSeq(s)
<1>18. calls = [k \in 1 .. Len(runs) |-> <<runs[k].call, runs[k].inst>>]
  BY <1>3, <1>17
<1>19. calls \in Seq(W \X W)
  BY <1>13, FlattenType
<1> HIDE DEF calls
<1>20. Len(calls) = Len(runs)
  <2> HIDE DEF runs
  <2>1. DOMAIN calls = 1 .. Len(runs)
    BY <1>18
  <2>2. DOMAIN calls = 1 .. Len(calls) /\ Len(calls) \in Nat
    BY <1>19
  <2>3. QED
    BY <1>17, <2>1, <2>2
<1>21. ASSUME NEW m \in 1 .. Len(runs)
       PROVE  /\ Spread(tags)[m].iter = runs[m].iter /\ Spread(tags)[m].id = Id(runs[m])
  <2> DEFINE x == Spread(tags)[m]
             c == calls[m]
  <2>1. <<c, x>> \in R
    BY <1>10, <1>16, <1>20 DEF calls
  <2>2. c = <<runs[m].call, runs[m].inst>>
    BY <1>18
  <2> HIDE DEF x, c
  <2>3. x.iter = IterationNumber(inv, c[1], c[2]) /\ x.id = c[1]
    BY <2>1 DEF R
  <2>4. PICK k \in 1 .. Len(inv) : inv[k].instr = i /\ runs[m] = inv[k]
    BY <1>1, RunsMembers
  <2>5. inv[k].call # 0
    <3>1. i \notin LoopInstrs
      BY InstrsAssumption
    <3>2. QED
      BY <1>1, <2>4, <3>1 DEF Orderly
  <2>6. IterationNumber(inv, inv[k].call, inv[k].inst) = inv[k].iter
    BY <1>1, <2>5, IterationNumberFacts
  <2>7. Id(runs[m]) = inv[k].call
    BY <2>4, <2>5 DEF Id
  <2>8. c[1] = inv[k].call /\ c[2] = inv[k].inst
    BY <2>2, <2>4
  <2>9. QED
    BY <2>3, <2>4, <2>6, <2>7, <2>8 DEF x
<1>22. Len(Spread(tags)) = Len(runs)
  BY <1>10, <1>16, <1>20 DEF calls
<1>23. TagsTell(tags, runs)
  BY <1>9, <1>21, <1>22 DEF TagsTell
<1>24. QED
  BY <1>23 DEF tags, runs, inv, cache, first

(***************************************************************************)
(* The tags that getInvocationSliceWithIterTags takes for an instruction   *)
(* tell of its executions in the invocation at hand.                       *)
(***************************************************************************)
LEMMA TagsTellAll ==
  ASSUME input \in Inputs, CallsInCacheOrder, invocNum \in 1 .. Len(Program), NEW i \in Instrs
  PROVE  TagsTell(Tags(i), Runs(Invocation, i))
<1> DEFINE inv == Program[invocNum]
           cache == CallTraceCache(Program[FirstAlike(invocNum)], i)
<1>1. inv \in Seq(Executed) /\ Orderly(inv) /\ DOMAIN inv = 1 .. Len(inv)
  BY InvocationFacts
<1>2. Invocation = inv /\ Cache(i) = cache
  BY Zenon DEF Invocation, Cache
<1>3. Tags(i) = IF InLoop(inv, i) # {} THEN LoopTags(inv, i) ELSE CallTags(inv, cache)
  BY <1>2, Zenon DEF Tags
<1>4. CASE InLoop(inv, i) # {}
  <2>1. i \in LoopInstrs
    BY <1>1, <1>4 DEF InLoop, Orderly
  <2>2. TagsTell(LoopTags(inv, i), Runs(inv, i))
    BY <1>1, <2>1, LoopTagsTell
  <2>3. QED
    BY <1>2, <1>3, <1>4, <2>2, Zenon
<1>5. CASE InLoop(inv, i) = {} /\ i \in SubInstrs
  <2>1. TagsTell(CallTags(inv, cache), Runs(inv, i))
    BY <1>5, CallTagsTell
  <2>2. QED
    BY <1>2, <1>3, <1>5, <2>1, Zenon
<1>6. CASE InLoop(inv, i) = {} /\ i \in LoopInstrs
  <2> DEFINE first == Program[FirstAlike(invocNum)]
  <2>1. first \in Seq(Executed) /\ Orderly(first) /\ DOMAIN first = 1 .. Len(first)
    <3>1. invocNum \in Nat \ {0} /\ Len(Program) \in Nat
      BY ThroughEnds
    <3>2. FirstAlike(invocNum) \in 1 .. Len(Program)
      BY <3>1, FirstAlikeFacts
    <3>3. QED
      BY <3>2, InvocationFacts
  <2>2. cache = <<>>
    <3>1. \A k \in DOMAIN first : first[k].instr = i => first[k].call = 0
      BY <1>6, <2>1 DEF Orderly
    <3> HIDE DEF first
    <3>2. CallTraceCache(first, i) = <<>>
      BY <2>1, <3>1, CacheFacts
    <3>3. QED
      BY <3>2 DEF first
  <2>3. CallTags(inv, cache) = <<>>
    <3> HIDE DEF cache, inv
    <3>1. DOMAIN cache = {}
      BY <2>2
    <3>2. CallTags(inv, cache) = [k \in DOMAIN cache |->
            [iter |-> IterationNumber(inv, cache[k].call, cache[k].inst),
             id |-> cache[k].call, n |-> cache[k].n]]
      BY Zenon DEF CallTags
    <3>3. QED
      BY <3>1, <3>2
  <2>4. Len(Runs(inv, i)) = 0
    <3>1. Of(inv, i) = {}
      BY <1>1, <1>6 DEF Of, InLoop, Orderly
    <3> HIDE DEF inv
    <3>2. Len(Runs(inv, i)) = CountOf(inv, i)
      BY <1>1, RunsFacts
    <3>3. QED
      BY <3>1, <3>2, FS_EmptySet DEF CountOf
  <2>5. TagsTell(<<>>, Runs(inv, i))
    <3>1. <<>> \in Seq(Tag({})) /\ Len(<<>>) = 0
      OBVIOUS
    <3>2. TagBlocks(<<>>) \in Seq(Seq(Tag({}))) /\ Len(TagBlocks(<<>>)) = 0
      BY <3>1, TagBlocksFacts
    <3>3. TagBlocks(<<>>) = <<>>
      <4> DEFINE S == Seq(Tag({}))
                 x == TagBlocks(<<>>)
      <4>1. x \in Seq(S) /\ Len(x) = 0
        BY <3>2
      <4> HIDE DEF S, x
      <4>2. x = <<>>
        BY <4>1
      <4>3. QED
        BY <4>2 DEF x
    <3>4. Spread(<<>>) = <<>>
      BY <3>3, FlattenEmpty, Zenon DEF Spread
    <3> HIDE DEF inv
    <3>5. QED
      BY <2>4, <3>1, <3>4 DEF TagsTell
  <2>6. QED
    BY <1>2, <1>3, <1>6, <2>3, <2>5, Zenon
<1>7. QED
  BY <1>4, <1>5, <1>6 DEF Instrs

(***************************************************************************)
(* An invocation is found to execute an instruction as often as it does    *)
(* (getNumInstancesInInvocation, which takes those of a callee from the    *)
(* first invocation that made equal calls).                                *)
(***************************************************************************)
LEMMA NumInstancesExact ==
  ASSUME input \in Inputs, NEW n \in 1 .. Len(Program), NEW i \in Instrs
  PROVE  NumInstancesInInvocation(n, i) = CountOf(Program[n], i)
<1>1. n \in Nat \ {0} /\ Len(Program) \in Nat
  BY ThroughEnds
<1>2. /\ Program[n] \in Seq(Executed) /\ Orderly(Program[n])
      /\ DOMAIN Program[n] = 1 .. Len(Program[n])
  BY InvocationFacts
<1>3. CASE i \in SubInstrs
  <2>1. FirstAlike(n) \in 1 .. n /\ CallInfo(Program[FirstAlike(n)]) = CallInfo(Program[n])
    BY <1>1, FirstAlikeFacts
  <2>2. Program[FirstAlike(n)] \in Seq(Executed)
    <3>1. FirstAlike(n) \in 1 .. Len(Program)
      BY <1>1, <2>1
    <3>2. QED
      BY <3>1, InvocationFacts
  <2>3. Cardinality(InCalls(Program[FirstAlike(n)], i)) = Cardinality(InCalls(Program[n], i))
    BY <1>2, <2>1, <2>2, InfoCounts
  <2>4. i \notin LoopInstrs
    BY <1>3, InstrsAssumption
  <2>5. InCalls(Program[n], i) = Of(Program[n], i)
    BY <1>2, <2>4 DEF InCalls, Of, Orderly
  <2>6. QED
    BY <1>3, <2>3, <2>5, Zenon DEF NumInstancesInInvocation, CountOf
<1>4. CASE i \notin SubInstrs
  <2>1. i \in LoopInstrs
    BY <1>4 DEF Instrs
  <2>2. InLoop(Program[n], i) = Of(Program[n], i)
    BY <1>2, <2>1 DEF InLoop, Of, Orderly
  <2>3. QED
    BY <1>4, <2>2, Zenon DEF NumInstancesInInvocation, CountOf
<1>5. QED
  BY <1>3, <1>4

Told(runs) ==
  [k \in DOMAIN runs |-> [addr |-> runs[k].addr, len |-> runs[k].len,
                          iter |-> runs[k].iter, id |-> Id(runs[k])]]

HoldsRuns(set, runs) ==
  /\ \E V : set \in Seq(TaggedEntry(V))
  /\ Tagged(set) = Told(runs)

(***************************************************************************)
(* A stream that was read up to the invocation at hand and is read for the *)
(* instances of this invocation gives this invocation's accesses, each     *)
(* with its iteration and its instruction (getNextChunk and                *)
(* getInvocationSliceWithIterTags).                                        *)
(***************************************************************************)
LEMMA FetchedExact ==
  ASSUME input \in Inputs, CallsInCacheOrder, invocNum \in 1 .. Len(Program),
         NEW s, s[1] \in Instrs, position[s] = Counted(invocNum - 1, s[1]),
         instances[s[1]] = CountOf(Invocation, s[1]), CanFetch(s)
  PROVE  HoldsRuns(Fetched(s), Runs(Invocation, s[1]))
<1> DEFINE i == s[1]
           p == position[s]
           q == instances[i]
           log == Log(i)
           runs == Runs(Invocation, i)
           tags == Tags(i)
           set == Fetched(s)
<1>1. /\ Invocation \in Seq(Executed) /\ Len(Program) \in Nat /\ Invocation = Program[invocNum]
  BY InvocationFacts, ThroughEnds DEF Invocation
<1>2. /\ runs \in Seq(Executed) /\ Len(runs) = q /\ q \in Nat /\ DOMAIN runs = 1 .. q
  <2> HIDE DEF i
  <2>1. Runs(Invocation, i) \in Seq(Executed) /\ Len(Runs(Invocation, i)) = CountOf(Invocation, i)
        /\ CountOf(Invocation, i) \in Nat
    BY <1>1, RunsFacts
  <2>2. runs \in Seq(Executed) /\ Len(runs) = q /\ q \in Nat
    BY <2>1 DEF i
  <2> HIDE DEF runs, q
  <2>3. QED
    BY <2>2
<1>3. /\ log \in Seq(Executed) /\ Len(log) = NumRecorded(i) /\ NumRecorded(i) \in Nat
  BY LogIsPrefix
<1>4. p \in Nat /\ p + q <= Len(log)
  <2>1. invocNum - 1 \in 0 .. Len(Program)
    BY <1>1
  <2>2. Counted(invocNum - 1, i) \in Nat
    BY <2>1, CountedAtMostAll
  <2>3. p + q <= NumRecorded(i)
    BY DEF CanFetch
  <2> HIDE DEF q, log, i
  <2>4. QED
    BY <1>3, <2>2, <2>3 DEF i
<1>5. Holds(Chunk(s), log, p, p + q)
  <2>1. Holds(Patterns(log), log, 0, Len(log))
    BY <1>3, PatternsHold
  <2> DEFINE all == Patterns(log)
             N == Len(log)
             u == p + q
  <2>2. N \in Nat /\ u \in Nat /\ 0 <= p /\ p <= u /\ u <= N
    BY <1>2, <1>3, <1>4
  <2>3. Chunk(s) = Cut(all, p, u - 1)
    <3>1. Chunk(s) = Cut(all, p, p + q - 1)
      BY Zenon DEF Chunk
    <3>2. p + q - 1 = u - 1
      BY <1>2, <1>4
    <3>3. QED
      BY <3>1, <3>2, Zenon
  <2> HIDE DEF all, N, u, p, log
  <2>4. Holds(Cut(all, p, u - 1), log, p, u)
    <3>1. 0 \in Nat /\ p \in Nat /\ Holds(all, log, 0, N)
      BY <1>4, <2>1 DEF all, N
    <3>2. QED
      BY <2>2, <3>1, CutHolds
  <2>5. QED
    BY <2>3, <2>4 DEF u
<1>6. TagsTell(tags, runs)
  BY <1>1, TagsTellAll
<1>7. PICK V : tags \in Seq(Tag(V))
  BY <1>6 DEF TagsTell
<1>8. /\ Len(Spread(tags)) = q
      /\ \A m \in 1 .. q : /\ Spread(tags)[m].iter = runs[m].iter
                           /\ Spread(tags)[m].id = Id(runs[m])
  <2> HIDE DEF tags, runs, q
  <2>1. QED
    BY <1>2, <1>6 DEF TagsTell
<1>9. set = Sliced(Chunk(s), p, tags)
  BY Zenon DEF Fetched
<1>10. /\ set \in Seq(TaggedEntry(V))
       /\ Tagged(set) \in Seq(TaggedAccess(V)) /\ Len(Tagged(set)) = q
       /\ \A l \in 1 .. q : Tagged(set)[l] = Attributed(log[p + l], Spread(tags)[l])
  <2> DEFINE chunk == Chunk(s)
             b == p + q
  <2>1. /\ Holds(chunk, log, p, b) /\ b \in Nat /\ p \in Nat /\ p <= p
        /\ p + Len(Spread(tags)) <= b
    BY <1>2, <1>4, <1>5, <1>8
  <2> HIDE DEF chunk, b, log, tags, p
  <2>2. SlicedAs(V, Sliced(chunk, p, tags), log, p, Spread(tags))
    BY <1>7, <2>1, SlicedTagged
  <2> HIDE DEF set, q
  <2>3. QED
    BY <1>8, <1>9, <2>2 DEF chunk, SlicedAs
<1>11. \A l \in 1 .. q : log[p + l] = runs[l]
  <2>1. SUFFICES ASSUME NEW l \in 1 .. q PROVE log[p + l] = runs[l]
    OBVIOUS
  <2>2. q = CountOf(Program[invocNum], i) /\ p = Counted(invocNum - 1, i)
    BY <1>1
  <2>3. Counted(invocNum - 1, i) + l <= NumRecorded(i)
    BY <1>2, <1>3, <1>4, <2>2
  <2> HIDE DEF i, p, q
  <2>4. Log(i)[Counted(invocNum - 1, i) + l] = Runs(Program[invocNum], i)[l]
    BY <2>2, <2>3, LogHolds
  <2>5. QED
    BY <1>1, <2>2, <2>4
<1>12. \A l \in 1 .. q : Tagged(set)[l] = Told(runs)[l]
  <2>1. SUFFICES ASSUME NEW l \in 1 .. q PROVE Tagged(set)[l] = Told(runs)[l]
    OBVIOUS
  <2>2. Tagged(set)[l] = Attributed(runs[l], Spread(tags)[l])
    BY <1>10, <1>11
  <2> HIDE DEF set, runs, tags, q
  <2>3. Told(runs)[l] = [addr |-> runs[l].addr, len |-> runs[l].len,
                         iter |-> runs[l].iter, id |-> Id(runs[l])]
    BY <1>2 DEF Told
  <2>4. QED
    BY <1>8, <2>2, <2>3 DEF Attributed
<1>13. Tagged(set) = [l \in 1 .. q |-> Tagged(set)[l]]
  <2> DEFINE x == Tagged(set)
             A == TaggedAccess(V)
  <2>1. x \in Seq(A) /\ Len(x) = q
    BY <1>10
  <2> HIDE DEF x, A, q
  <2>2. x = [l \in 1 .. q |-> x[l]]
    BY <2>1
  <2>3. QED
    BY <2>2 DEF x
<1> HIDE DEF runs, set, q
<1>14. Told(runs) = [l \in 1 .. q |-> Told(runs)[l]]
  BY <1>2 DEF Told
<1>15. Tagged(set) = Told(runs)
  BY <1>12, <1>13, <1>14
<1>16. QED
  BY <1>10, <1>15, Zenon DEF set, runs, HoldsRuns

-----------------------------------------------------------------------------
(* The counts are exact, and so are the sets.                              *)

CountsExact == status \in {"next", "pairs"} =>
  \A i \in Instrs : instrCounts[i] = Counted(invocNum - 1, i)

(***************************************************************************)
(* instrCounts is the number of instances of an instruction in the         *)
(* invocations before (loop_analysis_memeff).                              *)
(***************************************************************************)
LEMMA StepCountsExact ==
  ASSUME IInv, CountsExact, [Next \/ Exited]_vars
  PROVE  CountsExact'
<1>1. /\ input \in Inputs /\ invocNum \in Nat \ {0} /\ Len(Program) \in Nat
      /\ instances \in [Instrs -> Nat] /\ instrCounts \in [Instrs -> Nat]
  BY TypeFacts, ThroughEnds DEF IInv
<1>2. Program' = Program
  BY DEF Next, Exited, vars, SkipInvocation, StartInvocation, SkipPair, AnalysePair, RunOut,
         NextPass, EndInvocation, TimeOut, Output, Program
<1>3. \A n, i : Counted(n, i)' = Counted(n, i)
  BY <1>2 DEF Counted, Through
<1>4. ASSUME instrCounts' = instrCounts, invocNum' = invocNum,
             status' \in {"next", "pairs"} => status \in {"next", "pairs"}
      PROVE  CountsExact'
  BY <1>3, <1>4 DEF CountsExact
<1>5. ASSUME invocNum <= Len(Program), NEW i
      PROVE  Counted(invocNum, i) = Counted(invocNum - 1, i) + CountOf(Program[invocNum], i)
             /\ Counted(invocNum - 1, i) \in Nat
  <2> DEFINE n == invocNum - 1
  <2>1. n \in 0 .. Len(Program) - 1 /\ n + 1 = invocNum
    BY <1>1, <1>5
  <2> HIDE DEF n
  <2>2. Counted(n + 1, i) = Counted(n, i) + CountOf(Program[n + 1], i) /\ Counted(n, i) \in Nat
    BY <1>1, <2>1, CountedGrows
  <2>3. QED
    BY <2>1, <2>2 DEF n
<1>6. CASE SkipInvocation
  <2>1. /\ status = "next" /\ invocNum <= Len(Program) /\ invocNum' = invocNum + 1
        /\ instrCounts' = instrCounts /\ Program[invocNum] = <<>>
    BY <1>6 DEF SkipInvocation, Invocation
  <2>2. ASSUME NEW i \in Instrs PROVE instrCounts[i] = Counted(invocNum, i)
    <3>1. Of(<<>>, i) = {}
      BY DEF Of
    <3>2. CountOf(Program[invocNum], i) = 0
      BY <2>1, <3>1, FS_EmptySet DEF CountOf
    <3>3. instrCounts[i] = Counted(invocNum - 1, i)
      BY <2>1 DEF CountsExact
    <3>4. QED
      BY <1>5, <2>1, <3>2, <3>3
  <2>3. invocNum' - 1 = invocNum
    BY <1>1, <2>1
  <2>4. QED
    BY <1>3, <2>1, <2>2, <2>3 DEF CountsExact
<1>7. CASE EndInvocation
  <2>1. /\ status = "pairs" /\ invocNum' = invocNum + 1
        /\ \A i \in Instrs : instrCounts'[i] = instrCounts[i] + instances[i]
    BY <1>7 DEF EndInvocation
  <2>2. invocNum <= Len(Program) /\ \A i \in Instrs : instances[i] = NumInstancesInInvocation(invocNum, i)
    BY <2>1 DEF IInv, KeepsCount
  <2>3. ASSUME NEW i \in Instrs PROVE instrCounts'[i] = Counted(invocNum, i)
    <3>1. instrCounts[i] = Counted(invocNum - 1, i)
      BY <2>1 DEF CountsExact
    <3>2. invocNum \in 1 .. Len(Program)
      BY <1>1, <2>2
    <3>3. NumInstancesInInvocation(invocNum, i) = CountOf(Program[invocNum], i)
      BY <1>1, <3>2, NumInstancesExact
    <3>4. QED
      BY <1>5, <2>1, <2>2, <3>1, <3>3
  <2>4. invocNum' - 1 = invocNum
    BY <1>1, <2>1
  <2>5. QED
    BY <1>3, <2>3, <2>4 DEF CountsExact
<1>8. CASE ~ SkipInvocation /\ ~ EndInvocation
  BY <1>4, <1>8 DEF Next, Exited, vars, StartInvocation, SkipPair, AnalysePair, RunOut,
                    NextPass, TimeOut, Output
<1>9. QED
  BY <1>6, <1>7, <1>8

(***************************************************************************)
(* No step changes what is analysed, or in an invocation what it is of.    *)
(***************************************************************************)
LEMMA SameOrder ==
  ASSUME [Next \/ Exited]_vars
  PROVE  input' = input /\ Program' = Program /\ CallsInCacheOrder' = CallsInCacheOrder
<1>1. input' = input
  BY DEF Next, Exited, vars, SkipInvocation, StartInvocation, SkipPair, AnalysePair, RunOut,
         NextPass, EndInvocation, TimeOut, Output
<1>2. Program' = Program
  BY <1>1 DEF Program
<1>3. CallsInCacheOrder' = CallsInCacheOrder
  BY <1>2 DEF CallsInCacheOrder, FirstAlike
<1>4. QED
  BY <1>1, <1>2, <1>3

(***************************************************************************)
(* A pair that is analysed fetches the sets of its own streams only, each  *)
(* from where the invocation's accesses begin (invocation_analysis_memeff).*)
(***************************************************************************)
LEMMA AnalyseFetchesExact ==
  ASSUME IInv, CountsExact, CallsInCacheOrder, AnalysePair, NEW s \in Missing(Pair, pass)
  PROVE  HoldsRuns(Fetched(s), Runs(Invocation, s[1]))
<1>1. TypedState /\ KeepsStep /\ KeepsCount
  BY DEF IInv
<1>2. pass \in Ways /\ at \in DOMAIN menu[pass] /\ status = "pairs"
  BY <1>1, AnalyseFacts DEF AnalysePair
<1>3. s \in StreamsOf(menu[pass][at], pass) /\ s \notin DOMAIN invMemoryTrace /\ CanFetch(s)
  BY DEF Missing, Pair, AnalysePair
<1>4. s[1] \in Instrs /\ ReadSoFar(s) /\ instrCounts[s[1]] \in Nat
  BY <1>1, <1>2, <1>3, NeededStream
<1>5. position[s] = Counted(invocNum - 1, s[1])
  <2>1. position[s] = instrCounts[s[1]]
    BY <1>2, <1>3, <1>4 DEF ReadSoFar, Expected
  <2>2. QED
    BY <1>2, <1>4, <2>1 DEF CountsExact
<1>6. input \in Inputs /\ invocNum \in 1 .. Len(Program)
  BY <1>1, <1>2, TypeFacts, ThroughEnds DEF KeepsCount
<1>7. instances[s[1]] = CountOf(Invocation, s[1])
  <2>1. instances[s[1]] = NumInstancesInInvocation(invocNum, s[1])
    BY <1>1, <1>2, <1>4 DEF KeepsCount
  <2>2. QED
    BY <1>4, <1>6, <2>1, NumInstancesExact DEF Invocation
<1>8. QED
  BY <1>3, <1>4, <1>5, <1>6, <1>7, FetchedExact

(***************************************************************************)
(* The sets fetched stay exact, and those that are added are.              *)
(***************************************************************************)
SetsExact ==
  status = "pairs" /\ CallsInCacheOrder =>
    \A s \in DOMAIN invMemoryTrace : HoldsRuns(invMemoryTrace[s], Runs(Invocation, s[1]))

LEMMA SetsTagged ==
  ASSUME SetsExact
  PROVE  TagsExact
BY DEF SetsExact, TagsExact, HoldsRuns, Told

LEMMA StepSetsExact ==
  ASSUME IInv, CountsExact, SetsExact, [Next \/ Exited]_vars
  PROVE  SetsExact'
<1> DEFINE Exact(set, inv, i) == HoldsRuns(set, Runs(inv, i))
<1>1. SetsExact = (status = "pairs" /\ CallsInCacheOrder =>
        \A s \in DOMAIN invMemoryTrace : Exact(invMemoryTrace[s], Invocation, s[1]))
  BY DEF SetsExact
<1>2. SetsExact' = (status' = "pairs" /\ CallsInCacheOrder' =>
        \A s \in DOMAIN invMemoryTrace' : Exact(invMemoryTrace'[s], Invocation', s[1]))
  BY DEF SetsExact
<1>3. Program' = Program /\ CallsInCacheOrder' = CallsInCacheOrder
  BY SameOrder
<1> HIDE DEF Exact
<1>4. ASSUME invMemoryTrace' = invMemoryTrace, invocNum' = invocNum,
             status' = "pairs" => status = "pairs"
      PROVE  SetsExact'
  <2>1. Invocation' = Invocation
    BY <1>3, <1>4 DEF Invocation
  <2>2. QED
    BY <1>1, <1>2, <1>3, <1>4, <2>1
<1>5. CASE AnalysePair
  <2>1. SUFFICES ASSUME CallsInCacheOrder, NEW s \in DOMAIN invMemoryTrace'
                 PROVE  Exact(invMemoryTrace'[s], Invocation', s[1])
    BY <1>2, <1>3
  <2>2. Invocation' = Invocation /\ status = "pairs"
    BY <1>3, <1>5 DEF Invocation, AnalysePair
  <2>3. /\ s \in DOMAIN invMemoryTrace \cup Missing(Pair, pass)
        /\ invMemoryTrace'[s] = IF s \in Missing(Pair, pass) THEN Fetched(s) ELSE invMemoryTrace[s]
    BY <1>5, <2>1 DEF AnalysePair
  <2>4. CASE s \in Missing(Pair, pass)
    <3>1. Exact(Fetched(s), Invocation, s[1])
      BY <1>5, <2>1, <2>4, AnalyseFetchesExact DEF Exact
    <3>2. QED
      BY <2>2, <2>3, <2>4, <3>1
  <2>5. CASE s \notin Missing(Pair, pass)
    BY <1>1, <2>1, <2>2, <2>3, <2>5
  <2>6. QED
    BY <2>4, <2>5
<1>6. CASE StartInvocation
  <2>1. DOMAIN invMemoryTrace' = {}
    BY <1>6 DEF StartInvocation
  <2>2. QED
    BY <1>2, <2>1
<1>7. CASE SkipInvocation \/ EndInvocation
  BY <1>2, <1>7 DEF SkipInvocation, EndInvocation
<1>8. CASE ~ AnalysePair /\ ~ StartInvocation /\ ~ SkipInvocation /\ ~ EndInvocation
  BY <1>4, <1>8 DEF Next, Exited, vars, SkipPair, RunOut, NextPass, TimeOut, Output
<1>9. QED
  BY <1>5, <1>6, <1>7, <1>8

LEMMA InitExact ==
  ASSUME Init
  PROVE  CountsExact /\ SetsExact
<1>1. SetsExact
  BY DEF Init, SetsExact
<1>2. ASSUME NEW i \in Instrs PROVE instrCounts[i] = Counted(invocNum - 1, i)
  <2>1. input \in Inputs /\ invocNum - 1 = 0 /\ instrCounts[i] = 0
    BY DEF Init
  <2>2. Counted(0, i) = 0
    BY <2>1, CountedGrows
  <2>3. QED
    BY <2>1, <2>2
<1>3. QED
  BY <1>1, <1>2 DEF CountsExact

(***************************************************************************)
(* Whatever the program, the number of accesses recorded, the mode and the *)
(* menu: every set that is fetched holds this invocation's accesses of its *)
(* stream, in order, each with the iteration it was made in and with the   *)
(* instruction of the loop body it belongs to, provided that the calls are *)
(* in the order of the cache (getInvocationSliceWithIterTags).             *)
(***************************************************************************)
THEOREM TagsAlwaysExact == Spec => []TagsExact
<1> DEFINE Inv == IInv /\ CountsExact /\ SetsExact
<1>1. Init => Inv
  BY InitInv, InitExact
<1>2. Inv /\ [Next \/ Exited]_vars => Inv'
  BY StepInv, StepCountsExact, StepSetsExact
<1>3. Inv => TagsExact
  BY SetsTagged
<1>4. QED
  BY <1>1, <1>2, <1>3, PTL DEF Spec

-----------------------------------------------------------------------------
(* What the sets of an invocation hold.                                    *)

Has(s, y) == \E m \in 1 .. Len(s) : s[m] = y

LEMMA HasConcat ==
  ASSUME NEW S, NEW s \in Seq(S), NEW t \in Seq(S), NEW y
  PROVE  Has(s \o t, y) <=> Has(s, y) \/ Has(t, y)
<1> DEFINE u == s \o t
           m == Len(s)
           n == Len(t)
<1>1. Joined(u, s, t, m, n) /\ m \in Nat /\ n \in Nat
  BY ConcatJoins, LenProperties
<1> HIDE DEF u, m, n
<1>2. /\ Len(u) = m + n
      /\ \A i \in 1 .. m : u[i] = s[i]
      /\ \A i \in 1 .. n : u[m + i] = t[i]
  BY <1>1 DEF Joined
<1>3. ASSUME NEW i \in 1 .. m + n, ~ (i \in 1 .. m)
      PROVE  i - m \in 1 .. n /\ m + (i - m) = i
  BY <1>1, <1>3
<1>4. \A i \in 1 .. m : i \in 1 .. m + n
  BY <1>1
<1>5. \A i \in 1 .. n : m + i \in 1 .. m + n
  BY <1>1
<1>6. Has(u, y) <=> Has(s, y) \/ Has(t, y)
  <2>1. ASSUME NEW i \in 1 .. m + n, u[i] = y PROVE Has(s, y) \/ Has(t, y)
    <3>1. CASE i \in 1 .. m
      BY <1>2, <2>1, <3>1 DEF Has, m
    <3>2. CASE ~ (i \in 1 .. m)
      <4> DEFINE j == i - m
      <4>1. j \in 1 .. n /\ m + j = i
        BY <1>3, <3>2
      <4> HIDE DEF j
      <4>2. t[j] = y
        BY <1>2, <2>1, <4>1
      <4>3. QED
        BY <4>1, <4>2 DEF Has, n
    <3>3. QED
      BY <3>1, <3>2
  <2>2. ASSUME NEW i \in 1 .. m, s[i] = y PROVE Has(u, y)
    BY <1>2, <1>4, <2>2 DEF Has
  <2>3. ASSUME NEW i \in 1 .. n, t[i] = y PROVE Has(u, y)
    <3>1. m + i \in 1 .. Len(u) /\ u[m + i] = y
      BY <1>2, <1>5, <2>3
    <3>2. QED
      BY <3>1 DEF Has
  <2>4. Has(u, y) => Has(s, y) \/ Has(t, y)
    BY <1>2, <2>1 DEF Has
  <2>5. Has(s, y) \/ Has(t, y) => Has(u, y)
    BY <2>2, <2>3 DEF Has, m, n
  <2>6. QED
    BY <2>4, <2>5
<1>7. QED
  BY <1>6 DEF u

(***************************************************************************)
(* A sequence put together of sequences has what they have.                *)
(***************************************************************************)
LEMMA FlattenHas ==
  ASSUME NEW S, NEW s \in Seq(Seq(S)), NEW y
  PROVE  Has(FlattenSeq(s), y) <=> \E k \in 1 .. Len(s) : Has(s[k], y)
<1> DEFINE N == Len(s)
           g(n) == FlattenSeq(FirstOf(s, n))
           P(n) == Has(g(n), y) <=> \E k \in 1 .. n : Has(s[k], y)
           I == {n \in Nat : n <= N => P(n)}
<1>1. N \in Nat
  BY LenProperties
<1> HIDE DEF N
<1>2. P(0)
  <2>1. g(0) = <<>>
    BY <1>1, FirstOfFacts, FlattenEmpty
  <2> HIDE DEF g
  <2>2. QED
    BY <2>1 DEF Has
<1>3. ASSUME NEW n \in Nat, n \in I PROVE n + 1 \in I
  <2>1. n + 1 \in Nat
    OBVIOUS
  <2>2. SUFFICES ASSUME n + 1 <= N PROVE P(n + 1)
    BY <2>1, Zenon
  <2>3. n \in 0 .. N - 1 /\ n <= N
    BY <1>1, <2>2
  <2>4. g(n + 1) = g(n) \o s[n + 1] /\ g(n) \in Seq(S) /\ s[n + 1] \in Seq(S)
    BY <2>3, FlattenFirst DEF N
  <2>5. P(n)
    BY <1>3, <2>3
  <2> HIDE DEF g
  <2>6. Has(g(n + 1), y) <=> Has(g(n), y) \/ Has(s[n + 1], y)
    <3> DEFINE a == g(n)
               x == s[n + 1]
    <3>1. a \in Seq(S) /\ x \in Seq(S) /\ g(n + 1) = a \o x
      BY <2>4
    <3> HIDE DEF a, x
    <3>2. Has(a \o x, y) <=> Has(a, y) \/ Has(x, y)
      BY <3>1, HasConcat
    <3>3. QED
      BY <3>1, <3>2 DEF a, x
  <2>7. \A k : k \in 1 .. n + 1 <=> k \in 1 .. n \/ k = n + 1
    OBVIOUS
  <2>8. QED
    BY <2>5, <2>6, <2>7
<1> HIDE DEF P
<1>4. Nat \subseteq I
  <2>1. 0 \in I
    BY <1>2
  <2> HIDE DEF I
  <2>2. QED
    BY <1>3, <2>1, SetInduction
<1>5. P(N)
  BY <1>1, <1>4
<1>6. FirstOf(s, N) = s
  BY <1>1, FirstOfFacts DEF N
<1>7. QED
  BY <1>5, <1>6 DEF P, N

LEMMA RunsHas ==
  ASSUME NEW S, NEW s \in Seq(S), NEW i, NEW y
  PROVE  Has(Runs(s, i), y) <=> \E k \in Of(s, i) : s[k] = y
<1> DEFINE K == Of(s, i)
           r == Runs(s, i)
<1>1. r = AtPlaces(s, K) /\ K \subseteq 1 .. Len(s) /\ Len(r) = Cardinality(K)
  BY RunsFacts DEF CountOf
<1> HIDE DEF K, r
<1>2. /\ AtPlaces(s, K) \in Seq(S) /\ Len(AtPlaces(s, K)) = Cardinality(K)
      /\ \A k \in K : /\ CountUntil(K, k) \in 1 .. Cardinality(K)
                      /\ AtPlaces(s, K)[CountUntil(K, k)] = s[k]
      /\ \A j \in 1 .. Cardinality(K) : \E k \in K : CountUntil(K, k) = j
  BY <1>1, PlacesFacts
<1>3. ASSUME NEW m \in 1 .. Len(r), r[m] = y PROVE \E k \in K : s[k] = y
  BY <1>1, <1>2, <1>3
<1>4. ASSUME NEW k \in K, s[k] = y PROVE Has(r, y)
  BY <1>1, <1>2, <1>4 DEF Has
<1>5. QED
  BY <1>3, <1>4 DEF Has, K, r

(***************************************************************************)
(* Access j of a tagged pattern is execution y.                            *)
(***************************************************************************)
Is(x, j, y) ==
  /\ AccessLower(x.entry, j) = y.addr /\ x.entry.length = y.len
  /\ x.iter = y.iter /\ x.id = Id(y)

LastPlace(e) == e.end - e.start

LEMMA SetMembers ==
  ASSUME NEW inv \in Seq(Executed), NEW i, NEW set, HoldsRuns(set, Runs(inv, i))
  PROVE  /\ \A x \in ToSet(set) : /\ x.entry \in MemSetEntry /\ x.entry.start <= x.entry.end
                                  /\ \A j \in 0 .. LastPlace(x.entry) : \E k \in Of(inv, i) : Is(x, j, inv[k])
         /\ \A k \in Of(inv, i) : \E x \in ToSet(set) : \E j \in 0 .. LastPlace(x.entry) : Is(x, j, inv[k])
<1> DEFINE runs == Runs(inv, i)
           told(y) == [addr |-> y.addr, len |-> y.len, iter |-> y.iter, id |-> Id(y)]
           part(x, j) == [addr |-> AccessLower(x.entry, j), len |-> x.entry.length,
                          iter |-> x.iter, id |-> x.id]
<1>1. PICK V : set \in Seq(TaggedEntry(V))
  BY DEF HoldsRuns
<1>2. Tagged(set) = Told(runs)
  BY DEF HoldsRuns
<1>3. /\ Blocks(set) \in Seq(Seq(TaggedAccess(V))) /\ Len(Blocks(set)) = Len(set)
      /\ \A k \in 1 .. Len(set) : Blocks(set)[k] = Block(set[k])
      /\ Tagged(set) = FlattenSeq(Blocks(set)) /\ Len(set) \in Nat
      /\ \A k \in 1 .. Len(set) : set[k] \in TaggedEntry(V)
  BY <1>1, BlocksFacts
<1>4. \A x : x \in ToSet(set) <=> \E k \in 1 .. Len(set) : x = set[k]
  <2>1. DOMAIN set = 1 .. Len(set)
    BY <1>1
  <2>2. QED
    BY <2>1 DEF ToSet
<1>5. \A x \in ToSet(set) : x \in TaggedEntry(V)
  BY <1>3, <1>4
<1>6. \A x \in ToSet(set) : x.entry \in MemSetEntry /\ x.entry.start <= x.entry.end
                            /\ x.entry.start \in Nat /\ x.entry.end \in Nat
  BY <1>5 DEF TaggedEntry, MemSetEntry
<1>7. \A x \in ToSet(set) : \A a : Has(Block(x), a) <=> \E j \in 0 .. LastPlace(x.entry) : part(x, j) = a
  <2> SUFFICES ASSUME NEW x \in ToSet(set), NEW a
               PROVE  Has(Block(x), a) <=> \E j \in 0 .. LastPlace(x.entry) : part(x, j) = a
    OBVIOUS
  <2> DEFINE n == LastPlace(x.entry)
  <2>1. /\ Len(Block(x)) = x.entry.end - x.entry.start + 1
        /\ \A l \in 1 .. x.entry.end - x.entry.start + 1 : Block(x)[l] = part(x, l - 1)
    BY <1>5, BlockFacts
  <2>2. n \in Nat /\ n + 1 = x.entry.end - x.entry.start + 1
    BY <1>6 DEF LastPlace
  <2>3. Len(Block(x)) = n + 1 /\ \A l \in 1 .. n + 1 : Block(x)[l] = part(x, l - 1)
    BY <2>1, <2>2
  <2> HIDE DEF n, part
  <2>4. ASSUME NEW l \in 1 .. n + 1, Block(x)[l] = a PROVE \E j \in 0 .. n : part(x, j) = a
    <3>1. l - 1 \in 0 .. n
      BY <2>2
    <3>2. QED
      BY <2>3, <2>4, <3>1
  <2>5. ASSUME NEW j \in 0 .. n, part(x, j) = a PROVE \E l \in 1 .. n + 1 : Block(x)[l] = a
    <3>1. j + 1 \in 1 .. n + 1 /\ (j + 1) - 1 = j
      BY <2>2
    <3>2. Block(x)[j + 1] = part(x, j)
      BY <2>3, <3>1
    <3>3. QED
      BY <2>5, <3>1, <3>2
  <2>6. QED
    BY <2>3, <2>4, <2>5 DEF Has, n
<1>8. \A a : Has(Tagged(set), a) <=> \E x \in ToSet(set) : \E j \in 0 .. LastPlace(x.entry) : part(x, j) = a
  <2> SUFFICES ASSUME NEW a
               PROVE  Has(Tagged(set), a) <=> \E x \in ToSet(set) : \E j \in 0 .. LastPlace(x.entry) : part(x, j) = a
    OBVIOUS
  <2>1. Has(Tagged(set), a) <=> \E k \in 1 .. Len(set) : Has(Blocks(set)[k], a)
    BY <1>3, FlattenHas
  <2>2. Has(Tagged(set), a) <=> \E x \in ToSet(set) : Has(Block(x), a)
    BY <1>3, <1>4, <2>1
  <2> HIDE DEF part
  <2>3. QED
    BY <1>7, <2>2
<1>9. \A a : Has(Told(runs), a) <=> \E k \in Of(inv, i) : a = told(inv[k])
  <2> SUFFICES ASSUME NEW a
               PROVE  Has(Told(runs), a) <=> \E k \in Of(inv, i) : a = told(inv[k])
    OBVIOUS
  <2>1. \A y : Has(runs, y) <=> \E k \in Of(inv, i) : inv[k] = y
    BY RunsHas
  <2>2. runs \in Seq(Executed)
    BY RunsFacts
  <2> HIDE DEF runs
  <2>3. DOMAIN Told(runs) = 1 .. Len(runs) /\ Len(Told(runs)) = Len(runs)
        /\ \A m \in 1 .. Len(runs) : Told(runs)[m] = told(runs[m])
    BY <2>2 DEF Told
  <2> HIDE DEF told
  <2>4. Has(Told(runs), a) <=> \E m \in 1 .. Len(runs) : told(runs[m]) = a
    BY <2>3 DEF Has
  <2>5. ASSUME NEW m \in 1 .. Len(runs), told(runs[m]) = a PROVE \E k \in Of(inv, i) : a = told(inv[k])
    BY <2>1, <2>5 DEF Has
  <2>6. ASSUME NEW k \in Of(inv, i), a = told(inv[k]) PROVE \E m \in 1 .. Len(runs) : told(runs[m]) = a
    BY <2>1, <2>6 DEF Has
  <2>7. QED
    BY <2>4, <2>5, <2>6
<1>10. \A x, j, y : part(x, j) = told(y) <=> Is(x, j, y)
  BY DEF Is
<1> HIDE DEF part, told
<1>11. ASSUME NEW x \in ToSet(set), NEW j \in 0 .. LastPlace(x.entry)
       PROVE  \E k \in Of(inv, i) : Is(x, j, inv[k])
  <2>1. Has(Told(runs), part(x, j))
    BY <1>2, <1>8, <1>11
  <2>2. QED
    BY <1>9, <1>10, <2>1
<1>12. ASSUME NEW k \in Of(inv, i)
       PROVE  \E x \in ToSet(set) : \E j \in 0 .. LastPlace(x.entry) : Is(x, j, inv[k])
  <2>1. Has(Tagged(set), told(inv[k]))
    BY <1>2, <1>9, <1>12
  <2>2. QED
    BY <1>8, <1>10, <2>1
<1>13. QED
  BY <1>6, <1>11, <1>12

-----------------------------------------------------------------------------
(* The alias test on patterns of a program's addresses.                    *)

(***************************************************************************)
(* A pattern whose accesses are all in the lower half of memory.           *)
(***************************************************************************)
InLowerHalf(e) ==
  /\ e \in MemSetEntry /\ e.start <= e.end /\ e.length > 0
  /\ \A j \in 0 .. LastPlace(e) : AccessLower(e, j) + e.length <= H

Lower(e, j) == e.base + j * e.stride

LEMMA Straight ==
  ASSUME NEW e, InLowerHalf(e)
  PROVE  /\ e.base \in Nat /\ e.stride \in Int /\ e.length \in Nat /\ e.length > 0 /\ LastPlace(e) \in Nat
         /\ \A j \in 0 .. LastPlace(e) : /\ Lower(e, j) \in Nat /\ Lower(e, j) + e.length <= H
                                    /\ AccessLower(e, j) = Lower(e, j)
                                    /\ AccessUpper(e, j) = Lower(e, j) + e.length - 1
<1> DEFINE b == e.base
           s == e.stride
           n == LastPlace(e)
           T == {j \in Nat : j <= n => AccessLower(e, j) = Lower(e, j)}
<1>1. /\ b \in Nat /\ b < M /\ s \in Int /\ -H <= s /\ s < H /\ e.length \in Nat /\ e.length > 0
      /\ n \in Nat /\ H \in Nat /\ M = H + H
  BY HAssumption DEF InLowerHalf, MemSetEntry, Word, SignedWord, M, LastPlace
<1>2. \A j \in 0 .. n : AccessLower(e, j) + e.length <= H
  BY DEF InLowerHalf
<1>3. \A j \in Nat : Lower(e, j) \in Int /\ AccessLower(e, j) = Wrap(Lower(e, j))
  BY <1>1 DEF Lower, AccessLower
<1>4. 0 \in T
  <2>1. Lower(e, 0) = b
    BY <1>1 DEF Lower
  <2>2. b \in Word
    BY <1>1 DEF Word
  <2>3. AccessLower(e, 0) = Lower(e, 0)
    BY <1>3, <2>1, <2>2, WrapIdentity
  <2>4. QED
    BY <2>3
<1>5. ASSUME NEW j \in Nat, j \in T PROVE j + 1 \in T
  <2>1. SUFFICES ASSUME j + 1 <= n PROVE AccessLower(e, j + 1) = Lower(e, j + 1)
    OBVIOUS
  <2>2. Lower(e, j + 1) = Lower(e, j) + s
    <3>1. Lower(e, j) = b + j * s /\ Lower(e, j + 1) = b + (j + 1) * s
      BY DEF Lower
    <3> HIDE DEF b, s, n, T
    <3>2. j * s \in Int /\ (j + 1) * s = j * s + s
      BY <1>1
    <3>3. QED
      BY <1>1, <3>1, <3>2
  <2>3. AccessLower(e, j) = Lower(e, j) /\ Lower(e, j) + e.length <= H
    BY <1>1, <1>2, <1>5, <2>1
  <2>4. AccessLower(e, j + 1) = Wrap(Lower(e, j + 1)) /\ AccessLower(e, j + 1) + e.length <= H
    BY <1>1, <1>2, <1>3, <2>1
  <2> DEFINE v == Lower(e, j)
             w == Lower(e, j + 1)
  <2>5. v \in Int /\ w \in Int
    BY <1>3
  <2>6. v >= 0
    <3>1. Wrap(v) \in Word
      BY <2>5, WrapIsWord
    <3>2. QED
      BY <1>3, <2>3, <3>1 DEF Word
  <2> HIDE DEF v, w, s
  <2>7. CASE w >= 0
    <3>1. w \in Word
      BY <1>1, <2>2, <2>3, <2>5, <2>7 DEF Word, v, w
    <3>2. QED
      BY <2>4, <3>1, WrapIdentity DEF w
  <2>8. CASE w < 0
    <3> DEFINE x == w + M
    <3>1. x \in Word /\ x >= H /\ x - M = w
      BY <1>1, <2>2, <2>5, <2>6, <2>8 DEF Word, v, w
    <3> HIDE DEF x
    <3>2. Wrap(w) = x
      BY <3>1, WrapAround
    <3>3. FALSE
      <4>1. x + e.length <= H
        BY <2>4, <3>2 DEF w
      <4>2. x \in Nat
        BY <1>1, <3>1 DEF Word
      <4>3. QED
        BY <1>1, <3>1, <4>1, <4>2
    <3>4. QED
      BY <3>3
  <2>9. QED
    BY <2>5, <2>7, <2>8
<1> HIDE DEF T, n, b, s
<1>6. Nat \subseteq T
  BY <1>4, <1>5, SetInduction
<1>7. ASSUME NEW j \in 0 .. n
      PROVE  /\ Lower(e, j) \in Nat /\ Lower(e, j) + e.length <= H
             /\ AccessLower(e, j) = Lower(e, j)
             /\ AccessUpper(e, j) = Lower(e, j) + e.length - 1
  <2>1. AccessLower(e, j) = Lower(e, j) /\ Lower(e, j) + e.length <= H /\ Lower(e, j) \in Int
    <3>1. j \in T /\ j \in Nat /\ j <= n
      BY <1>1, <1>6
    <3>2. AccessLower(e, j) = Lower(e, j)
      BY <3>1 DEF T
    <3>3. QED
      BY <1>2, <1>3, <3>1, <3>2
  <2>2. Lower(e, j) \in Nat
    <3>1. Wrap(Lower(e, j)) \in Word
      BY <2>1, WrapIsWord
    <3>2. Lower(e, j) \in Word
      <4>1. j \in Nat
        BY <1>1
      <4>2. QED
        BY <1>3, <2>1, <3>1, <4>1
    <3>3. QED
      BY <1>1, <3>2 DEF Word
  <2>3. AccessUpper(e, j) = Wrap(Lower(e, j) + e.length - 1)
    BY DEF AccessUpper, Lower
  <2>4. (Lower(e, j) + e.length) - 1 \in Word /\ Lower(e, j) + e.length - 1 = (Lower(e, j) + e.length) - 1
    BY <1>1, <2>1, <2>2 DEF Word
  <2>5. AccessUpper(e, j) = Lower(e, j) + e.length - 1
    BY <2>3, <2>4, WrapIdentity
  <2>6. QED
    BY <2>1, <2>2, <2>5
<1>8. QED
  BY <1>1, <1>7 DEF n, b, s

(***************************************************************************)
(* Its accesses are between its extents (getLowerExtent, getUpperExtent).  *)
(***************************************************************************)
LEMMA Extents ==
  ASSUME NEW e, InLowerHalf(e)
  PROVE  /\ GetLowerExtent(e) \in Nat /\ GetUpperExtent(e) \in Nat
         /\ \A j \in 0 .. LastPlace(e) : /\ GetLowerExtent(e) <= Lower(e, j)
                                    /\ Lower(e, j) + e.length - 1 <= GetUpperExtent(e)
         /\ e.stride = 0 => GetLowerExtent(e) = e.base /\ GetUpperExtent(e) = e.base + e.length - 1
<1> DEFINE b == e.base
           s == e.stride
           n == LastPlace(e)
           len == e.length
           last == Lower(e, n)
<1>1. /\ b \in Nat /\ s \in Int /\ len \in Nat /\ len > 0 /\ n \in Nat
      /\ \A j \in 0 .. n : /\ Lower(e, j) \in Nat /\ Lower(e, j) + len <= H
                           /\ AccessLower(e, j) = Lower(e, j)
  BY Straight
<1>2. 0 \in 0 .. n /\ n \in 0 .. n
  BY <1>1
<1>3. Lower(e, 0) = b /\ b + len <= H /\ last \in Nat /\ last + len <= H /\ H \in Nat /\ M = H + H
  <2>1. Lower(e, 0) = b
    BY <1>1 DEF Lower
  <2>2. QED
    BY <1>1, <1>2, <2>1, HAssumption DEF M
<1>4. GetLast(e) = last
  <2>1. GetLast(e) = AccessLower(e, n)
    BY DEF GetLast, AccessLower, LastPlace
  <2>2. QED
    BY <1>1, <1>2, <2>1
<1>5. (b + len) - 1 \in Word /\ (last + len) - 1 \in Word
  BY <1>1, <1>3 DEF Word
<1>6. Wrap(b + len - 1) = b + len - 1 /\ Wrap(last + len - 1) = last + len - 1
  <2>1. b + len - 1 = (b + len) - 1 /\ last + len - 1 = (last + len) - 1
    BY <1>1, <1>3
  <2>2. QED
    BY <1>5, <2>1, WrapIdentity
<1>7. /\ GetLowerExtent(e) = IF s >= 0 THEN b ELSE last
      /\ GetUpperExtent(e) = (IF s >= 0 THEN last ELSE b) + len - 1
  <2>1. CASE s >= 0
    <3>1. GetUpperExtent(e) = Wrap(last + len - 1) /\ GetLowerExtent(e) = b
      BY <1>4, <2>1 DEF GetUpperExtent, GetLowerExtent
    <3>2. QED
      BY <1>6, <2>1, <3>1
  <2>2. CASE ~ (s >= 0)
    <3>1. GetUpperExtent(e) = Wrap(b + len - 1) /\ GetLowerExtent(e) = last
      BY <1>4, <2>2 DEF GetUpperExtent, GetLowerExtent
    <3>2. QED
      BY <1>6, <2>2, <3>1
  <2>3. QED
    BY <2>1, <2>2
<1>8. \A j \in 0 .. n : IF s >= 0 THEN b <= Lower(e, j) /\ Lower(e, j) <= last
                                  ELSE last <= Lower(e, j) /\ Lower(e, j) <= b
  <2> SUFFICES ASSUME NEW j \in 0 .. n
               PROVE  IF s >= 0 THEN b <= Lower(e, j) /\ Lower(e, j) <= last
                                ELSE last <= Lower(e, j) /\ Lower(e, j) <= b
    OBVIOUS
  <2> DEFINE u == j * s
             v == (n - j) * s
  <2>1. j \in Nat /\ n - j \in Nat /\ n = j + (n - j)
    BY <1>1
  <2>2. Lower(e, j) = b + u /\ last = b + n * s
    BY DEF Lower
  <2>3. n * s = u + v /\ u \in Int /\ v \in Int
    BY <1>1, <2>1
  <2>4. IF s >= 0 THEN u >= 0 /\ v >= 0 ELSE u <= 0 /\ v <= 0
    <3> HIDE DEF s, n, last, b, len
    <3>1. \A x \in Nat : IF s >= 0 THEN x * s >= 0 ELSE x * s <= 0
      <4>1. ASSUME NEW x \in Nat, s >= 0 PROVE x * s >= 0
        BY <1>1, <4>1
      <4>2. ASSUME NEW x \in Nat, ~ (s >= 0) PROVE x * s <= 0
        BY <1>1, <4>2
      <4>3. QED
        BY <4>1, <4>2
    <3>2. QED
      BY <2>1, <3>1
  <2> HIDE DEF u, v, s, n, last
  <2>5. QED
    BY <1>1, <2>2, <2>3, <2>4
<1>9. s = 0 => last = b
  <2>1. s = 0 => n * s = 0
    BY <1>1
  <2>2. QED
    BY <1>1, <2>1 DEF Lower
<1> HIDE DEF b, s, n, len, last
<1>10. /\ GetLowerExtent(e) \in Nat /\ GetUpperExtent(e) \in Nat
       /\ \A j \in 0 .. n : GetLowerExtent(e) <= Lower(e, j) /\ Lower(e, j) + len - 1 <= GetUpperExtent(e)
       /\ s = 0 => GetLowerExtent(e) = b /\ GetUpperExtent(e) = b + len - 1
  BY <1>1, <1>3, <1>7, <1>8, <1>9
<1>11. QED
  BY <1>10 DEF b, s, n, len

(***************************************************************************)
(* The test that the tree's overlap precedes answers whether two accesses  *)
(* touch a common byte, if the GCD test does where it is used.             *)
(***************************************************************************)
GcdTestAgreesOn(w, r) ==
  Overlap(w, r) /\ ByGcd(w, r) => (IsAlias(w, r) <=> IsAliasBruteForce(w, r))

Touch(w, r, i, j) ==
  /\ Lower(w, i) <= Lower(r, j) + r.length - 1
  /\ Lower(r, j) <= Lower(w, i) + w.length - 1

LEMMA TestAnswers ==
  ASSUME NEW w, InLowerHalf(w), NEW r, InLowerHalf(r), GcdTestAgreesOn(w, r)
  PROVE  /\ Overlap(w, r) /\ IsAlias(w, r) <=>
              \E i \in 0 .. LastPlace(w), j \in 0 .. LastPlace(r) : Touch(w, r, i, j)
<1> DEFINE some == \E i \in 0 .. LastPlace(w), j \in 0 .. LastPlace(r) : Touch(w, r, i, j)
<1>1. \A e \in {w, r} :
        /\ e.base \in Nat /\ e.stride \in Int /\ e.length \in Nat /\ e.length > 0 /\ LastPlace(e) \in Nat
        /\ \A j \in 0 .. LastPlace(e) : /\ Lower(e, j) \in Nat
                                   /\ AccessLower(e, j) = Lower(e, j)
                                   /\ AccessUpper(e, j) = Lower(e, j) + e.length - 1
        /\ GetLowerExtent(e) \in Nat /\ GetUpperExtent(e) \in Nat
        /\ \A j \in 0 .. LastPlace(e) : /\ GetLowerExtent(e) <= Lower(e, j)
                                   /\ Lower(e, j) + e.length - 1 <= GetUpperExtent(e)
        /\ e.stride = 0 => GetLowerExtent(e) = e.base /\ GetUpperExtent(e) = e.base + e.length - 1
  <2>1. \A e \in {w, r} : InLowerHalf(e)
    OBVIOUS
  <2>2. QED
    BY <2>1, Straight, Extents
<1>2. IsAliasBruteForce(w, r) <=> some
  <2>1. NumInstances(w) - 1 = LastPlace(w) /\ NumInstances(r) - 1 = LastPlace(r)
    BY DEF InLowerHalf, MemSetEntry, NumInstances, LastPlace
  <2>2. QED
    BY <1>1, <2>1 DEF IsAliasBruteForce, Touch
<1>3. some => Overlap(w, r)
  <2>1. SUFFICES ASSUME NEW i \in 0 .. LastPlace(w), NEW j \in 0 .. LastPlace(r), Touch(w, r, i, j)
                 PROVE  Overlap(w, r)
    OBVIOUS
  <2>2. /\ Lower(w, i) \in Nat /\ Lower(r, j) \in Nat
        /\ GetLowerExtent(w) <= Lower(w, i) /\ Lower(w, i) + w.length - 1 <= GetUpperExtent(w)
        /\ GetLowerExtent(r) <= Lower(r, j) /\ Lower(r, j) + r.length - 1 <= GetUpperExtent(r)
    BY <1>1
  <2>3. QED
    BY <1>1, <2>1, <2>2 DEF Touch, Overlap
<1>4. ASSUME Overlap(w, r), w.stride = 0, r.stride = 0 PROVE some
  <2>1. 0 \in 0 .. LastPlace(w) /\ 0 \in 0 .. LastPlace(r)
    BY <1>1
  <2>2. Lower(w, 0) = w.base /\ Lower(r, 0) = r.base
    <3>1. 0 * w.stride = 0 /\ 0 * r.stride = 0
      BY <1>4
    <3>2. w.base \in Nat /\ r.base \in Nat
      BY <1>1
    <3>3. QED
      BY <3>1, <3>2 DEF Lower
  <2>3. Touch(w, r, 0, 0)
    BY <1>1, <1>4, <2>2 DEF Overlap, Touch
  <2>4. QED
    BY <2>1, <2>3
<1>5. ASSUME Overlap(w, r) PROVE IsAlias(w, r) <=> some
  <2>1. CASE w.stride = 0 /\ r.stride = 0
    BY <1>4, <1>5, <2>1 DEF IsAlias
  <2>2. CASE ~ (w.stride = 0 /\ r.stride = 0) /\ ByGcd(w, r)
    BY <1>2, <1>5, <2>2 DEF GcdTestAgreesOn
  <2>3. CASE ~ (w.stride = 0 /\ r.stride = 0) /\ ~ ByGcd(w, r)
    BY <1>2, <2>3 DEF IsAlias
  <2>4. QED
    BY <2>1, <2>2, <2>3
<1>6. QED
  BY <1>3, <1>5

-----------------------------------------------------------------------------
(* The conflicts of an invocation.                                         *)

Conflicting(x, y) == x.iter # y.iter /\ TouchCommonByte(x, y)

\* The tags of two accesses are those of two executions.
SameTags(a, x, y) ==
  a[1].iter = x.iter /\ a[1].id = Id(x) /\ a[2].iter = y.iter /\ a[2].id = Id(y)

LEMMA MembersInLowerHalf ==
  ASSUME NEW inv \in Seq(Executed), \A k \in 1 .. Len(inv) : inv[k].addr + inv[k].len <= H,
         NEW i, NEW set, HoldsRuns(set, Runs(inv, i)), NEW x \in ToSet(set)
  PROVE  InLowerHalf(x.entry)
<1>1. /\ x.entry \in MemSetEntry /\ x.entry.start <= x.entry.end
      /\ \A j \in 0 .. LastPlace(x.entry) : \E k \in Of(inv, i) : Is(x, j, inv[k])
  BY SetMembers
<1>2. \A k \in Of(inv, i) : k \in 1 .. Len(inv) /\ inv[k].len \in Nat \ {0} /\ inv[k].addr + inv[k].len <= H
  <2>1. \A k \in Of(inv, i) : k \in 1 .. Len(inv) /\ inv[k] \in Executed
    BY DEF Of
  <2>2. QED
    BY <2>1 DEF Executed
<1>3. ASSUME NEW j \in 0 .. LastPlace(x.entry)
      PROVE  x.entry.length > 0 /\ AccessLower(x.entry, j) + x.entry.length <= H
  <2>1. PICK k \in Of(inv, i) : Is(x, j, inv[k])
    BY <1>1
  <2>2. QED
    BY <1>2, <2>1 DEF Is
<1>4. 0 \in 0 .. LastPlace(x.entry)
  BY <1>1 DEF LastPlace, MemSetEntry
<1>5. QED
  BY <1>1, <1>3, <1>4 DEF InLowerHalf

(***************************************************************************)
(* The pairs of patterns that the alias test finds are of the conflicts    *)
(* between the executions, and every conflict is found.                    *)
(***************************************************************************)
LEMMA AliasesTell ==
  ASSUME NEW inv \in Seq(Executed), \A k \in 1 .. Len(inv) : inv[k].addr + inv[k].len <= H,
         NEW p, NEW W, HoldsRuns(W, Runs(inv, p[1])), NEW O, HoldsRuns(O, Runs(inv, p[2])),
         \A a \in ToSet(W), b \in ToSet(O) : GcdTestAgreesOn(a.entry, b.entry)
  PROVE  /\ \A a \in Aliases(W, O) : \E k \in Of(inv, p[1]), l \in Of(inv, p[2]) :
              Conflicting(inv[k], inv[l]) /\ SameTags(a, inv[k], inv[l])
         /\ \A k \in Of(inv, p[1]), l \in Of(inv, p[2]) :
              Conflicting(inv[k], inv[l]) => \E a \in Aliases(W, O) : SameTags(a, inv[k], inv[l])
<1>1. /\ \A x \in ToSet(W) : \A j \in 0 .. LastPlace(x.entry) : \E k \in Of(inv, p[1]) : Is(x, j, inv[k])
      /\ \A k \in Of(inv, p[1]) : \E x \in ToSet(W) : \E j \in 0 .. LastPlace(x.entry) : Is(x, j, inv[k])
  BY SetMembers
<1>2. /\ \A x \in ToSet(O) : \A j \in 0 .. LastPlace(x.entry) : \E k \in Of(inv, p[2]) : Is(x, j, inv[k])
      /\ \A k \in Of(inv, p[2]) : \E x \in ToSet(O) : \E j \in 0 .. LastPlace(x.entry) : Is(x, j, inv[k])
  BY SetMembers
<1>3. (\A x \in ToSet(W) : InLowerHalf(x.entry)) /\ \A x \in ToSet(O) : InLowerHalf(x.entry)
  BY MembersInLowerHalf
<1>4. \A x \in ToSet(W), y \in ToSet(O) :
        Overlap(x.entry, y.entry) /\ IsAlias(x.entry, y.entry) <=>
          \E i \in 0 .. LastPlace(x.entry), j \in 0 .. LastPlace(y.entry) : Touch(x.entry, y.entry, i, j)
  BY <1>3, TestAnswers
<1>5. \A x \in ToSet(W) : \A j \in 0 .. LastPlace(x.entry) : AccessLower(x.entry, j) = Lower(x.entry, j)
  BY <1>3, Straight
<1>6. \A x \in ToSet(O) : \A j \in 0 .. LastPlace(x.entry) : AccessLower(x.entry, j) = Lower(x.entry, j)
  BY <1>3, Straight
<1>7. \A x \in ToSet(W), y \in ToSet(O) :
        \A i \in 0 .. LastPlace(x.entry), j \in 0 .. LastPlace(y.entry), k \in DOMAIN inv, l \in DOMAIN inv :
          Is(x, i, inv[k]) /\ Is(y, j, inv[l]) =>
            /\ Touch(x.entry, y.entry, i, j) <=> TouchCommonByte(inv[k], inv[l])
            /\ SameTags(<<x, y>>, inv[k], inv[l])
  BY <1>5, <1>6 DEF Is, Touch, TouchCommonByte, SameTags
<1>8. \A i : Of(inv, i) \subseteq DOMAIN inv
  BY DEF Of
<1>9. \A a : a \in Aliases(W, O) <=>
        \E x \in ToSet(W), y \in ToSet(O) :
          /\ a = <<x, y>> /\ x.iter # y.iter
          /\ Overlap(x.entry, y.entry) /\ IsAlias(x.entry, y.entry)
  BY DEF Aliases
<1>10. ASSUME NEW a \in Aliases(W, O)
       PROVE  \E k \in Of(inv, p[1]), l \in Of(inv, p[2]) :
                Conflicting(inv[k], inv[l]) /\ SameTags(a, inv[k], inv[l])
  <2>1. PICK x \in ToSet(W), y \in ToSet(O) :
          /\ a = <<x, y>> /\ x.iter # y.iter
          /\ Overlap(x.entry, y.entry) /\ IsAlias(x.entry, y.entry)
    BY <1>9
  <2>2. PICK i \in 0 .. LastPlace(x.entry), j \in 0 .. LastPlace(y.entry) : Touch(x.entry, y.entry, i, j)
    BY <1>4, <2>1
  <2>3. PICK k \in Of(inv, p[1]) : Is(x, i, inv[k])
    BY <1>1
  <2>4. PICK l \in Of(inv, p[2]) : Is(y, j, inv[l])
    BY <1>2
  <2>5. TouchCommonByte(inv[k], inv[l]) /\ SameTags(a, inv[k], inv[l])
    BY <1>7, <1>8, <2>1, <2>2, <2>3, <2>4
  <2>6. inv[k].iter # inv[l].iter
    BY <2>1, <2>3, <2>4 DEF Is
  <2>7. QED
    BY <2>5, <2>6 DEF Conflicting
<1>11. ASSUME NEW k \in Of(inv, p[1]), NEW l \in Of(inv, p[2]), Conflicting(inv[k], inv[l])
       PROVE  \E a \in Aliases(W, O) : SameTags(a, inv[k], inv[l])
  <2>1. PICK x \in ToSet(W) : \E j \in 0 .. LastPlace(x.entry) : Is(x, j, inv[k])
    BY <1>1
  <2>2. PICK i \in 0 .. LastPlace(x.entry) : Is(x, i, inv[k])
    BY <2>1
  <2>3. PICK y \in ToSet(O) : \E j \in 0 .. LastPlace(y.entry) : Is(y, j, inv[l])
    BY <1>2
  <2>4. PICK j \in 0 .. LastPlace(y.entry) : Is(y, j, inv[l])
    BY <2>3
  <2>5. Touch(x.entry, y.entry, i, j) /\ SameTags(<<x, y>>, inv[k], inv[l])
    BY <1>7, <1>8, <1>11, <2>2, <2>4 DEF Conflicting
  <2>6. Overlap(x.entry, y.entry) /\ IsAlias(x.entry, y.entry)
    BY <1>4, <2>5
  <2>7. x.iter # y.iter
    BY <1>11, <2>2, <2>4 DEF Is, Conflicting
  <2>8. <<x, y>> \in Aliases(W, O)
    BY <1>9, <2>6, <2>7
  <2>9. QED
    BY <2>5, <2>8
<1>12. QED
  BY <1>10, <1>11

LEMMA ConflictsForm ==
  ASSUME NEW n, Program[n] \in Seq(Executed), NEW p, NEW c
  PROVE  c \in Conflicts(n, p) <=>
           \E k \in Of(Program[n], p[1]), l \in Of(Program[n], p[2]) :
             c = <<Program[n][k], Program[n][l]>> /\ Conflicting(Program[n][k], Program[n][l])
<1> DEFINE inv == Program[n]
           A == {k \in DOMAIN inv : inv[k].instr = p[1]}
           B == {k \in DOMAIN inv : inv[k].instr = p[2]}
<1>1. DOMAIN inv = 1 .. Len(inv)
  OBVIOUS
<1>2. A = Of(inv, p[1]) /\ B = Of(inv, p[2])
  BY <1>1 DEF Of
<1>3. Conflicts(n, p) = {<<inv[kl[1]], inv[kl[2]]>> : kl \in
        {kl \in A \X B : /\ inv[kl[1]].iter # inv[kl[2]].iter
                         /\ TouchCommonByte(inv[kl[1]], inv[kl[2]])}}
  BY DEF Conflicts
<1> HIDE DEF A, B, inv
<1>4. c \in Conflicts(n, p) <=>
        \E k \in A, l \in B : c = <<inv[k], inv[l]>> /\ Conflicting(inv[k], inv[l])
  <2> DEFINE KL == {kl \in A \X B : Conflicting(inv[kl[1]], inv[kl[2]])}
  <2>1. Conflicts(n, p) = {<<inv[kl[1]], inv[kl[2]]>> : kl \in KL}
    BY <1>3 DEF Conflicting
  <2>2. \A k, l : <<k, l>> \in KL <=> k \in A /\ l \in B /\ Conflicting(inv[k], inv[l])
    OBVIOUS
  <2>3. \A kl \in KL : kl[1] \in A /\ kl[2] \in B /\ kl = <<kl[1], kl[2]>>
    OBVIOUS
  <2> HIDE DEF KL
  <2>4. ASSUME c \in Conflicts(n, p)
        PROVE  \E k \in A, l \in B : c = <<inv[k], inv[l]>> /\ Conflicting(inv[k], inv[l])
    <3>1. PICK kl \in KL : c = <<inv[kl[1]], inv[kl[2]]>>
      BY <2>1, <2>4
    <3>2. kl[1] \in A /\ kl[2] \in B /\ Conflicting(inv[kl[1]], inv[kl[2]])
      BY <2>2, <2>3
    <3>3. QED
      BY <3>1, <3>2
  <2>5. ASSUME NEW k \in A, NEW l \in B, Conflicting(inv[k], inv[l])
        PROVE  <<inv[k], inv[l]>> \in Conflicts(n, p)
    <3> DEFINE kl == <<k, l>>
    <3>1. kl \in KL /\ kl[1] = k /\ kl[2] = l
      BY <2>2, <2>5
    <3>2. QED
      BY <2>1, <3>1
  <2>6. QED
    BY <2>4, <2>5
<1>5. QED
  BY <1>2, <1>4 DEF inv

\* The pairs of instructions of the loop body that conflict.
Ids(n, p) == {<<Id(c[1]), Id(c[2])>> : c \in Conflicts(n, p)}

Fetches(n, p, W, O) ==
  /\ HoldsRuns(W, Runs(Program[n], p[1])) /\ HoldsRuns(O, Runs(Program[n], p[2]))
  /\ \A a \in ToSet(W), b \in ToSet(O) : GcdTestAgreesOn(a.entry, b.entry)

InUserMemory(n) == \A k \in 1 .. Len(Program[n]) : Program[n][k].addr + Program[n][k].len <= H

LEMMA AliasesFind ==
  ASSUME NEW n, Program[n] \in Seq(Executed), InUserMemory(n),
         NEW p, NEW W, NEW O, Fetches(n, p, W, O)
  PROVE  /\ {<<a[1].id, a[2].id>> : a \in Aliases(W, O)} = Ids(n, p)
         /\ Aliases(W, O) = {} <=> Conflicts(n, p) = {}
         /\ AdjacentIterations(Aliases(W, O)) = Adjacent(n, p)
<1> DEFINE inv == Program[n]
           A == Aliases(W, O)
           C == Conflicts(n, p)
           tells(a, c) == SameTags(a, c[1], c[2])
<1>1. /\ \A a \in A : \E k \in Of(inv, p[1]), l \in Of(inv, p[2]) :
           Conflicting(inv[k], inv[l]) /\ SameTags(a, inv[k], inv[l])
      /\ \A k \in Of(inv, p[1]), l \in Of(inv, p[2]) :
           Conflicting(inv[k], inv[l]) => \E a \in A : SameTags(a, inv[k], inv[l])
  BY AliasesTell DEF Fetches, InUserMemory
<1>2. \A c : c \in C <=> \E k \in Of(inv, p[1]), l \in Of(inv, p[2]) :
                           c = <<inv[k], inv[l]>> /\ Conflicting(inv[k], inv[l])
  BY ConflictsForm
<1>3. \A k \in Of(inv, p[1]) \cup Of(inv, p[2]) : inv[k].iter \in Nat
  <2>1. \A k \in Of(inv, p[1]) \cup Of(inv, p[2]) : inv[k] \in Executed
    BY DEF Of
  <2>2. QED
    BY <2>1 DEF Executed
<1>4. \A c \in C : c[1].iter \in Nat /\ c[2].iter \in Nat /\ c[1].iter # c[2].iter
  BY <1>2, <1>3 DEF Conflicting
<1> HIDE DEF A, C, inv
<1>5. \A a \in A : \E c \in C : tells(a, c)
  <2> SUFFICES ASSUME NEW a \in A PROVE \E c \in C : tells(a, c)
    OBVIOUS
  <2>1. PICK k \in Of(inv, p[1]), l \in Of(inv, p[2]) :
          Conflicting(inv[k], inv[l]) /\ SameTags(a, inv[k], inv[l])
    BY <1>1
  <2>2. <<inv[k], inv[l]>> \in C
    BY <1>2, <2>1
  <2>3. tells(a, <<inv[k], inv[l]>>)
    BY <2>1
  <2>4. QED
    BY <2>2, <2>3
<1>6. \A c \in C : \E a \in A : tells(a, c)
  BY <1>1, <1>2
<1>7. \A a, c : tells(a, c) => /\ a[1].iter = c[1].iter /\ a[1].id = Id(c[1])
                               /\ a[2].iter = c[2].iter /\ a[2].id = Id(c[2])
  BY DEF SameTags
<1> HIDE DEF tells
<1>8. {<<a[1].id, a[2].id>> : a \in A} = Ids(n, p)
  <2>1. ASSUME NEW a \in A PROVE <<a[1].id, a[2].id>> \in Ids(n, p)
    <3>1. PICK c \in C : tells(a, c)
      BY <1>5
    <3>2. <<a[1].id, a[2].id>> = <<Id(c[1]), Id(c[2])>>
      BY <1>7, <3>1
    <3>3. QED
      BY <3>2 DEF Ids, C
  <2>2. ASSUME NEW d \in Ids(n, p) PROVE \E a \in A : d = <<a[1].id, a[2].id>>
    <3>1. PICK c \in C : d = <<Id(c[1]), Id(c[2])>>
      BY DEF Ids, C
    <3>2. PICK a \in A : tells(a, c)
      BY <1>6
    <3>3. QED
      BY <1>7, <3>1, <3>2
  <2>3. QED
    BY <2>1, <2>2
<1>9. A = {} <=> C = {}
  BY <1>5, <1>6
<1>10. AdjacentIterations(A) = Adjacent(n, p)
  <2> DEFINE X == {b \in A : Magnitude(b[1].iter - b[2].iter) < 2}
             Y == {d \in C : d[1].iter - d[2].iter \in {-1, 1}}
  <2>1. \A a \in A, c \in C : tells(a, c) => (a \in X <=> c \in Y)
    <3> SUFFICES ASSUME NEW a \in A, NEW c \in C, tells(a, c) PROVE a \in X <=> c \in Y
      OBVIOUS
    <3> DEFINE u == c[1].iter
               v == c[2].iter
    <3>1. a[1].iter = u /\ a[2].iter = v /\ u \in Nat /\ v \in Nat /\ u # v
      BY <1>4, <1>7
    <3>2. a \in X <=> Magnitude(u - v) < 2
      BY <3>1
    <3>3. c \in Y <=> u - v \in {-1, 1}
      OBVIOUS
    <3> HIDE DEF u, v, X, Y
    <3>4. Magnitude(u - v) < 2 <=> u - v \in {-1, 1}
      BY <3>1 DEF Magnitude
    <3>5. QED
      BY <3>2, <3>3, <3>4
  <2>2. AdjacentIterations(A) = UNION {{a[1].iter, a[2].iter} : a \in X}
    BY DEF AdjacentIterations
  <2>3. Adjacent(n, p) = UNION {{c[1].iter, c[2].iter} : c \in Y}
    BY DEF Adjacent, C
  <2>4. X \subseteq A /\ Y \subseteq C
    OBVIOUS
  <2> HIDE DEF X, Y
  <2>5. \A j : j \in AdjacentIterations(A) <=> \E a \in X : j = a[1].iter \/ j = a[2].iter
    BY <2>2
  <2>6. \A j : j \in Adjacent(n, p) <=> \E c \in Y : j = c[1].iter \/ j = c[2].iter
    BY <2>3
  <2>7. ASSUME NEW j \in AdjacentIterations(A) PROVE j \in Adjacent(n, p)
    <3>1. PICK a \in X : j = a[1].iter \/ j = a[2].iter
      BY <2>5
    <3>2. PICK c \in C : tells(a, c)
      BY <1>5, <2>4
    <3>3. c \in Y
      BY <2>1, <2>4, <3>2
    <3>4. QED
      BY <1>7, <2>6, <3>1, <3>2, <3>3
  <2>8. ASSUME NEW j \in Adjacent(n, p) PROVE j \in AdjacentIterations(A)
    <3>1. PICK c \in Y : j = c[1].iter \/ j = c[2].iter
      BY <2>6
    <3>2. PICK a \in A : tells(a, c)
      BY <1>6, <2>4
    <3>3. a \in X
      BY <2>1, <2>4, <3>2
    <3>4. QED
      BY <1>7, <2>5, <3>1, <3>2, <3>3
  <2>9. QED
    BY <2>7, <2>8
<1>11. QED
  BY <1>8, <1>9, <1>10 DEF A, C

-----------------------------------------------------------------------------
(* Pairs that are settled.                                                 *)

LEMMA CachedCalls ==
  ASSUME input \in Inputs, CallsInCacheOrder, NEW n \in 1 .. Len(Program), NEW i \in SubInstrs,
         NEW k \in Of(Program[n], i)
  PROVE  LET cache == CallTraceCache(Program[FirstAlike(n)], i)
         IN \E m \in DOMAIN cache : Program[n][k].call = cache[m].call
<1> DEFINE inv == Program[n]
           first == Program[FirstAlike(n)]
           cache == CallTraceCache(first, i)
           runs == Runs(inv, i)
           N == Len(cache)
           who(m) == <<cache[m].call, cache[m].inst>>
           made(x) == <<x.call, x.inst>>
           s == [m \in DOMAIN cache |-> Repeated(who(m), cache[m].n)]
<1>1. inv \in Seq(Executed) /\ first \in Seq(Executed)
  <2>1. n \in Nat \ {0} /\ Len(Program) \in Nat
    BY ThroughEnds
  <2>2. FirstAlike(n) \in 1 .. n
    BY <2>1, FirstAlikeFacts
  <2>3. FirstAlike(n) \in 1 .. Len(Program)
    BY <2>1, <2>2
  <2>4. QED
    BY <2>3, InvocationFacts
<1>2. [j \in DOMAIN runs |-> made(runs[j])] = FlattenSeq(s)
  <2>1. n \in DOMAIN Program
    <3>1. Program \in Seq(Seq(Executed))
      BY InputFacts DEF Program
    <3>2. QED
      BY <3>1
  <2>2. QED
    BY <2>1, Zenon DEF CallsInCacheOrder, Repeated
<1>3. Has(runs, inv[k])
  BY <1>1, RunsHas
<1>4. runs \in Seq(Executed)
  BY <1>1, RunsFacts
<1> HIDE DEF inv, first, cache, runs
<1>5. PICK V : cache \in Seq([call : V, inst : V, n : Nat])
  BY <1>1, CacheFacts DEF cache
<1>6. /\ DOMAIN cache = 1 .. N /\ N \in Nat
      /\ \A m \in 1 .. N : cache[m].call \in V /\ cache[m].inst \in V /\ cache[m].n \in Nat
  <2> DEFINE S == [call : V, inst : V, n : Nat]
  <2>1. cache \in Seq(S)
    BY <1>5
  <2> HIDE DEF S
  <2>2. DOMAIN cache = 1 .. N /\ N \in Nat /\ \A m \in 1 .. N : cache[m] \in S
    BY <2>1
  <2>3. QED
    BY <2>2 DEF S
<1> HIDE DEF N
<1>7. \A m \in 1 .. N : /\ Repeated(who(m), cache[m].n) \in Seq(V \X V)
                        /\ Len(Repeated(who(m), cache[m].n)) = cache[m].n
                        /\ \A l \in 1 .. cache[m].n : Repeated(who(m), cache[m].n)[l] = who(m)
  <2> SUFFICES ASSUME NEW m \in 1 .. N
               PROVE  /\ Repeated(who(m), cache[m].n) \in Seq(V \X V)
                      /\ Len(Repeated(who(m), cache[m].n)) = cache[m].n
                      /\ \A l \in 1 .. cache[m].n : Repeated(who(m), cache[m].n)[l] = who(m)
    OBVIOUS
  <2> DEFINE S == V \X V
             x == who(m)
             j == cache[m].n
  <2>1. x \in S /\ j \in Nat
    BY <1>6
  <2> HIDE DEF S, x, j
  <2>2. /\ Repeated(x, j) \in Seq(S)
        /\ Len(Repeated(x, j)) = j /\ \A l \in 1 .. j : Repeated(x, j)[l] = x
    BY <2>1, RepeatedFacts
  <2>3. QED
    BY <2>2, Zenon DEF S, x, j
<1>8. s \in Seq(Seq(V \X V)) /\ Len(s) = N /\ \A m \in 1 .. N : s[m] = Repeated(who(m), cache[m].n)
  <2> DEFINE S == Seq(V \X V)
             r(m) == Repeated(who(m), cache[m].n)
  <2>1. s = [m \in 1 .. N |-> r(m)] /\ \A m \in 1 .. N : r(m) \in S
    BY <1>6, <1>7
  <2> HIDE DEF S, s, r
  <2>2. s \in Seq(S) /\ Len(s) = N /\ \A m \in 1 .. N : s[m] = r(m)
    BY <1>6, <2>1
  <2>3. QED
    BY <2>2 DEF S, r
<1>9. Has(FlattenSeq(s), made(inv[k]))
  <2>1. PICK j \in 1 .. Len(runs) : runs[j] = inv[k]
    BY <1>3 DEF Has
  <2> DEFINE f == [l \in DOMAIN runs |-> made(runs[l])]
  <2>2. DOMAIN runs = 1 .. Len(runs) /\ Len(runs) \in Nat
    BY <1>4
  <2>3. Len(f) = Len(runs) /\ f[j] = made(inv[k])
    <3> HIDE DEF made
    <3>1. QED
      BY <2>1, <2>2
  <2> HIDE DEF f
  <2>4. Has(f, made(inv[k]))
    BY <2>1, <2>3 DEF Has
  <2>5. QED
    BY <1>2, <2>4, Zenon DEF f
<1> HIDE DEF s, who, made
<1>10. PICK m \in 1 .. N : Has(s[m], made(inv[k]))
  <2>1. Has(FlattenSeq(s), made(inv[k])) <=> \E m \in 1 .. Len(s) : Has(s[m], made(inv[k]))
    BY <1>8, FlattenHas
  <2>2. QED
    BY <1>8, <1>9, <2>1
<1>11. made(inv[k]) = who(m)
  BY <1>7, <1>8, <1>10 DEF Has
<1>12. inv[k].call = cache[m].call
  BY <1>11 DEF made, who
<1>13. QED
  BY <1>6, <1>12 DEF cache, inv, first

(***************************************************************************)
(* If an invocation calls an instruction from one place only, every        *)
(* invocation does (isConstantCallID).                                     *)
(***************************************************************************)
LEMMA SettledId ==
  ASSUME input \in Inputs, CallsInCacheOrder, ConstantCallsStay,
         invocNum \in 1 .. Len(Program), NEW i \in Instrs, i \in SubInstrs => IsConstantCallID(i),
         NEW k \in Of(Invocation, i), NEW n \in 1 .. Len(Program), NEW l \in Of(Program[n], i)
  PROVE  Id(Program[n][l]) = Id(Invocation[k])
<1> DEFINE inv == Invocation
           other == Program[n]
<1>1. /\ inv \in Seq(Executed) /\ DOMAIN inv = 1 .. Len(inv) /\ Orderly(inv)
      /\ other \in Seq(Executed) /\ DOMAIN other = 1 .. Len(other) /\ Orderly(other)
  BY InvocationFacts DEF Invocation
<1>2. k \in DOMAIN inv /\ inv[k].instr = i /\ l \in DOMAIN other /\ other[l].instr = i
  BY <1>1 DEF Of
<1>3. CASE i \in LoopInstrs
  <2>1. inv[k].call = 0 /\ other[l].call = 0
    BY <1>1, <1>2, <1>3 DEF Orderly
  <2>2. QED
    BY <1>2, <2>1 DEF Id
<1>4. CASE i \notin LoopInstrs
  <2>1. i \in SubInstrs /\ IsConstantCallID(i)
    BY <1>4 DEF Instrs
  <2>2. inv[k].call # 0 /\ other[l].call # 0
    BY <1>1, <1>2, <1>4 DEF Orderly
  <2> DEFINE cache == Cache(i)
             c == cache[1].call
  <2>3. \A m \in DOMAIN cache : cache[m].call = c
    BY <2>1 DEF IsConstantCallID
  <2>4. cache = CallTraceCache(Program[FirstAlike(invocNum)], i)
    BY DEF Cache
  <2> HIDE DEF cache
  <2>5. \A j \in Of(inv, i) : inv[j].call = c
    <3>1. SUFFICES ASSUME NEW j \in Of(inv, i) PROVE inv[j].call = c
      OBVIOUS
    <3>2. \E m \in DOMAIN cache : inv[j].call = cache[m].call
      BY <2>1, <2>4, CachedCalls DEF Invocation
    <3>3. QED
      BY <2>3, <3>2
  <2> HIDE DEF c
  <2>6. \A x : x \in ToSet(inv) /\ x.instr = i <=> \E j \in Of(inv, i) : x = inv[j]
    BY <1>1 DEF ToSet, Of
  <2>7. \A x : x \in ToSet(other) /\ x.instr = i <=> \E j \in Of(other, i) : x = other[j]
    BY <1>1 DEF ToSet, Of
  <2>8. CallsOf(invocNum, i) = {c}
    <3>1. \A x \in ToSet(inv) : x.instr = i => x.call = c
      BY <2>5, <2>6
    <3>2. inv[k] \in ToSet(inv) /\ inv[k].instr = i /\ inv[k].call = c
      BY <2>5, <2>6
    <3>3. CallsOf(invocNum, i) = {x.call : x \in {y \in ToSet(inv) : y.instr = i}}
      BY DEF CallsOf, Invocation
    <3> HIDE DEF inv
    <3>4. QED
      BY <3>1, <3>2, <3>3
  <2>9. Cardinality(CallsOf(invocNum, i)) = 1
    BY <2>8, FS_Singleton
  <2>10. CallsOf(n, i) \subseteq {c}
    <3>1. invocNum \in DOMAIN Program /\ n \in DOMAIN Program
      <4>1. Program \in Seq(Seq(Executed))
        BY InputFacts DEF Program
      <4>2. QED
        BY <4>1
    <3>2. QED
      BY <2>1, <2>8, <2>9, <3>1 DEF ConstantCallsStay
  <2>11. other[l].call \in CallsOf(n, i)
    <3>1. other[l] \in ToSet(other) /\ other[l].instr = i
      BY <2>7
    <3>2. CallsOf(n, i) = {x.call : x \in {y \in ToSet(other) : y.instr = i}}
      BY DEF CallsOf
    <3> HIDE DEF other
    <3>3. QED
      BY <3>1, <3>2
  <2>12. other[l].call = c /\ inv[k].call = c
    BY <2>5, <2>10, <2>11
  <2>13. QED
    BY <2>2, <2>12 DEF Id
<1>5. QED
  BY <1>3, <1>4

(***************************************************************************)
(* The conflicts of a settled pair have the same identifiers in every      *)
(* invocation: one that was found stands for all.                          *)
(***************************************************************************)
LEMMA SettledIds ==
  ASSUME input \in Inputs, CallsInCacheOrder, ConstantCallsStay,
         invocNum \in 1 .. Len(Program), NEW p \in Instrs \X Instrs, IsSettled(p),
         Conflicts(invocNum, p) # {}, NEW n \in 1 .. Len(Program)
  PROVE  Ids(n, p) \subseteq Ids(invocNum, p)
<1>1. Program[n] \in Seq(Executed) /\ Program[invocNum] \in Seq(Executed)
  BY InvocationFacts
<1>2. p[1] \in Instrs /\ p[2] \in Instrs /\ \A i \in {p[1], p[2]} : i \in SubInstrs => IsConstantCallID(i)
  BY DEF IsSettled
<1>3. PICK c : c \in Conflicts(invocNum, p)
  OBVIOUS
<1>4. PICK k1 \in Of(Program[invocNum], p[1]), k2 \in Of(Program[invocNum], p[2]) :
        c = <<Program[invocNum][k1], Program[invocNum][k2]>>
  BY <1>1, <1>3, ConflictsForm
<1>5. SUFFICES ASSUME NEW d \in Conflicts(n, p)
               PROVE  <<Id(d[1]), Id(d[2])>> = <<Id(c[1]), Id(c[2])>>
  BY <1>3 DEF Ids
<1>6. PICK l1 \in Of(Program[n], p[1]), l2 \in Of(Program[n], p[2]) :
        d = <<Program[n][l1], Program[n][l2]>>
  BY <1>1, <1>5, ConflictsForm
<1>7. Id(d[1]) = Id(c[1])
  BY <1>2, <1>4, <1>6, SettledId DEF Invocation
<1>8. Id(d[2]) = Id(c[2])
  BY <1>2, <1>4, <1>6, SettledId DEF Invocation
<1>9. QED
  BY <1>7, <1>8

-----------------------------------------------------------------------------
(* The dependences found.                                                  *)

(***************************************************************************)
(* The GCD test answers for the patterns that are fetched as the           *)
(* byte-by-byte test does.                                                 *)
(***************************************************************************)
GcdTestAgrees ==
  \A s, t \in DOMAIN invMemoryTrace :
    \A a \in ToSet(invMemoryTrace[s]), b \in ToSet(invMemoryTrace[t]) :
      GcdTestAgreesOn(a.entry, b.entry)

Conditions ==
  CallsInCacheOrder /\ (input.mode # "adjacent" => ConstantCallsStay)

Symmetric(ids, way) == ids \cup (IF way = "ww" THEN {<<p[2], p[1]>> : p \in ids} ELSE {})

\* In adjacent mode: invocation n does not remove p from the menu.
Works(n, p) ==
  (\E x \in ToSet(Program[n]) : x.instr \in {p[1], p[2]}) => NoGap(Adjacent(n, p))

\* Nothing that invocation n has to say of p is missing.
Held(n, way, p) ==
  IF input.mode = "adjacent" THEN Works(n, p) ELSE Symmetric(Ids(n, p), way) \subseteq pairs[way]

\* Invocation n has been analysed for the pair at place k.
Covered(n, way, k) ==
  n < invocNum \/ (n = invocNum /\ status = "pairs" /\ Passed(way, k))

\* p may be missing in the menu.
Gone(way, p) ==
  IF input.mode = "adjacent" THEN \E n \in 1 .. Len(Program) : ~ Works(n, p)
                             ELSE \A n \in 1 .. Len(Program) : Held(n, way, p)

Kept ==
  \A way \in Ways : \A k \in DOMAIN menu[way] :
    /\ menu[way][k] \in ToSet(Menu(way))
    /\ \A n \in 1 .. Len(Program) : Covered(n, way, k) => Held(n, way, menu[way][k])

Dropped ==
  \A way \in Ways : \A p \in ToSet(Menu(way)) :
    Gone(way, p) \/ \E k \in DOMAIN menu[way] : menu[way][k] = p

Found ==
  /\ status = "written" => invocNum > Len(Program)
  /\ Kept /\ Dropped
  /\ input.mode # "adjacent" => \A way \in Ways : pairs[way] \subseteq Dependences(way)

FoundExact == Conditions => Found

LEMMA ProgramDomain ==
  ASSUME input \in Inputs
  PROVE  DOMAIN Program = 1 .. Len(Program) /\ Len(Program) \in Nat
<1>1. Program \in Seq(Seq(Executed))
  BY InputFacts DEF Program
<1>2. QED
  BY <1>1

LEMMA InUserMemoryAll ==
  ASSUME input \in Inputs, UserAccesses, NEW n \in 1 .. Len(Program)
  PROVE  InUserMemory(n)
<1>1. n \in DOMAIN Program /\ DOMAIN Program[n] = 1 .. Len(Program[n])
  BY ProgramDomain, InvocationFacts
<1>2. QED
  BY <1>1 DEF UserAccesses, InUserMemory, Program

(***************************************************************************)
(* A dependence is one of some pair of the menu in some invocation.        *)
(***************************************************************************)
LEMMA DependencesForm ==
  ASSUME input \in Inputs, NEW way, NEW d
  PROVE  d \in Dependences(way) <=>
           \E p \in ToSet(Menu(way)), n \in 1 .. Len(Program) : d \in Symmetric(Ids(n, p), way)
<1> DEFINE P == ToSet(Menu(way))
           N == 1 .. Len(Program)
           found(p) == UNION {Conflicts(n, p) : n \in DOMAIN Program}
           idsOf(p) == {<<Id(c[1]), Id(c[2])>> : c \in found(p)}
           ids == UNION {idsOf(p) : p \in P}
           swapped == {<<e[2], e[1]>> : e \in ids}
<1>1. Dependences(way) = ids \cup (IF way = "ww" THEN swapped ELSE {})
  BY DEF Dependences
<1>2. \A p, e : e \in idsOf(p) <=> \E n \in N : e \in Ids(n, p)
  <2> SUFFICES ASSUME NEW p, NEW e PROVE e \in idsOf(p) <=> \E n \in N : e \in Ids(n, p)
    OBVIOUS
  <2>1. \A c : c \in found(p) <=> \E n \in N : c \in Conflicts(n, p)
    BY ProgramDomain
  <2>2. e \in idsOf(p) <=> \E c \in found(p) : e = <<Id(c[1]), Id(c[2])>>
    OBVIOUS
  <2>3. \A n : e \in Ids(n, p) <=> \E c \in Conflicts(n, p) : e = <<Id(c[1]), Id(c[2])>>
    BY DEF Ids
  <2> HIDE DEF found, idsOf, N
  <2>4. QED
    BY <2>1, <2>2, <2>3
<1>3. \A e : e \in ids <=> \E p \in P : e \in idsOf(p)
  OBVIOUS
<1>4. \A e : e \in swapped <=> \E f \in ids : e = <<f[2], f[1]>>
  OBVIOUS
<1>5. \A n, p : d \in Symmetric(Ids(n, p), way) <=>
        d \in Ids(n, p) \/ (way = "ww" /\ \E f \in Ids(n, p) : d = <<f[2], f[1]>>)
  BY DEF Symmetric
<1> HIDE DEF swapped, ids, idsOf, P, N
<1>6. d \in Dependences(way) <=> d \in ids \/ (way = "ww" /\ d \in swapped)
  BY <1>1
<1>7. d \in ids <=> \E p \in P, n \in N : d \in Ids(n, p)
  BY <1>2, <1>3
<1>8. d \in swapped <=> \E p \in P, n \in N : \E f \in Ids(n, p) : d = <<f[2], f[1]>>
  BY <1>2, <1>3, <1>4
<1>9. QED
  BY <1>5, <1>6, <1>7, <1>8 DEF P, N

LEMMA SymmetricGrows ==
  ASSUME NEW S, NEW T, S \subseteq T, NEW way
  PROVE  Symmetric(S, way) \subseteq Symmetric(T, way)
BY DEF Symmetric

LEMMA SameFacts ==
  ASSUME input' = input
  PROVE  /\ Program' = Program /\ (Conditions <=> Conditions')
         /\ \A way : /\ Menu(way)' = Menu(way) /\ Dependences(way)' = Dependences(way)
         /\ \A n, p : /\ Works(n, p)' = Works(n, p) /\ Ids(n, p)' = Ids(n, p)
<1>1. Program' = Program
  BY DEF Program
<1>2. \A n, p : Conflicts(n, p)' = Conflicts(n, p)
  BY <1>1 DEF Conflicts
<1>3. \A n, p : Works(n, p)' = Works(n, p) /\ Ids(n, p)' = Ids(n, p)
  BY <1>1, <1>2 DEF Works, Ids, Adjacent
<1>4. \A way : Menu(way)' = Menu(way)
  BY DEF Menu, AllRw, AllWw, FromDDG
<1>5. \A way : Dependences(way)' = Dependences(way)
  BY <1>1, <1>2, <1>4 DEF Dependences
<1>6. Conditions <=> Conditions'
  BY <1>1 DEF Conditions, CallsInCacheOrder, ConstantCallsStay, CallsOf, FirstAlike
<1>7. QED
  BY <1>1, <1>3, <1>4, <1>5, <1>6

(***************************************************************************)
(* An invocation that executes neither instruction has nothing to say.     *)
(***************************************************************************)
LEMMA NotExecuted ==
  ASSUME NEW n, Program[n] \in Seq(Executed), NEW p, Of(Program[n], p[1]) = {}, Of(Program[n], p[2]) = {},
         NEW way
  PROVE  Held(n, way, p)
<1>1. Conflicts(n, p) = {}
  BY ConflictsForm
<1>2. Symmetric(Ids(n, p), way) = {}
  BY <1>1 DEF Symmetric, Ids
<1>3. ~ \E x \in ToSet(Program[n]) : x.instr \in {p[1], p[2]}
  <2>1. DOMAIN Program[n] = 1 .. Len(Program[n])
    OBVIOUS
  <2>2. QED
    BY <2>1 DEF ToSet, Of
<1>4. QED
  BY <1>2, <1>3 DEF Held, Works

(***************************************************************************)
(* A step that leaves the menu and the pairs found alone.                  *)
(***************************************************************************)
LEMMA QuietFound ==
  ASSUME Found, input' = input, menu' = menu, pairs' = pairs,
         status' = "written" => invocNum' > Len(Program),
         \A way \in Ways : \A k \in DOMAIN menu[way] : \A n \in 1 .. Len(Program) :
           Covered(n, way, k)' => Covered(n, way, k) \/ Held(n, way, menu[way][k])
  PROVE  Found'
<1>1. /\ Program' = Program
      /\ \A way : Menu(way)' = Menu(way) /\ Dependences(way)' = Dependences(way)
      /\ \A n, p : Works(n, p)' = Works(n, p) /\ Ids(n, p)' = Ids(n, p)
  BY SameFacts
<1>2. \A n, way, p : Held(n, way, p)' = Held(n, way, p)
  BY <1>1 DEF Held
<1>3. \A way, p : Gone(way, p)' = Gone(way, p)
  BY <1>1, <1>2 DEF Gone
<1>4. Kept'
  BY <1>1, <1>2 DEF Found, Kept
<1>5. Dropped'
  BY <1>1, <1>3 DEF Found, Dropped
<1>6. QED
  BY <1>1, <1>4, <1>5 DEF Found

LEMMA AnalyseHolds ==
  ASSUME IInv, CountsExact, SetsExact, SetsExact', UserAccesses, GcdTestAgrees', Conditions, AnalysePair
  PROVE  /\ input \in Inputs /\ invocNum \in 1 .. Len(Program) /\ Pair \in Instrs \X Instrs
         /\ InUserMemory(invocNum) /\ Program[invocNum] \in Seq(Executed)
         /\ Fetches(invocNum, Pair, invMemoryTrace'[WriteStream(Pair)],
                                    invMemoryTrace'[OtherStream(Pair, pass)])
         /\ \E x \in ToSet(Program[invocNum]) : x.instr \in {Pair[1], Pair[2]}
<1>1. TypedState /\ KeepsStep /\ KeepsCount
  BY DEF IInv
<1>2. pass \in Ways /\ at \in DOMAIN menu[pass] /\ status = "pairs" /\ Pair \in Instrs \X Instrs
      /\ DOMAIN invMemoryTrace' = DOMAIN invMemoryTrace \cup Missing(Pair, pass)
  BY <1>1, AnalyseFacts DEF AnalysePair
<1>3. input \in Inputs /\ invocNum \in 1 .. Len(Program)
  BY <1>1, <1>2, TypeFacts, ThroughEnds DEF KeepsCount
<1>4. InUserMemory(invocNum) /\ Program[invocNum] \in Seq(Executed)
  BY <1>3, InUserMemoryAll, InvocationFacts
<1>5. input' = input /\ invocNum' = invocNum /\ status' = "pairs"
  BY <1>2 DEF AnalysePair
<1>6. Program' = Program /\ Invocation' = Program[invocNum] /\ CallsInCacheOrder'
  <2>1. Program' = Program
    BY <1>5, SameFacts
  <2>2. CallsInCacheOrder'
    BY <1>5, SameFacts DEF Conditions
  <2>3. QED
    BY <1>5, <2>1, <2>2 DEF Invocation
<1> DEFINE w == WriteStream(Pair)
           o == OtherStream(Pair, pass)
<1>7. w \in DOMAIN invMemoryTrace' /\ o \in DOMAIN invMemoryTrace'
  BY <1>2 DEF Missing, StreamsOf
<1>8. w[1] = Pair[1] /\ o[1] = Pair[2]
  BY DEF WriteStream, OtherStream
<1> HIDE DEF w, o
<1>9. /\ HoldsRuns(invMemoryTrace'[w], Runs(Program[invocNum], Pair[1]))
      /\ HoldsRuns(invMemoryTrace'[o], Runs(Program[invocNum], Pair[2]))
  <2>1. \A s \in DOMAIN invMemoryTrace' : HoldsRuns(invMemoryTrace'[s], Runs(Invocation', s[1]))
    BY <1>5, <1>6 DEF SetsExact
  <2>2. QED
    BY <1>6, <1>7, <1>8, <2>1
<1>10. \A a \in ToSet(invMemoryTrace'[w]), b \in ToSet(invMemoryTrace'[o]) :
         GcdTestAgreesOn(a.entry, b.entry)
  BY <1>7 DEF GcdTestAgrees
<1>11. PICK i \in {Pair[1], Pair[2]} : instances[i] # 0
  BY DEF AnalysePair, Skips
<1>12. i \in Instrs
  BY <1>2, <1>11
<1>13. CountOf(Program[invocNum], i) # 0
  <2>1. instances[i] = NumInstancesInInvocation(invocNum, i)
    BY <1>1, <1>2, <1>12 DEF KeepsCount
  <2>2. QED
    BY <1>3, <1>11, <1>12, <2>1, NumInstancesExact
<1>14. Of(Program[invocNum], i) # {}
  BY <1>13, FS_EmptySet DEF CountOf
<1>15. \E x \in ToSet(Program[invocNum]) : x.instr \in {Pair[1], Pair[2]}
  <2>1. PICK k \in Of(Program[invocNum], i) : TRUE
    BY <1>14
  <2>2. k \in DOMAIN Program[invocNum] /\ Program[invocNum][k].instr = i
    BY <1>4, <2>1 DEF Of
  <2>3. QED
    BY <2>2 DEF ToSet
<1>16. QED
  BY <1>2, <1>3, <1>4, <1>9, <1>10, <1>15 DEF Fetches, w, o

(***************************************************************************)
(* What the analysis of a pair records, and when the pair leaves the menu. *)
(***************************************************************************)
LEMMA AnalyseDoes ==
  ASSUME IInv, CountsExact, SetsExact, SetsExact', UserAccesses, GcdTestAgrees', Conditions, AnalysePair
  PROVE  \E leaves \in BOOLEAN :
           /\ pairs' = IF input.mode = "adjacent" THEN pairs
                       ELSE [pairs EXCEPT ![pass] =
                               pairs[pass] \cup Symmetric(Ids(invocNum, Pair), pass)]
           /\ leaves <=> IF input.mode = "adjacent" THEN ~ NoGap(Adjacent(invocNum, Pair))
                         ELSE Conflicts(invocNum, Pair) # {} /\ IsSettled(Pair)
           /\ IF leaves THEN menu' = [menu EXCEPT ![pass] = Erase(menu[pass], at)] /\ at' = at
                        ELSE menu' = menu /\ at' = at + 1
<1> DEFINE W == invMemoryTrace'[WriteStream(Pair)]
           O == invMemoryTrace'[OtherStream(Pair, pass)]
           A == Aliases(W, O)
<1>1. /\ InUserMemory(invocNum) /\ Program[invocNum] \in Seq(Executed)
      /\ Fetches(invocNum, Pair, W, O)
  BY AnalyseHolds
<1>2. /\ pairs' = IF input.mode = "adjacent" THEN pairs
                  ELSE [pairs EXCEPT ![pass] = pairs[pass] \cup Recorded(A, pass)]
      /\ menu' = IF Leaves(Pair, A) THEN [menu EXCEPT ![pass] = Erase(menu[pass], at)] ELSE menu
      /\ at' = IF Leaves(Pair, A) THEN at ELSE at + 1
  BY Zenon DEF AnalysePair
<1> HIDE DEF W, O
<1>3. /\ {<<a[1].id, a[2].id>> : a \in A} = Ids(invocNum, Pair)
      /\ A = {} <=> Conflicts(invocNum, Pair) = {}
      /\ AdjacentIterations(A) = Adjacent(invocNum, Pair)
  BY <1>1, AliasesFind
<1>4. Recorded(A, pass) = Symmetric(Ids(invocNum, Pair), pass)
  BY <1>3 DEF Recorded, Symmetric
<1> HIDE DEF A
<1>5. Leaves(Pair, A) \in BOOLEAN
  BY DEF Leaves, NoGap
<1>6. Leaves(Pair, A) <=> IF input.mode = "adjacent" THEN ~ NoGap(Adjacent(invocNum, Pair))
                          ELSE Conflicts(invocNum, Pair) # {} /\ IsSettled(Pair)
  BY <1>3 DEF Leaves
<1>7. QED
  BY <1>2, <1>4, <1>5, <1>6

LEMMA AnalyseFound ==
  ASSUME IInv, CountsExact, SetsExact, SetsExact', UserAccesses, GcdTestAgrees', Conditions, AnalysePair,
         Found, NEW p, p = Pair, NEW way, way = pass, NEW u, u = invocNum
  PROVE  Found'
<1> DEFINE new == Symmetric(Ids(u, p), way)
           adjacent == input.mode = "adjacent"
           all == 1 .. Len(Program)
<1>1. PICK leaves \in BOOLEAN :
        /\ pairs' = IF adjacent THEN pairs ELSE [pairs EXCEPT ![way] = pairs[way] \cup new]
        /\ leaves <=> IF adjacent THEN ~ NoGap(Adjacent(u, p))
                      ELSE Conflicts(u, p) # {} /\ IsSettled(p)
        /\ IF leaves THEN menu' = [menu EXCEPT ![way] = Erase(menu[way], at)] /\ at' = at
                     ELSE menu' = menu /\ at' = at + 1
  BY AnalyseDoes
<1>2. /\ input \in Inputs /\ u \in all /\ p \in Instrs \X Instrs
      /\ \E x \in ToSet(Program[u]) : x.instr \in {p[1], p[2]}
  BY AnalyseHolds
<1>3. /\ input' = input /\ status = "pairs" /\ status' = "pairs" /\ pass' = pass
      /\ invocNum' = invocNum /\ adjacent' = adjacent
  BY DEF AnalysePair
<1>4. /\ Program' = Program
      /\ \A w : Menu(w)' = Menu(w) /\ Dependences(w)' = Dependences(w)
      /\ \A n, q : Works(n, q)' = Works(n, q) /\ Ids(n, q)' = Ids(n, q)
  BY <1>3, SameFacts
<1>5. /\ TypedState /\ DOMAIN pairs = Ways /\ way \in Ways /\ at \in DOMAIN menu[way] /\ DOMAIN menu = Ways
      /\ at \in Nat /\ u \in Nat /\ Len(Program) \in Nat
      /\ \A w \in Ways : DOMAIN menu[w] = 1 .. Len(menu[w]) /\ Len(menu[w]) \in Nat
  <2>1. TypedState
    BY DEF IInv
  <2>2. QED
    BY <1>2, <2>1, TypeFacts, AnalyseFacts, ProgramDomain
<1>6. \A w \in Ways : pairs[w] \subseteq pairs'[w]
  BY <1>1, <1>5
<1>7. \A n, q : \A w \in Ways : Held(n, w, q) => Held(n, w, q)'
  BY <1>3, <1>4, <1>6 DEF Held
<1>8. \A q : \A w \in Ways : Gone(w, q) => Gone(w, q)'
  BY <1>3, <1>4, <1>7 DEF Gone
<1>9. ~ adjacent => new \subseteq pairs'[way]
  BY <1>1, <1>5
<1>10. \A n : Held(n, way, p)' <=>
         IF adjacent THEN Works(n, p) ELSE Symmetric(Ids(n, p), way) \subseteq pairs'[way]
  BY <1>3, <1>4 DEF Held
<1>11. ~ leaves => Held(u, way, p)'
  BY <1>1, <1>9, <1>10 DEF Works
<1>12. leaves => Gone(way, p)'
  <2>1. SUFFICES ASSUME leaves PROVE Gone(way, p)'
    OBVIOUS
  <2>2. Gone(way, p)' <=> IF adjacent THEN \E n \in all : ~ Works(n, p)
                                      ELSE \A n \in all : Held(n, way, p)'
    BY <1>3, <1>4 DEF Gone
  <2>3. CASE adjacent
    <3>1. ~ Works(u, p)
      BY <1>1, <1>2, <2>1, <2>3 DEF Works
    <3>2. QED
      BY <1>2, <2>2, <2>3, <3>1
  <2>4. CASE ~ adjacent
    <3>1. Conflicts(u, p) # {} /\ IsSettled(p)
      BY <1>1, <2>1, <2>4
    <3>2. CallsInCacheOrder /\ ConstantCallsStay
      BY <2>4 DEF Conditions
    <3>3. ASSUME NEW n \in all PROVE Held(n, way, p)'
      <4>1. Ids(n, p) \subseteq Ids(u, p)
        BY <1>2, <3>1, <3>2, SettledIds
      <4>2. Symmetric(Ids(n, p), way) \subseteq new
        BY <4>1, SymmetricGrows
      <4>3. QED
        BY <1>9, <1>10, <2>4, <4>2
    <3>4. QED
      BY <2>2, <2>4, <3>3
  <2>5. QED
    BY <2>3, <2>4
<1>13. /\ Kept /\ Dropped
       /\ ~ adjacent => \A w \in Ways : pairs[w] \subseteq Dependences(w)
  BY DEF Found
<1>14. menu[way][at] = p
  BY DEF Pair
<1>15. ASSUME leaves
       PROVE  /\ menu'[way] = Erase(menu[way], at) /\ DOMAIN menu'[way] = 1 .. Len(menu[way]) - 1
              /\ \A w \in Ways : w # way => menu'[w] = menu[w]
              /\ \A k \in DOMAIN menu'[way] : menu'[way][k] = IF k < at THEN menu[way][k] ELSE menu[way][k + 1]
  <2>1. menu' = [menu EXCEPT ![way] = Erase(menu[way], at)]
    BY <1>1, <1>15
  <2> DEFINE erased == Erase(menu[way], at)
  <2>2. erased \in Seq(Instrs \X Instrs) /\ Len(erased) = Len(menu[way]) - 1
        /\ \A k \in DOMAIN erased : erased[k] = IF k < at THEN menu[way][k] ELSE menu[way][k + 1]
    <3>1. Typed(erased, way)
      BY <1>5, EraseTyped
    <3>2. erased \in Seq(Instrs \X Instrs)
      BY <1>5, <3>1, MoreTyped
    <3>3. QED
      BY <1>5, <3>2, EraseTyped
  <2> HIDE DEF erased
  <2>3. menu'[way] = erased /\ \A w \in Ways : w # way => menu'[w] = menu[w]
    BY <1>5, <2>1 DEF erased
  <2>4. DOMAIN erased = 1 .. Len(menu[way]) - 1
    BY <2>2
  <2>5. QED
    BY <2>2, <2>3, <2>4 DEF erased
<1>16. \A w \in Ways : \A k, n : Covered(n, w, k)' <=>
         \/ n < u
         \/ n = u /\ ((way = "ww" /\ w = "rw") \/ (way = w /\ k < at'))
  BY <1>3 DEF Covered, Passed
<1>17. \A w \in Ways : \A k, n : Covered(n, w, k) <=>
         \/ n < u
         \/ n = u /\ ((way = "ww" /\ w = "rw") \/ (way = w /\ k < at))
  BY <1>3 DEF Covered, Passed
<1>18. ASSUME NEW w \in Ways, NEW k \in DOMAIN menu'[w]
       PROVE  \E q : /\ q = menu'[w][k] /\ q \in ToSet(Menu(w))
                     /\ \A n \in all : Covered(n, w, k)' => Held(n, w, q)'
  <2> DEFINE At(q) == /\ q \in ToSet(Menu(w))
                      /\ \A n \in all : Covered(n, w, k)' => Held(n, w, q)'
  <2>1. \A j \in DOMAIN menu[w] :
          /\ menu[w][j] \in ToSet(Menu(w))
          /\ \A n \in all : Covered(n, w, j) => Held(n, w, menu[w][j])
    BY <1>13 DEF Kept
  <2>2. \E q : q = menu'[w][k] /\ At(q)
    <3>1. CASE ~ leaves
      <4>1. menu' = menu /\ at' = at + 1
        BY <1>1, <3>1
      <4>2. PICK q : q = menu[w][k]
        OBVIOUS
      <4>3. k \in 1 .. Len(menu[w]) /\ Len(menu[w]) \in Nat
        BY <1>5, <4>1
      <4>4. ASSUME NEW n \in all, Covered(n, w, k)' PROVE Held(n, w, q)'
        <5>1. CASE Covered(n, w, k)
          BY <1>7, <2>1, <4>1, <4>2, <5>1
        <5>2. CASE ~ Covered(n, w, k)
          <6>1. n = u /\ way = w /\ k < at + 1 /\ ~ (k < at)
            BY <1>16, <1>17, <4>1, <4>4, <5>2
          <6>2. k = at
            BY <1>5, <4>3, <6>1
          <6>3. q = p
            BY <1>14, <4>2, <6>1, <6>2
          <6>4. QED
            BY <1>11, <3>1, <6>1, <6>3
        <5>3. QED
          BY <5>1, <5>2
      <4>5. q \in ToSet(Menu(w)) /\ q = menu'[w][k]
        BY <2>1, <4>1, <4>2
      <4>6. QED
        BY <4>4, <4>5
    <3>2. CASE leaves /\ w # way
      <4>1. menu'[w] = menu[w] /\ at' = at
        BY <1>1, <1>15, <3>2
      <4>2. PICK q : q = menu[w][k]
        OBVIOUS
      <4>3. ASSUME NEW n \in all, Covered(n, w, k)' PROVE Held(n, w, q)'
        <5>1. Covered(n, w, k)
          BY <1>16, <1>17, <3>2, <4>3
        <5>2. QED
          BY <1>7, <2>1, <4>1, <4>2, <5>1
      <4>4. q \in ToSet(Menu(w)) /\ q = menu'[w][k]
        BY <2>1, <4>1, <4>2
      <4>5. QED
        BY <4>3, <4>4
    <3>3. CASE leaves /\ w = way
      <4>1. at' = at
        BY <1>1, <3>3
      <4> DEFINE j == IF k < at THEN k ELSE k + 1
      <4>2. j \in DOMAIN menu[w] /\ menu'[w][k] = menu[w][j] /\ (k < at => j = k)
        <5>1. k \in 1 .. Len(menu[w]) - 1 /\ Len(menu[w]) \in Nat /\ DOMAIN menu[w] = 1 .. Len(menu[w])
          BY <1>5, <1>15, <3>3
        <5>2. menu'[w][k] = menu[w][j]
          BY <1>15, <3>3
        <5>3. QED
          BY <5>1, <5>2
      <4> HIDE DEF j
      <4>3. PICK i : i = j
        OBVIOUS
      <4>4. PICK q : q = menu[w][i]
        OBVIOUS
      <4>5. ASSUME NEW n \in all, Covered(n, w, k)' PROVE Held(n, w, q)'
        <5>1. Covered(n, w, i)
          BY <1>16, <1>17, <3>3, <4>1, <4>2, <4>3, <4>5
        <5>2. QED
          BY <1>7, <2>1, <4>2, <4>3, <4>4, <5>1
      <4>6. q \in ToSet(Menu(w)) /\ q = menu'[w][k]
        BY <2>1, <4>2, <4>3, <4>4
      <4>7. QED
        BY <4>5, <4>6
    <3>4. QED
      BY <3>1, <3>2, <3>3
  <2>3. QED
    BY <2>2
<1>19. Kept'
  <2>1. all' = all
    BY <1>4
  <2>2. ASSUME NEW w \in Ways, NEW k \in DOMAIN menu'[w]
        PROVE  menu'[w][k] \in ToSet(Menu(w)')
               /\ \A n \in all' : Covered(n, w, k)' => Held(n, w, menu[w][k])'
    <3>1. PICK q : /\ q = menu'[w][k] /\ q \in ToSet(Menu(w))
                   /\ \A n \in all : Covered(n, w, k)' => Held(n, w, q)'
      BY <1>18
    <3>2. Menu(w)' = Menu(w)
      BY <1>4
    <3> HIDE DEF all
    <3>3. QED
      BY <2>1, <3>1, <3>2
  <2>3. QED
    BY <2>2 DEF Kept
<1>20. Dropped'
  <2>1. SUFFICES ASSUME NEW w \in Ways, NEW q \in ToSet(Menu(w))
                 PROVE  Gone(w, q)' \/ \E k \in DOMAIN menu'[w] : menu'[w][k] = q
    BY <1>4 DEF Dropped
  <2>2. CASE Gone(w, q)
    BY <1>8, <2>2
  <2>3. CASE ~ Gone(w, q)
    <3>1. PICK k \in DOMAIN menu[w] : menu[w][k] = q
      BY <1>13, <2>3 DEF Dropped
    <3>2. CASE ~ leaves
      BY <1>1, <3>1, <3>2
    <3>3. CASE leaves /\ w # way
      BY <1>15, <3>1, <3>3
    <3>4. CASE leaves /\ w = way
      <4>1. k \in 1 .. Len(menu[w]) /\ at \in 1 .. Len(menu[w]) /\ Len(menu[w]) \in Nat
        BY <1>5, <3>1, <3>4
      <4>2. CASE k = at
        BY <1>12, <1>14, <3>1, <3>4, <4>2
      <4>3. CASE k < at
        <5>1. k \in DOMAIN menu'[w] /\ menu'[w][k] = q
          BY <1>15, <3>1, <3>4, <4>1, <4>3
        <5>2. QED
          BY <5>1
      <4>4. CASE k > at
        <5>1. k - 1 \in DOMAIN menu'[w] /\ ~ (k - 1 < at) /\ (k - 1) + 1 = k
          BY <1>15, <3>4, <4>1, <4>4
        <5>2. menu'[w][k - 1] = q
          BY <1>15, <3>1, <3>4, <5>1
        <5>3. QED
          BY <5>1, <5>2
      <4>5. QED
        BY <4>1, <4>2, <4>3, <4>4
    <3>5. QED
      BY <3>2, <3>3, <3>4
  <2>4. QED
    BY <2>2, <2>3
<1>21. ASSUME ~ adjacent, NEW w \in Ways PROVE pairs'[w] \subseteq Dependences(w)
  <2>1. pairs[w] \subseteq Dependences(w)
    BY <1>13, <1>21
  <2>2. CASE w = way
    <3>1. pairs'[w] = pairs[w] \cup new
      BY <1>1, <1>5, <1>21, <2>2
    <3>2. p \in ToSet(Menu(w))
      BY <1>5, <1>13, <1>14, <2>2 DEF Kept
    <3>3. new \subseteq Dependences(w)
      BY <1>2, <2>2, <3>2, DependencesForm
    <3>4. QED
      BY <2>1, <3>1, <3>3
  <2>3. CASE w # way
    BY <1>1, <1>5, <1>21, <2>1, <2>3
  <2>4. QED
    BY <2>2, <2>3
<1>22. QED
  BY <1>3, <1>4, <1>19, <1>20, <1>21 DEF Found

(***************************************************************************)
(* Every step keeps the dependences found exact: an invocation that       *)
(* executes nothing and a pair that is not executed have none to add.      *)
(***************************************************************************)
LEMMA SkipFound ==
  ASSUME IInv, Found, SkipInvocation
  PROVE  Found'
<1>1. /\ input' = input /\ menu' = menu /\ pairs' = pairs /\ status' = "next" /\ status = "next"
      /\ invocNum' = invocNum + 1 /\ invocNum <= Len(Program) /\ Program[invocNum] = <<>>
  BY DEF SkipInvocation, Invocation
<1>2. TypedState /\ invocNum \in Nat \ {0} /\ Len(Program) \in Nat
  BY TypeFacts, ThroughEnds DEF IInv
<1>3. ASSUME NEW way \in Ways, NEW k \in DOMAIN menu[way], NEW n \in 1 .. Len(Program),
             Covered(n, way, k)', ~ Covered(n, way, k)
      PROVE  Held(n, way, menu[way][k])
  <2>1. n = invocNum
    BY <1>1, <1>2, <1>3 DEF Covered
  <2>2. Program[n] = <<>>
    BY <1>1, <2>1
  <2>3. \A i : Of(Program[n], i) = {}
    BY <2>2 DEF Of
  <2>4. Program[n] \in Seq(Executed)
    BY <2>2
  <2>5. QED
    BY <2>3, <2>4, NotExecuted
<1>4. QED
  BY <1>1, <1>3, QuietFound

LEMMA SkipPairFound ==
  ASSUME IInv, Found, SkipPair
  PROVE  Found'
<1>1. /\ input' = input /\ menu' = menu /\ pairs' = pairs /\ status' = "pairs" /\ status = "pairs"
      /\ invocNum' = invocNum /\ pass' = pass /\ at' = at + 1 /\ at <= Len(menu[pass])
      /\ instances[menu[pass][at][1]] = 0 /\ instances[menu[pass][at][2]] = 0
  BY DEF SkipPair, Skips, Pair
<1>2. /\ TypedState /\ input \in Inputs /\ invocNum \in Nat \ {0} /\ Len(Program) \in Nat
      /\ pass \in Ways /\ at \in Nat \ {0} /\ KeepsCount
      /\ \A way \in Ways : DOMAIN menu[way] = 1 .. Len(menu[way]) /\ Len(menu[way]) \in Nat
  BY TypeFacts, ThroughEnds DEF IInv
<1>3. ASSUME NEW way \in Ways, NEW k \in DOMAIN menu[way], NEW n \in 1 .. Len(Program),
             Covered(n, way, k)', ~ Covered(n, way, k)
      PROVE  Held(n, way, menu[way][k])
  <2>1. n = invocNum /\ Passed(way, k)' /\ ~ Passed(way, k)
    BY <1>1, <1>3 DEF Covered
  <2>2. way = pass /\ k < at + 1 /\ ~ (k < at)
    BY <1>1, <2>1 DEF Passed
  <2>3. k = at
    BY <1>2, <2>2
  <2>4. menu[way][k] \in Instrs \X Instrs
    BY <1>2, PairStreams
  <2>5. instances[menu[way][k][1]] = 0 /\ instances[menu[way][k][2]] = 0
    BY <1>1, <2>2, <2>3
  <2>6. Program[n] \in Seq(Executed)
    BY <1>2, InvocationFacts
  <2>7. \A i \in Instrs : instances[i] = 0 => Of(Program[n], i) = {}
    <3>1. SUFFICES ASSUME NEW i \in Instrs, instances[i] = 0 PROVE Of(Program[n], i) = {}
      OBVIOUS
    <3>2. instances[i] = NumInstancesInInvocation(n, i)
      BY <1>1, <1>2, <2>1 DEF KeepsCount
    <3>3. CountOf(Program[n], i) = 0
      BY <1>2, <3>1, <3>2, NumInstancesExact
    <3>4. IsFiniteSet(Of(Program[n], i))
      BY <2>6, OfFinite
    <3>5. QED
      BY <3>3, <3>4, FS_EmptySet DEF CountOf
  <2>8. Of(Program[n], menu[way][k][1]) = {} /\ Of(Program[n], menu[way][k][2]) = {}
    BY <2>4, <2>5, <2>7
  <2>9. QED
    BY <2>6, <2>8, NotExecuted
<1>4. QED
  BY <1>1, <1>3, QuietFound

LEMMA PassFound ==
  ASSUME IInv, Found, StartInvocation \/ NextPass \/ EndInvocation
  PROVE  Found'
<1>1. /\ TypedState /\ invocNum \in Nat \ {0} /\ pass \in Ways /\ at \in Nat \ {0}
      /\ \A way \in Ways : DOMAIN menu[way] = 1 .. Len(menu[way]) /\ Len(menu[way]) \in Nat
  BY TypeFacts DEF IInv
<1>2. /\ input' = input /\ menu' = menu /\ pairs' = pairs /\ status' # "written"
  BY DEF StartInvocation, NextPass, EndInvocation
<1>3. ASSUME NEW way \in Ways, NEW k \in DOMAIN menu[way], NEW n \in 1 .. Len(Program),
             Covered(n, way, k)'
      PROVE  Covered(n, way, k)
  <2>1. k \in 1 .. Len(menu[way]) /\ Len(menu[way]) \in Nat /\ n \in Nat
    BY <1>1
  <2>2. CASE StartInvocation
    <3>1. invocNum' = invocNum /\ pass' = "rw" /\ at' = 1
      BY <2>2 DEF StartInvocation
    <3>2. ~ Passed(way, k)'
      BY <2>1, <3>1 DEF Passed
    <3>3. QED
      BY <1>3, <3>1, <3>2 DEF Covered
  <2>3. CASE NextPass
    <3>1. status = "pairs" /\ status' = status /\ invocNum' = invocNum
          /\ pass = "rw" /\ pass' = "ww" /\ at' = 1 /\ at > Len(menu["rw"])
      BY <2>3 DEF NextPass
    <3>2. Passed(way, k)' => way = "rw"
      BY <2>1, <3>1 DEF Passed
    <3>3. Passed(way, k)' => Passed(way, k)
      BY <1>1, <2>1, <3>1, <3>2 DEF Passed
    <3>4. QED
      BY <1>3, <3>1, <3>3 DEF Covered
  <2>4. CASE EndInvocation
    <3>1. status = "pairs" /\ status' = "next" /\ invocNum' = invocNum + 1
          /\ pass = "ww" /\ at > Len(menu["ww"])
      BY <2>4 DEF EndInvocation
    <3>2. Passed(way, k)
      BY <1>1, <2>1, <3>1 DEF Passed, Ways
    <3>3. n < invocNum + 1
      BY <1>3, <3>1 DEF Covered
    <3>4. QED
      BY <1>1, <2>1, <3>1, <3>2, <3>3 DEF Covered
  <2>5. QED
    BY <2>2, <2>3, <2>4
<1>4. QED
  BY <1>2, <1>3, QuietFound

LEMMA ExitFound ==
  ASSUME Found, RunOut \/ TimeOut \/ Output \/ UNCHANGED vars
  PROVE  Found'
<1>1. /\ input' = input /\ menu' = menu /\ pairs' = pairs /\ invocNum' = invocNum
      /\ pass' = pass /\ at' = at
      /\ status' = "pairs" => status = "pairs"
  BY DEF RunOut, TimeOut, Output, vars
<1>2. status' = "written" => invocNum' > Len(Program)
  BY DEF Found, RunOut, TimeOut, Output, vars
<1>3. ASSUME NEW way \in Ways, NEW k \in DOMAIN menu[way], NEW n \in 1 .. Len(Program),
             Covered(n, way, k)'
      PROVE  Covered(n, way, k)
  BY <1>1, <1>3 DEF Covered, Passed
<1>4. QED
  BY <1>1, <1>2, <1>3, QuietFound

LEMMA StepFound ==
  ASSUME IInv, CountsExact, SetsExact, SetsExact', UserAccesses, GcdTestAgrees', FoundExact,
         [Next \/ Exited]_vars
  PROVE  FoundExact'
<1>1. input' = input
  BY SameOrder
<1>2. SUFFICES ASSUME Conditions PROVE Found'
  BY <1>1, SameFacts DEF FoundExact
<1>3. Found
  BY <1>2 DEF FoundExact
<1>4. CASE AnalysePair
  <2>1. \A p, way, u : p = Pair /\ way = pass /\ u = invocNum => Found'
    BY <1>2, <1>3, <1>4, AnalyseFound
  <2>2. QED
    BY <2>1
<1>5. CASE SkipInvocation
  BY <1>3, <1>5, SkipFound
<1>6. CASE SkipPair
  BY <1>3, <1>6, SkipPairFound
<1>7. CASE StartInvocation \/ NextPass \/ EndInvocation
  BY <1>3, <1>7, PassFound
<1>8. CASE RunOut \/ TimeOut \/ Output \/ Exited \/ UNCHANGED vars
  BY <1>3, <1>8, ExitFound DEF Exited
<1>9. QED
  BY <1>4, <1>5, <1>6, <1>7, <1>8 DEF Next

LEMMA InitFound ==
  ASSUME Init
  PROVE  FoundExact
<1>1. /\ input \in Inputs /\ status = "next" /\ invocNum = 1
      /\ menu = [way \in Ways |-> Menu(way)] /\ pairs = [way \in Ways |-> {}]
  BY DEF Init, Ways
<1>2. ASSUME NEW way \in Ways
      PROVE  /\ menu[way] = Menu(way) /\ pairs[way] = {}
             /\ \A p : p \in ToSet(Menu(way)) <=> \E k \in DOMAIN Menu(way) : p = Menu(way)[k]
  <2>1. menu[way] = Menu(way) /\ pairs[way] = {}
    BY <1>1
  <2>2. QED
    BY <2>1 DEF ToSet
<1>3. \A n \in 1 .. Len(Program) : \A way, k : ~ Covered(n, way, k)
  BY <1>1, ProgramDomain DEF Covered
<1>4. Kept
  BY <1>2, <1>3 DEF Kept
<1>5. Dropped
  BY <1>2 DEF Dropped
<1>6. QED
  BY <1>1, <1>2, <1>4, <1>5 DEF FoundExact, Found

LEMMA FoundPairs ==
  ASSUME TypedState, FoundExact
  PROVE  PairsExact
<1>1. SUFFICES ASSUME status = "written", input.mode # "adjacent", CallsInCacheOrder, ConstantCallsStay,
                      NEW way \in Ways
               PROVE  pairs[way] = Dependences(way)
  BY DEF PairsExact, Ways
<1>2. Found /\ Kept /\ Dropped /\ invocNum > Len(Program)
  BY <1>1 DEF FoundExact, Conditions, Found
<1>3. pairs[way] \subseteq Dependences(way)
  BY <1>1, <1>2 DEF Found
<1>4. input \in Inputs /\ invocNum \in Nat /\ Len(Program) \in Nat
  BY TypeFacts, ThroughEnds
<1>5. ASSUME NEW p \in ToSet(Menu(way)), NEW n \in 1 .. Len(Program)
      PROVE  Symmetric(Ids(n, p), way) \subseteq pairs[way]
  <2>1. Held(n, way, p)
    <3>1. CASE Gone(way, p)
      BY <1>1, <3>1 DEF Gone
    <3>2. CASE ~ Gone(way, p)
      <4>1. PICK k \in DOMAIN menu[way] : menu[way][k] = p
        BY <1>2, <3>2 DEF Dropped
      <4>2. Covered(n, way, k)
        BY <1>2, <1>4 DEF Covered
      <4>3. QED
        BY <1>2, <4>1, <4>2 DEF Kept
    <3>3. QED
      BY <3>1, <3>2
  <2>2. QED
    BY <1>1, <2>1 DEF Held
<1>6. Dependences(way) \subseteq pairs[way]
  BY <1>4, <1>5, DependencesForm
<1>7. QED
  BY <1>3, <1>6

LEMMA FoundAdjacent ==
  ASSUME TypedState, FoundExact
  PROVE  AdjacentExact
<1> DEFINE works(n, p) ==
             (\E x \in ToSet(Program[n]) : x.instr \in {p[1], p[2]}) =>
               Adjacent(n, p) # {} /\ Adjacent(n, p) = 0 .. Max(Adjacent(n, p))
           left(way) == {p \in ToSet(Menu(way)) : \A n \in DOMAIN Program : works(n, p)}
<1>1. \A n, p : works(n, p) <=> Works(n, p)
  BY DEF Works, NoGap
<1>2. AdjacentExact = (status = "written" /\ input.mode = "adjacent" /\ CallsInCacheOrder =>
                         \A way \in Ways : ToSet(menu[way]) = left(way))
  BY DEF AdjacentExact, Ways
<1> HIDE DEF works
<1>3. SUFFICES ASSUME status = "written", input.mode = "adjacent", CallsInCacheOrder, NEW way \in Ways
               PROVE  ToSet(menu[way]) = left(way)
  BY <1>2
<1>4. Found /\ Kept /\ Dropped /\ invocNum > Len(Program)
  BY <1>3 DEF FoundExact, Conditions, Found
<1>5. input \in Inputs /\ invocNum \in Nat /\ Len(Program) \in Nat /\ DOMAIN Program = 1 .. Len(Program)
  BY TypeFacts, ProgramDomain
<1>6. \A p : p \in ToSet(menu[way]) <=> \E k \in DOMAIN menu[way] : p = menu[way][k]
  BY DEF ToSet
<1>7. \A p : p \in left(way) <=> p \in ToSet(Menu(way)) /\ \A n \in 1 .. Len(Program) : Works(n, p)
  BY <1>1, <1>5
<1> HIDE DEF left
<1>8. ASSUME NEW k \in DOMAIN menu[way] PROVE menu[way][k] \in left(way)
  <2>1. menu[way][k] \in ToSet(Menu(way))
    BY <1>4 DEF Kept
  <2>2. ASSUME NEW n \in 1 .. Len(Program) PROVE Works(n, menu[way][k])
    <3>1. Covered(n, way, k)
      BY <1>4, <1>5 DEF Covered
    <3>2. QED
      BY <1>3, <1>4, <3>1 DEF Kept, Held
  <2>3. QED
    BY <1>7, <2>1, <2>2
<1>9. ASSUME NEW p \in left(way) PROVE p \in ToSet(menu[way])
  <2>1. p \in ToSet(Menu(way)) /\ ~ Gone(way, p)
    BY <1>3, <1>7, <1>9 DEF Gone
  <2>2. QED
    BY <1>4, <1>6, <2>1 DEF Dropped
<1>10. QED
  BY <1>6, <1>8, <1>9

(***************************************************************************)
(* The dependences found in the end are those of the execution.            *)
(***************************************************************************)
LEMMA FoundAlways ==
  ASSUME UserAccesses
  PROVE  Spec /\ []GcdTestAgrees => [](TypedState /\ FoundExact)
<1> DEFINE Inv == IInv /\ CountsExact /\ SetsExact /\ FoundExact
<1>1. Init => Inv
  BY InitInv, InitExact, InitFound
<1>2. Inv /\ GcdTestAgrees' /\ [Next \/ Exited]_vars => Inv'
  BY StepInv, StepCountsExact, StepSetsExact, StepFound
<1>3. Inv => TypedState /\ FoundExact
  BY DEF IInv
<1>4. QED
  BY <1>1, <1>2, <1>3, PTL DEF Spec

(***************************************************************************)
(* The modes that write dependences (loop_analysis_memeff and the passes   *)
(* of invocation_analysis_memeff): what is written in the end is what the  *)
(* execution did, for every program, menu and number of streams.  A pair   *)
(* that isConstantCallID removes from the menu has been found with all     *)
(* identifiers it will ever have, and no tag is wrong.  Given are          *)
(* addresses in the lower half of memory and a GCD test that answers as    *)
(* the byte-by-byte test does for the patterns fetched.                    *)
(***************************************************************************)
THEOREM PairsAlwaysExact ==
  ASSUME UserAccesses
  PROVE  Spec /\ []GcdTestAgrees => []PairsExact
<1>1. TypedState /\ FoundExact => PairsExact
  BY FoundPairs
<1>2. QED
  BY <1>1, FoundAlways, PTL

(***************************************************************************)
(* Adjacent mode of invocation_analysis_memeff: the pairs left in the menu *)
(* are those whose conflicts between adjacent iterations have no gap in    *)
(* any invocation that executes them, under the same two conditions.       *)
(***************************************************************************)
THEOREM AdjacentAlwaysExact ==
  ASSUME UserAccesses
  PROVE  Spec /\ []GcdTestAgrees => []AdjacentExact
<1>1. TypedState /\ FoundExact => AdjacentExact
  BY FoundAdjacent
<1>2. QED
  BY <1>1, FoundAlways, PTL
=============================================================================
