---------------------------- MODULE MemSets_proofs ----------------------------
(***************************************************************************)
(* Facts about data that the proofs of the tracer, of its reader and of    *)
(* the analysis share: induction over the natural numbers, FlattenSeq of   *)
(* the community modules, with which the models say what a sequence of     *)
(* calls, of segments or of entries stands for, and MapThenSumSet, with    *)
(* which they count.  Then the operators of MemSets, for every width of    *)
(* the machine's words: arithmetic of wrapped addresses, how a contiguous  *)
(* set numbers its instances, and what recording one access does to what a *)
(* set stands for.                                                         *)
(***************************************************************************)
EXTENDS MemSets, SequencesExt, SequenceTheorems, FiniteSetTheorems,
        WellFoundedInduction, TLAPS

-----------------------------------------------------------------------------
(* Data.                                                                   *)

(***************************************************************************)
(* Every non-empty set of natural numbers has a least element.             *)
(***************************************************************************)
LEMMA LeastNatural ==
  ASSUME NEW T \in SUBSET Nat, T # {}
  PROVE  \E x \in T : \A y \in T : x <= y
<1> DEFINE R == OpToRel(<, Nat)
<1>1. \E x \in T : \A y \in T : ~ (<<y, x>> \in R)
  BY NatLessThanWellFounded, WFMin
<1>2. \A x, y \in Nat : y < x => <<y, x>> \in R
  BY DEF OpToRel
<1> HIDE DEF R
<1>3. PICK x \in T : \A y \in T : ~ (<<y, x>> \in R)
  BY <1>1
<1>4. ASSUME NEW y \in T PROVE x <= y
  <2>1. x \in Nat /\ y \in Nat /\ ~ (<<y, x>> \in R)
    BY <1>3
  <2>2. ~ (y < x)
    BY <2>1, <1>2
  <2>3. QED
    BY <2>1, <2>2
<1>5. QED
  BY <1>4

(***************************************************************************)
(* Induction over the natural numbers, for a set.                          *)
(***************************************************************************)
LEMMA SetInduction ==
  ASSUME NEW S, 0 \in S, \A n \in Nat : n \in S => n + 1 \in S
  PROVE  Nat \subseteq S
<1> DEFINE T == Nat \ S
<1>1. SUFFICES ASSUME T # {} PROVE FALSE
  OBVIOUS
<1>2. PICK x \in T : \A y \in T : x <= y
  BY <1>1, LeastNatural
<1>3. x \in Nat /\ x \notin S /\ x # 0
  OBVIOUS
<1>4. x - 1 \in Nat /\ x - 1 \notin T
  BY <1>2, <1>3
<1>5. QED
  BY <1>3, <1>4

(***************************************************************************)
(* Two remainders whose difference is a multiple of the modulus are equal. *)
(***************************************************************************)
LEMMA MultipleBelow ==
  ASSUME NEW N \in Nat, N > 0, NEW d \in Int, NEW r \in 0 .. N - 1, NEW s \in 0 .. N - 1,
         N * d = r - s
  PROVE  r = s
<1>1. N * d < N /\ N * d > -N
  OBVIOUS
<1>2. ASSUME d >= 1 PROVE FALSE
  <2>1. N * d >= N * 1
    BY <1>2
  <2>2. QED
    BY <1>1, <2>1
<1>3. ASSUME d <= -1 PROVE FALSE
  <2>1. N * d <= N * (-1)
    BY <1>3
  <2>2. QED
    BY <1>1, <2>1
<1>4. d = 0
  BY <1>2, <1>3
<1>5. QED
  BY <1>4

(***************************************************************************)
(* The members of two sequences one after the other.                       *)
(***************************************************************************)
LEMMA ConcatParts ==
  ASSUME NEW S, NEW s \in Seq(S), NEW t \in Seq(S)
  PROVE  /\ s \o t \in Seq(S) /\ Len(s \o t) = Len(s) + Len(t)
         /\ \A i \in 1 .. Len(s) : (s \o t)[i] = s[i]
         /\ \A i \in 1 .. Len(t) : (s \o t)[Len(s) + i] = t[i]
<1>1. /\ s \o t \in Seq(S) /\ Len(s \o t) = Len(s) + Len(t)
      /\ \A i \in 1 .. Len(s) + Len(t) :
           (s \o t)[i] = IF i <= Len(s) THEN s[i] ELSE t[i - Len(s)]
  BY ConcatProperties
<1>2. Len(s) \in Nat /\ Len(t) \in Nat
  BY LenProperties
<1>3. ASSUME NEW i \in 1 .. Len(t) PROVE (s \o t)[Len(s) + i] = t[i]
  <2>1. Len(s) + i \in 1 .. Len(s) + Len(t) /\ ~ (Len(s) + i <= Len(s)) /\ (Len(s) + i) - Len(s) = i
    BY <1>2
  <2>2. QED
    BY <1>1, <2>1
<1>4. ASSUME NEW i \in 1 .. Len(s) PROVE (s \o t)[i] = s[i]
  BY <1>1, <1>2
<1>5. QED
  BY <1>1, <1>3, <1>4

(***************************************************************************)
(* The same as a predicate, for sequences whose lengths are known.         *)
(***************************************************************************)
Joined(u, s, t, m, n) ==
  /\ Len(u) = m + n
  /\ \A i \in 1 .. m : u[i] = s[i]
  /\ \A i \in 1 .. n : u[m + i] = t[i]

LEMMA ConcatJoins ==
  ASSUME NEW S, NEW s \in Seq(S), NEW t \in Seq(S)
  PROVE  s \o t \in Seq(S) /\ Joined(s \o t, s, t, Len(s), Len(t))
BY ConcatParts DEF Joined

-----------------------------------------------------------------------------
\* The recursive function that FlattenSeq defines, on the first n members.
IsFlat(f, s, n) ==
  f = [i \in 1 .. n |-> IF i = 1 THEN s[i] ELSE f[i - 1] \o s[i]]

\* Two sequences have the same first n members.
Agree(s, t, n) == \A i \in 1 .. n : s[i] = t[i]

(***************************************************************************)
(* There is such a function, and it is of sequences.                       *)
(***************************************************************************)
LEMMA FlatExists ==
  ASSUME NEW S, NEW s \in Seq(Seq(S))
  PROVE  \A n \in 0 .. Len(s) : \E f \in [1 .. n -> Seq(S)] : IsFlat(f, s, n)
<1> DEFINE P(n) == n \in 0 .. Len(s) => \E f \in [1 .. n -> Seq(S)] : IsFlat(f, s, n)
           T == {n \in Nat : P(n)}
<1>1. 0 \in T
  <2> DEFINE f == [i \in 1 .. 0 |-> <<>>]
  <2>1. f \in [1 .. 0 -> Seq(S)]
    OBVIOUS
  <2>2. IsFlat(f, s, 0)
    BY DEF IsFlat
  <2>3. QED
    BY <2>1, <2>2
<1>2. ASSUME NEW n \in Nat, P(n) PROVE P(n + 1)
  <2>1. SUFFICES ASSUME n + 1 \in 0 .. Len(s)
                 PROVE  \E f \in [1 .. n + 1 -> Seq(S)] : IsFlat(f, s, n + 1)
    OBVIOUS
  <2>2. PICK g \in [1 .. n -> Seq(S)] : IsFlat(g, s, n)
    BY <1>2, <2>1
  <2>3. s[n + 1] \in Seq(S)
    BY <2>1
  <2> DEFINE new == IF n = 0 THEN s[1] ELSE g[n] \o s[n + 1]
  <2>4. new \in Seq(S)
    BY <2>2, <2>3, ConcatProperties
  <2> DEFINE f == [i \in 1 .. n + 1 |-> IF i = n + 1 THEN new ELSE g[i]]
  <2>5. f \in [1 .. n + 1 -> Seq(S)]
    BY <2>2, <2>4
  <2>6. ASSUME NEW i \in 1 .. n + 1
        PROVE  f[i] = IF i = 1 THEN s[i] ELSE f[i - 1] \o s[i]
    <3>1. CASE i = n + 1
      BY <3>1
    <3>2. CASE i # n + 1
      <4>1. i \in 1 .. n /\ f[i] = g[i]
        BY <3>2
      <4>2. g[i] = IF i = 1 THEN s[i] ELSE g[i - 1] \o s[i]
        BY <2>2, <4>1 DEF IsFlat
      <4>3. i # 1 => i - 1 \in 1 .. n /\ i - 1 # n + 1
        BY <4>1
      <4>4. i # 1 => f[i - 1] = g[i - 1]
        BY <4>3
      <4> HIDE DEF f
      <4>5. QED
        BY <4>1, <4>2, <4>4
    <3>3. QED
      BY <3>1, <3>2
  <2>7. IsFlat(f, s, n + 1)
    <3>1. f = [i \in 1 .. n + 1 |-> f[i]]
      OBVIOUS
    <3> HIDE DEF f
    <3>2. QED
      BY <2>6, <3>1 DEF IsFlat
  <2>8. QED
    BY <2>5, <2>7
<1>3. Nat \subseteq T
  <2>1. ASSUME NEW n \in Nat, n \in T PROVE n + 1 \in T
    BY <1>2, <2>1
  <2> HIDE DEF T
  <2>2. QED
    BY <1>1, <2>1, SetInduction
<1>4. QED
  BY <1>3

(***************************************************************************)
(* Two of them agree as far as the sequences they flatten.                 *)
(***************************************************************************)
LEMMA FlatUnique ==
  ASSUME NEW s, NEW t, NEW n \in Nat, NEW m \in Nat, n <= m,
         NEW f, IsFlat(f, s, n), NEW g, IsFlat(g, t, m),
         Agree(s, t, n)
  PROVE  Agree(f, g, n)
<1> DEFINE T == {i \in Nat : i + 1 \in 1 .. n => f[i + 1] = g[i + 1]}
<1>1. \A i \in 1 .. n : /\ f[i] = IF i = 1 THEN s[i] ELSE f[i - 1] \o s[i]
                        /\ g[i] = IF i = 1 THEN t[i] ELSE g[i - 1] \o t[i]
  <2>1. \A i \in 1 .. n : i \in 1 .. m
    OBVIOUS
  <2>2. QED
    BY <2>1 DEF IsFlat
<1>a. \A i \in 1 .. n : s[i] = t[i]
  BY DEF Agree
<1>2. 0 \in T
  <2>1. ASSUME 1 \in 1 .. n PROVE f[1] = g[1]
    BY <1>1, <1>a, <2>1
  <2>2. QED
    BY <2>1
<1>3. ASSUME NEW i \in Nat, i \in T PROVE i + 1 \in T
  <2>1. ASSUME (i + 1) + 1 \in 1 .. n PROVE f[(i + 1) + 1] = g[(i + 1) + 1]
    <3>1. i + 1 \in 1 .. n /\ (i + 1) + 1 # 1 /\ ((i + 1) + 1) - 1 = i + 1
      BY <2>1
    <3>2. f[i + 1] = g[i + 1]
      BY <1>3, <3>1
    <3>3. QED
      BY <1>1, <1>a, <2>1, <3>1, <3>2
  <2>2. QED
    BY <2>1
<1>4. Nat \subseteq T
  <2> HIDE DEF T
  <2>1. QED
    BY <1>2, <1>3, SetInduction
<1>5. ASSUME NEW i \in 1 .. n PROVE f[i] = g[i]
  <2>1. i - 1 \in T /\ (i - 1) + 1 = i
    BY <1>4
  <2>2. QED
    BY <2>1
<1>6. QED
  BY <1>5 DEF Agree

LEMMA FlattenIsFlat ==
  ASSUME NEW S, NEW s \in Seq(Seq(S)), s # <<>>
  PROVE  \E f \in [1 .. Len(s) -> Seq(S)] :
           IsFlat(f, s, Len(s)) /\ FlattenSeq(s) = f[Len(s)]
<1> DEFINE g == CHOOSE f : IsFlat(f, s, Len(s))
<1>1. PICK f \in [1 .. Len(s) -> Seq(S)] : IsFlat(f, s, Len(s))
  BY FlatExists
<1>2. IsFlat(g, s, Len(s))
  BY <1>1
<1>3. FlattenSeq(s) = g[Len(s)]
  BY DEF FlattenSeq, IsFlat
<1> HIDE DEF g
<1> DEFINE n == Len(s)
<1>a. n \in Nat /\ n <= n /\ IsFlat(f, s, n) /\ IsFlat(g, s, n) /\ Agree(s, s, n)
  BY <1>1, <1>2 DEF Agree
<1>b. Agree(f, g, n)
  <2> HIDE DEF n
  <2> QED BY <1>a, FlatUnique
<1>4. \A i \in 1 .. Len(s) : f[i] = g[i]
  BY <1>b DEF Agree
<1>5. Len(s) \in 1 .. Len(s)
  OBVIOUS
<1>6. QED
  BY <1>1, <1>3, <1>4, <1>5

LEMMA FlattenEmpty == FlattenSeq(<<>>) = <<>>
  BY DEF FlattenSeq

LEMMA FlattenType ==
  ASSUME NEW S, NEW s \in Seq(Seq(S))
  PROVE  FlattenSeq(s) \in Seq(S)
<1>1. CASE s = <<>>
  BY <1>1, FlattenEmpty, EmptySeq
<1>2. CASE s # <<>>
  <2>1. Len(s) \in 1 .. Len(s)
    BY <1>2
  <2>2. PICK f \in [1 .. Len(s) -> Seq(S)] : FlattenSeq(s) = f[Len(s)]
    BY <1>2, FlattenIsFlat
  <2>3. QED
    BY <2>1, <2>2
<1>3. QED
  BY <1>1, <1>2

LEMMA FlattenAppend ==
  ASSUME NEW S, NEW s \in Seq(Seq(S)), NEW x \in Seq(S)
  PROVE  FlattenSeq(Append(s, x)) = FlattenSeq(s) \o x
<1> DEFINE t == Append(s, x)
           n == Len(s)
<1>1. t \in Seq(Seq(S)) /\ t # <<>> /\ Len(t) = n + 1 /\ t[n + 1] = x
      /\ \A i \in 1 .. n : t[i] = s[i]
  <2>1. /\ t \in Seq(Seq(S)) /\ Len(t) = n + 1
        /\ \A i \in 1 .. n : t[i] = s[i]
        /\ t[n + 1] = x
    BY AppendProperties
  <2>2. QED
    BY <2>1
<1>2. n \in Nat
  OBVIOUS
<1> HIDE DEF t
<1>3. PICK g : IsFlat(g, t, n + 1) /\ FlattenSeq(t) = g[n + 1]
  BY <1>1, FlattenIsFlat
<1>4. g[n + 1] = IF n + 1 = 1 THEN x ELSE g[n] \o x
  <2>1. n + 1 \in 1 .. n + 1 /\ (n + 1) - 1 = n
    BY <1>2
  <2>2. QED
    BY <1>1, <1>3, <2>1 DEF IsFlat
<1>5. CASE s = <<>>
  <2>1. FlattenSeq(s) = <<>> /\ n + 1 = 1
    BY <1>5, FlattenEmpty
  <2>2. QED
    BY <1>3, <1>4, <2>1, ConcatEmptySeq DEF t
<1>6. CASE s # <<>>
  <2> DEFINE m == n + 1
  <2>1. n \in 1 .. n /\ m # 1 /\ n <= m /\ m \in Nat
    BY <1>6
  <2>2. PICK f : IsFlat(f, s, n) /\ FlattenSeq(s) = f[n]
    BY <1>6, FlattenIsFlat
  <2>3. Agree(s, t, n)
    BY <1>1 DEF Agree
  <2>4. IsFlat(g, t, m)
    BY <1>3
  <2> HIDE DEF n, m
  <2>5. Agree(f, g, n)
    BY <1>2, <2>1, <2>2, <2>3, <2>4, FlatUnique
  <2>6. f[n] = g[n]
    BY <2>1, <2>5 DEF Agree
  <2>7. QED
    BY <1>3, <1>4, <2>1, <2>2, <2>6 DEF t, m
<1>7. QED
  BY <1>5, <1>6

(***************************************************************************)
(* The form the proofs use: q says of one index more what p says of 1..n.  *)
(***************************************************************************)
LEMMA FlattenExtend ==
  ASSUME NEW S, NEW n \in Nat, NEW p \in [1 .. n -> Seq(S)],
         NEW q \in [1 .. n + 1 -> Seq(S)], \A i \in 1 .. n : q[i] = p[i]
  PROVE  /\ FlattenSeq(q) = FlattenSeq(p) \o q[n + 1]
         /\ FlattenSeq(p) \in Seq(S) /\ FlattenSeq(q) \in Seq(S)
<1> DEFINE x == q[n + 1]
           r == Append(p, x)
<1>1. x \in Seq(S) /\ p \in Seq(Seq(S)) /\ q \in Seq(Seq(S))
  BY IsASeq
<1>2. Len(p) = n /\ Len(q) = n + 1
  BY <1>1
<1> HIDE DEF x
<1>3. /\ r \in Seq(Seq(S)) /\ Len(r) = n + 1 /\ r[n + 1] = x
      /\ \A i \in 1 .. n : r[i] = p[i]
  BY <1>1, <1>2, AppendProperties
<1> HIDE DEF r
<1>4. ASSUME NEW i \in 1 .. n + 1 PROVE q[i] = r[i]
  <2>1. CASE i = n + 1
    BY <1>3, <2>1 DEF x
  <2>2. CASE i \in 1 .. n
    BY <1>3, <2>2
  <2>3. QED
    BY <2>1, <2>2
<1>5. q = r
  BY <1>1, <1>2, <1>3, <1>4, SeqEqual
<1>6. FlattenSeq(r) = FlattenSeq(p) \o x
  BY <1>1, FlattenAppend DEF r
<1>7. QED
  BY <1>1, <1>5, <1>6, FlattenType DEF x

-----------------------------------------------------------------------------
(***************************************************************************)
(* MapThenSumSet of the community modules: w[x] is the weight of x, and    *)
(* the sum takes the members of a set out one by one.                      *)
(***************************************************************************)
AnyOf(T) == CHOOSE x \in T : TRUE

SumsUp(g, w, D) ==
  \A T \in D : g[T] = IF T = {} THEN 0 ELSE w[AnyOf(T)] + g[T \ {AnyOf(T)}]

UpToSize(S, n) == {T \in SUBSET S : Cardinality(T) <= n}

LEMMA OneTakenOut ==
  ASSUME NEW S, IsFiniteSet(S), NEW n \in Nat
  PROVE  /\ \A T \in UpToSize(S, n + 1) :
              T # {} => AnyOf(T) \in S /\ T \ {AnyOf(T)} \in UpToSize(S, n)
         /\ \A T \in UpToSize(S, 0) : T = {}
         /\ UpToSize(S, Cardinality(S)) = SUBSET S
         /\ Cardinality(S) \in Nat
<1>1. Cardinality(S) \in Nat
  BY FS_CardinalityType
<1>2. \A T \in SUBSET S : IsFiniteSet(T) /\ Cardinality(T) <= Cardinality(S) /\ Cardinality(T) \in Nat
  BY FS_Subset, FS_CardinalityType
<1>3. ASSUME NEW T \in UpToSize(S, n + 1), T # {}
      PROVE  AnyOf(T) \in S /\ T \ {AnyOf(T)} \in UpToSize(S, n)
  <2>1. T \in SUBSET S /\ Cardinality(T) <= n + 1 /\ Cardinality(T) \in Nat /\ IsFiniteSet(T)
    BY <1>2 DEF UpToSize
  <2>2. AnyOf(T) \in T
    BY <1>3 DEF AnyOf
  <2>3. Cardinality(T \ {AnyOf(T)}) = Cardinality(T) - 1
    BY <2>1, <2>2, FS_RemoveElement
  <2>4. Cardinality(T \ {AnyOf(T)}) <= n
    BY <2>1, <2>3
  <2>5. QED
    BY <2>1, <2>2, <2>4 DEF UpToSize
<1>4. \A T \in UpToSize(S, 0) : T = {}
  BY <1>2, FS_EmptySet DEF UpToSize
<1>5. UpToSize(S, Cardinality(S)) = SUBSET S
  BY <1>2 DEF UpToSize
<1>6. QED
  BY <1>1, <1>3, <1>4, <1>5

LEMMA SumExists ==
  ASSUME NEW S, IsFiniteSet(S), NEW w \in [S -> Nat]
  PROVE  \E g \in [SUBSET S -> Nat] : SumsUp(g, w, SUBSET S)
<1> DEFINE U(n) == UpToSize(S, n)
           P(n) == \E g \in [U(n) -> Nat] : SumsUp(g, w, U(n))
           N == {n \in Nat : P(n)}
<1>1. P(0)
  <2> DEFINE g == [T \in U(0) |-> 0]
  <2>1. g \in [U(0) -> Nat]
    OBVIOUS
  <2>2. SumsUp(g, w, U(0))
    BY OneTakenOut DEF SumsUp
  <2>3. QED
    BY <2>1, <2>2
<1>2. ASSUME NEW n \in Nat, P(n) PROVE P(n + 1)
  <2>1. PICK h \in [U(n) -> Nat] : SumsUp(h, w, U(n))
    BY <1>2
  <2> DEFINE V(T) == IF T = {} THEN 0 ELSE w[AnyOf(T)] + h[T \ {AnyOf(T)}]
             g == [T \in U(n + 1) |-> V(T)]
  <2>2. \A T \in U(n + 1) : T # {} => AnyOf(T) \in S /\ T \ {AnyOf(T)} \in U(n)
    BY OneTakenOut
  <2>3. \A T \in U(n + 1) : V(T) \in Nat
    BY <2>2
  <2>4. \A T \in U(n) : T \in U(n + 1) /\ h[T] = V(T)
    <3>1. ASSUME NEW T \in U(n) PROVE T \in U(n + 1)
      <4>1. T \in SUBSET S /\ Cardinality(T) <= n /\ Cardinality(T) \in Nat
        BY FS_Subset, FS_CardinalityType DEF UpToSize
      <4>2. QED
        BY <4>1 DEF UpToSize
    <3>2. QED
      BY <2>1, <3>1 DEF SumsUp
  <2> HIDE DEF V, U
  <2>5. g \in [U(n + 1) -> Nat]
    BY <2>3
  <2>6. \A T \in U(n) : g[T] = h[T]
    BY <2>4
  <2>7. ASSUME NEW T \in U(n + 1)
        PROVE  g[T] = IF T = {} THEN 0 ELSE w[AnyOf(T)] + g[T \ {AnyOf(T)}]
    <3>1. g[T] = V(T)
      OBVIOUS
    <3>2. T # {} => g[T \ {AnyOf(T)}] = h[T \ {AnyOf(T)}]
      BY <2>2, <2>6
    <3> HIDE DEF g
    <3>3. QED
      BY <3>1, <3>2 DEF V
  <2> HIDE DEF g
  <2>8. SumsUp(g, w, U(n + 1))
    BY <2>7 DEF SumsUp
  <2>9. QED
    BY <2>5, <2>8
<1>3. Nat \subseteq N
  <2>1. 0 \in N /\ \A n \in Nat : n \in N => n + 1 \in N
    BY <1>1, <1>2
  <2> HIDE DEF N
  <2>2. QED
    BY <2>1, SetInduction
<1>4. P(Cardinality(S))
  <2>1. Cardinality(S) \in Nat
    BY OneTakenOut
  <2>2. QED
    BY <1>3, <2>1
<1>5. U(Cardinality(S)) = SUBSET S
  BY OneTakenOut
<1>6. QED
  BY <1>4, <1>5

LEMMA SumUnique ==
  ASSUME NEW S, IsFiniteSet(S), NEW w, NEW g, SumsUp(g, w, SUBSET S),
         NEW h, SumsUp(h, w, SUBSET S)
  PROVE  g[S] = h[S]
<1> DEFINE N == {n \in Nat : \A T \in UpToSize(S, n) : g[T] = h[T]}
<1>1. \A n : UpToSize(S, n) \subseteq SUBSET S
  BY DEF UpToSize
<1>2. 0 \in N
  BY <1>1, OneTakenOut DEF SumsUp
<1>3. ASSUME NEW n \in Nat, n \in N PROVE n + 1 \in N
  <2>1. ASSUME NEW T \in UpToSize(S, n + 1) PROVE g[T] = h[T]
    <3>1. T \in SUBSET S
      BY <1>1
    <3>2. T # {} => T \ {AnyOf(T)} \in UpToSize(S, n)
      BY OneTakenOut
    <3>3. T # {} => g[T \ {AnyOf(T)}] = h[T \ {AnyOf(T)}]
      BY <1>3, <3>2
    <3>4. QED
      BY <3>1, <3>3 DEF SumsUp
  <2>2. QED
    BY <2>1
<1>4. Nat \subseteq N
  <2> HIDE DEF N
  <2>1. QED
    BY <1>2, <1>3, SetInduction
<1>5. Cardinality(S) \in N
  BY <1>4, OneTakenOut
<1>6. S \in UpToSize(S, Cardinality(S))
  BY OneTakenOut
<1>7. QED
  BY <1>5, <1>6

LEMMA SumIsNatural ==
  ASSUME NEW S, IsFiniteSet(S), NEW w \in [S -> Nat], NEW g, SumsUp(g, w, SUBSET S)
  PROVE  /\ g[S] \in Nat
         /\ (\A x \in S : w[x] = 0) => g[S] = 0
<1>1. PICK h \in [SUBSET S -> Nat] : SumsUp(h, w, SUBSET S)
  BY SumExists
<1>2. g[S] = h[S]
  BY <1>1, SumUnique
<1>3. ASSUME \A x \in S : w[x] = 0 PROVE g[S] = 0
  <2> DEFINE z == [T \in SUBSET S |-> 0]
  <2>1. \A T \in SUBSET S : T # {} => w[AnyOf(T)] = 0
    BY <1>3 DEF AnyOf
  <2>2. SumsUp(z, w, SUBSET S)
    BY <2>1 DEF SumsUp
  <2> HIDE DEF z
  <2>3. g[S] = z[S]
    BY <2>2, SumUnique
  <2>4. QED
    BY <2>3 DEF z
<1>4. QED
  BY <1>1, <1>2, <1>3

-----------------------------------------------------------------------------
(* Patterns.                                                               *)

(***************************************************************************)
(* Wrapping does nothing to a word, undoes adding or taking away the       *)
(* number of words, and always yields a word.                              *)
(***************************************************************************)
LEMMA WrapIdentity == \A x \in Word : Wrap(x) = x
  BY HAssumption DEF Word, Wrap, M

LEMMA WrapAround == \A x \in Word : Wrap(x + M) = x /\ Wrap(x - M) = x
  BY HAssumption DEF Word, Wrap, M

LEMMA WrapIsWord == \A x \in Int : Wrap(x) \in Word
  BY HAssumption DEF Word, Wrap, M

(***************************************************************************)
(* Wrapping in the middle of a sum changes nothing.                        *)
(***************************************************************************)
LEMMA WrapSum ==
  ASSUME NEW x \in Int, NEW y \in Int
  PROVE  Wrap(Wrap(x) + y) = Wrap(x + y)
<1> DEFINE z == Wrap(x) + y
<1>1. M \in Nat /\ M > 0
  BY HAssumption DEF M
<1>2. \A i \in Int : /\ i = M * (i \div M) + Wrap(i)
                     /\ i \div M \in Int /\ Wrap(i) \in 0 .. M - 1
  BY <1>1 DEF Wrap
<1>3. z \in Int /\ x + y \in Int
  BY <1>2
<1> DEFINE a == (x + y) \div M
           b == z \div M
           c == x \div M
<1>4. /\ a \in Int /\ b \in Int /\ c \in Int
      /\ x + y = M * a + Wrap(x + y)
      /\ z = M * b + Wrap(z)
      /\ x = M * c + Wrap(x)
  BY <1>2, <1>3
<1>5. Wrap(z) \in 0 .. M - 1 /\ Wrap(x + y) \in 0 .. M - 1 /\ Wrap(x) \in Int
  BY <1>2, <1>3
<1>6. z = Wrap(x) + y
  OBVIOUS
<1> HIDE DEF a, b, c, z
<1>7. M * (a - b - c) = M * a - M * b - M * c /\ M * a \in Int /\ M * b \in Int /\ M * c \in Int
  BY <1>1, <1>4
<1>8. M * (a - b - c) = Wrap(z) - Wrap(x + y)
  <2> DEFINE p == M * a
             q == M * b
             r == M * c
             u == Wrap(z)
             v == Wrap(x + y)
             w == Wrap(x)
  <2>1. /\ p \in Int /\ q \in Int /\ r \in Int /\ u \in Int /\ v \in Int /\ w \in Int
        /\ z = w + y /\ x + y = p + v /\ z = q + u /\ x = r + w
    BY <1>1, <1>4, <1>5, <1>6, <1>7
  <2>2. M * (a - b - c) = p - q - r
    BY <1>7
  <2> HIDE DEF p, q, r, u, v, w
  <2>3. p - q - r = u - v
    BY <2>1
  <2>4. QED
    BY <2>2, <2>3 DEF u, v
<1>9. a - b - c \in Int
  BY <1>4
<1>10. Wrap(z) = Wrap(x + y)
  BY <1>1, <1>5, <1>8, <1>9, MultipleBelow
<1>11. QED
  BY <1>10 DEF z

(***************************************************************************)
(* A stride taken as the signed distance of two addresses, or a base       *)
(* dumped as one, leads from the first address back to the second.         *)
(***************************************************************************)
LEMMA SignedDistance ==
  ASSUME NEW a \in Word, NEW b \in Word
  PROVE  /\ Signed(Wrap(a - b)) \in SignedWord
         /\ Wrap(b + Signed(Wrap(a - b))) = a
<1> DEFINE d == Wrap(a - b)
<1>1. d \in Word
  BY WrapIsWord, HAssumption DEF Word, M
<1>2. d = a - b \/ d = a - b + M
  <2>1. CASE a - b \in Word
    BY <2>1, WrapIdentity
  <2>2. CASE a - b + M \in Word
    <3>1. (a - b + M) - M = a - b
      BY HAssumption DEF M, Word
    <3> HIDE DEF d
    <3>2. QED
      BY <2>2, <3>1, WrapAround DEF d
  <2>3. QED
    BY <2>1, <2>2, HAssumption DEF Word, M
<1> HIDE DEF d
<1>3. Signed(d) \in SignedWord
  BY <1>1, HAssumption DEF Signed, SignedWord, Word, M
<1>4. b + Signed(d) \in {a, a + M, a - M}
  BY <1>1, <1>2, HAssumption DEF Signed, Word, M
<1>5. QED
  BY <1>3, <1>4, WrapIdentity, WrapAround DEF d

-----------------------------------------------------------------------------
(***************************************************************************)
(* Recording an access keeps a set's types and its numbering without gaps. *)
(***************************************************************************)
LEMMA NewEntryType ==
  ASSUME NEW a \in Access, NEW at \in Nat
  PROVE  NewMemSetEntry(a, at) \in MemSetEntry
  BY HAssumption DEF NewMemSetEntry, MemSetEntry, Access, SignedWord

LEMMA ExtendPatternType ==
  ASSUME NEW e \in MemSetEntry, NEW a \in Access
  PROVE  ExtendPattern(e, a) \in MemSetEntry
<1>1. Signed(Wrap(a.addr - e.base)) \in SignedWord
  BY SignedDistance DEF Access, MemSetEntry
<1> DEFINE d == Signed(Wrap(a.addr - e.base))
<1> HIDE DEF d
<1>2. d \in SignedWord
  BY <1>1 DEF d
<1>3. ExtendPattern(e, a) =
        [e EXCEPT !.stride = IF e.start = e.end THEN d ELSE @, !.end = @ + 1]
  BY DEF ExtendPattern, d
<1> DEFINE stride == IF e.start = e.end THEN d ELSE e.stride
<1>4. stride \in SignedWord
  BY <1>2 DEF MemSetEntry
<1> HIDE DEF stride
<1>5. ExtendPattern(e, a) = [e EXCEPT !.stride = stride, !.end = e.end + 1]
  BY <1>3 DEF stride
<1>6. e.end + 1 \in Nat
  BY DEF MemSetEntry
<1> DEFINE end == e.end + 1
<1> HIDE DEF end
<1>7. [e EXCEPT !.stride = stride, !.end = end] \in MemSetEntry
  BY <1>4, <1>6 DEF MemSetEntry, end
<1>8. QED
  BY <1>5, <1>7 DEF end

LEMMA NextInstanceType ==
  ASSUME NEW set \in MemSet
  PROVE  NextInstance(set) \in Nat
<1>1. CASE set = <<>>
  BY <1>1 DEF NextInstance
<1>2. CASE set # <<>>
  <2>1. set[Len(set)] \in MemSetEntry
    BY <1>2 DEF MemSet
  <2>2. QED
    BY <1>2, <2>1 DEF NextInstance, MemSetEntry
<1>3. QED
  BY <1>1, <1>2

LEMMA RecordType ==
  ASSUME NEW set \in MemSet, NEW a \in Access
  PROVE  RecordMemoryReference(set, a) \in MemSet
<1>1. CASE JoinsPattern(set, a)
  <2>1. set # <<>> /\ set[Len(set)] \in MemSetEntry
    BY <1>1 DEF JoinsPattern, MemSet
  <2>2. ExtendPattern(set[Len(set)], a) \in MemSetEntry
    BY <2>1, ExtendPatternType
  <2>3. RecordMemoryReference(set, a)
          = [set EXCEPT ![Len(set)] = ExtendPattern(set[Len(set)], a)]
    BY <1>1 DEF RecordMemoryReference
  <2>4. Len(set) \in 1 .. Len(set)
    BY <2>1 DEF MemSet
  <2>5. QED
    BY <2>2, <2>3, <2>4, ExceptSeq DEF MemSet
<1>2. CASE ~ JoinsPattern(set, a)
  BY <1>2, NextInstanceType, NewEntryType DEF RecordMemoryReference, MemSet
<1>3. QED
  BY <1>1, <1>2

LEMMA RecordContiguous ==
  ASSUME NEW set \in MemSet, NEW a \in Access, ContiguousFrom(set, 0)
  PROVE  ContiguousFrom(RecordMemoryReference(set, a), 0)
<1> DEFINE t == RecordMemoryReference(set, a)
           last == Len(set)
<1>1. \A i \in 1 .. Len(set) : set[i] \in MemSetEntry
  BY DEF MemSet
<1>2. CASE JoinsPattern(set, a)
  <2>1. set # <<>> /\ last \in 1 .. Len(set)
    BY <1>2 DEF JoinsPattern, MemSet
  <2>2. t = [set EXCEPT ![last] = ExtendPattern(set[last], a)]
    BY <1>2 DEF RecordMemoryReference
  <2>3. Len(t) = Len(set) /\ t[last] = ExtendPattern(set[last], a)
    BY <2>1, <2>2 DEF MemSet
  <2>4. \A i \in 1 .. Len(set) : i # last => t[i] = set[i]
    BY <2>1, <2>2 DEF MemSet
  <2>5. t[last].start = set[last].start /\ t[last].end = set[last].end + 1
    BY <1>1, <2>1, <2>3 DEF ExtendPattern, MemSetEntry
  <2> HIDE DEF t
  <2>6. ASSUME NEW i \in 1 .. Len(t)
        PROVE  /\ t[i].start <= t[i].end
               /\ t[i].start = IF i = 1 THEN 0 ELSE t[i - 1].end + 1
    <3>1. /\ set[i].start <= set[i].end
          /\ set[i].start = IF i = 1 THEN 0 ELSE set[i - 1].end + 1
      BY <2>3 DEF ContiguousFrom
    <3>2. set[i].start \in Nat /\ set[i].end \in Nat
      BY <1>1, <2>3 DEF MemSetEntry
    <3>3. i # 1 => i - 1 \in 1 .. Len(set) /\ i - 1 # last
      BY <2>1, <2>3 DEF MemSet
    <3>4. t[i].start = set[i].start /\ t[i].start <= t[i].end
      BY <2>3, <2>4, <2>5, <3>1, <3>2
    <3>5. QED
      BY <2>4, <3>1, <3>3, <3>4
  <2>7. QED
    BY <2>6 DEF ContiguousFrom, t
<1>3. CASE ~ JoinsPattern(set, a)
  <2> DEFINE new == NewMemSetEntry(a, NextInstance(set))
  <2>1. t = Append(set, new)
    BY <1>3 DEF RecordMemoryReference
  <2>2. new.start = NextInstance(set) /\ new.end = NextInstance(set)
    BY DEF NewMemSetEntry
  <2> HIDE DEF t, new
  <2>3. ASSUME NEW i \in 1 .. Len(t)
        PROVE  /\ t[i].start <= t[i].end
               /\ t[i].start = IF i = 1 THEN 0 ELSE t[i - 1].end + 1
    <3>1. CASE i \in 1 .. Len(set)
      <4>1. t[i] = set[i] /\ (i # 1 => t[i - 1] = set[i - 1])
        BY <2>1, <3>1 DEF MemSet
      <4>2. QED
        BY <3>1, <4>1 DEF ContiguousFrom
    <3>2. CASE i = Len(set) + 1
      <4>1. t[i] = new /\ (i # 1 => t[i - 1] = set[last])
        BY <2>1, <3>2 DEF MemSet
      <4>2. (i = 1) <=> (set = <<>>)
        BY <3>2 DEF MemSet
      <4>3. QED
        BY <2>2, <4>1, <4>2, NextInstanceType DEF NextInstance
    <3>3. QED
      BY <2>1, <3>1, <3>2 DEF MemSet
  <2>4. QED
    BY <2>3 DEF ContiguousFrom, t
<1>4. QED
  BY <1>2, <1>3

-----------------------------------------------------------------------------
LEMMA EntryFacts ==
  ASSUME NEW set \in MemSet, NEW from \in Nat, ContiguousFrom(set, from)
  PROVE  \A i \in 1 .. Len(set) :
           /\ set[i] \in MemSetEntry
           /\ set[i].start \in Nat /\ set[i].end \in Nat
           /\ set[i].start <= set[i].end
           /\ set[i].start = IF i = 1 THEN from ELSE set[i - 1].end + 1
<1>1. SUFFICES ASSUME NEW i \in 1 .. Len(set)
               PROVE  /\ set[i] \in MemSetEntry
                      /\ set[i].start \in Nat /\ set[i].end \in Nat
                      /\ set[i].start <= set[i].end
                      /\ set[i].start = IF i = 1 THEN from ELSE set[i - 1].end + 1
  OBVIOUS
<1>2. set[i] \in MemSetEntry
  BY DEF MemSet
<1>3. set[i].start \in Nat /\ set[i].end \in Nat
  BY <1>2 DEF MemSetEntry
<1>4. QED
  BY <1>2, <1>3 DEF ContiguousFrom

(***************************************************************************)
(* In a contiguous set every instance from the first of the set to the     *)
(* last belongs to exactly one entry.                                      *)
(***************************************************************************)
LEMMA EntriesApart ==
  ASSUME NEW set \in MemSet, NEW from \in Nat, ContiguousFrom(set, from),
         NEW i \in 1 .. Len(set)
  PROVE  \A j \in 1 .. Len(set) : i < j => set[i].end < set[j].start
<1> DEFINE S == {n \in Nat : i + n + 1 \in 1 .. Len(set)
                               => set[i].end < set[i + n + 1].start}
<1>1. \A j \in 1 .. Len(set) :
        /\ set[j].start \in Nat /\ set[j].end \in Nat
        /\ set[j].start <= set[j].end
        /\ j # 1 => set[j].start = set[j - 1].end + 1
  BY EntryFacts
<1>2. Len(set) \in Nat
  BY DEF MemSet
<1>3. 0 \in S
  <2>1. ASSUME i + 1 \in 1 .. Len(set) PROVE set[i].end < set[i + 1].start
    <3>1. i + 1 # 1 /\ (i + 1) - 1 = i
      OBVIOUS
    <3>2. QED
      BY <1>1, <2>1, <3>1
  <2>2. QED
    BY <2>1
<1>4. ASSUME NEW n \in Nat, n \in S PROVE n + 1 \in S
  <2>1. ASSUME i + (n + 1) + 1 \in 1 .. Len(set)
        PROVE  set[i].end < set[i + (n + 1) + 1].start
    <3> DEFINE j == i + n + 1
    <3>1. j \in 1 .. Len(set) /\ j + 1 \in 1 .. Len(set) /\ (j + 1) - 1 = j
      BY <1>2, <2>1
    <3>2. i + (n + 1) + 1 = j + 1
      OBVIOUS
    <3>3. set[i].end < set[j].start
      BY <1>4, <3>1
    <3> HIDE DEF j
    <3>4. j + 1 # 1
      BY <3>1
    <3>5. set[j + 1].start = set[j].end + 1
      BY <1>1, <3>1, <3>4
    <3>6. set[i].end < set[j + 1].start
      BY <1>1, <3>1, <3>3, <3>5
    <3>7. QED
      BY <3>2, <3>6
  <2>2. QED
    BY <2>1
<1>5. Nat \subseteq S
  <2> HIDE DEF S
  <2>1. QED
    BY <1>3, <1>4, SetInduction
<1>6. ASSUME NEW j \in 1 .. Len(set), i < j PROVE set[i].end < set[j].start
  <2>1. j - i - 1 \in Nat
    BY <1>6, <1>2
  <2>2. j - i - 1 \in S
    BY <2>1, <1>5
  <2>3. i + (j - i - 1) + 1 = j
    OBVIOUS
  <2>4. QED
    BY <2>2, <2>3
<1>7. QED
  BY <1>6

LEMMA EntriesCover ==
  ASSUME NEW set \in MemSet, NEW from \in Nat, ContiguousFrom(set, from)
  PROVE  \A n \in 1 .. Len(set) : \A k \in from .. set[n].end :
           \E j \in 1 .. n : k \in set[j].start .. set[j].end
<1> DEFINE P(n) == n \in 1 .. Len(set) => \A k \in from .. set[n].end :
                     \E j \in 1 .. n : k \in set[j].start .. set[j].end
           S == {n \in Nat : P(n)}
<1>1. \A j \in 1 .. Len(set) :
        /\ set[j].start \in Nat /\ set[j].end \in Nat
        /\ set[j].start = IF j = 1 THEN from ELSE set[j - 1].end + 1
  BY EntryFacts
<1>2. Len(set) \in Nat
  BY DEF MemSet
<1>3. 0 \in S
  OBVIOUS
<1>4. ASSUME NEW n \in Nat, P(n) PROVE P(n + 1)
  <2>1. SUFFICES ASSUME n + 1 \in 1 .. Len(set), NEW k \in from .. set[n + 1].end
                 PROVE  \E j \in 1 .. n + 1 : k \in set[j].start .. set[j].end
    OBVIOUS
  <2>2. CASE k \in set[n + 1].start .. set[n + 1].end
    BY <2>2
  <2>3. CASE k \notin set[n + 1].start .. set[n + 1].end
    <3>1. k < set[n + 1].start
      BY <1>1, <2>1, <2>3
    <3>2. n # 0
      BY <1>1, <2>1, <3>1
    <3>3. n \in 1 .. Len(set) /\ n + 1 # 1 /\ (n + 1) - 1 = n
      BY <1>2, <2>1, <3>2
    <3>4. set[n + 1].start = set[n].end + 1
      BY <1>1, <2>1, <3>3
    <3>5. k \in from .. set[n].end
      BY <1>1, <3>1, <3>3, <3>4
    <3>6. PICK j \in 1 .. n : k \in set[j].start .. set[j].end
      BY <1>4, <3>3, <3>5
    <3>7. j \in 1 .. n + 1
      OBVIOUS
    <3>8. QED
      BY <3>6, <3>7
  <2>4. QED
    BY <2>2, <2>3
<1>5. Nat \subseteq S
  <2>1. ASSUME NEW n \in Nat, n \in S PROVE n + 1 \in S
    <3>1. P(n)
      BY <2>1
    <3>2. P(n + 1)
      BY <1>4, <3>1
    <3>3. QED
      BY <3>2
  <2> HIDE DEF S
  <2>2. QED
    BY <1>3, <2>1, SetInduction
<1>6. QED
  BY <1>5

LEMMA AccessAtEntry ==
  ASSUME NEW set \in MemSet, NEW from \in Nat, ContiguousFrom(set, from),
         NEW i \in 1 .. Len(set), NEW k \in set[i].start .. set[i].end
  PROVE  AccessAt(set, k) =
           [addr |-> AccessLower(set[i], k - set[i].start), len |-> set[i].length]
<1> DEFINE j == CHOOSE j \in 1 .. Len(set) : k \in set[j].start .. set[j].end
<1>1. j \in 1 .. Len(set) /\ k \in set[j].start .. set[j].end
  OBVIOUS
<1> HIDE DEF j
<1>2. i < j => set[i].end < set[j].start
  BY <1>1, EntriesApart
<1>3. j < i => set[j].end < set[i].start
  BY <1>1, EntriesApart
<1>4. /\ set[i].start \in Nat /\ set[i].end \in Nat
      /\ set[j].start \in Nat /\ set[j].end \in Nat
  BY <1>1, EntryFacts
<1>5. i = j
  <2>1. ~ (i < j)
    BY <1>1, <1>2, <1>4
  <2>2. ~ (j < i)
    BY <1>1, <1>3, <1>4
  <2>3. QED
    BY <1>1, <2>1, <2>2
<1>6. QED
  BY <1>5 DEF AccessAt, j

\* The number of the instance that comes after a set that starts at `from'.
After(set, from) == IF set = <<>> THEN from ELSE set[Len(set)].end + 1

LEMMA AfterType ==
  ASSUME NEW set \in MemSet, NEW from \in Nat, ContiguousFrom(set, from)
  PROVE  /\ After(set, from) \in Nat /\ from <= After(set, from)
         /\ set # <<>> => from < After(set, from)
<1>1. CASE set = <<>>
  BY <1>1 DEF After
<1>2. CASE set # <<>>
  <2> DEFINE n == Len(set)
  <2>1. n \in 1 .. Len(set) /\ 1 \in 1 .. Len(set)
    BY <1>2 DEF MemSet
  <2>2. set[1].start = from /\ set[1].start <= set[1].end /\ set[1].end \in Nat
    BY <2>1, EntryFacts
  <2>3. set[n].start \in Nat /\ set[n].end \in Nat /\ set[n].start <= set[n].end
    BY <2>1, EntryFacts
  <2>4. 1 < n => set[1].end < set[n].start
    BY <2>1, EntriesApart
  <2>5. After(set, from) = set[n].end + 1
    BY <1>2 DEF After
  <2> HIDE DEF n
  <2>6. set[1].end <= set[n].end
    <3>1. CASE n = 1
      BY <2>2, <3>1
    <3>2. CASE 1 < n
      BY <2>2, <2>3, <2>4, <3>2
    <3>3. QED
      BY <2>1, <3>1, <3>2
  <2>7. QED
    BY <2>2, <2>3, <2>5, <2>6
<1>3. QED
  BY <1>1, <1>2

LEMMA EndsBelow ==
  ASSUME NEW set \in MemSet, NEW from \in Nat, ContiguousFrom(set, from)
  PROVE  \A i \in 1 .. Len(set) : set[i].end \in Nat /\ set[i].end < After(set, from)
<1>1. SUFFICES ASSUME NEW i \in 1 .. Len(set)
               PROVE  set[i].end \in Nat /\ set[i].end < After(set, from)
  OBVIOUS
<1> DEFINE n == Len(set)
<1>2. n \in Nat /\ n \in 1 .. Len(set) /\ set # <<>>
  BY DEF MemSet
<1>3. /\ set[i].end \in Nat /\ set[n].end \in Nat /\ set[n].start \in Nat
      /\ set[n].start <= set[n].end /\ After(set, from) = set[n].end + 1
  BY <1>2, EntryFacts DEF After
<1>4. i < n => set[i].end < set[n].start
  BY <1>2, EntriesApart
<1> HIDE DEF n
<1>5. i = n \/ i < n
  BY <1>2 DEF n
<1>6. QED
  BY <1>3, <1>4, <1>5

(***************************************************************************)
(* What a set stands for, wherever its numbers start: one access for each  *)
(* instance, the one that the instance's entry gives it.                   *)
(***************************************************************************)
LEMMA ExpandFrom ==
  ASSUME NEW set \in MemSet, NEW from \in Nat, ContiguousFrom(set, from)
  PROVE  /\ Expand(set) \in Seq(Access)
         /\ Len(Expand(set)) = After(set, from) - from
         /\ \A k \in 1 .. After(set, from) - from :
              Expand(set)[k] = AccessAt(set, from + k - 1)
<1>1. CASE set = <<>>
  <2>1. Expand(set) = <<>> /\ After(set, from) - from = 0
    BY <1>1 DEF Expand, After
  <2>2. QED
    BY <2>1, EmptySeq
<1>2. CASE set # <<>>
  <2> DEFINE last == Len(set)
             N == After(set, from) - from
  <2>1. last \in 1 .. Len(set) /\ 1 \in 1 .. Len(set)
    BY <1>2 DEF MemSet
  <2>2. set[1].start = from
    BY <2>1, EntryFacts
  <2>3. /\ NextInstance(set) = set[last].end + 1 /\ After(set, from) = set[last].end + 1
        /\ After(set, from) \in Nat /\ N \in Nat /\ set[last].end \in Nat
    <3>1. from <= After(set, from) /\ After(set, from) \in Nat
      BY AfterType
    <3>2. set[last].end \in Nat
      BY <2>1, EntryFacts
    <3>3. QED
      BY <1>2, <3>1, <3>2 DEF NextInstance, After
  <2>4. Expand(set) = [k \in 1 .. N |-> AccessAt(set, from + k - 1)]
    BY <1>2, <2>2, <2>3 DEF Expand
  <2>5. ASSUME NEW k \in 1 .. N PROVE AccessAt(set, from + k - 1) \in Access
    <3> DEFINE i == from + k - 1
    <3>1. i \in from .. set[last].end
      BY <2>3, SMTT(60)
    <3>2. PICK j \in 1 .. last : i \in set[j].start .. set[j].end
      BY <2>1, <3>1, EntriesCover
    <3>3. j \in 1 .. Len(set) /\ set[j] \in MemSetEntry
      BY <3>2, EntryFacts
    <3> HIDE DEF i
    <3>4. AccessAt(set, i) = [addr |-> AccessLower(set[j], i - set[j].start), len |-> set[j].length]
      BY <3>2, <3>3, AccessAtEntry
    <3>5. /\ set[j].base \in Int /\ set[j].stride \in Int /\ set[j].length \in Nat
          /\ i - set[j].start \in Int
      BY <3>2, <3>3, HAssumption, SMTT(60) DEF MemSetEntry, Word, SignedWord, M
    <3>6. AccessLower(set[j], i - set[j].start) \in Word
      BY <3>5, WrapIsWord DEF AccessLower
    <3>7. AccessAt(set, i) \in Access
      BY <3>4, <3>5, <3>6 DEF Access
    <3>8. QED
      BY <3>7 DEF i
  <2>6. N \in Nat
    BY <2>3
  <2> HIDE DEF N
  <2>7. Expand(set) \in Seq(Access) /\ Len(Expand(set)) = N
        /\ \A k \in 1 .. N : Expand(set)[k] = AccessAt(set, from + k - 1)
    BY <2>4, <2>5, <2>6
  <2>8. QED
    BY <2>7 DEF N
<1>3. QED
  BY <1>1, <1>2

(***************************************************************************)
(* The same for a set whose numbers start at 0.                            *)
(***************************************************************************)
LEMMA ExpandLength ==
  ASSUME NEW set \in MemSet, ContiguousFrom(set, 0)
  PROVE  /\ Expand(set) \in Seq(Access)
         /\ Len(Expand(set)) = NextInstance(set)
         /\ \A k \in 1 .. NextInstance(set) : Expand(set)[k] = AccessAt(set, k - 1)
<1>1. After(set, 0) - 0 = NextInstance(set)
  BY AfterType DEF After, NextInstance
<1>2. \A k \in 1 .. NextInstance(set) : 0 + k - 1 = k - 1
  BY NextInstanceType
<1>3. QED
  BY <1>1, <1>2, ExpandFrom

(***************************************************************************)
(* Recording an access adds it at the end of what the set stands for, and  *)
(* changes nothing else of it, whatever pattern it joins or starts: the    *)
(* compression of recordMemoryReference loses nothing.                     *)
(***************************************************************************)
THEOREM RecordAppends ==
  ASSUME NEW set \in MemSet, NEW a \in Access, ContiguousFrom(set, 0)
  PROVE  Expand(RecordMemoryReference(set, a)) = Append(Expand(set), a)
<1> DEFINE t == RecordMemoryReference(set, a)
           N == NextInstance(set)
           last == Len(set)
<1>1. t \in MemSet /\ ContiguousFrom(t, 0) /\ N \in Nat
  BY RecordType, RecordContiguous, NextInstanceType
<1>2. SUFFICES /\ NextInstance(t) = N + 1
               /\ \A k \in 0 .. N - 1 : AccessAt(t, k) = AccessAt(set, k)
               /\ AccessAt(t, N) = a
  <2> HIDE DEF t, N
  <2>1. /\ Expand(set) \in Seq(Access) /\ Len(Expand(set)) = N
        /\ \A k \in 1 .. N : Expand(set)[k] = AccessAt(set, k - 1)
    BY ExpandLength DEF N
  <2>2. /\ Expand(t) \in Seq(Access) /\ Len(Expand(t)) = N + 1
        /\ \A k \in 1 .. N + 1 : Expand(t)[k] = AccessAt(t, k - 1)
    BY <1>1, <1>2, ExpandLength
  <2>3. Append(Expand(set), a) \in Seq(Access) /\ Len(Append(Expand(set), a)) = N + 1
    BY <1>1, <2>1
  <2>4. ASSUME NEW k \in 1 .. N + 1 PROVE Expand(t)[k] = Append(Expand(set), a)[k]
    <3>1. CASE k = N + 1
      <4>1. Expand(t)[k] = AccessAt(t, N)
        BY <1>1, <2>2, <3>1
      <4>2. QED
        BY <1>1, <1>2, <2>1, <3>1, <4>1
    <3>2. CASE k \in 1 .. N
      <4>1. k - 1 \in 0 .. N - 1
        BY <1>1, <3>2
      <4>2. QED
        BY <1>1, <1>2, <2>1, <2>2, <3>2, <4>1
    <3>3. k = N + 1 \/ k \in 1 .. N
      BY <1>1
    <3>4. QED
      BY <3>1, <3>2, <3>3
  <2>5. QED
    BY <1>1, <2>2, <2>3, <2>4, SeqEqual DEF t
<1>3. CASE JoinsPattern(set, a)
  <2>1. /\ set # <<>> /\ last \in 1 .. Len(set) /\ set[last] \in MemSetEntry
        /\ set[last].length = a.len
        /\ set[last].start = set[last].end \/ Prediction(set[last]) = a.addr
        /\ N = set[last].end + 1
    BY <1>3 DEF JoinsPattern, MemSet, NextInstance
  <2> DEFINE e == set[last]
  <2>2. /\ e.base \in Word /\ e.stride \in SignedWord /\ e.start \in Nat
        /\ e.end \in Nat /\ e.start <= e.end /\ a.addr \in Word
    BY <2>1, EntryFacts DEF MemSetEntry, Access
  <2>3. t = [set EXCEPT ![last] = ExtendPattern(e, a)]
    BY <1>3 DEF RecordMemoryReference
  <2>4. Len(t) = Len(set) /\ t[last] = ExtendPattern(e, a)
        /\ \A i \in 1 .. Len(set) : i # last => t[i] = set[i]
    BY <2>1, <2>3 DEF MemSet
  <2> DEFINE f == t[last]
  <2>5. /\ f.base = e.base /\ f.start = e.start /\ f.length = e.length
        /\ f.end = e.end + 1
        /\ f.stride = IF e.start = e.end THEN Signed(Wrap(a.addr - e.base)) ELSE e.stride
    BY <2>1, <2>4 DEF ExtendPattern, MemSetEntry
  <2> HIDE DEF t, N
  <2>6. NextInstance(t) = N + 1
    <3>1. t # <<>>
      BY <2>1, <2>4
    <3>2. QED
      BY <2>1, <2>4, <2>5, <3>1 DEF NextInstance
  <2>7. ASSUME NEW k \in 0 .. N - 1 PROVE AccessAt(t, k) = AccessAt(set, k)
    <3>1. k \in 0 .. set[last].end
      BY <2>1, <2>2
    <3>2. PICK j \in 1 .. last : k \in set[j].start .. set[j].end
      BY <2>1, <3>1, EntriesCover
    <3>3. j \in 1 .. Len(set) /\ j \in 1 .. Len(t)
      BY <2>4, <3>2
    <3>4. AccessAt(set, k) =
            [addr |-> AccessLower(set[j], k - set[j].start), len |-> set[j].length]
      BY <3>2, <3>3, AccessAtEntry
    <3>5. CASE j # last
      <4>1. t[j] = set[j]
        BY <2>4, <3>3, <3>5
      <4>2. QED
        BY <1>1, <3>2, <3>3, <3>4, <4>1, AccessAtEntry
    <3>6. CASE j = last
      <4>1. k \in f.start .. f.end
        BY <2>2, <2>5, <3>2, <3>6
      <4>2. AccessAt(t, k) =
              [addr |-> AccessLower(f, k - f.start), len |-> f.length]
        BY <1>1, <3>3, <3>6, <4>1, AccessAtEntry
      <4>3. AccessLower(f, k - f.start) = AccessLower(e, k - e.start)
        <5>1. CASE e.start = e.end
          <6>1. k - e.start = 0 /\ k - f.start = 0
            BY <2>2, <2>5, <3>2, <3>6, <5>1
          <6>2. \A s \in Int : 0 * s = 0
            OBVIOUS
          <6>3. f.stride \in Int /\ e.stride \in Int
            BY <2>2, <2>5, <5>1, SignedDistance, HAssumption DEF SignedWord
          <6>4. QED
            BY <2>5, <6>1, <6>2, <6>3 DEF AccessLower
        <5>2. CASE e.start # e.end
          BY <2>5, <5>2 DEF AccessLower
        <5>3. QED
          BY <5>1, <5>2
      <4>4. QED
        BY <2>5, <3>4, <3>6, <4>2, <4>3
    <3>7. QED
      BY <3>5, <3>6
  <2>8. AccessAt(t, N) = a
    <3>1. N \in f.start .. f.end /\ N - f.start = e.end - e.start + 1
      BY <2>1, <2>2, <2>5
    <3>2. AccessAt(t, N) = [addr |-> AccessLower(f, e.end - e.start + 1), len |-> f.length]
      BY <1>1, <2>1, <2>4, <3>1, AccessAtEntry
    <3>3. AccessLower(f, e.end - e.start + 1) = a.addr
      <4>1. CASE e.start = e.end
        <5>1. e.end - e.start + 1 = 1
          BY <2>2, <4>1
        <5>2. f.stride \in Int
          BY <2>2, <2>5, <4>1, SignedDistance, HAssumption DEF SignedWord
        <5>3. Wrap(e.base + f.stride) = a.addr
          BY <2>2, <2>5, <4>1, SignedDistance
        <5>4. AccessLower(f, 1) = Wrap(f.base + 1 * f.stride)
          BY DEF AccessLower
        <5>5. 1 * f.stride = f.stride
          BY <5>2
        <5>6. QED
          BY <2>5, <5>1, <5>3, <5>4, <5>5
      <4>2. CASE e.start # e.end
        <5>1. Prediction(e) = a.addr
          BY <2>1, <4>2
        <5>2. \A x, y \in Int : x * y = y * x
          OBVIOUS
        <5>3. e.stride \in Int /\ e.end - e.start + 1 \in Int
          BY <2>2, HAssumption DEF SignedWord
        <5>4. AccessLower(f, e.end - e.start + 1) = Prediction(e)
          BY <2>5, <4>2, <5>2, <5>3 DEF AccessLower, Prediction, NumInstances
        <5>5. QED
          BY <5>1, <5>4
      <4>3. QED
        BY <4>1, <4>2
    <3>4. a = [addr |-> a.addr, len |-> a.len]
      BY DEF Access
    <3>5. QED
      BY <2>1, <2>5, <3>2, <3>3, <3>4
  <2>9. QED
    BY <2>6, <2>7, <2>8 DEF t, N
<1>4. CASE ~ JoinsPattern(set, a)
  <2> DEFINE new == NewMemSetEntry(a, N)
  <2>1. t = Append(set, new)
    BY <1>4 DEF RecordMemoryReference
  <2>2. /\ new.start = N /\ new.end = N /\ new.length = a.len
        /\ new.base = a.addr /\ new.stride = 0
    BY DEF NewMemSetEntry
  <2>3. Len(t) = last + 1 /\ t[last + 1] = new /\ last \in Nat
        /\ \A i \in 1 .. last : t[i] = set[i]
    BY <2>1 DEF MemSet
  <2> HIDE DEF t, N, new
  <2>4. NextInstance(t) = N + 1
    <3>1. t # <<>>
      BY <2>3
    <3>2. QED
      BY <2>2, <2>3, <3>1 DEF NextInstance
  <2>5. ASSUME NEW k \in 0 .. N - 1 PROVE AccessAt(t, k) = AccessAt(set, k)
    <3>1. set # <<>>
      BY <1>1 DEF N, NextInstance
    <3>2. last \in 1 .. Len(set) /\ N = set[last].end + 1
      BY <2>3, <3>1 DEF N, NextInstance, MemSet
    <3>3. k \in 0 .. set[last].end
      BY <3>2, EntryFacts
    <3>4. PICK j \in 1 .. last : k \in set[j].start .. set[j].end
      BY <3>2, <3>3, EntriesCover
    <3>5. j \in 1 .. Len(set) /\ j \in 1 .. Len(t) /\ t[j] = set[j]
      BY <2>3, <3>4
    <3>6. QED
      BY <1>1, <3>4, <3>5, AccessAtEntry
  <2>6. AccessAt(t, N) = a
    <3>1. last + 1 \in 1 .. Len(t) /\ N \in t[last + 1].start .. t[last + 1].end
      BY <1>1, <2>2, <2>3
    <3>2. AccessAt(t, N) = [addr |-> AccessLower(new, N - N), len |-> new.length]
      BY <1>1, <2>2, <2>3, <3>1, AccessAtEntry
    <3>3. AccessLower(new, N - N) = a.addr
      <4>1. N - N = 0 /\ 0 * 0 = 0 /\ a.addr \in Word /\ a.addr \in Int
        BY <1>1, HAssumption DEF Access, Word, M
      <4>2. AccessLower(new, 0) = Wrap(a.addr + 0 * 0)
        BY <2>2 DEF AccessLower
      <4>3. QED
        BY <4>1, <4>2, WrapIdentity
    <3>4. a = [addr |-> a.addr, len |-> a.len]
      BY DEF Access
    <3>5. QED
      BY <2>2, <3>2, <3>3, <3>4
  <2>7. QED
    BY <2>4, <2>5, <2>6 DEF t, N
<1>5. QED
  BY <1>3, <1>4

-----------------------------------------------------------------------------
(***************************************************************************)
(* The reader's conversions undo dumpSet, entry by entry: signed distances *)
(* lead from base to base, and the repetitions number the instances again. *)
(* strtol has to know the first base, which it does below H.               *)
(***************************************************************************)
UndumpedAfter(seg, from, prev, i) ==
  LET d  == seg[i]
      at == IF i = 1 THEN from ELSE prev.end + 1
  IN [base |-> AbsoluteBase(IF i = 1 THEN 0 ELSE prev.base, d.base),
      stride |-> d.stride, length |-> d.length,
      start |-> at, end |-> at + d.reps - 1]

LEMMA UndumpEntry ==
  ASSUME NEW set \in MemSet, NEW from \in Nat, ContiguousFrom(set, from),
         NEW i \in 1 .. Len(set), i = 1 => set[1].base < H
  PROVE  UndumpedAfter(DumpSet(set), from, set[i - 1], i) = set[i]
<1> DEFINE d == DumpSet(set)[i]
           e == set[i]
<1>1. d = [base |-> DumpedBase(set, i), stride |-> e.stride, length |-> e.length,
           reps |-> NumInstances(e)]
  BY DEF DumpSet, MemSet
<1>2. e \in MemSetEntry /\ e.start \in Nat /\ e.end \in Nat /\ e.base \in Word
      /\ e.start = IF i = 1 THEN from ELSE set[i - 1].end + 1
  BY EntryFacts DEF MemSetEntry
<1>3. AbsoluteBase(IF i = 1 THEN 0 ELSE set[i - 1].base, DumpedBase(set, i)) = e.base
  <2>1. CASE i = 1
    <3>1. DumpedBase(set, i) = e.base /\ e.base < H
      BY <2>1 DEF DumpedBase
    <3>2. ParseSigned(e.base) = e.base
      BY <1>2, <3>1, HAssumption DEF ParseSigned, Word, M
    <3>3. 0 + e.base = e.base
      BY <1>2, HAssumption DEF Word, M
    <3>4. QED
      BY <1>2, <2>1, <3>1, <3>2, <3>3, WrapIdentity DEF AbsoluteBase
  <2>2. CASE i # 1
    <3>1. i - 1 \in 1 .. Len(set)
      BY <2>2 DEF MemSet
    <3>2. set[i - 1].base \in Word
      BY <3>1, EntryFacts DEF MemSetEntry
    <3> DEFINE x == Signed(Wrap(e.base - set[i - 1].base))
    <3>3. x \in SignedWord /\ Wrap(set[i - 1].base + x) = e.base
      BY <1>2, <3>2, SignedDistance
    <3>4. DumpedBase(set, i) = x
      BY <2>2 DEF DumpedBase
    <3> HIDE DEF x
    <3>5. ParseSigned(x) = x
      BY <3>3, HAssumption DEF ParseSigned, SignedWord
    <3>6. QED
      BY <2>2, <3>3, <3>4, <3>5 DEF AbsoluteBase
  <2>3. QED
    BY <2>1, <2>2
<1>4. e.start + NumInstances(e) - 1 = e.end
  BY <1>2 DEF NumInstances
<1>5. UndumpedAfter(DumpSet(set), from, set[i - 1], i) =
        [base |-> e.base, stride |-> e.stride, length |-> e.length,
         start |-> e.start, end |-> e.end]
  BY <1>1, <1>2, <1>3, <1>4 DEF UndumpedAfter
<1>6. QED
  BY <1>2, <1>5 DEF MemSetEntry

(***************************************************************************)
(* A pattern read back is the pattern that was dumped, entry by entry, as  *)
(* long as its first address is below half of the address space: the       *)
(* first base is read as a signed number (memory_trace.cpp).               *)
(***************************************************************************)
THEOREM UndumpDump ==
  ASSUME NEW set \in MemSet, NEW from \in Nat, ContiguousFrom(set, from),
         set # <<>> => set[1].base < H
  PROVE  Undump(DumpSet(set), from) = set
<1> DEFINE n == Len(set)
           seg == DumpSet(set)
           Solves(g) == g = [i \in 1 .. Len(seg) |-> UndumpedAfter(seg, from, g[i - 1], i)]
           entry == CHOOSE g : Solves(g)
<1>1. n \in Nat /\ set = [i \in 1 .. n |-> set[i]] /\ (n # 0 => set # <<>>)
  BY DEF MemSet
<1>2. Len(seg) = n
  BY <1>1 DEF DumpSet
<1>3. Undump(seg, from) = [i \in 1 .. Len(seg) |-> entry[i]]
  BY DEF Undump, UndumpedAfter
<1>4. \A i \in 1 .. n : UndumpedAfter(seg, from, set[i - 1], i) = set[i]
  BY <1>1, UndumpEntry
<1> HIDE DEF n, seg
<1>5. Solves(set)
  BY <1>1, <1>2, <1>4
<1>6. Solves(entry)
  BY <1>5
<1> HIDE DEF entry
<1>7. \A i \in 1 .. n : entry[i] = UndumpedAfter(seg, from, entry[i - 1], i)
  BY <1>2, <1>6
<1> DEFINE T == {i \in Nat : i + 1 \in 1 .. n => entry[i + 1] = set[i + 1]}
<1>8. 0 \in T
  <2>1. ASSUME 1 \in 1 .. n PROVE entry[1] = set[1]
    <3>1. entry[1] = UndumpedAfter(seg, from, entry[1 - 1], 1)
      BY <1>7, <2>1
    <3>2. set[1] = UndumpedAfter(seg, from, set[1 - 1], 1)
      BY <1>4, <2>1
    <3>3. QED
      BY <3>1, <3>2 DEF UndumpedAfter
  <2>2. QED
    BY <2>1
<1>9. ASSUME NEW i \in Nat, i \in T PROVE i + 1 \in T
  <2>1. ASSUME (i + 1) + 1 \in 1 .. n PROVE entry[(i + 1) + 1] = set[(i + 1) + 1]
    <3> DEFINE j == (i + 1) + 1
    <3>1. i + 1 \in 1 .. n /\ j \in 1 .. n /\ j - 1 = i + 1
      BY <1>1, <2>1
    <3>2. entry[j - 1] = set[j - 1]
      BY <1>9, <3>1
    <3> HIDE DEF j
    <3>3. entry[j] = set[j]
      BY <1>4, <1>7, <3>1, <3>2
    <3>4. QED
      BY <3>3 DEF j
  <2>2. QED
    BY <2>1
<1>10. Nat \subseteq T
  <2> HIDE DEF T
  <2>1. QED
    BY <1>8, <1>9, SetInduction
<1>11. ASSUME NEW i \in 1 .. n PROVE entry[i] = set[i]
  <2>1. i - 1 \in Nat /\ (i - 1) + 1 = i
    BY <1>1
  <2>2. i - 1 \in T
    BY <1>10, <2>1
  <2>3. QED
    BY <2>1, <2>2
<1>12. QED
  BY <1>1, <1>2, <1>3, <1>11 DEF seg

-----------------------------------------------------------------------------
(* Sets one after the other, and entries split in two.                     *)

(***************************************************************************)
(* Two sets one after the other are contiguous when each is, and the       *)
(* second numbers on where the first ends.                                 *)
(***************************************************************************)
LEMMA ContiguousConcat ==
  ASSUME NEW s \in MemSet, NEW t \in MemSet, NEW from \in Nat
  PROVE  /\ s \o t \in MemSet
         /\ After(s \o t, from) = After(t, After(s, from))
         /\ ContiguousFrom(s \o t, from)
              <=> ContiguousFrom(s, from) /\ ContiguousFrom(t, After(s, from))
<1> DEFINE u == s \o t
           m == Len(s)
           n == Len(t)
<1>1. /\ u \in MemSet /\ m \in Nat /\ n \in Nat /\ Len(u) = m + n
      /\ \A i \in 1 .. m : u[i] = s[i]
      /\ \A i \in 1 .. n : u[m + i] = t[i]
  BY ConcatProperties, LenProperties DEF MemSet
<1>2. (s = <<>> <=> m = 0) /\ (t = <<>> <=> n = 0) /\ (u = <<>> <=> m + n = 0)
  BY <1>1, EmptySeq, LenProperties DEF MemSet
<1> HIDE DEF u
<1>3. After(u, from) = After(t, After(s, from))
  <2>1. CASE n = 0
    <3>1. CASE m = 0
      BY <1>2, <2>1, <3>1 DEF After
    <3>2. CASE m # 0
      <4>1. Len(u) = m /\ u[m] = s[m]
        BY <1>1, <2>1, <3>2
      <4>2. QED
        BY <1>1, <1>2, <2>1, <3>2, <4>1 DEF After
    <3>3. QED
      BY <3>1, <3>2
  <2>2. CASE n # 0
    <3>1. u[m + n] = t[n]
      BY <1>1, <2>2
    <3>2. QED
      BY <1>1, <1>2, <2>2, <3>1 DEF After
  <2>3. QED
    BY <2>1, <2>2
<1>4. ASSUME ContiguousFrom(u, from)
      PROVE  ContiguousFrom(s, from) /\ ContiguousFrom(t, After(s, from))
  <2>1. \A i \in 1 .. m + n : /\ u[i].start <= u[i].end
                              /\ u[i].start = IF i = 1 THEN from ELSE u[i - 1].end + 1
    BY <1>1, <1>4 DEF ContiguousFrom
  <2>2. ASSUME NEW i \in 1 .. m
        PROVE  s[i].start <= s[i].end /\ s[i].start = IF i = 1 THEN from ELSE s[i - 1].end + 1
    <3>1. i \in 1 .. m + n /\ u[i] = s[i] /\ (i # 1 => i - 1 \in 1 .. m)
      BY <1>1
    <3>2. i # 1 => u[i - 1] = s[i - 1]
      BY <1>1, <3>1
    <3>3. QED
      BY <2>1, <3>1, <3>2
  <2>3. ASSUME NEW i \in 1 .. n
        PROVE  /\ t[i].start <= t[i].end
               /\ t[i].start = IF i = 1 THEN After(s, from) ELSE t[i - 1].end + 1
    <3>1. m + i \in 1 .. m + n /\ u[m + i] = t[i]
      BY <1>1
    <3>2. CASE i # 1
      <4>1. i - 1 \in 1 .. n /\ m + i # 1 /\ (m + i) - 1 = m + (i - 1)
        BY <1>1, <3>2
      <4>2. u[(m + i) - 1] = t[i - 1]
        BY <1>1, <4>1
      <4>3. QED
        BY <2>1, <3>1, <3>2, <4>1, <4>2
    <3>3. CASE i = 1
      <4>1. CASE m = 0
        BY <1>2, <2>1, <3>1, <3>3, <4>1 DEF After
      <4>2. CASE m # 0
        <5>1. (m + i) - 1 = m /\ m \in 1 .. m /\ m + i # 1
          BY <1>1, <3>3, <4>2
        <5>2. u[(m + i) - 1] = s[m]
          BY <1>1, <5>1
        <5>3. After(s, from) = s[m].end + 1
          BY <1>2, <4>2 DEF After
        <5>4. QED
          BY <2>1, <3>1, <3>3, <5>1, <5>2, <5>3
      <4>3. QED
        BY <4>1, <4>2
    <3>4. QED
      BY <3>2, <3>3
  <2>4. QED
    BY <2>2, <2>3 DEF ContiguousFrom
<1>5. ASSUME ContiguousFrom(s, from), ContiguousFrom(t, After(s, from))
      PROVE  ContiguousFrom(u, from)
  <2>1. /\ \A i \in 1 .. m : s[i].start <= s[i].end
                             /\ s[i].start = IF i = 1 THEN from ELSE s[i - 1].end + 1
        /\ \A i \in 1 .. n : t[i].start <= t[i].end
                             /\ t[i].start = IF i = 1 THEN After(s, from) ELSE t[i - 1].end + 1
    BY <1>5 DEF ContiguousFrom
  <2>2. ASSUME NEW i \in 1 .. m + n
        PROVE  u[i].start <= u[i].end /\ u[i].start = IF i = 1 THEN from ELSE u[i - 1].end + 1
    <3>1. CASE i \in 1 .. m
      <4>1. u[i] = s[i] /\ (i # 1 => i - 1 \in 1 .. m)
        BY <1>1, <3>1
      <4>2. i # 1 => u[i - 1] = s[i - 1]
        BY <1>1, <4>1
      <4>3. QED
        BY <2>1, <3>1, <4>1, <4>2
    <3>2. CASE i = m + 1
      <4>1. 1 \in 1 .. n /\ u[i] = t[1]
        BY <1>1, <3>2
      <4>2. t[1].start <= t[1].end /\ t[1].start = After(s, from)
        BY <2>1, <4>1
      <4>3. CASE m = 0
        BY <1>2, <3>2, <4>1, <4>2, <4>3 DEF After
      <4>4. CASE m # 0
        <5>1. i # 1 /\ i - 1 = m /\ m \in 1 .. m
          BY <1>1, <3>2, <4>4
        <5>2. u[i - 1] = s[m]
          BY <1>1, <5>1
        <5>3. After(s, from) = s[m].end + 1
          BY <1>2, <4>4 DEF After
        <5>4. QED
          BY <4>1, <4>2, <5>1, <5>2, <5>3
      <4>5. QED
        BY <4>3, <4>4
    <3>3. CASE i > m + 1
      <4> DEFINE j == i - m
      <4>1. j \in 1 .. n /\ j - 1 \in 1 .. n /\ i = m + j /\ i - 1 = m + (j - 1) /\ i # 1 /\ j # 1
        BY <1>1, <3>3
      <4> HIDE DEF j
      <4>2. u[i] = t[j] /\ u[i - 1] = t[j - 1]
        BY <1>1, <4>1
      <4>3. QED
        BY <2>1, <4>1, <4>2
    <3>4. QED
      BY <1>1, <3>1, <3>2, <3>3
  <2>3. QED
    BY <1>1, <2>2 DEF ContiguousFrom
<1>6. QED
  BY <1>1, <1>3, <1>4, <1>5 DEF u

(***************************************************************************)
(* The accesses of one entry do not depend on how it numbers them.         *)
(***************************************************************************)
EntryAccesses(e) ==
  [k \in 1 .. NumInstances(e) |-> [addr |-> AccessLower(e, k - 1), len |-> e.length]]

LEMMA ExpandEntry ==
  ASSUME NEW e \in MemSetEntry, e.start <= e.end
  PROVE  /\ <<e>> \in MemSet /\ ContiguousFrom(<<e>>, e.start)
         /\ Expand(<<e>>) = EntryAccesses(e)
<1> DEFINE set == <<e>>
           from == e.start
<1>1. /\ set \in MemSet /\ Len(set) = 1 /\ set[1] = e /\ set # <<>>
      /\ e.start \in Nat /\ e.end \in Nat
  BY DEF MemSet, MemSetEntry
<1> HIDE DEF set
<1>2. ContiguousFrom(set, from)
  BY <1>1 DEF ContiguousFrom
<1>3. After(set, from) - from = NumInstances(e)
  BY <1>1 DEF After, NumInstances
<1>4. /\ Expand(set) \in Seq(Access) /\ Len(Expand(set)) = NumInstances(e)
      /\ \A k \in 1 .. NumInstances(e) : Expand(set)[k] = AccessAt(set, from + k - 1)
  BY <1>1, <1>2, <1>3, ExpandFrom
<1>5. ASSUME NEW k \in 1 .. NumInstances(e)
      PROVE  AccessAt(set, from + k - 1) = [addr |-> AccessLower(e, k - 1), len |-> e.length]
  <2> DEFINE i == from + k - 1
  <2>1. i \in set[1].start .. set[1].end /\ 1 \in 1 .. Len(set) /\ i - e.start = k - 1
    BY <1>1 DEF NumInstances
  <2> HIDE DEF i
  <2>2. AccessAt(set, i) = [addr |-> AccessLower(set[1], i - set[1].start), len |-> set[1].length]
    BY <1>1, <1>2, <2>1, AccessAtEntry
  <2>3. QED
    BY <1>1, <2>1, <2>2 DEF i
<1>6. Expand(set) = [k \in 1 .. NumInstances(e) |-> Expand(set)[k]]
  BY <1>4
<1>7. Expand(set) = EntryAccesses(e)
  BY <1>4, <1>5, <1>6 DEF EntryAccesses
<1>8. QED
  BY <1>1, <1>2, <1>7 DEF set

(***************************************************************************)
(* Sets one after the other stand for their accesses one after the other.  *)
(***************************************************************************)
LEMMA ExpandConcat ==
  ASSUME NEW s \in MemSet, NEW t \in MemSet, NEW from \in Nat, ContiguousFrom(s \o t, from)
  PROVE  Expand(s \o t) = Expand(s) \o Expand(t)
<1> DEFINE u == s \o t
           m == Len(s)
           n == Len(t)
           a == After(s, from)
           b == After(u, from)
<1>1. /\ u \in MemSet /\ m \in Nat /\ n \in Nat /\ Len(u) = m + n
      /\ \A i \in 1 .. m : u[i] = s[i]
      /\ \A i \in 1 .. n : u[m + i] = t[i]
  BY ConcatProperties, LenProperties DEF MemSet
<1>2. ContiguousFrom(s, from) /\ ContiguousFrom(t, a) /\ b = After(t, a)
  BY ContiguousConcat
<1>3. a \in Nat /\ from <= a
  BY <1>2, AfterType
<1>4. b \in Nat /\ a <= b
  BY <1>2, <1>3, AfterType
<1> HIDE DEF u, a, b
<1>5. ContiguousFrom(u, from)
  BY DEF u
<1>6. /\ Expand(u) \in Seq(Access) /\ Len(Expand(u)) = b - from
      /\ \A k \in 1 .. b - from : Expand(u)[k] = AccessAt(u, from + k - 1)
  BY <1>1, <1>5, ExpandFrom DEF b
<1>7. /\ Expand(s) \in Seq(Access) /\ Len(Expand(s)) = a - from
      /\ \A k \in 1 .. a - from : Expand(s)[k] = AccessAt(s, from + k - 1)
  BY <1>2, ExpandFrom DEF a
<1>8. /\ Expand(t) \in Seq(Access) /\ Len(Expand(t)) = b - a
      /\ \A k \in 1 .. b - a : Expand(t)[k] = AccessAt(t, a + k - 1)
  BY <1>2, <1>3, ExpandFrom
<1>9. ASSUME NEW k \in from .. a - 1
      PROVE  AccessAt(u, k) = AccessAt(s, k)
  <2>1. s # <<>>
    BY <1>3 DEF a, After
  <2>2. m \in 1 .. m /\ a = s[m].end + 1
    BY <1>1, <2>1, EmptySeq DEF a, After, MemSet
  <2>3. s[m].end \in Nat
    BY <1>2, <2>2, EntryFacts
  <2>4. k \in from .. s[m].end
    BY <2>2, <2>3
  <2>5. PICK j \in 1 .. m : k \in s[j].start .. s[j].end
    BY <1>2, <2>2, <2>4, EntriesCover
  <2>6. j \in 1 .. Len(u) /\ u[j] = s[j]
    BY <1>1
  <2>7. AccessAt(s, k) = [addr |-> AccessLower(s[j], k - s[j].start), len |-> s[j].length]
    BY <1>2, <2>5, AccessAtEntry
  <2>8. AccessAt(u, k) = [addr |-> AccessLower(u[j], k - u[j].start), len |-> u[j].length]
    BY <1>1, <1>5, <2>5, <2>6, AccessAtEntry
  <2>9. QED
    BY <2>6, <2>7, <2>8
<1>10. ASSUME NEW k \in a .. b - 1
       PROVE  AccessAt(u, k) = AccessAt(t, k)
  <2>1. t # <<>>
    BY <1>2, <1>3, <1>4 DEF After
  <2>2. n \in 1 .. n /\ b = t[n].end + 1
    BY <1>1, <1>2, <2>1, EmptySeq DEF After, MemSet
  <2>3. t[n].end \in Nat
    BY <1>2, <1>3, <2>2, EntryFacts
  <2>4. k \in a .. t[n].end
    BY <2>2, <2>3
  <2>5. PICK j \in 1 .. n : k \in t[j].start .. t[j].end
    BY <1>2, <1>3, <2>2, <2>4, EntriesCover
  <2>6. m + j \in 1 .. Len(u) /\ u[m + j] = t[j]
    BY <1>1
  <2>7. AccessAt(t, k) = [addr |-> AccessLower(t[j], k - t[j].start), len |-> t[j].length]
    BY <1>2, <1>3, <2>5, AccessAtEntry
  <2>8. AccessAt(u, k) = [addr |-> AccessLower(u[m + j], k - u[m + j].start), len |-> u[m + j].length]
    BY <1>1, <1>5, <2>5, <2>6, AccessAtEntry
  <2>9. QED
    BY <2>6, <2>7, <2>8
<1> DEFINE x == Expand(s) \o Expand(t)
<1>11. /\ x \in Seq(Access) /\ Len(x) = b - from
       /\ \A k \in 1 .. a - from : x[k] = Expand(s)[k]
       /\ \A k \in 1 .. b - a : x[(a - from) + k] = Expand(t)[k]
  <2>1. /\ x \in Seq(Access) /\ Len(x) = Len(Expand(s)) + Len(Expand(t))
        /\ \A k \in 1 .. Len(Expand(s)) : x[k] = Expand(s)[k]
        /\ \A k \in 1 .. Len(Expand(t)) : x[Len(Expand(s)) + k] = Expand(t)[k]
    <3> DEFINE p == Expand(s)
               q == Expand(t)
    <3>1. p \in Seq(Access) /\ q \in Seq(Access) /\ x = p \o q
      BY <1>7, <1>8
    <3> HIDE DEF p, q, x
    <3>2. /\ x \in Seq(Access) /\ Len(x) = Len(p) + Len(q)
          /\ \A k \in 1 .. Len(p) : x[k] = p[k]
          /\ \A k \in 1 .. Len(q) : x[Len(p) + k] = q[k]
      BY <3>1, ConcatParts
    <3>3. QED
      BY <3>2 DEF p, q
  <2> HIDE DEF x
  <2>2. Len(Expand(s)) + Len(Expand(t)) = b - from
    BY <1>3, <1>4, <1>7, <1>8
  <2>3. QED
    BY <1>7, <1>8, <2>1, <2>2
<1> HIDE DEF x
<1>12. ASSUME NEW k \in 1 .. b - from PROVE Expand(u)[k] = x[k]
  <2>1. CASE k \in 1 .. a - from
    <3>1. from + k - 1 \in from .. a - 1
      BY <1>3, <2>1
    <3>2. QED
      BY <1>6, <1>7, <1>9, <1>11, <2>1, <3>1
  <2>2. CASE k \notin 1 .. a - from
    <3> DEFINE i == k - (a - from)
    <3>1. /\ i \in 1 .. b - a /\ k = (a - from) + i /\ from + k - 1 = a + i - 1
          /\ a + i - 1 \in a .. b - 1
      BY <1>3, <1>4, <2>2
    <3> HIDE DEF i
    <3>2. Expand(u)[k] = AccessAt(u, a + i - 1)
      BY <1>6, <3>1
    <3>3. x[k] = AccessAt(t, a + i - 1)
      BY <1>8, <1>11, <3>1
    <3>4. QED
      BY <1>10, <3>1, <3>2, <3>3
  <2>3. QED
    BY <2>1, <2>2
<1>13. Expand(u) = x
  BY <1>6, <1>11, <1>12, SeqEqual
<1>14. QED
  BY <1>13 DEF u, x

(***************************************************************************)
(* The first entries of a contiguous set, and the rest of it.              *)
(***************************************************************************)
LEMMA SetInTwo ==
  ASSUME NEW set \in MemSet, NEW from \in Nat, ContiguousFrom(set, from),
         NEW j \in 0 .. Len(set)
  PROVE  LET first == SubSeq(set, 1, j)
             rest == SubSeq(set, j + 1, Len(set))
         IN /\ first \in MemSet /\ rest \in MemSet /\ set = first \o rest
            /\ ContiguousFrom(first, from) /\ ContiguousFrom(rest, After(first, from))
            /\ Expand(set) = Expand(first) \o Expand(rest)
<1> DEFINE first == SubSeq(set, 1, j)
           rest == SubSeq(set, j + 1, Len(set))
<1>1. Len(set) \in Nat /\ \A i \in 1 .. Len(set) : set[i] \in MemSetEntry
  BY DEF MemSet
<1>2. first \in MemSet /\ rest \in MemSet
  BY <1>1, SubSeqProperties DEF MemSet
<1>3. set = first \o rest
  <2>1. SubSeq(set, 1, Len(set)) = SubSeq(set, 1, j) \o SubSeq(set, j + 1, Len(set))
    <3>1. /\ 1 \in 1 .. Len(set) + 1 /\ j \in 1 - 1 .. Len(set) /\ Len(set) \in j .. Len(set)
          /\ set \in Seq(MemSetEntry)
      BY <1>1 DEF MemSet
    <3>2. QED
      BY <3>1, ConcatAdjacentSubSeq
  <2>2. SubSeq(set, 1, Len(set)) = set
    BY SubSeqFull DEF MemSet
  <2>3. QED
    BY <2>1, <2>2
<1> HIDE DEF first, rest
<1>4. ContiguousFrom(first \o rest, from)
  BY <1>3
<1>5. ContiguousFrom(first, from) /\ ContiguousFrom(rest, After(first, from))
  BY <1>2, <1>4, ContiguousConcat
<1>6. Expand(first \o rest) = Expand(first) \o Expand(rest)
  BY <1>2, <1>4, ExpandConcat
<1>7. QED
  BY <1>2, <1>3, <1>5, <1>6 DEF first, rest

LEMMA PrefixGrows ==
  ASSUME NEW set \in MemSet, NEW from \in Nat, ContiguousFrom(set, from),
         NEW j \in 0 .. Len(set) - 1
  PROVE  Expand(SubSeq(set, 1, j + 1)) = Expand(SubSeq(set, 1, j)) \o Expand(<<set[j + 1]>>)
<1> DEFINE more == SubSeq(set, 1, j + 1)
           less == SubSeq(set, 1, j)
           e == set[j + 1]
<1>1. j + 1 \in 1 .. Len(set) /\ j + 1 \in 0 .. Len(set) /\ j \in 0 .. Len(set) /\ (j + 1) - 1 = j
      /\ 1 \in 1 .. Len(set) /\ j + 1 \in 1 .. j + 1 /\ Len(set) \in Nat
  BY DEF MemSet
<1>2. more \in MemSet /\ ContiguousFrom(more, from) /\ less \in MemSet
  BY <1>1, SetInTwo
<1>3. e \in MemSetEntry /\ e.start <= e.end
  BY <1>1, EntryFacts
<1>4. <<e>> \in MemSet
  BY <1>3, ExpandEntry
<1>5. more = less \o <<e>>
  <2>1. SubSeq(set, 1, j + 1) = SubSeq(set, 1, (j + 1) - 1) \o <<set[j + 1]>>
    BY <1>1, SubSeqRecursiveSecond DEF MemSet
  <2>2. QED
    BY <1>1, <2>1
<1> HIDE DEF more, less, e
<1>6. Expand(less \o <<e>>) = Expand(less) \o Expand(<<e>>)
  BY <1>2, <1>4, <1>5, ExpandConcat
<1>7. QED
  BY <1>5, <1>6 DEF more, less, e

(***************************************************************************)
(* Splitting an entry divides its accesses, and what is split off goes on  *)
(* where the rest ends; a trivial pattern is split after its first access. *)
(***************************************************************************)
LEMMA SplitOffEndDivides ==
  ASSUME NEW e \in MemSetEntry, e.start <= e.end, NEW n \in 1 .. NumInstances(e) - 1
  PROVE  LET split == SplitOffEnd(e, n)
         IN /\ <<split.kept>> \in MemSet /\ <<split.off>> \in MemSet
            /\ split.kept.start = e.start /\ split.kept.end = e.end - n
            /\ split.off.start = split.kept.end + 1 /\ split.off.end = e.end
            /\ ContiguousFrom(<<split.kept>> \o <<split.off>>, e.start)
            /\ Expand(<<split.kept>>) \o Expand(<<split.off>>) = Expand(<<e>>)
<1> DEFINE kept == SplitOffEnd(e, n).kept
           off == SplitOffEnd(e, n).off
           r == NumInstances(e) - n
           N == NumInstances(e)
<1>1. /\ e.start \in Nat /\ e.end \in Nat /\ e.base \in Word /\ e.stride \in SignedWord
      /\ e.length \in Nat /\ e.base \in Int /\ e.stride \in Int
  BY HAssumption DEF MemSetEntry, Word, SignedWord, M
<1>2. N = e.end - e.start + 1 /\ N \in Nat /\ r \in 1 .. N - 1 /\ r * e.stride \in Int
  BY <1>1 DEF NumInstances
<1>3. kept = [base |-> e.base, stride |-> e.stride, length |-> e.length,
              start |-> e.start, end |-> e.end - n]
  BY DEF SplitOffEnd, MemSetEntry
<1>4. off = [base |-> Wrap(e.base + r * e.stride), stride |-> e.stride, length |-> e.length,
             start |-> e.start + r, end |-> e.end]
  BY DEF SplitOffEnd, MemSetEntry
<1>5. Wrap(e.base + r * e.stride) \in Word
  BY <1>1, <1>2, WrapIsWord
<1>6. e.end - n \in Nat /\ e.start <= e.end - n /\ e.start + r = e.end - n + 1 /\ e.start + r <= e.end
  BY <1>1, <1>2
<1> HIDE DEF kept, off, r, N
<1>7. kept \in MemSetEntry /\ off \in MemSetEntry
  BY <1>1, <1>2, <1>3, <1>4, <1>5, <1>6 DEF MemSetEntry
<1>8. /\ kept.start = e.start /\ kept.end = e.end - n /\ off.start = kept.end + 1 /\ off.end = e.end
      /\ kept.start <= kept.end /\ off.start <= off.end
      /\ kept.base = e.base /\ kept.stride = e.stride /\ kept.length = e.length
      /\ off.base = Wrap(e.base + r * e.stride) /\ off.stride = e.stride /\ off.length = e.length
  BY <1>3, <1>4, <1>6
<1>9. /\ <<kept>> \in MemSet /\ ContiguousFrom(<<kept>>, e.start) /\ Expand(<<kept>>) = EntryAccesses(kept)
      /\ <<off>> \in MemSet /\ ContiguousFrom(<<off>>, off.start) /\ Expand(<<off>>) = EntryAccesses(off)
      /\ Expand(<<e>>) = EntryAccesses(e) /\ <<e>> \in MemSet /\ ContiguousFrom(<<e>>, e.start)
  BY <1>7, <1>8, ExpandEntry
<1>10. ContiguousFrom(<<kept>> \o <<off>>, e.start)
  <2>1. After(<<kept>>, e.start) = off.start
    BY <1>8 DEF After
  <2>2. QED
    BY <1>1, <1>9, <2>1, ContiguousConcat
<1>11. NumInstances(kept) = r /\ NumInstances(off) = n /\ r + n = N
  <2>1. r = N - n /\ N = e.end - e.start + 1 /\ n \in Int
    BY <1>1, <1>2 DEF r, N
  <2>2. NumInstances(kept) = (e.end - n) - e.start + 1 /\ NumInstances(off) = e.end - (e.start + r) + 1
    BY <1>4, <1>8 DEF NumInstances
  <2>3. QED
    BY <1>1, <1>2, <2>1, <2>2
<1>12. Expand(<<kept>>) \in Seq(Access) /\ Expand(<<off>>) \in Seq(Access) /\ Expand(<<e>>) \in Seq(Access)
  BY <1>1, <1>6, <1>8, <1>9, ExpandFrom
<1> DEFINE x == Expand(<<kept>>) \o Expand(<<off>>)
<1>13. Len(Expand(<<kept>>)) = r /\ Len(Expand(<<off>>)) = n /\ Len(Expand(<<e>>)) = N
  BY <1>2, <1>9, <1>11 DEF EntryAccesses, N
<1>14. /\ x \in Seq(Access) /\ Len(x) = N
       /\ \A k \in 1 .. r : x[k] = Expand(<<kept>>)[k]
       /\ \A k \in 1 .. n : x[r + k] = Expand(<<off>>)[k]
  <2> DEFINE p == Expand(<<kept>>)
             q == Expand(<<off>>)
  <2>1. p \in Seq(Access) /\ q \in Seq(Access) /\ x = p \o q /\ Len(p) = r /\ Len(q) = n
    BY <1>12, <1>13
  <2> HIDE DEF p, q, x
  <2>2. p \in Seq(Access) /\ q \in Seq(Access)
    BY <2>1
  <2>3. /\ p \o q \in Seq(Access) /\ Len(p \o q) = Len(p) + Len(q)
        /\ \A k \in 1 .. Len(p) : (p \o q)[k] = p[k]
        /\ \A k \in 1 .. Len(q) : (p \o q)[Len(p) + k] = q[k]
    BY <2>2, ConcatParts
  <2>4. /\ x \in Seq(Access) /\ Len(x) = r + n
        /\ \A k \in 1 .. r : x[k] = p[k]
        /\ \A k \in 1 .. n : x[r + k] = q[k]
    BY <2>1, <2>3
  <2>5. QED
    BY <1>11, <2>4 DEF p, q
<1> HIDE DEF x
<1>15. ASSUME NEW k \in 1 .. N PROVE x[k] = Expand(<<e>>)[k]
  <2>1. Expand(<<e>>)[k] = [addr |-> AccessLower(e, k - 1), len |-> e.length]
    BY <1>9 DEF EntryAccesses, N
  <2>2. CASE k \in 1 .. r
    <3>1. Expand(<<kept>>)[k] = [addr |-> AccessLower(kept, k - 1), len |-> kept.length]
      BY <1>9, <1>11, <2>2 DEF EntryAccesses
    <3>2. QED
      BY <1>8, <1>14, <2>1, <2>2, <3>1 DEF AccessLower
  <2>3. CASE k \notin 1 .. r
    <3> DEFINE i == k - r
    <3>1. i \in 1 .. n /\ k = r + i /\ i - 1 \in Int /\ r \in Int
      BY <1>2, <1>11, <2>3
    <3> HIDE DEF i
    <3>2. Expand(<<off>>)[i] = [addr |-> AccessLower(off, i - 1), len |-> off.length]
      BY <1>9, <1>11, <3>1 DEF EntryAccesses
    <3>3. AccessLower(off, i - 1) = Wrap(Wrap(e.base + r * e.stride) + (i - 1) * e.stride)
      BY <1>8 DEF AccessLower
    <3>4. /\ e.base + r * e.stride \in Int /\ (i - 1) * e.stride \in Int
          /\ (e.base + r * e.stride) + (i - 1) * e.stride = e.base + (k - 1) * e.stride
      BY <1>1, <3>1
    <3>5. AccessLower(off, i - 1) = Wrap(e.base + (k - 1) * e.stride)
      BY <3>3, <3>4, WrapSum
    <3>6. x[k] = Expand(<<off>>)[i]
      BY <1>14, <3>1
    <3>7. QED
      BY <1>8, <2>1, <3>2, <3>5, <3>6 DEF AccessLower
  <2>4. QED
    BY <2>2, <2>3
<1>16. x = Expand(<<e>>)
  BY <1>12, <1>13, <1>14, <1>15, SeqEqual
<1>17. QED
  BY <1>8, <1>9, <1>10, <1>16 DEF kept, off, x

LEMMA TrivialIsSplit ==
  ASSUME NEW e \in MemSetEntry, NumInstances(e) = 2
  PROVE  SplitTrivial(e) = SplitOffEnd(e, 1)
<1>1. /\ e.start \in Nat /\ e.end \in Nat /\ e.stride \in Int /\ e.base \in Int
      /\ e.end = e.start + 1
  BY HAssumption DEF MemSetEntry, Word, SignedWord, M, NumInstances
<1>2. NumInstances(e) - 1 = 1 /\ 1 * e.stride = e.stride /\ e.end - 1 = e.start
  BY <1>1
<1>3. QED
  BY <1>2 DEF SplitTrivial, SplitOffEnd
==============================================================================
