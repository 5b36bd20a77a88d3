----------------------- MODULE MemoryTraceReader_proofs -----------------------
(***************************************************************************)
(* The reader of a memory trace returns the log that the tracer dumped,    *)
(* for every log, every size of the requests and every way in which the    *)
(* file falls into blocks.                                                 *)
(***************************************************************************)
EXTENDS MemoryTraceReader, MemSets_proofs

-----------------------------------------------------------------------------
(* The file.                                                               *)

(***************************************************************************)
(* The set that a tracer makes of a run of accesses is contiguous from 0   *)
(* and stands for them; if there are any, the first base is the first      *)
(* address (recordMemoryReference, one access after the other).            *)
(***************************************************************************)
LEMMA RecordAllFacts ==
  ASSUME NEW a \in Seq(Access)
  PROVE  /\ RecordAll(a) \in MemSet /\ ContiguousFrom(RecordAll(a), 0)
         /\ Expand(RecordAll(a)) = a
<1> DEFINE Solves(f, m) ==
      f = [n \in 0 .. m |-> IF n = 0 THEN <<>> ELSE RecordMemoryReference(f[n - 1], a[n])]
    T == {m \in Nat : \E f : Solves(f, m)}
    set == CHOOSE f : Solves(f, Len(a))
<1>1. Len(a) \in Nat
  OBVIOUS
<1>2. 0 \in T
  <2> DEFINE f == [n \in 0 .. 0 |-> <<>>]
  <2>1. Solves(f, 0)
    OBVIOUS
  <2>2. QED
    BY <2>1
<1>3. ASSUME NEW m \in Nat, m \in T PROVE m + 1 \in T
  <2>1. PICK g : Solves(g, m)
    BY <1>3
  <2> DEFINE f == [n \in 0 .. m + 1 |->
                     IF n = m + 1 THEN RecordMemoryReference(g[m], a[m + 1]) ELSE g[n]]
  <2>2. ASSUME NEW n \in 0 .. m + 1
        PROVE  f[n] = IF n = 0 THEN <<>> ELSE RecordMemoryReference(f[n - 1], a[n])
    <3>1. CASE n = m + 1
      <4>1. f[n] = RecordMemoryReference(g[m], a[m + 1]) /\ n # 0 /\ n - 1 = m /\ f[m] = g[m]
        BY <3>1
      <4> HIDE DEF f
      <4>2. QED
        BY <3>1, <4>1
    <3>2. CASE n # m + 1
      <4>1. n \in 0 .. m /\ f[n] = g[n]
        BY <3>2
      <4>2. g[n] = IF n = 0 THEN <<>> ELSE RecordMemoryReference(g[n - 1], a[n])
        BY <2>1, <4>1
      <4>3. n # 0 => f[n - 1] = g[n - 1]
        BY <4>1
      <4> HIDE DEF f
      <4>4. QED
        BY <4>1, <4>2, <4>3
    <3>3. QED
      BY <3>1, <3>2
  <2>3. Solves(f, m + 1)
    <3>1. f = [n \in 0 .. m + 1 |-> f[n]]
      OBVIOUS
    <3> HIDE DEF f
    <3>2. QED
      BY <2>2, <3>1
  <2> HIDE DEF f
  <2>4. QED
    BY <2>3
<1>4. Solves(set, Len(a))
  <2>1. Nat \subseteq T
    <3> HIDE DEF T
    <3>1. QED
      BY <1>2, <1>3, SetInduction
  <2>2. QED
    BY <1>1, <2>1
<1>5. RecordAll(a) = set[Len(a)]
  BY DEF RecordAll
<1> HIDE DEF set
<1>6. set[0] = <<>> /\ \A n \in 1 .. Len(a) : set[n] = RecordMemoryReference(set[n - 1], a[n])
  BY <1>1, <1>4
<1> DEFINE Made(n) == /\ set[n] \in MemSet /\ ContiguousFrom(set[n], 0)
                      /\ Expand(set[n]) = SubSeq(a, 1, n)
           U == {n \in Nat : n <= Len(a) => Made(n)}
<1>7. 0 \in U
  <2>1. <<>> \in MemSet /\ ContiguousFrom(<<>>, 0) /\ Expand(<<>>) = <<>>
    BY EmptySeq DEF MemSet, ContiguousFrom, Expand
  <2>2. SubSeq(a, 1, 0) = <<>>
    BY SubSeqEmpty
  <2>3. QED
    BY <1>6, <2>1, <2>2
<1>8. ASSUME NEW n \in Nat, n \in U PROVE n + 1 \in U
  <2>1. SUFFICES ASSUME n + 1 <= Len(a) PROVE Made(n + 1)
    OBVIOUS
  <2>2. /\ n \in 0 .. Len(a) /\ n + 1 \in 1 .. Len(a) /\ (n + 1) - 1 = n
        /\ n + 1 \in 1 .. n + 1 /\ 1 \in 1 .. Len(a)
    BY <1>1, <2>1
  <2>3. Made(n) /\ a[n + 1] \in Access
    BY <1>8, <2>2
  <2>4. set[n + 1] = RecordMemoryReference(set[n], a[n + 1])
    BY <1>6, <2>2
  <2>5. set[n + 1] \in MemSet /\ ContiguousFrom(set[n + 1], 0)
    BY <2>3, <2>4, RecordType, RecordContiguous
  <2>6. Expand(set[n + 1]) = Append(SubSeq(a, 1, n), a[n + 1])
    BY <2>3, <2>4, RecordAppends
  <2>7. SubSeq(a, 1, n) \in Seq(Access)
    BY <2>3, ExpandLength
  <2>8. SubSeq(a, 1, n + 1) = SubSeq(a, 1, n) \o <<a[n + 1]>>
    BY <2>2, SubSeqRecursiveSecond
  <2>9. QED
    BY <2>3, <2>5, <2>6, <2>7, <2>8, AppendIsConcat
<1>9. Nat \subseteq U
  <2> HIDE DEF U
  <2>1. QED
    BY <1>7, <1>8, SetInduction
<1>10. Made(Len(a))
  BY <1>1, <1>9
<1>11. SubSeq(a, 1, Len(a)) = a
  BY SubSeqFull
<1>12. QED
  BY <1>5, <1>10, <1>11

LEMMA FirstBase ==
  ASSUME NEW a \in Seq(Access), a # <<>>
  PROVE  RecordAll(a) # <<>> /\ RecordAll(a)[1].base = a[1].addr
<1> DEFINE set == RecordAll(a)
<1>1. set \in MemSet /\ ContiguousFrom(set, 0) /\ Expand(set) = a
  BY RecordAllFacts
<1> HIDE DEF set
<1>2. set # <<>>
  BY <1>1 DEF Expand
<1>3. 1 \in 1 .. Len(set)
  BY <1>1, <1>2 DEF MemSet
<1>4. set[1].start = 0 /\ set[1].end \in Nat /\ set[1] \in MemSetEntry
  BY <1>1, <1>3, EntryFacts
<1>5. 1 \in 1 .. After(set, 0) - 0
  BY <1>1, <1>2, AfterType
<1>6. 0 + 1 - 1 = 0
  OBVIOUS
<1>7. Expand(set)[1] = AccessAt(set, 0)
  BY <1>1, <1>5, <1>6, ExpandFrom
<1>8. AccessAt(set, 0) = [addr |-> AccessLower(set[1], 0 - set[1].start), len |-> set[1].length]
  BY <1>1, <1>3, <1>4, AccessAtEntry
<1>9. /\ set[1].base \in Word /\ set[1].stride \in Int /\ set[1].base \in Int
      /\ (0 - set[1].start) * set[1].stride = 0
  BY <1>4, HAssumption DEF MemSetEntry, Word, SignedWord, M
<1>10. AccessLower(set[1], 0 - set[1].start) = set[1].base
  BY <1>9, WrapIdentity DEF AccessLower
<1>11. QED
  BY <1>1, <1>2, <1>7, <1>8, <1>10 DEF set

(***************************************************************************)
(* The tokens of a stream: an identifier, the number of patterns of each   *)
(* set, and, behind the number of theirs, the patterns (dumpInstruction).  *)
(***************************************************************************)
Preamble(w) == IF w THEN 3 ELSE 2

LEMMA StreamTokens ==
  ASSUME NEW D, NEW dumped \in Seq(D), NEW w \in BOOLEAN
  PROVE  LET tokens == StreamOf(dumped, w)
             n == Len(dumped)
         IN /\ Len(tokens) = n + 3
            /\ tokens[1] = [kind |-> "number", is |-> 0]
            /\ w => tokens[2] = [kind |-> "number", is |-> 0]
            /\ tokens[Preamble(w)] = [kind |-> "number", is |-> n]
            /\ \A j \in 1 .. n : tokens[Preamble(w) + j] = [kind |-> "pattern", is |-> dumped[j]]
            /\ ~w => tokens[n + 3] = [kind |-> "number", is |-> 0]
<1> DEFINE tokens == StreamOf(dumped, w)
           n == Len(dumped)
           K == [kind : {"number", "pattern"}, is : Nat \cup D]
           P == Tokens("pattern", dumped)
<1>1. n \in Nat
  OBVIOUS
<1>2. ASSUME NEW x \in Nat
      PROVE  /\ Number(x) \in Seq(K) /\ Len(Number(x)) = 1
             /\ Number(x)[1] = [kind |-> "number", is |-> x]
  <2>1. Number(x) = [i \in 1 .. 1 |-> [kind |-> "number", is |-> x]]
    BY DEF Number, Tokens
  <2>2. QED
    BY <2>1
<1>3. P \in Seq(K) /\ Len(P) = n /\ \A j \in 1 .. n : P[j] = [kind |-> "pattern", is |-> dumped[j]]
  BY <1>1 DEF Tokens
<1> HIDE DEF P, K, n
<1> DEFINE Q == Number(n) \o P
<1>4. /\ Q \in Seq(K) /\ Len(Q) = n + 1
      /\ Q[1] = [kind |-> "number", is |-> n]
      /\ \A j \in 1 .. n : Q[1 + j] = [kind |-> "pattern", is |-> dumped[j]]
  <2>1. Number(n) \in Seq(K) /\ Len(Number(n)) = 1
    BY <1>1, <1>2
  <2>2. Q \in Seq(K) /\ Joined(Q, Number(n), P, 1, n)
    BY <1>3, <2>1, ConcatJoins
  <2> HIDE DEF Q
  <2>3. QED
    BY <1>1, <1>2, <1>3, <2>2 DEF Joined
<1>5. tokens = Number(0) \o (IF w THEN Number(0) \o Q ELSE Q \o Number(0))
  BY DEF StreamOf, P, Q, n
<1> HIDE DEF Q
<1> DEFINE R == IF w THEN Number(0) \o Q ELSE Q \o Number(0)
<1>6. /\ R \in Seq(K) /\ Len(R) = n + 2
      /\ w => /\ R[1] = [kind |-> "number", is |-> 0]
              /\ \A i \in 1 .. n + 1 : R[1 + i] = Q[i]
      /\ ~w => /\ \A i \in 1 .. n + 1 : R[i] = Q[i]
               /\ R[n + 2] = [kind |-> "number", is |-> 0]
  <2>1. /\ Number(0) \in Seq(K) /\ Len(Number(0)) = 1
        /\ Number(0)[1] = [kind |-> "number", is |-> 0]
    BY <1>2
  <2>2. CASE w
    <3>1. R = Number(0) \o Q
      BY <2>2
    <3> HIDE DEF R
    <3>2. R \in Seq(K) /\ Joined(R, Number(0), Q, 1, n + 1)
      BY <1>4, <2>1, <3>1, ConcatJoins
    <3>3. QED
      BY <1>1, <2>1, <2>2, <3>2 DEF Joined
  <2>3. CASE ~w
    <3>1. R = Q \o Number(0)
      BY <2>3
    <3> HIDE DEF R
    <3>2. R \in Seq(K) /\ Joined(R, Q, Number(0), n + 1, 1)
      BY <1>4, <2>1, <3>1, ConcatJoins
    <3>3. (n + 1) + 1 = n + 2
      BY <1>1
    <3>4. QED
      BY <1>1, <2>1, <2>3, <3>2, <3>3 DEF Joined
  <2>4. QED
    BY <2>2, <2>3
<1>7. tokens = Number(0) \o R
  BY <1>5
<1> HIDE DEF R, tokens
<1>8. /\ Len(tokens) = 1 + (n + 2)
      /\ tokens[1] = [kind |-> "number", is |-> 0]
      /\ \A i \in 1 .. n + 2 : tokens[1 + i] = R[i]
  <2>1. /\ Number(0) \in Seq(K) /\ Len(Number(0)) = 1
        /\ Number(0)[1] = [kind |-> "number", is |-> 0]
    BY <1>2
  <2>2. Joined(tokens, Number(0), R, 1, n + 2)
    BY <1>6, <1>7, <2>1, ConcatJoins
  <2>3. QED
    BY <2>1, <2>2 DEF Joined
<1>9. /\ Len(tokens) = n + 3
      /\ w => tokens[2] = [kind |-> "number", is |-> 0]
  <2>1. w => tokens[1 + 1] = R[1]
    BY <1>1, <1>8
  <2>2. QED
    BY <1>1, <1>6, <1>8, <2>1
<1>10. tokens[Preamble(w)] = [kind |-> "number", is |-> n]
  <2>1. CASE w
    <3>1. tokens[1 + 2] = R[2] /\ R[1 + 1] = Q[1]
      BY <1>1, <1>6, <1>8, <2>1
    <3>2. QED
      BY <1>4, <2>1, <3>1 DEF Preamble
  <2>2. CASE ~w
    <3>1. tokens[1 + 1] = R[1] /\ R[1] = Q[1]
      BY <1>1, <1>6, <1>8, <2>2
    <3>2. QED
      BY <1>4, <2>2, <3>1 DEF Preamble
  <2>3. QED
    BY <2>1, <2>2
<1>11. ASSUME NEW j \in 1 .. n
       PROVE  tokens[Preamble(w) + j] = [kind |-> "pattern", is |-> dumped[j]]
  <2>1. Q[1 + j] = [kind |-> "pattern", is |-> dumped[j]]
    BY <1>4
  <2>2. CASE w
    <3>1. /\ Preamble(w) + j = 1 + (1 + (1 + j)) /\ 1 + j \in 1 .. n + 1 /\ 1 + (1 + j) \in 1 .. n + 2
      BY <1>1, <2>2 DEF Preamble
    <3>2. tokens[1 + (1 + (1 + j))] = R[1 + (1 + j)] /\ R[1 + (1 + j)] = Q[1 + j]
      BY <1>6, <1>8, <2>2, <3>1
    <3>3. QED
      BY <2>1, <3>1, <3>2
  <2>3. CASE ~w
    <3>1. /\ Preamble(w) + j = 1 + (1 + j) /\ 1 + j \in 1 .. n + 1 /\ 1 + j \in 1 .. n + 2
      BY <1>1, <2>3 DEF Preamble
    <3>2. tokens[1 + (1 + j)] = R[1 + j] /\ R[1 + j] = Q[1 + j]
      BY <1>6, <1>8, <2>3, <3>1
    <3>3. QED
      BY <2>1, <3>1, <3>2
  <2>4. QED
    BY <2>2, <2>3
<1>12. ~w => tokens[n + 3] = [kind |-> "number", is |-> 0]
  <2>1. n + 2 \in 1 .. n + 2 /\ n + 3 = 1 + (n + 2)
    BY <1>1
  <2>2. QED
    BY <1>6, <1>8, <2>1
<1>13. QED
  BY <1>8, <1>9, <1>10, <1>11, <1>12 DEF tokens, n

-----------------------------------------------------------------------------
(* The scanner.                                                            *)

Lexers ==
  [state : 0 .. 4, remainingGroups : Nat, lastAccess : Word,
   numInstancesRequired : Nat, startInstance : Nat, nextExpectedInstance : Nat]

\* The entries that a scanned pattern is entered as (addNumRepsToSet).
Entered(e) ==
  IF IsTrivialPattern(e) THEN <<SplitTrivial(e).kept>> \o <<SplitTrivial(e).off>> ELSE <<e>>

(***************************************************************************)
(* However a pattern is entered, it stands for the same accesses, in the   *)
(* same numbers: for two entries of one access each if it is trivial.      *)
(***************************************************************************)
LEMMA EnteredFacts ==
  ASSUME NEW e \in MemSetEntry, e.start <= e.end
  PROVE  /\ Entered(e) \in MemSet /\ ContiguousFrom(Entered(e), e.start)
         /\ After(Entered(e), e.start) = e.end + 1
         /\ Expand(Entered(e)) = Expand(<<e>>)
         /\ \/ Len(Entered(e)) = 1
            \/ Len(Entered(e)) = 2 /\ Entered(e)[1].end = e.start
<1>1. e.start \in Nat /\ e.end \in Nat
  BY DEF MemSetEntry
<1>2. CASE IsTrivialPattern(e)
  <2> DEFINE kept == SplitTrivial(e).kept
             off == SplitTrivial(e).off
  <2>1. NumInstances(e) = 2 /\ 1 \in 1 .. NumInstances(e) - 1 /\ e.end = e.start + 1
    BY <1>1, <1>2 DEF IsTrivialPattern, NumInstances
  <2>2. kept = SplitOffEnd(e, 1).kept /\ off = SplitOffEnd(e, 1).off
    BY <2>1, TrivialIsSplit
  <2> HIDE DEF kept, off
  <2>3. /\ <<kept>> \in MemSet /\ <<off>> \in MemSet /\ kept.end = e.end - 1 /\ off.end = e.end
        /\ ContiguousFrom(<<kept>> \o <<off>>, e.start)
        /\ Expand(<<kept>>) \o Expand(<<off>>) = Expand(<<e>>)
    BY <2>1, <2>2, SplitOffEndDivides
  <2>4. <<kept>> \o <<off>> \in MemSet /\ After(<<kept>> \o <<off>>, e.start) = e.end + 1
    BY <1>1, <2>3, ContiguousConcat DEF After
  <2>5. Expand(<<kept>> \o <<off>>) = Expand(<<e>>)
    BY <1>1, <2>3, ExpandConcat
  <2>6. Len(<<kept>> \o <<off>>) = 2 /\ (<<kept>> \o <<off>>)[1] = kept /\ kept.end = e.start
    BY <1>1, <2>1, <2>3
  <2>7. Entered(e) = <<kept>> \o <<off>>
    BY <1>2 DEF Entered, kept, off
  <2>8. QED
    BY <2>3, <2>4, <2>5, <2>6, <2>7
<1>3. CASE ~ IsTrivialPattern(e)
  <2>1. Entered(e) = <<e>>
    BY <1>3 DEF Entered
  <2>2. <<e>> \in MemSet /\ ContiguousFrom(<<e>>, e.start)
    BY ExpandEntry
  <2>3. After(<<e>>, e.start) = e.end + 1 /\ Len(<<e>>) = 1
    BY DEF After
  <2>4. QED
    BY <2>1, <2>2, <2>3
<1>4. QED
  BY <1>2, <1>3

(***************************************************************************)
(* The scanner's result after each token is that after the token before    *)
(* it and the token (yylex, token by token).                               *)
(***************************************************************************)
LEMMA ScannedFacts ==
  ASSUME NEW tokens, NEW from \in Nat, NEW to \in Nat, from <= to
  PROVE  /\ Scanned(tokens, from, to)[from] = [lex |-> mtl, set |-> chunk]
         /\ \A k \in from + 1 .. to :
              Scanned(tokens, from, to)[k] = Lex(Scanned(tokens, from, to)[k - 1], tokens[k])
<1> DEFINE first == [lex |-> mtl, set |-> chunk]
    Solves(f, m) ==
      f = [k \in from .. m |-> IF k = from THEN first ELSE Lex(f[k - 1], tokens[k])]
    T == {i \in Nat : \E f : Solves(f, from + i)}
    after == CHOOSE f : Solves(f, to)
<1> HIDE DEF first
<1>1. 0 \in T
  <2> DEFINE f == [k \in from .. from |-> first]
  <2>1. Solves(f, from) /\ from + 0 = from
    OBVIOUS
  <2> HIDE DEF f
  <2>2. QED
    BY <2>1
<1>2. ASSUME NEW i \in Nat, i \in T PROVE i + 1 \in T
  <2> DEFINE m == from + i
  <2>1. PICK g : Solves(g, m)
    BY <1>2
  <2>2. m \in Nat /\ from <= m /\ from + (i + 1) = m + 1
    OBVIOUS
  <2> HIDE DEF m
  <2> DEFINE f == [k \in from .. m + 1 |-> IF k = m + 1 THEN Lex(g[m], tokens[m + 1]) ELSE g[k]]
  <2>3. ASSUME NEW k \in from .. m + 1
        PROVE  f[k] = IF k = from THEN first ELSE Lex(f[k - 1], tokens[k])
    <3>1. CASE k = m + 1
      <4>1. f[k] = Lex(g[m], tokens[m + 1]) /\ k # from /\ k - 1 = m /\ f[m] = g[m]
        BY <2>2, <3>1
      <4> HIDE DEF f
      <4>2. QED
        BY <3>1, <4>1
    <3>2. CASE k # m + 1
      <4>1. k \in from .. m /\ f[k] = g[k]
        BY <2>2, <3>2
      <4>2. g[k] = IF k = from THEN first ELSE Lex(g[k - 1], tokens[k])
        BY <2>1, <4>1
      <4>3. k # from => f[k - 1] = g[k - 1]
        BY <2>2, <4>1
      <4> HIDE DEF f
      <4>4. QED
        BY <4>1, <4>2, <4>3
    <3>3. QED
      BY <3>1, <3>2
  <2>4. Solves(f, m + 1)
    <3>1. f = [k \in from .. m + 1 |-> f[k]]
      OBVIOUS
    <3> HIDE DEF f
    <3>2. QED
      BY <2>3, <3>1
  <2> HIDE DEF f
  <2>5. QED
    BY <2>2, <2>4
<1>3. Solves(after, to)
  <2>1. Nat \subseteq T
    <3> HIDE DEF T
    <3>1. QED
      BY <1>1, <1>2, SetInduction
  <2>2. to - from \in Nat /\ from + (to - from) = to
    OBVIOUS
  <2>3. QED
    BY <2>1, <2>2
<1>4. Scanned(tokens, from, to) = after
  BY DEF Scanned, first
<1> HIDE DEF after
<1>5. after[from] = first /\ \A k \in from + 1 .. to : after[k] = Lex(after[k - 1], tokens[k])
  BY <1>3
<1>6. QED
  BY <1>4, <1>5 DEF first

-----------------------------------------------------------------------------
(***************************************************************************)
(* What the scanner's place in a stream means: its state, how many         *)
(* patterns it expects and the base it counts from follow from the tokens  *)
(* it has read, k of them, and from the set that was dumped.               *)
(***************************************************************************)
InPlace(lex, dumped, w, k) ==
  LET n == Len(dumped)
      j == k - Preamble(w)
  IN IF j \in 0 .. n - 1
       THEN /\ lex.state = (IF w THEN 4 ELSE 2)
            /\ lex.remainingGroups = n - j
            /\ lex.lastAccess = IF j = 0 THEN 0 ELSE dumped[j].base
       ELSE /\ lex.state = (IF k = 0 \/ k = n + 3 THEN 0 ELSE IF k = 1 THEN 1 ELSE 3)
            /\ k \in 1 .. Preamble(w) - 1 => lex.lastAccess = 0

\* The patterns among the first k tokens of a stream that has n.
PatternsRead(n, w, k) ==
  IF k - Preamble(w) \in 0 .. n THEN k - Preamble(w) ELSE IF k < Preamble(w) THEN 0 ELSE n

(***************************************************************************)
(* The scanner's result s, behind what was returned before, has the        *)
(* accesses of the streams before stream str, and those of the patterns    *)
(* among the first k tokens of it, and is numbered through.                *)
(***************************************************************************)
Progress(rs, w, str, k, s, before) ==
  LET dumped == RecordAll(rs[str])
  IN /\ str \in 1 .. Len(rs) /\ k \in 0 .. Len(dumped) + 3
     /\ InPlace(s.lex, dumped, w, k)
     /\ s \in [lex : Lexers, set : MemSet]
     /\ ContiguousFrom(before \o s.set, 0)
     /\ s.lex.nextExpectedInstance = After(before \o s.set, 0)
     /\ Expand(before \o s.set) =
          FlattenSeq(SubSeq(rs, 1, str - 1))
            \o Expand(SubSeq(dumped, 1, PatternsRead(Len(dumped), w, k)))

\* What a token leaves alone.
SameRequest(s, t) ==
  /\ t.lex.numInstancesRequired = s.lex.numInstancesRequired
  /\ t.lex.startInstance = s.lex.startInstance

(***************************************************************************)
(* A run of a log is not empty, and its dumped set stands for it.          *)
(***************************************************************************)
LEMMA RunFacts ==
  ASSUME NEW rs \in Runs, NEW str \in 1 .. Len(rs)
  PROVE  /\ rs \in Seq(Seq(Access)) /\ Len(rs) \in Nat /\ Len(rs) > 0
         /\ rs[str] \in Seq(Access)
         /\ RecordAll(rs[str]) \in MemSet /\ ContiguousFrom(RecordAll(rs[str]), 0)
         /\ Expand(RecordAll(rs[str])) = rs[str]
         /\ Len(RecordAll(rs[str])) \in Nat \ {0}
         /\ RecordAll(rs[str])[1].base = rs[str][1].addr
<1>1. rs \in Seq(Seq(Access) \ {<<>>}) /\ rs # <<>>
  BY ReaderAssumption
<1>2. rs \in Seq(Seq(Access)) /\ Len(rs) \in Nat /\ Len(rs) > 0
  <2>1. Seq(Access) \ {<<>>} \subseteq Seq(Access)
    OBVIOUS
  <2>2. QED
    BY <1>1, <2>1, SeqMonotonic, EmptySeq
<1>3. rs[str] \in Seq(Access) /\ rs[str] # <<>>
  BY <1>1, ElementOfSeq
<1>4. RecordAll(rs[str]) # <<>> /\ RecordAll(rs[str])[1].base = rs[str][1].addr
  BY <1>3, FirstBase
<1>5. RecordAll(rs[str]) \in MemSet /\ ContiguousFrom(RecordAll(rs[str]), 0)
      /\ Expand(RecordAll(rs[str])) = rs[str]
  BY <1>3, RecordAllFacts
<1>6. Len(RecordAll(rs[str])) \in Nat \ {0}
  BY <1>4, <1>5, EmptySeq DEF MemSet
<1>7. QED
  BY <1>2, <1>3, <1>4, <1>5, <1>6

(***************************************************************************)
(* The log up to a stream.                                                 *)
(***************************************************************************)
LEMMA EarlierRuns ==
  ASSUME NEW rs \in Runs, NEW str \in 1 .. Len(rs)
  PROVE  /\ FlattenSeq(SubSeq(rs, 1, str - 1)) \in Seq(Access)
         /\ FlattenSeq(SubSeq(rs, 1, str)) = FlattenSeq(SubSeq(rs, 1, str - 1)) \o rs[str]
<1>1. rs \in Seq(Seq(Access)) /\ Len(rs) \in Nat /\ rs[str] \in Seq(Access)
      /\ str \in Nat /\ 1 \in 1 .. Len(rs) /\ str \in 1 .. Len(rs)
  BY RunFacts
<1> DEFINE s == SubSeq(rs, 1, str - 1)
<1>2. s \in Seq(Seq(Access))
  <2>1. \A i \in 1 .. str - 1 : rs[i] \in Seq(Access)
    BY <1>1, ElementOfSeq
  <2>2. str - 1 \in Int
    BY <1>1
  <2>3. QED
    BY <2>1, <2>2, SubSeqProperties
<1>3. SubSeq(rs, 1, str) = s \o <<rs[str]>>
  BY <1>1, SubSeqRecursiveSecond
<1> HIDE DEF s
<1>4. s \o <<rs[str]>> = Append(s, rs[str])
  BY <1>1, <1>2, AppendIsConcat
<1>5. FlattenSeq(Append(s, rs[str])) = FlattenSeq(s) \o rs[str]
  BY <1>1, <1>2, FlattenAppend
<1>6. FlattenSeq(s) \in Seq(Access)
  BY <1>2, FlattenType
<1>7. QED
  BY <1>3, <1>4, <1>5, <1>6 DEF s

(***************************************************************************)
(* A number brings the scanner to its next state and adds nothing.         *)
(***************************************************************************)
LEMMA NumberStep ==
  ASSUME NEW rs \in Runs, NEW w \in BOOLEAN, NEW str, NEW k, NEW s, NEW before,
         Progress(rs, w, str, k, s, before),
         k # Len(RecordAll(rs[str])) + 3,
         k - Preamble(w) \notin 0 .. Len(RecordAll(rs[str])) - 1
  PROVE  LET token == StreamOf(DumpSet(RecordAll(rs[str])), w)[k + 1]
         IN /\ token.kind = "number" /\ SameRequest(s, Lex(s, token))
            /\ Lex(s, token).set = s.set
            /\ Progress(rs, w, str, k + 1, Lex(s, token), before)
<1> DEFINE dumped == RecordAll(rs[str])
           n == Len(dumped)
           h == Preamble(w)
           seg == DumpSet(dumped)
           token == StreamOf(seg, w)[k + 1]
           t == Lex(s, token)
<1>1. /\ str \in 1 .. Len(rs) /\ k \in 0 .. n + 3 /\ InPlace(s.lex, dumped, w, k)
      /\ s \in [lex : Lexers, set : MemSet] /\ s.lex \in Lexers /\ s.set \in MemSet
  BY DEF Progress
<1>2. n \in Nat \ {0} /\ dumped \in MemSet
  BY <1>1, RunFacts
<1>3. seg \in Seq({seg[i] : i \in 1 .. n}) /\ Len(seg) = n
  BY <1>2 DEF DumpSet
<1>4. h = IF w THEN 3 ELSE 2
  BY DEF Preamble
<1> HIDE DEF dumped, n, h, seg
<1>5. /\ k = 0 => token = [kind |-> "number", is |-> 0]
      /\ w /\ k = 1 => token = [kind |-> "number", is |-> 0]
      /\ k + 1 = h => token = [kind |-> "number", is |-> n]
      /\ ~w /\ k = n + 2 => token = [kind |-> "number", is |-> 0]
  <2> DEFINE tokens == StreamOf(seg, w)
  <2>1. /\ tokens[1] = [kind |-> "number", is |-> 0]
        /\ w => tokens[2] = [kind |-> "number", is |-> 0]
        /\ tokens[h] = [kind |-> "number", is |-> n]
        /\ ~w => tokens[n + 3] = [kind |-> "number", is |-> 0]
    BY <1>3, StreamTokens DEF h
  <2>2. token = tokens[k + 1]
    OBVIOUS
  <2> HIDE DEF tokens, token
  <2>3. k = n + 2 => k + 1 = n + 3
    BY <1>2
  <2>4. QED
    BY <2>1, <2>2, <2>3
<1>6. k - h \notin 0 .. n - 1 /\ k # n + 3
  BY DEF h, n, dumped
<1>7. /\ k \in {0, 1, 2, n + 2} /\ (k = 2 => w) /\ (k = n + 2 /\ k # 2 => ~w)
      /\ (k = 0 \/ (w /\ k = 1) \/ k + 1 = h \/ (~w /\ k = n + 2))
  BY <1>1, <1>2, <1>4, <1>6
<1>8. /\ s.lex.state = (IF k = 0 THEN 0 ELSE IF k = 1 THEN 1 ELSE 3)
      /\ k \in 1 .. h - 1 => s.lex.lastAccess = 0
  <2>1. /\ s.lex.state = (IF k = 0 \/ k = n + 3 THEN 0 ELSE IF k = 1 THEN 1 ELSE 3)
        /\ k \in 1 .. h - 1 => s.lex.lastAccess = 0
    BY <1>1, <1>6 DEF InPlace, n, h
  <2>2. QED
    BY <1>6, <2>1
<1> HIDE DEF token
<1>9. t = LexNumber(s, token.is)
  BY <1>7, <1>8 DEF Lex
<1> DEFINE next == CASE s.lex.state = 0 -> 1
                     [] s.lex.state = 1 -> IF token.is > 0 THEN 2 ELSE 3
                     [] s.lex.state = 3 -> IF token.is > 0 THEN 4 ELSE 0
<1>10. t = [lex |-> [state |-> next,
                     remainingGroups |-> IF s.lex.state = 0 THEN s.lex.remainingGroups ELSE token.is,
                     lastAccess |-> IF s.lex.state = 0 THEN 0 ELSE s.lex.lastAccess,
                     numInstancesRequired |-> s.lex.numInstancesRequired,
                     startInstance |-> s.lex.startInstance,
                     nextExpectedInstance |-> s.lex.nextExpectedInstance],
            set |-> s.set]
  <2> HIDE DEF next
  <2>1. t = [s EXCEPT !.lex.state = next,
                      !.lex.lastAccess = IF s.lex.state = 0 THEN 0 ELSE s.lex.lastAccess,
                      !.lex.remainingGroups =
                         IF s.lex.state = 0 THEN s.lex.remainingGroups ELSE token.is]
    BY <1>9 DEF LexNumber, next
  <2>2. QED
    BY <1>1, <2>1, ZenonT(60) DEF Lexers
<1>11. /\ token.kind = "number" /\ token.is \in Nat
       /\ k + 1 = h => token.is > 0 /\ token.is = n
       /\ k + 1 # h => token.is = 0
  <2>1. n + 3 # h
    BY <1>2, <1>4
  <2>2. QED
    BY <1>2, <1>4, <1>5, <1>7, <2>1
<1>12. /\ k = 0 => next = 1
       /\ k = 1 => next = IF token.is > 0 THEN 2 ELSE 3
       /\ k \notin {0, 1} => next = IF token.is > 0 THEN 4 ELSE 0
  BY <1>7, <1>8
<1> HIDE DEF next, t
<1>13. t \in [lex : Lexers, set : MemSet]
  <2>1. next \in 0 .. 4
    BY <1>12
  <2>2. 0 \in Word
    BY HAssumption DEF Word, M
  <2>3. QED
    BY <1>1, <1>10, <1>11, <2>1, <2>2 DEF Lexers
<1>14. InPlace(t.lex, dumped, w, k + 1)
  <2>1. CASE k + 1 = h
    <3>1. k \in 1 .. h - 1 /\ s.lex.lastAccess = 0 /\ k # 0 /\ (k = 1 <=> ~w)
      <4>1. k \in Nat /\ k = h - 1
        BY <1>1, <1>2, <1>4, <2>1
      <4>2. QED
        BY <1>4, <1>8, <4>1
    <3>2. /\ t.lex.state = (IF w THEN 4 ELSE 2)
          /\ t.lex.remainingGroups = n - 0 /\ t.lex.lastAccess = 0
      BY <1>2, <1>4, <1>8, <1>10, <1>11, <1>12, <2>1, <3>1
    <3>3. (k + 1) - h = 0 /\ 0 \in 0 .. n - 1
      BY <1>2, <1>4, <2>1
    <3>4. QED
      BY <3>2, <3>3 DEF InPlace, n, h
  <2>2. CASE k + 1 # h
    <3>1. (k + 1) - h \notin 0 .. n - 1
      BY <1>2, <1>4, <1>7, <2>2
    <3>2. /\ t.lex.state = (IF k + 1 = 0 \/ k + 1 = n + 3 THEN 0 ELSE IF k + 1 = 1 THEN 1 ELSE 3)
          /\ k + 1 \in 1 .. h - 1 => t.lex.lastAccess = 0
      BY <1>2, <1>4, <1>7, <1>8, <1>10, <1>11, <1>12, <2>2
    <3>3. QED
      BY <3>1, <3>2 DEF InPlace, n, h
  <2>3. QED
    BY <2>1, <2>2
<1>15. PatternsRead(n, w, k + 1) = PatternsRead(n, w, k)
  BY <1>2, <1>4, <1>7 DEF PatternsRead, h
<1>16. k + 1 \in 0 .. n + 3
  BY <1>1, <1>2, <1>6
<1>17. Progress(rs, w, str, k + 1, t, before)
  <2>1. /\ ContiguousFrom(before \o s.set, 0)
        /\ s.lex.nextExpectedInstance = After(before \o s.set, 0)
        /\ Expand(before \o s.set) =
             FlattenSeq(SubSeq(rs, 1, str - 1))
               \o Expand(SubSeq(dumped, 1, PatternsRead(n, w, k)))
    BY DEF Progress, dumped, n
  <2>2. QED
    BY <1>1, <1>10, <1>13, <1>14, <1>15, <1>16, <2>1 DEF Progress, dumped, n
<1>18. QED
  BY <1>10, <1>11, <1>17 DEF SameRequest, t, token, seg, dumped

(***************************************************************************)
(* A pattern is entered behind what was scanned, with the accesses of the  *)
(* entry that was dumped (readMemSetEntry, readWriteMemSetEntry).          *)
(***************************************************************************)
LEMMA PatternStep ==
  ASSUME UserAddresses, NEW rs \in Runs, NEW w \in BOOLEAN, NEW str, NEW k, NEW s,
         NEW before \in MemSet, Progress(rs, w, str, k, s, before),
         k - Preamble(w) \in 0 .. Len(RecordAll(rs[str])) - 1
  PROVE  LET token == StreamOf(DumpSet(RecordAll(rs[str])), w)[k + 1]
         IN /\ token.kind = "pattern" /\ SameRequest(s, Lex(s, token))
            /\ \E e \in MemSetEntry :
                 /\ e.start = After(before \o s.set, 0) /\ e.start <= e.end
                 /\ Lex(s, token).set = s.set \o Entered(e)
            /\ Progress(rs, w, str, k + 1, Lex(s, token), before)
<1> DEFINE dumped == RecordAll(rs[str])
           n == Len(dumped)
           h == Preamble(w)
           seg == DumpSet(dumped)
           token == StreamOf(seg, w)[k + 1]
           t == Lex(s, token)
           j == k - h
           d == dumped[j + 1]
           at == After(before \o s.set, 0)
<1>1. /\ str \in 1 .. Len(rs) /\ k \in 0 .. n + 3 /\ InPlace(s.lex, dumped, w, k)
      /\ s \in [lex : Lexers, set : MemSet] /\ s.lex \in Lexers /\ s.set \in MemSet
      /\ ContiguousFrom(before \o s.set, 0) /\ s.lex.nextExpectedInstance = at
      /\ Expand(before \o s.set) =
           FlattenSeq(SubSeq(rs, 1, str - 1)) \o Expand(SubSeq(dumped, 1, PatternsRead(n, w, k)))
  BY DEF Progress
<1>2. /\ n \in Nat \ {0} /\ dumped \in MemSet /\ ContiguousFrom(dumped, 0)
      /\ dumped[1].base < H
  BY <1>1, RunFacts DEF UserAddresses
<1>3. seg \in Seq({seg[i] : i \in 1 .. n}) /\ Len(seg) = n
  BY <1>2 DEF DumpSet
<1>4. h = IF w THEN 3 ELSE 2
  BY DEF Preamble
<1>5. j \in 0 .. n - 1 /\ j + 1 \in 1 .. n /\ k = h + j /\ k + 1 = h + (j + 1)
      /\ (k + 1) - h = j + 1 /\ k + 1 \in 0 .. n + 3
  <2>1. j \in 0 .. n - 1
    OBVIOUS
  <2>2. j = k - h /\ k \in Int /\ h \in {2, 3}
    BY <1>1, <1>2, <1>4
  <2> HIDE DEF j, n, h
  <2>3. QED
    BY <1>2, <2>1, <2>2, SMTT(60)
<1>6. token = [kind |-> "pattern", is |-> seg[j + 1]]
  <2> HIDE DEF seg, j
  <2>1. \A i \in 1 .. Len(seg) : StreamOf(seg, w)[h + i] = [kind |-> "pattern", is |-> seg[i]]
    BY <1>3, StreamTokens
  <2>2. QED
    BY <1>3, <1>5, <2>1
<1>7. /\ s.lex.state = (IF w THEN 4 ELSE 2) /\ s.lex.remainingGroups = n - j
      /\ s.lex.lastAccess = IF j = 0 THEN 0 ELSE dumped[j].base
  BY <1>1, <1>5 DEF InPlace
<1>8. d \in MemSetEntry /\ d.start <= d.end /\ d.start \in Nat /\ d.end \in Nat
  BY <1>2, <1>5, EntryFacts
<1>9. /\ seg[j + 1].stride = d.stride /\ seg[j + 1].length = d.length
      /\ seg[j + 1].reps = NumInstances(d) /\ NumInstances(d) \in Nat \ {0}
      /\ AbsoluteBase(s.lex.lastAccess, seg[j + 1].base) = d.base
  <2>1. seg[j + 1] = [base |-> DumpedBase(dumped, j + 1), stride |-> d.stride,
                      length |-> d.length, reps |-> NumInstances(d)]
    BY <1>2, <1>5 DEF DumpSet
  <2>2. NumInstances(d) \in Nat \ {0}
    BY <1>8 DEF NumInstances
  <2>3. UndumpedAfter(seg, 0, dumped[(j + 1) - 1], j + 1) = d
    BY <1>2, <1>5, UndumpEntry
  <2>4. AbsoluteBase(IF j + 1 = 1 THEN 0 ELSE dumped[(j + 1) - 1].base, seg[j + 1].base) = d.base
    <3> HIDE DEF d, seg
    <3>1. QED
      BY <2>3 DEF UndumpedAfter
  <2>5. s.lex.lastAccess = IF j + 1 = 1 THEN 0 ELSE dumped[(j + 1) - 1].base
    <3>1. (j + 1) - 1 = j /\ (j + 1 = 1 <=> j = 0)
      BY <1>5
    <3>2. QED
      BY <1>7, <3>1
  <2> HIDE DEF seg, d
  <2>6. QED
    BY <2>1, <2>2, <2>4, <2>5
<1> DEFINE e == [base |-> d.base, stride |-> d.stride, length |-> d.length,
                 start |-> at, end |-> at + NumInstances(d) - 1]
<1>10. at \in Nat
  BY <1>1, AfterType, ContiguousConcat
<1>11. e \in MemSetEntry /\ e.start = at /\ e.start <= e.end /\ NumInstances(e) = NumInstances(d)
       /\ e.end + 1 = at + NumInstances(d)
  BY <1>8, <1>9, <1>10, SMTT(60) DEF MemSetEntry, NumInstances
<1>12. Expand(Entered(e)) = Expand(<<d>>)
  <2>1. Expand(Entered(e)) = EntryAccesses(e) /\ Expand(<<d>>) = EntryAccesses(d)
    BY <1>8, <1>11, EnteredFacts, ExpandEntry
  <2>2. EntryAccesses(e) = EntryAccesses(d)
    BY <1>11 DEF EntryAccesses, AccessLower
  <2>3. QED
    BY <2>1, <2>2
<1> HIDE DEF dumped, n, h, seg, d, j, at, e
<1> DEFINE left == n - j - 1
<1>13. t = [lex |-> [state |-> IF left = 0 THEN (s.lex.state + 1) % 5 ELSE s.lex.state,
                     remainingGroups |-> left, lastAccess |-> d.base,
                     numInstancesRequired |-> s.lex.numInstancesRequired,
                     startInstance |-> s.lex.startInstance,
                     nextExpectedInstance |-> at + NumInstances(d)],
            set |-> s.set \o Entered(e)]
  <2>1. t = ReadMemSetEntry(s, seg[j + 1])
    BY <1>6, <1>7 DEF Lex
  <2>2. s.lex.remainingGroups - 1 = left
    BY <1>2, <1>5, <1>7
  <2>3. [base |-> d.base, stride |-> seg[j + 1].stride, length |-> seg[j + 1].length,
         start |-> s.lex.nextExpectedInstance,
         end |-> s.lex.nextExpectedInstance + seg[j + 1].reps - 1] = e
    BY <1>1, <1>9 DEF e
  <2>4. AddNumRepsToSet(s.lex, s.set, d.base, seg[j + 1]) = s.set \o Entered(e)
    <3>1. AddNumRepsToSet(s.lex, s.set, d.base, seg[j + 1]) =
            IF IsTrivialPattern(e) THEN s.set \o <<SplitTrivial(e).kept, SplitTrivial(e).off>>
            ELSE Append(s.set, e)
      BY <2>3 DEF AddNumRepsToSet
    <3>2. Append(s.set, e) = s.set \o <<e>>
      BY <1>1, <1>11, AppendIsConcat DEF MemSet
    <3>3. <<SplitTrivial(e).kept, SplitTrivial(e).off>>
            = <<SplitTrivial(e).kept>> \o <<SplitTrivial(e).off>>
      OBVIOUS
    <3>4. QED
      BY <3>1, <3>2, <3>3 DEF Entered
  <2> HIDE DEF left, t
  <2>5. t = [lex |-> [s.lex EXCEPT !.lastAccess = d.base,
                                   !.nextExpectedInstance = s.lex.nextExpectedInstance + seg[j + 1].reps,
                                   !.remainingGroups = left,
                                   !.state = IF left = 0 THEN (s.lex.state + 1) % 5 ELSE s.lex.state],
             set |-> s.set \o Entered(e)]
    BY <1>9, <2>1, <2>2, <2>4 DEF ReadMemSetEntry
  <2>6. QED
    BY <1>1, <1>9, <2>5 DEF Lexers
<1> HIDE DEF t, left
<1>14. left = n - j - 1 /\ left \in Nat
  BY <1>2, <1>5 DEF left
<1> DEFINE next == IF left = 0 THEN (s.lex.state + 1) % 5 ELSE s.lex.state
<1>15. next = IF left = 0 THEN (IF w THEN 0 ELSE 3) ELSE (IF w THEN 4 ELSE 2)
  <2>1. (4 + 1) % 5 = 0 /\ (2 + 1) % 5 = 3
    OBVIOUS
  <2>2. QED
    BY <1>7, <2>1
<1> HIDE DEF next
<1>16. /\ Entered(e) \in MemSet /\ ContiguousFrom(Entered(e), at)
       /\ After(Entered(e), at) = at + NumInstances(d)
  BY <1>11, EnteredFacts
<1>17. /\ s.set \o Entered(e) \in MemSet
       /\ before \o (s.set \o Entered(e)) = (before \o s.set) \o Entered(e)
       /\ before \o s.set \in MemSet
  <2>1. s.set \o Entered(e) \in MemSet /\ before \o s.set \in MemSet
    BY <1>1, <1>16, ConcatProperties DEF MemSet
  <2>2. before \o (s.set \o Entered(e)) = (before \o s.set) \o Entered(e)
    <3> DEFINE a == s.set
               b == Entered(e)
    <3>1. before \in Seq(MemSetEntry) /\ a \in Seq(MemSetEntry) /\ b \in Seq(MemSetEntry)
      BY <1>1, <1>16 DEF MemSet
    <3> HIDE DEF a, b
    <3>2. (before \o a) \o b = before \o (a \o b)
      BY <3>1, ConcatAssociative, SMTT(60)
    <3>3. QED
      BY <3>2 DEF a, b
  <2>3. QED
    BY <2>1, <2>2
<1>18. /\ ContiguousFrom((before \o s.set) \o Entered(e), 0)
       /\ After((before \o s.set) \o Entered(e), 0) = at + NumInstances(d)
  BY <1>1, <1>16, <1>17, ContiguousConcat DEF at
<1>19. Expand((before \o s.set) \o Entered(e)) = Expand(before \o s.set) \o Expand(<<d>>)
  BY <1>12, <1>16, <1>17, <1>18, ExpandConcat
<1>20. /\ PatternsRead(n, w, k) = j /\ PatternsRead(n, w, k + 1) = j + 1
  BY <1>2, <1>5 DEF PatternsRead, h, j
<1>21. Expand(SubSeq(dumped, 1, j + 1)) = Expand(SubSeq(dumped, 1, j)) \o Expand(<<d>>)
  BY <1>2, <1>5, PrefixGrows DEF d, n
<1>22. Expand(before \o (s.set \o Entered(e))) =
         FlattenSeq(SubSeq(rs, 1, str - 1)) \o Expand(SubSeq(dumped, 1, j + 1))
  <2> DEFINE p == FlattenSeq(SubSeq(rs, 1, str - 1))
             q == Expand(SubSeq(dumped, 1, j))
             r == Expand(<<d>>)
  <2>1. p \in Seq(Access)
    BY <1>1, EarlierRuns
  <2>2. q \in Seq(Access)
    <3>1. j \in 0 .. Len(dumped)
      BY <1>2, <1>5 DEF n
    <3>2. SubSeq(dumped, 1, j) \in MemSet /\ ContiguousFrom(SubSeq(dumped, 1, j), 0)
      BY <1>2, <3>1, SetInTwo
    <3>3. QED
      BY <3>2, ExpandFrom
  <2>3. r \in Seq(Access)
    BY <1>8, ExpandEntry, ExpandFrom
  <2>4. Expand(before \o (s.set \o Entered(e))) = (p \o q) \o r
    BY <1>1, <1>17, <1>19, <1>20
  <2> HIDE DEF p, q, r
  <2>5. (p \o q) \o r = p \o (q \o r)
    BY <2>1, <2>2, <2>3, ConcatAssociative, SMTT(60)
  <2>6. QED
    BY <1>21, <2>4, <2>5 DEF p, q, r
<1>23. InPlace(t.lex, dumped, w, k + 1)
  <2>1. CASE left = 0
    <3>1. j + 1 = n /\ j + 1 \notin 0 .. n - 1 /\ k + 1 = h + n /\ t.lex.state = IF w THEN 0 ELSE 3
      BY <1>2, <1>5, <1>13, <1>14, <1>15, <2>1 DEF next
    <3>2. /\ t.lex.state = (IF k + 1 = 0 \/ k + 1 = n + 3 THEN 0 ELSE IF k + 1 = 1 THEN 1 ELSE 3)
          /\ k + 1 \notin 1 .. h - 1
      BY <1>2, <1>4, <3>1
    <3>3. QED
      BY <1>5, <3>1, <3>2 DEF InPlace, n, h
  <2>2. CASE left # 0
    <3>1. /\ j + 1 \in 0 .. n - 1 /\ t.lex.state = (IF w THEN 4 ELSE 2)
          /\ t.lex.remainingGroups = n - (j + 1) /\ t.lex.lastAccess = dumped[j + 1].base /\ j + 1 # 0
      BY <1>2, <1>5, <1>13, <1>14, <1>15, <2>2 DEF next, d
    <3>2. QED
      BY <1>5, <3>1 DEF InPlace, n, h
  <2>3. QED
    BY <2>1, <2>2
<1>24. t \in [lex : Lexers, set : MemSet]
  <2>1. next \in 0 .. 4
    BY <1>15
  <2>2. d.base \in Word /\ at + NumInstances(d) \in Nat
    BY <1>8, <1>9, <1>10 DEF MemSetEntry
  <2>3. QED
    BY <1>1, <1>13, <1>14, <1>17, <2>1, <2>2 DEF Lexers, next
<1>25. t.set = s.set \o Entered(e) /\ t.lex.nextExpectedInstance = at + NumInstances(d)
       /\ SameRequest(s, t)
  BY <1>13 DEF SameRequest
<1>26. Progress(rs, w, str, k + 1, t, before)
  BY <1>1, <1>5, <1>17, <1>18, <1>20, <1>22, <1>23, <1>24, <1>25 DEF Progress, dumped, n
<1>27. token.kind = "pattern"
  BY <1>6
<1>28. \E x \in MemSetEntry : /\ x.start = at /\ x.start <= x.end
                              /\ t.set = s.set \o Entered(x)
  BY <1>11, <1>25, Zenon
<1>29. QED
  BY <1>25, <1>26, <1>27, <1>28, Zenon DEF t, token, seg, dumped, at

-----------------------------------------------------------------------------
(* How far the scanner reads.                                              *)

(***************************************************************************)
(* Behind the entry that has the last instance of a request, n from the    *)
(* first, there is at most one, and that only when the request ends with   *)
(* the entry.                                                              *)
(***************************************************************************)
Tight(set, first, n) ==
  \A i \in 1 .. Len(set) :
    set[i].end >= first + n - 1
      => i = Len(set) \/ (i = Len(set) - 1 /\ set[i].end = first + n - 1)

(***************************************************************************)
(* A pattern that is read while there is not enough makes the set enough   *)
(* with its last entry or, if it is trivial, the last but one.             *)
(***************************************************************************)
LEMMA TightEntered ==
  ASSUME NEW set \in MemSet, NEW first \in Nat, ContiguousFrom(set, first),
         NEW n \in Nat, After(set, first) - first < n
  PROVE  /\ Tight(set, first, n)
         /\ \A e \in MemSetEntry :
              e.start = After(set, first) /\ e.start <= e.end => Tight(set \o Entered(e), first, n)
<1> DEFINE at == After(set, first)
<1>1. at \in Nat /\ Len(set) \in Nat
  BY AfterType DEF MemSet
<1>2. ASSUME NEW i \in 1 .. Len(set) PROVE ~ (set[i].end >= first + n - 1)
  <2>1. set[i].end \in Nat /\ set[i].end < at
    BY EndsBelow
  <2> HIDE DEF at
  <2>2. at - first < n
    BY DEF at
  <2>3. QED
    BY <1>1, <2>1, <2>2
<1>3. Tight(set, first, n)
  BY <1>2 DEF Tight
<1>4. ASSUME NEW e \in MemSetEntry, e.start = at, e.start <= e.end
      PROVE  Tight(set \o Entered(e), first, n)
  <2> DEFINE new == Entered(e)
             both == set \o new
             m == Len(set)
  <2>1. new \in MemSet /\ (Len(new) = 1 \/ (Len(new) = 2 /\ new[1].end = at))
    <3>1. /\ Entered(e) \in MemSet
          /\ Len(Entered(e)) = 1 \/ (Len(Entered(e)) = 2 /\ Entered(e)[1].end = e.start)
      BY <1>4, EnteredFacts
    <3> HIDE DEF at
    <3>2. QED
      BY <1>4, <3>1
  <2>2. Joined(both, set, new, m, Len(new))
    <3> HIDE DEF new
    <3>1. QED
      BY <2>1, ConcatJoins DEF MemSet
  <2> HIDE DEF new, both, at
  <2>3. ASSUME NEW i \in 1 .. Len(both), both[i].end >= first + n - 1
        PROVE  i = Len(both) \/ (i = Len(both) - 1 /\ both[i].end = first + n - 1)
    <3>1. ~ (i \in 1 .. m)
      BY <1>2, <2>2, <2>3 DEF Joined
    <3>2. Len(both) = m + Len(new) /\ i - m \in 1 .. Len(new)
      BY <1>1, <2>1, <2>2, <3>1 DEF Joined
    <3>3. CASE i = Len(both)
      BY <3>3
    <3>4. CASE i # Len(both)
      <4>1. i = m + 1 /\ Len(new) = 2 /\ i = Len(both) - 1 /\ 1 \in 1 .. Len(new)
        <5> DEFINE q == Len(new)
                   r == Len(both)
        <5>1. (q = 1 \/ q = 2) /\ r = m + q /\ i \in 1 .. r /\ i - m \in 1 .. q /\ i # r /\ m \in Nat
          BY <1>1, <2>1, <2>3, <3>2, <3>4
        <5> HIDE DEF q, r, m
        <5>2. i \in Int /\ r \in Int
          BY <5>1
        <5>3. q = 2
          BY <5>1, <5>2
        <5>4. i = m + 1 /\ i = r - 1
          BY <5>1, <5>2, <5>3
        <5>5. QED
          BY <5>3, <5>4 DEF q, r
      <4>2. both[i] = new[1] /\ new[1].end = at
        BY <2>1, <2>2, <4>1 DEF Joined
      <4>3. at - first < n
        BY DEF at
      <4>4. at = first + n - 1
        BY <1>1, <2>3, <4>2, <4>3
      <4>5. QED
        BY <4>1, <4>2, <4>4
    <3>5. QED
      BY <3>3, <3>4
  <2>4. Tight(both, first, n)
    BY <2>3 DEF Tight
  <2>5. QED
    BY <2>4 DEF both, new
<1>5. QED
  BY <1>3, <1>4

(***************************************************************************)
(* Enough is enough: the scanner counts from the first instance that has   *)
(* not been returned.                                                      *)
(***************************************************************************)
LEMMA EnoughFacts ==
  ASSUME NEW s, s \in [lex : Lexers, set : MemSet], s.lex.numInstancesRequired > 0,
         ContiguousFrom(s.set, s.lex.startInstance)
  PROVE  /\ Enough(s) <=> After(s.set, s.lex.startInstance) - s.lex.startInstance
                             >= s.lex.numInstancesRequired
         /\ NumBuffered(s.set) = After(s.set, s.lex.startInstance) - s.lex.startInstance
<1> DEFINE set == s.set
           first == s.lex.startInstance
           n == s.lex.numInstancesRequired
<1>1. set \in MemSet /\ first \in Nat /\ n \in Nat /\ n > 0 /\ ContiguousFrom(set, first)
  BY DEF Lexers
<1>2. Enough(s) <=> set # <<>> /\ set[Len(set)].end - first + 1 >= n
  BY DEF Enough, Last
<1> HIDE DEF set, first, n
<1>3. CASE set = <<>>
  BY <1>1, <1>2, <1>3 DEF After, NumBuffered, set, first, n
<1>4. CASE set # <<>>
  <2>1. Len(set) \in 1 .. Len(set) /\ 1 \in 1 .. Len(set)
    BY <1>1, <1>4, EmptySeq DEF MemSet
  <2>2. set[1].start = first /\ set[Len(set)].end \in Nat
    BY <1>1, <2>1, EntryFacts
  <2>3. After(set, first) = set[Len(set)].end + 1
    BY <1>4 DEF After
  <2>4. NumBuffered(set) = set[Len(set)].end - first + 1
    BY <1>4, <2>2 DEF NumBuffered, Last
  <2>5. After(set, first) - first = set[Len(set)].end - first + 1
    BY <1>1, <2>2, <2>3
  <2>6. QED
    BY <1>2, <1>4, <2>4, <2>5 DEF set, first, n
<1>5. QED
  BY <1>3, <1>4

(***************************************************************************)
(* doLexing from token `from' on, when there is not enough: it stops with  *)
(* the first pattern that makes enough, wherever the block ends.           *)
(***************************************************************************)
LEMMA ScansOn ==
  ASSUME UserAddresses, NEW rs \in Runs, NEW w \in BOOLEAN, NEW str,
         NEW from \in Nat, NEW to \in Nat, from <= to, NEW before \in MemSet,
         Progress(rs, w, str, from, [lex |-> mtl, set |-> chunk], before),
         to <= Len(RecordAll(rs[str])) + 3,
         mtl.startInstance = After(before, 0), mtl.numInstancesRequired > 0,
         NumBuffered(chunk) < mtl.numInstancesRequired
  PROVE  LET tokens == StreamOf(DumpSet(RecordAll(rs[str])), w)
             early  == EarlyReturns(tokens, from, to)
             stop   == IF early = {} THEN to ELSE Min(early)
             s      == Scanned(tokens, from, to)[stop]
         IN /\ stop \in from .. to
            /\ Progress(rs, w, str, stop, s, before)
            /\ SameRequest([lex |-> mtl, set |-> chunk], s)
            /\ Tight(s.set, mtl.startInstance, mtl.numInstancesRequired)
<1> DEFINE first == [lex |-> mtl, set |-> chunk]
           tokens == StreamOf(DumpSet(RecordAll(rs[str])), w)
           n == Len(RecordAll(rs[str]))
           sc == Scanned(tokens, from, to)
           early == EarlyReturns(tokens, from, to)
           stop == IF early = {} THEN to ELSE Min(early)
           required == mtl.numInstancesRequired
           start == mtl.startInstance
           h == Preamble(w)
<1>1. /\ first \in [lex : Lexers, set : MemSet] /\ str \in 1 .. Len(rs)
      /\ mtl \in Lexers /\ chunk \in MemSet /\ required \in Nat /\ start \in Nat
      /\ first.lex = mtl /\ first.set = chunk
  BY DEF Progress, Lexers
<1>2. n \in Nat \ {0}
  BY <1>1, RunFacts
<1>3. /\ sc[from] = first
      /\ \A k \in from + 1 .. to : sc[k] = Lex(sc[k - 1], tokens[k])
  BY ScannedFacts
<1>4. /\ early \subseteq from + 1 .. to
      /\ \A k \in from + 1 .. to : k \in early <=> tokens[k].kind = "pattern" /\ Enough(sc[k])
  BY DEF EarlyReturns
<1>5. stop \in from .. to /\ \A k \in early : ~ (k < stop)
  <2> HIDE DEF early
  <2>1. CASE early = {}
    BY <2>1
  <2>2. CASE early # {}
    <3>1. early \in SUBSET Nat
      BY <1>4
    <3>2. PICK x \in early : \A y \in early : x <= y
      BY <2>2, <3>1, LeastNatural
    <3>3. Min(early) \in early /\ \A y \in early : Min(early) <= y
      BY <3>2 DEF Min
    <3>4. stop = Min(early)
      BY <2>2
    <3> HIDE DEF stop
    <3>5. stop \in early /\ stop \in from + 1 .. to
      BY <1>4, <3>3, <3>4
    <3>6. \A y \in early : y \in Int
      BY <3>1
    <3>7. QED
      BY <3>3, <3>4, <3>5, <3>6
  <2>3. QED
    BY <2>1, <2>2
<1> HIDE DEF sc, early, stop, first
<1> DEFINE Reached(k) ==
      /\ Progress(rs, w, str, k, sc[k], before)
      /\ SameRequest(first, sc[k])
      /\ Tight(sc[k].set, start, required)
      /\ k < stop => ~ Enough(sc[k])
<1>6. required > 0
  OBVIOUS
<1>7. ASSUME NEW k, Progress(rs, w, str, k, sc[k], before), SameRequest(first, sc[k])
      PROVE  /\ sc[k] \in [lex : Lexers, set : MemSet] /\ sc[k].set \in MemSet
             /\ sc[k].lex.numInstancesRequired = required /\ sc[k].lex.startInstance = start
             /\ ContiguousFrom(sc[k].set, start)
             /\ After(sc[k].set, start) = After(before \o sc[k].set, 0)
             /\ After(sc[k].set, start) \in Nat
             /\ Enough(sc[k]) <=> After(sc[k].set, start) - start >= required
             /\ NumBuffered(sc[k].set) = After(sc[k].set, start) - start
  <2>1. sc[k] \in [lex : Lexers, set : MemSet] /\ ContiguousFrom(before \o sc[k].set, 0)
    BY <1>7 DEF Progress
  <2>2. sc[k].lex.numInstancesRequired = required /\ sc[k].lex.startInstance = start
    BY <1>1, <1>7 DEF SameRequest
  <2>3. sc[k].set \in MemSet
    BY <2>1
  <2>4. /\ ContiguousFrom(sc[k].set, start) /\ After(sc[k].set, start) = After(before \o sc[k].set, 0)
    BY <2>1, <2>3, ContiguousConcat
  <2>5. After(sc[k].set, start) \in Nat
    BY <1>1, <2>3, <2>4, AfterType
  <2>6. /\ Enough(sc[k]) <=> After(sc[k].set, start) - start >= required
        /\ NumBuffered(sc[k].set) = After(sc[k].set, start) - start
    <3> HIDE DEF required, start
    <3>1. QED
      BY <1>6, <2>1, <2>2, <2>4, EnoughFacts
  <2>7. QED
    BY <2>1, <2>2, <2>3, <2>4, <2>5, <2>6
<1>8. Reached(from)
  <2>1. Progress(rs, w, str, from, sc[from], before) /\ SameRequest(first, sc[from])
    BY <1>3 DEF SameRequest, first
  <2>2. NumBuffered(sc[from].set) < required
    BY <1>1, <1>3
  <2>3. After(sc[from].set, start) - start < required
    BY <1>7, <2>1, <2>2
  <2>4. ~ Enough(sc[from])
    <3>1. After(sc[from].set, start) \in Nat
      BY <1>7, <2>1
    <3>2. ~ (After(sc[from].set, start) - start >= required)
      BY <1>1, <2>3, <3>1
    <3>3. QED
      BY <1>7, <2>1, <3>2
  <2>5. Tight(sc[from].set, start, required)
    <3>1. sc[from].set \in MemSet /\ ContiguousFrom(sc[from].set, start)
      BY <1>7, <2>1
    <3> HIDE DEF required, start
    <3>2. QED
      BY <1>1, <2>3, <3>1, TightEntered
  <2>6. QED
    BY <2>1, <2>4, <2>5
<1>9. ASSUME NEW k \in Nat, from <= k, k < stop, Reached(k)
      PROVE  Reached(k + 1)
  <2> DEFINE s == sc[k]
             t == sc[k + 1]
  <2>1. k + 1 \in from + 1 .. to /\ (k + 1) - 1 = k
    BY <1>5, <1>9
  <2>2. t = Lex(s, tokens[k + 1])
    BY <1>3, <2>1
  <2>3. /\ s.set \in MemSet /\ ContiguousFrom(s.set, start) /\ After(s.set, start) \in Nat
        /\ s.lex.numInstancesRequired = required /\ s.lex.startInstance = start
        /\ After(s.set, start) = After(before \o s.set, 0)
        /\ Enough(s) <=> After(s.set, start) - start >= required
    BY <1>7, <1>9
  <2>4. ~ Enough(s) /\ After(s.set, start) - start < required
    <3>1. ~ Enough(s)
      BY <1>9
    <3>2. QED
      BY <1>1, <2>3, <3>1
  <2> HIDE DEF t, s
  <2>5. CASE k - h \in 0 .. n - 1
    <3>1. /\ tokens[k + 1].kind = "pattern" /\ SameRequest(s, t)
          /\ \E e \in MemSetEntry :
                 /\ e.start = After(before \o s.set, 0) /\ e.start <= e.end
                 /\ t.set = s.set \o Entered(e)
          /\ Progress(rs, w, str, k + 1, t, before)
      <4>1. Progress(rs, w, str, k, s, before)
        BY <1>9 DEF s
      <4> DEFINE u == Lex(s, tokens[k + 1])
      <4>2. /\ tokens[k + 1].kind = "pattern" /\ SameRequest(s, u)
            /\ \E e \in MemSetEntry :
                   /\ e.start = After(before \o s.set, 0) /\ e.start <= e.end
                   /\ u.set = s.set \o Entered(e)
            /\ Progress(rs, w, str, k + 1, u, before)
        BY <2>5, <4>1, PatternStep
      <4> HIDE DEF u
      <4>3. t = u
        BY <2>2 DEF u
      <4>4. QED
        BY <4>2, <4>3
    <3>2. SameRequest(first, t)
      BY <1>9, <3>1 DEF SameRequest, s
    <3>3. Tight(t.set, start, required)
      <4>1. PICK e \in MemSetEntry :
              /\ e.start = After(s.set, start) /\ e.start <= e.end /\ t.set = s.set \o Entered(e)
        BY <2>3, <3>1
      <4> HIDE DEF required, start
      <4>2. QED
        BY <1>1, <2>3, <2>4, <4>1, TightEntered
    <3>4. k + 1 < stop => ~ Enough(t)
      <4>1. k + 1 < stop => k + 1 \notin early
        BY <1>5
      <4>2. QED
        BY <1>4, <2>1, <3>1, <4>1 DEF t
    <3>5. QED
      BY <3>1, <3>2, <3>3, <3>4 DEF t
  <2>6. CASE k - h \notin 0 .. n - 1
    <3>1. Progress(rs, w, str, k, s, before) /\ Tight(s.set, start, required) /\ SameRequest(first, s)
      BY <1>9 DEF s
    <3>2. k # n + 3
      BY <1>2, <2>1
    <3>3. /\ SameRequest(s, t) /\ t.set = s.set /\ Progress(rs, w, str, k + 1, t, before)
      BY <2>2, <2>6, <3>1, <3>2, NumberStep
    <3>4. SameRequest(first, t)
      BY <3>1, <3>3 DEF SameRequest
    <3>5. ~ Enough(t)
      BY <2>4, <3>3 DEF Enough, SameRequest
    <3>6. QED
      BY <3>1, <3>3, <3>4, <3>5 DEF t
  <2>7. QED
    BY <2>5, <2>6
<1> DEFINE T == {i \in Nat : from + i <= stop => Reached(from + i)}
<1>10. 0 \in T
  <2>1. from + 0 = from
    OBVIOUS
  <2> HIDE DEF Reached
  <2>2. QED
    BY <1>8, <2>1
<1>11. ASSUME NEW i \in Nat, i \in T PROVE i + 1 \in T
  <2>1. SUFFICES ASSUME from + (i + 1) <= stop PROVE Reached(from + (i + 1))
    OBVIOUS
  <2>2. from + i \in Nat /\ from <= from + i /\ from + i < stop /\ (from + i) + 1 = from + (i + 1)
    BY <1>5, <2>1
  <2>3. Reached(from + i)
    BY <1>5, <1>11, <2>2
  <2> HIDE DEF Reached
  <2>4. QED
    BY <1>9, <2>2, <2>3
<1>12. Reached(stop)
  <2>1. Nat \subseteq T
    <3> HIDE DEF T
    <3>1. QED
      BY <1>10, <1>11, SetInduction
  <2>2. stop - from \in Nat /\ from + (stop - from) = stop
    BY <1>5
  <2> HIDE DEF Reached
  <2>3. stop - from \in T
    BY <2>1, <2>2
  <2>4. from + (stop - from) <= stop
    BY <1>5, <2>2
  <2>5. QED
    BY <2>2, <2>3, <2>4
<1>13. QED
  BY <1>5, <1>12 DEF sc, stop, early, first

(***************************************************************************)
(* When a stream has been read to its end, the scanner is where it has to  *)
(* be for the next, although the two were dumped as files of their own.    *)
(***************************************************************************)
LEMMA NextStream ==
  ASSUME NEW rs \in Runs, NEW w \in BOOLEAN, NEW str, NEW s, NEW before,
         Progress(rs, w, str, Len(RecordAll(rs[str])) + 3, s, before),
         str + 1 <= Len(rs)
  PROVE  Progress(rs, w, str + 1, 0, s, before)
<1> DEFINE dumped == RecordAll(rs[str])
           n == Len(dumped)
           more == RecordAll(rs[str + 1])
           m == Len(more)
           h == Preamble(w)
<1>1. /\ str \in 1 .. Len(rs) /\ InPlace(s.lex, dumped, w, n + 3)
      /\ s \in [lex : Lexers, set : MemSet]
      /\ ContiguousFrom(before \o s.set, 0)
      /\ s.lex.nextExpectedInstance = After(before \o s.set, 0)
      /\ Expand(before \o s.set) =
           FlattenSeq(SubSeq(rs, 1, str - 1))
             \o Expand(SubSeq(dumped, 1, PatternsRead(n, w, n + 3)))
  BY DEF Progress
<1>2. Len(rs) \in Nat
  BY <1>1, RunFacts
<1>3. str + 1 \in 1 .. Len(rs) /\ (str + 1) - 1 = str
  BY <1>1, <1>2
<1>4. n \in Nat \ {0} /\ m \in Nat \ {0} /\ dumped \in MemSet /\ Expand(dumped) = rs[str]
      /\ rs[str] \in Seq(Access)
  BY <1>1, <1>3, RunFacts
<1>5. h = IF w THEN 3 ELSE 2
  BY DEF Preamble
<1> HIDE DEF n, m, h
<1>6. (n + 3) - h \notin 0 .. n - 1 /\ 0 - h \notin 0 .. m - 1 /\ 0 - h \notin 0 .. m /\ 0 < h
  BY <1>4, <1>5
<1>7. s.lex.state = 0
  BY <1>1, <1>6 DEF InPlace, n, h
<1>8. InPlace(s.lex, more, w, 0)
  <2>1. 0 \notin 1 .. h - 1
    OBVIOUS
  <2>2. QED
    BY <1>6, <1>7, <2>1 DEF InPlace, m, h
<1>9. PatternsRead(n, w, n + 3) = n
  <2>1. (n + 3) - h = n \/ ((n + 3) - h \notin 0 .. n /\ ~ (n + 3 < h))
    BY <1>4, <1>5
  <2>2. QED
    BY <1>4, <2>1 DEF PatternsRead, h
<1>10. PatternsRead(m, w, 0) = 0
  BY <1>6 DEF PatternsRead, h
<1>11. Expand(SubSeq(dumped, 1, n)) = rs[str]
  <2>1. SubSeq(dumped, 1, Len(dumped)) = dumped
    BY <1>4, SubSeqFull DEF MemSet
  <2>2. QED
    BY <1>4, <2>1 DEF n
<1>12. Expand(SubSeq(more, 1, 0)) = <<>>
  <2>1. SubSeq(more, 1, 0) = <<>>
    BY SubSeqEmpty
  <2>2. QED
    BY <2>1 DEF Expand
<1>13. Expand(before \o s.set) = FlattenSeq(SubSeq(rs, 1, str)) \o <<>>
  <2> DEFINE p == FlattenSeq(SubSeq(rs, 1, str - 1))
             q == FlattenSeq(SubSeq(rs, 1, str))
  <2>1. p \in Seq(Access) /\ q = p \o rs[str]
    BY <1>1, EarlierRuns
  <2>2. Expand(before \o s.set) = p \o rs[str]
    BY <1>1, <1>9, <1>11
  <2> HIDE DEF p, q
  <2>3. q \in Seq(Access)
    BY <1>4, <2>1
  <2>4. QED
    BY <2>1, <2>2, <2>3, ConcatEmptySeq DEF q
<1>14. 0 \in 0 .. m + 3
  BY <1>4
<1>15. QED
  BY <1>1, <1>3, <1>8, <1>10, <1>12, <1>13, <1>14 DEF Progress, more, m

(***************************************************************************)
(* Where four sequences are joined first does not matter.                  *)
(***************************************************************************)
JoinedAlike(a, b, c, d) == (a \o b) \o (c \o d) = (a \o (b \o c)) \o d

LEMMA FourJoined ==
  ASSUME NEW S, NEW a \in Seq(S), NEW b \in Seq(S), NEW c \in Seq(S), NEW d \in Seq(S)
  PROVE  JoinedAlike(a, b, c, d)
<1>1. (a \o b) \o c = a \o (b \o c)
  BY ConcatAssociative, SMTT(60)
<1> DEFINE ab == a \o b
<1>2. ab \in Seq(S)
  BY ConcatProperties, Zenon
<1>3. ab \o c = a \o (b \o c)
  BY <1>1
<1> HIDE DEF ab
<1>4. (ab \o c) \o d = ab \o (c \o d)
  BY <1>2, ConcatAssociative, SMTT(60)
<1>5. QED
  BY <1>3, <1>4, Zenon DEF ab, JoinedAlike

(***************************************************************************)
(* getNextChunk's split: what is returned, c, and what is kept, y, are     *)
(* together what there was; it returns as many instances as were asked     *)
(* for, or all there are; and of what was read no further than needed, it  *)
(* keeps one entry at most.                                                *)
(***************************************************************************)
SplitsAt(set, first, n, c, y) ==
  /\ c \in MemSet /\ y \in MemSet
  /\ ContiguousFrom(c, first) /\ c # <<>>
  /\ ContiguousFrom(y, After(c, first))
  /\ After(y, After(c, first)) = After(set, first)
  /\ Expand(c) \o Expand(y) = Expand(set)
  /\ IF After(set, first) >= first + n
       THEN After(c, first) = first + n
       ELSE c = set /\ y = <<>>
  /\ Tight(set, first, n) => Len(y) <= 1

\* It splits so.
LEMMA SplitAtFacts ==
  ASSUME NEW set \in MemSet, NEW first \in Nat, ContiguousFrom(set, first), set # <<>>,
         NEW n \in Nat, n > 0
  PROVE  LET parts == SplitAt(set, first + n - 1)
         IN SplitsAt(set, first, n, parts.chunk, parts.rest)
<1> DEFINE last == first + n - 1
           S == StraddleEntry(set, last)
           parts == SplitAt(set, last)
<1>1. Len(set) \in Nat \ {0} /\ last \in Nat /\ first <= last /\ last + 1 = first + n
  BY EmptySeq DEF MemSet
<1>2. S \subseteq 1 .. Len(set) /\ \A i \in 1 .. Len(set) : i \in S <=> set[i].end >= last
  BY DEF StraddleEntry
<1>3. /\ After(set, first) = set[Len(set)].end + 1
      /\ Len(set) \in 1 .. Len(set) /\ set[Len(set)].end \in Nat
  BY <1>1, EntryFacts DEF After
<1> DEFINE Good(x, y) == SplitsAt(set, first, n, x, y)
<1> SUFFICES Good(parts.chunk, parts.rest)
  BY DEF last
<1> HIDE DEF S, last, parts
<1>4. CASE S = {}
  <2>1. parts = [chunk |-> set, rest |-> <<>>]
    BY <1>4 DEF parts, SplitAt, S
  <2>2. ~ (After(set, first) >= first + n)
    BY <1>1, <1>2, <1>3, <1>4
  <2>3. Expand(set) \in Seq(Access)
    BY ExpandFrom
  <2>4. <<>> \in MemSet /\ Expand(<<>>) = <<>> /\ ContiguousFrom(<<>>, After(set, first))
        /\ After(<<>>, After(set, first)) = After(set, first) /\ Len(<<>>) <= 1
    BY EmptySeq DEF MemSet, Expand, ContiguousFrom, After
  <2>5. QED
    BY <2>1, <2>2, <2>3, <2>4, ConcatEmptySeq DEF SplitsAt
<1>5. CASE S # {}
  <2> DEFINE i == Min(S)
             e == set[i]
             A == SubSeq(set, 1, i - 1)
             B == SubSeq(set, 1, i)
             Z == SubSeq(set, i + 1, Len(set))
             over == e.end - last
  <2>1. i \in S /\ \A k \in S : i <= k
    <3>1. S \in SUBSET Nat
      BY <1>1, <1>2
    <3>2. PICK x \in S : \A y \in S : x <= y
      BY <1>5, <3>1, LeastNatural
    <3>3. QED
      BY <3>2 DEF Min
  <2> HIDE DEF i
  <2>2. i \in 1 .. Len(set) /\ i - 1 \in 0 .. Len(set) - 1 /\ i \in 0 .. Len(set)
        /\ (i - 1) + 1 = i /\ i - 1 \in 0 .. Len(set) /\ 1 \in 1 .. Len(set) /\ i \in Nat
    BY <1>1, <1>2, <2>1
  <2>3. /\ e \in MemSetEntry /\ e.start \in Nat /\ e.end \in Nat /\ e.start <= e.end
        /\ e.start = IF i = 1 THEN first ELSE set[i - 1].end + 1
        /\ e.end >= last
    BY <1>2, <2>1, <2>2, EntryFacts
  <2>4. e.start <= last
    <3>1. CASE i = 1
      BY <1>1, <2>3, <3>1
    <3>2. CASE i # 1
      <4>1. i - 1 \in 1 .. Len(set) /\ ~ (i <= i - 1)
        BY <1>1, <2>2, <3>2
      <4>2. ~ (set[i - 1].end >= last) /\ set[i - 1].end \in Nat
        BY <1>2, <2>1, <4>1, EntryFacts
      <4>3. QED
        BY <1>1, <2>3, <3>2, <4>2
    <3>3. QED
      BY <3>1, <3>2
  <2>5. /\ A \in MemSet /\ B \in MemSet /\ Z \in MemSet
        /\ ContiguousFrom(A, first) /\ ContiguousFrom(B, first)
        /\ ContiguousFrom(Z, After(B, first)) /\ set = B \o Z
        /\ Expand(set) = Expand(B) \o Expand(Z)
    BY <2>2, SetInTwo
  <2>6. B = A \o <<e>>
    BY <2>2, SubSeqRecursiveSecond DEF MemSet
  <2>7. Len(Z) = Len(set) - i
    <3>1. Len(Z) = IF i + 1 <= Len(set) THEN Len(set) - (i + 1) + 1 ELSE 0
      BY <1>1, <2>2, SubSeqProperties DEF MemSet
    <3> HIDE DEF Z
    <3>2. QED
      BY <1>1, <2>2, <3>1
  <2>8. Tight(set, first, n) => i = Len(set) \/ (i = Len(set) - 1 /\ e.end = last)
    BY <2>2, <2>3 DEF Tight, last
  <2> HIDE DEF A, B, Z, e
  <2>9. <<e>> \in MemSet /\ ContiguousFrom(<<e>>, e.start) /\ After(<<e>>, e.start) = e.end + 1
    BY <2>3, ExpandEntry DEF After
  <2>10. /\ ContiguousFrom(<<e>>, After(A, first)) /\ After(B, first) = After(<<e>>, After(A, first))
    BY <2>5, <2>6, <2>9, ContiguousConcat
  <2>11. e.start = After(A, first) /\ After(B, first) = e.end + 1
    BY <2>9, <2>10 DEF ContiguousFrom, After
  <2>12. After(set, first) = After(Z, e.end + 1) /\ ContiguousFrom(Z, e.end + 1)
    BY <2>5, <2>11, ContiguousConcat
  <2>13. After(set, first) >= first + n
    <3>1. After(Z, e.end + 1) \in Nat /\ e.end + 1 <= After(Z, e.end + 1)
      BY <2>3, <2>5, <2>12, AfterType
    <3>2. QED
      BY <1>1, <2>3, <2>12, <3>1
  <2>14. CASE over = 0
    <3>1. parts = [chunk |-> B, rest |-> Z]
      <4>1. ~ (over > 0)
        BY <2>14
      <4> HIDE DEF over
      <4>2. QED
        BY <1>5, <4>1 DEF parts, SplitAt, S, B, Z, i, e, over
    <3>2. After(B, first) = first + n
      BY <1>1, <2>3, <2>11, <2>14
    <3>3. B # <<>>
      BY <2>5, <2>6, <2>9 DEF MemSet
    <3>4. Tight(set, first, n) => Len(Z) <= 1
      BY <1>1, <2>2, <2>7, <2>8
    <3>5. Good(B, Z)
      BY <2>5, <2>11, <2>12, <2>13, <3>2, <3>3, <3>4 DEF SplitsAt
    <3> HIDE DEF Good
    <3>6. parts.chunk = B /\ parts.rest = Z
      BY <3>1
    <3>7. QED
      BY <3>5, <3>6
  <2>15. CASE over # 0
    <3> DEFINE kept == SplitOffEnd(e, over).kept
               off == SplitOffEnd(e, over).off
               C == A \o <<kept>>
               R == <<off>> \o Z
    <3>1. over \in 1 .. NumInstances(e) - 1 /\ over > 0
      BY <1>1, <2>3, <2>4, <2>15 DEF NumInstances
    <3> HIDE DEF over
    <3>2. /\ <<kept>> \in MemSet /\ <<off>> \in MemSet
          /\ kept.end = e.end - over /\ off.end = e.end /\ off.start = kept.end + 1
          /\ ContiguousFrom(<<kept>> \o <<off>>, e.start)
          /\ Expand(<<kept>>) \o Expand(<<off>>) = Expand(<<e>>)
      BY <2>3, <3>1, SplitOffEndDivides
    <3> HIDE DEF kept, off
    <3>3. kept.end + 1 = first + n /\ kept.end + 1 \in Nat
      BY <1>1, <2>3, <3>2 DEF over
    <3> DEFINE K == <<kept>>
               O == <<off>>
               E == <<e>>
    <3>4. K \in MemSet /\ O \in MemSet /\ ContiguousFrom(K \o O, e.start)
          /\ E \in MemSet /\ B = A \o E /\ C = A \o K /\ R = O \o Z
      BY <2>6, <2>9, <3>2
    <3>5. /\ After(K, e.start) = first + n /\ After(O, first + n) = e.end + 1
      BY <3>2, <3>3 DEF After
    <3> HIDE DEF K, O, E, C, R
    <3>6. ContiguousFrom(K, e.start) /\ ContiguousFrom(O, first + n)
      BY <2>3, <3>4, <3>5, ContiguousConcat
    <3>7. /\ C \in MemSet /\ ContiguousFrom(C, first) /\ After(C, first) = first + n
          /\ Expand(C) = Expand(A) \o Expand(K)
      <4>1. C \in MemSet /\ ContiguousFrom(C, first) /\ After(C, first) = first + n
        BY <2>5, <2>11, <3>4, <3>5, <3>6, ContiguousConcat
      <4>2. QED
        BY <2>5, <3>4, <4>1, ExpandConcat
    <3>8. /\ R \in MemSet /\ ContiguousFrom(R, first + n) /\ After(R, first + n) = After(set, first)
          /\ Expand(R) = Expand(O) \o Expand(Z) /\ Expand(B) = Expand(A) \o Expand(E)
      <4>1. first + n \in Nat
        OBVIOUS
      <4>2. R \in MemSet /\ ContiguousFrom(R, first + n) /\ After(R, first + n) = After(set, first)
        BY <2>5, <2>12, <3>4, <3>5, <3>6, <4>1, ContiguousConcat
      <4>3. QED
        BY <2>5, <3>4, <4>1, <4>2, ExpandConcat
    <3>9. Expand(C) \o Expand(R) = Expand(set)
      <4> DEFINE a == Expand(A)
                 b == Expand(K)
                 c == Expand(O)
                 d == Expand(Z)
      <4>1. a \in Seq(Access) /\ b \in Seq(Access) /\ c \in Seq(Access) /\ d \in Seq(Access)
        <5>1. e.end + 1 \in Nat /\ first + n \in Nat
          BY <2>3
        <5>2. QED
          BY <2>3, <2>5, <2>12, <3>4, <3>6, <5>1, ExpandFrom
      <4>2. /\ Expand(C) = a \o b /\ Expand(R) = c \o d /\ Expand(set) = (a \o (b \o c)) \o d
        BY <2>5, <3>2, <3>7, <3>8 DEF K, O, E
      <4> HIDE DEF a, b, c, d
      <4>3. JoinedAlike(a, b, c, d)
        BY <4>1, FourJoined
      <4>4. QED
        BY <4>2, <4>3 DEF JoinedAlike
    <3>10. C # <<>>
      BY <2>5, <3>2 DEF MemSet, C
    <3>11. Tight(set, first, n) => Len(R) <= 1
      <4>1. SUFFICES ASSUME Tight(set, first, n) PROVE Len(R) <= 1
        OBVIOUS
      <4>2. i = Len(set)
        BY <2>3, <2>8, <2>15, <4>1, <1>1 DEF over
      <4>3. Len(Z) = 0
        BY <1>1, <2>7, <4>2
      <4>4. Len(O) = 1
        BY DEF O
      <4>5. Joined(R, O, Z, 1, 0)
        BY <2>5, <3>4, <4>3, <4>4, ConcatJoins DEF MemSet
      <4>6. Len(R) = 1 + 0
        BY <4>5 DEF Joined
      <4>7. QED
        BY <4>6
    <3>12. parts = [chunk |-> C, rest |-> R]
      <4>1. parts = [chunk |-> Append(A, kept), rest |-> <<off>> \o Z]
        BY <1>5, <3>1 DEF parts, SplitAt, S, A, Z, i, e, kept, off, over
      <4>2. Append(A, kept) = A \o <<kept>>
        <5>1. kept \in MemSetEntry
          BY <3>2, ElementOfSeq DEF MemSet
        <5>2. QED
          BY <2>5, <5>1, AppendIsConcat DEF MemSet
      <4>3. QED
        BY <4>1, <4>2 DEF C, R
    <3>13. Good(C, R)
      BY <2>13, <3>7, <3>8, <3>9, <3>10, <3>11 DEF SplitsAt
    <3> HIDE DEF Good
    <3>14. parts.chunk = C /\ parts.rest = R
      BY <3>12
    <3>15. QED
      BY <3>13, <3>14
  <2>16. QED
    BY <2>14, <2>15
<1>6. QED
  BY <1>4, <1>5
-----------------------------------------------------------------------------
(* The inductive invariant.                                                *)

Returned == FlattenSeq(delivered)
Held == IF parsing THEN chunk ELSE remainder

\* Where the scanner is; before the first stream is opened, at its start.
Here(w) ==
  Progress(runs, w, IF stream = 0 THEN 1 ELSE stream, IF stream = 0 THEN 0 ELSE pos,
           [lex |-> mtl, set |-> Held], Returned)

(***************************************************************************)
(* NothingLost says nothing of the scanner's state, so that a step could   *)
(* start from any.  Here ties the state to the tokens read; the block's    *)
(* and the file's ends are tied to the flags that tell of them; what is    *)
(* held while a request is served is tight, as KeepsLittle needs.          *)
(***************************************************************************)
InBlock ==
  /\ stream = 0 => ~ bzf /\ ~ activeParser
  /\ ~ activeParser => pos = blockEnd
  /\ stream # 0 /\ ~ bzf => blockEnd = Len(file[stream])
  /\ status <=> activeParser \/ bzf \/ stream # Len(file)

InRequest ==
  /\ mtl.startInstance = After(Returned, 0)
  /\ IF parsing
       THEN /\ remainder = <<>> /\ mtl.numInstancesRequired > 0
            /\ Tight(chunk, mtl.startInstance, mtl.numInstancesRequired)
       ELSE chunk = <<>> /\ Len(remainder) <= 1

AnswersExact ==
  /\ \A i \in 1 .. Len(delivered) : Expand(delivered[i]) \in Seq(Access)
  /\ Got = Expand(Returned)

IInv ==
  /\ TypeOK /\ InBlock /\ InRequest /\ AnswersExact
  /\ \E w \in BOOLEAN : file = FileOf(runs, w) /\ Here(w)
-----------------------------------------------------------------------------
(***************************************************************************)
(* The streams of a file are the dumped runs, and the three numbers.       *)
(***************************************************************************)
LEMMA FileFacts ==
  ASSUME NEW rs \in Runs, NEW w \in BOOLEAN
  PROVE  /\ Len(FileOf(rs, w)) = Len(rs)
         /\ \A str \in 1 .. Len(rs) :
              /\ FileOf(rs, w)[str] = StreamOf(DumpSet(RecordAll(rs[str])), w)
              /\ Len(FileOf(rs, w)[str]) = Len(RecordAll(rs[str])) + 3
<1>1. Len(rs) \in Nat
  <2>1. rs \in Seq(Seq(Access) \ {<<>>})
    BY ReaderAssumption
  <2>2. QED
    BY <2>1
<1>2. Len(FileOf(rs, w)) = Len(rs)
      /\ \A str \in 1 .. Len(rs) : FileOf(rs, w)[str] = StreamOf(DumpSet(RecordAll(rs[str])), w)
  BY <1>1 DEF FileOf
<1>3. ASSUME NEW str \in 1 .. Len(rs)
      PROVE  Len(StreamOf(DumpSet(RecordAll(rs[str])), w)) = Len(RecordAll(rs[str])) + 3
  <2> DEFINE n == Len(RecordAll(rs[str]))
             seg == DumpSet(RecordAll(rs[str]))
  <2>1. n \in Nat
    BY RunFacts
  <2>2. seg \in Seq({seg[i] : i \in 1 .. n}) /\ Len(seg) = n
    BY <2>1 DEF DumpSet
  <2> HIDE DEF seg
  <2>3. Len(StreamOf(seg, w)) = Len(seg) + 3
    BY <2>2, StreamTokens
  <2>4. QED
    BY <2>2, <2>3 DEF seg
<1>4. QED
  BY <1>2, <1>3

(***************************************************************************)
(* What is returned moves from the scanner's set to what was returned      *)
(* before it; the place in the stream stays.                               *)
(***************************************************************************)
LEMMA ReturnKeepsProgress ==
  ASSUME NEW rs \in Runs, NEW w \in BOOLEAN, NEW str, NEW k, NEW s, NEW before \in MemSet,
         Progress(rs, w, str, k, s, before),
         NEW x \in MemSet, NEW t, t \in [lex : Lexers, set : MemSet],
         ContiguousFrom(x, After(before, 0)),
         ContiguousFrom(t.set, After(x, After(before, 0))),
         After(t.set, After(x, After(before, 0))) = After(s.set, After(before, 0)),
         Expand(x) \o Expand(t.set) = Expand(s.set),
         t.lex.state = s.lex.state, t.lex.remainingGroups = s.lex.remainingGroups,
         t.lex.lastAccess = s.lex.lastAccess,
         t.lex.nextExpectedInstance = s.lex.nextExpectedInstance
  PROVE  Progress(rs, w, str, k, t, before \o x)
<1> DEFINE dumped == RecordAll(rs[str])
           u == before \o x
           y == t.set
           z == s.set
<1>1. /\ str \in 1 .. Len(rs) /\ k \in 0 .. Len(dumped) + 3
      /\ InPlace(s.lex, dumped, w, k) /\ z \in MemSet /\ ContiguousFrom(before \o z, 0)
      /\ s.lex.nextExpectedInstance = After(before \o z, 0)
  BY DEF Progress
<1>2. y \in MemSet
  OBVIOUS
<1> HIDE DEF u, y, z
<1>3. ContiguousFrom(before, 0) /\ ContiguousFrom(z, After(before, 0))
      /\ After(before \o z, 0) = After(z, After(before, 0)) /\ After(before, 0) \in Nat
  BY <1>1, ContiguousConcat, AfterType
<1>4. u \in MemSet /\ ContiguousFrom(u, 0) /\ After(u, 0) = After(x, After(before, 0))
  BY <1>3, ContiguousConcat DEF u
<1>5. u \o y \in MemSet /\ ContiguousFrom(u \o y, 0) /\ After(u \o y, 0) = After(before \o z, 0)
  BY <1>2, <1>3, <1>4, ContiguousConcat DEF y, z
<1>6. Expand(u \o y) = Expand(before \o z)
  <2>1. Expand(u \o y) = Expand(u) \o Expand(y)
    BY <1>2, <1>4, <1>5, ExpandConcat
  <2>2. Expand(u) = Expand(before) \o Expand(x)
    BY <1>4, ExpandConcat DEF u
  <2>3. Expand(before \o z) = Expand(before) \o Expand(z)
    BY <1>1, ExpandConcat
  <2> DEFINE a == Expand(before)
             b == Expand(x)
             c == Expand(y)
  <2>4. a \in Seq(Access) /\ b \in Seq(Access) /\ c \in Seq(Access)
    <3>1. After(u, 0) \in Nat
      BY <1>4, AfterType
    <3>2. QED
      BY <1>2, <1>3, <1>4, <3>1, ExpandFrom DEF y
  <2>5. Expand(u \o y) = (a \o b) \o c /\ Expand(before \o z) = a \o (b \o c)
    BY <2>1, <2>2, <2>3 DEF y, z
  <2> HIDE DEF a, b, c
  <2>6. (a \o b) \o c = a \o (b \o c)
    BY <2>4, ConcatAssociative
  <2>7. QED
    BY <2>5, <2>6
<1>7. InPlace(t.lex, dumped, w, k)
  BY <1>1 DEF InPlace
<1>8. QED
  <2>1. Expand(before \o z) = FlattenSeq(SubSeq(rs, 1, str - 1))
                                \o Expand(SubSeq(dumped, 1, PatternsRead(Len(dumped), w, k)))
    BY DEF Progress, z
  <2>2. /\ ContiguousFrom(u \o t.set, 0)
        /\ t.lex.nextExpectedInstance = After(u \o t.set, 0)
        /\ Expand(u \o t.set) = FlattenSeq(SubSeq(rs, 1, str - 1))
                                  \o Expand(SubSeq(dumped, 1, PatternsRead(Len(dumped), w, k)))
    BY <1>1, <1>5, <1>6, <2>1 DEF y
  <2>3. QED
    BY <1>1, <1>7, <2>2 DEF Progress, u

(***************************************************************************)
(* What was scanned is the first part of the log, and all of it at the end *)
(* of the last stream.                                                     *)
(***************************************************************************)
BeginsWith(log, e) == \E rest \in Seq(Access) : log = e \o rest

LEMMA ScannedIsLog ==
  ASSUME NEW rs \in Runs, NEW w \in BOOLEAN, NEW str, NEW k, NEW s, NEW before,
         Progress(rs, w, str, k, s, before)
  PROVE  /\ BeginsWith(FlattenSeq(rs), Expand(before \o s.set))
         /\ str = Len(rs) /\ k = Len(RecordAll(rs[str])) + 3
              => Expand(before \o s.set) = FlattenSeq(rs)
<1> DEFINE dumped == RecordAll(rs[str])
           n == Len(dumped)
           j == PatternsRead(n, w, k)
           p == FlattenSeq(SubSeq(rs, 1, str - 1))
           q == Expand(SubSeq(dumped, 1, j))
           r == Expand(SubSeq(dumped, j + 1, n))
           Upto(m) == FlattenSeq(SubSeq(rs, 1, m))
           Starts(m) == \E rest \in Seq(Access) : Upto(m) = Expand(before \o s.set) \o rest
<1>1. /\ str \in 1 .. Len(rs) /\ k \in 0 .. n + 3 /\ Expand(before \o s.set) = p \o q
  BY DEF Progress
<1>2. /\ n \in Nat \ {0} /\ dumped \in MemSet /\ ContiguousFrom(dumped, 0)
      /\ Expand(dumped) = rs[str] /\ rs \in Seq(Seq(Access)) /\ Len(rs) \in Nat
  BY <1>1, RunFacts
<1> HIDE DEF n
<1>3. j \in 0 .. n
  BY <1>2 DEF PatternsRead
<1>4. rs[str] = q \o r /\ q \in Seq(Access) /\ r \in Seq(Access)
  <2> HIDE DEF j
  <2> DEFINE first == SubSeq(dumped, 1, j)
             last == SubSeq(dumped, j + 1, n)
  <2>1. /\ first \in MemSet /\ last \in MemSet
        /\ ContiguousFrom(first, 0) /\ ContiguousFrom(last, After(first, 0))
        /\ Expand(dumped) = Expand(first) \o Expand(last)
    BY <1>2, <1>3, SetInTwo DEF n
  <2> HIDE DEF first, last
  <2>2. After(first, 0) \in Nat
    BY <2>1, AfterType
  <2>3. Expand(first) \in Seq(Access) /\ Expand(last) \in Seq(Access)
    BY <2>1, <2>2, ExpandFrom
  <2>4. QED
    BY <1>2, <2>1, <2>3 DEF first, last
<1>5. p \in Seq(Access) /\ Upto(str) = p \o rs[str]
  BY <1>1, EarlierRuns
<1>6. Starts(str)
  <2> HIDE DEF p, q, r
  <2>1. (p \o q) \o r = p \o (q \o r)
    BY <1>4, <1>5, ConcatAssociative, SMTT(60)
  <2>2. Upto(str) = Expand(before \o s.set) \o r
    BY <1>1, <1>4, <1>5, <2>1
  <2>3. QED
    BY <1>4, <2>2
<1>7. Expand(before \o s.set) \in Seq(Access)
  <2> HIDE DEF p, q
  <2>1. p \o q \in Seq(Access)
    BY <1>4, <1>5, ConcatProperties
  <2>2. QED
    BY <1>1, <2>1
<1> DEFINE T == {i \in Nat : str + i <= Len(rs) => Starts(str + i)}
<1>8. 0 \in T
  <2>1. str + 0 = str
    BY <1>1
  <2> HIDE DEF Starts
  <2>2. QED
    BY <1>6, <2>1
<1>9. ASSUME NEW i \in Nat, i \in T PROVE i + 1 \in T
  <2>1. SUFFICES ASSUME str + (i + 1) <= Len(rs) PROVE Starts(str + (i + 1))
    OBVIOUS
  <2> DEFINE m == str + (i + 1)
             e == Expand(before \o s.set)
  <2>2. m \in 1 .. Len(rs) /\ m - 1 = str + i /\ str + i <= Len(rs)
    BY <1>1, <1>2, <2>1
  <2>3. Starts(m - 1)
    <3> HIDE DEF Starts
    <3>1. QED
      BY <1>9, <2>2
  <2> HIDE DEF m, e
  <2>4. PICK rest \in Seq(Access) : Upto(m - 1) = e \o rest
    BY <2>3 DEF e
  <2>5. Upto(m) = Upto(m - 1) \o rs[m] /\ rs[m] \in Seq(Access)
    BY <2>2, EarlierRuns, RunFacts
  <2> DEFINE last == rs[m]
  <2>6. last \in Seq(Access) /\ rest \o last \in Seq(Access)
    BY <2>5, ConcatProperties
  <2>7. Upto(m) = (e \o rest) \o last
    BY <2>4, <2>5
  <2> HIDE DEF last
  <2>8. (e \o rest) \o last = e \o (rest \o last)
    BY <1>7, <2>6, ConcatAssociative DEF e
  <2>9. Upto(m) = e \o (rest \o last)
    BY <2>7, <2>8
  <2>10. Starts(m)
    BY <2>6, <2>9 DEF e
  <2>11. QED
    BY <2>10 DEF m
<1>10. Starts(Len(rs))
  <2>1. Nat \subseteq T
    <3> HIDE DEF T
    <3>1. QED
      BY <1>8, <1>9, SetInduction
  <2>2. Len(rs) - str \in Nat /\ str + (Len(rs) - str) = Len(rs) /\ Len(rs) <= Len(rs)
    BY <1>1, <1>2
  <2> HIDE DEF Starts
  <2>3. Len(rs) - str \in T
    BY <2>1, <2>2
  <2>4. QED
    BY <2>2, <2>3
<1>11. Upto(Len(rs)) = FlattenSeq(rs)
  <2>1. SubSeq(rs, 1, Len(rs)) = rs
    BY <1>2, SubSeqFull
  <2>2. QED
    BY <2>1
<1>12. ASSUME str = Len(rs), k = n + 3
       PROVE  Expand(before \o s.set) = FlattenSeq(rs)
  <2>1. j = n
    <3>1. Preamble(w) \in {2, 3}
      BY DEF Preamble
    <3>2. QED
      BY <1>2, <1>12, <3>1 DEF PatternsRead
  <2>2. SubSeq(dumped, 1, n) = dumped
    BY <1>2, SubSeqFull DEF n, MemSet
  <2>3. q = rs[str]
    BY <1>2, <2>1, <2>2
  <2>4. QED
    BY <1>1, <1>5, <1>11, <1>12, <2>3
<1>13. QED
  BY <1>10, <1>11, <1>12 DEF n, BeginsWith

(***************************************************************************)
(* A chunk is returned behind those before it.                             *)
(***************************************************************************)
LEMMA AnswerAppends ==
  ASSUME delivered \in Seq(MemSet),
         \A i \in 1 .. Len(delivered) : Expand(delivered[i]) \in Seq(Access),
         NEW c \in MemSet, Expand(c) \in Seq(Access),
         delivered' = Append(delivered, c)
  PROVE  /\ delivered' \in Seq(MemSet)
         /\ \A i \in 1 .. Len(delivered') : Expand(delivered'[i]) \in Seq(Access)
         /\ Returned' = Returned \o c /\ Got' = Got \o Expand(c)
         /\ Returned \in MemSet /\ Got \in Seq(Access)
<1> DEFINE n == Len(delivered)
<1>1. n \in Nat /\ Len(delivered') = n + 1 /\ delivered' \in Seq(MemSet)
      /\ \A i \in 1 .. n : delivered'[i] = delivered[i]
      /\ delivered'[n + 1] = c
  BY AppendProperties
<1>2. Returned' = Returned \o c /\ Returned \in MemSet
  <2>1. delivered \in Seq(Seq(MemSetEntry)) /\ c \in Seq(MemSetEntry)
    BY DEF MemSet
  <2>2. FlattenSeq(Append(delivered, c)) = FlattenSeq(delivered) \o c
    BY <2>1, FlattenAppend
  <2>3. FlattenSeq(delivered) \in Seq(MemSetEntry)
    BY <2>1, FlattenType
  <2>4. QED
    BY <2>2, <2>3 DEF Returned, MemSet
<1> HIDE DEF n
<1> DEFINE p == [i \in 1 .. n |-> Expand(delivered[i])]
           q == [i \in 1 .. n + 1 |-> Expand(delivered'[i])]
<1>3. \A i \in 1 .. n + 1 : Expand(delivered'[i]) \in Seq(Access)
  <2>1. ASSUME NEW i \in 1 .. n + 1 PROVE Expand(delivered'[i]) \in Seq(Access)
    <3>1. CASE i = n + 1
      BY <1>1, <3>1
    <3>2. CASE i # n + 1
      <4>1. i \in 1 .. n
        BY <1>1, <3>2
      <4>2. QED
        BY <1>1, <4>1 DEF n
    <3>3. QED
      BY <3>1, <3>2
  <2>2. QED
    BY <2>1
<1>4. p \in [1 .. n -> Seq(Access)]
  BY DEF n
<1>5. q \in [1 .. n + 1 -> Seq(Access)]
  BY <1>3
<1>6. \A i \in 1 .. n : q[i] = p[i]
  BY <1>1
<1>7. q[n + 1] = Expand(c)
  BY <1>1
<1>8. Got = FlattenSeq(p)
  BY DEF Got, n
<1>9. Got' = FlattenSeq(q)
  BY <1>1 DEF Got
<1> HIDE DEF p, q
<1>10. FlattenSeq(q) = FlattenSeq(p) \o q[n + 1] /\ FlattenSeq(p) \in Seq(Access)
  BY <1>1, <1>4, <1>5, <1>6, FlattenExtend
<1>11. QED
  BY <1>1, <1>2, <1>3, <1>7, <1>8, <1>9, <1>10

(***************************************************************************)
(* Before the first request.                                               *)
(***************************************************************************)
LEMMA InitInv ==
  ASSUME Init
  PROVE  IInv
<1> USE DEF Init
<1>1. PICK w \in BOOLEAN : file = FileOf(runs, w)
  OBVIOUS
<1>2. /\ Len(file) = Len(runs) /\ Len(runs) \in Nat /\ Len(runs) > 0 /\ 1 \in 1 .. Len(runs)
  <2>1. runs \in Seq(Seq(Access) \ {<<>>}) /\ runs # <<>>
    BY ReaderAssumption
  <2>2. Len(runs) \in Nat /\ Len(runs) > 0
    BY <2>1, EmptySeq
  <2>3. QED
    BY <1>1, <2>2, FileFacts
<1>3. LexInit \in Lexers
  BY HAssumption DEF LexInit, Lexers, Word, M
<1>4. <<>> \in MemSet /\ delivered \in Seq(MemSet)
  BY EmptySeq DEF MemSet
<1>5. TypeOK
  <2>1. /\ stream \in 0 .. Len(file) /\ pos \in 0 .. blockEnd
        /\ blockEnd \in 0 .. (IF stream = 0 THEN 0 ELSE Len(file[stream]))
    BY <1>2
  <2>2. mtl \in Lexers
    BY <1>3
  <2>3. chunk \in MemSet /\ remainder \in MemSet
    BY <1>4
  <2>4. runs \in Runs /\ bzf \in BOOLEAN /\ activeParser \in BOOLEAN /\ status \in BOOLEAN
        /\ parsing \in BOOLEAN
    OBVIOUS
  <2>5. QED
    BY <1>4, <2>1, <2>2, <2>3, <2>4 DEF TypeOK, Lexers
<1>6. InBlock
  BY <1>2 DEF InBlock
<1>7. Returned = <<>> /\ Held = <<>>
  BY FlattenEmpty DEF Returned, Held
<1>8. InRequest
  BY <1>7, EmptySeq DEF InRequest, LexInit, After
<1>9. AnswersExact
  <2>1. [i \in 1 .. Len(delivered) |-> Expand(delivered[i])] = <<>>
    BY EmptySeq
  <2>2. Got = <<>>
    BY <2>1, FlattenEmpty DEF Got
  <2>3. QED
    BY <1>7, <2>2, EmptySeq DEF AnswersExact, Expand
<1>10. Here(w)
  <2> DEFINE s == [lex |-> LexInit, set |-> <<>>]
             dumped == RecordAll(runs[1])
             n == Len(dumped)
  <2>1. n \in Nat
    BY <1>2, RunFacts
  <2>2. 0 - Preamble(w) \notin 0 .. n - 1 /\ 0 - Preamble(w) \notin 0 .. n /\ 0 < Preamble(w)
    BY DEF Preamble
  <2>3. PatternsRead(n, w, 0) = 0
    BY <2>2 DEF PatternsRead
  <2>4. InPlace(LexInit, dumped, w, 0)
    <3>1. 0 \notin 1 .. Preamble(w) - 1
      OBVIOUS
    <3>2. QED
      BY <2>2, <3>1 DEF InPlace, LexInit
  <2>5. SubSeq(runs, 1, 1 - 1) = <<>> /\ SubSeq(dumped, 1, 0) = <<>>
    BY SubSeqEmpty
  <2>6. FlattenSeq(<<>>) \o Expand(<<>>) = <<>>
    BY FlattenEmpty, EmptySeq DEF Expand
  <2>7. <<>> \o <<>> = <<>> /\ ContiguousFrom(<<>>, 0) /\ After(<<>>, 0) = 0 /\ Expand(<<>>) = <<>>
    BY EmptySeq DEF ContiguousFrom, After, Expand
  <2>8. s \in [lex : Lexers, set : MemSet] /\ s.set = <<>> /\ s.lex = LexInit
    BY <1>3, <1>4
  <2>9. LexInit.nextExpectedInstance = 0 /\ 0 \in 0 .. n + 3
    BY <2>1 DEF LexInit
  <2> HIDE DEF s, n
  <2>10. Progress(runs, w, 1, 0, s, <<>>)
    BY <1>2, <2>3, <2>4, <2>5, <2>6, <2>7, <2>8, <2>9 DEF Progress, n
  <2>11. QED
    BY <1>7, <2>10 DEF Here, s
<1>11. QED
  BY <1>1, <1>5, <1>6, <1>8, <1>9, <1>10 DEF IInv

(***************************************************************************)
(* A request for nothing.                                                  *)
(***************************************************************************)
LEMMA AskForNoneInv ==
  ASSUME IInv, AskForNone
  PROVE  IInv' /\ Got' = Got
<1> USE DEF AskForNone
<1>1. PICK w \in BOOLEAN : file = FileOf(runs, w) /\ Here(w)
  BY DEF IInv
<1>2. TypeOK /\ InBlock /\ InRequest /\ AnswersExact
  BY DEF IInv
<1>3. <<>> \in MemSet /\ Expand(<<>>) = <<>> /\ <<>> \in Seq(Access)
  BY EmptySeq DEF MemSet, Expand
<1>4. /\ delivered' \in Seq(MemSet)
      /\ \A i \in 1 .. Len(delivered') : Expand(delivered'[i]) \in Seq(Access)
      /\ Returned' = Returned \o <<>> /\ Got' = Got \o <<>>
      /\ Returned \in MemSet /\ Got \in Seq(Access)
  BY <1>2, <1>3, AnswerAppends DEF TypeOK, AnswersExact
<1>5. Returned' = Returned /\ Got' = Got
  BY <1>4, ConcatEmptySeq DEF MemSet
<1>6. TypeOK'
  BY <1>2, <1>4 DEF TypeOK
<1>7. InBlock' /\ InRequest'
  BY <1>2, <1>5 DEF InBlock, InRequest
<1>8. AnswersExact'
  BY <1>2, <1>4, <1>5 DEF AnswersExact
<1>9. Here(w)'
  BY <1>1, <1>5 DEF Here, Held
<1>10. QED
  BY <1>1, <1>5, <1>6, <1>7, <1>8, <1>9 DEF IInv

(***************************************************************************)
(* A request: what is kept becomes the chunk.                              *)
(***************************************************************************)
LEMMA AskForChunkInv ==
  ASSUME IInv, NEW n \in ChunkSizes, AskForChunk(n)
  PROVE  IInv' /\ Got' = Got /\ mtl'.numInstancesRequired = n
<1> USE DEF AskForChunk
<1>1. PICK w \in BOOLEAN : file = FileOf(runs, w) /\ Here(w)
  BY DEF IInv
<1>2. TypeOK /\ InBlock /\ InRequest /\ AnswersExact
  BY DEF IInv
<1>3. n \in Nat
  BY ReaderAssumption
<1>4. Returned' = Returned /\ Got' = Got /\ AnswersExact'
  BY <1>2 DEF Returned, Got, AnswersExact
<1>5. mtl' \in Lexers /\ mtl \in Lexers /\ mtl'.numInstancesRequired = n
      /\ mtl'.startInstance = mtl.startInstance /\ mtl'.state = mtl.state
      /\ mtl'.remainingGroups = mtl.remainingGroups /\ mtl'.lastAccess = mtl.lastAccess
      /\ mtl'.nextExpectedInstance = mtl.nextExpectedInstance
  BY <1>2, <1>3 DEF TypeOK, Lexers
<1>6. TypeOK'
  <2>1. <<>> \in MemSet
    BY EmptySeq DEF MemSet
  <2>2. QED
    BY <1>2, <1>5, <2>1 DEF TypeOK, Lexers
<1>7. InBlock'
  BY <1>2 DEF InBlock
<1>8. InRequest'
  <2>1. remainder \in MemSet /\ Len(remainder) \in Nat /\ Len(remainder) <= 1
    BY <1>2 DEF TypeOK, InRequest, MemSet
  <2>2. Tight(remainder, mtl.startInstance, n)
    <3>1. ASSUME NEW i \in 1 .. Len(remainder) PROVE i = Len(remainder)
      BY <2>1
    <3>2. QED
      BY <3>1 DEF Tight
  <2>3. QED
    BY <1>2, <1>3, <1>4, <1>5, <2>2 DEF InRequest
<1>9. Here(w)'
  <2> DEFINE str == IF stream = 0 THEN 1 ELSE stream
             k == IF stream = 0 THEN 0 ELSE pos
             s == [lex |-> mtl, set |-> remainder]
             t == [lex |-> mtl', set |-> remainder]
  <2>1. Progress(runs, w, str, k, s, Returned)
    BY <1>1 DEF Here, Held
  <2>2. /\ t \in [lex : Lexers, set : MemSet] /\ t.set = s.set /\ t.lex = mtl' /\ s.lex = mtl
        /\ s \in [lex : Lexers, set : MemSet]
    BY <1>2, <1>5 DEF TypeOK
  <2> HIDE DEF s, t, str, k
  <2>3. Progress(runs, w, str, k, t, Returned)
    BY <1>5, <2>1, <2>2 DEF Progress, InPlace
  <2>4. QED
    BY <1>4, <2>3 DEF Here, Held, t, str, k
<1>10. QED
  BY <1>1, <1>4, <1>5, <1>6, <1>7, <1>8, <1>9 DEF IInv

(***************************************************************************)
(* The scanner runs on the tokens from `from' to `to' of stream str.       *)
(***************************************************************************)
LEMMA LexingInv ==
  ASSUME UserAddresses, IInv, NeedsBlock, NEW str \in 1 .. Len(file),
         NEW to \in 0 .. Len(file[str]), NEW from \in 0 .. to, NEW open \in BOOLEAN,
         NEW w \in BOOLEAN, file = FileOf(runs, w),
         Progress(runs, w, str, from, [lex |-> mtl, set |-> chunk], Returned),
         ~ open => to = Len(file[str]),
         DoLexing(str, from, to, open),
         stream' = str, bzf' = open, blockEnd' = to,
         UNCHANGED <<runs, file, remainder, parsing, delivered>>
  PROVE  /\ IInv' /\ Got' = Got
         /\ mtl'.numInstancesRequired = mtl.numInstancesRequired
<1> DEFINE tokens == StreamOf(DumpSet(RecordAll(runs[str])), w)
           early == EarlyReturns(tokens, from, to)
           stop == IF early = {} THEN to ELSE Min(early)
           s == Scanned(tokens, from, to)[stop]
           first == [lex |-> mtl, set |-> chunk]
<1>1. TypeOK /\ InBlock /\ InRequest /\ AnswersExact
  BY DEF IInv
<1>2. runs \in Runs /\ str \in 1 .. Len(runs) /\ Len(file) = Len(runs) /\ Len(runs) \in Nat
      /\ tokens = file[str] /\ Len(file[str]) = Len(RecordAll(runs[str])) + 3
      /\ Len(file[str]) \in Nat
  <2>1. runs \in Runs
    BY <1>1 DEF TypeOK
  <2>2. Len(file) = Len(runs)
    BY <2>1, FileFacts
  <2>3. str \in 1 .. Len(runs)
    BY <2>2
  <2>4. tokens = file[str] /\ Len(file[str]) = Len(RecordAll(runs[str])) + 3
    BY <2>1, <2>3, FileFacts
  <2>5. Len(runs) \in Nat /\ Len(RecordAll(runs[str])) \in Nat
    BY <2>1, <2>3, RunFacts
  <2>6. QED
    BY <2>1, <2>2, <2>3, <2>4, <2>5
<1>3. /\ parsing /\ NumBuffered(chunk) < mtl.numInstancesRequired
      /\ mtl.startInstance = After(Returned, 0) /\ mtl.numInstancesRequired > 0
      /\ remainder = <<>>
  BY <1>1 DEF NeedsBlock, InRequest
<1>4. Returned \in MemSet
  <2>1. delivered \in Seq(Seq(MemSetEntry))
    BY <1>1 DEF TypeOK, MemSet
  <2>2. QED
    BY <2>1, FlattenType DEF Returned, MemSet
<1>5. from \in Nat /\ to \in Nat /\ from <= to /\ to <= Len(RecordAll(runs[str])) + 3
  BY <1>2
<1>6. /\ pos' = stop /\ mtl' = s.lex /\ chunk' = s.set
      /\ activeParser' = (early # {})
      /\ status' = ~ (early = {} /\ str = Len(file) /\ ~ open)
  BY <1>2 DEF DoLexing
<1>7. /\ stop \in from .. to
      /\ Progress(runs, w, str, stop, s, Returned)
      /\ SameRequest(first, s)
      /\ Tight(s.set, mtl.startInstance, mtl.numInstancesRequired)
  BY <1>2, <1>3, <1>4, <1>5, ScansOn, ZenonT(60)
<1>8. early = {} => stop = to
  OBVIOUS
<1> HIDE DEF s, stop, early, tokens
<1>9. s \in [lex : Lexers, set : MemSet] /\ mtl' \in Lexers /\ chunk' \in MemSet
      /\ s = [lex |-> mtl', set |-> chunk']
  BY <1>6, <1>7 DEF Progress
<1>10. mtl'.numInstancesRequired = mtl.numInstancesRequired
       /\ mtl'.startInstance = mtl.startInstance
  BY <1>6, <1>7 DEF SameRequest
<1>11. Returned' = Returned /\ Got' = Got /\ AnswersExact'
  BY <1>1 DEF Returned, Got, AnswersExact
<1>12. TypeOK'
  <2>1. stream' \in 0 .. Len(file') /\ stream' # 0 /\ file'[stream'] = file[str]
    BY <1>2
  <2>2. pos' \in 0 .. blockEnd' /\ blockEnd' \in 0 .. Len(file[str])
    BY <1>5, <1>6, <1>7
  <2>3. QED
    BY <1>1, <1>6, <1>9, <2>1, <2>2 DEF TypeOK, Lexers
<1>13. InBlock'
  <2>1. stream' # 0
    BY <1>2
  <2>2. ~ activeParser' => pos' = blockEnd'
    BY <1>6, <1>8
  <2>3. ~ bzf' => blockEnd' = Len(file'[stream'])
    OBVIOUS
  <2>4. status' <=> activeParser' \/ bzf' \/ stream' # Len(file')
    BY <1>6
  <2>5. QED
    BY <2>1, <2>2, <2>3, <2>4 DEF InBlock
<1>14. InRequest'
  BY <1>3, <1>6, <1>7, <1>10, <1>11 DEF InRequest
<1>15. Here(w)'
  <2>1. Held' = chunk' /\ stream' # 0
    BY <1>2, <1>3 DEF Held
  <2>2. QED
    BY <1>6, <1>7, <1>9, <1>11, <2>1 DEF Here
<1>16. QED
  BY <1>10, <1>11, <1>12, <1>13, <1>14, <1>15 DEF IInv

(***************************************************************************)
(* parseBlock goes on in the block it has.                                 *)
(***************************************************************************)
LEMMA ResumeBlockInv ==
  ASSUME UserAddresses, IInv, ResumeBlock
  PROVE  IInv' /\ Got' = Got /\ mtl'.numInstancesRequired = mtl.numInstancesRequired
<1>1. PICK w \in BOOLEAN : file = FileOf(runs, w) /\ Here(w)
  BY DEF IInv
<1>2. /\ TypeOK /\ InBlock /\ NeedsBlock /\ activeParser /\ parsing
      /\ DoLexing(stream, pos, blockEnd, bzf)
      /\ UNCHANGED <<runs, file, stream, bzf, blockEnd, remainder, parsing, delivered>>
  BY DEF IInv, ResumeBlock, NeedsBlock
<1>3. stream # 0 /\ bzf \in BOOLEAN
  BY <1>2 DEF InBlock, TypeOK
<1>4. stream \in 1 .. Len(file) /\ blockEnd \in 0 .. Len(file[stream]) /\ pos \in 0 .. blockEnd
  BY <1>2, <1>3 DEF TypeOK
<1>5. Progress(runs, w, stream, pos, [lex |-> mtl, set |-> chunk], Returned)
  BY <1>1, <1>2, <1>3 DEF Here, Held
<1>6. ~ bzf => blockEnd = Len(file[stream])
  BY <1>2, <1>3 DEF InBlock
<1>7. QED
  BY <1>1, <1>2, <1>3, <1>4, <1>5, <1>6, LexingInv

(***************************************************************************)
(* parseBlock decompresses more, of the next stream when the last is done. *)
(***************************************************************************)
LEMMA ParseBlockInv ==
  ASSUME UserAddresses, IInv, ParseBlock
  PROVE  IInv' /\ Got' = Got /\ mtl'.numInstancesRequired = mtl.numInstancesRequired
<1> DEFINE str == IF bzf THEN stream ELSE stream + 1
           from == IF bzf THEN pos ELSE 0
<1>1. PICK w \in BOOLEAN : file = FileOf(runs, w) /\ Here(w)
  BY DEF IInv
<1>2. /\ TypeOK /\ InBlock /\ NeedsBlock /\ ~ activeParser /\ parsing /\ status
      /\ UNCHANGED <<runs, file, remainder, parsing, delivered>>
  BY DEF IInv, ParseBlock, NeedsBlock
<1>3. runs \in Runs /\ Len(file) = Len(runs) /\ Len(file) \in Nat /\ Len(file) > 0
      /\ stream \in 0 .. Len(file) /\ 1 \in 1 .. Len(runs)
  <2>1. runs \in Seq(Seq(Access) \ {<<>>}) /\ runs # <<>> /\ runs \in Runs
    BY <1>2, ReaderAssumption DEF TypeOK
  <2>2. Len(runs) \in Nat /\ Len(runs) > 0
    BY <2>1, EmptySeq
  <2>3. QED
    BY <1>1, <1>2, <2>1, <2>2, FileFacts DEF TypeOK
<1>4. str \in 1 .. Len(file)
  <2>1. CASE bzf
    BY <1>2, <1>3, <2>1 DEF InBlock
  <2>2. CASE ~ bzf
    <3>1. stream # Len(file)
      BY <1>2, <2>2 DEF InBlock
    <3>2. QED
      BY <1>3, <2>2, <3>1
  <2>3. QED
    BY <2>1, <2>2
<1>5. Progress(runs, w, str, from, [lex |-> mtl, set |-> chunk], Returned)
  <2>1. Progress(runs, w, IF stream = 0 THEN 1 ELSE stream, IF stream = 0 THEN 0 ELSE pos,
                 [lex |-> mtl, set |-> chunk], Returned)
    BY <1>1, <1>2 DEF Here, Held
  <2>2. CASE bzf
    <3>1. stream # 0
      BY <1>2, <2>2 DEF InBlock
    <3>2. QED
      BY <2>1, <2>2, <3>1
  <2>3. CASE ~ bzf /\ stream = 0
    BY <2>1, <2>3
  <2>4. CASE ~ bzf /\ stream # 0
    <3>1. pos = Len(file[stream]) /\ stream \in 1 .. Len(runs) /\ stream + 1 <= Len(runs)
      BY <1>2, <1>3, <1>4, <2>4 DEF InBlock
    <3>2. pos = Len(RecordAll(runs[stream])) + 3
      BY <1>1, <1>3, <3>1, FileFacts
    <3>3. Progress(runs, w, stream, Len(RecordAll(runs[stream])) + 3,
                   [lex |-> mtl, set |-> chunk], Returned)
      BY <2>1, <2>4, <3>2
    <3>4. Progress(runs, w, stream + 1, 0, [lex |-> mtl, set |-> chunk], Returned)
      <4> DEFINE s == [lex |-> mtl, set |-> chunk]
      <4> HIDE DEF s
      <4>1. Progress(runs, w, stream, Len(RecordAll(runs[stream])) + 3, s, Returned)
        BY <3>3 DEF s
      <4>2. Progress(runs, w, stream + 1, 0, s, Returned)
        BY <1>3, <3>1, <4>1, NextStream
      <4>3. QED
        BY <4>2 DEF s
    <3>5. QED
      BY <2>4, <3>4
  <2>5. QED
    BY <2>2, <2>3, <2>4
<1>6. from \in Nat /\ Len(file[str]) \in Nat
  <2>1. from \in Nat
    BY <1>2, <1>3 DEF TypeOK
  <2>2. Len(RecordAll(runs[str])) \in Nat /\ Len(file[str]) = Len(RecordAll(runs[str])) + 3
    BY <1>1, <1>3, <1>4, FileFacts, RunFacts, SMTT(60)
  <2>3. QED
    BY <2>1, <2>2
<1>7. PICK to \in from .. Len(file[str]), ends \in BOOLEAN :
        /\ IF ends THEN to = Len(file[str]) ELSE to > from
        /\ stream' = str /\ bzf' = ~ ends /\ blockEnd' = to
        /\ DoLexing(str, from, to, ~ ends)
  BY DEF ParseBlock
<1> HIDE DEF str, from
<1> DEFINE open == ~ ends
<1>8. /\ to \in 0 .. Len(file[str]) /\ from \in 0 .. to /\ open \in BOOLEAN
      /\ ~ open => to = Len(file[str])
  BY <1>6, <1>7
<1>9. bzf' = open /\ DoLexing(str, from, to, open)
  BY <1>7
<1> HIDE DEF open
<1>10. QED
  BY <1>1, <1>2, <1>4, <1>5, <1>7, <1>8, <1>9, LexingInv

(***************************************************************************)
(* What getNextChunk returns, c, and keeps, y, of the chunk it read: as    *)
(* many instances as were asked for, or all there are.                     *)
(***************************************************************************)
Answers(c, y) ==
  LET first == mtl.startInstance
      n == mtl.numInstancesRequired
  IN /\ c \in MemSet /\ y \in MemSet
     /\ ContiguousFrom(c, first) /\ ContiguousFrom(y, After(c, first))
     /\ After(y, After(c, first)) = After(chunk, first)
     /\ Expand(c) \o Expand(y) = Expand(chunk)
     /\ IF After(chunk, first) >= first + n
          THEN After(c, first) = first + n ELSE c = chunk /\ y = <<>>
     /\ Len(y) <= 1

LEMMA ReturnFacts ==
  ASSUME IInv, ReturnChunk
  PROVE  \E c \in MemSet, y \in MemSet :
           /\ Answers(c, y)
           /\ delivered' = Append(delivered, c) /\ remainder' = y
           /\ mtl' = [mtl EXCEPT !.startInstance = After(c, mtl.startInstance)]
<1> DEFINE first == mtl.startInstance
           n == mtl.numInstancesRequired
<1>1. /\ TypeOK /\ InRequest /\ parsing
      /\ chunk \in MemSet /\ remainder = <<>> /\ mtl \in Lexers
      /\ first = After(Returned, 0) /\ n > 0 /\ Tight(chunk, first, n)
      /\ first \in Nat /\ n \in Nat
  BY DEF IInv, InRequest, TypeOK, ReturnChunk, Lexers
<1>2. ContiguousFrom(chunk, first)
  <2>1. PICK w \in BOOLEAN : Here(w)
    BY DEF IInv
  <2>2. ContiguousFrom(Returned \o chunk, 0)
    BY <1>1, <2>1 DEF Here, Held, Progress
  <2>3. Returned \in MemSet
    <3>1. delivered \in Seq(Seq(MemSetEntry))
      BY <1>1 DEF TypeOK, MemSet
    <3>2. QED
      BY <3>1, FlattenType DEF Returned, MemSet
  <2>4. QED
    BY <1>1, <2>2, <2>3, ContiguousConcat
<1>3. CASE chunk = <<>>
  <2>1. delivered' = Append(delivered, <<>>) /\ remainder' = <<>> /\ mtl' = mtl
    BY <1>1, <1>3 DEF ReturnChunk
  <2>2. After(<<>>, first) = first
    BY DEF After
  <2>3. mtl' = [mtl EXCEPT !.startInstance = After(<<>>, mtl.startInstance)]
    BY <1>1, <2>1, <2>2 DEF Lexers
  <2>4. Answers(<<>>, <<>>)
    <3>1. ContiguousFrom(<<>>, first) /\ Expand(<<>>) = <<>> /\ <<>> \o <<>> = <<>> /\ Len(<<>>) <= 1
      BY EmptySeq DEF ContiguousFrom, Expand
    <3>2. ~ (first >= first + n)
      BY <1>1
    <3>3. QED
      BY <1>1, <1>3, <2>2, <3>1, <3>2 DEF Answers
  <2>5. QED
    BY <1>1, <1>3, <2>1, <2>3, <2>4
<1>4. CASE chunk # <<>>
  <2> DEFINE parts == SplitAt(chunk, first + n - 1)
             c == parts.chunk
             y == parts.rest
  <2>1. chunk[1].start = first
    <3>1. 1 \in 1 .. Len(chunk)
      BY <1>1, <1>4, EmptySeq DEF MemSet
    <3>2. QED
      BY <1>1, <1>2, <3>1, EntryFacts
  <2>2. /\ delivered' = Append(delivered, c) /\ remainder' = y
        /\ mtl' = [mtl EXCEPT !.startInstance = StartAfter(c)]
    BY <1>4, <2>1 DEF ReturnChunk
  <2>3. SplitsAt(chunk, first, n, c, y)
    <3> HIDE DEF first, n
    <3>1. QED
      BY <1>1, <1>2, <1>4, SplitAtFacts
  <2> HIDE DEF parts
  <2>4. StartAfter(c) = After(c, first)
    BY <2>3 DEF StartAfter, After, Last, SplitsAt
  <2>5. Answers(c, y)
    BY <1>1, <2>3 DEF Answers, SplitsAt
  <2>6. c \in MemSet /\ y \in MemSet
    BY <2>5 DEF Answers
  <2> HIDE DEF c, y
  <2>7. QED
    BY <2>2, <2>4, <2>5, <2>6
<1>5. QED
  BY <1>3, <1>4

LEMMA ReturnChunkInv ==
  ASSUME IInv, ReturnChunk
  PROVE  IInv'
<1> DEFINE first == mtl.startInstance
<1>1. PICK w \in BOOLEAN : file = FileOf(runs, w) /\ Here(w)
  BY DEF IInv
<1>2. /\ TypeOK /\ InBlock /\ InRequest /\ AnswersExact /\ parsing /\ mtl \in Lexers
      /\ first = After(Returned, 0) /\ ~ parsing' /\ chunk' = <<>>
      /\ UNCHANGED <<runs, file, stream, bzf, pos, blockEnd, activeParser, status>>
  BY DEF IInv, InRequest, TypeOK, ReturnChunk, Lexers
<1>3. PICK c \in MemSet, y \in MemSet :
        /\ Answers(c, y)
        /\ delivered' = Append(delivered, c) /\ remainder' = y
        /\ mtl' = [mtl EXCEPT !.startInstance = After(c, first)]
  BY ReturnFacts
<1>4. Progress(runs, w, IF stream = 0 THEN 1 ELSE stream, IF stream = 0 THEN 0 ELSE pos,
               [lex |-> mtl, set |-> chunk], Returned)
  BY <1>1, <1>2 DEF Here, Held
<1>5. ContiguousFrom(Returned \o chunk, 0) /\ chunk \in MemSet
  BY <1>4 DEF Progress
<1>6. Returned \in MemSet
  <2>1. delivered \in Seq(Seq(MemSetEntry))
    BY <1>2 DEF TypeOK, MemSet
  <2>2. QED
    BY <2>1, FlattenType DEF Returned, MemSet
<1>7. ContiguousFrom(Returned, 0) /\ first \in Nat
  BY <1>2, <1>5, <1>6, ContiguousConcat DEF Lexers
<1>8. /\ ContiguousFrom(c, first) /\ ContiguousFrom(y, After(c, first))
      /\ After(y, After(c, first)) = After(chunk, first)
      /\ Expand(c) \o Expand(y) = Expand(chunk) /\ Len(y) <= 1
  BY <1>3 DEF Answers
<1>9. Expand(c) \in Seq(Access) /\ After(c, first) \in Nat
  BY <1>7, <1>8, ExpandFrom, AfterType
<1>10. /\ delivered' \in Seq(MemSet)
       /\ \A i \in 1 .. Len(delivered') : Expand(delivered'[i]) \in Seq(Access)
       /\ Returned' = Returned \o c /\ Got' = Got \o Expand(c)
  BY <1>2, <1>3, <1>9, AnswerAppends DEF TypeOK, AnswersExact
<1>11. ContiguousFrom(Returned \o c, 0) /\ After(Returned \o c, 0) = After(c, first)
  BY <1>2, <1>6, <1>7, <1>8, ContiguousConcat
<1>12. AnswersExact'
  <2>1. Expand(Returned \o c) = Expand(Returned) \o Expand(c)
    BY <1>6, <1>11, ExpandConcat
  <2>2. QED
    BY <1>2, <1>10, <2>1 DEF AnswersExact
<1>13. /\ mtl' \in Lexers /\ mtl'.startInstance = After(c, first)
       /\ mtl'.state = mtl.state /\ mtl'.remainingGroups = mtl.remainingGroups
       /\ mtl'.lastAccess = mtl.lastAccess
       /\ mtl'.nextExpectedInstance = mtl.nextExpectedInstance
  BY <1>2, <1>3, <1>9 DEF Lexers
<1>14. TypeOK'
  <2>1. chunk' \in MemSet
    BY <1>2, EmptySeq DEF MemSet
  <2>2. parsing' \in BOOLEAN
    BY DEF ReturnChunk
  <2>3. QED
    BY <1>2, <1>3, <1>10, <1>13, <2>1, <2>2 DEF TypeOK, Lexers
<1>15. InBlock'
  BY <1>2 DEF InBlock
<1>16. InRequest'
  BY <1>2, <1>3, <1>8, <1>10, <1>11, <1>13 DEF InRequest
<1>17. Here(w)'
  <2> DEFINE s == [lex |-> mtl, set |-> chunk]
             t == [lex |-> mtl', set |-> y]
             str == IF stream = 0 THEN 1 ELSE stream
             k == IF stream = 0 THEN 0 ELSE pos
  <2>1. /\ t \in [lex : Lexers, set : MemSet] /\ t.set = y /\ t.lex = mtl'
        /\ s.lex = mtl /\ s.set = chunk /\ Progress(runs, w, str, k, s, Returned)
    BY <1>4, <1>13
  <2> HIDE DEF s, t, str, k
  <2>2. runs \in Runs
    BY <1>2 DEF TypeOK
  <2>3. Progress(runs, w, str, k, t, Returned \o c)
    BY <1>2, <1>6, <1>8, <1>13, <2>1, <2>2, ReturnKeepsProgress
  <2>4. QED
    BY <1>2, <1>3, <1>10, <2>3 DEF Here, Held, s, t, str, k
<1>18. QED
  BY <1>1, <1>2, <1>12, <1>14, <1>15, <1>16, <1>17 DEF IInv

(***************************************************************************)
(* The middle of three sequences is where it was put, and the first of two *)
(* is a prefix.                                                            *)
(***************************************************************************)
LEMMA PartOfConcat ==
  ASSUME NEW S, NEW s \in Seq(S), NEW t \in Seq(S), NEW u \in Seq(S)
  PROVE  /\ SubSeq((s \o t) \o u, Len(s) + 1, Len(s) + Len(t)) = t
         /\ Len((s \o t) \o u) = Len(s) + Len(t) + Len(u)
         /\ IsPrefix(s, s \o t)
<1> DEFINE a == s \o t
           b == a \o u
           m == Len(s)
           n == Len(t)
           k == Len(u)
<1>1. m \in Nat /\ n \in Nat /\ k \in Nat
  OBVIOUS
<1>2. a \in Seq(S) /\ Joined(a, s, t, m, n)
  BY ConcatJoins
<1> HIDE DEF a
<1>3. b \in Seq(S) /\ Joined(b, a, u, Len(a), k)
  BY <1>2, ConcatJoins
<1> HIDE DEF b, m, n, k
<1>4. /\ Len(a) = m + n /\ Len(b) = (m + n) + k
      /\ \A i \in 1 .. m : a[i] = s[i]
      /\ \A i \in 1 .. n : a[m + i] = t[i]
      /\ \A i \in 1 .. m + n : b[i] = a[i]
  BY <1>2, <1>3 DEF Joined
<1>5. SubSeq(b, m + 1, m + n) = t
  <2> DEFINE c == SubSeq(b, m + 1, m + n)
  <2>1. c = [i \in 1 .. (m + n) - (m + 1) + 1 |-> b[i + (m + 1) - 1]]
    BY <1>1, <1>3, <1>4
  <2>2. (m + n) - (m + 1) + 1 = n
    BY <1>1
  <2>3. \A i \in 1 .. n : b[i + (m + 1) - 1] = t[i]
    <3>1. ASSUME NEW i \in 1 .. n PROVE b[i + (m + 1) - 1] = t[i]
      <4>1. i + (m + 1) - 1 = m + i /\ m + i \in 1 .. m + n
        BY <1>1
      <4>2. QED
        BY <1>4, <4>1
    <3>2. QED
      BY <3>1
  <2>4. t = [i \in 1 .. n |-> t[i]]
    BY DEF n
  <2> HIDE DEF c
  <2>5. c = [i \in 1 .. n |-> t[i]]
    BY <2>1, <2>2, <2>3
  <2>6. QED
    BY <2>4, <2>5 DEF c
<1>6. SubSeq(a, 1, m) = s
  <2> DEFINE c == SubSeq(a, 1, m)
  <2>1. c = [i \in 1 .. m |-> a[i]]
    BY <1>1, <1>2, <1>4
  <2>2. s = [i \in 1 .. m |-> s[i]]
    BY DEF m
  <2> HIDE DEF c
  <2>3. c = [i \in 1 .. m |-> s[i]]
    BY <1>4, <2>1
  <2>4. QED
    BY <2>2, <2>3 DEF c
<1>7. IsPrefix(s, a)
  <2>1. m <= Len(a) /\ SubSeq(s, 1, m) = s
    BY <1>1, <1>4, SubSeqFull DEF m
  <2>2. QED
    BY <1>6, <2>1 DEF IsPrefix, m
<1>8. QED
  BY <1>4, <1>5, <1>7 DEF a, b, m, n, k

(***************************************************************************)
(* What was returned and what is held are the start of the log.            *)
(***************************************************************************)
LEMMA BufferedFacts ==
  ASSUME IInv
  PROVE  /\ Returned \in MemSet /\ Held \in MemSet /\ ContiguousFrom(Returned \o Held, 0)
         /\ ContiguousFrom(Returned, 0) /\ ContiguousFrom(Held, mtl.startInstance)
         /\ mtl.nextExpectedInstance = After(Returned \o Held, 0)
         /\ mtl.startInstance = After(Returned, 0) /\ mtl.startInstance \in Nat
         /\ Expand(Returned) \in Seq(Access) /\ Expand(Held) \in Seq(Access)
         /\ Expand(Returned \o Held) = Expand(Returned) \o Expand(Held)
         /\ BeginsWith(Log, Expand(Returned \o Held))
         /\ ~ status => Expand(Returned \o Held) = Log
<1>1. PICK w \in BOOLEAN : file = FileOf(runs, w) /\ Here(w)
  BY DEF IInv
<1>2. TypeOK /\ InBlock /\ InRequest /\ runs \in Runs /\ mtl \in Lexers
  BY DEF IInv, TypeOK, Lexers
<1> DEFINE s == [lex |-> mtl, set |-> Held]
           str == IF stream = 0 THEN 1 ELSE stream
           k == IF stream = 0 THEN 0 ELSE pos
<1>3. Progress(runs, w, str, k, s, Returned)
  BY <1>1 DEF Here
<1>4. Held \in MemSet /\ s.set = Held /\ s.lex = mtl
  BY <1>2 DEF TypeOK, Held
<1>5. ContiguousFrom(Returned \o Held, 0)
      /\ mtl.nextExpectedInstance = After(Returned \o Held, 0) /\ str \in 1 .. Len(runs)
  BY <1>3 DEF Progress
<1>6. Returned \in MemSet
  <2>1. delivered \in Seq(Seq(MemSetEntry))
    BY <1>2 DEF TypeOK, MemSet
  <2>2. QED
    BY <2>1, FlattenType DEF Returned, MemSet
<1>7. mtl.startInstance = After(Returned, 0) /\ mtl.startInstance \in Nat
  BY <1>2 DEF InRequest, Lexers
<1>8. ContiguousFrom(Returned, 0) /\ ContiguousFrom(Held, mtl.startInstance)
  BY <1>4, <1>5, <1>6, <1>7, ContiguousConcat
<1>9. Expand(Returned) \in Seq(Access) /\ Expand(Held) \in Seq(Access)
  BY <1>4, <1>6, <1>7, <1>8, ExpandFrom
<1>10. Expand(Returned \o Held) = Expand(Returned) \o Expand(Held)
  BY <1>4, <1>5, <1>6, ExpandConcat
<1> HIDE DEF s, str, k
<1>11. /\ BeginsWith(FlattenSeq(runs), Expand(Returned \o s.set))
       /\ str = Len(runs) /\ k = Len(RecordAll(runs[str])) + 3
            => Expand(Returned \o s.set) = FlattenSeq(runs)
  BY <1>2, <1>3, ScannedIsLog
<1>12. ~ status => str = Len(runs) /\ k = Len(RecordAll(runs[str])) + 3
  <2>1. SUFFICES ASSUME ~ status PROVE str = Len(runs) /\ k = Len(RecordAll(runs[str])) + 3
    OBVIOUS
  <2>2. ~ activeParser /\ ~ bzf /\ stream = Len(file) /\ pos = blockEnd
    BY <1>2, <2>1 DEF InBlock
  <2>3. Len(file) = Len(runs)
    BY <1>1, <1>2, FileFacts
  <2>4. Len(runs) > 0 /\ Len(runs) \in Nat
    BY <1>2, <1>5, RunFacts
  <2>5. stream # 0 /\ str = stream /\ k = pos
    BY <2>2, <2>3, <2>4 DEF str, k
  <2>6. pos = Len(file[stream])
    BY <1>2, <2>2, <2>5 DEF InBlock
  <2>7. Len(file[str]) = Len(RecordAll(runs[str])) + 3
    BY <1>1, <1>2, <1>5, FileFacts
  <2>8. QED
    BY <2>2, <2>3, <2>5, <2>6, <2>7
<1>13. QED
  BY <1>4, <1>5, <1>6, <1>7, <1>8, <1>9, <1>10, <1>11, <1>12 DEF Log

LEMMA InvImplies ==
  ASSUME IInv
  PROVE  NothingLost /\ KeepsLittle
<1>1. TypeOK /\ InRequest
  BY DEF IInv
<1>2. Buffered = Returned \o Held
  <2>1. Returned \in Seq(MemSetEntry) /\ chunk \in Seq(MemSetEntry) /\ remainder \in Seq(MemSetEntry)
    BY <1>1, BufferedFacts DEF TypeOK, MemSet
  <2>2. Buffered = (Returned \o chunk) \o remainder
    BY DEF Buffered, Returned
  <2>3. CASE parsing
    <3>1. remainder = <<>> /\ Held = chunk
      BY <1>1, <2>3 DEF InRequest, Held
    <3>2. Returned \o chunk \in Seq(MemSetEntry)
      BY <2>1, ConcatProperties
    <3>3. QED
      BY <2>2, <3>1, <3>2, ConcatEmptySeq
  <2>4. CASE ~ parsing
    <3>1. chunk = <<>> /\ Held = remainder
      BY <1>1, <2>4 DEF InRequest, Held
    <3>2. QED
      BY <2>1, <2>2, <3>1, ConcatEmptySeq
  <2>5. QED
    BY <2>3, <2>4
<1>3. /\ Buffered \in MemSet /\ ContiguousFrom(Buffered, 0)
      /\ mtl.nextExpectedInstance = After(Buffered, 0)
      /\ ~ status => Expand(Buffered) = Log
  BY <1>2, BufferedFacts, ContiguousConcat
<1>4. NextInstance(Buffered) = After(Buffered, 0)
  BY DEF NextInstance, After
<1>5. IsPrefix(Expand(Buffered), Log)
  <2> DEFINE e == Expand(Buffered)
  <2>1. PICK rest \in Seq(Access) : Log = e \o rest
    BY <1>2, BufferedFacts DEF BeginsWith
  <2>2. e \in Seq(Access)
    BY <1>3, ExpandFrom
  <2> HIDE DEF e
  <2>3. IsPrefix(e, e \o rest)
    BY <2>2, PartOfConcat
  <2>4. QED
    BY <2>1, <2>3 DEF e
<1>6. Len(Expand(FlattenSeq(delivered))) = mtl.startInstance
  <2>1. Len(Expand(Returned)) = After(Returned, 0) - 0
    BY BufferedFacts, ExpandFrom
  <2>2. QED
    BY <2>1, BufferedFacts DEF Returned
<1>7. NothingLost
  BY <1>1, <1>3, <1>4, <1>5, <1>6 DEF NothingLost
<1>8. KeepsLittle
  BY <1>1 DEF InRequest, KeepsLittle
<1>9. QED
  BY <1>7, <1>8

(***************************************************************************)
(* Every step of the reader, and every request for a chunk, keeps the      *)
(* invariant.                                                              *)
(***************************************************************************)
LEMMA NextInv ==
  ASSUME UserAddresses, IInv, [Next]_vars
  PROVE  IInv'
<1>1. CASE AskForNone
  BY <1>1, AskForNoneInv
<1>2. ASSUME NEW n \in ChunkSizes, AskForChunk(n)
      PROVE  IInv'
  BY <1>2, AskForChunkInv
<1>3. CASE ResumeBlock
  BY <1>3, ResumeBlockInv
<1>4. CASE ParseBlock
  BY <1>4, ParseBlockInv
<1>5. CASE ReturnChunk
  BY <1>5, ReturnChunkInv
<1>6. CASE UNCHANGED vars
  <2>1. UNCHANGED <<runs, file, stream, bzf, pos, blockEnd, activeParser, mtl, status,
                    chunk, remainder, parsing, delivered>>
    BY <1>6 DEF vars
  <2>2. TypeOK' /\ InBlock' /\ Returned' = Returned /\ AnswersExact' /\ Held' = Held
    BY <2>1 DEF IInv, TypeOK, InBlock, Returned, AnswersExact, Got, Held
  <2>3. InRequest'
    BY <2>1, <2>2 DEF IInv, InRequest
  <2>4. \A w \in BOOLEAN : Here(w) => Here(w)'
    BY <2>1, <2>2 DEF Here
  <2>5. QED
    BY <2>1, <2>2, <2>3, <2>4 DEF IInv
<1>7. QED
  BY <1>1, <1>2, <1>3, <1>4, <1>5, <1>6 DEF Next

(***************************************************************************)
(* Whatever the log, the sizes asked for, the streams the log was dumped   *)
(* in and the blocks they are decompressed in: the chunks returned, what   *)
(* is buffered and what is still to be scanned are the log, numbered       *)
(* through (getNextChunk, parseBlock, the scanner).                        *)
(***************************************************************************)
THEOREM NothingLostAlways ==
  ASSUME UserAddresses
  PROVE  Spec => []NothingLost
<1>1. Init => IInv
  BY InitInv
<1>2. IInv /\ [Next]_vars => IInv'
  BY NextInv
<1>3. IInv => NothingLost
  BY InvImplies
<1>4. QED
  BY <1>1, <1>2, <1>3, PTL DEF Spec

(***************************************************************************)
(* Between requests, one entry at most is kept, however long the trace     *)
(* (the scanner's early return and getNextChunk's split).                  *)
(***************************************************************************)
THEOREM KeepsLittleAlways ==
  ASSUME UserAddresses
  PROVE  Spec => []KeepsLittle
<1>1. Init => IInv
  BY InitInv
<1>2. IInv /\ [Next]_vars => IInv'
  BY NextInv
<1>3. IInv => KeepsLittle
  BY InvImplies
<1>4. QED
  BY <1>1, <1>2, <1>3, PTL DEF Spec

-----------------------------------------------------------------------------
(* What the analysis is promised.                                          *)

LEMMA ReturnRefines ==
  ASSUME IInv, ReturnChunk
  PROVE  Reader!Answer
<1> DEFINE first == mtl.startInstance
           n == mtl.numInstancesRequired
<1>1. /\ TypeOK /\ InRequest /\ AnswersExact /\ parsing /\ ~ NeedsBlock /\ parsing' = FALSE
      /\ runs' = runs /\ Held = chunk /\ n \in Nat /\ n > 0
  BY DEF IInv, InRequest, TypeOK, ReturnChunk, Held
<1>2. PICK c \in MemSet, y \in MemSet :
        Answers(c, y) /\ delivered' = Append(delivered, c)
  BY ReturnFacts
<1>3. /\ first \in Nat /\ ContiguousFrom(chunk, first) /\ chunk \in MemSet
      /\ Expand(Returned) \in Seq(Access) /\ Expand(chunk) \in Seq(Access)
      /\ Got = Expand(Returned) /\ Log \in Seq(Access)
  <2>1. /\ first \in Nat /\ ContiguousFrom(chunk, first) /\ chunk \in MemSet
        /\ Expand(Returned) \in Seq(Access) /\ Expand(chunk) \in Seq(Access)
    BY <1>1, BufferedFacts
  <2>2. Got = Expand(Returned)
    BY <1>1 DEF AnswersExact
  <2>3. Log \in Seq(Access)
    <3>1. runs \in Seq(Seq(Access))
      <4>1. runs \in Seq(Seq(Access) \ {<<>>}) /\ Seq(Access) \ {<<>>} \subseteq Seq(Access)
        BY <1>1, ReaderAssumption DEF TypeOK
      <4>2. QED
        BY <4>1, SeqMonotonic
    <3>2. QED
      BY <3>1, FlattenType DEF Log
  <2>4. QED
    BY <2>1, <2>2, <2>3
<1>4. /\ ContiguousFrom(c, first) /\ ContiguousFrom(y, After(c, first))
      /\ Expand(c) \o Expand(y) = Expand(chunk)
      /\ IF After(chunk, first) >= first + n
           THEN After(c, first) = first + n ELSE c = chunk /\ y = <<>>
  BY <1>2 DEF Answers
<1>5. After(c, first) \in Nat /\ After(chunk, first) \in Nat
  BY <1>3, <1>4, AfterType
<1>6. /\ Expand(c) \in Seq(Access) /\ Expand(y) \in Seq(Access)
      /\ Len(Expand(c)) = After(c, first) - first
  BY <1>3, <1>4, <1>5, ExpandFrom
<1>7. Got' = Got \o Expand(c)
  BY <1>1, <1>2, <1>6, AnswerAppends DEF TypeOK, AnswersExact
<1> DEFINE g == Got
           a == Expand(c)
           b == Expand(y)
<1>8. g \in Seq(Access) /\ a \in Seq(Access) /\ b \in Seq(Access)
  BY <1>3, <1>6
<1>9. PICK rest \in Seq(Access) : Log = (g \o (a \o b)) \o rest
  <2>1. PICK rest \in Seq(Access) : Log = (Expand(Returned) \o Expand(chunk)) \o rest
    BY <1>1, BufferedFacts DEF BeginsWith
  <2>2. QED
    BY <1>3, <1>4, <2>1
<1>10. ~ status => Log = g \o (a \o b)
  BY <1>1, <1>3, <1>4, BufferedFacts
<1>11. ~ (After(chunk, first) >= first + n) => ~ status /\ b = <<>>
  <2>1. SUFFICES ASSUME ~ (After(chunk, first) >= first + n) PROVE ~ status /\ b = <<>>
    OBVIOUS
  <2>2. b = <<>>
    BY <1>4, <2>1 DEF Expand
  <2>3. NumBuffered(chunk) = After(chunk, first) - first
    <3> DEFINE s == [lex |-> mtl, set |-> chunk]
    <3>1. s \in [lex : Lexers, set : MemSet] /\ s.lex = mtl /\ s.set = chunk
      BY <1>1, <1>3 DEF TypeOK, Lexers
    <3> HIDE DEF s
    <3>2. QED
      BY <1>1, <1>3, <3>1, EnoughFacts
  <2>4. NumBuffered(chunk) < n
    BY <1>1, <1>3, <1>5, <2>1, <2>3
  <2>5. ~ status
    BY <1>1, <2>4 DEF NeedsBlock
  <2>6. QED
    BY <2>2, <2>5
<1>12. Len(g) \in Nat /\ Len(a) \in Nat /\ Len(b) \in Nat
  BY <1>8
<1>13. /\ SubSeq(Log, Len(g) + 1, Len(g) + Len(a)) = a
       /\ Len(Log) >= Len(g) + Len(a)
       /\ b = <<>> /\ ~ status => Len(Log) = Len(g) + Len(a)
  <2> HIDE DEF g, a, b
  <2>1. \E z \in Seq(Access) : Log = (g \o a) \o z
    <3> DEFINE z == b \o rest
    <3>1. z \in Seq(Access)
      BY <1>8, ConcatProperties
    <3>2. JoinedAlike(g, a, b, rest)
      BY <1>8, <1>9, FourJoined
    <3>3. (g \o a) \o z = (g \o (a \o b)) \o rest
      BY <3>2 DEF JoinedAlike
    <3> HIDE DEF z
    <3>4. QED
      BY <1>9, <3>1, <3>3
  <2>2. PICK z \in Seq(Access) : Log = (g \o a) \o z
    BY <2>1
  <2>3. /\ SubSeq((g \o a) \o z, Len(g) + 1, Len(g) + Len(a)) = a
        /\ Len((g \o a) \o z) = Len(g) + Len(a) + Len(z)
    BY <1>8, PartOfConcat
  <2>4. Len(Log) = Len(g) + Len(a) + Len(z) /\ Len(z) \in Nat
    BY <2>2, <2>3
  <2>5. ASSUME b = <<>>, ~ status PROVE Len(Log) = Len(g) + Len(a)
    <3>1. a \o b = a
      BY <1>8, <2>5, ConcatEmptySeq
    <3>2. Log = g \o a
      BY <1>10, <2>5, <3>1
    <3>3. QED
      BY <1>8, <3>2, ConcatParts
  <2>6. QED
    BY <1>12, <2>2, <2>3, <2>4, <2>5
<1>14. Len(a) = IF n <= Len(Log) - Len(g) THEN n ELSE Len(Log) - Len(g)
  <2>1. Len(a) = After(c, first) - first /\ Len(Log) \in Nat
    BY <1>3, <1>6
  <2> HIDE DEF g, a, b
  <2>2. CASE After(chunk, first) >= first + n
    <3>1. Len(a) = n
      BY <1>1, <1>3, <1>4, <2>1, <2>2
    <3>2. QED
      BY <1>1, <1>12, <1>13, <2>1, <3>1
  <2>3. CASE ~ (After(chunk, first) >= first + n)
    <3>1. Len(Log) = Len(g) + Len(a)
      BY <1>11, <1>13, <2>3
    <3>2. Len(a) < n
      BY <1>1, <1>3, <1>4, <1>5, <2>1, <2>3
    <3>3. QED
      BY <1>1, <1>12, <2>1, <3>1, <3>2
  <2>4. QED
    BY <2>2, <2>3
<1> DEFINE asked == IF parsing THEN n ELSE 0
<1>15. asked = n /\ asked' = 0 /\ Log' = Log
  BY <1>1 DEF Log
<1>16. Got' = Got \o SubSeq(Log, Len(Got) + 1, Len(Got) + Reader!Due)
  <2>1. Reader!Due = Len(a)
    BY <1>14, <1>15 DEF Reader!Due, Reader!Rest
  <2>2. QED
    BY <1>7, <1>13, <2>1
<1>17. QED
  BY <1>1, <1>15, <1>16 DEF Reader!Answer

(***************************************************************************)
(* Each request is answered with the next accesses of the log: as many as  *)
(* were asked for, or all that are left (getNextChunk).                    *)
(***************************************************************************)
THEOREM ReaderKeepsPromise ==
  ASSUME UserAddresses
  PROVE  Spec => Reader!SafeSpec
<1>1. Init => IInv
  BY InitInv
<1>2. IInv /\ [Next]_vars => IInv'
  BY NextInv
<1>3. Init => Reader!Start
  <2>1. SUFFICES ASSUME Init PROVE Reader!Start
    OBVIOUS
  <2>2. [i \in 1 .. Len(delivered) |-> Expand(delivered[i])] = <<>>
    BY <2>1, EmptySeq DEF Init
  <2>3. Got = <<>>
    BY <2>2, FlattenEmpty DEF Got
  <2>4. QED
    BY <2>1, <2>3 DEF Reader!Start, Init
<1>4. IInv /\ [Next]_vars => [Reader!Ask \/ Reader!Answer]_Reader!readerVars
  <2>1. SUFFICES ASSUME IInv, [Next]_vars
                 PROVE  [Reader!Ask \/ Reader!Answer]_Reader!readerVars
    OBVIOUS
  <2>2. CASE AskForNone
    BY <2>1, <2>2, AskForNoneInv DEF AskForNone, Reader!readerVars, Log
  <2>3. ASSUME NEW n \in ChunkSizes, AskForChunk(n)
        PROVE  Reader!Ask
    <3>1. Got' = Got /\ mtl'.numInstancesRequired = n
      BY <2>1, <2>3, AskForChunkInv
    <3>2. n \in ChunkSizes \ {0}
      BY <2>3 DEF AskForChunk
    <3>3. QED
      BY <2>3, <3>1, <3>2 DEF AskForChunk, Reader!Ask, Log
  <2>4. CASE ResumeBlock
    BY <2>1, <2>4, ResumeBlockInv DEF ResumeBlock, Reader!readerVars, Log
  <2>5. CASE ParseBlock
    BY <2>1, <2>5, ParseBlockInv DEF ParseBlock, Reader!readerVars, Log
  <2>6. CASE ReturnChunk
    BY <2>1, <2>6, ReturnRefines
  <2>7. CASE UNCHANGED vars
    BY <2>7 DEF vars, Reader!readerVars, Log, Got
  <2>8. QED
    BY <2>1, <2>2, <2>3, <2>4, <2>5, <2>6, <2>7 DEF Next
<1>5. QED
  BY <1>1, <1>2, <1>3, <1>4, PTL DEF Spec, Reader!SafeSpec
=============================================================================
