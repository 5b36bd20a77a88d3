-------------------------- MODULE AliasCheck_proofs ---------------------------
(***************************************************************************)
(* The alias test finds what it should, for words and strides of any size, *)
(* and for every pattern in the lower half of memory.                      *)
(*                                                                         *)
(* The argument, from the bottom up.  The loops of dynamic_gcd.cpp return, *)
(* because a measure falls with every turn, and what their invariants say  *)
(* holds when they do: the greatest common divisor divides both strides,   *)
(* and the coefficients of the extended algorithm are Bezout's.  So the    *)
(* common addresses of two progressions are one of them and the multiples  *)
(* of the least common multiple around it.  The code computes that one in  *)
(* words that wrap around: what it finds is right if no product exceeds a  *)
(* word, or if what wrapping takes off is a multiple of the least common   *)
(* multiple after the division (Reduces); and then the first common        *)
(* address within both extents and the number of those that follow are     *)
(* exact.  Of aligned accesses of one length, two that share a byte are    *)
(* the same, so that their addresses answer for their bytes.               *)
(***************************************************************************)
EXTENDS AliasCheck, MemSets_proofs

-----------------------------------------------------------------------------
(* Multiples.                                                              *)

IsMultiple(n, d) == \E k \in Int : n = d * k

(***************************************************************************)
(* Quotient and remainder (the operators / and % of dynamic_gcd.cpp).      *)
(***************************************************************************)
LEMMA QuotientAndRemainder ==
  ASSUME NEW d \in Nat, d > 0
  PROVE  \A i \in Int : /\ i = d * (i \div d) + (i % d)
                        /\ i \div d \in Int /\ i % d \in 0 .. d - 1
OBVIOUS

(***************************************************************************)
(* They are the only ones.                                                 *)
(***************************************************************************)
LEMMA OnlyQuotient ==
  ASSUME NEW d \in Nat, d > 0, NEW i \in Int, NEW k \in Int, NEW r \in 0 .. d - 1,
         i = d * k + r
  PROVE  i \div d = k /\ i % d = r
<1> DEFINE q == i \div d
           s == i % d
<1>1. i = d * q + s /\ q \in Int /\ s \in 0 .. d - 1
  BY QuotientAndRemainder
<1> HIDE DEF q, s
<1>2. d * (q - k) = r - s
  <2>1. d * (q - k) = d * q - d * k /\ d * q \in Int /\ d * k \in Int
    BY <1>1
  <2>2. QED
    BY <1>1, <2>1
<1>3. q - k \in Int
  BY <1>1
<1>4. r = s
  BY <1>1, <1>2, <1>3, MultipleBelow
<1>5. d * (q - k) = 0
  BY <1>1, <1>2, <1>4
<1>6. q = k
  BY <1>3, <1>5, <1>1
<1>7. QED
  BY <1>4, <1>6 DEF q, s

(***************************************************************************)
(* A multiple is what leaves no remainder.                                 *)
(***************************************************************************)
LEMMA MultipleRemainder ==
  ASSUME NEW d \in Nat, d > 0, NEW n \in Int
  PROVE  IsMultiple(n, d) <=> n % d = 0
<1>1. ASSUME NEW k \in Int, n = d * k PROVE n % d = 0
  <2>1. n = d * k + 0
    BY <1>1
  <2>2. 0 \in 0 .. d - 1
    OBVIOUS
  <2>3. QED
    BY <2>1, <2>2, OnlyQuotient
<1>2. ASSUME n % d = 0 PROVE IsMultiple(n, d)
  BY <1>2, QuotientAndRemainder DEF IsMultiple
<1>3. QED
  BY <1>1, <1>2 DEF IsMultiple

(***************************************************************************)
(* Multiples of a number are closed under sums and products.               *)
(***************************************************************************)
LEMMA MultipleSum ==
  ASSUME NEW d \in Int, NEW m \in Int, NEW n \in Int, IsMultiple(m, d), IsMultiple(n, d)
  PROVE  IsMultiple(m + n, d) /\ IsMultiple(m - n, d)
<1>1. PICK j \in Int, k \in Int : m = d * j /\ n = d * k
  BY DEF IsMultiple
<1>2. m + n = d * (j + k) /\ m - n = d * (j - k) /\ j + k \in Int /\ j - k \in Int
  BY <1>1
<1>3. QED
  BY <1>2 DEF IsMultiple

LEMMA MultipleProduct ==
  ASSUME NEW d \in Int, NEW m \in Int, NEW n \in Int, IsMultiple(m, d)
  PROVE  IsMultiple(m * n, d) /\ IsMultiple(n * m, d)
<1>1. PICK j \in Int : m = d * j
  BY DEF IsMultiple
<1>2. m * n = d * (j * n) /\ n * m = d * (j * n) /\ j * n \in Int
  BY <1>1
<1>3. QED
  BY <1>2 DEF IsMultiple

-----------------------------------------------------------------------------
(* Loops.                                                                  *)

(***************************************************************************)
(* What a loop returns from each state of D: it goes on to the next state  *)
(* until it stops.                                                         *)
(***************************************************************************)
Returns(f, D, stop, out, next) ==
  f = [v \in D |-> IF v \in stop THEN out[v] ELSE f[next[v]]]

\* The measure falls with every turn.
IsLoop(D, R, stop, out, next, m) ==
  /\ out \in [D -> R] /\ next \in [D -> D] /\ m \in [D -> Nat]
  /\ \A v \in D : v \notin stop => m[next[v]] < m[v]

(***************************************************************************)
(* A loop whose measure falls with every turn returns from every state     *)
(* (the loops of euclid_gcd and extended_euclid).                          *)
(***************************************************************************)
LEMMA LoopReturns ==
  ASSUME NEW D, NEW R, NEW stop, NEW out, NEW next, NEW m, IsLoop(D, R, stop, out, next, m)
  PROVE  \E f \in [D -> R] :
           /\ Returns(f, D, stop, out, next)
           /\ \A g : Returns(g, D, stop, out, next) => g = f
<1> USE DEF IsLoop
<1> DEFINE Obeys(f, n) ==
             \A v \in D : m[v] < n => f[v] = IF v \in stop THEN out[v] ELSE f[next[v]]
           Upto(f, n) == f \in [D -> R] /\ Obeys(f, n)
           S == {n \in Nat : \E f : Upto(f, n)}
<1>1. 0 \in S
  <2>1. Upto(out, 0)
    OBVIOUS
  <2>2. QED
    BY <2>1
<1>2. ASSUME NEW n \in Nat, n \in S PROVE n + 1 \in S
  <2>1. PICK f : Upto(f, n)
    BY <1>2
  <2> DEFINE g == [v \in D |-> IF m[v] < n THEN f[v]
                              ELSE IF v \in stop THEN out[v] ELSE f[next[v]]]
  <2>2. g \in [D -> R]
    BY <2>1
  <2>3. ASSUME NEW v \in D, m[v] < n + 1
        PROVE  g[v] = IF v \in stop THEN out[v] ELSE g[next[v]]
    <3>1. CASE v \in stop
      BY <2>1, <3>1
    <3>2. CASE v \notin stop
      <4>1. next[v] \in D /\ m[next[v]] < m[v] /\ m[v] \in Nat /\ m[next[v]] \in Nat
        BY <3>2
      <4>2. m[next[v]] < n
        BY <2>3, <4>1
      <4>3. g[next[v]] = f[next[v]]
        BY <4>1, <4>2
      <4>4. g[v] = f[next[v]]
        BY <2>1, <3>2
      <4>5. QED
        BY <3>2, <4>3, <4>4
    <3>3. QED
      BY <3>1, <3>2
  <2> HIDE DEF g
  <2>4. Upto(g, n + 1)
    BY <2>2, <2>3
  <2>5. QED
    BY <2>4
<1>3. \A n \in Nat : \E f : Upto(f, n)
  BY <1>1, <1>2, SetInduction
<1> HIDE DEF S
<1>4. ASSUME NEW a \in Nat, NEW b \in Nat, NEW f, NEW g, Obeys(f, a), Obeys(g, b)
      PROVE  \A v \in D : m[v] < a /\ m[v] < b => f[v] = g[v]
  <2> DEFINE T == {n \in Nat : \A v \in D : m[v] < n /\ m[v] < a /\ m[v] < b => f[v] = g[v]}
  <2>1. 0 \in T
    OBVIOUS
  <2>2. ASSUME NEW n \in Nat, n \in T PROVE n + 1 \in T
    <3>1. ASSUME NEW v \in D, m[v] < n + 1, m[v] < a, m[v] < b PROVE f[v] = g[v]
      <4>1. CASE v \in stop
        BY <1>4, <3>1, <4>1
      <4>2. CASE v \notin stop
        <5>1. next[v] \in D /\ m[next[v]] < m[v] /\ m[v] \in Nat /\ m[next[v]] \in Nat
          BY <4>2
        <5>2. m[next[v]] < n /\ m[next[v]] < a /\ m[next[v]] < b
          BY <3>1, <5>1
        <5>3. f[next[v]] = g[next[v]]
          BY <2>2, <5>1, <5>2
        <5>4. f[v] = f[next[v]] /\ g[v] = g[next[v]]
          BY <1>4, <3>1, <4>2
        <5>5. QED
          BY <5>3, <5>4
      <4>3. QED
        BY <4>1, <4>2
    <3>2. QED
      BY <3>1
  <2>3. Nat \subseteq T
    BY <2>1, <2>2, SetInduction
  <2> HIDE DEF Obeys
  <2>4. ASSUME NEW v \in D, m[v] < a, m[v] < b PROVE f[v] = g[v]
    <3>1. m[v] + 1 \in T /\ m[v] < m[v] + 1
      BY <2>3
    <3>2. QED
      BY <2>4, <3>1
  <2>5. QED
    BY <2>4
<1> DEFINE level == [n \in Nat |-> CHOOSE f : Upto(f, n)]
           h == [v \in D |-> level[m[v] + 1][v]]
<1>5. \A n \in Nat : Upto(level[n], n)
  BY <1>3
<1> HIDE DEF level
<1>6. h \in [D -> R]
  <2>1. ASSUME NEW v \in D PROVE h[v] \in R
    <3>1. m[v] + 1 \in Nat
      OBVIOUS
    <3>2. QED
      BY <1>5, <3>1
  <2>2. QED
    BY <2>1
<1>7. ASSUME NEW v \in D
      PROVE  h[v] = IF v \in stop THEN out[v] ELSE h[next[v]]
  <2>1. m[v] \in Nat /\ m[v] + 1 \in Nat /\ m[v] < m[v] + 1 /\ Upto(level[m[v] + 1], m[v] + 1)
    BY <1>5
  <2>2. h[v] = IF v \in stop THEN out[v] ELSE level[m[v] + 1][next[v]]
    BY <2>1
  <2>3. ASSUME v \notin stop PROVE level[m[v] + 1][next[v]] = h[next[v]]
    <3>1. next[v] \in D /\ m[next[v]] < m[v] /\ m[next[v]] \in Nat
      BY <2>3
    <3>2. /\ m[next[v]] + 1 \in Nat /\ Upto(level[m[next[v]] + 1], m[next[v]] + 1)
          /\ m[next[v]] < m[next[v]] + 1 /\ m[next[v]] < m[v] + 1
      BY <1>5, <2>1, <3>1
    <3> HIDE DEF Obeys
    <3>3. level[m[v] + 1][next[v]] = level[m[next[v]] + 1][next[v]]
      BY <1>4, <2>1, <3>1, <3>2
    <3>4. QED
      BY <3>1, <3>3
  <2>4. QED
    BY <2>2, <2>3
<1>8. h = [v \in D |-> h[v]]
  OBVIOUS
<1> HIDE DEF h
<1>9. Returns(h, D, stop, out, next)
  BY <1>7, <1>8 DEF Returns
<1>10. ASSUME NEW g, Returns(g, D, stop, out, next) PROVE g = h
  <2>1. g = [v \in D |-> g[v]]
    BY <1>10 DEF Returns
  <2>2. \A n \in Nat : Obeys(g, n) /\ Obeys(h, n)
    BY <1>7, <1>10 DEF Returns
  <2>3. ASSUME NEW v \in D PROVE g[v] = h[v]
    <3>1. m[v] \in Nat /\ m[v] + 1 \in Nat /\ m[v] < m[v] + 1
      OBVIOUS
    <3> HIDE DEF Obeys
    <3>2. QED
      BY <1>4, <2>2, <3>1
  <2>4. QED
    BY <1>8, <2>1, <2>3
<1>11. QED
  BY <1>6, <1>9, <1>10

-----------------------------------------------------------------------------
(* The greatest common divisor.                                            *)

(***************************************************************************)
(* euclid_gcd turn by turn.                                                *)
(***************************************************************************)
LEMMA EuclidTurn ==
  ASSUME NEW x \in Nat, NEW y \in Nat
  PROVE  /\ EuclidGcd(x, y) \in Nat
         /\ EuclidGcd(x, y) = IF y = 0 THEN x ELSE EuclidGcd(y, x % y)
<1> DEFINE D == Nat \X Nat
           stop == {v \in D : v[2] = 0}
           out == [v \in D |-> v[1]]
           next == [v \in D |-> IF v[2] = 0 THEN v ELSE <<v[2], v[1] % v[2]>>]
           m == [v \in D |-> v[2]]
           IsGcd(f) == f = [v \in D |-> IF v[2] = 0 THEN v[1] ELSE f[<<v[2], v[1] % v[2]>>]]
           gcd == CHOOSE f : IsGcd(f)
<1>1. \A v \in D : v[2] # 0 => v[1] % v[2] \in 0 .. v[2] - 1
  <2>1. ASSUME NEW v \in D, v[2] # 0 PROVE v[1] % v[2] \in 0 .. v[2] - 1
    <3> DEFINE a == v[1]
               b == v[2]
    <3>1. a \in Int /\ b \in Nat /\ b > 0
      BY <2>1
    <3> HIDE DEF a, b
    <3>2. a % b \in 0 .. b - 1
      BY <3>1, QuotientAndRemainder
    <3>3. QED
      BY <3>2 DEF a, b
  <2>2. QED
    BY <2>1
<1>2. IsLoop(D, Nat, stop, out, next, m)
  <2>1. out \in [D -> Nat] /\ m \in [D -> Nat]
    OBVIOUS
  <2>2. ASSUME NEW v \in D
        PROVE  next[v] \in D /\ (v \notin stop => m[next[v]] < m[v])
    <3>1. CASE v[2] = 0
      BY <3>1
    <3>2. CASE v[2] # 0
      <4> DEFINE r == v[1] % v[2]
      <4>1. r \in 0 .. v[2] - 1 /\ v[2] \in Nat
        BY <1>1, <3>2
      <4> HIDE DEF r
      <4>2. <<v[2], r>> \in D /\ m[<<v[2], r>>] = r /\ r < v[2] /\ m[v] = v[2]
        BY <4>1
      <4>3. next[v] = <<v[2], r>>
        BY <3>2 DEF r
      <4> HIDE DEF next, m
      <4>4. QED
        BY <4>2, <4>3
    <3>3. QED
      BY <3>1, <3>2
  <2>3. next \in [D -> D]
    BY <2>2
  <2> HIDE DEF next, m
  <2>4. QED
    BY <2>1, <2>2, <2>3 DEF IsLoop
<1>3. \A f : IsGcd(f) <=> Returns(f, D, stop, out, next)
  <2>1. ASSUME NEW f
        PROVE  [v \in D |-> IF v[2] = 0 THEN v[1] ELSE f[<<v[2], v[1] % v[2]>>]]
                 = [v \in D |-> IF v \in stop THEN out[v] ELSE f[next[v]]]
    OBVIOUS
  <2>2. QED
    BY <2>1 DEF Returns
<1>4. PICK h \in [D -> Nat] : IsGcd(h) /\ \A g : IsGcd(g) => g = h
  <2> HIDE DEF D, stop, out, next, m, IsGcd
  <2>1. PICK f \in [D -> Nat] :
          Returns(f, D, stop, out, next) /\ \A g : Returns(g, D, stop, out, next) => g = f
    BY <1>2, LoopReturns
  <2>2. QED
    BY <1>3, <2>1
<1>5. IsGcd(gcd) /\ gcd = h
  <2> HIDE DEF IsGcd
  <2>1. QED
    BY <1>4
<1>6. \A a, b : EuclidGcd(a, b) = gcd[<<a, b>>]
  BY DEF EuclidGcd
<1> HIDE DEF gcd
<1>7. gcd[<<x, y>>] \in Nat
  BY <1>4, <1>5
<1>8. gcd[<<x, y>>] = IF y = 0 THEN x ELSE gcd[<<y, x % y>>]
  <2>1. <<x, y>> \in D /\ <<x, y>>[1] = x /\ <<x, y>>[2] = y
    OBVIOUS
  <2>2. QED
    BY <1>5, <2>1
<1>9. QED
  BY <1>6, <1>7, <1>8

(***************************************************************************)
(* It returns a common divisor, which is not 0.                            *)
(***************************************************************************)
LEMMA GcdDivides ==
  \A x, y \in Nat :
    x > 0 => /\ EuclidGcd(x, y) \in Nat \ {0}
             /\ IsMultiple(x, EuclidGcd(x, y)) /\ IsMultiple(y, EuclidGcd(x, y))
<1> DEFINE Divisor(g, x, y) == g \in Nat \ {0} /\ IsMultiple(x, g) /\ IsMultiple(y, g)
           S == {n \in Nat : \A x, y \in Nat : y < n /\ x > 0 => Divisor(EuclidGcd(x, y), x, y)}
<1>1. 0 \in S
  OBVIOUS
<1>2. ASSUME NEW n \in Nat, n \in S PROVE n + 1 \in S
  <2>1. ASSUME NEW x \in Nat, NEW y \in Nat, y < n + 1, x > 0
        PROVE  Divisor(EuclidGcd(x, y), x, y)
    <3>1. CASE y = 0
      <4>1. EuclidGcd(x, y) = x
        BY <3>1, EuclidTurn
      <4>2. x = x * 1 /\ y = x * 0
        BY <3>1
      <4>3. IsMultiple(x, x) /\ IsMultiple(y, x)
        BY <4>2 DEF IsMultiple
      <4>4. QED
        BY <2>1, <4>1, <4>3
    <3>2. CASE y # 0
      <4> DEFINE r == x % y
                 q == x \div y
                 g == EuclidGcd(y, r)
      <4>1. y > 0
        BY <3>2
      <4>2. x = y * q + r /\ q \in Int /\ r \in 0 .. y - 1
        BY <4>1, QuotientAndRemainder
      <4>3. EuclidGcd(x, y) = g
        BY <3>2, EuclidTurn
      <4> HIDE DEF r, q
      <4>4. r \in Nat /\ r < n
        BY <2>1, <4>2
      <4>5. Divisor(g, y, r)
        BY <1>2, <4>1, <4>4
      <4> HIDE DEF g
      <4>6. y * q \in Int /\ y \in Int /\ r \in Int /\ g \in Int /\ IsMultiple(y, g)
        BY <4>2, <4>5
      <4>7. IsMultiple(y * q, g)
        BY <4>2, <4>6, MultipleProduct
      <4>8. IsMultiple(y * q + r, g)
        BY <4>5, <4>6, <4>7, MultipleSum
      <4>9. QED
        BY <4>2, <4>3, <4>5, <4>8
    <3>3. QED
      BY <3>1, <3>2
  <2> HIDE DEF Divisor
  <2>2. QED
    BY <2>1
<1>3. Nat \subseteq S
  BY <1>1, <1>2, SetInduction
<1>4. ASSUME NEW x \in Nat, NEW y \in Nat, x > 0 PROVE Divisor(EuclidGcd(x, y), x, y)
  <2>1. y + 1 \in Nat /\ y < y + 1
    OBVIOUS
  <2>2. y + 1 \in S
    BY <1>3, <2>1
  <2> HIDE DEF Divisor
  <2>3. QED
    BY <1>4, <2>1, <2>2
<1>5. QED
  BY <1>4

-----------------------------------------------------------------------------
(* The coefficients.                                                       *)

\* The variables of extended_euclid.
Coefficients == [s : Int, oldS : Int, t : Int, oldT : Int, r : Nat, oldR : Nat]

(***************************************************************************)
(* A turn of extended_euclid takes the remainder, as euclid_gcd does.      *)
(***************************************************************************)
LEMMA ExtendedTurn ==
  ASSUME NEW v \in Coefficients, v.r # 0
  PROVE  LET w == EuclidStep(v)
             q == v.oldR \div v.r
         IN /\ w \in Coefficients /\ q \in Int
            /\ w.r = v.oldR % v.r /\ w.r < v.r /\ w.oldR = v.r
            /\ w.r = v.oldR - q * v.r
            /\ w.s = v.oldS - q * v.s /\ w.oldS = v.s
            /\ w.t = v.oldT - q * v.t /\ w.oldT = v.t
<1> DEFINE a == v.oldR
           b == v.r
           q == a \div b
           w == EuclidStep(v)
<1>1. /\ a \in Nat /\ b \in Nat /\ b > 0
      /\ v.s \in Int /\ v.t \in Int /\ v.oldS \in Int /\ v.oldT \in Int
  BY DEF Coefficients
<1>2. a = b * q + (a % b) /\ q \in Int /\ a % b \in 0 .. b - 1
  <2> HIDE DEF a, b
  <2>1. QED
    BY <1>1, QuotientAndRemainder
<1>3. w = [s |-> v.oldS - q * v.s, oldS |-> v.s, t |-> v.oldT - q * v.t, oldT |-> v.t,
           r |-> a - q * b, oldR |-> b]
  BY DEF EuclidStep
<1> HIDE DEF a, b, q, w
<1>4. q * b = b * q /\ b * q \in Int /\ q * v.s \in Int /\ q * v.t \in Int
  BY <1>1, <1>2
<1>5. a - q * b = a % b /\ a - q * b \in Nat /\ a - q * b < b
  BY <1>1, <1>2, <1>4
<1>6. /\ w.s = v.oldS - q * v.s /\ w.oldS = v.s /\ w.t = v.oldT - q * v.t /\ w.oldT = v.t
      /\ w.r = a - q * b /\ w.oldR = b
  BY <1>3
<1>7. w \in Coefficients
  <2>1. v.oldS - q * v.s \in Int /\ v.oldT - q * v.t \in Int
    BY <1>1, <1>4
  <2>2. QED
    BY <1>1, <1>3, <1>5, <2>1 DEF Coefficients
<1>8. QED
  BY <1>2, <1>5, <1>6, <1>7 DEF a, b, q, w

(***************************************************************************)
(* The loop of extended_euclid.                                            *)
(***************************************************************************)
LEMMA ExtendedLoop ==
  \E f \in [Coefficients -> Int \X Int] :
    /\ \A v \in Coefficients :
         f[v] = IF v.r = 0 THEN <<v.oldS, v.oldT>> ELSE f[EuclidStep(v)]
    /\ \A a, b : ExtendedEuclid(a, b) =
                   f[[s |-> 0, oldS |-> 1, t |-> 1, oldT |-> 0, r |-> b, oldR |-> a]]
<1> DEFINE D == Coefficients
           stop == {v \in D : v.r = 0}
           out == [v \in D |-> <<v.oldS, v.oldT>>]
           next == [v \in D |-> IF v.r = 0 THEN v ELSE EuclidStep(v)]
           m == [v \in D |-> v.r]
           IsExtended(f) == f = [v \in D |-> IF v.r = 0 THEN <<v.oldS, v.oldT>>
                                            ELSE f[EuclidStep(v)]]
           loop == CHOOSE f : IsExtended(f)
<1>1. IsLoop(D, Int \X Int, stop, out, next, m)
  <2>1. out \in [D -> Int \X Int] /\ m \in [D -> Nat]
    BY DEF Coefficients
  <2>2. ASSUME NEW v \in D
        PROVE  next[v] \in D /\ (v \notin stop => m[next[v]] < m[v])
    <3>1. CASE v.r = 0
      BY <3>1
    <3>2. CASE v.r # 0
      <4> DEFINE w == EuclidStep(v)
      <4>1. w \in D /\ w.r < v.r
        BY <3>2, ExtendedTurn
      <4>2. next[v] = w
        BY <3>2
      <4> HIDE DEF w
      <4>3. m[w] = w.r /\ m[v] = v.r
        BY <4>1
      <4> HIDE DEF next, m
      <4>4. QED
        BY <4>1, <4>2, <4>3
    <3>3. QED
      BY <3>1, <3>2
  <2>3. next \in [D -> D]
    BY <2>2
  <2> HIDE DEF next, m
  <2>4. QED
    BY <2>1, <2>2, <2>3 DEF IsLoop
<1>2. \A f : IsExtended(f) <=> Returns(f, D, stop, out, next)
  <2>1. ASSUME NEW f
        PROVE  [v \in D |-> IF v.r = 0 THEN <<v.oldS, v.oldT>> ELSE f[EuclidStep(v)]]
                 = [v \in D |-> IF v \in stop THEN out[v] ELSE f[next[v]]]
    OBVIOUS
  <2>2. QED
    BY <2>1 DEF Returns
<1>3. PICK h \in [D -> Int \X Int] : IsExtended(h) /\ \A g : IsExtended(g) => g = h
  <2> HIDE DEF D, stop, out, next, m, IsExtended
  <2>1. PICK f \in [D -> Int \X Int] :
          Returns(f, D, stop, out, next) /\ \A g : Returns(g, D, stop, out, next) => g = f
    BY <1>1, LoopReturns
  <2>2. QED
    BY <1>2, <2>1
<1>4. IsExtended(loop) /\ loop = h
  <2> HIDE DEF IsExtended
  <2>1. QED
    BY <1>3
<1>5. \A a, b : ExtendedEuclid(a, b) =
                 loop[[s |-> 0, oldS |-> 1, t |-> 1, oldT |-> 0, r |-> b, oldR |-> a]]
  BY DEF ExtendedEuclid, Coefficients
<1> HIDE DEF loop
<1>6. \A v \in D : loop[v] = IF v.r = 0 THEN <<v.oldS, v.oldT>> ELSE loop[EuclidStep(v)]
  BY <1>4
<1>7. loop \in [D -> Int \X Int]
  BY <1>3, <1>4
<1>8. QED
  BY <1>5, <1>6, <1>7

IsSum(a, b, x, y, n) == a * x + b * y = n

(***************************************************************************)
(* A turn keeps the sums that the coefficients make.                       *)
(***************************************************************************)
LEMMA SumKept ==
  ASSUME NEW a \in Int, NEW b \in Int, NEW q \in Int,
         NEW s \in Int, NEW oldS \in Int, NEW t \in Int, NEW oldT \in Int,
         NEW r \in Int, NEW oldR \in Int,
         IsSum(a, b, oldS, oldT, oldR), IsSum(a, b, s, t, r)
  PROVE  IsSum(a, b, oldS - q * s, oldT - q * t, oldR - q * r)
<1>1. /\ a * (oldS - q * s) = a * oldS - q * (a * s)
      /\ b * (oldT - q * t) = b * oldT - q * (b * t)
      /\ q * (a * s + b * t) = q * (a * s) + q * (b * t)
      /\ a * oldS \in Int /\ b * oldT \in Int /\ q * (a * s) \in Int /\ q * (b * t) \in Int
  OBVIOUS
<1>2. QED
  BY <1>1 DEF IsSum

(***************************************************************************)
(* extended_euclid returns the coefficients of its arguments in the sum    *)
(* that makes their greatest common divisor.                               *)
(***************************************************************************)
LEMMA BezoutCoefficients ==
  ASSUME NEW a \in Nat, NEW b \in Nat
  PROVE  LET xy == ExtendedEuclid(a, b)
         IN /\ xy[1] \in Int /\ xy[2] \in Int
            /\ a * xy[1] + b * xy[2] = EuclidGcd(a, b)
<1>1. PICK f \in [Coefficients -> Int \X Int] :
        /\ \A v \in Coefficients :
             f[v] = IF v.r = 0 THEN <<v.oldS, v.oldT>> ELSE f[EuclidStep(v)]
        /\ \A x, y : ExtendedEuclid(x, y) =
                       f[[s |-> 0, oldS |-> 1, t |-> 1, oldT |-> 0, r |-> y, oldR |-> x]]
  BY ExtendedLoop
<1> DEFINE Sums(v) == IsSum(a, b, v.oldS, v.oldT, v.oldR) /\ IsSum(a, b, v.s, v.t, v.r)
           Makes(v) == IsSum(a, b, f[v][1], f[v][2], EuclidGcd(v.oldR, v.r))
           S == {n \in Nat : \A v \in Coefficients : v.r < n /\ Sums(v) => Makes(v)}
<1>2. 0 \in S
  BY DEF Coefficients
<1>3. ASSUME NEW n \in Nat, n \in S PROVE n + 1 \in S
  <2>1. ASSUME NEW v \in Coefficients, v.r < n + 1, Sums(v) PROVE Makes(v)
    <3>1. v.r \in Nat /\ v.oldR \in Nat
      BY DEF Coefficients
    <3>2. CASE v.r = 0
      <4>1. f[v] = <<v.oldS, v.oldT>>
        BY <1>1, <3>2
      <4>2. EuclidGcd(v.oldR, v.r) = v.oldR
        BY <3>1, <3>2, EuclidTurn
      <4>3. QED
        BY <2>1, <4>1, <4>2
    <3>3. CASE v.r # 0
      <4> DEFINE w == EuclidStep(v)
                 q == v.oldR \div v.r
      <4>1. /\ w \in Coefficients /\ q \in Int
            /\ w.r = v.oldR % v.r /\ w.r < v.r /\ w.oldR = v.r
            /\ w.r = v.oldR - q * v.r
            /\ w.s = v.oldS - q * v.s /\ w.oldS = v.s
            /\ w.t = v.oldT - q * v.t /\ w.oldT = v.t
        BY <3>3, ExtendedTurn
      <4>2. f[v] = f[w]
        BY <1>1, <3>3
      <4> HIDE DEF w, q
      <4>3. /\ v.s \in Int /\ v.t \in Int /\ v.oldS \in Int /\ v.oldT \in Int
            /\ v.r \in Int /\ v.oldR \in Int /\ a \in Int /\ b \in Int /\ w.r \in Nat
        BY <4>1 DEF Coefficients
      <4>4. IsSum(a, b, v.oldS - q * v.s, v.oldT - q * v.t, v.oldR - q * v.r)
        BY <2>1, <4>1, <4>3, SumKept
      <4>5. Sums(w)
        BY <2>1, <4>1, <4>4
      <4>6. w.r < n
        BY <2>1, <4>1, <4>3
      <4>7. Makes(w)
        <5> HIDE DEF Sums, Makes
        <5>1. QED
          BY <1>3, <4>1, <4>5, <4>6
      <4>8. EuclidGcd(v.oldR, v.r) = EuclidGcd(w.oldR, w.r)
        <5>1. EuclidGcd(v.oldR, v.r) = EuclidGcd(v.r, v.oldR % v.r)
          BY <3>1, <3>3, EuclidTurn
        <5>2. QED
          BY <4>1, <5>1
      <4>9. QED
        BY <4>2, <4>7, <4>8
    <3>4. QED
      BY <3>2, <3>3
  <2> HIDE DEF Sums, Makes
  <2>2. QED
    BY <2>1
<1>4. Nat \subseteq S
  BY <1>2, <1>3, SetInduction
<1> DEFINE v == [s |-> 0, oldS |-> 1, t |-> 1, oldT |-> 0, r |-> b, oldR |-> a]
<1>5. v \in Coefficients /\ v.r = b /\ v.oldR = a
  BY DEF Coefficients
<1>6. Sums(v)
  BY DEF IsSum
<1>7. Makes(v)
  <2>1. b + 1 \in Nat /\ b < b + 1
    OBVIOUS
  <2>2. b + 1 \in S
    BY <1>4, <2>1
  <2> HIDE DEF Sums, Makes, v
  <2>3. QED
    BY <1>5, <1>6, <2>1, <2>2
<1>8. f[v] \in Int \X Int /\ ExtendedEuclid(a, b) = f[v]
  BY <1>1, <1>5
<1> HIDE DEF v
<1>9. QED
  BY <1>5, <1>7, <1>8 DEF IsSum

-----------------------------------------------------------------------------
(* The common points of two progressions.                                  *)

IsProgression(p) ==
  /\ p.low \in Nat /\ p.high \in Nat /\ p.stride \in Nat
  /\ p.low <= p.high /\ p.high < H /\ p.stride > 0

(***************************************************************************)
(* A progression has the points of its range that are whole strides from   *)
(* its low end.                                                            *)
(***************************************************************************)
LEMMA WholeStrides ==
  ASSUME NEW p, IsProgression(p)
  PROVE  Points(p) = {x \in p.low .. p.high : IsMultiple(x - p.low, p.stride)}
<1> DEFINE s == p.stride
           n == p.high - p.low
           q == n \div s
<1>1. s \in Nat /\ s > 0 /\ n \in Nat /\ p.low \in Nat /\ p.high \in Nat /\ p.high = p.low + n
  BY DEF IsProgression
<1>2. q \in Int /\ n = s * q + (n % s) /\ n % s \in 0 .. s - 1
  <2> HIDE DEF s, n
  <2>1. QED
    BY <1>1, QuotientAndRemainder
<1>3. Points(p) = {p.low + k * s : k \in 0 .. q}
  BY DEF Points
<1> HIDE DEF s, n, q
<1>4. ASSUME NEW k \in 0 .. q
      PROVE  p.low + k * s \in p.low .. p.high /\ IsMultiple((p.low + k * s) - p.low, s)
  <2>1. k * s = s * k /\ s * k \in Nat /\ s * q \in Int
    BY <1>1, <1>2
  <2>2. s * k <= s * q
    BY <1>1, <1>2
  <2>3. (p.low + k * s) - p.low = s * k /\ k \in Int
    BY <1>1, <2>1
  <2>4. p.low + k * s \in p.low .. p.high
    BY <1>1, <1>2, <2>1, <2>2
  <2>5. QED
    BY <2>3, <2>4 DEF IsMultiple
<1>5. ASSUME NEW x \in p.low .. p.high, NEW k \in Int, x - p.low = s * k
      PROVE  x = p.low + k * s /\ k \in 0 .. q
  <2>1. s * k \in 0 .. n /\ k * s = s * k /\ s * q \in Int
    BY <1>1, <1>2, <1>5
  <2>2. k >= 0
    <3>1. ASSUME k <= -1 PROVE FALSE
      <4>1. s * k <= s * (-1)
        BY <1>1, <3>1
      <4>2. QED
        BY <1>1, <2>1, <4>1
    <3>2. QED
      BY <3>1
  <2>3. k <= q
    <3>1. ASSUME k >= q + 1 PROVE FALSE
      <4>1. s * k >= s * (q + 1) /\ s * (q + 1) = s * q + s
        BY <1>1, <1>2, <3>1
      <4>2. QED
        BY <1>1, <1>2, <2>1, <4>1
    <3>2. QED
      BY <1>2, <3>1
  <2>4. QED
    BY <1>1, <1>2, <1>5, <2>1, <2>2, <2>3
<1>6. QED
  BY <1>3, <1>4, <1>5 DEF s, IsMultiple

(***************************************************************************)
(* euclid_lcm returns the least common multiple of numbers whose product   *)
(* fits into a word: all common multiples are multiples of it.             *)
(***************************************************************************)
LEMMA LcmDivides ==
  ASSUME NEW a \in Nat, NEW b \in Nat, a > 0, b > 0, a * b < M
  PROVE  /\ EuclidLcm(a, b) \in Nat \ {0}
         /\ a * b = EuclidGcd(a, b) * EuclidLcm(a, b)
         /\ EuclidLcm(a, b) <= a * b
         /\ \A n \in Int : IsMultiple(n, EuclidLcm(a, b)) <=> IsMultiple(n, a) /\ IsMultiple(n, b)
<1> DEFINE g == EuclidGcd(a, b)
           lcm == EuclidLcm(a, b)
           x == ExtendedEuclid(a, b)[1]
           y == ExtendedEuclid(a, b)[2]
<1>1. g \in Nat /\ g > 0 /\ IsMultiple(a, g) /\ IsMultiple(b, g)
  BY GcdDivides
<1>2. x \in Int /\ y \in Int /\ a * x + b * y = g
  BY BezoutCoefficients
<1>3. Wrap(a * b) = a * b /\ lcm = Wrap(a * b) \div g
  <2>1. a * b \in Nat /\ a * b \in Word
    BY HAssumption DEF Word, M
  <2>2. QED
    BY <2>1, WrapIdentity DEF EuclidLcm
<1> HIDE DEF g, lcm, x, y
<1>4. PICK c \in Int, d \in Int : a = g * c /\ b = g * d
  BY <1>1 DEF IsMultiple
<1>5. a * b = g * (c * b) /\ c * b \in Int /\ a * b = g * (a * d) /\ a * d \in Int
  BY <1>1, <1>4
<1>6. lcm = c * b
  <2>1. a * b = g * (c * b) + 0 /\ 0 \in 0 .. g - 1 /\ a * b \in Int
    BY <1>1, <1>5
  <2>2. QED
    BY <1>1, <1>3, <1>5, <2>1, OnlyQuotient
<1>7. lcm = a * d
  BY <1>1, <1>5, <1>6
<1>8. a * b = g * lcm /\ lcm \in Int
  BY <1>5, <1>6
<1>9. lcm > 0
  <2>1. a * b > 0
    OBVIOUS
  <2>2. QED
    BY <1>1, <1>8, <2>1
<1>10. lcm <= a * b
  BY <1>1, <1>8, <1>9
<1>11. ASSUME NEW n \in Int, IsMultiple(n, lcm) PROVE IsMultiple(n, a) /\ IsMultiple(n, b)
  <2>1. PICK k \in Int : n = lcm * k
    BY <1>11 DEF IsMultiple
  <2>2. n = a * (d * k) /\ n = b * (c * k) /\ d * k \in Int /\ c * k \in Int
    BY <1>4, <1>6, <1>7, <2>1
  <2>3. QED
    BY <2>2 DEF IsMultiple
<1>12. ASSUME NEW n \in Int, NEW u \in Int, NEW w \in Int, n = a * u, n = b * w
       PROVE  n = lcm * (x * w + y * u)
  <2>1. g * n = (a * x) * n + (b * y) * n
    BY <1>2
  <2>2. (a * x) * n = (a * b) * (x * w) /\ (b * y) * n = (a * b) * (y * u)
    <3>1. (a * x) * (b * w) = (a * b) * (x * w) /\ (b * y) * (a * u) = (a * b) * (y * u)
      BY <1>2
    <3>2. QED
      BY <1>12, <3>1
  <2>3. g * n = (a * b) * (x * w + y * u)
    <3>1. (a * b) * (x * w + y * u) = (a * b) * (x * w) + (a * b) * (y * u)
      BY <1>2
    <3>2. QED
      BY <2>1, <2>2, <3>1
  <2>4. g * n = g * (lcm * (x * w + y * u)) /\ x * w + y * u \in Int
    <3>1. (g * lcm) * (x * w + y * u) = g * (lcm * (x * w + y * u)) /\ x * w + y * u \in Int
      BY <1>1, <1>2, <1>8
    <3>2. QED
      BY <1>8, <2>3, <3>1
  <2>5. QED
    BY <1>1, <1>8, <2>4
<1>13. ASSUME NEW n \in Int, IsMultiple(n, a), IsMultiple(n, b) PROVE IsMultiple(n, lcm)
  <2>1. PICK u \in Int, w \in Int : n = a * u /\ n = b * w
    BY <1>13 DEF IsMultiple
  <2>2. x * w + y * u \in Int
    BY <1>2
  <2>3. QED
    BY <1>12, <2>1, <2>2 DEF IsMultiple
<1>14. QED
  BY <1>8, <1>9, <1>10, <1>11, <1>13 DEF g, lcm

(***************************************************************************)
(* Adding a multiple does not change a remainder.                          *)
(***************************************************************************)
LEMMA RemainderShift ==
  ASSUME NEW d \in Nat, d > 0, NEW n \in Int, NEW k \in Int
  PROVE  (n + d * k) % d = n % d
<1> DEFINE q == n \div d
           r == n % d
<1>1. n = d * q + r /\ q \in Int /\ r \in 0 .. d - 1
  BY QuotientAndRemainder
<1> HIDE DEF q, r
<1>2. n + d * k = d * (q + k) + r /\ q + k \in Int /\ n + d * k \in Int
  <2>1. d * (q + k) = d * q + d * k /\ d * q \in Int /\ d * k \in Int
    BY <1>1
  <2>2. QED
    BY <1>1, <2>1
<1>3. QED
  BY <1>1, <1>2, OnlyQuotient DEF r

(***************************************************************************)
(* delta is the distance from low2 to the next point of the first          *)
(* progression.                                                            *)
(***************************************************************************)
Delta(a, distance) == (a - (distance % a)) % a

LEMMA DeltaReaches ==
  ASSUME NEW a \in Nat, a > 0, NEW distance \in Nat
  PROVE  Delta(a, distance) \in 0 .. a - 1 /\ IsMultiple(distance + Delta(a, distance), a)
<1> DEFINE r == distance % a
           q == distance \div a
           delta == (a - r) % a
           c == (a - r) \div a
<1>1. distance = a * q + r /\ q \in Int /\ r \in 0 .. a - 1
  BY QuotientAndRemainder
<1> HIDE DEF r, q
<1>2. a - r \in Int
  BY <1>1
<1>3. a - r = a * c + delta /\ c \in Int /\ delta \in 0 .. a - 1
  BY <1>2, QuotientAndRemainder
<1>4. Delta(a, distance) = delta
  BY DEF Delta, r
<1> HIDE DEF delta, c
<1>5. distance + delta = a * (q + 1 - c) /\ q + 1 - c \in Int
  <2>1. a * (q + 1 - c) = a * q + a - a * c /\ a * q \in Int /\ a * c \in Int
    BY <1>1, <1>3
  <2>2. QED
    BY <1>1, <1>3, <2>1
<1>6. QED
  BY <1>3, <1>4, <1>5 DEF IsMultiple

(***************************************************************************)
(* The addresses low2 + j that both progressions step on: there are none   *)
(* if delta is not a multiple of the gcd, otherwise those that differ by   *)
(* multiples of lcm from the one that the coefficient leads to.            *)
(***************************************************************************)
SteppedOn(j, a, b, distance) == IsMultiple(j + distance, a) /\ IsMultiple(j, b)

LEMMA StepsApart ==
  ASSUME NEW a \in Nat, NEW b \in Nat, a > 0, b > 0, a * b < M, NEW distance \in Nat
  PROVE  LET g     == EuclidGcd(a, b)
             delta == Delta(a, distance)
             y     == ExtendedEuclid(a, b)[2]
         IN /\ delta % g # 0 => \A j \in Int : ~ SteppedOn(j, a, b, distance)
            /\ delta % g = 0 =>
                 \E K \in Int :
                   /\ g * K = (b * y) * delta
                   /\ \A j \in Int : SteppedOn(j, a, b, distance)
                                     <=> IsMultiple(j - K, EuclidLcm(a, b))
<1> DEFINE g == EuclidGcd(a, b)
           delta == Delta(a, distance)
           x == ExtendedEuclid(a, b)[1]
           y == ExtendedEuclid(a, b)[2]
           lcm == EuclidLcm(a, b)
<1>1. g \in Nat /\ g > 0 /\ IsMultiple(a, g) /\ IsMultiple(b, g)
  BY GcdDivides
<1>2. x \in Int /\ y \in Int /\ a * x + b * y = g
  BY BezoutCoefficients
<1>3. delta \in Nat /\ IsMultiple(distance + delta, a)
  BY DeltaReaches
<1>4. \A n \in Int : IsMultiple(n, lcm) <=> IsMultiple(n, a) /\ IsMultiple(n, b)
  BY LcmDivides
<1> HIDE DEF g, delta, x, y, lcm
<1>5. \A j \in Int : IsMultiple(j + distance, a) <=> IsMultiple(j - delta, a)
  <2>1. ASSUME NEW j \in Int
        PROVE  IsMultiple(j + distance, a) <=> IsMultiple(j - delta, a)
    <3>1. /\ (j + distance) - (distance + delta) = j - delta
          /\ (j - delta) + (distance + delta) = j + distance
          /\ j + distance \in Int /\ distance + delta \in Int /\ j - delta \in Int /\ a \in Int
      BY <1>3
    <3>2. IsMultiple(j + distance, a) => IsMultiple((j + distance) - (distance + delta), a)
      BY <1>3, <3>1, MultipleSum
    <3>3. IsMultiple(j - delta, a) => IsMultiple((j - delta) + (distance + delta), a)
      BY <1>3, <3>1, MultipleSum
    <3>4. QED
      BY <3>1, <3>2, <3>3
  <2>2. QED
    BY <2>1
<1>6. ASSUME NEW j \in Int, SteppedOn(j, a, b, distance) PROVE delta % g = 0
  <2>1. IsMultiple(j - delta, a) /\ IsMultiple(j, b)
    BY <1>5, <1>6 DEF SteppedOn
  <2>2. PICK u \in Int, w \in Int : j - delta = a * u /\ j = b * w
    BY <2>1 DEF IsMultiple
  <2>3. IsMultiple(a * u, g) /\ IsMultiple(b * w, g)
    <3>1. a \in Int /\ b \in Int /\ g \in Int
      BY <1>1
    <3>2. QED
      BY <1>1, <2>2, <3>1, MultipleProduct
  <2>4. IsMultiple(j, g) /\ IsMultiple(j - delta, g) /\ j - delta \in Int /\ g \in Int
    BY <1>1, <1>3, <2>2, <2>3
  <2>5. IsMultiple(j - (j - delta), g)
    BY <2>4, MultipleSum
  <2>6. j - (j - delta) = delta
    BY <1>3
  <2>7. QED
    BY <1>1, <1>3, <2>5, <2>6, MultipleRemainder
<1>7. ASSUME delta % g = 0
      PROVE  \E K \in Int :
               /\ g * K = (b * y) * delta
               /\ \A j \in Int : SteppedOn(j, a, b, distance) <=> IsMultiple(j - K, lcm)
  <2>1. PICK d \in Int : delta = g * d
    <3>1. delta \in Int /\ IsMultiple(delta, g)
      BY <1>1, <1>3, <1>7, MultipleRemainder
    <3>2. QED
      BY <3>1 DEF IsMultiple
  <2> DEFINE K == b * (y * d)
  <2>2. K \in Int /\ IsMultiple(K, b)
    <3>1. y * d \in Int
      BY <1>2, <2>1
    <3> DEFINE z == y * d
    <3> HIDE DEF z
    <3>2. z \in Int => b * z \in Int /\ IsMultiple(b * z, b)
      BY DEF IsMultiple
    <3>3. QED
      BY <3>1, <3>2 DEF z
  <2>3. g * K = (b * y) * delta
    <3>1. g * (b * (y * d)) = (b * y) * (g * d)
      BY <1>1, <1>2
    <3>2. QED
      BY <2>1, <3>1
  <2>4. K - delta = a * (-(x * d)) /\ -(x * d) \in Int
    <3>1. (a * x + b * y) * d = a * (x * d) + b * (y * d) /\ x * d \in Int /\ b * (y * d) \in Int
      BY <1>2
    <3>2. delta = a * (x * d) + b * (y * d) /\ a * (x * d) \in Int
      BY <1>2, <2>1, <3>1
    <3>3. a * (-(x * d)) = -(a * (x * d))
      BY <3>1
    <3>4. QED
      BY <3>1, <3>2, <3>3
  <2>5. IsMultiple(K - delta, a)
    BY <2>4 DEF IsMultiple
  <2> HIDE DEF K
  <2>6. ASSUME NEW j \in Int
        PROVE  SteppedOn(j, a, b, distance) <=> IsMultiple(j - K, lcm)
    <3>1. /\ j - K \in Int /\ j - delta \in Int /\ K - delta \in Int /\ a \in Int /\ b \in Int
          /\ (j - delta) - (K - delta) = j - K /\ (j - K) + (K - delta) = j - delta
          /\ (j - K) + K = j
      BY <1>3, <2>2
    <3>2. IsMultiple(j - delta, a) => IsMultiple((j - delta) - (K - delta), a)
      BY <2>5, <3>1, MultipleSum
    <3>3. IsMultiple(j - K, a) => IsMultiple((j - K) + (K - delta), a)
      BY <2>5, <3>1, MultipleSum
    <3>4. IsMultiple(j, b) => IsMultiple(j - K, b)
      BY <2>2, <3>1, MultipleSum
    <3>5. IsMultiple(j - K, b) => IsMultiple((j - K) + K, b)
      BY <2>2, <3>1, MultipleSum
    <3>6. IsMultiple(j - K, lcm) <=> IsMultiple(j - K, a) /\ IsMultiple(j - K, b)
      BY <1>4, <3>1
    <3>7. SteppedOn(j, a, b, distance) <=> IsMultiple(j - delta, a) /\ IsMultiple(j, b)
      BY <1>5 DEF SteppedOn
    <3>8. QED
      BY <3>1, <3>2, <3>3, <3>4, <3>5, <3>6, <3>7
  <2>7. QED
    BY <2>2, <2>3, <2>6
<1>8. QED
  BY <1>6, <1>7 DEF g, delta, y, lcm

-----------------------------------------------------------------------------
(* Unsigned arithmetic.                                                    *)

(***************************************************************************)
(* A word differs from what was wrapped by a multiple of the number of     *)
(* words, which wrapping does not see.                                     *)
(***************************************************************************)
LEMMA WrapMultiple ==
  /\ M \in Nat /\ M > 0
  /\ \A x \in Int : \E c \in Int : Wrap(x) = x - M * c /\ Wrap(x) \in 0 .. M - 1
  /\ \A x, c \in Int : Wrap(x + M * c) = Wrap(x)
<1>1. M \in Nat /\ M > 0
  BY HAssumption DEF M
<1>2. ASSUME NEW x \in Int
      PROVE  \E c \in Int : Wrap(x) = x - M * c /\ Wrap(x) \in 0 .. M - 1
  <2>1. x = M * (x \div M) + (x % M) /\ x \div M \in Int /\ x % M \in 0 .. M - 1
    BY <1>1, QuotientAndRemainder
  <2> DEFINE c == x \div M
             r == x % M
  <2> HIDE DEF c, r
  <2>2. x = M * c + r /\ c \in Int /\ r \in 0 .. M - 1 /\ M * c \in Int
    BY <1>1, <2>1 DEF c, r
  <2>3. r = x - M * c
    BY <2>2
  <2>4. QED
    BY <2>2, <2>3 DEF Wrap, r
<1>3. ASSUME NEW x \in Int, NEW c \in Int PROVE Wrap(x + M * c) = Wrap(x)
  BY <1>1, RemainderShift DEF Wrap
<1>4. QED
  BY <1>1, <1>2, <1>3

(***************************************************************************)
(* Wrapping in the middle of a product changes nothing.                    *)
(***************************************************************************)
LEMMA WrapProduct ==
  ASSUME NEW x \in Int, NEW y \in Int
  PROVE  Wrap(Wrap(x) * y) = Wrap(x * y) /\ Wrap(y * Wrap(x)) = Wrap(y * x)
<1>1. M \in Nat
  BY WrapMultiple
<1>2. PICK c \in Int : Wrap(x) = x - M * c
  BY WrapMultiple
<1>3. Wrap(x) * y = x * y + M * (-(c * y)) /\ -(c * y) \in Int /\ x * y \in Int
  <2>1. (x - M * c) * y = x * y + M * (-(c * y))
    BY <1>1
  <2>2. QED
    BY <1>2, <2>1
<1>4. Wrap(Wrap(x) * y) = Wrap(x * y)
  <2> DEFINE n == x * y
             d == -(c * y)
  <2>1. n \in Int /\ d \in Int /\ Wrap(x) * y = n + M * d
    BY <1>3
  <2> HIDE DEF n, d
  <2>2. Wrap(n + M * d) = Wrap(n)
    BY <2>1, WrapMultiple
  <2>3. Wrap(Wrap(x) * y) = Wrap(n)
    BY <2>1, <2>2
  <2>4. QED
    BY <2>3 DEF n
<1>5. Wrap(x) \in Int /\ Wrap(x) * y = y * Wrap(x) /\ x * y = y * x
  <2>1. Wrap(x) \in Int
    BY WrapMultiple
  <2> DEFINE w == Wrap(x)
  <2> HIDE DEF w
  <2>2. w \in Int => w * y = y * w
    OBVIOUS
  <2>3. QED
    BY <2>1, <2>2 DEF w
<1>6. QED
  BY <1>4, <1>5

(***************************************************************************)
(* Where dynamic_gcd computes the offset: the strides are a and b, K is    *)
(* the address that the coefficient y leads to, and either no product      *)
(* exceeds a word or the number of words is a multiple of the strides'     *)
(* product.                                                                *)
(***************************************************************************)
Reduces(a, b, g, lcm, y, delta, K) ==
  /\ a \in Nat /\ b \in Nat /\ g \in Nat /\ lcm \in Nat /\ g > 0 /\ lcm > 0
  /\ a * b = g * lcm /\ lcm <= a * b /\ a * b <= H
  /\ y \in Int /\ delta \in 0 .. a - 1 /\ K \in Int /\ g * K = (b * y) * delta
  /\ IF y >= 0 THEN (a * b) * (y + 1) <= M ELSE M % (a * b) = 0

(***************************************************************************)
(* offset is K, reduced by lcm, although the product of a negative         *)
(* coefficient is taken without a sign.                                    *)
(***************************************************************************)
LEMMA OffsetIsReduced ==
  ASSUME NEW a, NEW b, NEW g, NEW lcm, NEW y, NEW delta, NEW K,
         Reduces(a, b, g, lcm, y, delta, K)
  PROVE  Wrap((Wrap(Wrap(b * Wrap(y)) * delta) \div g) + lcm) % lcm = K % lcm
<1> USE DEF Reduces
<1> DEFINE P == Wrap(Wrap(b * Wrap(y)) * delta)
<1>1. M \in Nat /\ M > 0 /\ H \in Nat /\ M = H + H /\ H > 0
  BY HAssumption DEF M
<1>2. P = Wrap(g * K) /\ g * K \in Int
  <2>1. Wrap(b * Wrap(y)) = Wrap(b * y) /\ b * y \in Int
    BY WrapProduct
  <2>2. Wrap(Wrap(b * y) * delta) = Wrap((b * y) * delta)
    BY <2>1, WrapProduct
  <2>3. QED
    BY <2>1, <2>2
<1> HIDE DEF P
<1>3. CASE y >= 0
  <2>1. K >= 0 /\ g * K >= K /\ g * K \in Nat
    <3>1. b * y \in Nat
      BY <1>3
    <3>2. g * K >= 0
      <4> DEFINE z == b * y
      <4> HIDE DEF z
      <4>1. z \in Nat => z * delta >= 0
        OBVIOUS
      <4>2. QED
        BY <3>1, <4>1 DEF z
    <3>3. K >= 0
      <4>1. ASSUME K <= -1 PROVE FALSE
        <5>1. g * K <= g * (-1)
          BY <4>1
        <5>2. QED
          BY <3>2, <5>1
      <4>2. QED
        BY <4>1
    <3>4. g * K >= 1 * K
      BY <3>3
    <3>5. QED
      BY <3>2, <3>3, <3>4
  <2>2. g * K + a * b <= M /\ (g * K < M) /\ K + lcm < M
    <3>1. a > 0 /\ a - 1 \in Nat /\ delta <= a - 1
      OBVIOUS
    <3> DEFINE z == b * y
    <3>2. z \in Nat /\ z * delta <= z * (a - 1)
      <4>1. z \in Nat
        BY <1>3
      <4> HIDE DEF z
      <4>2. QED
        BY <3>1, <4>1
    <3>3. z * (a - 1) = (a * b) * y - z
      OBVIOUS
    <3>4. (a * b) * (y + 1) = (a * b) * y + a * b /\ (a * b) * y \in Int /\ a * b \in Nat
      OBVIOUS
    <3>5. g * K <= (a * b) * y - z
      BY <3>2, <3>3
    <3>6. (a * b) * y + a * b <= M
      BY <1>3, <3>4
    <3>7. a * b > 0
      <4>1. g * lcm > 0
        OBVIOUS
      <4>2. QED
        BY <4>1
    <3> HIDE DEF z
    <3>8. g * K + a * b + z <= M
      <4> DEFINE u == (a * b) * y
                 w == a * b
                 k == g * K
      <4>1. k <= u - z /\ u + w <= M /\ u \in Int /\ w \in Int /\ k \in Int
        BY <1>2, <3>4, <3>5, <3>6
      <4> HIDE DEF u, w, k
      <4>2. k + w + z <= M
        BY <1>1, <3>2, <4>1
      <4>3. QED
        BY <4>2 DEF w, k
    <3>9. CASE z = 0
      <4>1. g * K = 0
        BY <3>9, <3>2 DEF z
      <4>2. K = 0
        BY <4>1
      <4>3. QED
        BY <1>1, <4>1, <4>2
    <3>10. CASE z > 0
      <4> DEFINE w == a * b
                 k == g * K
      <4>1. k + w + z <= M /\ w \in Nat /\ w > 0 /\ k \in Nat /\ K <= k /\ lcm <= w
        BY <2>1, <3>4, <3>7, <3>8
      <4> HIDE DEF w, k
      <4>2. k + w <= M /\ k < M /\ K + lcm < M
        BY <1>1, <3>2, <3>10, <4>1
      <4>3. QED
        BY <4>2 DEF w, k
    <3>11. QED
      BY <3>2, <3>9, <3>10
  <2>3. P = g * K
    BY <1>2, <2>1, <2>2, <1>1, WrapIdentity DEF Word
  <2>4. P \div g = K
    <3>1. P = g * K + 0 /\ 0 \in 0 .. g - 1 /\ P \in Int
      BY <1>2, <2>3
    <3>2. QED
      BY <3>1, OnlyQuotient
  <2>5. Wrap(K + lcm) = K + lcm
    BY <1>1, <2>1, <2>2, WrapIdentity DEF Word
  <2>6. (K + lcm) % lcm = K % lcm
    <3>1. PICK e \in Int : e = 1
      OBVIOUS
    <3>2. (K + lcm * e) % lcm = K % lcm
      BY RemainderShift
    <3>3. K + lcm * e = K + lcm
      BY <3>1
    <3>4. QED
      BY <3>2, <3>3
  <2>7. QED
    BY <2>4, <2>5, <2>6 DEF P
<1>4. CASE ~ (y >= 0)
  <2>1. a * b \in Nat /\ a * b > 0
    <3>1. g * lcm > 0 /\ g * lcm \in Nat
      OBVIOUS
    <3>2. QED
      BY <3>1
  <2>2. PICK N \in Int : M = (g * lcm) * N
    <3> DEFINE w == a * b
    <3> HIDE DEF w
    <3>1. w \in Nat /\ w > 0 /\ M \in Int /\ M % w = 0
      BY <1>1, <1>4, <2>1 DEF w
    <3>2. IsMultiple(M, w)
      BY <3>1, MultipleRemainder
    <3>3. QED
      BY <3>2 DEF IsMultiple, w
  <2>3. PICK c \in Int : Wrap(g * K) = g * K - M * c
    BY <1>2, WrapMultiple
  <2> DEFINE Q == K - lcm * (N * c)
  <2>4. P = g * Q + 0 /\ P \in Int /\ Q \in Int
    <3>1. g * (K - lcm * (N * c)) = g * K - ((g * lcm) * N) * c
      BY <2>2, <2>3
    <3>2. K - lcm * (N * c) \in Int
      BY <2>2, <2>3
    <3>3. P = g * Q
      BY <1>2, <2>2, <2>3, <3>1
    <3> HIDE DEF Q
    <3>4. QED
      BY <3>2, <3>3 DEF Q
  <2>5. P \div g = Q
    <3> HIDE DEF Q
    <3>1. 0 \in 0 .. g - 1
      OBVIOUS
    <3>2. QED
      BY <2>4, <3>1, OnlyQuotient
  <2>6. PICK d \in Int : Wrap(Q + lcm) = (Q + lcm) - M * d
    <3> HIDE DEF Q
    <3> DEFINE z == Q + lcm
    <3>1. z \in Int
      BY <2>4
    <3> HIDE DEF z
    <3>2. \E d \in Int : Wrap(z) = z - M * d
      BY <3>1, WrapMultiple
    <3>3. QED
      BY <3>2 DEF z
  <2> DEFINE e == 1 - N * c - g * (N * d)
  <2>7. Wrap(Q + lcm) = K + lcm * e /\ e \in Int
    <3>1. ((K - lcm * (N * c)) + lcm) - ((g * lcm) * N) * d = K + lcm * (1 - N * c - g * (N * d))
      BY <2>2, <2>3, <2>6
    <3>2. e \in Int
      BY <2>2, <2>3, <2>6
    <3>3. QED
      BY <2>2, <2>6, <3>1, <3>2
  <2> HIDE DEF Q, e
  <2>8. (K + lcm * e) % lcm = K % lcm
    BY <2>7, RemainderShift
  <2>9. QED
    BY <2>5, <2>7, <2>8 DEF P
<1>5. QED
  BY <1>3, <1>4

(***************************************************************************)
(* count is the number of points from offset on, lcm apart and within the  *)
(* length, although the differences in it may be negative.                 *)
(***************************************************************************)
LEMMA CountIsExact ==
  ASSUME NEW length \in Nat, length > 0, length <= H,
         NEW lcm \in Nat, lcm > 0, lcm <= H, NEW offset \in 0 .. lcm - 1
  PROVE  /\ Count(length, offset, lcm) \in Nat
         /\ Count(length, offset, lcm) > 0 => offset < length
         /\ {j \in 0 .. length - 1 : IsMultiple(j - offset, lcm)}
              = {offset + k * lcm : k \in 0 .. Count(length, offset, lcm) - 1}
<1> DEFINE z == length - (offset + 1)
           q == z \div lcm
           count == Count(length, offset, lcm)
<1>1. H \in Nat /\ M = H + H /\ H > 0
  BY HAssumption DEF M
<1>2. z \in Int /\ count = Wrap(Wrap(z) + lcm) \div lcm
  BY DEF Count
<1>3. q \in Int /\ z = lcm * q + (z % lcm) /\ z % lcm \in 0 .. lcm - 1
  <2> HIDE DEF z
  <2>1. QED
    BY <1>2, QuotientAndRemainder
<1>4. CASE offset >= length
  <2>1. z \in Int /\ z + M \in 0 .. M - 1 /\ z + lcm \in 0 .. lcm - 1 /\ z + lcm \in 0 .. M - 1
    BY <1>1, <1>4
  <2> HIDE DEF z, count
  <2>2. Wrap(z) = z + M
    <3>1. z + M \in Word
      BY <2>1 DEF Word
    <3>2. Wrap((z + M) - M) = z + M
      BY <3>1, WrapAround
    <3>3. (z + M) - M = z
      BY <1>1, <2>1
    <3>4. QED
      BY <3>2, <3>3
  <2>3. Wrap(Wrap(z) + lcm) = z + lcm
    <3>1. z + lcm \in Word /\ Wrap(z) + lcm = (z + lcm) + M
      BY <1>1, <2>1, <2>2 DEF Word
    <3>2. QED
      BY <3>1, WrapAround
  <2>4. count = 0
    <3> DEFINE w == z + lcm
    <3>1. w \in 0 .. lcm - 1 /\ count = w \div lcm
      BY <1>2, <2>1, <2>3
    <3> HIDE DEF w
    <3>2. w = lcm * 0 + w /\ w \in Int /\ 0 \in Int
      BY <3>1
    <3>3. QED
      BY <3>1, <3>2, OnlyQuotient
  <2>5. ASSUME NEW j \in 0 .. length - 1, IsMultiple(j - offset, lcm) PROVE FALSE
    <3>1. PICK k \in Int : j - offset = lcm * k
      BY <2>5 DEF IsMultiple
    <3>2. lcm * k < 0 /\ lcm * k > -lcm
      BY <1>4, <3>1
    <3>3. k < 0
      <4>1. ASSUME k >= 0 PROVE FALSE
        <5>1. lcm * k >= lcm * 0
          BY <4>1
        <5>2. QED
          BY <3>2, <5>1
      <4>2. QED
        BY <4>1
    <3>4. lcm * k <= lcm * (-1)
      BY <3>3
    <3>5. QED
      BY <3>2, <3>4
  <2>6. {j \in 0 .. length - 1 : IsMultiple(j - offset, lcm)} = {}
    BY <2>5
  <2>7. {offset + k * lcm : k \in 0 .. count - 1} = {}
    BY <2>4
  <2>8. QED
    BY <2>4, <2>6, <2>7 DEF count
<1>5. CASE offset < length
  <2>1. z \in 0 .. M - 1 /\ z + lcm \in 0 .. M - 1 /\ z >= 0
    BY <1>1, <1>5
  <2>2. z = length - (offset + 1)
    OBVIOUS
  <2> HIDE DEF z, q, count
  <2>3. count = (z + lcm) \div lcm
    <3>1. Wrap(z) = z /\ Wrap(z + lcm) = z + lcm
      BY <2>1, WrapIdentity DEF Word
    <3>2. QED
      BY <1>2, <3>1
  <2>4. count = q + 1
    <3> DEFINE r == z % lcm
    <3>1. r \in 0 .. lcm - 1 /\ z = lcm * q + r /\ q \in Int
      BY <1>3
    <3> HIDE DEF r
    <3>2. z + lcm = lcm * (q + 1) + r /\ q + 1 \in Int /\ z + lcm \in Int
      <4>1. lcm * (q + 1) = lcm * q + lcm /\ lcm * q \in Int
        BY <3>1
      <4>2. QED
        BY <1>2, <3>1, <4>1
    <3>3. QED
      BY <2>3, <3>1, <3>2, OnlyQuotient
  <2>5. q >= 0
    <3>1. ASSUME q <= -1 PROVE FALSE
      <4>1. lcm * q <= lcm * (-1)
        BY <1>3, <3>1
      <4> DEFINE r == z % lcm
      <4>2. r \in 0 .. lcm - 1 /\ z = lcm * q + r /\ lcm * q \in Int
        BY <1>3
      <4> HIDE DEF r
      <4>3. QED
        BY <2>1, <4>1, <4>2
    <3>2. QED
      BY <1>3, <3>1
  <2>6. ASSUME NEW j \in 0 .. length - 1, NEW k \in Int, j - offset = lcm * k
        PROVE  j = offset + k * lcm /\ k \in 0 .. q
    <3>1. lcm * k = k * lcm /\ lcm * k \in Int
      OBVIOUS
    <3>2. lcm * k > -lcm /\ lcm * k <= z
      BY <2>2, <2>6
    <3>3. k >= 0
      <4>1. ASSUME k <= -1 PROVE FALSE
        <5>1. lcm * k <= lcm * (-1)
          BY <4>1
        <5>2. QED
          BY <3>2, <5>1
      <4>2. QED
        BY <4>1
    <3>4. k <= q
      <4>1. ASSUME k >= q + 1 PROVE FALSE
        <5>1. lcm * k >= lcm * (q + 1) /\ lcm * (q + 1) = lcm * q + lcm /\ lcm * q \in Int
          BY <1>3, <4>1
        <5> DEFINE r == z % lcm
        <5>2. r \in 0 .. lcm - 1 /\ z = lcm * q + r
          BY <1>3
        <5> HIDE DEF r
        <5>3. QED
          BY <3>1, <3>2, <5>1, <5>2
      <4>2. QED
        BY <1>3, <4>1
    <3>5. QED
      BY <1>3, <2>6, <3>1, <3>3, <3>4
  <2>7. ASSUME NEW k \in 0 .. q
        PROVE  /\ offset + k * lcm \in 0 .. length - 1
               /\ IsMultiple((offset + k * lcm) - offset, lcm)
    <3>1. lcm * k = k * lcm /\ lcm * k \in Nat /\ lcm * q \in Int /\ k \in Int
      BY <1>3
    <3>2. lcm * k <= lcm * q
      BY <1>3
    <3>3. lcm * q <= z
      <4> DEFINE r == z % lcm
      <4>1. r \in 0 .. lcm - 1 /\ z = lcm * q + r
        BY <1>3
      <4> HIDE DEF r
      <4>2. QED
        BY <3>1, <4>1
    <3>4. (offset + k * lcm) - offset = lcm * k
      BY <3>1
    <3>5. offset + k * lcm \in 0 .. length - 1
      BY <1>2, <2>2, <3>1, <3>2, <3>3
    <3>6. QED
      BY <3>1, <3>4, <3>5 DEF IsMultiple
  <2>8. count - 1 = q /\ count \in Nat
    BY <1>3, <2>4, <2>5
  <2>9. {j \in 0 .. length - 1 : IsMultiple(j - offset, lcm)}
          = {offset + k * lcm : k \in 0 .. q}
    BY <2>6, <2>7 DEF IsMultiple
  <2>10. QED
    BY <1>5, <2>8, <2>9 DEF count
<1>6. QED
  BY <1>4, <1>5

(***************************************************************************)
(* There are count of them.                                                *)
(***************************************************************************)
LEMMA StepsCounted ==
  ASSUME NEW first \in Int, NEW step \in Nat, step > 0, NEW n \in Nat
  PROVE  Cardinality({first + k * step : k \in 0 .. n - 1}) = n
<1> DEFINE S == 0 .. n - 1
           T == {first + k * step : k \in S}
           f == [k \in S |-> first + k * step]
<1>1. ASSUME NEW j \in S, NEW k \in S, f[j] = f[k] PROVE j = k
  <2>1. first + j * step = first + k * step /\ j * step \in Int /\ k * step \in Int
    BY <1>1
  <2>2. j * step = k * step
    BY <2>1
  <2>3. QED
    BY <2>2
<1>2. f \in [S -> T] /\ \A t \in T : \E k \in S : f[k] = t
  OBVIOUS
<1>3. ExistsBijection(S, T)
  <2> HIDE DEF f, T, S
  <2>1. f \in Bijection(S, T)
    BY <1>1, <1>2 DEF Bijection, Injection, Surjection, IsInjective
  <2>2. QED
    BY <2>1 DEF ExistsBijection
<1>4. IsFiniteSet(S) /\ Cardinality(S) = n
  BY FS_Interval
<1>5. QED
  BY <1>3, <1>4, FS_Bijection

-----------------------------------------------------------------------------
(* The GCD test.                                                           *)

(***************************************************************************)
(* The two progressions in the order in which dynamic_gcd takes them.      *)
(***************************************************************************)
LEMMA OrderedFacts ==
  ASSUME NEW p, NEW q, IsProgression(p), IsProgression(q), RangesOverlap(p, q)
  PROVE  LET one == Ordered(p, q)[1]
             two == Ordered(p, q)[2]
         IN /\ IsProgression(one) /\ IsProgression(two) /\ RangesOverlap(one, two)
            /\ one.low <= two.low
            /\ Points(p) \cap Points(q) = Points(one) \cap Points(two)
            /\ p.stride * q.stride = one.stride * two.stride
<1>1. CASE q.low < p.low
  <2>1. Ordered(p, q)[1] = q /\ Ordered(p, q)[2] = p
    BY <1>1 DEF Ordered
  <2>2. q.low <= p.low /\ p.stride * q.stride = q.stride * p.stride
    BY <1>1 DEF IsProgression
  <2>3. RangesOverlap(q, p)
    BY DEF RangesOverlap
  <2>4. QED
    BY <2>1, <2>2, <2>3
<1>2. CASE ~ (q.low < p.low)
  <2>1. Ordered(p, q)[1] = p /\ Ordered(p, q)[2] = q
    BY <1>2 DEF Ordered
  <2>2. p.low <= q.low
    BY <1>2 DEF IsProgression
  <2>3. QED
    BY <2>1, <2>2
<1>3. QED
  BY <1>1, <1>2

(***************************************************************************)
(* The range that both progressions reach, from low2 on.                   *)
(***************************************************************************)
LEMMA CommonRange ==
  ASSUME NEW one, NEW two, IsProgression(one), IsProgression(two), RangesOverlap(one, two),
         one.low <= two.low
  PROVE  LET high   == Min({one.high, two.high})
             length == Wrap(high - two.low + 1)
         IN /\ length \in Nat /\ length > 0 /\ length <= H
            /\ two.low + (length - 1) < H
            /\ Points(one) \cap Points(two)
                 = {two.low + j : j \in {i \in 0 .. length - 1 :
                      SteppedOn(i, one.stride, two.stride, two.low - one.low)}}
<1> DEFINE high == Min({one.high, two.high})
           length == Wrap(high - two.low + 1)
           distance == two.low - one.low
           a == one.stride
           b == two.stride
<1>1. /\ one.low \in Nat /\ two.low \in Nat /\ one.high \in Nat /\ two.high \in Nat
      /\ two.low <= one.high /\ two.low <= two.high /\ one.high < H /\ two.high < H
      /\ H \in Nat /\ M = H + H
  BY HAssumption DEF IsProgression, RangesOverlap, M
<1>2. /\ high \in {one.high, two.high} /\ high <= one.high /\ high <= two.high
  <2>1. \E x \in {one.high, two.high} : \A y \in {one.high, two.high} : x <= y
    BY <1>1
  <2>2. QED
    BY <2>1 DEF Min
<1>3. high \in Nat /\ high - two.low + 1 \in 1 .. H
  <2> HIDE DEF high
  <2>1. QED
    BY <1>1, <1>2
<1>4. length = high - two.low + 1
  <2>1. high - two.low + 1 \in Word
    BY <1>1, <1>3 DEF Word
  <2>2. QED
    BY <2>1, WrapIdentity
<1> HIDE DEF high, length
<1>5. length \in Nat /\ length > 0 /\ length <= H /\ two.low + (length - 1) = high
  BY <1>1, <1>3, <1>4
<1>6. /\ Points(one) = {x \in one.low .. one.high : IsMultiple(x - one.low, a)}
      /\ Points(two) = {x \in two.low .. two.high : IsMultiple(x - two.low, b)}
  BY WholeStrides
<1>7. ASSUME NEW x \in Points(one) \cap Points(two)
      PROVE  /\ x - two.low \in 0 .. length - 1 /\ x = two.low + (x - two.low)
             /\ SteppedOn(x - two.low, a, b, distance)
  <2>1. /\ x \in one.low .. one.high /\ x \in two.low .. two.high
        /\ IsMultiple(x - one.low, a) /\ IsMultiple(x - two.low, b)
    BY <1>6
  <2>2. x \in Int /\ x <= high /\ (x - two.low) + distance = x - one.low
    BY <1>1, <1>2, <2>1
  <2>3. x - two.low \in 0 .. length - 1 /\ x = two.low + (x - two.low)
    BY <1>1, <1>3, <1>4, <2>1, <2>2
  <2> HIDE DEF a, b, distance
  <2>4. QED
    BY <2>1, <2>2, <2>3 DEF SteppedOn
<1>8. ASSUME NEW j \in 0 .. length - 1, SteppedOn(j, a, b, distance)
      PROVE  two.low + j \in Points(one) \cap Points(two)
  <2>1. j \in Nat /\ two.low + j <= high
    BY <1>1, <1>3, <1>4, <1>5
  <2>2. two.low + j \in one.low .. one.high /\ two.low + j \in two.low .. two.high
    BY <1>1, <1>2, <1>3, <2>1
  <2>3. (two.low + j) - one.low = j + distance /\ (two.low + j) - two.low = j
    BY <1>1, <2>1
  <2>4. IsMultiple((two.low + j) - one.low, a) /\ IsMultiple((two.low + j) - two.low, b)
    BY <1>8, <2>3 DEF SteppedOn
  <2>5. QED
    BY <1>6, <2>2, <2>4
<1>9. Points(one) \cap Points(two)
        = {two.low + j : j \in {i \in 0 .. length - 1 : SteppedOn(i, a, b, distance)}}
  <2> HIDE DEF a, b, distance
  <2>1. QED
    BY <1>7, <1>8
<1>10. two.low + (length - 1) < H
  BY <1>1, <1>2, <1>5
<1>11. QED
  BY <1>5, <1>9, <1>10 DEF high, length

\* What FindsClashes says, of any two progressions.
Finds(p, q) ==
  LET found   == DynamicGcd(p, q)
      clashes == Points(p) \cap Points(q)
  IN /\ found.count = Cardinality(clashes)
     /\ clashes # {} =>
          clashes = {found.address + k * found.stride : k \in 0 .. found.count - 1}

(***************************************************************************)
(* dynamic_gcd finds the common points of two progressions.                *)
(***************************************************************************)
LEMMA GcdTestFinds ==
  ASSUME NEW p, NEW q, IsProgression(p), IsProgression(q), RangesOverlap(p, q),
         p.stride * q.stride <= H,
         IF Coefficient(p, q) >= 0
           THEN (p.stride * q.stride) * (Coefficient(p, q) + 1) <= M
           ELSE M % (p.stride * q.stride) = 0
  PROVE  Finds(p, q) /\ DynamicGcd(p, q).count \in Nat
<1> DEFINE one      == Ordered(p, q)[1]
           two      == Ordered(p, q)[2]
           a        == one.stride
           b        == two.stride
           distance == two.low - one.low
           high     == Min({one.high, two.high})
           length   == Wrap(high - two.low + 1)
           delta    == Delta(a, distance)
           g        == EuclidGcd(a, b)
           lcm      == EuclidLcm(a, b)
           y        == ExtendedEuclid(a, b)[2]
           offset   == Wrap((Wrap(Wrap(b * Wrap(y)) * delta) \div g) + lcm) % lcm
           count    == Count(length, offset, lcm)
<1>1. /\ IsProgression(one) /\ IsProgression(two) /\ RangesOverlap(one, two)
      /\ one.low <= two.low
      /\ Points(p) \cap Points(q) = Points(one) \cap Points(two)
      /\ p.stride * q.stride = a * b
  BY OrderedFacts
<1>2. Coefficient(p, q) = y
  BY DEF Coefficient
<1>3. DynamicGcd(p, q) =
        IF delta % g # 0
          THEN [address |-> 0, stride |-> 0, count |-> 0]
          ELSE [address |-> Wrap(two.low + offset), stride |-> lcm, count |-> count]
  BY <1>2 DEF DynamicGcd, Delta
<1> HIDE DEF one, two
<1>4. /\ length \in Nat /\ length > 0 /\ length <= H
      /\ two.low + (length - 1) < H
      /\ Points(one) \cap Points(two)
           = {two.low + j : j \in {i \in 0 .. length - 1 : SteppedOn(i, a, b, distance)}}
  BY <1>1, CommonRange
<1>5. /\ a \in Nat /\ a > 0 /\ b \in Nat /\ b > 0 /\ distance \in Nat /\ two.low \in Nat
      /\ a * b <= H /\ H \in Nat /\ H < M /\ a * b < M /\ a * b \in Nat
  <2>1. /\ a \in Nat /\ a > 0 /\ b \in Nat /\ b > 0 /\ distance \in Nat /\ two.low \in Nat
    BY <1>1 DEF IsProgression
  <2>2. a * b <= H /\ H \in Nat /\ H < M
    BY <1>1, HAssumption DEF M
  <2>3. a * b \in Nat
    BY <2>1
  <2>4. M \in Nat
    BY WrapMultiple
  <2> HIDE DEF a, b, distance
  <2>5. QED
    BY <2>1, <2>2, <2>3, <2>4
<1>6. IF y >= 0 THEN (a * b) * (y + 1) <= M ELSE M % (a * b) = 0
  BY <1>1, <1>2
<1> HIDE DEF a, b, distance, high, length
<1>7. g \in Nat /\ g > 0
  BY <1>5, GcdDivides
<1>8. /\ lcm \in Nat /\ lcm > 0 /\ a * b = g * lcm /\ lcm <= a * b /\ lcm <= H
  <2>1. lcm \in Nat \ {0} /\ a * b = g * lcm /\ lcm <= a * b
    BY <1>5, LcmDivides
  <2> HIDE DEF lcm, g
  <2>2. QED
    BY <1>5, <2>1
<1>9. y \in Int
  BY <1>5, BezoutCoefficients
<1>10. delta \in 0 .. a - 1
  BY <1>5, DeltaReaches
<1>11. /\ delta % g # 0 => \A j \in Int : ~ SteppedOn(j, a, b, distance)
       /\ delta % g = 0 =>
            \E K \in Int : /\ g * K = (b * y) * delta
                          /\ \A j \in Int : SteppedOn(j, a, b, distance) <=> IsMultiple(j - K, lcm)
  BY <1>5, StepsApart
<1> HIDE DEF y, lcm, g, delta
<1>12. CASE delta % g # 0
  <2>1. DynamicGcd(p, q).count = 0
    BY <1>3, <1>12
  <2> DEFINE clashes == Points(p) \cap Points(q)
  <2>2. clashes = {}
    BY <1>1, <1>4, <1>11, <1>12
  <2> HIDE DEF clashes
  <2>3. Cardinality(clashes) = 0
    BY <2>2, FS_EmptySet
  <2>4. QED
    BY <2>1, <2>2, <2>3 DEF Finds, clashes
<1>13. CASE delta % g = 0
  <2>1. PICK K \in Int :
          /\ g * K = (b * y) * delta
          /\ \A j \in Int : SteppedOn(j, a, b, distance) <=> IsMultiple(j - K, lcm)
    BY <1>11, <1>13
  <2>2. offset = K % lcm
    <3>1. Reduces(a, b, g, lcm, y, delta, K)
      BY <1>5, <1>6, <1>7, <1>8, <1>9, <1>10, <2>1 DEF Reduces
    <3>2. QED
      BY <3>1, OffsetIsReduced
  <2> HIDE DEF offset
  <2>3. offset \in 0 .. lcm - 1 /\ K = lcm * (K \div lcm) + offset /\ K \div lcm \in Int
    BY <1>8, <2>2, QuotientAndRemainder
  <2> DEFINE e == K \div lcm
  <2>4. e \in Int /\ K = lcm * e + offset /\ offset \in Int
    BY <2>3
  <2> HIDE DEF e
  <2>5. ASSUME NEW j \in Int
        PROVE  IsMultiple(j - K, lcm) <=> IsMultiple(j - offset, lcm)
    <3>1. /\ IsMultiple(lcm * e, lcm) /\ lcm * e \in Int /\ lcm \in Int
          /\ j - K \in Int /\ j - offset \in Int
          /\ (j - K) + lcm * e = j - offset /\ (j - offset) - lcm * e = j - K
      BY <1>8, <2>4 DEF IsMultiple
    <3>2. IsMultiple(j - K, lcm) => IsMultiple((j - K) + lcm * e, lcm)
      BY <3>1, MultipleSum
    <3>3. IsMultiple(j - offset, lcm) => IsMultiple((j - offset) - lcm * e, lcm)
      BY <3>1, MultipleSum
    <3>4. QED
      BY <3>1, <3>2, <3>3
  <2>6. /\ count \in Nat /\ (count > 0 => offset < length)
        /\ {j \in 0 .. length - 1 : IsMultiple(j - offset, lcm)}
             = {offset + k * lcm : k \in 0 .. count - 1}
    BY <1>4, <1>8, <2>3, CountIsExact
  <2> HIDE DEF count
  <2>7. {i \in 0 .. length - 1 : SteppedOn(i, a, b, distance)}
          = {offset + k * lcm : k \in 0 .. count - 1}
    <3>1. \A i \in 0 .. length - 1 : SteppedOn(i, a, b, distance) <=> IsMultiple(i - offset, lcm)
      BY <2>1, <2>5
    <3>2. QED
      BY <2>6, <3>1
  <2>8. Points(p) \cap Points(q) = {(two.low + offset) + k * lcm : k \in 0 .. count - 1}
    <3>1. Points(p) \cap Points(q)
            = {two.low + j : j \in {offset + k * lcm : k \in 0 .. count - 1}}
      BY <1>1, <1>4, <2>7
    <3>2. \A k \in 0 .. count - 1 : two.low + (offset + k * lcm) = (two.low + offset) + k * lcm
      BY <1>5, <1>8, <2>4
    <3>3. QED
      BY <3>1, <3>2
  <2>9. /\ DynamicGcd(p, q).count = count /\ DynamicGcd(p, q).stride = lcm
        /\ DynamicGcd(p, q).address = Wrap(two.low + offset)
    BY <1>3, <1>13
  <2>10. Cardinality(Points(p) \cap Points(q)) = count
    <3> DEFINE first == two.low + offset
    <3>1. first \in Int
      BY <1>5, <2>4
    <3>2. Points(p) \cap Points(q) = {first + k * lcm : k \in 0 .. count - 1}
      BY <2>8
    <3> HIDE DEF first
    <3>3. Cardinality({first + k * lcm : k \in 0 .. count - 1}) = count
      BY <1>8, <2>6, <3>1, StepsCounted
    <3>4. QED
      BY <3>2, <3>3
  <2>11. ASSUME Points(p) \cap Points(q) # {} PROVE Wrap(two.low + offset) = two.low + offset
    <3>1. count > 0
      BY <2>6, <2>8, <2>11
    <3>2. offset < length
      BY <2>6, <3>1
    <3>3. two.low + offset \in Word
      BY <1>4, <1>5, <2>3, <3>2, HAssumption DEF Word, M
    <3>4. QED
      BY <3>3, WrapIdentity
  <2>12. QED
    BY <2>6, <2>8, <2>9, <2>10, <2>11 DEF Finds
<1>14. QED
  BY <1>12, <1>13

-----------------------------------------------------------------------------
(* Patterns.                                                               *)

\* The last of a pattern's instances, counted from 0.
LastOf(e) == e.end - e.start

Lower(e, k) == e.base + k * e.stride

(***************************************************************************)
(* No access of a pattern wraps: AccessLower and AccessUpper are what they *)
(* are without a word's bounds, and so is GetLast.                         *)
(***************************************************************************)
LEMMA PatternFacts ==
  ASSUME NEW e \in Entries
  PROVE  /\ e.base \in Nat /\ e.stride \in Int /\ e.length \in Nat /\ e.length > 0
         /\ LastOf(e) \in Nat /\ NumInstances(e) - 1 = LastOf(e)
         /\ \A k \in 0 .. LastOf(e) :
              /\ Lower(e, k) \in Nat /\ Lower(e, k) + e.length <= H
              /\ AccessLower(e, k) = Lower(e, k)
              /\ AccessUpper(e, k) = Lower(e, k) + e.length - 1
         /\ Lower(e, 0) = e.base /\ GetLast(e) = Lower(e, LastOf(e))
<1>1. e \in MemSetEntry /\ e.length > 0 /\ e.start <= e.end /\ InLowerHalf(e)
  BY EntriesAssumption
<1>2. /\ e.base \in Nat /\ e.stride \in Int /\ e.length \in Nat /\ e.start \in Nat /\ e.end \in Nat
      /\ H \in Nat /\ M = H + H
  BY <1>1, HAssumption DEF MemSetEntry, Word, SignedWord, M
<1>3. LastOf(e) \in Nat /\ NumInstances(e) - 1 = LastOf(e)
  BY <1>1, <1>2 DEF LastOf, NumInstances
<1>4. ASSUME NEW k \in 0 .. LastOf(e)
      PROVE  /\ Lower(e, k) \in Nat /\ Lower(e, k) + e.length <= H
             /\ AccessLower(e, k) = Lower(e, k)
             /\ AccessUpper(e, k) = Lower(e, k) + e.length - 1
  <2> DEFINE u == k * e.stride
  <2>1. u \in Int
    BY <1>2, <1>3
  <2>2. e.base + u \in 0 .. H - e.length
    BY <1>1, <1>3 DEF InLowerHalf
  <2>3. Lower(e, k) = e.base + u /\ AccessLower(e, k) = Wrap(e.base + u)
        /\ AccessUpper(e, k) = Wrap(e.base + u + e.length - 1)
    BY DEF Lower, AccessLower, AccessUpper
  <2> HIDE DEF u
  <2>4. e.base + u \in Word /\ e.base + u + e.length - 1 \in Word
    BY <1>1, <1>2, <2>1, <2>2 DEF Word
  <2>5. Wrap(e.base + u) = e.base + u
        /\ Wrap(e.base + u + e.length - 1) = e.base + u + e.length - 1
    BY <2>4, WrapIdentity
  <2>6. QED
    BY <1>2, <2>1, <2>2, <2>3, <2>5
<1>5. Lower(e, 0) = e.base
  BY <1>2 DEF Lower
<1>6. GetLast(e) = Lower(e, LastOf(e))
  <2>1. GetLast(e) = AccessLower(e, LastOf(e))
    BY DEF GetLast, AccessLower, LastOf
  <2>2. LastOf(e) \in 0 .. LastOf(e)
    BY <1>3
  <2>3. QED
    BY <1>4, <2>1, <2>2
<1>7. QED
  BY <1>1, <1>2, <1>3, <1>4, <1>5, <1>6

(***************************************************************************)
(* The progression of a pattern starts at its lowest access and ends at    *)
(* its highest (getNormalised, and isAlias for a stride of 0).             *)
(***************************************************************************)
LEMMA ProgressionFacts ==
  ASSUME NEW e \in Entries
  PROVE  LET p    == Progression(e)
             last == Lower(e, LastOf(e))
         IN /\ p.low = IF e.stride < 0 THEN last ELSE e.base
            /\ p.high = IF e.stride < 0 THEN e.base ELSE last
            /\ p.stride = IF e.stride = 0 THEN e.length ELSE Magnitude(e.stride)
            /\ IsProgression(p)
<1> DEFINE p    == Progression(e)
           n    == LastOf(e)
           last == Lower(e, n)
<1>1. /\ e.base \in Nat /\ e.stride \in Int /\ e.length \in Nat /\ e.length > 0
      /\ n \in Nat /\ GetLast(e) = last /\ last \in Nat
      /\ e.base + e.length <= H /\ last + e.length <= H /\ H \in Nat /\ M = H + H
  <2>1. 0 \in 0 .. n /\ n \in 0 .. n
    BY PatternFacts
  <2>2. QED
    BY <2>1, PatternFacts, HAssumption DEF M
<1>2. e = [base |-> e.base, stride |-> e.stride, length |-> e.length,
           start |-> e.start, end |-> e.end] /\ e.start \in Nat /\ e.end \in Nat
  BY EntriesAssumption DEF MemSetEntry
<1>3. last = e.base + n * e.stride /\ n * e.stride \in Int
  BY <1>1 DEF Lower
<1>4. CASE e.stride = 0
  <2> DEFINE c == [e EXCEPT !.stride = e.length, !.start = 0, !.end = 0]
  <2>1. c.base = e.base /\ c.start = 0 /\ c.end = 0 /\ c.stride = e.length
    BY <1>2
  <2>2. p = [low |-> c.base, high |-> GetLast(c), stride |-> c.stride]
    BY <1>4 DEF Progression
  <2> HIDE DEF c, p, last, n
  <2>3. c.base + (c.end - c.start) * c.stride = e.base /\ e.base \in Word
    BY <1>1, <2>1 DEF Word
  <2>4. GetLast(c) = e.base
    BY <2>3, WrapIdentity DEF GetLast
  <2>5. last = e.base
    BY <1>1, <1>3, <1>4
  <2>6. p.low = e.base /\ p.high = e.base /\ p.stride = e.length
    BY <2>1, <2>2, <2>4
  <2>7. IsProgression(p)
    BY <1>1, <2>6 DEF IsProgression
  <2>8. QED
    BY <1>4, <2>5, <2>6, <2>7 DEF p, last, n
<1>5. CASE e.stride < 0
  <2> DEFINE c == [e EXCEPT !.base = GetLast(e), !.stride = Magnitude(e.stride)]
  <2>1. /\ c.base = last /\ c.start = e.start /\ c.end = e.end
        /\ c.stride = -e.stride
    BY <1>1, <1>2, <1>5 DEF Magnitude
  <2>2. p = [low |-> c.base, high |-> GetLast(c), stride |-> c.stride]
    BY <1>1, <1>5 DEF Progression, GetNormalised
  <2>3. c.end - c.start = n
    BY <2>1 DEF LastOf
  <2> HIDE DEF c, p, last, n
  <2>4. n * (-e.stride) = -(n * e.stride)
    BY <1>1
  <2>5. c.base + (c.end - c.start) * c.stride = e.base /\ e.base \in Word
    BY <1>1, <1>3, <2>1, <2>3, <2>4 DEF Word
  <2>6. GetLast(c) = e.base
    BY <2>5, WrapIdentity DEF GetLast
  <2>7. p.low = last /\ p.high = e.base /\ p.stride = -e.stride
    BY <2>1, <2>2, <2>6
  <2>8. n * e.stride <= 0
    BY <1>1, <1>5
  <2>9. IsProgression(p)
    BY <1>1, <1>3, <1>5, <2>7, <2>8 DEF IsProgression
  <2>10. Magnitude(e.stride) = -e.stride
    BY <1>5 DEF Magnitude
  <2>11. QED
    BY <1>1, <1>5, <2>7, <2>9, <2>10 DEF p, last, n
<1>6. CASE e.stride > 0
  <2>1. p = [low |-> e.base, high |-> GetLast(e), stride |-> e.stride]
    BY <1>1, <1>6 DEF Progression, GetNormalised
  <2> HIDE DEF p, last, n
  <2>2. p.low = e.base /\ p.high = last /\ p.stride = e.stride
    BY <1>1, <2>1
  <2>3. n * e.stride >= 0
    BY <1>1, <1>6
  <2>4. IsProgression(p)
    BY <1>1, <1>3, <1>6, <2>2, <2>3 DEF IsProgression
  <2>5. Magnitude(e.stride) = e.stride
    BY <1>1, <1>6 DEF Magnitude
  <2>6. QED
    BY <1>1, <1>6, <2>2, <2>4, <2>5 DEF p, last, n
<1>7. QED
  BY <1>1, <1>4, <1>5, <1>6

(***************************************************************************)
(* Its points are the addresses of the pattern.                            *)
(***************************************************************************)
LEMMA PointsAreAddresses ==
  ASSUME NEW e \in Entries
  PROVE  Points(Progression(e)) = {Lower(e, k) : k \in 0 .. LastOf(e)}
<1> DEFINE p == Progression(e)
           n == LastOf(e)
           s == p.stride
<1>1. /\ e.base \in Nat /\ e.stride \in Int /\ e.length \in Nat /\ e.length > 0 /\ n \in Nat
  BY PatternFacts
<1>2. /\ p.low = IF e.stride < 0 THEN Lower(e, n) ELSE e.base
      /\ p.high = IF e.stride < 0 THEN e.base ELSE Lower(e, n)
      /\ s = IF e.stride = 0 THEN e.length ELSE Magnitude(e.stride)
  BY ProgressionFacts
<1>3. Points(p) = {p.low + k * s : k \in 0 .. (p.high - p.low) \div s}
  BY DEF Points
<1> HIDE DEF p, s, n
<1>4. CASE e.stride = 0
  <2>1. \A k \in 0 .. n : Lower(e, k) = e.base
    BY <1>1, <1>4 DEF Lower
  <2>2. n \in 0 .. n /\ s = e.length /\ p.low = e.base /\ p.high = e.base
    BY <1>1, <1>2, <1>4, <2>1
  <2>3. (p.high - p.low) \div s = 0
    <3>1. 0 = s * 0 + 0 /\ 0 \in 0 .. s - 1 /\ p.high - p.low = 0 /\ 0 \in Int /\ s \in Nat /\ s > 0
      BY <1>1, <2>2
    <3>2. 0 \div s = 0
      BY <3>1, OnlyQuotient
    <3>3. QED
      BY <3>1, <3>2
  <2>4. Points(p) = {e.base}
    <3>1. Points(p) = {e.base + k * s : k \in 0 .. 0}
      BY <1>3, <2>2, <2>3
    <3>2. \A k \in 0 .. 0 : e.base + k * s = e.base
      BY <1>1, <2>2
    <3>3. QED
      BY <3>1, <3>2
  <2>5. {Lower(e, k) : k \in 0 .. n} = {e.base}
    BY <2>1, <2>2
  <2>6. QED
    BY <2>4, <2>5 DEF p, n
<1>5. CASE e.stride # 0
  <2>1. s \in Nat /\ s > 0 /\ s = IF e.stride < 0 THEN -e.stride ELSE e.stride
    BY <1>1, <1>2, <1>5 DEF Magnitude
  <2>2. p.high - p.low = s * n + 0
    <3>1. CASE e.stride < 0
      <4>1. p.high - p.low = e.base - (e.base + n * e.stride) /\ s = -e.stride
        BY <1>2, <2>1, <3>1 DEF Lower
      <4>2. n * e.stride \in Int /\ (-e.stride) * n = -(n * e.stride)
        BY <1>1
      <4>3. QED
        BY <1>1, <4>1, <4>2
    <3>2. CASE e.stride > 0
      <4>1. p.high - p.low = (e.base + n * e.stride) - e.base /\ s = e.stride
        BY <1>1, <1>2, <2>1, <3>2 DEF Lower
      <4>2. n * e.stride \in Int /\ e.stride * n = n * e.stride
        BY <1>1
      <4>3. QED
        BY <1>1, <4>1, <4>2
    <3>3. QED
      BY <1>1, <1>5, <3>1, <3>2
  <2>3. (p.high - p.low) \div s = n
    <3> DEFINE d == p.high - p.low
    <3>1. d \in Int /\ d = s * n + 0 /\ 0 \in 0 .. s - 1
      BY <1>1, <2>1, <2>2
    <3> HIDE DEF d
    <3>2. d \div s = n
      BY <1>1, <2>1, <3>1, OnlyQuotient
    <3>3. QED
      BY <3>2 DEF d
  <2>4. Points(p) = {p.low + k * s : k \in 0 .. n}
    BY <1>3, <2>3
  <2>5. CASE e.stride > 0
    <3>1. p.low = e.base /\ s = e.stride
      BY <1>1, <1>2, <2>1, <2>5
    <3>2. QED
      BY <2>4, <3>1 DEF Lower, p, n
  <2>6. CASE e.stride < 0
    <3>1. p.low = e.base + n * e.stride /\ s = -e.stride
      BY <1>2, <2>1, <2>6 DEF Lower
    <3>2. ASSUME NEW k \in 0 .. n
          PROVE  n - k \in 0 .. n /\ n - (n - k) = k /\ p.low + k * s = Lower(e, n - k)
      <4>1. n - k \in 0 .. n /\ n - (n - k) = k
        BY <1>1
      <4>2. k * (-e.stride) = -(k * e.stride) /\ (n - k) * e.stride = n * e.stride - k * e.stride
            /\ k * e.stride \in Int /\ n * e.stride \in Int
        BY <1>1
      <4>3. e.base + n * e.stride + k * (-e.stride) = e.base + (n - k) * e.stride
        BY <1>1, <4>2
      <4>4. QED
        BY <3>1, <4>1, <4>3 DEF Lower
    <3>3. \A k \in 0 .. n : \E l \in 0 .. n : p.low + k * s = Lower(e, l)
      BY <3>2
    <3>4. \A l \in 0 .. n : \E k \in 0 .. n : Lower(e, l) = p.low + k * s
      <4>1. ASSUME NEW l \in 0 .. n PROVE Lower(e, l) = p.low + (n - l) * s /\ n - l \in 0 .. n
        BY <3>2
      <4>2. QED
        BY <4>1
    <3>5. {p.low + k * s : k \in 0 .. n} = {Lower(e, k) : k \in 0 .. n}
      BY <3>3, <3>4
    <3>6. QED
      BY <2>4, <3>5 DEF p, n
  <2>7. QED
    BY <1>1, <1>5, <2>5, <2>6
<1>6. QED
  BY <1>4, <1>5

(***************************************************************************)
(* The bytes of a pattern are those of its accesses.                       *)
(***************************************************************************)
LEMMA BytesOfAccesses ==
  ASSUME NEW e \in Entries
  PROVE  \A b : b \in Bytes(e) <=>
           \E k \in 0 .. LastOf(e) : b \in Lower(e, k) .. (Lower(e, k) + e.length - 1)
<1>1. /\ NumInstances(e) - 1 = LastOf(e)
      /\ \A k \in 0 .. LastOf(e) : /\ AccessLower(e, k) = Lower(e, k)
                                  /\ AccessUpper(e, k) = Lower(e, k) + e.length - 1
  BY PatternFacts
<1>2. Bytes(e) = UNION {Lower(e, k) .. (Lower(e, k) + e.length - 1) : k \in 0 .. LastOf(e)}
  BY <1>1 DEF Bytes
<1>3. QED
  BY <1>2

(***************************************************************************)
(* Two patterns touch a common byte if and only if two of their accesses   *)
(* overlap.                                                                *)
(***************************************************************************)
AccessesOverlap(w, r, i, j) ==
  /\ Lower(w, i) <= Lower(r, j) + r.length - 1
  /\ Lower(r, j) <= Lower(w, i) + w.length - 1

LEMMA CommonByte ==
  ASSUME NEW w \in Entries, NEW r \in Entries
  PROVE  Bytes(w) \cap Bytes(r) # {} <=>
           \E i \in 0 .. LastOf(w), j \in 0 .. LastOf(r) : AccessesOverlap(w, r, i, j)
<1>1. /\ \A i \in 0 .. LastOf(w) : Lower(w, i) \in Nat
      /\ \A j \in 0 .. LastOf(r) : Lower(r, j) \in Nat
      /\ w.length \in Nat /\ r.length \in Nat /\ w.length > 0 /\ r.length > 0
  BY PatternFacts
<1>2. ASSUME NEW i \in 0 .. LastOf(w), NEW j \in 0 .. LastOf(r), AccessesOverlap(w, r, i, j)
      PROVE  Bytes(w) \cap Bytes(r) # {}
  <2> DEFINE b == IF Lower(w, i) <= Lower(r, j) THEN Lower(r, j) ELSE Lower(w, i)
  <2>1. /\ b \in Lower(w, i) .. (Lower(w, i) + w.length - 1)
        /\ b \in Lower(r, j) .. (Lower(r, j) + r.length - 1)
    BY <1>1, <1>2 DEF AccessesOverlap
  <2> HIDE DEF b
  <2>2. b \in Bytes(w) /\ b \in Bytes(r)
    BY <2>1, BytesOfAccesses
  <2>3. QED
    BY <2>2
<1>3. ASSUME NEW b \in Bytes(w) \cap Bytes(r)
      PROVE  \E i \in 0 .. LastOf(w), j \in 0 .. LastOf(r) : AccessesOverlap(w, r, i, j)
  <2>1. PICK i \in 0 .. LastOf(w) : b \in Lower(w, i) .. (Lower(w, i) + w.length - 1)
    BY <1>3, BytesOfAccesses
  <2>2. PICK j \in 0 .. LastOf(r) : b \in Lower(r, j) .. (Lower(r, j) + r.length - 1)
    BY <1>3, BytesOfAccesses
  <2>3. AccessesOverlap(w, r, i, j)
    BY <1>1, <2>1, <2>2 DEF AccessesOverlap
  <2>4. QED
    BY <2>3
<1>4. QED
  BY <1>2, <1>3

(***************************************************************************)
(* The extent that the interval tree holds is from the lowest point of the *)
(* progression to the last byte of the access at the highest.              *)
(***************************************************************************)
LEMMA ExtentFacts ==
  ASSUME NEW e \in Entries
  PROVE  /\ GetLowerExtent(e) = Progression(e).low
         /\ GetUpperExtent(e) = Progression(e).high + e.length - 1
<1> DEFINE last == Lower(e, LastOf(e))
           high == Progression(e).high
<1>1. /\ e.base \in Nat /\ e.stride \in Int /\ e.length \in Nat /\ e.length > 0
      /\ GetLast(e) = last /\ last \in Nat
      /\ e.base + e.length <= H /\ last + e.length <= H /\ H \in Nat /\ M = H + H
      /\ (e.stride = 0 => last = e.base)
  <2>1. 0 \in 0 .. LastOf(e) /\ LastOf(e) \in 0 .. LastOf(e) /\ LastOf(e) \in Nat
    BY PatternFacts
  <2>2. /\ e.base \in Nat /\ e.stride \in Int /\ e.length \in Nat /\ e.length > 0
        /\ GetLast(e) = last /\ last \in Nat
        /\ e.base + e.length <= H /\ last + e.length <= H
    BY <2>1, PatternFacts
  <2>3. e.stride = 0 => last = e.base
    BY <2>1, <2>2 DEF Lower
  <2>4. H \in Nat /\ M = H + H
    BY HAssumption DEF M
  <2> HIDE DEF last
  <2>5. QED
    BY <2>2, <2>3, <2>4
<1>2. /\ Progression(e).low = IF e.stride < 0 THEN last ELSE e.base
      /\ high = IF e.stride < 0 THEN e.base ELSE last
  BY ProgressionFacts
<1> HIDE DEF last, high
<1>3. GetLowerExtent(e) = Progression(e).low
  BY <1>1, <1>2 DEF GetLowerExtent
<1>4. GetUpperExtent(e) = Wrap(high + e.length - 1)
  BY <1>1, <1>2 DEF GetUpperExtent
<1>5. high + e.length - 1 \in Word
  BY <1>1, <1>2 DEF Word
<1>6. QED
  BY <1>3, <1>4, <1>5, WrapIdentity DEF high

(***************************************************************************)
(* Accesses of one width that are all aligned overlap only if they are at  *)
(* the same address.                                                       *)
(***************************************************************************)
LEMMA AlignedAccesses ==
  ASSUME NEW e \in Entries, AllAligned(e)
  PROVE  \A k \in 0 .. LastOf(e) : IsMultiple(Lower(e, k), e.length)
<1>1. /\ e.base \in Nat /\ e.stride \in Int /\ e.length \in Nat /\ e.length > 0
  BY PatternFacts
<1>2. IsMultiple(e.base, e.length)
  BY <1>1, MultipleRemainder DEF AllAligned, IsAligned
<1>3. ASSUME NEW k \in 0 .. LastOf(e), e.start = e.end PROVE IsMultiple(Lower(e, k), e.length)
  <2>1. k = 0
    <3>1. e.end \in Nat
      BY EntriesAssumption DEF MemSetEntry
    <3>2. QED
      BY <1>3, <3>1 DEF LastOf
  <2>2. QED
    BY <1>2, <2>1, PatternFacts
<1>4. ASSUME NEW k \in 0 .. LastOf(e), e.stride % e.length = 0
      PROVE  IsMultiple(Lower(e, k), e.length)
  <2>1. k \in Int /\ IsMultiple(e.stride, e.length)
    BY <1>1, <1>4, PatternFacts, MultipleRemainder
  <2> DEFINE u == k * e.stride
  <2>2. IsMultiple(u, e.length) /\ u \in Int /\ e.base \in Int /\ e.length \in Int
    BY <1>1, <2>1, MultipleProduct
  <2> HIDE DEF u
  <2>3. IsMultiple(e.base + u, e.length)
    BY <1>2, <2>2, MultipleSum
  <2>4. QED
    BY <2>3 DEF Lower, u
<1>5. QED
  BY <1>3, <1>4 DEF AllAligned

LEMMA AlignedApart ==
  ASSUME NEW d \in Nat, d > 0, NEW u \in Int, NEW v \in Int, IsMultiple(u, d), IsMultiple(v, d),
         u <= v + d - 1
  PROVE  u <= v
<1>1. PICK i \in Int, j \in Int : u = d * i /\ v = d * j
  BY DEF IsMultiple
<1>2. i <= j
  <2>1. ASSUME i >= j + 1 PROVE FALSE
    <3>1. d * i >= d * (j + 1) /\ d * (j + 1) = d * j + d
      BY <1>1, <2>1
    <3>2. QED
      BY <1>1, <3>1
  <2>2. QED
    BY <1>1, <2>1
<1>3. QED
  BY <1>1, <1>2

-----------------------------------------------------------------------------
(* The theorems.                                                           *)

IInv ==
  /\ write \in Entries /\ read \in Entries /\ Overlap(write, read)
  /\ alias \in {"unknown", "yes", "no"}
  /\ alias # "unknown" => (alias = "yes" <=> IsAlias(write, read))

LEMMA InitInv == Init => IInv
BY DEF Init, IInv

LEMMA NextInv == IInv /\ [Check]_vars => IInv'
<1> SUFFICES ASSUME IInv, [Check]_vars PROVE IInv'
  OBVIOUS
<1>1. CASE Check
  <2>1. write' = write /\ read' = read
    BY <1>1 DEF Check
  <2>2. IsAlias(write, read)' <=> IsAlias(write, read)
    BY <2>1
  <2>3. Overlap(write, read)'
    BY <2>1 DEF IInv
  <2>4. QED
    BY <1>1, <2>1, <2>2, <2>3 DEF IInv, Check
<1>2. CASE UNCHANGED vars
  BY <1>2 DEF IInv, vars
<1>3. QED
  BY <1>1, <1>2

(***************************************************************************)
(* extended_euclid returns the coefficients it promises, and dynamic_gcd   *)
(* finds the common addresses of two progressions, their distance and      *)
(* their number, where no product exceeds a word and a negative            *)
(* coefficient does no harm.                                               *)
(***************************************************************************)
LEMMA InvFinds == IInv => FindsClashesWhenItDivides
<1> SUFFICES ASSUME IInv PROVE FindsClashesWhenItDivides
  OBVIOUS
<1>1. IsProgression(Write) /\ IsProgression(Read)
  BY ProgressionFacts DEF IInv, Write, Read
<1>2. Bezout
  <2> DEFINE a == Write.stride
             b == Read.stride
             g == EuclidGcd(a, b)
  <2>1. a \in Nat /\ b \in Nat /\ a > 0
    BY <1>1 DEF IsProgression
  <2>2. a * ExtendedEuclid(a, b)[1] + b * ExtendedEuclid(a, b)[2] = g
    <3> HIDE DEF a, b
    <3>1. QED
      BY <2>1, BezoutCoefficients
  <2>3. g \in Nat /\ g > 0 /\ a % g = 0 /\ b % g = 0
    <3> HIDE DEF a, b
    <3>1. g \in Nat /\ g > 0 /\ IsMultiple(a, g) /\ IsMultiple(b, g)
      BY <2>1, GcdDivides
    <3> HIDE DEF g
    <3>2. a \in Int /\ b \in Int
      BY <2>1
    <3>3. QED
      BY <3>1, <3>2, MultipleRemainder
  <2>4. QED
    BY <2>2, <2>3 DEF Bezout
<1>3. ASSUME Divides, RangesOverlap(Write, Read) PROVE Finds(Write, Read)
  <2> DEFINE p == Write
             q == Read
  <2>1. /\ p.stride * q.stride <= H
        /\ IF Coefficient(p, q) >= 0
              THEN (p.stride * q.stride) * (Coefficient(p, q) + 1) <= M
              ELSE M % (p.stride * q.stride) = 0
    BY <1>3 DEF Divides
  <2>2. QED
    BY <1>1, <1>3, <2>1, GcdTestFinds
<1>4. QED
  BY <1>2, <1>3 DEF FindsClashesWhenItDivides, FindsClashes, Finds, Clashes

(***************************************************************************)
(* For every word size and every two patterns in the lower half of memory, *)
(* the coefficients are Bezout's, and where no product exceeds a word,     *)
(* dynamic_gcd returns the common addresses of the two patterns, all of    *)
(* them and no others (dynamic_gcd.cpp).                                   *)
(***************************************************************************)
THEOREM ClashesAlwaysFound == Spec => []FindsClashesWhenItDivides
<1>1. QED
  BY InitInv, NextInv, InvFinds, PTL DEF Spec

(***************************************************************************)
(* isAlias answers whether two patterns touch a common byte, if all        *)
(* accesses of the patterns that it compares by the GCD test are aligned.  *)
(***************************************************************************)
LEMMA BruteForceAnswers ==
  ASSUME NEW w \in Entries, NEW r \in Entries
  PROVE  IsAliasBruteForce(w, r) <=> Bytes(w) \cap Bytes(r) # {}
<1>1. /\ NumInstances(w) - 1 = LastOf(w) /\ NumInstances(r) - 1 = LastOf(r)
      /\ \A i \in 0 .. LastOf(w) : /\ AccessLower(w, i) = Lower(w, i)
                                  /\ AccessUpper(w, i) = Lower(w, i) + w.length - 1
      /\ \A j \in 0 .. LastOf(r) : /\ AccessLower(r, j) = Lower(r, j)
                                  /\ AccessUpper(r, j) = Lower(r, j) + r.length - 1
  BY PatternFacts
<1>2. IsAliasBruteForce(w, r) <=>
        \E i \in 0 .. LastOf(w), j \in 0 .. LastOf(r) : AccessesOverlap(w, r, i, j)
  BY <1>1 DEF IsAliasBruteForce, AccessesOverlap
<1>3. QED
  BY <1>2, CommonByte

LEMMA ConstantAnswers ==
  ASSUME NEW w \in Entries, NEW r \in Entries, w.stride = 0, r.stride = 0, Overlap(w, r)
  PROVE  Bytes(w) \cap Bytes(r) # {}
<1>1. /\ 0 \in 0 .. LastOf(w) /\ 0 \in 0 .. LastOf(r)
      /\ Lower(w, 0) = w.base /\ Lower(r, 0) = r.base
      /\ w.base \in Nat /\ r.base \in Nat /\ w.length \in Nat /\ r.length \in Nat
      /\ \A e \in {w, r} : LastOf(e) \in Nat
  BY PatternFacts
<1>2. \A e \in {w, r} : /\ GetLowerExtent(e) = e.base
                        /\ GetUpperExtent(e) = e.base + e.length - 1
  <2>1. ASSUME NEW e \in {w, r}
        PROVE  GetLowerExtent(e) = e.base /\ GetUpperExtent(e) = e.base + e.length - 1
    <3>1. e \in Entries /\ e.stride = 0 /\ ~ (e.stride < 0)
      OBVIOUS
    <3>2. Lower(e, LastOf(e)) = e.base
      <4>1. LastOf(e) * 0 = 0 /\ e.base \in Nat
        BY <1>1
      <4>2. QED
        BY <3>1, <4>1 DEF Lower
    <3>3. Progression(e).low = e.base /\ Progression(e).high = e.base
      BY <3>1, <3>2, ProgressionFacts
    <3>4. QED
      BY <3>1, <3>3, ExtentFacts
  <2>2. QED
    BY <2>1
<1>3. AccessesOverlap(w, r, 0, 0)
  BY <1>1, <1>2 DEF Overlap, AccessesOverlap
<1>4. QED
  BY <1>1, <1>3, CommonByte

LEMMA GcdTestAnswers ==
  ASSUME NEW w \in Entries, NEW r \in Entries, Overlap(w, r), w.length = r.length,
         AllAligned(w), AllAligned(r),
         RangesOverlap(Progression(w), Progression(r)) => Finds(Progression(w), Progression(r))
  PROVE  DynamicGcd(Progression(w), Progression(r)).count > 0 <=> Bytes(w) \cap Bytes(r) # {}
<1> DEFINE p == Progression(w)
           q == Progression(r)
           l == w.length
           count == DynamicGcd(p, q).count
<1>1. /\ l \in Nat /\ l > 0 /\ r.length = l
      /\ LastOf(w) \in Nat /\ LastOf(r) \in Nat
      /\ \A i \in 0 .. LastOf(w) : Lower(w, i) \in Nat
      /\ \A j \in 0 .. LastOf(r) : Lower(r, j) \in Nat
      /\ Lower(w, 0) = w.base /\ Lower(r, 0) = r.base
  BY PatternFacts
<1>2. /\ \A i \in 0 .. LastOf(w) : IsMultiple(Lower(w, i), l)
      /\ \A j \in 0 .. LastOf(r) : IsMultiple(Lower(r, j), l)
  BY AlignedAccesses
<1>3. /\ IsProgression(p) /\ IsProgression(q)
      /\ \E i \in 0 .. LastOf(w) : p.low = Lower(w, i)
      /\ \E i \in 0 .. LastOf(w) : p.high = Lower(w, i)
      /\ \E j \in 0 .. LastOf(r) : q.low = Lower(r, j)
      /\ \E j \in 0 .. LastOf(r) : q.high = Lower(r, j)
  <2>1. /\ IsProgression(p) /\ IsProgression(q)
        /\ p.low \in {Lower(w, 0), Lower(w, LastOf(w))} /\ p.high \in {Lower(w, 0), Lower(w, LastOf(w))}
        /\ q.low \in {Lower(r, 0), Lower(r, LastOf(r))} /\ q.high \in {Lower(r, 0), Lower(r, LastOf(r))}
    BY <1>1, ProgressionFacts
  <2>2. /\ 0 \in 0 .. LastOf(w) /\ LastOf(w) \in 0 .. LastOf(w)
        /\ 0 \in 0 .. LastOf(r) /\ LastOf(r) \in 0 .. LastOf(r)
    BY <1>1
  <2> HIDE DEF p, q
  <2>3. QED
    BY <2>1, <2>2
<1>4. /\ GetLowerExtent(w) = p.low /\ GetUpperExtent(w) = p.high + l - 1
      /\ GetLowerExtent(r) = q.low /\ GetUpperExtent(r) = q.high + l - 1
  BY <1>1, ExtentFacts
<1> HIDE DEF p, q, l
<1>5. RangesOverlap(p, q)
  <2>1. p.low <= q.high + l - 1 /\ q.low <= p.high + l - 1
    <3>1. /\ p.high + l - 1 >= q.low /\ p.low <= q.high + l - 1
      BY <1>4 DEF Overlap
    <3>2. QED
      BY <1>1, <1>3, <3>1 DEF IsProgression
  <2>2. /\ IsMultiple(p.low, l) /\ IsMultiple(p.high, l) /\ IsMultiple(q.low, l) /\ IsMultiple(q.high, l)
        /\ p.low \in Int /\ p.high \in Int /\ q.low \in Int /\ q.high \in Int
    BY <1>2, <1>3 DEF IsProgression
  <2>3. p.low <= q.high
    BY <1>1, <2>1, <2>2, AlignedApart
  <2>4. q.low <= p.high
    BY <1>1, <2>1, <2>2, AlignedApart
  <2>5. QED
    BY <2>3, <2>4 DEF RangesOverlap
<1>6. /\ count = Cardinality(Points(p) \cap Points(q))
      /\ Points(p) \cap Points(q) # {} =>
           Points(p) \cap Points(q)
             = {DynamicGcd(p, q).address + k * DynamicGcd(p, q).stride : k \in 0 .. count - 1}
  BY <1>5 DEF Finds, p, q
<1>7. count > 0 <=> Points(p) \cap Points(q) # {}
  <2> DEFINE clashes == Points(p) \cap Points(q)
             at(k) == DynamicGcd(p, q).address + k * DynamicGcd(p, q).stride
  <2>1. clashes = {} => count = 0
    BY <1>6, FS_EmptySet
  <2>2. clashes # {} => clashes = {at(k) : k \in 0 .. count - 1} /\ count = Cardinality(clashes)
    BY <1>6
  <2> HIDE DEF clashes, count, at
  <2>3. ASSUME clashes # {} PROVE count > 0
    <3>1. PICK k \in 0 .. count - 1 : TRUE
      BY <2>2, <2>3
    <3>2. IsFiniteSet(clashes)
      <4>1. clashes \subseteq Points(p)
        BY DEF clashes
      <4>2. Points(p) \subseteq p.low .. p.high
        BY <1>3, WholeStrides
      <4>3. IsFiniteSet(p.low .. p.high)
        BY <1>3, FS_Interval DEF IsProgression
      <4>4. QED
        BY <4>1, <4>2, <4>3, FS_Subset
    <3>3. Cardinality(clashes) \in Nat
      BY <3>2, FS_CardinalityType
    <3>4. count \in Nat
      BY <2>2, <2>3, <3>3
    <3>5. QED
      BY <3>1, <3>4
  <2>4. QED
    BY <2>1, <2>3 DEF clashes, count
<1>8. Points(p) = {Lower(w, i) : i \in 0 .. LastOf(w)} /\ Points(q) = {Lower(r, j) : j \in 0 .. LastOf(r)}
  BY PointsAreAddresses DEF p, q
<1>9. \A i \in 0 .. LastOf(w), j \in 0 .. LastOf(r) :
        AccessesOverlap(w, r, i, j) <=> Lower(w, i) = Lower(r, j)
  <2>1. ASSUME NEW i \in 0 .. LastOf(w), NEW j \in 0 .. LastOf(r)
        PROVE  AccessesOverlap(w, r, i, j) <=> Lower(w, i) = Lower(r, j)
    <3> DEFINE u == Lower(w, i)
               v == Lower(r, j)
    <3>1. u \in Int /\ v \in Int /\ IsMultiple(u, l) /\ IsMultiple(v, l)
      BY <1>1, <1>2
    <3>2. AccessesOverlap(w, r, i, j) <=> u <= v + l - 1 /\ v <= u + l - 1
      BY <1>1 DEF AccessesOverlap, l
    <3> HIDE DEF u, v
    <3>3. u <= v + l - 1 => u <= v
      BY <1>1, <3>1, AlignedApart
    <3>4. v <= u + l - 1 => v <= u
      BY <1>1, <3>1, AlignedApart
    <3>5. u = v => u <= v + l - 1 /\ v <= u + l - 1
      BY <1>1, <3>1
    <3>6. u <= v /\ v <= u => u = v
      BY <3>1
    <3>7. QED
      BY <3>2, <3>3, <3>4, <3>5, <3>6 DEF u, v
  <2>2. QED
    BY <2>1
<1>10. Bytes(w) \cap Bytes(r) # {} <=> Points(p) \cap Points(q) # {}
  BY <1>8, <1>9, CommonByte
<1>11. QED
  BY <1>7, <1>10 DEF p, q

LEMMA InvAnswers == IInv => AnswersCommonByte
<1> SUFFICES ASSUME IInv, alias # "unknown",
                    ByGcd(write, read) => Divides /\ AllAligned(write) /\ AllAligned(read)
             PROVE  alias = "yes" <=> Bytes(write) \cap Bytes(read) # {}
  BY DEF AnswersCommonByte
<1>1. write \in Entries /\ read \in Entries /\ Overlap(write, read)
      /\ (alias = "yes" <=> IsAlias(write, read))
  BY DEF IInv
<1>2. CASE write.stride = 0 /\ read.stride = 0
  BY <1>1, <1>2, ConstantAnswers DEF IsAlias
<1>3. CASE ~ (write.stride = 0 /\ read.stride = 0) /\ ~ ByGcd(write, read)
  BY <1>1, <1>3, BruteForceAnswers DEF IsAlias
<1>4. CASE ~ (write.stride = 0 /\ read.stride = 0) /\ ByGcd(write, read)
  <2>1. Divides /\ AllAligned(write) /\ AllAligned(read) /\ write.length = read.length
    BY <1>4 DEF ByGcd
  <2>2. RangesOverlap(Write, Read) => Finds(Write, Read)
    BY <1>4, <2>1, InvFinds DEF FindsClashesWhenItDivides, FindsClashes, Finds, Clashes
  <2>3. DynamicGcd(Write, Read).count > 0 <=> Bytes(write) \cap Bytes(read) # {}
    BY <1>1, <2>1, <2>2, GcdTestAnswers DEF Write, Read
  <2>4. QED
    BY <1>1, <1>4, <2>3 DEF IsAlias, Write, Read
<1>5. QED
  BY <1>2, <1>3, <1>4

(***************************************************************************)
(* For every word size and every two such patterns, isAlias answers        *)
(* whether they touch a common byte: by brute force always, and by the GCD *)
(* test under its condition if all accesses are aligned                    *)
(* (dependence_analysis.cpp, isAlias).                                     *)
(***************************************************************************)
THEOREM AliasAlwaysAnswered == Spec => []AnswersCommonByte
<1>1. QED
  BY InitInv, NextInv, InvAnswers, PTL DEF Spec
=============================================================================
