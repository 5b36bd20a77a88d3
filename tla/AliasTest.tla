------------------------------- MODULE AliasTest ------------------------------
(***************************************************************************)
(* The test whether two patterns of accesses touch a common byte: isAlias  *)
(* of dependence_analysis.cpp and the dynamic GCD test of dynamic_gcd.cpp, *)
(* which finds the common addresses of two arithmetic progressions without *)
(* enumerating them.  The analysis applies it to a write pattern and to    *)
(* each pattern whose extent overlaps the write's in the interval tree.    *)
(*                                                                         *)
(* uintptr_t and uint64_t have the same width, as on the machines with     *)
(* 64-bit addresses.                                                       *)
(***************************************************************************)
EXTENDS MemSets, FiniteSets, FiniteSetsExt

-----------------------------------------------------------------------------
(* MemSetEntry                                                             *)

GetLast(e) == Wrap(e.base + (e.end - e.start) * e.stride)

AccessUpper(e, n) == Wrap(e.base + n * e.stride + e.length - 1)

GetLowerExtent(e) == IF e.stride >= 0 THEN e.base ELSE GetLast(e)

GetUpperExtent(e) ==
  Wrap((IF e.stride >= 0 THEN GetLast(e) ELSE e.base) + e.length - 1)

IsAligned(e) == e.base % e.length = 0

\* Mutant: the range is not reversed with the stride.
GetNormalised_KeepsBase(e) == [e EXCEPT !.stride = Magnitude(@)]

GetNormalised(e) ==
  IF e.stride < 0 THEN [e EXCEPT !.base = GetLast(e), !.stride = Magnitude(@)] ELSE e

-----------------------------------------------------------------------------
(* dynamic_gcd.cpp                                                         *)

EuclidGcd(x, y) ==
  LET loop[v \in Nat \X Nat] == IF v[2] = 0 THEN v[1] ELSE loop[<<v[2], v[1] % v[2]>>]
  IN loop[<<x, y>>]

EuclidLcm(x, y) == Wrap(x * y) \div EuclidGcd(x, y)

(***************************************************************************)
(* The loop of extended_euclid, which returns the coefficients of its      *)
(* arguments in the sum that makes their greatest common divisor.          *)
(***************************************************************************)
EuclidStep(v) ==
  LET quot == v.oldR \div v.r
  IN [s |-> v.oldS - quot * v.s, oldS |-> v.s,
      t |-> v.oldT - quot * v.t, oldT |-> v.t,
      r |-> v.oldR - quot * v.r, oldR |-> v.r]

ExtendedEuclid(a, b) ==
  LET loop[v \in [s : Int, oldS : Int, t : Int, oldT : Int, r : Nat, oldR : Nat]] ==
        IF v.r = 0 THEN <<v.oldS, v.oldT>> ELSE loop[EuclidStep(v)]
  IN loop[[s |-> 0, oldS |-> 1, t |-> 1, oldT |-> 0, r |-> b, oldR |-> a]]

(***************************************************************************)
(* dynamic_gcd, on two progressions low, low + stride, ..., high: the      *)
(* first common address, the distance between common addresses and their   *)
(* number, all in unsigned arithmetic.                                     *)
(***************************************************************************)
Ordered(p, q) == IF q.low < p.low THEN <<q, p>> ELSE <<p, q>>

Coefficient(p, q) ==
  ExtendedEuclid(Ordered(p, q)[1].stride, Ordered(p, q)[2].stride)[2]

\* Mutant: an offset of the whole length counts.
Count_Inclusive(length, offset, lcm) == Wrap(Wrap(length - offset) + lcm) \div lcm

Count(length, offset, lcm) == Wrap(Wrap(length - (offset + 1)) + lcm) \div lcm

DynamicGcd(p, q) ==
  LET one    == Ordered(p, q)[1]
      two    == Ordered(p, q)[2]
      high   == Min({one.high, two.high})
      length == Wrap(high - two.low + 1)
      delta  == (one.stride - ((two.low - one.low) % one.stride)) % one.stride
      gcd    == EuclidGcd(one.stride, two.stride)
      lcm    == EuclidLcm(one.stride, two.stride)
      y      == Wrap(Coefficient(p, q))
      offset == Wrap((Wrap(Wrap(two.stride * y) * delta) \div gcd) + lcm) % lcm
  IN IF delta % gcd # 0
       THEN [address |-> 0, stride |-> 0, count |-> 0]
       ELSE [address |-> Wrap(two.low + offset), stride |-> lcm,
             count |-> Count(length, offset, lcm)]

-----------------------------------------------------------------------------
(* dependence_analysis.cpp                                                 *)

IsAliasBruteForce(write, read) ==
  \E j \in 0 .. NumInstances(read) - 1, i \in 0 .. NumInstances(write) - 1 :
    /\ AccessLower(write, i) <= AccessUpper(read, j)
    /\ AccessLower(read, j) <= AccessUpper(write, i)

(***************************************************************************)
(* A pattern of stride 0 is taken as one access, whose stride can be any.  *)
(***************************************************************************)
Progression(e) ==
  LET n == IF e.stride = 0
             THEN [e EXCEPT !.stride = e.length, !.start = 0, !.end = 0]
             ELSE GetNormalised(e)
  IN [low |-> n.base, high |-> GetLast(n), stride |-> n.stride]

ByGcd(write, read) ==
  write.length = read.length /\ IsAligned(write) /\ IsAligned(read)

IsAlias(write, read) ==
  \/ write.stride = 0 /\ read.stride = 0
  \/ IF ByGcd(write, read)
       THEN DynamicGcd(Progression(write), Progression(read)).count > 0
       ELSE IsAliasBruteForce(write, read)

\* The intervals that the tree holds, and is asked with, overlap.
Overlap(w, r) ==
  GetUpperExtent(w) >= GetLowerExtent(r) /\ GetLowerExtent(w) <= GetUpperExtent(r)
==============================================================================
