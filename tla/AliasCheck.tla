------------------------------ MODULE AliasCheck ------------------------------
(***************************************************************************)
(* The alias test on pairs of patterns, with what it should find.          *)
(***************************************************************************)
EXTENDS AliasTest

CONSTANT Entries    \* the patterns that are compared

(***************************************************************************)
(* The accesses of a program are in the lower half of memory, where no     *)
(* pattern of them wraps.                                                  *)
(***************************************************************************)
InLowerHalf(e) ==
  \A n \in 0 .. NumInstances(e) - 1 :
    e.base + n * e.stride \in 0 .. H - e.length

ASSUME EntriesAssumption ==
  Entries \subseteq {e \in MemSetEntry : e.length > 0 /\ e.start <= e.end /\ InLowerHalf(e)}

-----------------------------------------------------------------------------
VARIABLES write, read, alias

vars == <<write, read, alias>>

Init ==
  /\ write \in Entries /\ read \in Entries
  /\ Overlap(write, read)
  /\ alias = "unknown"

Check ==
  /\ alias = "unknown"
  /\ alias' = IF IsAlias(write, read) THEN "yes" ELSE "no"
  /\ UNCHANGED <<write, read>>

Spec == Init /\ [][Check]_vars

-----------------------------------------------------------------------------
(* What the test should find.                                              *)

Points(p) == {p.low + k * p.stride : k \in 0 .. (p.high - p.low) \div p.stride}

Bytes(e) ==
  UNION {AccessLower(e, n) .. AccessUpper(e, n) : n \in 0 .. NumInstances(e) - 1}

Write == Progression(write)
Read == Progression(read)
RangesOverlap(p, q) == p.low <= q.high /\ q.low <= p.high
Clashes == Points(Write) \cap Points(Read)

(***************************************************************************)
(* extended_euclid: "Returns (x, y) solution to ax + by = gcd(a, b)".      *)
(***************************************************************************)
Bezout ==
  LET xy == ExtendedEuclid(Write.stride, Read.stride)
  IN /\ Write.stride * xy[1] + Read.stride * xy[2] = EuclidGcd(Write.stride, Read.stride)
     /\ Write.stride % EuclidGcd(Write.stride, Read.stride) = 0
     /\ Read.stride % EuclidGcd(Write.stride, Read.stride) = 0

(***************************************************************************)
(* dynamic_gcd.h: "Returns (lowest clashing address, stride between        *)
(* clashes, number of clashes)" and "Ranges must be at least overlapping".  *)
(***************************************************************************)
FindsClashes ==
  ByGcd(write, read) /\ RangesOverlap(Write, Read) =>
    LET found == DynamicGcd(Write, Read)
    IN /\ found.count = Cardinality(Clashes)
       /\ Clashes # {} =>
            Clashes = {found.address + k * found.stride : k \in 0 .. found.count - 1}

(***************************************************************************)
(* dynamic_gcd does so when no product exceeds the word: that of the       *)
(* strides, and that of the strides and the coefficient if the coefficient *)
(* is not negative.  A negative coefficient is multiplied as a large       *)
(* unsigned number, and the quotient by the gcd is off by the number of    *)
(* words over the gcd; that is a multiple of lcm only if the product of    *)
(* the strides divides the number of words, a power of two.  The           *)
(* coefficients are always those of Bezout.                                *)
(***************************************************************************)
Divides ==
  LET strides == Write.stride * Read.stride
      y       == Coefficient(Write, Read)
  IN /\ strides <= H
     /\ IF y >= 0 THEN strides * (y + 1) <= M ELSE M % strides = 0

FindsClashesWhenItDivides == Bezout /\ (Divides => FindsClashes)

(***************************************************************************)
(* isAlias then answers whether the two patterns touch a common byte, if   *)
(* every access of the patterns it compares by the GCD test is aligned.    *)
(***************************************************************************)
AllAligned(e) == IsAligned(e) /\ (e.stride % e.length = 0 \/ e.start = e.end)

AnswersCommonByte ==
  alias # "unknown" /\ (ByGcd(write, read) => Divides /\ AllAligned(write) /\ AllAligned(read)) =>
    (alias = "yes" <=> Bytes(write) \cap Bytes(read) # {})
==============================================================================
