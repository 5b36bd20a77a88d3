------------------------------- MODULE XanBitSet -------------------------------
(***************************************************************************)
(* The bit sets of xanlib (xanbitset.c): whole words of memory behind a    *)
(* length in bits that grows when a bit beyond it is set.  The operations  *)
(* work on all the words of the length, the bits of the last word beyond   *)
(* the length included, so that those must be clear when the length grows  *)
(* over them and when sets of different lengths are compared.              *)
(*                                                                         *)
(* setAll and invertBits set them: they are only called here when the      *)
(* length fills its words.  (After setAll at another length, setting a     *)
(* bit beyond it also makes the bits in between appear.)                   *)
(***************************************************************************)
EXTENDS Integers, Sequences, FiniteSets, FiniteSetsExt

CONSTANTS
  Sets,       (* the addresses of bit sets                *)
  Word,       (* BITS_IN_A_WORD                           *)
  MaxLength   (* bound: the bits of a set                 *)

BitSetAssumption == Word \in Nat \ {0} /\ MaxLength \in Nat

VARIABLES
  bitSet,   \* XanBitSet: length, capacity (in words), data (the bits that are 1)
  members   \* history: what the client put in each set

bitSetVars == <<bitSet, members>>

-----------------------------------------------------------------------------
(* Operations on bit sets; a word is the bits of its positions.            *)

WordsNecessary(length) == (length + Word - 1) \div Word
CapacityNecessary(length) == WordsNecessary(length + length \div 2)

BitsOfWords(s, first, last) == {b \in s.data : first <= b \div Word /\ b \div Word < last}
WordsOf(s) == WordsNecessary(s.length)
AllBits(n) == 0 .. n * Word - 1

EmptySet(length) ==
  [length |-> length, capacity |-> CapacityNecessary(length), data |-> {}]

\* Without the capacity, the words of the old length move to new, clear memory.
Expand(s, length) ==
  IF WordsNecessary(length) <= s.capacity THEN [s EXCEPT !.length = length]
  ELSE [EmptySet(length) EXCEPT !.data = BitsOfWords(s, 0, WordsOf(s))]

AtLeast(s, length) == IF length > s.length THEN Expand(s, length) ELSE s

Shared(s, t) == IF WordsOf(s) < WordsOf(t) THEN WordsOf(s) ELSE WordsOf(t)

Intersected(dest, src) ==
  [dest EXCEPT !.data = (@ \cap BitsOfWords(src, 0, Shared(dest, src)))
                          \cup (@ \ AllBits(WordsOf(dest)))]

United(dest, src) ==
  [AtLeast(dest, src.length) EXCEPT !.data = @ \cup BitsOfWords(src, 0, WordsOf(src))]

\* Mutant: the words beyond the source are not cleared.
Copied_KeepsRest(dest, src) ==
  [AtLeast(dest, src.length)
     EXCEPT !.data = BitsOfWords(src, 0, WordsOf(src)) \cup (@ \ AllBits(WordsOf(src)))]

Copied(dest, src) ==
  [AtLeast(dest, src.length)
     EXCEPT !.data = BitsOfWords(src, 0, WordsOf(src))
                       \cup (@ \ AllBits(WordsOf(AtLeast(dest, src.length))))]

CloneOf(src) ==
  [EmptySet(src.length) EXCEPT !.data = BitsOfWords(src, 0, WordsOf(src))]

Subtracted(from, s) ==
  [from EXCEPT !.data = @ \ BitsOfWords(s, 0, Shared(from, s))]

Cleared(s) == [s EXCEPT !.data = @ \ AllBits(WordsOf(s))]
Filled(s) == [s EXCEPT !.data = @ \cup AllBits(WordsOf(s))]
Inverted(s) ==
  [s EXCEPT !.data = (AllBits(WordsOf(s)) \ @) \cup (@ \ AllBits(WordsOf(s)))]

WithBits(s, start, end) == [AtLeast(s, end + 1) EXCEPT !.data = @ \cup (start .. end)]
WithoutBit(s, pos) == IF pos < s.length THEN [s EXCEPT !.data = @ \ {pos}] ELSE s

IsBitSet(s, pos) == pos < s.length /\ pos \in s.data

\* xanBitSet_equal and xanBitSet_areEqual: the words in common, then the rest zero.
Equal(s, t) ==
  LET n == Shared(s, t)
  IN /\ BitsOfWords(s, 0, n) = BitsOfWords(t, 0, n)
     /\ BitsOfWords(s, n, WordsOf(s)) = {} /\ BitsOfWords(t, n, WordsOf(t)) = {}

IsSubSetOf(s, t) ==
  LET n == IF s.length < t.length THEN s.length ELSE t.length
  IN /\ \A b \in 0 .. n - 1 : b \in s.data => b \in t.data
     /\ \A b \in n .. s.length - 1 : b \notin s.data

IsIntersectionEmpty(s, t) ==
  BitsOfWords(s, 0, Shared(s, t)) \cap BitsOfWords(t, 0, Shared(s, t)) = {}

IsEmpty(s) == BitsOfWords(s, 0, WordsOf(s)) = {}

Count(s) == Cardinality(s.data \cap 0 .. s.length - 1)

(***************************************************************************)
(* The searches skip the words without a bit that is set (or clear) and    *)
(* look at the positions of the others within the range.  The length is    *)
(* not zero.                                                               *)
(***************************************************************************)
MinOrNone(S) == IF S = {} THEN -1 ELSE Min(S)
UpTo(s, end) == IF end < s.length - 1 THEN end ELSE s.length - 1

Candidates(s, start, end, Skipped) ==
  {b \in start .. end : /\ start \div Word <= b \div Word /\ b \div Word <= end \div Word
                        /\ b \div Word \notin Skipped}

GetFirstBitSetInRange(s, start, end) ==
  LET zero == {w \in 0 .. WordsOf(s) : BitsOfWords(s, w, w + 1) = {}}
  IN MinOrNone({b \in Candidates(s, start, UpTo(s, end), zero) : b \in s.data})

GetFirstBitUnsetInRange(s, start, end) ==
  LET full  == {w \in 0 .. WordsOf(s) : Cardinality(BitsOfWords(s, w, w + 1)) = Word}
      found == {b \in Candidates(s, start, UpTo(s, end), full) : b \notin s.data}
  IN IF found # {} THEN Min(found) ELSE IF end >= s.length THEN s.length ELSE -1

(***************************************************************************)
(* writeRangeToCompressedFile of the loop tracer: the ranges of bits that  *)
(* are set, found by asking in turn for the next bit set after the unset   *)
(* one that ended the last range, and for the next bit unset after that.   *)
(***************************************************************************)
Ranges(s) ==
  LET range(after) ==
        LET first == GetFirstBitSetInRange(s, after + 1, s.length)
            unset == GetFirstBitUnsetInRange(s, first, s.length)
        IN IF first = -1 THEN <<>>
           ELSE <<<<first, IF unset = -1 THEN s.length - 1 ELSE unset - 1>>>>
      found[n \in 0 .. s.length] ==
        IF n = 0 THEN range(-1)
        ELSE LET so_far == found[n - 1]
             IN IF Len(so_far) < n THEN so_far ELSE so_far \o range(so_far[n][2] + 1)
  IN found[s.length]

-----------------------------------------------------------------------------
Init ==
  /\ bitSet = [x \in Sets |-> EmptySet(1)]
  /\ members = [x \in Sets |-> {}]

Becomes(x, s, expected) ==
  /\ s.length <= MaxLength
  /\ bitSet' = [bitSet EXCEPT ![x] = s]
  /\ members' = [members EXCEPT ![x] = expected]

New(x, length) == Becomes(x, EmptySet(length), {})

SetBits(x, start, end) ==
  Becomes(x, WithBits(bitSet[x], start, end), members[x] \cup (start .. end))

ClearBit(x, pos) == Becomes(x, WithoutBit(bitSet[x], pos), members[x] \ {pos})

ClearAll(x) == Becomes(x, Cleared(bitSet[x]), {})

FillsItsWords(s) == s.length % Word = 0

SetAll(x) ==
  /\ FillsItsWords(bitSet[x])
  /\ Becomes(x, Filled(bitSet[x]), 0 .. bitSet[x].length - 1)

InvertBits(x) ==
  /\ FillsItsWords(bitSet[x])
  /\ Becomes(x, Inverted(bitSet[x]), (0 .. bitSet[x].length - 1) \ members[x])

Intersect(x, y) ==
  Becomes(x, Intersected(bitSet[x], bitSet[y]), members[x] \cap members[y])

Union(x, y) == Becomes(x, United(bitSet[x], bitSet[y]), members[x] \cup members[y])

Subtract(x, y) == Becomes(x, Subtracted(bitSet[x], bitSet[y]), members[x] \ members[y])

Copy(x, y) == Becomes(x, Copied(bitSet[x], bitSet[y]), members[y])

Clone(x, y) == Becomes(x, CloneOf(bitSet[y]), members[y])

Next ==
  \E x \in Sets :
    \/ \E length \in 1 .. MaxLength : New(x, length)
    \/ \E start, end \in 0 .. MaxLength - 1 : start <= end /\ SetBits(x, start, end)
    \/ \E pos \in 0 .. MaxLength - 1 : ClearBit(x, pos)
    \/ ClearAll(x) \/ SetAll(x) \/ InvertBits(x)
    \/ \E y \in Sets :
         \/ Intersect(x, y) \/ Union(x, y) \/ Subtract(x, y)
         \/ Copy(x, y) \/ Clone(x, y)

Spec == Init /\ [][Next]_bitSetVars

-----------------------------------------------------------------------------
(***************************************************************************)
(* A bit set holds the bits that its client put there, and every question  *)
(* about one or two sets, of any lengths, is answered for those bits: a    *)
(* bit that an expansion uncovers is clear, and a shorter set compares     *)
(* with a longer one as if it were as long.                                *)
(***************************************************************************)
BitSetsAreSets ==
  \A x, y \in Sets :
    LET s == bitSet[x]
        t == bitSet[y]
    IN /\ {pos \in 0 .. MaxLength : IsBitSet(s, pos)} = members[x]
       /\ Count(s) = Cardinality(members[x])
       /\ IsEmpty(s) <=> members[x] = {}
       /\ Equal(s, t) <=> members[x] = members[y]
       /\ IsSubSetOf(s, t) <=> members[x] \subseteq members[y]
       /\ IsIntersectionEmpty(s, t) <=> members[x] \cap members[y] = {}

(***************************************************************************)
(* The ranges that the loop tracer writes for the invocations that share   *)
(* iterations are the maximal runs of the set, in order: those read back   *)
(* from the file are those that were in the set, and a gap stays a gap.    *)
(***************************************************************************)
RangesExact ==
  \A x \in Sets :
    LET ranges == Ranges(bitSet[x])
    IN /\ members[x] = UNION {ranges[n][1] .. ranges[n][2] : n \in DOMAIN ranges}
       /\ \A n \in DOMAIN ranges : ranges[n][1] <= ranges[n][2]
       /\ \A n \in 1 .. Len(ranges) - 1 : ranges[n][2] + 1 < ranges[n + 1][1]
=============================================================================
