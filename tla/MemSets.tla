------------------------------- MODULE MemSets -------------------------------
(***************************************************************************)
(* The strided access pattern (TracerMemSetEntry in MemoryTracer.cpp,      *)
(* MemSetEntry in static_inst_rec) and the pure operations on it.  The     *)
(* tracer and the analysis each declare the pattern, with the same fields; *)
(* this module is used by the models of both.                              *)
(*                                                                         *)
(* An entry stands for the dynamic instances start..end of one             *)
(* instruction: instance start+n accessed `length' bytes at base+n*stride, *)
(* computed in the machine's unsigned words.                               *)
(***************************************************************************)
EXTENDS Integers, Sequences

CONSTANTS
  H,            (* half the number of machine words: 2^63, or 2^31         *)
  MaxStride     (* MemSetEntry::maxStride                                  *)

ASSUME HAssumption == H \in Nat \ {0}
ASSUME MaxStrideAssumption == MaxStride \in Nat

M == 2 * H

Word == 0 .. (M - 1)
SignedWord == (-H) .. (H - 1)

Wrap(x) == x % M                                    \* to uintptr_t
Signed(x) == IF x < H THEN x ELSE x - M             \* uintptr_t to intptr_t
Magnitude(x) == IF x < 0 THEN -x ELSE x             \* abs

(***************************************************************************)
(* Instance numbers and lengths are 64-bit counters that no run of a       *)
(* program exhausts, so they are natural numbers; addresses do wrap.       *)
(***************************************************************************)
Access == [addr : Word, len : Nat]

MemSetEntry ==
  [base : Word, stride : SignedWord, length : Nat, start : Nat, end : Nat]

MemSet == Seq(MemSetEntry)

NumInstances(e) == e.end - e.start + 1
AccessLower(e, n) == Wrap(e.base + n * e.stride)
Prediction(e) == Wrap(e.base + e.stride * NumInstances(e))

-----------------------------------------------------------------------------
(* Recording an access: TracerMemSet.                                      *)

NewMemSetEntry(a, at) ==
  [base |-> a.addr, stride |-> 0, length |-> a.len, start |-> at, end |-> at]

\* Mutant: the new entry starts at the last instance of the one before.
NextInstance_NoIncrement(set) == IF set = <<>> THEN 0 ELSE set[Len(set)].end

NextInstance(set) == IF set = <<>> THEN 0 ELSE set[Len(set)].end + 1

\* Mutant: an access of another width joins the pattern.
JoinsPattern_AnyWidth(set, a) ==
  /\ set # <<>>
  /\ LET prev == set[Len(set)]
     IN prev.start = prev.end \/ Prediction(prev) = a.addr

(***************************************************************************)
(* The access joins the last pattern when the widths agree and the pattern *)
(* either has no stride yet or predicts the access.                        *)
(***************************************************************************)
JoinsPattern(set, a) ==
  /\ set # <<>>
  /\ LET prev == set[Len(set)]
     IN /\ prev.length = a.len
        /\ prev.start = prev.end \/ Prediction(prev) = a.addr

\* Mutant: the stride is kept as an unsigned distance.
ExtendPattern_Unsigned(e, a) ==
  [e EXCEPT !.stride = IF e.start = e.end THEN Wrap(a.addr - e.base) ELSE @,
            !.end = @ + 1]

ExtendPattern(e, a) ==
  [e EXCEPT !.stride = IF e.start = e.end THEN Signed(Wrap(a.addr - e.base)) ELSE @,
            !.end = @ + 1]

RecordMemoryReference(set, a) ==
  IF JoinsPattern(set, a)
    THEN [set EXCEPT ![Len(set)] = ExtendPattern(@, a)]
    ELSE Append(set, NewMemSetEntry(a, NextInstance(set)))

-----------------------------------------------------------------------------
(* Writing a set to a file and the reader's conversion back.               *)

\* Mutant: every base is written as the distance from the first.
DumpedBase_FromFirst(set, i) ==
  IF i = 1 THEN set[1].base ELSE Signed(Wrap(set[i].base - set[1].base))

(***************************************************************************)
(* TracerMemSet::dumpSet: the first base is printed unsigned, every later  *)
(* one as the signed distance from the base before it; instance numbers    *)
(* are not written, only how many there are.                               *)
(***************************************************************************)
DumpedBase(set, i) ==
  IF i = 1 THEN set[1].base ELSE Signed(Wrap(set[i].base - set[i - 1].base))

DumpSet(set) ==
  [i \in 1 .. Len(set) |->
     [base |-> DumpedBase(set, i), stride |-> set[i].stride,
      length |-> set[i].length, reps |-> NumInstances(set[i])]]

(***************************************************************************)
(* ALPHTOSIGNED is strtol, which saturates: a number above the largest     *)
(* intptr_t is read as the largest intptr_t.  getAbsoluteBase adds the     *)
(* number to the base of the entry before (0 at the start of a segment).   *)
(***************************************************************************)
ParseSigned(x) == IF x >= H THEN H - 1 ELSE x
AbsoluteBase(lastAccess, x) == Wrap(lastAccess + ParseSigned(x))

-----------------------------------------------------------------------------
(* The analysis' operations on an entry: MemSetEntry.                      *)

(***************************************************************************)
(* splitOffEnd(n) keeps all but the last n instances and returns those.    *)
(***************************************************************************)
SplitOffEnd(e, n) ==
  LET remaining == NumInstances(e) - n
  IN [kept |-> [e EXCEPT !.end = @ - n],
      off  |-> [e EXCEPT !.base = Wrap(e.base + remaining * e.stride),
                         !.start = e.start + remaining]]

IsTrivialPattern(e) == NumInstances(e) = 2 /\ Magnitude(e.stride) > MaxStride

SplitTrivial(e) ==
  [kept |-> [e EXCEPT !.end = e.start],
   off  |-> [e EXCEPT !.base = Wrap(e.base + e.stride), !.start = e.start + 1]]

-----------------------------------------------------------------------------
(* What a set stands for.                                                  *)

(***************************************************************************)
(* The entries number their instances without a gap, from `from' on.       *)
(***************************************************************************)
ContiguousFrom(set, from) ==
  \A i \in 1 .. Len(set) :
    /\ set[i].start <= set[i].end
    /\ set[i].start = IF i = 1 THEN from ELSE set[i - 1].end + 1

AccessAt(set, k) ==
  LET i == CHOOSE j \in 1 .. Len(set) : k \in set[j].start .. set[j].end
  IN [addr |-> AccessLower(set[i], k - set[i].start), len |-> set[i].length]

(***************************************************************************)
(* The accesses of a contiguous set, oldest first.                         *)
(***************************************************************************)
Expand(set) ==
  IF set = <<>> THEN <<>>
  ELSE [k \in 1 .. (NextInstance(set) - set[1].start) |->
          AccessAt(set, set[1].start + k - 1)]

(***************************************************************************)
(* The entries that the reader's conversions rebuild from a dumped set     *)
(* when its first instance has number `from'.                              *)
(***************************************************************************)
Undump(seg, from) ==
  LET entry[i \in 1 .. Len(seg)] ==
        LET d  == seg[i]
            at == IF i = 1 THEN from ELSE entry[i - 1].end + 1
        IN [base |-> AbsoluteBase(IF i = 1 THEN 0 ELSE entry[i - 1].base, d.base),
            stride |-> d.stride, length |-> d.length,
            start |-> at, end |-> at + d.reps - 1]
  IN [i \in 1 .. Len(seg) |-> entry[i]]
==============================================================================
