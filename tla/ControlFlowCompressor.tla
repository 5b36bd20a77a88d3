------------------------ MODULE ControlFlowCompressor ------------------------
(***************************************************************************)
(* The control flow compressors of the loop and call tracers: each keeps   *)
(* the sequence of instructions that one iteration, or one invocation,     *)
(* executed, as nested repeated patterns.  A symbol is the address of an   *)
(* instruction.  Several compressors share one allocator, and the tracer   *)
(* compares them to find the iterations that did the same.                 *)
(***************************************************************************)
EXTENDS Integers, Sequences, FiniteSets, FiniteSetsExt, SequencesExt

CONSTANTS
  Symbols,          \* the instructions
  MaxWindowLength,  \* maxWindowLength
  Compressors,      \* the compressors of one allocator
  MaxSymbols        \* bound: symbols in all of them together

ASSUME CompressorAssumption ==
  /\ Symbols \subseteq Nat \ {0}
  /\ {MaxWindowLength, MaxSymbols} \subseteq Nat \ {0}

VARIABLES
  window,     \* the patterns of each compressor's window, youngest first
  stored,     \* its storedPatterns, oldest first
  allocated,  \* the number of patterns the allocator has handed out
  inserted    \* history: the symbols inserted since the compressor was empty

vars == <<window, stored, allocated, inserted>>

-----------------------------------------------------------------------------
(* TracerCompressionPattern: a symbol, or a pattern with its repetitions.  *)
(* The field the code leaves uninitialised, and reads in neither case, is  *)
(* 0, so that operator== is equality.                                      *)

Symbol(s) == [sym |-> s, pattern |-> <<>>, numRepetitions |-> 0]

Group(ps, n) == [sym |-> 0, pattern |-> ps, numRepetitions |-> n]

IsGroup(p) == p.pattern # <<>>

RECURSIVE Decompress(_)
Decompress(p) ==
  LET once == FlattenSeq([i \in DOMAIN p.pattern |-> Decompress(p.pattern[i])])
  IN IF IsGroup(p)
     THEN FlattenSeq([i \in 1 .. p.numRepetitions |-> once])
     ELSE <<p.sym>>

RECURSIVE Patterns(_)
\* The pattern objects that ps owns, which are deleted with it.
Patterns(ps) ==
  FoldLeft(LAMBDA n, p : n + 1 + Patterns(p.pattern), 0, ps)

PatternMatchesSymbols(p, w) == IsPrefix(Reverse(p.pattern), w)

-----------------------------------------------------------------------------
(* match and merge, on a window w of which used patterns are allocated     *)

MatchIndices(w) ==
  {i \in 1 .. Min({MaxWindowLength \div 2 + 1, Len(w) - 1}) :
     i = Len(w[i + 1].pattern) /\ PatternMatchesSymbols(w[i + 1], w)}

Match(m) ==
  LET w == m.w
      i == Max(MatchIndices(w))
  IN [w    |-> <<[w[i + 1] EXCEPT !.numRepetitions = @ + 1]>> \o SubSeq(w, i + 2, Len(w)),
      used |-> m.used - Patterns(SubSeq(w, 1, i))]

IsRepeatedSequence(w, width) ==
  SubSeq(w, 1, width) = SubSeq(w, width + 1, 2 * width)

MergeWidths(w) == {n \in 1 .. Len(w) \div 2 : IsRepeatedSequence(w, n)}

\* Mutant: the vector is filled from the youngest pattern to the oldest.
Merge_YoungestFirst(m) ==
  LET w == m.w
      n == Max(MergeWidths(w))
  IN [w    |-> <<Group(SubSeq(w, 1, n), 2)>> \o SubSeq(w, 2 * n + 1, Len(w)),
      used |-> m.used - Patterns(SubSeq(w, n + 1, 2 * n)) + 1]

\* Mutant: the older half is not deleted.
Merge_KeepsOlderHalf(m) ==
  LET w == m.w
      n == Max(MergeWidths(w))
  IN [w    |-> <<Group(Reverse(SubSeq(w, 1, n)), 2)>> \o SubSeq(w, 2 * n + 1, Len(w)),
      used |-> m.used + 1]

Merge(m) ==
  LET w == m.w
      n == Max(MergeWidths(w))
  IN [w    |-> <<Group(Reverse(SubSeq(w, 1, n)), 2)>> \o SubSeq(w, 2 * n + 1, Len(w)),
      used |-> m.used - Patterns(SubSeq(w, n + 1, 2 * n)) + 1]

\* Mutant: a merge is not followed by another attempt.
Compress_Once(m) ==
  CASE MatchIndices(m.w) # {} -> Match(m)
    [] MatchIndices(m.w) = {} /\ MergeWidths(m.w) # {} -> Merge(m)
    [] OTHER -> m

RECURSIVE Compress(_)
Compress(m) ==
  CASE MatchIndices(m.w) # {} -> Compress(Match(m))
    [] MatchIndices(m.w) = {} /\ MergeWidths(m.w) # {} -> Compress(Merge(m))
    [] OTHER -> m

-----------------------------------------------------------------------------
(* Comparison: storedPatterns, then the window from its oldest pattern     *)

Contents(c) == stored[c] \o Reverse(window[c])

\* Mutant: only what is still in the windows is compared.
Equal_Windows(c, d) == window[c] = window[d]

Equal(c, d) == Contents(c) = Contents(d)

DecompressAll(ps) == FlattenSeq([i \in DOMAIN ps |-> Decompress(ps[i])])

-----------------------------------------------------------------------------
(* Operations                                                              *)

Init ==
  /\ window = [c \in Compressors |-> <<>>]
  /\ stored = [c \in Compressors |-> <<>>]
  /\ allocated = 0
  /\ inserted = [c \in Compressors |-> <<>>]

Overflows(w) == Len(w) > MaxWindowLength

InsertSymbol(c, s) ==
  /\ MapThenSumSet(LAMBDA d : Len(inserted[d]), Compressors) < MaxSymbols
  /\ LET m == Compress([w |-> <<Symbol(s)>> \o window[c], used |-> allocated + 1])
     IN /\ window' = [window EXCEPT ![c] = IF Overflows(m.w) THEN Front(m.w) ELSE m.w]
        /\ stored' = [stored EXCEPT ![c] = IF Overflows(m.w) THEN Append(@, Last(m.w)) ELSE @]
        /\ allocated' = m.used
  /\ inserted' = [inserted EXCEPT ![c] = Append(@, s)]

(***************************************************************************)
(* clear, which the tracer calls once it has found the compressor's        *)
(* contents among those it keeps.                                          *)
(***************************************************************************)
Clear(c) ==
  /\ inserted[c] # <<>>
  /\ allocated' = allocated - Patterns(window[c]) - Patterns(stored[c])
  /\ window' = [window EXCEPT ![c] = <<>>]
  /\ stored' = [stored EXCEPT ![c] = <<>>]
  /\ inserted' = [inserted EXCEPT ![c] = <<>>]

Next ==
  \E c \in Compressors :
    \/ \E s \in Symbols : InsertSymbol(c, s)
    \/ Clear(c)

Spec == Init /\ [][Next]_vars

-----------------------------------------------------------------------------
(* Properties                                                              *)

RECURSIVE IsPattern(_)
IsPattern(p) ==
  IF IsGroup(p)
  THEN /\ p = Group(p.pattern, p.numRepetitions)
       /\ p.numRepetitions >= 2
       /\ \A i \in DOMAIN p.pattern : IsPattern(p.pattern[i])
  ELSE p \in {Symbol(s) : s \in Symbols}

(***************************************************************************)
(* The window keeps to its maximum length, and what is in it, or was       *)
(* pushed out of it, are symbols and patterns that occurred at least twice.*)
(***************************************************************************)
TypeOK ==
  /\ \A c \in Compressors :
       /\ Len(window[c]) <= MaxWindowLength
       /\ \A i \in DOMAIN Contents(c) : IsPattern(Contents(c)[i])
  /\ allocated \in Nat
  /\ inserted \in [Compressors -> Seq(Symbols)]

(***************************************************************************)
(* Compression loses nothing: each compressor decompresses to exactly the  *)
(* symbols inserted since it was empty, in their order, those that were    *)
(* pushed out of the window included.  All this in well-typed states.      *)
(***************************************************************************)
Lossless ==
  /\ TypeOK
  /\ \A c \in Compressors : DecompressAll(Contents(c)) = inserted[c]

(***************************************************************************)
(* In ps, oldest first, some sequence occurs twice in a row, or once more  *)
(* after the pattern that repeats it; or it does in one of its patterns.   *)
(***************************************************************************)
RECURSIVE HasRepeat(_)
HasRepeat(ps) ==
  \E i \in DOMAIN ps :
    \/ \E n \in 1 .. Len(ps) :
         /\ i + 2 * n - 1 <= Len(ps)
         /\ SubSeq(ps, i, i + n - 1) = SubSeq(ps, i + n, i + 2 * n - 1)
    \/ IsGroup(ps[i]) /\ IsPrefix(ps[i].pattern, SubSeq(ps, i + 1, Len(ps)))
    \/ HasRepeat(ps[i].pattern)

(***************************************************************************)
(* Match and merge look at the young end of the window only, and match     *)
(* only some way into it; nevertheless nothing is left in a window, on any *)
(* level of its patterns, that could be compressed further, as the class's *)
(* comment (ControlFlowCompressor.h:78) promises.                          *)
(***************************************************************************)
FullyCompressed ==
  \A c \in Compressors : ~ HasRepeat(Reverse(window[c]))

(***************************************************************************)
(* The allocator's account is exact: match, merge and clear delete each    *)
(* pattern they drop once, and none that became part of another.           *)
(***************************************************************************)
AllocationsExact ==
  allocated = MapThenSumSet(LAMBDA c : Patterns(Contents(c)), Compressors)

(***************************************************************************)
(* Two compressors compare equal exactly if the same symbols were inserted *)
(* into both, however their contents are divided between the windows and   *)
(* the stored patterns: the tracer never merges two iterations that        *)
(* differ, and never keeps the same one twice for being compressed         *)
(* differently (IterationInfo::doesCfcMatch).                              *)
(***************************************************************************)
EqualIffSameTrace ==
  \A c, d \in Compressors : Equal(c, d) <=> inserted[c] = inserted[d]
=============================================================================
