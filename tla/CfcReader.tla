------------------------------ MODULE CfcReader ------------------------------
(***************************************************************************)
(* How the contents of a compressor are written into a trace and read back *)
(* by the analysis: operator<< of ControlFlowCompressor.cpp, readCfc of    *)
(* the loop and the call trace's scanner, and the counts the analysis      *)
(* keeps of what it read.  A token is a number or a character: "(", ","    *)
(* or ")".                                                                 *)
(***************************************************************************)
EXTENDS ControlFlowCompressor

Mark(c) == [kind |-> c, n |-> 0]
Number(n) == [kind |-> "number", n |-> n]

-----------------------------------------------------------------------------
(* operator<<                                                              *)

RECURSIVE Written(_)
Written(p) ==
  LET inner == FlattenSeq([i \in DOMAIN p.pattern |-> Written(p.pattern[i])])
  IN IF IsGroup(p)
     THEN <<Mark("(")>> \o inner \o <<Mark(","), Number(p.numRepetitions), Mark(")")>>
     ELSE <<Mark("("), Number(p.sym), Mark(")")>>

WrittenAll(ps) == FlattenSeq([i \in DOMAIN ps |-> Written(ps[i])])

-----------------------------------------------------------------------------
(* readCfc, first pass: the instructions of the loop.                      *)

FirstPass(r, t) ==
  CASE t.kind = "number" /\ r.cfcState = 1 -> [r EXCEPT !.cfcState = 0]
    [] t.kind = "number" /\ r.cfcState = 0 ->
         [r EXCEPT !.instructionList = @ \cup {t.n}]
    [] t.kind = "," -> [r EXCEPT !.cfcState = 1]
    [] OTHER -> r

InstructionList(ts) ==
  FoldLeft(FirstPass, [cfcState |-> 0, instructionList |-> {}], ts).instructionList

-----------------------------------------------------------------------------
(* readCfc, second pass: the patterns, with a stack of those that are open *)

\* CompressionPattern() and CompressionPattern::addPattern.
NewPattern == [sym |-> 0, pattern |-> <<>>, numRepetitions |-> 0]

AddPattern(p, q) == [p EXCEPT !.pattern = Append(@, q)]

\* Applies a change to the top of the stack.
OnTop(stack, p) == Append(Front(stack), p)

\* Mutant: a pattern that is closed inside another is added to the loop.
ClosePattern_ToLoop(r) ==
  [r EXCEPT !.stack = Front(@), !.controlFlow = Append(@, Last(r.stack))]

ClosePattern(r) ==
  LET cp == Last(r.stack)
      rest == Front(r.stack)
  IN IF rest = <<>>
     THEN [r EXCEPT !.stack = <<>>, !.controlFlow = Append(@, cp)]
     ELSE [r EXCEPT !.stack = OnTop(rest, AddPattern(Last(rest), cp))]

SecondPass(r, t) ==
  CASE t.kind = "(" -> [r EXCEPT !.stack = Append(@, NewPattern)]
    [] t.kind = ")" -> ClosePattern(r)
    [] t.kind = "," -> [r EXCEPT !.cfcState = 1]
    [] t.kind = "number" /\ r.cfcState = 1 ->
         [r EXCEPT !.stack = OnTop(@, [Last(@) EXCEPT !.numRepetitions = t.n]),
                   !.cfcState = 0]
    [] t.kind = "number" /\ r.cfcState = 0 ->
         [r EXCEPT !.stack = OnTop(@, [Last(@) EXCEPT !.sym = t.n])]

ControlFlow(ts) ==
  FoldLeft(SecondPass, [cfcState |-> 0, stack |-> <<>>, controlFlow |-> <<>>], ts).controlFlow

-----------------------------------------------------------------------------
(* getNumberOfInstancesMap and buildNumberOfInstancesLut, as a function of *)
(* all symbols that is 0 for those the map does not hold.                  *)

RECURSIVE Instances_Once(_, _)
\* Mutant: the repetitions of a pattern are not multiplied.
Instances_Once(p, s) ==
  IF IsGroup(p)
  THEN FoldLeft(LAMBDA n, q : n + Instances_Once(q, s), 0, p.pattern)
  ELSE IF p.sym = s THEN 1 ELSE 0

RECURSIVE Instances(_, _)
Instances(p, s) ==
  IF IsGroup(p)
  THEN FoldLeft(LAMBDA n, q : n + p.numRepetitions * Instances(q, s), 0, p.pattern)
  ELSE IF p.sym = s THEN 1 ELSE 0

NumInstancesLut(controlFlow) ==
  [s \in Symbols |-> FoldLeft(LAMBDA n, p : n + Instances(p, s), 0, controlFlow)]

-----------------------------------------------------------------------------
(* Properties                                                              *)

(***************************************************************************)
(* The second pass reads back the patterns that were written, at every     *)
(* depth, and the first pass collects exactly the instructions among the   *)
(* numbers, even where a number of repetitions is also an instruction's.   *)
(***************************************************************************)
ReadsBack ==
  \A c \in Compressors :
    LET ts == WrittenAll(Contents(c))
    IN /\ ControlFlow(ts) = Contents(c)
       /\ InstructionList(ts) = ToSet(inserted[c])

(***************************************************************************)
(* The analysis discards the control flow and keeps only its counts: they  *)
(* are the numbers of times the iteration executed each instruction, which *)
(* is how many accesses of its stream belong to the iteration.             *)
(***************************************************************************)
CountsInstances ==
  \A c \in Compressors :
    NumInstancesLut(ControlFlow(WrittenAll(Contents(c)))) =
      [s \in Symbols |-> Cardinality({i \in DOMAIN inserted[c] : inserted[c][i] = s})]
=============================================================================
