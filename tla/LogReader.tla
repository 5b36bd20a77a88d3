------------------------------ MODULE LogReader ------------------------------
(***************************************************************************)
(* What the reader of a memory trace promises the analysis: each request   *)
(* for n accesses is answered, with the next n accesses of the log, or     *)
(* with all that are left when fewer are.                                  *)
(***************************************************************************)
EXTENDS Naturals, Sequences

CONSTANT Sizes          \* the sizes asked for

VARIABLES log, got, asked

readerVars == <<log, got, asked>>

Rest == Len(log) - Len(got)
Due == IF asked <= Rest THEN asked ELSE Rest

Start == got = <<>> /\ asked = 0

Ask ==
  /\ asked = 0
  /\ asked' \in Sizes \ {0}
  /\ UNCHANGED <<log, got>>

Answer ==
  /\ asked > 0
  /\ asked' = 0
  /\ got' = got \o SubSeq(log, Len(got) + 1, Len(got) + Due)
  /\ UNCHANGED log

\* What is said of the answers, and that there are answers.
SafeSpec == Start /\ [][Ask \/ Answer]_readerVars

Spec == SafeSpec /\ WF_readerVars(Answer)
==============================================================================
