----------------------------- MODULE MCAliasCheck -----------------------------
(***************************************************************************)
(* Patterns for the model checker: ascending, descending and constant, of  *)
(* one to four accesses, at bases around 64 so that no pattern wraps; of   *)
(* one width and aligned, or of several widths or not aligned.             *)
(***************************************************************************)
EXTENDS AliasCheck

Patterns(bases, strides, lengths, counts) ==
  {[base |-> b, stride |-> d, length |-> l, start |-> 0, end |-> n - 1] :
     b \in bases, d \in strides, l \in lengths, n \in counts}

\* Strides of aligned 4-byte accesses, and mixed widths.
MCEntries ==
  Patterns({64, 68, 76}, {-12, -8, -4, 0, 4, 8, 12, 20}, {4}, 1 .. 4)
    \cup Patterns({66, 72}, {-8, 0, 3, 16}, {1, 8}, {1, 3})

\* Two strides whose coefficient is negative.
MCNegative == Patterns({64, 68}, {12, 20}, {4}, {2, 3})
==============================================================================
