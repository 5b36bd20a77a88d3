---------------------------- MODULE MCMemoryTracer ----------------------------
(***************************************************************************)
(* Operands for the model checker: accesses of two widths at addresses     *)
(* that form ascending, descending and broken strides, reads alone, both   *)
(* reads, a read and a write, and a call whose operands are all absent.    *)
(***************************************************************************)
EXTENDS MemoryTracer

At(x, n) == [addr |-> x, len |-> n]
None == At(0, 0)

MCOperands ==
  {[r1 |-> At(1, 1), r2 |-> None, w |-> None],
   [r1 |-> At(5, 1), r2 |-> At(3, 1), w |-> None],
   [r1 |-> At(7, 2), r2 |-> None, w |-> At(1, 1)],
   [r1 |-> At(3, 1), r2 |-> None, w |-> At(5, 1)],
   [r1 |-> None, r2 |-> None, w |-> None]}

\* What the theorems about the cuts and the store ask of the operands.
ASSUME MCUserAddresses == UserAddresses
==============================================================================
