-------------------------- MODULE MCMemoryTraceReader --------------------------
(***************************************************************************)
(* Logs for the model checker, made of one dump or two: single accesses,   *)
(* patterns of two that are trivial (the stride is above MaxStride) or     *)
(* not, longer ascending and descending patterns to be split between       *)
(* chunks, and patterns broken by another address or another width.        *)
(***************************************************************************)
EXTENDS MemoryTraceReader

At(x, n) == [addr |-> x, len |-> n]
Bytes(addresses) == [i \in 1 .. Len(addresses) |-> At(addresses[i], 1)]

MCDumps ==
  {Bytes(<<2>>), Bytes(<<1, 2>>), Bytes(<<1, 4>>), Bytes(<<4, 1, 7>>),
   Bytes(<<1, 2, 3, 4>>), Bytes(<<7, 5, 3, 1>>), Bytes(<<3, 3, 6, 5>>),
   Bytes(<<1, 4, 5, 2>>), <<At(1, 1), At(2, 1), At(3, 2)>>}

\* One access, a trivial pattern, a long one and two broken ones.
MCSecondDumps ==
  {Bytes(<<2>>), Bytes(<<1, 4>>), Bytes(<<7, 5, 3, 1>>), Bytes(<<3, 3, 6, 5>>),
   <<At(1, 1), At(2, 1), At(3, 2)>>}

MCRuns ==
  {<<d>> : d \in MCDumps} \cup {<<d, e>> : d \in MCDumps, e \in MCSecondDumps}

\* What the theorems about the reader ask of the logs.
ASSUME MCUserAddresses == UserAddresses
==============================================================================
