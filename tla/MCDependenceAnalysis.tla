------------------------ MODULE MCDependenceAnalysis ------------------------
(***************************************************************************)
(* Executions for the model checker.  The loop writes with instruction 1,  *)
(* reads with 2 and calls, at 8 and 9, a function that writes with 11 and  *)
(* reads with 12.                                                          *)
(***************************************************************************)
EXTENDS DependenceAnalysis

CONSTANTS
  Length,       \* invocations of an execution
  Everything    \* whether traces are complete

Loop(i, a) == [call |-> 0, inst |-> 0, instr |-> i, addr |-> a, len |-> 4]
Callee(c, n, i, a) == [call |-> c, inst |-> n, instr |-> i, addr |-> a, len |-> 4]

\* What an iteration executes; the numbers of its call instances are its own.
Quiet == <<>>
Write == <<Loop(1, 16)>>
Read == <<Loop(2, 16)>>
WriteAhead == <<Loop(2, 16), Loop(1, 20)>>
Walk == <<Loop(1, 16), Loop(1, 20), Loop(1, 24)>>
Call8 == <<Callee(8, 0, 11, 16)>>
Call9 == <<Callee(9, 0, 11, 16)>>
Both == <<Callee(8, 0, 11, 20), Callee(9, 0, 12, 16)>>
Swapped == <<Callee(9, 0, 11, 16), Callee(8, 0, 11, 20)>>

(***************************************************************************)
(* The iterations put together: instances of a call are numbered over the  *)
(* whole invocation.                                                       *)
(***************************************************************************)
Numbered(iterations, j) ==
  [k \in DOMAIN iterations[j] |->
     LET x == iterations[j][k]
         earlier == {m \in 1 .. j - 1 : \E y \in ToSet(iterations[m]) : y.call = x.call}
     IN [iter |-> j - 1, call |-> x.call,
         inst |-> IF x.call = 0 THEN 0 ELSE Cardinality(earlier),
         instr |-> x.instr, addr |-> x.addr, len |-> x.len]]

Run(iterations) == FlattenSeq([j \in DOMAIN iterations |-> Numbered(iterations, j)])

Bodies == {<<Quiet, Quiet>>, <<Write, Read>>, <<Walk, Read>>, <<WriteAhead, WriteAhead, Read>>,
           <<WriteAhead, Walk>>, <<Write, Quiet, Write>>, <<Call8, Call8>>, <<Call9, Write, Call9>>,
           <<Both, Call8>>, <<Call8, Both, Read>>, <<Call8, Call9>>, <<Call9, Call8>>,
           <<Swapped, Read>>, <<Write, Call9, Read>>, <<Write, Read, Quiet, Write>>,
           <<Read, Quiet, Both>>, <<Write, WriteAhead, Call8, Walk>>}

Programs == {[n \in 1 .. Length |-> Run(b[n])] : b \in [1 .. Length -> Bodies]}

Graph == <<[from |-> 1, to |-> 2, kinds |-> {"raw", "war"}],
           [from |-> 2, to |-> 1, kinds |-> {"raw"}],
           [from |-> 1, to |-> 1, kinds |-> {"waw"}]>>

Modus(m) == {[mode |-> m, writes |-> w, ddg |-> g, recorded |-> r] :
               w \in {<<1, 11>>, <<11, 1>>},
               g \in IF m = "all" THEN {<<>>} ELSE {Graph, Tail(Graph)},
               r \in IF m = "all" /\ ~ Everything THEN {4, 20} ELSE {20}}

MCInputs ==
  {[program |-> p, reads |-> <<2, 12>>] @@ c : p \in Programs, c \in UNION {Modus(m) : m \in Modes}}

ASSUME AccessesAssumption == UserAccesses
==============================================================================
