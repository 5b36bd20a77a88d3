------------------------------- MODULE MCTraces -------------------------------
(***************************************************************************)
(* The loop tracer and the readers of both its traces, for two kinds of    *)
(* programs, which together would be too many: one calls nothing in the    *)
(* loop, and has three invocations that may share groups and a dump, or    *)
(* two invocations and two dumps; the other makes calls only, in up to two *)
(* invocations, with a dump.                                               *)
(***************************************************************************)
EXTENDS CallTraceReader

VARIABLE program

programVars == <<globals, atCall, closed, history, idleDump, program>>

Dumps == globals.traceDumpID

\* The bounds of either kind, besides those of LoopTracer: the time runs out
\* only where less was executed than the bound.
Iterations == FoldLeft(LAMBDA n, h : n + Len(h.iterations), 0, history)

WithinLoops ==
  /\ atCall = 0 /\ Iterations <= 5
  /\ Executed <= IF globals.timedOut THEN 2 ELSE 3

WithinCalls ==
  /\ Len(history) <= 2 /\ Iterations <= 3 /\ Dumps <= 1
  /\ (globals.timedOut => Executed <= 3)
  /\ \A h \in ToSet(history) :
       Len(h.iterations) <= 2 /\ \A body \in ToSet(h.iterations) : ToSet(body) \cap Instrs = {}

Within == IF program = "loops" THEN WithinLoops ELSE WithinCalls

ProgramsInit == program \in {"loops", "calls"} /\ Init

ProgramsNext == Next /\ UNCHANGED program /\ Within'

ProgramsSpec == ProgramsInit /\ [][ProgramsNext]_programVars
==============================================================================
