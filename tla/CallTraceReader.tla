--------------------------- MODULE CallTraceReader ---------------------------
(***************************************************************************)
(* How the analysis reads the call trace (call_trace_cfc_parser.lex,       *)
(* CallTraceStreamer, CallTrace.cpp), and how it combines the two traces:  *)
(* an instruction of a function called from the loop is in the iteration   *)
(* of the call, and the call is found by counting instances through all    *)
(* calls of an invocation in the order of their iterations.  Line by line  *)
(* the two files are scanned, and their entries joined, in the same way.   *)
(***************************************************************************)
EXTENDS LoopTraceReader

-----------------------------------------------------------------------------
(* The call trace of an invocation: for each call, groups of instances.    *)

Instances(calls, c) == IF c \in DOMAIN calls THEN calls[c] ELSE <<>>

\* The instances of a call are joined as the iterations of a loop are.
AddCallTraceCall(a, b) == MergeGroups(a, b)

\* Mutant: a call known from the earlier dump is replaced by its rest.
MergeCallInfo_Replaces(a, b) ==
  [c \in DOMAIN a \cup DOMAIN b |-> IF c \in DOMAIN b THEN b[c] ELSE a[c]]

MergeCallInfo(a, b) ==
  [c \in DOMAIN a \cup DOMAIN b |-> AddCallTraceCall(Instances(a, c), Instances(b, c))]

\* parseCallTrace
ReadCalls(file) ==
  LET r == ReadEntries(file)
  IN [r EXCEPT !.read = [j \in DOMAIN @ |->
        [ranges |-> @[j].ranges, body |-> FoldLeft(MergeCallInfo, <<>>, @[j].parts)]]]

\* RepetitionPatternLookup::lookupData
Lookup(groups, n) ==
  LET lut == Lut(groups)
  IN lut[Min({j \in DOMAIN lut : lut[j].last >= n})].group

\* getInvocCallTraceFromInvocNumber
CallEntry(read, n) == read[Lookup(read, n)].body

-----------------------------------------------------------------------------
(* buildCallTraceCache: a cursor for each call steps through its instances;*)
(* of those in the earliest iteration the first is taken, and each of its  *)
(* sub-instructions gets an entry for its next instances.                  *)

\* invocationInstancesLut
InvocationInstances(groups, c) ==
  FoldLeft(LAMBDA n, e : n + NumInstances(groups[e.group], c) * (e.last - e.first + 1),
           0, Lut(groups))

Cursor(groups, c, instance) ==
  [call |-> c, instance |-> instance,
   iteration |-> IterationNumber(InstanceLut(groups, c), instance)]

\* Mutant: the cursors are not compared.
MinimumIteration_First(cursors) == 1

MinimumIteration(cursors) ==
  CHOOSE j \in DOMAIN cursors :
    \A k \in DOMAIN cursors :
      \/ cursors[j].iteration < cursors[k].iteration
      \/ cursors[j].iteration = cursors[k].iteration /\ j <= k

\* updateCurrentInstances
Advance(cursors, j, groups) ==
  LET c == cursors[j]
  IN IF InvocationInstances(groups, c.call) - 1 = c.instance
     THEN RemoveAt(cursors, j)
     ELSE [cursors EXCEPT ![j] = Cursor(groups, c.call, c.instance + 1)]

RunningCount(entries) == IF entries = <<>> THEN 0 ELSE Last(entries).to + 1

\* addToCallTraceCache
AddToCache(cache, c, calls) ==
  LET group == calls[c.call][Lookup(calls[c.call], c.instance)]
      n(s) == NumInstances(group, s)
  IN [s \in SubInstrs |->
        IF n(s) = 0
        THEN cache[s]
        ELSE Append(cache[s], [from     |-> RunningCount(cache[s]),
                               to       |-> RunningCount(cache[s]) + n(s) - 1,
                               call     |-> c.call,
                               instance |-> c.instance])]

RECURSIVE CacheFrom(_, _, _, _)
CacheFrom(cache, cursors, groups, calls) ==
  IF cursors = <<>>
  THEN cache
  ELSE LET j == MinimumIteration(cursors)
       IN CacheFrom(AddToCache(cache, cursors[j], calls), Advance(cursors, j, groups),
                    groups, calls)

CallTraceCache(groups, calls) ==
  LET started == SetToSortSeq({c \in Calls : Instances(calls, c) # <<>>
                                              /\ InvocationInstances(groups, c) > 0}, <)
  IN CacheFrom([s \in SubInstrs |-> <<>>],
               [j \in DOMAIN started |-> Cursor(groups, started[j], 0)], groups, calls)

-----------------------------------------------------------------------------
(* Both traces together, for the n-th invocation.                          *)

LoopGroups(n) ==
  LET read == ReadLoop(globals.loopFile).read IN read[Walk(read)[n]].body

CallsOf(n) == CallEntry(ReadCalls(globals.callFile).read, n - 1)

\* As camtest.cpp reads them: a cache for each invocation.
FreshCache(n) == CallTraceCache(LoopGroups(n), CallsOf(n))

CacheEntry(cache, s, k) == cache[s][Min({j \in DOMAIN cache[s] : cache[s][j].to >= k - 1})]

-----------------------------------------------------------------------------
(* Properties                                                              *)

(***************************************************************************)
(* The call trace holds, for each invocation of the loop and each call in  *)
(* it, how often each of its instances executed each sub-instruction,      *)
(* wherever dumps cut invocations and calls.                               *)
(***************************************************************************)
CallsReadBack ==
  closed /\ ~ idleDump /\ ~ globals.timedOut =>
    /\ ReadCalls(globals.callFile).status = "ok"
    /\ \A n \in DOMAIN history, c \in Calls :
         LET made == SelectSeq(history[n].calls, LAMBDA call : call.id = c)
             groups == Instances(CallsOf(n), c)
         IN /\ made = <<>> <=> groups = <<>>
            /\ \A k \in DOMAIN made, s \in SubInstrs :
                 NumInstances(groups[Lookup(groups, k - 1)], s) = Occurrences(made[k].executed, s)

(***************************************************************************)
(* Executions of sub-instruction s in an invocation, in their order: the   *)
(* call, and the iteration it was made in.                                 *)
(***************************************************************************)
SubExecutions(calls, s) ==
  FlattenSeq([k \in DOMAIN calls |->
                [j \in 1 .. Occurrences(calls[k].executed, s) |->
                   [call |-> calls[k].id, iteration |-> calls[k].iteration]]])

(***************************************************************************)
(* With a cache of its own for each invocation, each instance of a         *)
(* sub-instruction, numbered as in its memory trace, is found in the       *)
(* iteration whose calls executed it.                                      *)
(***************************************************************************)
SubInstancesFindTheirIteration ==
  closed /\ ~ idleDump /\ ~ globals.timedOut =>
    \A n \in DOMAIN history, s \in SubInstrs :
      LET executions == SubExecutions(history[n].calls, s)
      IN /\ RunningCount(FreshCache(n)[s]) = Len(executions)
         /\ \A k \in DOMAIN executions :
              LET e == CacheEntry(FreshCache(n), s, k)
              IN IterationNumber(InstanceLut(LoopGroups(n), e.call), e.instance)
                   = executions[k].iteration

=============================================================================
