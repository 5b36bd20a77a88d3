----------------------------- MODULE LoopTracer -----------------------------
(***************************************************************************)
(* The loop tracer of libcam (loop_trace.cpp): for each iteration of a     *)
(* loop, and for each call made in it, which instructions were executed.   *)
(* What repeats is stored once, with the numbers of the iterations,        *)
(* invocations or calls that share it.  When memory runs out, in the       *)
(* middle of whatever is running, everything is written and forgotten.     *)
(*                                                                         *)
(* The contents of a control flow compressor are the sequence of symbols   *)
(* inserted into it (module ControlFlowCompressor).  One loop is traced,   *)
(* as the README of the sources says, and calls are not nested.          *)
(***************************************************************************)
EXTENDS Integers, Sequences, FiniteSets, FiniteSetsExt, SequencesExt

CONSTANTS
  Instrs,             \* the instructions of the loop that are not calls
  Calls,              \* its calls
  SubInstrs,          \* the instructions of the functions called
  MaxRecent,          \* how many recent groups are compared (32 in the code)
  MaxInvocations,     \* bounds: the invocations of the loop,
  MaxIterations,      \*         the iterations of each,
  MaxSymbols,         \*         the instructions in an iteration or a call,
  MaxExecuted,        \*         the instructions in all of them together,
  MaxDumps,           \*         the dumps before the shutdown,
  MaxParts            \*         and the invocations and dumps together

ASSUME LoopTracerAssumption ==
  /\ Instrs \cup Calls \cup SubInstrs \subseteq Nat \ {0}
  /\ MaxRecent \in Nat \ {0}
  /\ {MaxInvocations, MaxIterations, MaxSymbols, MaxExecuted, MaxDumps,
      MaxParts} \subseteq Nat

VARIABLES
  globals,  \* PassGlobals
  atCall,   \* the call the program has announced and is about to make, or 0
  closed,   \* the tracer has been shut down
  history,  \* history: what was executed, up to the timeout
  idleDump  \* history: a dump was forced while nothing was running

vars == <<globals, atCall, closed, history, idleDump>>

-----------------------------------------------------------------------------
(* Groups: things with the same body, and the numbers of those that share  *)
(* it.  Groups are kept in the order of their first sharers; recent holds  *)
(* the indices of those most recently used.                                *)

NoGroups == [items |-> <<>>, recent |-> <<>>]

Group(n, body, partiallyDumped) ==
  [sharers |-> {n}, body |-> body, partiallyDumped |-> partiallyDumped]

MostRecent(j, recent) ==
  SubSeq(<<j>> \o recent, 1, Min({MaxRecent, Len(recent) + 1}))

\* The places in recent of the groups, among alike, that may be shared.
Matches(groups, alike) ==
  {i \in DOMAIN groups.recent :
     /\ groups.recent[i] \in alike
     /\ ~ groups.items[groups.recent[i]].partiallyDumped}

NewGroup(groups, n, body, partiallyDumped) ==
  [items  |-> Append(groups.items, Group(n, body, partiallyDumped)),
   recent |-> MostRecent(Len(groups.items) + 1, groups.recent)]

(***************************************************************************)
(* What recordInstsSeenOnIteration, processInvocation and                  *)
(* recordCallTracesForInvocation have in common; alike are the groups with *)
(* the same body as n.                                                     *)
(***************************************************************************)
Share(groups, n, body, attemptMatch, alike) ==
  LET i == Min(Matches(groups, alike))
      j == groups.recent[i]
  IN IF attemptMatch /\ Matches(groups, alike) # {}
     THEN [items  |-> [groups.items EXCEPT ![j].sharers = @ \cup {n}],
           recent |-> <<j>> \o RemoveAt(groups.recent, i)]
     ELSE NewGroup(groups, n, body, ~ attemptMatch)

Alike(groups, body) == {i \in DOMAIN groups.items : groups.items[i].body = body}

-----------------------------------------------------------------------------
(* PassGlobals.  Of the pools it is enough to keep one running loop and    *)
(* one running call: they are used again, with what is left in them.       *)

NoTrace == [numInvocations |-> 0, groups |-> NoGroups]

NoCallTraces == [c \in Calls |-> NoTrace]

LoopRunning(g) == g.stack # <<>>
CallRunning(g) == Len(g.stack) = 2

(***************************************************************************)
(* LoopInvocationCallInfo::isEqual and CallTrace::operator==: the bit sets *)
(* of sharers are compared relative to their first.                        *)
(***************************************************************************)
Relative(sharers) == {n - Min(sharers) : n \in sharers}

SameCalls(t, u) ==
  \A c \in Calls :
    LET a == t[c].groups.items
        b == u[c].groups.items
    IN /\ t[c].numInvocations = 0 <=> u[c].numInvocations = 0
       /\ Len(a) = Len(b)
       /\ \A i \in DOMAIN a :
            /\ a[i].body = b[i].body
            /\ Relative(a[i].sharers) = Relative(b[i].sharers)

\* RunningLoop::recordInstsSeenOnIteration
RecordIteration(loop) ==
  IF loop.iterationNum = -1
  THEN loop
  ELSE [loop EXCEPT !.iterations = Share(@, loop.iterationNum, loop.currCFC, TRUE,
                                         Alike(@, loop.currCFC)),
                    !.currCFC = <<>>]

\* RunningLoop::finishInvocation
FinishLoop(g, attemptMatch) ==
  LET loop == RecordIteration(g.loop)
  IN [g EXCEPT
        !.trace.groups = Share(@, loop.invocationNum, loop.iterations.items, attemptMatch,
                               Alike(@, loop.iterations.items)),
        !.loop = [loop EXCEPT !.iterations = NoGroups]]

\* RunningCall::finishInvocation
FinishCall(g, attemptMatch) ==
  [g EXCEPT
     !.callTraces[g.call.id].groups =
        Share(@, g.call.invocationNum, g.call.currCFC, attemptMatch,
              Alike(@, g.call.currCFC)),
     !.call.currCFC = <<>>]

RecordCallTraces(g, attemptMatch) ==
  [g EXCEPT !.callInfos =
     Share(@, g.loop.invocationNum, g.callTraces, attemptMatch,
           {i \in DOMAIN @.items : SameCalls(@.items[i].body, g.callTraces)})]

-----------------------------------------------------------------------------
(* The files: sequences of lines.  A trace is the number of its entries,   *)
(* the entries, each but the last followed by a marker, and a marker that  *)
(* says whether the last one is complete.                                  *)

Count(n) == [kind |-> "count", n |-> n]
Marker(complete) == [kind |-> IF complete THEN "COMPLETE" ELSE "INCOMPLETE"]
Entry(sharers, body) == [kind |-> "entry", ranges |-> sharers, body |-> body]

\* writeRangeToCompressedFile
Ranges(S) ==
  LET starts == {n \in S : n - 1 \notin S}
      start(i) == CHOOSE n \in starts : Cardinality({m \in starts : m <= n}) = i
  IN [i \in 1 .. Cardinality(starts) |->
        <<start(i), Min({n \in S : n >= start(i) /\ n + 1 \notin S})>>]

WrittenGroups(items) ==
  [i \in DOMAIN items |-> [ranges |-> Ranges(items[i].sharers), body |-> items[i].body]]

WrittenCalls(traces) ==
  [c \in {d \in Calls : traces[d].groups.items # <<>>} |->
     WrittenGroups(traces[c].groups.items)]

LoopEntries(items) ==
  [i \in DOMAIN items |-> Entry(Ranges(items[i].sharers), WrittenGroups(items[i].body))]

CallEntries(items) ==
  [i \in DOMAIN items |-> Entry(Ranges(items[i].sharers), WrittenCalls(items[i].body))]

\* The lines of a trace, up to its last entry.
Lines(entries) ==
  [k \in 1 .. 2 * Len(entries) |->
     CASE k = 1     -> Count(Len(entries))
       [] k % 2 = 0 -> entries[k \div 2]
       [] OTHER     -> Marker(TRUE)]

WriteTraces(g) ==
  LET end == <<Marker(~ LoopRunning(g))>>
  IN [g EXCEPT
        !.loopFile = IF g.trace.numInvocations = 0
                     THEN @
                     ELSE @ \o Lines(LoopEntries(g.trace.groups.items)) \o end,
        !.callFile = IF g.callInfos.items = <<>>
                     THEN @
                     ELSE @ \o Lines(CallEntries(g.callInfos.items)) \o end]

-----------------------------------------------------------------------------
(* dumpTraces                                                              *)

\* Mutant: what is running is compared with the groups, as if it were complete.
FinishRunning_AttemptsMatch(g) ==
  LET h == IF LoopRunning(g)
           THEN FinishLoop([g EXCEPT !.loop.partiallyDumped = TRUE], TRUE)
           ELSE g
      k == IF CallRunning(h)
           THEN FinishCall([h EXCEPT !.call.partiallyDumped = TRUE], TRUE)
           ELSE h
  IN IF LoopRunning(k) THEN RecordCallTraces(k, TRUE) ELSE k

\* What is running is stored as if it ended here.
FinishRunning(g) ==
  LET h == IF LoopRunning(g)
           THEN FinishLoop([g EXCEPT !.loop.partiallyDumped = TRUE], FALSE)
           ELSE g
      k == IF CallRunning(h)
           THEN FinishCall([h EXCEPT !.call.partiallyDumped = TRUE], FALSE)
           ELSE h
  IN IF LoopRunning(k) THEN RecordCallTraces(k, FALSE) ELSE k

\* Mutant: the call traces of earlier invocations are kept.
ClearTraces_KeepsCallInfos(g) ==
  [g EXCEPT
     !.trace.groups = NoGroups,
     !.callTraces = [c \in Calls |-> [@[c] EXCEPT !.groups = NoGroups]]]

ClearTraces(g) ==
  [g EXCEPT
     !.trace.groups = NoGroups,
     !.callTraces = [c \in Calls |-> [@[c] EXCEPT !.groups = NoGroups]],
     !.callInfos = NoGroups]

DumpTraces(g) ==
  [ClearTraces(WriteTraces(FinishRunning(g))) EXCEPT
     !.waitingForInvocCompletion = TRUE,
     !.traceDumpID = @ + 1]

-----------------------------------------------------------------------------
(* The callbacks.  Once the timeout has passed they return at once, and    *)
(* are no steps of the model; the callback that notices is still carried   *)
(* out.  Afterwards checkDumpTraces may find that memory has run out, but  *)
(* looks only if something is running.                                     *)

Init ==
  /\ globals = [stack       |-> <<>>,
                loop        |-> [invocationNum |-> 0, iterationNum |-> -1, currCFC |-> <<>>,
                                 iterations |-> NoGroups, partiallyDumped |-> FALSE],
                call        |-> [id |-> 0, invocationNum |-> 0, currCFC |-> <<>>,
                                 partiallyDumped |-> FALSE],
                trace       |-> NoTrace,
                callTraces  |-> NoCallTraces,
                callInfos   |-> NoGroups,
                waitingForInvocCompletion |-> FALSE,
                traceDumpID |-> 0,
                timedOut    |-> FALSE,
                loopFile    |-> <<>>,
                callFile    |-> <<>>]
  /\ atCall = 0
  /\ closed = FALSE
  /\ history = <<>>
  /\ idleDump = FALSE

PartsLeft(g) == g.trace.numInvocations + g.traceDumpID < MaxParts
DumpsLeft(g) == g.traceDumpID < MaxDumps /\ PartsLeft(g)

\* checkDumpTraces
MayDump(g) ==
  IF LoopRunning(g) /\ DumpsLeft(g) THEN {g, DumpTraces(g)} ELSE {g}

Callback(g) ==
  /\ ~ closed /\ ~ globals.timedOut
  /\ \E h \in MayDump(g), t \in BOOLEAN : globals' = [h EXCEPT !.timedOut = t]
  /\ UNCHANGED <<closed, idleDump>>

LoopInvocationStart ==
  /\ ~ LoopRunning(globals)
  /\ globals.trace.numInvocations < MaxInvocations
  /\ PartsLeft(globals)
  /\ Callback([globals EXCEPT
       !.stack = <<"loop">>,
       !.loop = [@ EXCEPT !.invocationNum = globals.trace.numInvocations,
                          !.iterationNum = -1,
                          !.partiallyDumped = FALSE],
       !.trace.numInvocations = @ + 1])
  /\ history' = Append(history, [iterations |-> <<>>, calls |-> <<>>])
  /\ UNCHANGED atCall

LoopInvocationEnd ==
  /\ globals.stack = <<"loop">> /\ atCall = 0
  /\ LET g == FinishLoop([globals EXCEPT !.stack = <<>>], ~ globals.loop.partiallyDumped)
         h == RecordCallTraces(g, ~ g.waitingForInvocCompletion)
     IN Callback([h EXCEPT !.callTraces = NoCallTraces,
                           !.waitingForInvocCompletion = FALSE])
  /\ UNCHANGED <<atCall, history>>

LoopIterationStart ==
  /\ globals.stack = <<"loop">> /\ atCall = 0
  /\ globals.loop.iterationNum + 1 < MaxIterations
  /\ Callback([globals EXCEPT
       !.loop = [RecordIteration(globals.loop) EXCEPT !.iterationNum = @ + 1]])
  /\ history' = [history EXCEPT ![Len(history)].iterations = Append(@, <<>>)]
  /\ UNCHANGED atCall

\* The instructions executed by the current iteration, and by the current call.
Iteration == Last(Last(history).iterations)
Call == Last(Last(history).calls)

\* The number of instructions executed so far.
Executed ==
  LET inLoop(h)  == Len(FlattenSeq(h.iterations))
      inCalls(h) == Len(FlattenSeq([k \in DOMAIN h.calls |-> h.calls[k].executed]))
  IN FoldLeft(LAMBDA n, h : n + inLoop(h) + inCalls(h), 0, history)

(***************************************************************************)
(* CAM_profileLoopSeenInstruction while the loop itself is running.  The   *)
(* program starts an iteration before it reports instructions.             *)
(***************************************************************************)
LoopSeenInstruction(i) ==
  /\ globals.stack = <<"loop">> /\ atCall = 0
  /\ globals.loop.iterationNum >= 0
  /\ Len(Iteration) < MaxSymbols /\ Executed < MaxExecuted
  /\ LET its == Last(history).iterations
     IN history' = [history EXCEPT ![Len(history)].iterations[Len(its)] = Append(@, i)]
  /\ Callback([globals EXCEPT !.loop.currCFC = Append(@, i)])
  /\ atCall' = IF i \in Calls THEN i ELSE 0

CallInvocationStart ==
  /\ atCall # 0
  /\ Callback([globals EXCEPT
       !.stack = Append(@, "call"),
       !.call = [@ EXCEPT !.id = atCall,
                          !.invocationNum = globals.callTraces[atCall].numInvocations,
                          !.partiallyDumped = FALSE],
       !.callTraces[atCall].numInvocations = @ + 1])
  /\ history' = [history EXCEPT ![Len(history)].calls =
       Append(@, [id |-> atCall, iteration |-> globals.loop.iterationNum, executed |-> <<>>])]
  /\ atCall' = 0

\* CAM_profileLoopSeenInstruction while a call is running.
CallSeenInstruction(i) ==
  /\ CallRunning(globals)
  /\ Len(Call.executed) < MaxSymbols /\ Executed < MaxExecuted
  /\ Callback([globals EXCEPT !.call.currCFC = Append(@, i)])
  /\ LET calls == Last(history).calls
     IN history' = [history EXCEPT ![Len(history)].calls =
          Append(Front(calls), [Call EXCEPT !.executed = Append(@, i)])]
  /\ UNCHANGED atCall

CallInvocationEnd ==
  /\ CallRunning(globals)
  /\ Callback(FinishCall([globals EXCEPT !.stack = <<"loop">>],
                         ~ globals.call.partiallyDumped))
  /\ UNCHANGED <<atCall, history>>

\* A dump the program asks for does not look at the timeout.
ForceLoopTraceDump ==
  /\ ~ closed
  /\ DumpsLeft(globals)
  /\ globals' = DumpTraces(globals)
  /\ idleDump' = (idleDump \/ ~ LoopRunning(globals))
  /\ UNCHANGED <<atCall, closed, history>>

(***************************************************************************)
(* A program that has not timed out shuts the tracer down with nothing     *)
(* running, or the tracer aborts; one that has timed out, anywhere.        *)
(***************************************************************************)
LoopTraceShutdown ==
  /\ ~ closed
  /\ history # <<>>
  /\ ~ LoopRunning(globals) \/ globals.timedOut
  /\ globals' = WriteTraces(globals)
  /\ closed' = TRUE
  /\ UNCHANGED <<atCall, history, idleDump>>

Next ==
  \/ LoopInvocationStart
  \/ LoopInvocationEnd
  \/ LoopIterationStart
  \/ \E i \in Instrs \cup Calls : LoopSeenInstruction(i)
  \/ CallInvocationStart
  \/ \E i \in SubInstrs : CallSeenInstruction(i)
  \/ CallInvocationEnd
  \/ ForceLoopTraceDump
  \/ LoopTraceShutdown

Spec == Init /\ [][Next]_vars

-----------------------------------------------------------------------------
(* Properties                                                              *)

IsTrace(t) ==
  /\ t.numInvocations \in Nat
  /\ \A i \in DOMAIN t.groups.items : t.groups.items[i].partiallyDumped \in BOOLEAN
  /\ Len(t.groups.recent) <= MaxRecent
  /\ ToSet(t.groups.recent) \subseteq DOMAIN t.groups.items

(***************************************************************************)
(* The caches of recent groups hold groups that exist, and no more of them *)
(* than they should; what runs is nothing, the loop, or a call in the loop.*)
(***************************************************************************)
TypeOK ==
  /\ globals.stack \in {<<>>, <<"loop">>, <<"loop", "call">>}
  /\ globals.loop.iterationNum \in -1 .. MaxIterations - 1
  /\ globals.loop.currCFC \in Seq(Instrs \cup Calls)
  /\ globals.call.currCFC \in Seq(SubInstrs)
  /\ IsTrace(globals.trace)
  /\ \A c \in Calls : IsTrace(globals.callTraces[c])
  /\ {globals.waitingForInvocCompletion, globals.timedOut, closed, idleDump} \subseteq BOOLEAN
  /\ atCall \in Calls \cup {0}

Sharers(groups) == UNION {groups.items[i].sharers : i \in DOMAIN groups.items}

(***************************************************************************)
(* Between two dumps, each invocation is in one group of the loop trace    *)
(* and in one of the call trace, both cover the same invocations without a *)
(* gap, and the groups are in the order of the first invocations they hold.*)
(* StreamParseLoopRec::findLoopTraceEntry relies on it: it takes the next  *)
(* entry of the file without looking which invocations it is for.  All     *)
(* this in well-typed states.                                              *)
(***************************************************************************)
InvocationsGrouped == TypeOK /\
  LET ordered(groups) ==
        \A i, j \in DOMAIN groups.items :
          i < j => /\ Min(groups.items[i].sharers) < Min(groups.items[j].sharers)
                   /\ groups.items[i].sharers \cap groups.items[j].sharers = {}
      loops == Sharers(globals.trace.groups)
  IN /\ ordered(globals.trace.groups)
     /\ ordered(globals.callInfos)
     /\ Sharers(globals.callInfos) = loops
     /\ loops # {} => loops = Min(loops) .. Max(loops)
     /\ loops # {} /\ ~ LoopRunning(globals) => Max(loops) = globals.trace.numInvocations - 1

=============================================================================
