-------------------------- MODULE DependenceAnalysis --------------------------
(***************************************************************************)
(* The analysis of a loop: loop_analysis_memeff and the two passes of      *)
(* invocation_analysis_memeff over its invocations.  It reads three traces *)
(* in lock-step: the loop trace says which instructions every iteration    *)
(* executed, the call trace what the called functions executed, and one    *)
(* memory stream per instruction and direction holds its accesses, without *)
(* any mark of iterations or invocations.  A stream stays in step only if  *)
(* the right number of accesses is read from it in every invocation, and   *)
(* it is read on demand, when a pair of instructions needs it.             *)
(*                                                                         *)
(* The traces are what the modules of their readers show they read back:   *)
(* the execution of the loop, of which each stream holds the recorded part *)
(* of its accesses, as patterns.                                           *)
(***************************************************************************)
EXTENDS AliasTest, SequencesExt, TLC

CONSTANTS
  LoopInstrs,   \* instrList: the instructions of the loop body
  SubInstrs,    \* subInstrList: those of the functions it calls
  Calls,        \* callList: the call instructions of the loop body
  Reads,        \* the instructions with a read stream
  Writes,       \* the instructions with a write stream
  Inputs        \* what the analysis is run on

Instrs == LoopInstrs \cup SubInstrs
Streams == (Writes \X {"w"}) \cup (Reads \X {"r"})

(***************************************************************************)
(* An executed instruction: its iteration, the call and the instance of    *)
(* that call in the invocation it was executed in (call 0 in the loop      *)
(* body), and its access, which it makes in every stream it has.           *)
(***************************************************************************)
Executed ==
  [iter : Nat, call : Calls \cup {0}, inst : Nat, instr : Instrs,
   addr : Word, len : Nat \ {0}]

Modes == {"all", "static", "adjacent"}

(***************************************************************************)
(* A run of the analysis: the invocations of the loop, the number of       *)
(* instructions whose access the memory tracer recorded before it stopped, *)
(* the order in which findMemoryTraces lists the files (those of other     *)
(* instructions the menu leaves out), the mode and, if the mode uses one,  *)
(* the dependence graph.                                                   *)
(***************************************************************************)
Input ==
  [program : Seq(Seq(Executed)), recorded : Nat,
   reads : Seq(Reads), writes : Seq(Writes), mode : Modes,
   ddg : Seq([from : Instrs, to : Instrs, kinds : SUBSET {"raw", "war", "waw"}])]

ASSUME InstrsAssumption ==
  /\ LoopInstrs \cap SubInstrs = {} /\ 0 \notin Calls
  /\ Reads \subseteq Instrs /\ Writes \subseteq Instrs

ASSUME InputsAssumption == Inputs \subseteq Input

(***************************************************************************)
(* What every execution of a loop is like: the tracers number the          *)
(* iterations as they come, an instruction of the body is executed in the  *)
(* body and one of a callee in a call, and an instance of a call is made   *)
(* in one iteration.                                                       *)
(***************************************************************************)
Orderly(inv) ==
  /\ \A k \in DOMAIN inv : inv[k].instr \in LoopInstrs <=> inv[k].call = 0
  /\ \A k, l \in DOMAIN inv :
       /\ k <= l => inv[k].iter <= inv[l].iter
       /\ <<inv[k].call, inv[k].inst>> = <<inv[l].call, inv[l].inst>> /\ inv[k].call # 0
            => inv[k].iter = inv[l].iter

ASSUME ProgramsAssumption ==
  \A run \in Inputs : \A n \in DOMAIN run.program : Orderly(run.program[n])

VARIABLES
  input,          \* what this run analyses
  status,         \* where the driver is
  invocNum,       \* the invocation it is at; the first is 1
  pass,           \* "rw" or "ww": the menu being worked on
  at,             \* the place in that menu
  menu,           \* pairMenu: the pairs still looked for
  position,       \* how many accesses were read from each stream
  instances,      \* instructionInstances: how often the invocation executes each
  invMemoryTrace, \* the sets fetched in this invocation
  instrCounts,    \* the "running count of instructions processed"
  pairs           \* rw_dependence_pairs and ww_dependence_pairs

vars == <<input, status, invocNum, pass, at, menu, position, instances,
          invMemoryTrace, instrCounts, pairs>>

Program == input.program
Invocation == Program[invocNum]

\* What a sequence has at the places K, in order.
AtPlaces(seq, K) == FlattenSeq([k \in DOMAIN seq |-> IF k \in K THEN <<seq[k]>> ELSE <<>>])

\* The executions of instruction i.
Runs(executions, i) == AtPlaces(executions, {k \in DOMAIN executions : executions[k].instr = i})

-----------------------------------------------------------------------------
(* The call trace of an invocation: for every instance of a call, the     *)
(* instructions that it executed, numbered in their order.                 *)

CallBody(inv, call) == {k \in DOMAIN inv : <<inv[k].call, inv[k].inst>> = call}

CallInfo(inv) ==
  [call \in Calls \X {inv[k].inst : k \in DOMAIN inv} |->
     {<<Cardinality({l \in CallBody(inv, call) : l <= k}), inv[k].instr>> :
        k \in CallBody(inv, call)}]

(***************************************************************************)
(* Invocations that made equal calls form one group, whose cache is built  *)
(* when the first of them is analysed and kept for the others.             *)
(***************************************************************************)
FirstAlike(n) == Min({m \in 1 .. n : CallInfo(Program[m]) = CallInfo(Program[n])})

CallInstance == [iter : Nat, call : Calls, inst : Nat]

\* getMinimumIteration: of equal iterations, the first call of callList.
Before(x, y) ==
  \/ x.iter < y.iter
  \/ x.iter = y.iter /\ x.call < y.call
  \/ x.iter = y.iter /\ x.call = y.call /\ x.inst < y.inst

Executions(inv, i, call, inst) ==
  {k \in DOMAIN inv : inv[k].instr = i /\ inv[k].call = call /\ inv[k].inst = inst}

(***************************************************************************)
(* callTraceCache[i]: the call instances that executed i, in the order in  *)
(* which buildCallTraceCache steps through the iterations.                 *)
(***************************************************************************)
CallTraceCache(inv, i) ==
  LET calls == {[iter |-> inv[k].iter, call |-> inv[k].call, inst |-> inv[k].inst] :
                  k \in {l \in DOMAIN inv : inv[l].instr = i /\ inv[l].call # 0}}
      order == [k \in 1 .. Cardinality(calls) |->
                  CHOOSE c \in calls : Cardinality({d \in calls : Before(d, c)}) = k - 1]
  IN [k \in DOMAIN order |->
        [call |-> order[k].call, inst |-> order[k].inst,
         n |-> Cardinality(Executions(inv, i, order[k].call, order[k].inst))]]

Cache(i) == CallTraceCache(Program[FirstAlike(invocNum)], i)

IsConstantCallID(i) == \A k \in DOMAIN Cache(i) : Cache(i)[k].call = Cache(i)[1].call

-----------------------------------------------------------------------------
(* Cutting a stream into the invocation's accesses.                        *)

InLoop(inv, i) == {k \in DOMAIN inv : inv[k].instr = i /\ inv[k].call = 0}
InCalls(inv, i) == {k \in DOMAIN inv : inv[k].instr = i /\ inv[k].call # 0}

(***************************************************************************)
(* The instances of i in an invocation; those of an instruction of a       *)
(* callee are taken from the cache, which another invocation of the group  *)
(* may have built.                                                         *)
(***************************************************************************)
NumInstancesInInvocation(n, i) ==
  IF i \notin SubInstrs
    THEN Cardinality(InLoop(Program[n], i))
    ELSE Cardinality(InCalls(Program[FirstAlike(n)], i))

(***************************************************************************)
(* How many accesses of i belong together, their iteration and the         *)
(* instruction of the loop body they are attributed to.                    *)
(***************************************************************************)
Iterations(inv) == 0 .. Max({0} \cup {inv[k].iter : k \in DOMAIN inv})

LoopTags(inv, i) ==
  [j \in 1 .. Cardinality(Iterations(inv)) |->
     [iter |-> j - 1, id |-> i,
      n |-> Cardinality({k \in InLoop(inv, i) : inv[k].iter = j - 1})]]

IterationNumber(inv, call, inst) ==
  inv[CHOOSE k \in DOMAIN inv : inv[k].call = call /\ inv[k].inst = inst].iter

CallTags(inv, cache) ==
  [k \in DOMAIN cache |->
     [iter |-> IterationNumber(inv, cache[k].call, cache[k].inst),
      id |-> cache[k].call, n |-> cache[k].n]]

Tags(i) ==
  IF InLoop(Invocation, i) # {} THEN LoopTags(Invocation, i)
  ELSE CallTags(Invocation, Cache(i))

\* Mutant: a slice starts at the address of its pattern.
GetSlice_KeepsBase(e, s, t) == [e EXCEPT !.start = s, !.end = t]

GetSlice(e, s, t) ==
  [e EXCEPT !.base = Wrap(e.base + (s - e.start) * e.stride), !.start = s, !.end = t]

Cut(set, from, to) ==
  LET hit == AtPlaces(set, {k \in DOMAIN set :
                              from <= to /\ set[k].start <= to /\ from <= set[k].end})
  IN [k \in DOMAIN hit |-> GetSlice(hit[k], Max({from, hit[k].start}), Min({to, hit[k].end}))]

(***************************************************************************)
(* getInvocationSliceWithIterTags: the chunk's patterns cut where the      *)
(* iteration or the call instance changes, each piece with its tag.        *)
(***************************************************************************)
TaggedWith(cut, tag) ==
  [k \in DOMAIN cut |-> [entry |-> cut[k], iter |-> tag.iter, id |-> tag.id]]

Sliced(chunk, from, tags) ==
  LET after[k \in 0 .. Len(tags)] ==
        IF k = 0 THEN [next |-> from, set |-> <<>>]
        ELSE LET before == after[k - 1]
                 next   == before.next + tags[k].n
             IN [next |-> next,
                 set |-> before.set \o TaggedWith(Cut(chunk, before.next, next - 1), tags[k])]
  IN after[Len(tags)].set

-----------------------------------------------------------------------------
(* The memory streams.                                                     *)

Log(i) ==
  LET all == FlattenSeq(Program)
  IN Runs(SubSeq(all, 1, Min({input.recorded, Len(all)})), i)

AccessOf(x) == [addr |-> x.addr, len |-> x.len]

Patterns(log) ==
  LET upTo[k \in 0 .. Len(log)] ==
        IF k = 0 THEN <<>> ELSE RecordMemoryReference(upTo[k - 1], AccessOf(log[k]))
  IN upTo[Len(log)]

\* How many accesses of i were recorded: the length of its log.
NumRecorded(i) ==
  LET all == FlattenSeq(Program)
  IN Cardinality({k \in 1 .. Min({input.recorded, Len(all)}) : all[k].instr = i})

CanFetch(s) == position[s] + instances[s[1]] <= NumRecorded(s[1])

Chunk(s) == Cut(Patterns(Log(s[1])), position[s], position[s] + instances[s[1]] - 1)

Fetched(s) == Sliced(Chunk(s), position[s], Tags(s[1]))

-----------------------------------------------------------------------------
(* The menus.                                                              *)

AllRw == FlattenSeq([k \in DOMAIN input.writes |->
           [l \in DOMAIN input.reads |-> <<input.writes[k], input.reads[l]>>]])

AllWw == FlattenSeq([k \in DOMAIN input.writes |->
           [l \in 1 .. Len(input.writes) - k + 1 |->
              <<input.writes[k], input.writes[k + l - 1]>>]])

InLoopBody(p) == p[1] \in LoopInstrs /\ p[2] \in LoopInstrs

(***************************************************************************)
(* buildInstrPairMenuFromDDG: a pair of the loop body is entered once for  *)
(* every dependence of the graph that it matches, other pairs once.        *)
(***************************************************************************)
Matches(p, dep, way) ==
  IF way = "rw" THEN \/ "raw" \in dep.kinds /\ dep.from = p[2] /\ dep.to = p[1]
                     \/ "war" \in dep.kinds /\ dep.to = p[2] /\ dep.from = p[1]
                ELSE "waw" \in dep.kinds /\ dep.from = p[1] /\ dep.to = p[2]

FromDDG(all, way) ==
  FlattenSeq([k \in DOMAIN all |->
    IF InLoopBody(all[k])
      THEN [l \in 1 .. Cardinality({d \in DOMAIN input.ddg : Matches(all[k], input.ddg[d], way)})
              |-> all[k]]
      ELSE <<all[k]>>])

Menu(way) ==
  LET all == IF way = "rw" THEN AllRw ELSE AllWw
  IN IF input.mode = "all" THEN all ELSE FromDDG(all, way)

-----------------------------------------------------------------------------
(* One pair of instructions.                                               *)

WriteStream(p) == <<p[1], "w">>
OtherStream(p, way) == <<p[2], IF way = "ww" THEN "w" ELSE "r">>
StreamsOf(p, way) == {WriteStream(p), OtherStream(p, way)}

Pair == menu[pass][at]

\* Mutant: a pair is skipped when either of its instructions was not executed.
Skips_Either(p) == instances[p[1]] = 0 \/ instances[p[2]] = 0

Skips(p) == instances[p[1]] = 0 /\ instances[p[2]] = 0

(***************************************************************************)
(* The accesses of the two sets, of different iterations, that touch a     *)
(* common byte.                                                            *)
(***************************************************************************)
Aliases(writes, others) ==
  {a \in ToSet(writes) \X ToSet(others) :
     /\ a[1].iter # a[2].iter
     /\ Overlap(a[1].entry, a[2].entry) /\ IsAlias(a[1].entry, a[2].entry)}

\* Mutant: the dependence of two writes is recorded one way only.
Recorded_OneWay(aliases, way) == {<<a[1].id, a[2].id>> : a \in aliases}

Recorded(aliases, way) ==
  LET found == {<<a[1].id, a[2].id>> : a \in aliases}
  IN found \cup (IF way = "ww" THEN {<<p[2], p[1]>> : p \in found} ELSE {})

\* "If neither instruction was inside a call".
IsSettled(p) == \A i \in {p[1], p[2]} : i \in SubInstrs => IsConstantCallID(i)

(***************************************************************************)
(* iterationsWithAdjacentDependence, and whether its bits are all set up   *)
(* to the last.                                                            *)
(***************************************************************************)
AdjacentIterations(aliases) ==
  UNION {{a[1].iter, a[2].iter} :
           a \in {b \in aliases : Magnitude(b[1].iter - b[2].iter) < 2}}

\* Mutant: one iteration may be missing.
NoGap_OneMissing(iterations) ==
  iterations # {} /\ Cardinality(iterations) >= Max(iterations)

NoGap(iterations) == iterations # {} /\ iterations = 0 .. Max(iterations)

Leaves(p, aliases) ==
  IF input.mode = "adjacent" THEN ~ NoGap(AdjacentIterations(aliases))
  ELSE aliases # {} /\ IsSettled(p)

\* Mutant: the pair stays in the menu.
Erase_Nothing(list, k) == list

Erase(list, k) == RemoveAt(list, k)

-----------------------------------------------------------------------------
(* The driver.                                                             *)

Init ==
  /\ input \in Inputs
  /\ status = "next" /\ invocNum = 1 /\ pass = "rw" /\ at = 1
  /\ menu = [way \in {"rw", "ww"} |-> Menu(way)]
  /\ position = [s \in Streams |-> 0]
  /\ instances = [i \in Instrs |-> 0]
  /\ invMemoryTrace = <<>>
  /\ instrCounts = [i \in Instrs |-> 0]
  /\ pairs = [way \in {"rw", "ww"} |-> {}]

SkipInvocation ==
  /\ status = "next" /\ invocNum <= Len(Program)
  /\ Invocation = <<>>
  /\ invocNum' = invocNum + 1
  /\ UNCHANGED <<input, status, pass, at, menu, position, instances, invMemoryTrace,
                 instrCounts, pairs>>

StartInvocation ==
  /\ status = "next" /\ invocNum <= Len(Program)
  /\ Invocation # <<>>
  /\ status' = "pairs" /\ pass' = "rw" /\ at' = 1
  /\ instances' = [i \in Instrs |-> NumInstancesInInvocation(invocNum, i)]
  /\ invMemoryTrace' = <<>>
  /\ UNCHANGED <<input, invocNum, menu, position, instrCounts, pairs>>

SkipPair ==
  /\ status = "pairs" /\ at <= Len(menu[pass])
  /\ Skips(Pair)
  /\ at' = at + 1
  /\ UNCHANGED <<input, status, invocNum, pass, menu, position, instances, invMemoryTrace,
                 instrCounts, pairs>>

\* Mutant: a set that another pair has fetched is fetched again.
Missing_Again(p, way) == StreamsOf(p, way)

Missing(p, way) == StreamsOf(p, way) \ DOMAIN invMemoryTrace

AnalysePair ==
  /\ status = "pairs" /\ at <= Len(menu[pass])
  /\ ~ Skips(Pair)
  /\ \A s \in Missing(Pair, pass) : CanFetch(s)
  /\ position' = [s \in Streams |->
                    position[s] + IF s \in Missing(Pair, pass) THEN instances[s[1]] ELSE 0]
  /\ invMemoryTrace' = [s \in DOMAIN invMemoryTrace \cup Missing(Pair, pass) |->
                          IF s \in Missing(Pair, pass) THEN Fetched(s) ELSE invMemoryTrace[s]]
  /\ LET aliases == Aliases(invMemoryTrace'[WriteStream(Pair)],
                            invMemoryTrace'[OtherStream(Pair, pass)])
         leaves  == Leaves(Pair, aliases)
     IN /\ pairs' = IF input.mode = "adjacent" THEN pairs
                    ELSE [pairs EXCEPT ![pass] = @ \cup Recorded(aliases, pass)]
        /\ menu' = IF leaves THEN [menu EXCEPT ![pass] = Erase(@, at)] ELSE menu
        /\ at' = IF leaves THEN at ELSE at + 1
  /\ UNCHANGED <<input, status, invocNum, pass, instances, instrCounts>>

(***************************************************************************)
(* A stream that ends before the invocation does is read past its end.     *)
(***************************************************************************)
RunOut ==
  /\ status = "pairs" /\ at <= Len(menu[pass])
  /\ ~ Skips(Pair)
  /\ \E s \in Missing(Pair, pass) : ~ CanFetch(s)
  /\ status' = "undefined"
  /\ UNCHANGED <<input, invocNum, pass, at, menu, position, instances, invMemoryTrace,
                 instrCounts, pairs>>

NextPass ==
  /\ status = "pairs" /\ pass = "rw" /\ at > Len(menu[pass])
  /\ pass' = "ww" /\ at' = 1
  /\ UNCHANGED <<input, status, invocNum, menu, position, instances, invMemoryTrace,
                 instrCounts, pairs>>

EndInvocation ==
  /\ status = "pairs" /\ pass = "ww" /\ at > Len(menu[pass])
  /\ status' = "next" /\ invocNum' = invocNum + 1
  /\ instrCounts' = [i \in Instrs |-> instrCounts[i] + instances[i]]
  /\ UNCHANGED <<input, pass, at, menu, position, instances, invMemoryTrace, pairs>>

TimeOut ==
  /\ status = "next" /\ invocNum <= Len(Program)
  /\ status' = "timed out"
  /\ UNCHANGED <<input, invocNum, pass, at, menu, position, instances, invMemoryTrace,
                 instrCounts, pairs>>

Output ==
  /\ status = "next" /\ invocNum > Len(Program)
  /\ status' = "written"
  /\ UNCHANGED <<input, invocNum, pass, at, menu, position, instances, invMemoryTrace,
                 instrCounts, pairs>>

Next ==
  \/ SkipInvocation \/ StartInvocation
  \/ SkipPair \/ AnalysePair \/ RunOut
  \/ NextPass \/ EndInvocation
  \/ TimeOut \/ Output

Exited ==
  /\ status \in {"written", "timed out", "undefined"}
  /\ UNCHANGED vars

Spec == Init /\ [][Next \/ Exited]_vars

-----------------------------------------------------------------------------
(* What the execution holds.                                               *)

Size == Len(FlattenSeq(Program))
Complete == input.recorded >= Size

Id(x) == IF x.call = 0 THEN x.instr ELSE x.call

TouchCommonByte(x, y) == x.addr <= y.addr + y.len - 1 /\ y.addr <= x.addr + x.len - 1

(***************************************************************************)
(* The pairs of executions of an invocation, of p's instructions and of    *)
(* different iterations, that touch a common byte.                         *)
(***************************************************************************)
Conflicts(n, p) ==
  LET inv == Program[n]
      of(i) == {k \in DOMAIN inv : inv[k].instr = i}
  IN {<<inv[kl[1]], inv[kl[2]]>> : kl \in
        {kl \in of(p[1]) \X of(p[2]) :
           /\ inv[kl[1]].iter # inv[kl[2]].iter
           /\ TouchCommonByte(inv[kl[1]], inv[kl[2]])}}

Dependences(way) ==
  LET found(p) == UNION {Conflicts(n, p) : n \in DOMAIN Program}
      ids == UNION {{<<Id(c[1]), Id(c[2])>> : c \in found(p)} : p \in ToSet(Menu(way))}
  IN ids \cup (IF way = "ww" THEN {<<d[2], d[1]>> : d \in ids} ELSE {})

(***************************************************************************)
(* Two conditions on the execution, under which alone the analysis is      *)
(* exact.  The calls that execute an instruction are made in the order in  *)
(* which the cache lists them: within an iteration in the order of their   *)
(* numbers, and in all invocations of a group in the same iterations'      *)
(* order.  And an instruction that one invocation executes in one call     *)
(* only is executed in that call only.                                     *)
(***************************************************************************)
CallsInCacheOrder ==
  \A n \in DOMAIN Program, i \in SubInstrs :
    LET runs  == Runs(Program[n], i)
        calls == [k \in DOMAIN runs |-> <<runs[k].call, runs[k].inst>>]
        cache == CallTraceCache(Program[FirstAlike(n)], i)
    IN calls = FlattenSeq([k \in DOMAIN cache |->
                             [l \in 1 .. cache[k].n |-> <<cache[k].call, cache[k].inst>>]])

CallsOf(n, i) == {x.call : x \in {y \in ToSet(Program[n]) : y.instr = i}}

ConstantCallsStay ==
  \A n, m \in DOMAIN Program, i \in SubInstrs :
    Cardinality(CallsOf(n, i)) = 1 => CallsOf(m, i) \subseteq CallsOf(n, i)

\* Accesses end in the lower half of memory, where those of a program are.
UserAccesses ==
  \A run \in Inputs : \A n \in DOMAIN run.program : \A k \in DOMAIN run.program[n] :
    run.program[n][k].addr + run.program[n][k].len <= H

-----------------------------------------------------------------------------
(* Properties.                                                             *)

\* The types; a count of instances never becomes negative.
TypeOK ==
  /\ input \in Inputs
  /\ status \in {"next", "pairs", "written", "timed out", "undefined"}
  /\ invocNum \in Nat \ {0}
  /\ pass \in {"rw", "ww"}
  /\ at \in Nat \ {0}
  /\ menu \in [{"rw", "ww"} -> Seq(Instrs \X Instrs)]
  /\ position \in [Streams -> Nat]
  /\ instances \in [Instrs -> Nat]
  /\ DOMAIN invMemoryTrace \subseteq Streams
  /\ instrCounts \in [Instrs -> Nat]
  /\ DOMAIN pairs = {"rw", "ww"}

(***************************************************************************)
(* Between invocations, as many accesses have been read from each stream   *)
(* that a pair still needs as its instruction was executed so far: no pass *)
(* reads a stream twice or leaves one behind, whichever pairs were skipped *)
(* or removed (getNextChunk in both passes of invocation_analysis_memeff). *)
(* All this in well-typed states.                                          *)
(***************************************************************************)
InStep(s) == position[s] = instrCounts[s[1]]

StreamsInStep ==
  /\ TypeOK
  /\ status = "next" =>
       \A way \in {"rw", "ww"} : \A k \in DOMAIN menu[way] :
         \A s \in StreamsOf(menu[way][k], way) : InStep(s)

(***************************************************************************)
(* Every set fetched for an invocation holds this invocation's accesses of *)
(* the stream, in order, each with the iteration it was made in and with   *)
(* the instruction of the loop body it belongs to, if the calls are in the *)
(* order of the cache (getInvocationSliceWithIterTags).                    *)
(***************************************************************************)
Tagged(set) ==
  FlattenSeq([k \in DOMAIN set |->
    [l \in 1 .. NumInstances(set[k].entry) |->
      [addr |-> AccessLower(set[k].entry, l - 1), len |-> set[k].entry.length,
       iter |-> set[k].iter, id |-> set[k].id]]])

TagsExact ==
  status = "pairs" /\ CallsInCacheOrder =>
    \A s \in DOMAIN invMemoryTrace :
      LET runs == Runs(Invocation, s[1])
      IN Tagged(invMemoryTrace[s]) =
           [k \in DOMAIN runs |-> [addr |-> runs[k].addr, len |-> runs[k].len,
                                   iter |-> runs[k].iter, id |-> Id(runs[k])]]

(***************************************************************************)
(* The dependences written are exactly those of the execution between      *)
(* instructions of the menu: nothing is lost by removing a pair once a     *)
(* dependence is found, and none comes from a wrongly tagged access.       *)
(***************************************************************************)
PairsExact ==
  /\ status = "written" /\ input.mode # "adjacent"
  /\ CallsInCacheOrder /\ ConstantCallsStay
  => \A way \in {"rw", "ww"} : pairs[way] = Dependences(way)

(***************************************************************************)
(* In adjacent mode the pairs left are those that, in every invocation     *)
(* that executes either instruction, conflict between adjacent iterations  *)
(* from the first up to the last iteration with such a conflict.           *)
(***************************************************************************)
Adjacent(n, p) ==
  UNION {{c[1].iter, c[2].iter} :
           c \in {d \in Conflicts(n, p) : d[1].iter - d[2].iter \in {-1, 1}}}

AdjacentExact ==
  status = "written" /\ input.mode = "adjacent" /\ CallsInCacheOrder =>
    \A way \in {"rw", "ww"} :
      ToSet(menu[way]) =
        {p \in ToSet(Menu(way)) :
           \A n \in DOMAIN Program :
             (\E x \in ToSet(Program[n]) : x.instr \in {p[1], p[2]}) =>
               Adjacent(n, p) # {} /\ Adjacent(n, p) = 0 .. Max(Adjacent(n, p))}

(***************************************************************************)
(* With a complete memory trace the analysis never reads past the end of a *)
(* stream, although the instances it asks for come from other traces.      *)
(***************************************************************************)
NeverRunsOut == Complete => status # "undefined"

(***************************************************************************)
(* Every step brings the analysis nearer to its exit, also a step that     *)
(* removes the pair it is at from the menu it iterates over: the           *)
(* invocations left, then the passes, then the pairs of the pass.          *)
(***************************************************************************)
PassesLeft ==
  IF status = "next" THEN 3
  ELSE IF status = "pairs" THEN IF pass = "rw" THEN 2 ELSE 1
  ELSE 0

Nearer ==
  \/ invocNum' > invocNum
  \/ invocNum' = invocNum /\ PassesLeft' < PassesLeft
  \/ /\ invocNum' = invocNum /\ PassesLeft' = PassesLeft
     /\ Len(menu'[pass]) - at' < Len(menu[pass]) - at

Progress == [][Nearer]_vars

(***************************************************************************)
(* CallTrace.h: isConstantCallID returns "true if every instance of this   *)
(* sub instruction came from the same call ID", so that a pair that is     *)
(* removed for it has no dependence left to find, even if the instruction  *)
(* is called elsewhere in another invocation.                              *)
(***************************************************************************)
RemovedPairsAreDone ==
  status = "written" /\ input.mode = "all" /\ CallsInCacheOrder =>
    \A way \in {"rw", "ww"} : Dependences(way) \subseteq pairs[way]
==============================================================================
