# cam-alias-checker in TLA+

cam-alias-checker finds the data dependences between iterations of a loop.  A
program instrumented with calls to `libcam` is run twice: once the *memory
tracer* records the addresses that each instruction reads and writes, once the
*loop tracer* records which instructions each iteration executed.  Both write
compressed traces.  The program `cam` reads them back in lock-step, invocation
by invocation, and writes the pairs of instructions that touched a common byte
in different iterations (`dependence_pairs.txt`).

An answer is only as good as the weakest of the steps between an access and a
pair: if one access is lost, duplicated, renumbered or given another address
between the tracer and the alias test, a dependence is missed or invented and
nothing reports it.  That is what these modules are about.

## Inventory

Everything is in `src/libcam/src` unless said otherwise.

| Component | State | Operations | Interacts with | What makes it correct |
|---|---|---|---|---|
| Memory tracer (`MemoryTracer.cpp`, `TimeoutCounter.h`, `cam.cpp`) | a map from instruction to a read and a write set of strided patterns; an estimate of the memory used; the timeout's counter; a file per set, written one after the other | init, `CAM_mem`, forced dump, shutdown; the death of the traced program | called by the traced program; allocator; writes the files the reader reads | compression is lossless and keeps order; all sets are cut at one call while it lives; the estimate is exact; a crash, also one within a dump, loses memory only and leaves two cuts at most |
| Memory trace reader (`MemoryTraceStreamer.cpp`, `memory_trace_parser.lex`, `BZ2ParserState.cpp`) | place in the file (stream, block, token), the scanner's state, the part read too much | `getNextChunk(n)` | called by the driver for each instruction and invocation | chunks tile the log; instances are numbered without a gap across dumps; every request is answered; little is buffered |
| Alias test (`dynamic_gcd.cpp`, `isAlias`) | none | `isAlias(write, read)` | called by the driver on overlapping patterns | yes if and only if two accesses share a byte |
| Interval tree (`intervaltree/IntervalTree.h`) | the tree; an iterator's position | build, `overlapIteratorBegin/Next` | built from a write set, asked with each read pattern | every overlapping pattern exactly once |
| Control flow compressor (`ControlFlowCompressor.cpp`) | a window of patterns, the stored patterns | `insertSymbol`, `match`, `merge`, comparison, decompression | one per iteration or invocation of the loop tracer | the symbols in order, compressed |
| Loop and call tracer (`loop_trace.cpp`) | the current invocation and iteration, call stack, groups of invocations, ids of instructions | ten callbacks, forced dump, shutdown | called by the traced program; compressor; `xanlib` containers; writes the loop and call trace | every execution counted in its iteration; equal invocations grouped; partial invocations marked |
| Loop and call trace readers (`LoopTraceStreamer.cpp`, `CallTraceStreamer.cpp`, their scanners, `StaticLoopRec.cpp`, `CallTrace.cpp`, `RepetitionPattern.cpp`, `CompressionPattern.cpp`) | the invocation being read; partial records to merge | next invocation; instances of an instruction in an iteration | called by the driver | the counts the tracer saw, also across dumps |
| Slicing (`static_inst_rec.cpp`) | the position in a set | cut a set by iterations | reader's chunks and loop records | each access tagged with its iteration |
| Analysis driver (`dependence_analysis.cpp`, `main.cpp`) | menu of instruction pairs, streams, the pairs found | one invocation at a time | everything above | a pair is recorded if and only if it aliased in different iterations |
| Memory accounting (`memory_allocator.cpp`) | the estimate, the largest estimate | allocate, free, container wrappers | tracers | what is freed was counted |
| File formats (`parser_wrappers.cpp`, the scanners) | a scanner's state and counts | scan a file, in one or two passes | tracers write, `cam` reads | what was written is read, each number as what it was |
| `xanlib` | lists, tables, bit sets, heaps, pipes, stacks, trees, graphs, most with a mutex | container operations, plain and synchronised | loop tracer, driver | container semantics; links, counts and buffers agree; calls exclude each other; nobody sleeps next to data |
| `libplatform` | none | wrappers of the operating system | `xanlib` | - |

The hard behaviours: numbers (unsigned and signed words, saturation, wrapping
products), resumption (a scanner that stops in the middle of a block and goes
on with another request), cut points (timeouts and dumps in the middle of an
invocation), restart and crash, and the agreement of independently kept
counters (instances in the memory trace, executions in the loop trace).

The traced program and `cam` are single-threaded.  `xanlib` is written for
programs with threads: its pipes wait and signal, and its synchronised calls
lock one or two containers.

## Modules

| Module | Models | Checked by |
|---|---|---|
| `MemSets` | a strided pattern and its pure operations: recording, writing, reading back, splitting | with the modules that use it; `MemSets_proofs` |
| `MemoryTracer` | the memory tracer | `memory_tracer`; `MemoryTracer_proofs` |
| `AccessStore` | abstract: a store of logs, flushed one by one, that a crash may cut | `memory_tracer` |
| `MemoryTraceReader` | reader of one file | `trace_reader`; `MemoryTraceReader_proofs` |
| `LogReader` | abstract: requests answered with the next accesses | `trace_reader` |
| `ControlFlowCompressor` | the compressors of one allocator: window, matching, merging, comparison, freeing | `compressor` |
| `CfcReader` | extends it by the written form, the scanner's two passes over it and the counts kept of it | `compressor` |
| `LoopTracer` | the loop and call tracer: callbacks, groups, dumps, timeout, the two files | `traces`; `LoopTracer_proofs` |
| `LoopTraceStreamer` | extends it by the streamer of the loop trace: scanner, joining of what dumps tore apart | `traces`, `idle_dump`; `LoopTracer_proofs` |
| `LoopTraceReader` | extends that by the walk over the invocations and the tables of iterations and instances | `traces`, `idle_dump` |
| `CallTraceReader` | extends that by the reader of the call trace and the cache of calls | `traces` |
| `TraceFormat` | both trace files token by token, and their scanners | `building_blocks` |
| `AliasTest` | the operators of the alias test: `dynamic_gcd`, `isAlias` | with `AliasCheck` and `DependenceAnalysis` |
| `AliasCheck` | the alias test on one pair of patterns | `building_blocks`, `negative_coefficient`; `AliasCheck_proofs` |
| `IntervalTree` | the tree, its recursive lookups and its iterator | `building_blocks` |
| `DependenceAnalysis` | the driver with slicing: menus, streams read on demand, pairs, adjacent mode, timeout | `dependences`, `constant_call`; `DependenceAnalysis_proofs` |
| `DependenceGraph` | the files of pairs and of static dependences, their scanners, and the graph and statistics made of them | `building_blocks` |
| `MemoryAllocator` | the estimate of the memory in use, with every wrapper for a container | `building_blocks`; `MemoryAllocator_proofs` |
| `EntrySequences` | abstract: what calls on a list promise, as operations on a sequence | with `XanList` |
| `XanList` | lists as items linked both ways, with the buffer of deleted items | `building_blocks` |
| `XanStack` | extends it by the stack made of a list | `building_blocks` |
| `XanHashTable` | buckets in a table that grows through primes, its iteration, its copies in lists and arrays, its destruction | `building_blocks` |
| `XanBitSet` | bit sets as words with a length and a capacity | `building_blocks`; `Xanlib_proofs` |
| `XanQueue` | the heap behind a priority queue, with handles | `building_blocks`, `Xanlib_proofs` |
| `XanQueueSync` | extends it by threads that get from the queue and wait while it is empty | `building_blocks`, `Xanlib_proofs` |
| `XanPipe` | the pipe: threads that wait for data | `building_blocks`, `pipe_wakeup`; `Xanlib_proofs` |
| `XanTree` | trees with parents, children, clones and three listings | `building_blocks`, `cloned_children` |
| `XanGraph` | graphs whose edges are in the tables of the graph and of both nodes | `building_blocks`; `Xanlib_proofs` |
| `XanSync` | which locks the synchronised calls take, in the order in which they take them | `building_blocks`, `sync_calls`; `Xanlib_proofs` |
| `MC*` | inputs for the model checker; `MCBuildingBlocks` puts the self-contained parts side by side, `MCTraces` two kinds of traced programs | |
| `*_proofs` | theorems and their proofs; `MemSets_proofs` begins with the facts about numbers, sequences and sums that several of them need | |

### MemSets

The tracer (`TracerMemSetEntry`) and the analysis (`MemSetEntry`) declare the
same pattern: instances `start..end` of an instruction accessed `length` bytes
at `base + n * stride`.  Addresses are words of `M = 2H` values, computed with
`Wrap` where the code computes in `uintptr_t` and with `Signed` where it stores
into `intptr_t`.  `Expand` is what a set stands for: a sequence of accesses.

### MemoryTracer

| Code | Action or state |
|---|---|
| `memoryTrace` | `insts` (its keys) and `memSet` (two sets for each) |
| `memoryAllocator->memUsed` | `memUsed`; sizes are constants |
| `timeoutCounter` | `timedOut`, `numOperations`, `numOperationsAtTimeout`; `clock` stands for `time(NULL) > initTime + timeout` |
| `memory_accesses.<id>.{r,w}.txt.bz2` | `files`: a sequence of dumped sets each |
| `memory_trace_init` | `MemoryTraceInit` |
| `CAM_mem` | `CamMem(id, op)`, including compression, accounting and the start of a dump at the end |
| `CAM_forceMemTraceDump` | `ForceMemTraceDump`, which starts a dump |
| the loop of `dumpMemoryTrace` | `unwritten`, the sets it has still to write; `DumpFile(s)`, a file opened, appended to and closed, in the order of the map (`Precedes`) |
| `clear()` after a dump | `Clear` |
| `memory_trace_shutdown` | `MemoryTraceShutdown`, which starts the last dump, and `DeleteTrace` |
| `segFaultHandler`, `abort()` in `openCompressedStream` and `closeCompressedStream`, any death of the program | `Crash`, between calls, between two files of a dump or within one, which is then `torn` |

`phase` is where the program is: a dump ("dumping", "stopping") is part of the
call that started it, and nothing else happens before it ends, unless the
program dies.  What files and memory hold together does not change while a dump
writes them; but a program that dies within one leaves the files that it had
written one dump further than the others, and `CutTogether` says that this is
all they can disagree on.  `cam` knows nothing of it: it reads the longer
streams as far as the loop trace counts, the shorter ones to their ends, and
aborts at a torn one (`BZ2ParserState.cpp:125`).

`calls` is a history variable.  What a file stands for is computed with the
reader's own conversions (`Undump`), so `CutTogether` and `StoresAccesses`
check writer and reader against each other.

### MemoryTraceReader

A file is a sequence of streams, a stream a sequence of tokens.  The four
numbers of a pattern are one token: between them the scanner changes nothing
but `curr*` fields.  A block is any prefix of what is left of a stream, so the
model covers every position of a block boundary between tokens; a token cut by
the boundary is put together again by `rem` and `remainder` in the code, which
the model leaves out.  `activeParser` with `blockEnd` is the flex buffer that
outlives the call.  `AskForChunk`, then `ResumeBlock` and `ParseBlock` as long
as `NeedsBlock` holds, then `ReturnChunk` are the body of `getNextChunk`.
Weak fairness of those steps says only that a call, once made, runs.

### ControlFlowCompressor and CfcReader

| Code | Action, operator or state |
|---|---|
| `window`, `storedPatterns` | `window` (youngest first, as the code pushes it), `stored` |
| patterns allocated through `memoryAllocator` | `allocated`, a count of pattern objects |
| `insertSymbol`, with its loop of `match` and `merge` | `InsertSymbol`, with `Compress`, `Match`, `Merge` |
| `clear` | `Clear` |
| `operator==` | `Equal` |
| `operator<<` | `Written`, a sequence of tokens |
| `readCfc` of the scanners | `InstructionList` (first pass), `ControlFlow` (second pass) |
| `getNumberOfInstancesMap`, `buildNumberOfInstancesLut` | `Instances`, `NumInstancesLut` |

`inserted` is a history variable.  A symbol and a pattern with repetitions are
one record; the field that the code leaves uninitialised in either case, and
never reads, is 0.

### LoopTracer, LoopTraceStreamer, LoopTraceReader and CallTraceReader

| Code | Action, operator or state |
|---|---|
| `globals` (`PassGlobals`) | `globals`, a record; its `runningStack` is `stack`, its pools are the running `loop` and `call`, which keep what they held when they are used again |
| `loopTraces`, `callTraces`, `loopInvCallInfos` | `trace` (of the one loop), `callTraces` (of each call in the invocation), `callInfos` |
| `IterationInfo`, `InvocationInfo`, `LoopInvocationCallInfo`, with their bit sets of sharers | `Group`: a body, a set of sharers, `partiallyDumped` |
| `recentIterationMatches`, `latestInvocationGroups`, `recentLoopInvCallInfos` | `recent`, indices of groups |
| `recordInstsSeenOnIteration`, `processInvocation`, `recordCallTracesForInvocation` | `RecordIteration`, `FinishLoop`, `FinishCall`, `RecordCallTraces`, all by `Share` |
| the ten callbacks | an action each; `CAM_profileLoopSeenInstruction` is `LoopSeenInstruction` or `CallSeenInstruction`, by what is on the stack |
| `checkDumpTraces` at the end of a callback | `MayDump`: any callback may dump while something runs |
| `dumpTraces` | `FinishRunning`, `WriteTraces`, `ClearTraces` |
| `loop_trace.txt.bz2`, `call_trace.txt.bz2` | `loopFile`, `callFile`: sequences of counts, entries and markers |
| the scanners | `Scan`, a line at a time |
| `getNextEntry`, `mergeIntoAndReturnRemaining`, `mergeIterationInfo`, `addCallTraceCall` | `NextEntry`, `GoesOn`, `Merged`, `MergeGroups`, `MergeCallInfo` |
| `ii_begin`, `ii_next`, `findLoopTraceEntry` | `Walk`, `FindEntry` |
| `buildLut`, `buildInstructionInstanceLut`, `getIterationNumber` | `Lut`, `InstanceLut`, `IterationNumber` |
| `buildCallTraceCache` | `CallTraceCache` |

`history` is what was executed; `atCall` is the call that the program has
announced with `CAM_profileLoopSeenInstruction` and is about to make;
`idleDump` remembers that a dump was forced while nothing was running.  The
contents of a compressor are the sequence of its symbols: that this is all a
comparison or a reader sees of it is what `compressor` checks.
An abort or undefined behaviour of the reader is a `status` other than `"ok"`.

Assumed of the program: it calls the library as `cam.h` asks, starts an
iteration before it reports instructions of it, traces one loop,
as the `README.md` of the sources says ("Currently the tools can only analyse
one loop at a time"), and does not nest calls, which a comment in `dumpTraces`
assumes and nothing checks.

### AliasTest and AliasCheck

`DynamicGcd` is `dynamic_gcd` with every intermediate result wrapped as in
`uint64_t`, on states that are pairs of patterns whose extents overlap (the
interval tree offers no others).  `Clashes` and `Bytes` are the reference
definitions, by enumeration.  The patterns stay in the lower half of memory
(`InLowerHalf`), as those of a user program do.

`Divides` says where the arithmetic of `dynamic_gcd` is sure to be right.  The
product of the strides fits; and so does that with the coefficient, if the
coefficient is not negative.  A negative one is a large unsigned number, and the
quotient by the gcd is then off by a multiple of the lcm, which does not matter,
if the product of the strides divides the number of words, that is, if both
strides are powers of two.

### DependenceAnalysis

| Code | Action, operator or state |
|---|---|
| `pairMenu` with `buildInstrPairMenu`, `buildInstrPairMenuFromDDG` | `menu`, `AllRw`, `AllWw`, `FromDDG` |
| the streams of `memoryTraces` | `position`; what is left of them is `Patterns(Log(i))` from there |
| `invMemoryTrace` | `invMemoryTrace`: the sets fetched in this invocation, sliced and tagged |
| `getInvocationSliceWithIterTags` and its iterators | `Sliced`, with `LoopTags` or `CallTags` |
| `buildCallTraceCache`, `isConstantCallID` | `CallTraceCache`, `IsConstantCallID`; `Cache` is that of the first invocation alike, as `loop_analysis_memeff` keeps it |
| the body of the loop over the menu | `SkipPair`, `AnalysePair`, `RunOut` |
| `recordDependencePair` | `Recorded` |
| `iterationsWithAdjacentDependence`, `getFirstBitUnset` | `AdjacentIterations`, `NoGap` |
| the loop over invocations, its timeout and its end | `SkipInvocation`, `StartInvocation`, `NextPass`, `EndInvocation`, `TimeOut`, `Output` |

It takes the loop and the call trace for what `traces`
shows they read back as, and a memory stream for what `trace_reader` shows; what
it adds is that they are read in step.  `input` never changes: it says what was
executed and which of the three modes is used.

### TraceFormat and DependenceGraph

Files are sequences of tokens; each scanner rule is an action, and the counts
by which it tells one number from the next are its state.  The pairs of the
dependence file are sorted as `std::set` keeps them.

### XanList, XanStack, XanHashTable, XanBitSet, XanQueue, XanTree, XanGraph

One action for each function that changes a container.  Pointers are names out
of a small set, so that an item can be in use twice or not at all, and
`contents`, `inserted`, `members`, `wanted` are history variables: what the
calls promise.  `ListsAreSequences` compares the linked items with
`EntrySequences` after every call.

In `XanTree`, `stale` is a history variable: the node that has a child in its
list although the child names another parent, or none.  Such children come from
`cloneTree`, which puts the copies into the copied node's list and does not set
their parent; when one is added elsewhere, `addChildren` takes it out of no list.
`TreesSound` says how far this goes: a node is in the list of the parent it
names, once, and in one list more at most, and the walks, listings, depth and
clones are right as far as they end.  `InOneList` is what a tree should be, and
`cloned_children` shows how it is broken.  What is required of a client is that
it puts no node below itself, that it neither clones nor destroys a tree with a
list that has a child twice, where the walk never ends, and that it destroys no
tree with a node of another, which `destroyTree` would free as well.

### XanPipe, XanQueueSync and XanSync

In `XanPipe` and `XanQueueSync` what a call does while it holds the mutex is one
step; waiting gives the mutex back, so the loop around the wait is a step of its
own.
In `XanSync` a call is the sequence of locks it takes, a lock at a time; what
it does with the containers is `XanList`'s.  A thread may compare any two lists
in any order, or a list with itself, and call `syncInsertAfter`, which locks its
own mutex twice.  `CallsExclusive` says that calls that share a container exclude
each other, and that threads block each other only through a call that takes its
mutexes out of the order of the containers; `NeverStuck`, that they never do, is
what `sync_calls` refutes.

### MCBuildingBlocks

`component` says which part runs; an action is `Only(c) /\ X!Next`, and the
others rest in an initial state.  The parts do not interact: one run for all of them asks the same
questions as a run for each, and their properties keep their names.

### MCTraces

`program` says which of two kinds of programs is traced.  One makes no calls in
the loop and has up to three invocations; the other makes only calls, in up to
two.  The bounds of each are those that it needs; both together would be too
many for one model.

## Runs, and what they show

| Run | Properties | Bounds |
|---|---|---|
| `memory_tracer` | `TypeOK`, `SetsContiguous`, `CutTogether`, `MemUsedExact`, `RecordsExactly`, `StoresAccesses` (refinement of `AccessStore`) | two instructions, five operand triples, 16 addresses, three calls in each run of the program, a limit that some calls exceed, the clock read at every second call |
| `trace_reader` | `NothingLost`, `KeepsLittle`, `ReadsLog` (refinement of `LogReader`, with its liveness) | 54 logs of one or two dumps; requests for 0 to 3 instances, three of them |
| `compressor` | `Lossless`, `FullyCompressed`, `EqualIffSameTrace`, `AllocationsExact`, `ReadsBack`, `CountsInstances` | two compressors of one allocator, all sequences of two symbols with up to twelve in both together, a window of four patterns |
| `traces` | `InvocationsGrouped`, `Readable`, `LoopReadsBack`, `InstancesFindTheirIteration`, `CallsReadBack`, `SubInstancesFindTheirIteration` | without calls: three invocations of up to three iterations, five in all, three instructions executed in all, up to two in an iteration, two dumps anywhere; with calls: two invocations of up to two iterations, three in all, up to two of two calls in each, one instruction in the functions called, four calls and instructions executed in all, a dump anywhere; two recent groups, the timeout before the last of the instructions; no more than four invocations and dumps together |
| `dependences` | `StreamsInStep`, `TagsExact`, `PairsExact`, `AdjacentExact`, `NeverRunsOut`, `Progress` | two invocations out of 17 bodies of up to four iterations, with and without calls; three modes, two graphs, both orders of the files; memory traces complete or cut |
| `building_blocks` | `ListsAreSequences`, `TableSound`, `BitSetsExact`, `HeapSound`, `TreesSound`, `CallsExclusive`, `LookupsExact`, `FindsClashesWhenItDivides`, `AnswersCommonByte`, `FormatReadsBack`, `AccountExact`, `DynamicGraphExact`, `WaitersServedByPuts` (liveness) | below |
| `idle_dump` | `ReadableAfterIdleDump`, violated | a dump between invocations |
| `negative_coefficient` | `FindsClashes`, violated | strides 12 and 20 |
| `constant_call` | `RemovedPairsAreDone`, violated | two invocations, complete traces |
| `pipe_wakeup` | `WaitersServed`, violated | three threads, three data |
| `sync_calls` | `NeverStuck`, violated | three threads, three containers |
| `cloned_children` | `InOneList`, violated | up to four nodes |

The bounds of `building_blocks`, part by part:

| Part | Bounds |
|---|---|
| lists | four items, two data, two lists, a buffer of one deleted item |
| hash table | three keys that collide in different ways in tables of 2, 3 and 5 buckets, up to four entries, elements that are keys as well |
| bit sets | two of them, words of two bits, up to four bits |
| heap | five handles, three priorities, an array that first holds one |
| getters | three threads that get from a heap of three handles and two priorities |
| pipe | three threads, three data |
| trees | up to four nodes, one of which may have another datum than the rest, in eight addresses: every clone has room |
| graphs | three nodes, three edges, two data for each |
| locks | three threads, three containers |
| interval tree | up to four intervals over four coordinates, three levels, buckets of two; every query |
| alias test | pairs out of some 110 patterns: strides of both signs and zero, up to four accesses, one width aligned or widths 1, 4 and 8, aligned or not |
| trace files | one or two entries in one or two dumps, up to two groups in each of up to two calls |
| allocator | three objects, two items in a container, bit sets of three bits in words of one, sizes of which no few add up to another |
| dependence graph | 32 sets of pairs with each of 60 static graphs |

Why the bounds are enough.  A pattern is decided by the last two accesses and
the next one; three calls with up to two reads each let a pattern start,
establish its stride, be extended, be broken by address and by width and be cut
by a dump, with another instruction in between; up to four files in a dump leave
room for a death before, between, within and after them.  The operands include addresses
whose distances do not fit the signed half of the 16 words, so that strides
wrap.  In the reader, up to four accesses in each of two dumps with requests of up to
three put the end of a chunk before, inside and after patterns, trivial pairs and
dumps.  The compressor's window is 50 patterns in the code; with four it
overflows in both of two compressors within the bound, and patterns within
patterns, a match after a merge and a merge after a match all occur within nine
symbols; three patterns would be too few for the last.  Two dumps tear one
iteration, or one invocation, into three parts; three invocations are a group,
one that differs or is cut, and one that could share with the first, and three
iterations leave room for one that does not execute an instruction between two
that do; one or two recent groups, instead of 32, are already forgotten within
the invocations there are.  In the alias test the word is 16 bits: no product there exceeds it
for a positive coefficient, and a negative one behaves as in 64 bits for the
strides used, because 2^16 and 2^64 leave the same remainder by 60 (the least
common multiple of 12 and 20).

In the containers, what can go wrong depends on where an item stands: alone, at
either end, or between two others; in the head of a bucket or in its chain; in
the last word of a bit set, within its capacity or beyond.  Each of these
occurs with the numbers above, and so does every pair of calls after one
another on each.  Three intervals on one node's path and a fourth in another
subtree make the iterator climb over two nodes at once and then descend again.
Two invocations decide whether streams stay in step: what the first reads too
much or too little, the second misses.

In all runs of the loop tracer, dumps and the timeout may come at any time.
That a trace is readable is claimed if no dump was forced while nothing was
running and the time did not run out (`Readable`): `idle_dump` shows why for
the one, and the list of what else is known, below, for the other.  That what
is read is right is claimed of every readable trace.

Fairness.  The reader's steps within `getNextChunk` are weakly fair: a call,
once made, runs.  In `DependenceAnalysis`, `Progress` is an action property and
needs none.  In `XanPipe` only `SyncGet` is weakly fair: a thread that is awake
in it gets its turn and, as the others hold the mutex for a moment only, the
lock.  Nobody is made to put data, to call, or to wake up unless it is woken.

`CHECK_DEADLOCK FALSE` is set where the system stops: a tracer after its bounded number of
calls or its shutdown, a reader after its last request and the alias test after its answer have
nothing left to do, likewise the parts of `building_blocks` that only answer
questions, and its calls may all wait for each other.  No symmetry is used.

Every property is accompanied by a mutant of a modelled definition, a plausible
slip in that code, that breaks it.

## What is proved

With TLAPS, for every value of the constants that the hypotheses below allow:

| Theorem | States | In |
|---|---|---|
| `RecordAppends`, `UndumpDump` | recording appends one access; writing and reading back is the identity | `MemSets_proofs` |
| `TypeCorrect`, `AlwaysContiguous`, `RecordsExactlyAlways` | `TypeOK`, `SetsContiguous`, `RecordsExactly` | `MemoryTracer_proofs` |
| `CutTogetherAlways`, `TracerStoresAccesses`, `MemUsedExactAlways` | `CutTogether`, `StoresAccesses`, `MemUsedExact` | `MemoryTracer_proofs` |
| `NothingLostAlways`, `KeepsLittleAlways`, `ReaderKeepsPromise` | `NothingLost`, `KeepsLittle`, the safety of `ReadsLog` | `MemoryTraceReader_proofs` |
| `InvocationsAlwaysGrouped`, `LoopTraceAlwaysReadable` | `InvocationsGrouped`, `Readable` | `LoopTracer_proofs` |
| `StreamsAlwaysInStep`, `StreamsNeverRunOut`, `AnalysisProgresses` | `StreamsInStep`, `NeverRunsOut`, `Progress` | `DependenceAnalysis_proofs` |
| `TagsAlwaysExact`, with `SlicedTagged` | `TagsExact`; slicing a chunk gives each access once, as recorded, with the tag of its piece | `DependenceAnalysis_proofs` |
| `PairsAlwaysExact`, `AdjacentAlwaysExact` | `PairsExact`, `AdjacentExact`: the result of the analysis is that of the execution | `DependenceAnalysis_proofs` |
| `ClashesAlwaysFound`, `AliasAlwaysAnswered` | `FindsClashesWhenItDivides`, `AnswersCommonByte` | `AliasCheck_proofs` |
| `PipeTypeCorrect`, `NoWakeupLost` | types; the safety half of `WaitersServedByPuts` | `Xanlib_proofs` |
| `CallsAlwaysExclusive` | `CallsExclusive` | `Xanlib_proofs` |
| `AccountAlwaysExact` | `AccountExact` | `MemoryAllocator_proofs` |
| `HeapAlwaysSound`, `NobodyEverSleepsNextToItems` | `HeapSound` of `XanQueue`, and with `NobodySleepsNextToItems` of `XanQueueSync` | `Xanlib_proofs` |
| `BitSetsAlwaysExact` | `BitSetsExact`: `BitSetsAreSets` and `RangesExact` of `XanBitSet` | `Xanlib_proofs` |
| `EdgesAlwaysAtBothEnds` | `EdgesAtBothEnds` of `XanGraph`, one of the two parts of `TreesSound` | `Xanlib_proofs` |

Together these follow an access from `CAM_mem` to the driver: it is appended to
its pattern, dumped and read back as it was, cut with all others at one call unless the program died,
returned by the reader once and in its place, taken from its stream in the
invocation that the loop trace counts it in, and tagged with the iteration and
the instruction it belongs to.  The patterns it ends in are compared by a test
that answers whether two of them touch a common byte, and what the driver
writes in the end are the dependences of the execution, all and no others.

### Patterns

`RecordAppends`: `Expand` of a set after `recordMemoryReference` is `Expand` of
the set before with the access at the end.  The argument is by cases on what
the code does with the last pattern; in the case of a second access it needs
that a stride, stored as the signed remainder of a distance, multiplied back
and wrapped gives the address again (`SignedDistance`, `WrapAround`), and in
the case of a third that the prediction is the address of the next instance
(`EntryFacts`).

`UndumpDump`: a set whose entries follow one another is dumped as differences
and read back, by the saturating conversion of the scanner, as the same set.
Each entry is read back from its differences and the entry before it
(`UndumpEntry`); that the recursive function `Undump` is the set follows by
induction over the number of entries (`SetInduction`).

### Memory tracer

`IInv == TypeOK /\ SetsContiguous` is inductive, and neither half alone is:
that the next instance follows the last needs the types of the entry, and the
type of a stride and of a dumped number of instances needs that `start <= end`.
`RecordsExactly` follows from `RecordAppends`, applied to both reads and to the
write.

`CutTogether` speaks of files and memory together and of whichever call it is
that they end at.  `CutInv` adds what a step needs to know: what is in memory
can be written and read back (`AllStorable`, `AllReadable`, so that a dump
moves accesses and does not change them), the number of operations is that of
the calls while the program runs and the reported one after a timeout is one of
them (`CallsCounted`), a dump has written sets that come before those it has not
(`DumpInOrder`), and the *files alone* that it has not written all end at one
call, where the dump before ended (`FilesCut`).  A crash leaves just these: the
files not written at that call, and those written (`Written`) at the last call
kept, for that is where files and memory together ended.  `StoresAccesses`
follows from the same invariant: each action maps to one of `AccessStore` or to
a stutter, a file of a dump to the flush of its log.

`MemInv == IInv /\ MemUsedExact` is inductive: an instruction's record is
counted once, when its key is new, and a pattern when `Record` made one.  The
sum over the streams is handled by `SumsUp` (`MemSets_proofs`), which says
what a sum does when a summand changes, without computing it.

### Memory trace reader

`NothingLost` says nothing of the scanner's own state, from which the next step
starts.  `IInv` ties that state to the tokens read so far (`Here`, with the
invariant `Progress` of the scanner), the flags of the block and of the file to
where they end (`InBlock`), and what is held while a request is served to what
the request still needs (`InRequest`, with `Tight`: only the last entry, or a
last but one that ends just there, makes it enough, which `KeepsLittle` needs).  `trace_reader`'s instance
satisfies it at every state.  The step that parses is reduced to one token at a
time, by induction over the prefix of the block that was scanned; the split of
the last pattern needs that `SplitOffEnd` divides what a pattern stands for
(`SplitsAt`).  `ReaderKeepsPromise` then maps each action to one of
`LogReader`, whose liveness stays with the model checker.

### Loop and call tracer

`InvocationsGrouped` is not inductive: it speaks of the file's groups, which
are made of the running invocation when that ends.  `IInv` adds the types of the
state, that a call is only announced within the loop, and that a running
invocation's number is the next one to be grouped; and it has the same first
invocation for the groups of both traces (`Grouped`), as a dump clears both.
`ShareCases` says what `Share` can do with an invocation: it adds it to the
sharers of one earlier group, or it makes a group with this invocation alone;
which of the recent groups are compared does not matter.  A partially dumped
group takes no sharers.  On the instances of `traces`
`IInv` holds in every state.

`Readable` speaks of a file that is complete.  Before, the file may end within an
invocation, and then it depends on what is still held whether it can be read:
`Fits` says that either nothing is open in the file (and if an invocation was
completed since, there is a group to write), or its last entry is open for one
invocation, which goes on; that is, it runs and is marked as partially dumped,
or the first of the groups is the rest of it and nobody else's (`Pending`).
The groups written then begin with what the streamer asks for.  This needs of
`Share` that the rest of a torn invocation is a group of its own and stays the
first (`ShareExtends`), which the mutant of `Readable` breaks, and of the other
side that a file whose lines are followed by those of more groups is read as
before, and on (`WrittenIsRead`): a line at a time (`ScansOneMore`) and an entry
at a time (`JoinsOneMore`), by induction over the lines.  The premise that no
dump was forced between invocations is needed in one place only: such a dump
writes a marker without an entry.

### Analysis driver

`StreamsInStep` is about the moments between invocations.  `KeepsStep` says
what holds within one: a stream that a pair left in the menu needs was read for
this invocation if and only if its set was fetched, and a pair that was passed
has both its sets or nothing to fetch.  Removing a pair from the menu, the
second pass over write pairs and the pairs that the adjacent mode skips each
keep it.  `NeverRunsOut` needs in addition that no more was asked for than the
traces count (`KeepsCount`), and complete memory traces, which it has as its own
premise.  `Progress` needs only the types.

`TagsExact` relates four things that are computed apart: the patterns of a
stream, the place in it, the tags taken from the loop trace or from the cache of
the call trace, and the execution.  It is inductive with `IInv` and
`CountsExact` (the counts are those of the execution, not merely at most those),
because a set does not change once it was fetched; what is hard is that a set is
exact when it is fetched (`FetchedExact`):

1. The patterns of a log hold it (`PatternsHold`, from `RecordAppends`), and the
   log is a prefix of all executions of the instruction, in which this
   invocation's begin after those counted before (`LogHolds`).
2. `Holds(set, F, a, b)` says that the entries of a set follow one another from
   instance `a` to the one before `b` and that each access is what `F` has in its
   place.  A cut of such a set holds the part that was cut (`CutHolds`): the
   first and the last slice may be inside a pattern, whose base is moved by a
   wrapped multiple of the stride.
3. Slicing holds piece after piece and tags each (`SlicedTagged`), however
   pieces and patterns overlap; `Spread` is the sequence of tags, each as often
   as its piece has accesses.
4. The tags spread out are those of the executions, one for one (`TagsTell`).  In
   the body of the loop this is so because iterations never go back
   (`LoopTagsTell`); in a callee because the calls are in the order of the cache,
   which is the premise of `TagsExact`, and an instance of a call is made in one
   iteration (`CallTagsTell`).

`PairsExact` and `AdjacentExact` speak of the end of a run, and no state on the
way says more than that some invocations were analysed for some pairs, of a menu
from which pairs were taken out. The invariant that carries them is `Found`:

1. `Kept`: of a pair that is in the menu, every invocation that the analysis is
   past (`Covered`: an earlier one, or this one if its place in the menu was
   passed) has been recorded (`Held`). In adjacent mode nothing is recorded, and
   `Held` says that the invocation left no gap (`Works`).
2. `Dropped`: of a pair that is not in the menu any more nothing is missing
   (`Gone`): its dependences in all invocations are recorded, those still to come
   included, or, in adjacent mode, some invocation has a gap.
3. What is recorded is a dependence of the execution.

A place in the menu comes to stand for the next pair when one is taken out, so
that `Kept` needs of `Erase` that those before it stay where they are and those
after it move up together with the place (`AnalyseFound`). `Dropped` is where
the analysis takes a risk: it takes a pair out after the first dependence if each
of its instructions is in the loop body or called from one place
(`isConstantCallID`). `SettledIds` says that this is right if `ConstantCallsStay`: the dependences of such a pair
have the same identifiers in every invocation. What an analysed invocation
contributes (`AnalyseDoes`) is exactly its conflicts, because the sets hold the
executions of both instructions, one for one (`SetMembers`, from the argument
of `TagsExact`: `SetsExact` adds that the entries are patterns), the extents in the
interval tree cover every byte (`Extents`), so that no pair of patterns
that touch is left out, and the test answers for the rest (`TestAnswers`,
`AliasesTell`). An invocation that skips a pair executes neither of its
instructions and has nothing to say of it (`NotExecuted`).

### Alias test

Nothing changes in `AliasCheck` but the answer, so that the invariant only says
that the patterns are among those given.  What is proved is number theory, and
what the code makes of it in unsigned words.

1. The loops of `dynamic_gcd.cpp` are recursive functions over what a turn
   leaves.  `LoopReturns` says that a loop whose measure falls with each turn
   has exactly one value at every argument; with it, `GcdDivides` and
   `BezoutCoefficients` follow from the invariants of the turns.
2. The common points of two progressions are one of them and the multiples of
   the lcm around it if the gcd divides what is left of the distance of the
   starts (`DeltaReaches`), and there is none otherwise (`StepsApart`,
   `LcmDivides`).
3. `OffsetIsReduced`: the offset that the code computes is the one below the lcm.
   It needs `Reduces`, which is what `Divides` says of these numbers;
   `negative_coefficient` is what happens without it.
4. `CountIsExact`: the count rounds up over an unsigned difference that passes
   below zero when the first common point is beyond the end, and is 0 then.
5. `GcdTestFinds` puts these together, in the order of the strides that
   `Ordered` chooses.  A pattern in the lower half of memory is its progression
   (`PatternFacts`, `ProgressionFacts`, `PointsAreAddresses`), also if it
   descends or is one access.
6. Two aligned accesses of one length share a byte only if they are one
   (`AlignedApart`), so that the common points answer for the bytes
   (`GcdTestAnswers`); brute force compares bytes (`BruteForceAnswers`), and
   two patterns of stride 0 whose extents overlap share bytes
   (`ConstantAnswers`).

### Memory accounting

`AccountExact` is nearly inductive: `AInv` adds that every object has a size
greater than zero, for which it needs to know what objects look like, and that
the items of tables have a key and an element.  The heap is a function, and the
estimate a sum over it; `TotalWithout`, `TotalWith` and `TotalReplaced` say what
one object less, more or changed does to the sum, which rests on `AnyTakenOut`:
it does not matter which summand is taken first.  The tables that are freed with
their keys and elements are the hard part.  `ItemDrained` says what one turn of
the loop leaves: the estimate of the heap without the blocks freed so far, less
the items taken out; the blocks of an item were not freed before, because the
client holds each once (`FreesOnce`), and no turn takes the estimate below zero,
because the table itself is still counted (`TableLeft`).  A bit set that expands
becomes larger, so that the code's test for growth never misses one
(`WordsGrow`).

### xanlib

`NoLostWakeup` (`XanPipe`, whose proof is in `Xanlib_proofs`) is inductive on
typed states: a thread sleeps next to data only if some datum was put at the
end; a put into an empty pipe wakes all, and if the pipe was not empty, nobody
slept.

`CallsExclusive` (`XanSync`): `CallsInv` says that a mutex is owned by the call
that counts it among those it has, that a call takes its mutexes one after the
other and gives them all back, and that it holds none twice; nothing is assumed
of their order.  Of threads that wait for each other, if all took theirs in the
containers' order, one would want the last container that any of them wants; but
who holds that one waits for one further on.

`HeapSound` (`XanQueue`) says of the order that the first item is the highest;
that it is again after the next call follows from the order of all items with
their parents (`Heap`) and from the positions (`Placed`), which `IInv` has.
Within a call the order fails at one item at a time (`HeapBut`), and what is
below that item is in order with what is above it.  `heapShiftUp` ends where
the item is in order with its parent (`ShiftUpFacts`), `heapShiftDown` where it
is with its children (`ShiftDownFacts`); in this order they restore the heap
after an item was put at the end, changed its priority or took the place of an
extracted one (`SettleFacts`).  Both loops are recursive functions over turns:
the invariants of a turn (`RisesWell`, `SinksWell`) hold by induction over the
turns (`TurnInduction`), and the number of handles suffices, because
positions halve, or grow, with each turn and there are no more than items
(`SizeBound`).  `HighestIsFirst` is the argument that of the items above the
first in priority the one with the least position has a parent that is above
it as well.  That nobody sleeps next to items is then inductive with the sizes
that calls leave behind.

`BitSetsAreSets` and `RangesExact` (`XanBitSet`, whose proof is in
`Xanlib_proofs`) hold for every size of a word.  The operations work on whole
words, so the answers rest on what is beyond the length: `BInv` says that no bit
there is set, in the last word or in the capacity, and it needs that the words of
a length hold its bits (`BitsAreInWords`) and, after `setAll` and `invertBits`,
no others (`FilledWords`).  The searches skip words; `NotFull` says that a word
with a bit that is clear does not count as full.  Each turn of the writer's loop
adds one maximal run after a gap (`RangeAfterFacts`, `AnotherRun`), and it ends
because a run after the n-th ends at bit n or later (`Searched`).

`EdgesAtBothEnds` (`XanGraph`, whose proof is in `Xanlib_proofs`) compares three
tables.  The invariant `Ends` compares each with the pairs that were connected,
also for a node that a graph does not have yet, so that a new node meets no
entry of its number.  It is stated of any sequences of nodes and edges:
`ConnectEnds` is then used once for a directed edge and twice for an undirected
one, whose second half starts from what the first has made.

### Hypotheses

The named assumptions of the modules (`HAssumption`, `MaxStrideAssumption`,
`TracerAssumption`, `LoopTracerAssumption`, `InstrsAssumption`,
`InputsAssumption`, `AllocatorAssumption` and so on) are the types of the
constants; the model checker evaluates them in the passing runs. Some
theorems have hypotheses of their own:

- `UserAddresses`: the addresses of the operands, or of the first access of
  each dumped run, are in the lower half of the words.  The first base is
  written unsigned and scanned with `strtol`, which saturates
  (`memory_trace_parser.lex:73`), so that without it the trace is not what was
  recorded.  It holds of user programs on the platforms the library supports.
- `EntriesAssumption`, of the alias test: an access has at least one byte, and
  the patterns are in the lower half of memory (`InLowerHalf`), for the same
  reason.
- `ProgramsAssumption`, of the driver: executions are `Orderly`.  The iterations
  of an invocation are numbered as they come (`CAM_profileLoopIterationStart`,
  `loop_trace.cpp:1661`), an instance of a call is made in one iteration, and an
  instruction of the loop body is executed in the body and one of a callee in a
  call, which excludes a function that calls itself from the loop that is traced.
- `UserAccesses` and `[]GcdTestAgrees`, of `PairsAlwaysExact` and
  `AdjacentAlwaysExact`.  The accesses of an execution end in the lower half of
  memory, as for the alias test; `MCDependenceAnalysis` assumes it of the runs'
  executions, where it is evaluated.  And for any two patterns fetched
  for an invocation, if `isAlias` compares them by the GCD test, it answers as
  the byte-by-byte test does. Without this the analysis is not exact
  (`negative_coefficient`).  `AliasAlwaysAnswered`, with `BruteForceAnswers`, says
  that it holds of patterns whose strides satisfy `Divides` and whose accesses
  are aligned; in the executions of `dependences` it is used for pairs of
  patterns with strides, and it holds in every state.  The two conditions on
  the calls, `CallsInCacheOrder` and `ConstantCallsStay`, are premises of the
  properties themselves.
- `SyncAssumption`: there are finitely many containers, and they are numbers, to
  have an order that a call can keep or not.  The calls know of none.

`QueueAssumption` asks for an array that begins with an odd number of slots, and
stays so as it grows from n to 2n + 1: `heapShiftDown` reads the slot of a right
child that may not exist, and with an even number it would read beyond the
array.  `DEFAULT_HEAP_SIZE` is 15 (`xanqueue.c:38`).  Priorities are integers
there, floating-point numbers in the code; only their order matters, so that
what is left out is NaN.

`MCMemoryTracer`, `MCMemoryTraceReader` and `MCBuildingBlocks` assume them of
their instances, where they are evaluated.

### Only model-checked

Out of the prover's reach: the liveness of `ReadsLog` and of
`WaitersServedByPuts`; the compressor, what the readers of the loop and call
trace make of the entries (`LoopReadsBack`, `CallsReadBack` and the tables of
instances; that there are entries to the end is `LoopTraceAlwaysReadable`) and
the file formats, whose recursive operators would need induction over data.
Not attempted: the lists, tables and trees of `xanlib`, the interval tree and
the dependence graph.  Of `TreesSound` only the part about graphs is proved.

## Disagreements found

- **`dynamic_gcd` with a negative coefficient** (`negative_coefficient`).  The
  quotient by the gcd is taken after wrapping, so for strides that are not
  powers of two clashes are missed or invented.
- **Dumps between invocations** (`idle_dump`).  A forced dump with nothing new
  to write, or the shutdown after one, writes a marker with no entry before it,
  at which the scanner aborts.
- **Removing pairs that are settled** (`constant_call`).  A pair is taken out of
  the menu after its first dependence if each of its instructions is in the loop
  body or was executed by one call only, in *this* invocation; a later
  invocation may execute it from another call, whose dependence is then missed.
- **Data put at the end of a pipe** (`pipe_wakeup`).  `xanPipe_putAtEnd` wakes
  one of the threads that wait, and `xanPipe_put` none when the pipe is not
  empty: a thread keeps waiting next to data.
- **Synchronised calls that block** (`sync_calls`).  `xanlib.h:40` calls the
  synchronised form thread-safe.  `xanList_syncInsertAfter` calls itself, not the
  unsynchronised call, and waits for the mutex that it holds (`xanlist.c:1232`);
  `xanList_syncContainsTheSameElements` locks two lists in the order of its
  arguments, so that a list compared with itself, or two lists compared in both
  orders by two threads, block for ever.  A comment there says "This could
  deadlock!" (`xanlist.c:1327`) and does not say what a client should do.
- **Children of a clone** (`cloned_children`).  `cloneTree` does not set the
  parent of the copies it puts into a list (`xanlib.c:521`); `addChildren`, which
  takes a node out of the list of its parent first, leaves such a copy where it
  was, and it is a child of two nodes.

The inputs and the premises of properties leave out what else is known to go
another way than one might expect, and no run shows:

- Timeouts inside an invocation: the running invocation is not written at
  shutdown, and the last complete group is marked incomplete
  (`loop_trace.cpp:1403`); the reader looks for a continuation that is not there.
- The memory tracer and the loop tracer run, and time out, in separate
  executions; `cut` traces in `dependences` are why `PairsExact` is claimed of
  complete ones only.
- First bases in the upper half of the address space are written unsigned and
  read with `strtol`, which saturates; the logs of `trace_reader` start below it.
- The alignment of the base alone chooses the GCD test, so that patterns whose
  stride leaves the alignment are compared by first bytes; `AnswersCommonByte`
  is about the others.
- Two reads of one call enter the same set (`MemoryTracer.cpp:373`), so that an
  instruction with two reads has two instances where the loop trace counts one;
  the programs of `dependences` read once.
- The end of a compressed file is noticed by a read that hits it
  (`BZ2ParserState.cpp:70`).
- Instructions reported before the first iteration are counted in it
  (`loop_trace.cpp:763`); the program starts an iteration first.
- The order of calls within an iteration is not in the traces, and is taken to
  be that of the call identifiers.
- The cache of calls is kept with a group of the call trace
  (`dependence_analysis.cpp:990`), but depends on the iterations of the
  invocation it was built for; the test program builds one for each invocation.
- `memory_trace_shutdown` deletes the map and not the records in it, which only
  `DebugMemoryAllocator` notices; `MemUsedExact` is about the running tracer.
- `stackPop` on an empty stack still subtracts an item from the estimate; the
  tracer does not do it, and neither does `MemoryAllocator`.
- `checkDynamicDDGIsSubset` (`main.cpp:116`) compares ends of dependences, not masks.
- In `xanlib`: `containsTheSameElements` does not count how often an element
  occurs (`xanlist.c:584`); `setAll` and `invert` also set the bits beyond the
  length; `xanPipe_get` and `xanQueue_get` unlock before they take, and are for
  a program with one reader; `syncDestroyList` unlocks what it has freed
  (`xanlist.c:1381`), and the `syncDestroy*` of tables never unlock;
  `xanStack_destroyStack` frees a stack with `free` whatever allocated it
  (`xanstack.c:193`); an undirected edge of a node with itself aborts after its
  first half (`xangraph.c:124`); a clone of a
  tree has its children in reverse (`xanlib.c:521`); once a child of a clone is in
  two lists, `destroyTree` of both frees it twice, and a walk over a list that
  has it twice never ends (`xanlib.c:572`).  The actions
  do what the code does where the container goes on being used, and leave out
  calls that abort.

## Plan

Done: the memory tracer with its store and reader; the compressor; the loop and
call tracer with their readers; slicing and the driver; the alias test; the
interval tree; file formats; the accounting wrappers; the containers of
`xanlib`.

What is left to model: callbacks of a program with nested calls.

Theorems worth proving next: `ListsAreSequences`.

## Not modelled, and why

The death of a program in the loop tracer: its compressed stream stays
unfinished (`loop_trace.cpp:1384`), and what bzlib reads of it is below these
modules.  How the memory estimate of the loop tracer leads to a dump: a dump may
follow any callback instead, which covers every estimate and limit.  Nested
calls: a comment in `dumpTraces` excludes them.

What nothing reaches: the check mode and `findClashes`, `getAliasRecs` and
`doBruteForceAliasAnalysis` under it are called only under `#if 0`
(`dependence_analysis.cpp:764`); `DebugMemoryAllocator` is chosen by a macro that
is commented out; five of the scanners in the directory are not part of the
build; nothing copies an interval tree.

The command line, the test programs, the characters of the compressed files
and what bzlib buffers are below or beside the level of these modules.
`libplatform` wraps operating system calls one by one and keeps no state;
`XanPipe` and `XanSync` take its mutexes and condition variables for what POSIX
says they are.  Of `xanlib`, variables (`xanvar.c`) are one
word with a mutex, which `XanSync` covers; turning a stack into a list is modelled
where the allocator wraps it, in `MemoryAllocator`; the synchronised destructors, which free
the mutex they hold, are left out; what a container's client
stores, and frees with it, is not looked into.
