--------------------------- MODULE MCBuildingBlocks ---------------------------
(***************************************************************************)
(* The self-contained parts of the system, each for itself: xanlib's       *)
(* containers, the interval tree, the alias test, the written form of the  *)
(* traces, the allocator's account and the dependence graph's files.  A    *)
(* behaviour is one of one component; the others stay in an initial state. *)
(***************************************************************************)
EXTENDS MCAliasCheck, SequencesExt

CONSTANTS Components, NULL

VARIABLES
  component,                                 \* the component that runs
  lists, items, contents,                    \* XanStack
  table, inserted,                           \* XanHashTable
  bitSet, members,                           \* XanBitSet
  queue, handle, wanted,                     \* XanQueue
  getter,                                    \* XanQueueSync
  pipe, thread, puts, putAtEnd,              \* XanPipe
  node, stale,                               \* XanTree
  nodes, edges, connected,                   \* XanGraph
  mutex, call,                               \* XanSync
  intervals, tree, query, cursor, found,     \* IntervalTree
  file, dumps, unread, pass, scanner,        \* TraceFormat
    entry, entriesRead, listed,
  heap, account,                             \* MemoryAllocator
  recorded, static, stage, numbers, dpl,     \* DependenceGraph
    sdl, output

L == INSTANCE XanStack WITH
  Items <- {"i", "j", "k", "o"}, Data <- {"x", "y"}, Lists <- {"l", "m"}, BufferSize <- 1

K == INSTANCE XanHashTable WITH
  Keys <- {"a", "b", "c"}, Elements <- {"a", "b"}, Hash <- [a |-> 0, b |-> 2, c |-> 4],
  Primes <- <<2, 3, 5>>, MaxSize <- 4

B == INSTANCE XanBitSet WITH Sets <- {"s", "t"}, Word <- 2, MaxLength <- 4

Q == INSTANCE XanQueue WITH
  Handles <- 1 .. 5, Priorities <- 1 .. 3, DefaultSize <- 1

W == INSTANCE XanQueueSync WITH
  Handles <- 1 .. 3, Priorities <- 1 .. 2, DefaultSize <- 1, Threads <- 1 .. 3

P == INSTANCE XanPipe WITH Threads <- 1 .. 3, MaxPuts <- 3, items <- pipe

T == INSTANCE XanTree WITH Addresses <- 1 .. 8, Values <- {"x", "y"}, MaxNodes <- 4

G == INSTANCE XanGraph WITH
  NodeData <- {"x", "y"}, EdgeData <- {"x", "y"}, MaxGraphNodes <- 3, MaxGraphEdges <- 3

S == INSTANCE XanSync WITH Threads <- 1 .. 3, Containers <- 1 .. 3

\* Trees of three levels; the smallest bucket is two intervals.
I == INSTANCE IntervalTree WITH
  Coordinates <- 1 .. 4, MaxIntervals <- 4, Depth <- 3, MinBucket <- 2, MaxBucket <- 4

-----------------------------------------------------------------------------
(* TraceFormat: one or two entries, in one dump or in two.  The first has  *)
(* any of these ranges, and up to two groups in each of up to two calls;   *)
(* the second, one group or none.                                          *)

FormatRanges == {<<<<0, 0>>>>, <<<<0, 1>>, <<3, 3>>>>}

FormatGroups == [ranges : {<<<<0, 0>>>>, <<<<1, 2>>>>}, cfc : {<<>>, <<5, 1>>}]

LoopEntries ==
  [ranges : FormatRanges,
   calls  : {<<[id |-> 0, groups |-> g]>> : g \in BoundedSeq(FormatGroups, 2)}]

CallEntries ==
  LET groups == {g \in FormatGroups : g.cfc = <<>> <=> g.ranges = <<<<0, 0>>>>}
      sevens == [id : {7}, groups : BoundedSeq(groups, 2)]
      eights == [id : {8}, groups : BoundedSeq(groups, 1)]
  IN [ranges : FormatRanges,
      calls  : {<<>>} \cup {<<c>> : c \in sevens} \cup {<<o, c>> : o \in eights, c \in sevens}]

SecondEntries(calls) == [ranges : {<<<<4, 4>>>>}, calls : calls]

OneGroup == <<[ranges |-> <<<<0, 0>>>>, cfc |-> <<6>>]>>

FilesOf(first, second) ==
  LET Dump(entries, complete) == [entries |-> entries, complete |-> complete]
  IN {<<Dump(<<e>>, TRUE)>> : e \in first}
       \cup {<<Dump(<<e, s>>, TRUE)>> : e \in first, s \in second}
       \cup {<<Dump(<<e>>, c), Dump(<<s>>, TRUE)>> : e \in first, s \in second, c \in BOOLEAN}

F == INSTANCE TraceFormat WITH
  LoopFiles <- FilesOf(LoopEntries, SecondEntries({<<[id |-> 0, groups |-> g]>> : g \in {<<>>, OneGroup}})),
  CallFiles <- FilesOf(CallEntries, SecondEntries({<<>>, <<[id |-> 7, groups |-> OneGroup]>>})),
  lists <- listed

\* Sizes of which no few add up to another; words of one bit.
A == INSTANCE MemoryAllocator WITH
  Addresses <- 1 .. 3, Plain <- 0, BlockSizes <- {5}, WordBits <- 1, MaxItems <- 2, MaxLength <- 3,
  SizeOf <- [word |-> 1, table |-> 100, tableItem |-> 10, list |-> 200, stack |-> 300,
             listItem |-> 20, bitset |-> 400]

\* Instruction 2 is a call of the loop, 4 is in what it calls, 3 is outside.
StaticDependences ==
  {<<d[1], d[2], mask>> : d \in {<<1, 2>>, <<2, 1>>, <<2, 2>>, <<1, 3>>},
     mask \in {{"RAW"}, {"MWAW"}, {"MRAW", "WAR", "WAW"}, {"control"}, {"MWAR", "control"}}}

D == INSTANCE DependenceGraph WITH
  InstrList <- {1, 2}, CallList <- {2}, SubInstrList <- {4}, Instructions <- {1, 4},
  RwPairs <- {<<1, 2>>, <<2, 1>>, <<2, 2>>}, WwPairs <- {<<1, 2>>, <<2, 2>>},
  StaticGraphs <- {<<d>> : d \in StaticDependences}
    \cup {<<d, e>> : d \in StaticDependences, e \in {<<1, 2, {"WAR"}>>, <<2, 1, {"WAW", "control"}>>}},
  found <- recorded, unread <- numbers

-----------------------------------------------------------------------------
ASSUME BuildingBlocksAssumption ==
  /\ L!ListAssumption /\ K!TableAssumption /\ B!BitSetAssumption
  /\ Q!QueueAssumption /\ P!PipeAssumption /\ S!SyncAssumption /\ A!AllocatorAssumption

listVars == <<lists, items, contents>>
tableVars == <<table, inserted>>
bitSetVars == <<bitSet, members>>
queueVars == <<queue, handle, wanted>>
pipeVars == <<pipe, thread, puts, putAtEnd>>
nodeVars == <<node, stale>>
edgeVars == <<nodes, edges, connected>>
syncVars == <<mutex, call>>
intervalVars == <<intervals, tree, query, cursor, found>>

writtenVars == <<file, dumps, unread, pass, scanner, entry, entriesRead, listed>>
accountVars == <<heap, account>>
graphVars == <<recorded, static, stage, numbers, dpl, sdl, output>>

allVars == <<component, vars, listVars, tableVars, bitSetVars, queueVars, getter, pipeVars,
             nodeVars, edgeVars, syncVars, intervalVars, writtenVars, accountVars, graphVars>>

AnyPatterns == [base |-> 64, stride |-> 4, length |-> 4, start |-> 0, end |-> 1]

BlocksInit ==
  /\ component \in Components
  /\ L!Init /\ K!Init /\ B!Init /\ W!SyncInit /\ P!Init /\ T!Init /\ G!Init /\ S!Init /\ A!Init
  /\ \/ component = "alias" /\ Init
     \/ component # "alias" /\ write = AnyPatterns /\ read = write /\ alias = "unknown"
  /\ \/ component = "intervals" /\ I!Init
     \/ /\ component # "intervals"
        /\ intervals = <<>> /\ tree = I!Built(<<>>) /\ cursor = I!Idle /\ found = <<>>
        /\ query = [start |-> 1, stop |-> 1]
  /\ \/ component = "format" /\ F!Init
     \/ /\ component # "format"
        /\ file = "loop" /\ dumps = <<>> /\ unread = <<>> /\ pass = 1
        /\ scanner = F!NewScanner(file) /\ entry = F!NewEntry /\ entriesRead = <<>>
        /\ listed = [instructions |-> {}, calls |-> {}, numInvoc |-> 0]
  /\ \/ component = "graph" /\ D!Init
     \/ /\ component # "graph"
        /\ recorded = [rw |-> {}, ww |-> {}] /\ static = <<>> /\ stage = "pairs" /\ numbers = <<>>
        /\ dpl = D!NewPairsLex /\ sdl = D!NewDDGLex /\ output = <<>>

\* Every component but c rests.
Only(c) ==
  /\ component = c
  /\ UNCHANGED component
  /\ IF c = "list" THEN TRUE ELSE UNCHANGED listVars
  /\ IF c = "table" THEN TRUE ELSE UNCHANGED tableVars
  /\ IF c = "bits" THEN TRUE ELSE UNCHANGED bitSetVars
  /\ IF c \in {"queue", "getters"} THEN TRUE ELSE UNCHANGED queueVars
  /\ IF c = "getters" THEN TRUE ELSE UNCHANGED getter
  /\ IF c = "pipe" THEN TRUE ELSE UNCHANGED pipeVars
  /\ IF c = "tree" THEN TRUE ELSE UNCHANGED nodeVars
  /\ IF c = "edges" THEN TRUE ELSE UNCHANGED edgeVars
  /\ IF c = "sync" THEN TRUE ELSE UNCHANGED syncVars
  /\ IF c = "intervals" THEN TRUE ELSE UNCHANGED intervalVars
  /\ IF c = "alias" THEN TRUE ELSE UNCHANGED vars
  /\ IF c = "format" THEN TRUE ELSE UNCHANGED writtenVars
  /\ IF c = "allocator" THEN TRUE ELSE UNCHANGED accountVars
  /\ IF c = "graph" THEN TRUE ELSE UNCHANGED graphVars

\* A bound on trees: one node at most has the second datum.
FewData == Cardinality({n \in DOMAIN node : node[n].data = "y"}) <= 1

BlocksNext ==
  \/ Only("list") /\ L!StackNext
  \/ Only("table") /\ K!Next
  \/ Only("bits") /\ B!Next
  \/ Only("queue") /\ Q!Next
  \/ Only("getters") /\ W!SyncNext
  \/ Only("pipe") /\ P!Next
  \/ Only("tree") /\ T!Next /\ FewData'
  \/ Only("edges") /\ G!Next
  \/ Only("sync") /\ S!Next
  \/ Only("intervals") /\ I!Next
  \/ Only("alias") /\ Check
  \/ Only("format") /\ F!Next
  \/ Only("allocator") /\ A!Next
  \/ Only("graph") /\ D!Next

\* A thread that is awake in syncGet runs on (XanPipe); it is the only fairness.
BlocksSpec ==
  /\ BlocksInit /\ [][BlocksNext]_allVars
  /\ \A t \in 1 .. 3 : WF_pipeVars(P!SyncGet(t))

-----------------------------------------------------------------------------
(* The components' properties, under their names there, each of the one     *)
(* that runs: the others stay in an initial state.                         *)

\* A list's items, its length and its buffer agree, and it is the sequence
\* of entries that its calls promise; used as a stack it gives back what was
\* pushed last (xanlist.c, xanstack.c).
ListsAreSequences ==
  component = "list" => L!ListsSound /\ L!ListsAreSequences /\ L!LastPushedFirst

\* Lookups find the oldest element of a key, and the counters count (xantable.c).
TableSound == component = "table" => K!LookupsFind /\ K!CountsExact

\* Bit sets are the sets that were put into them, and their ranges are
\* those that are compressed (xanbitset.c, loop_trace.cpp).
BitSetsExact == component = "bits" => B!BitSetsAreSets /\ B!RangesExact

\* The queue has the items that were put and not taken, the largest first,
\* and no thread sleeps next to them (xanqueue.c).
HeapSound == component \in {"queue", "getters"} => Q!HeapSound /\ W!NobodySleepsNextToItems

\* A waiting thread is served as long as nothing is put at the end (xanpipe.c).
WaitersServedByPuts == P!WaitersServedByPuts

\* Every node is in its parent's list, and listings and clones have every
\* node; the edges of a graph are found from both ends (xanlib.c, xangraph.c).
TreesSound ==
  /\ component = "tree" => T!TreesSound
  /\ component = "edges" => G!EdgesAtBothEnds

\* Synchronised calls exclude each other, and wait for each other for ever only
\* where one takes its mutexes out of order (xanlist.c).
CallsExclusive == component = "sync" => S!CallsExclusive

\* Lookups find each overlap once, by recursion and by iterator (IntervalTree.h).
LookupsExact == component = "intervals" => I!LookupsExact

\* Both traces are read back as they were dumped (loop_trace.cpp, the scanners).
FormatReadsBack == component = "format" => F!FormatReadsBack

\* The estimate of the memory in use is exact (memory_allocator.cpp).
AccountExact == component = "allocator" => A!AccountExact

\* The dynamic graph has what was seen, and loses nothing else (main.cpp).
DynamicGraphExact == component = "graph" => D!DynamicGraphExact

\* However data are put, a waiting thread is served (xanlib.h).
WaitersServed == P!WaitersServed

\* A node is a child of one node at a time (xanlib.c).
InOneList == T!InOneList

\* Synchronised calls never wait for each other for ever (xanlib.h).
NeverStuck == S!NeverStuck
==============================================================================
