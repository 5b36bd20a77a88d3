----------------------------- MODULE MemoryTracer -----------------------------
(***************************************************************************)
(* The memory tracer linked into the instrumented program (MemoryTracer.   *)
(* cpp).  CAM_mem compresses each instruction's reads and writes into      *)
(* patterns held in memory; when the allocator's estimate exceeds the      *)
(* limit, when the program asks for it, and at shutdown, every set is      *)
(* appended to its instruction's file, one file after the other, and then  *)
(* memory is emptied.  Anything recorded after the timeout is ignored.     *)
(* The program can die at any point, within a dump too.                    *)
(***************************************************************************)
EXTENDS MemSets, FiniteSets, FiniteSetsExt, SequencesExt

CONSTANTS
  Insts,              (* the instruction identifiers of the program        *)
  Operands,           (* the operand triples the program passes to CAM_mem *)
  TraceSize,          (* sizeof(TracerMemoryTrace)                         *)
  RecSize,            (* sizeof(TracerStaticInstRec)                       *)
  EntrySize,          (* sizeof(TracerMemSetEntry)                         *)
  DumpTraceMemUsage,  (* the memory estimate that triggers a dump          *)
  CheckPeriod,        (* operations between two readings of the clock      *)
  MaxCalls            (* bound: CAM_mem calls of one run of the program    *)

(***************************************************************************)
(* An operand of length 0 is absent.  The sizes only have to be positive,  *)
(* and the clock is read at the operations whose number is a multiple of   *)
(* CheckPeriod (1000000 in TimeoutCounter).                                *)
(***************************************************************************)
ASSUME TracerAssumption ==
  /\ Insts \subseteq Nat /\ IsFiniteSet(Insts)
  /\ Operands \subseteq [r1 : Access, r2 : Access, w : Access]
  /\ TraceSize \in Nat \ {0} /\ RecSize \in Nat \ {0} /\ EntrySize \in Nat \ {0}
  /\ DumpTraceMemUsage \in Nat
  /\ CheckPeriod \in Nat \ {0}
  /\ MaxCalls \in Nat

(***************************************************************************)
(* A user program's addresses lie in the lower half of the words.          *)
(***************************************************************************)
UserAddresses ==
  \A op \in Operands : op.r1.addr < H /\ op.r2.addr < H /\ op.w.addr < H

Stream == Insts \X {"r", "w"}    \* one set in memory and one file each

\* The order of a dump: that of the map's keys, the read set before the write set.
Precedes(s, t) == s[1] < t[1] \/ (s[1] = t[1] /\ s[2] = "r" /\ t[2] = "w")

VARIABLES
  phase,      \* "off", "tracing", "dumping" (before clear()), "stopping" (in
              \* the dump of the shutdown), "finished" or "crashed"
  insts,      \* the keys of the map memoryTrace
  memSet,     \* the read and write sets of the records of memoryTrace
  memUsed,    \* the allocator's estimate
  clock,      \* TRUE once the timeout has passed on the machine's clock
  timedOut,   \* TimeoutCounter: timedOut, numOperations and
  numOperations,            \* numOperationsAtTimeout
  numOperationsAtTimeout,
  unwritten,  \* the sets that the dump under way has not yet written
  files,      \* each file, as the sequence of dumped sets appended to it
  torn,       \* the files that end in the beginning of a segment
  calls       \* history: the CAM_mem calls of this run

vars == <<phase, insts, memSet, memUsed, clock, timedOut, numOperations,
          numOperationsAtTimeout, unwritten, files, torn, calls>>

NoSets == [s \in Stream |-> <<>>]

Init ==
  /\ phase = "off"
  /\ insts = {}
  /\ memSet = NoSets
  /\ memUsed = 0
  /\ clock = FALSE
  /\ timedOut = FALSE
  /\ numOperations = 0
  /\ numOperationsAtTimeout = 0
  /\ unwritten = {}
  /\ files = NoSets
  /\ torn = {}
  /\ calls = <<>>

-----------------------------------------------------------------------------
(***************************************************************************)
(* memory_trace_init: a new allocator, a new and empty trace whose         *)
(* constructor removes the files an earlier run left, a new counter.       *)
(***************************************************************************)
MemoryTraceInit ==
  /\ phase \in {"off", "finished", "crashed"}
  /\ phase' = "tracing"
  /\ insts' = {}
  /\ memSet' = NoSets
  /\ memUsed' = TraceSize
  /\ clock' = FALSE
  /\ timedOut' = FALSE
  /\ numOperations' = 0
  /\ numOperationsAtTimeout' = 0
  /\ unwritten' = {}
  /\ files' = NoSets
  /\ torn' = {}
  /\ calls' = <<>>

(***************************************************************************)
(* dumpMemoryTrace writes the sets that are not empty; DumpFile is one turn *)
(* of its loop.                                                            *)
(***************************************************************************)
StartDump(next, sets) ==
  /\ phase' = next
  /\ unwritten' = {s \in Stream : sets[s] # <<>>}

(***************************************************************************)
(* clear() deletes the records of the map, and with each its entries.      *)
(***************************************************************************)
Entries(sets) == MapThenSumSet(LAMBDA s : Len(sets[s]), Stream)

\* Mutant: the destructor of a set does not delete its entries.
Cleared_KeepsEntries(used, keys, sets) == used - RecSize * Cardinality(keys)

Cleared(used, keys, sets) == used - RecSize * Cardinality(keys) - EntrySize * Entries(sets)

Record(set, a) == IF a.len > 0 THEN RecordMemoryReference(set, a) ELSE set

(***************************************************************************)
(* CAM_mem up to checkDumpTrace: the record of the instruction is made if  *)
(* it has none, both reads go to its read set and the write to its write   *)
(* set.                                                                    *)
(***************************************************************************)
Recorded(id, op) ==
  [memSet EXCEPT ![<<id, "r">>] = Record(Record(@, op.r1), op.r2),
                 ![<<id, "w">>] = Record(@, op.w)]

UsedAfter(id, sets) ==
  memUsed + (IF id \in insts THEN 0 ELSE RecSize)
          + EntrySize * (Entries(sets) - Entries(memSet))

(***************************************************************************)
(* TimeoutCounter::recordOperation counts the call, and reads the clock at *)
(* the multiples of CheckPeriod; the call that finds the time passed is    *)
(* itself still recorded.                                                  *)
(***************************************************************************)
RecordOperation ==
  /\ numOperations' = numOperations + 1
  /\ IF ~timedOut /\ numOperations' % CheckPeriod = 0 /\ clock
       THEN timedOut' = TRUE /\ numOperationsAtTimeout' = numOperations'
       ELSE UNCHANGED <<timedOut, numOperationsAtTimeout>>

(***************************************************************************)
(* The rest of CAM_mem, with checkDumpTrace at its end: above the limit    *)
(* the call goes on with a dump.                                           *)
(***************************************************************************)
RecordMemory(id, op) ==
  /\ insts' = insts \cup {id}
  /\ memSet' = Recorded(id, op)
  /\ memUsed' = UsedAfter(id, Recorded(id, op))
  /\ IF memUsed' > DumpTraceMemUsage
       THEN StartDump("dumping", Recorded(id, op))
       ELSE UNCHANGED <<phase, unwritten>>

\* Mutant: the call that finds the time passed is not recorded.
CamMem_StopsAtOnce(id, op) ==
  /\ phase = "tracing"
  /\ Len(calls) < MaxCalls
  /\ calls' = Append(calls, [id |-> id, op |-> op])
  /\ RecordOperation
  /\ IF timedOut'
       THEN UNCHANGED <<phase, insts, memSet, memUsed, unwritten>>
       ELSE RecordMemory(id, op)
  /\ UNCHANGED <<clock, files, torn>>

CamMem(id, op) ==
  /\ phase = "tracing"
  /\ Len(calls) < MaxCalls
  /\ calls' = Append(calls, [id |-> id, op |-> op])
  /\ RecordOperation
  /\ IF timedOut
       THEN UNCHANGED <<phase, insts, memSet, memUsed, unwritten>>
       ELSE RecordMemory(id, op)
  /\ UNCHANGED <<clock, files, torn>>

(***************************************************************************)
(* CAM_forceMemTraceDump, which clears memory after the dump as             *)
(* checkDumpTrace does.                                                    *)
(***************************************************************************)
ForceMemTraceDump ==
  /\ phase = "tracing"
  /\ StartDump("dumping", memSet)
  /\ UNCHANGED <<insts, memSet, memUsed, clock, timedOut, numOperations,
                 numOperationsAtTimeout, files, torn, calls>>

(***************************************************************************)
(* memory_trace_shutdown up to its dump.                                   *)
(***************************************************************************)
MemoryTraceShutdown ==
  /\ phase = "tracing"
  /\ StartDump("stopping", memSet)
  /\ UNCHANGED <<insts, memSet, memUsed, clock, timedOut, numOperations,
                 numOperationsAtTimeout, files, torn, calls>>

(***************************************************************************)
(* One file is opened, a segment with the whole set appended, and closed.  *)
(***************************************************************************)
NextFile(s) == s \in unwritten /\ \A t \in unwritten \ {s} : Precedes(s, t)

DumpFile(s) ==
  /\ NextFile(s)
  /\ files' = [files EXCEPT ![s] = Append(@, DumpSet(memSet[s]))]
  /\ unwritten' = unwritten \ {s}
  /\ UNCHANGED <<phase, insts, memSet, memUsed, clock, timedOut, numOperations,
                 numOperationsAtTimeout, torn, calls>>

Clear ==
  /\ phase = "dumping" /\ unwritten = {}
  /\ phase' = "tracing"
  /\ insts' = {}
  /\ memSet' = NoSets
  /\ memUsed' = Cleared(memUsed, insts, memSet)
  /\ UNCHANGED <<clock, timedOut, numOperations, numOperationsAtTimeout,
                 unwritten, files, torn, calls>>

(***************************************************************************)
(* The end of memory_trace_shutdown: the trace is deleted; the destructor  *)
(* of the map leaves the records it points to allocated, and the allocator *)
(* is deleted with what it counts for them.                                *)
(***************************************************************************)
DeleteTrace ==
  /\ phase = "stopping" /\ unwritten = {}
  /\ phase' = "finished"
  /\ insts' = {}
  /\ memSet' = NoSets
  /\ memUsed' = memUsed - TraceSize
  /\ UNCHANGED <<clock, timedOut, numOperations, numOperationsAtTimeout,
                 unwritten, files, torn, calls>>

(***************************************************************************)
(* The program dies: segFaultHandler exits at once, a file that cannot be  *)
(* opened, written or closed aborts, or the system kills it.  In a dump    *)
(* the file being written may be left with the beginning of a segment,     *)
(* which the analysis refuses to read.                                     *)
(***************************************************************************)
Crash ==
  /\ phase \in {"tracing", "dumping", "stopping"}
  /\ phase' = "crashed"
  /\ insts' = {}
  /\ memSet' = NoSets
  /\ memUsed' = 0
  /\ unwritten' = {}
  /\ \/ torn' = {}
     \/ \E s \in Stream : NextFile(s) /\ torn' = {s}
  /\ UNCHANGED <<clock, timedOut, numOperations, numOperationsAtTimeout, files, calls>>

ClockPassesTimeout ==
  /\ phase = "tracing"
  /\ ~clock
  /\ clock' = TRUE
  /\ UNCHANGED <<phase, insts, memSet, memUsed, timedOut, numOperations,
                 numOperationsAtTimeout, unwritten, files, torn, calls>>

Next ==
  \/ MemoryTraceInit
  \/ \E id \in Insts, op \in Operands : CamMem(id, op)
  \/ ForceMemTraceDump
  \/ MemoryTraceShutdown
  \/ \E s \in Stream : DumpFile(s)
  \/ Clear
  \/ DeleteTrace
  \/ Crash
  \/ ClockPassesTimeout

Spec == Init /\ [][Next]_vars

-----------------------------------------------------------------------------
(***************************************************************************)
(* What is kept of the program's accesses, stream by stream.               *)
(***************************************************************************)
IfPresent(a) == IF a.len > 0 THEN <<a>> ELSE <<>>

AccessesOf(call, s) ==
  IF s[1] # call.id THEN <<>>
  ELSE IF s[2] = "r" THEN IfPresent(call.op.r1) \o IfPresent(call.op.r2)
  ELSE IfPresent(call.op.w)

Made(cs, s) == FlattenSeq([n \in 1 .. Len(cs) |-> AccessesOf(cs[n], s)])

StoredAccesses(file) ==
  FlattenSeq([n \in 1 .. Len(file) |-> Expand(Undump(file[n], 0))])

\* What memory holds that the dump under way has not written.
Unsaved(s) ==
  IF phase \in {"dumping", "stopping"} /\ s \notin unwritten THEN <<>> ELSE memSet[s]

Kept(s) == StoredAccesses(files[s]) \o Expand(Unsaved(s))

\* The number of calls that are not ignored, and what a stream is of the first k.
LastKept == IF timedOut THEN numOperationsAtTimeout ELSE Len(calls)
UpTo(k, s) == Made(SubSeq(calls, 1, k), s)

(***************************************************************************)
(* Types, with what the code's fields can hold (MemUsedExact says what      *)
(* memUsed is).                                                            *)
(***************************************************************************)
DumpedEntry ==
  [base : (-H) .. (M - 1), stride : SignedWord, length : Nat, reps : Nat]

TypeOK ==
  /\ phase \in {"off", "tracing", "dumping", "stopping", "finished", "crashed"}
  /\ insts \subseteq Insts
  /\ memSet \in [Stream -> MemSet]
  /\ clock \in BOOLEAN /\ timedOut \in BOOLEAN
  /\ numOperations \in Nat /\ numOperationsAtTimeout \in Nat
  /\ unwritten \subseteq Stream /\ torn \subseteq Stream
  /\ files \in [Stream -> Seq(Seq(DumpedEntry))]
  /\ calls \in Seq([id : Insts, op : Operands])

(***************************************************************************)
(* The patterns of a set number the accesses 0, 1, 2, ... with no gap and  *)
(* no overlap, and only a record in the map has patterns: the numbers are  *)
(* what the analysis matches with the iterations of the loop trace.        *)
(***************************************************************************)
SetsContiguous ==
  \A s \in Stream :
    /\ ContiguousFrom(memSet[s], 0)
    /\ memSet[s] # <<>> => s[1] \in insts

(***************************************************************************)
(* While the program lives, and after a shutdown, files and memory         *)
(* together hold the accesses of the first k calls of this run, in order,  *)
(* compressed without loss, and the same k for every instruction, reads    *)
(* and writes alike: all of them unless the tracer timed out, when         *)
(* timeout_stats.csv reports the k; also between two files of a dump.      *)
(* After a crash the files end at no more than two calls: those that a     *)
(* dump had written when the program died at the last call, and they come  *)
(* before the others in the dump's order; the others all at one earlier    *)
(* call.  At most the next file is torn.                                   *)
(***************************************************************************)
CutTogether ==
  IF phase # "crashed"
    THEN torn = {} /\ \A s \in Stream : Kept(s) = UpTo(LastKept, s)
    ELSE \E k \in 0 .. LastKept, W \in SUBSET Stream :
           /\ \A s \in W, t \in Stream : Precedes(t, s) => t \in W
           /\ \A s \in Stream : Kept(s) = UpTo(IF s \in W THEN LastKept ELSE k, s)
           /\ \A s \in torn :
                s \notin W /\ \A t \in Stream : Precedes(t, s) => t \in W

(***************************************************************************)
(* The allocator's estimate is exactly what the live records and entries   *)
(* take, so that clear() returns to the bare map and the next dump comes   *)
(* when memory is really used; after a call it is within the limit.        *)
(***************************************************************************)
MemUsedExact ==
  /\ phase \in {"tracing", "dumping", "stopping"} =>
       memUsed = TraceSize + RecSize * Cardinality(insts) + EntrySize * Entries(memSet)
  /\ phase = "tracing" => memUsed <= DumpTraceMemUsage \/ memUsed = TraceSize

(***************************************************************************)
(* A call that is not ignored adds its accesses, each once and in operand  *)
(* order, to what the sets of its own instruction stand for and to no      *)
(* other set.                                                              *)
(***************************************************************************)
RecordsExactly ==
  [][\A id \in Insts, op \in Operands : CamMem(id, op) /\ ~timedOut =>
       \A s \in Stream :
         Expand(memSet'[s]) =
           Expand(memSet[s]) \o AccessesOf([id |-> id, op |-> op], s)]_vars

(***************************************************************************)
(* The tracer is a store of access logs that flushes one log after the     *)
(* other, each whole, takes nothing new before it has flushed all, and     *)
(* loses only what a crash finds neither flushed nor stored.               *)
(***************************************************************************)
Store == INSTANCE AccessStore WITH
           pending  <- [s \in Stream |-> Expand(Unsaved(s))],
           stored   <- [s \in Stream |-> StoredAccesses(files[s])],
           flushing <- unwritten

StoresAccesses == Store!Spec
=============================================================================
