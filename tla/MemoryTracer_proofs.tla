-------------------------- MODULE MemoryTracer_proofs --------------------------
(***************************************************************************)
(* Theorems about the memory tracer, for all programs, operand sets,       *)
(* memory limits and word widths.  The inductive invariant is TypeOK and   *)
(* SetsContiguous together: what dumpSet writes for a pattern is typed     *)
(* only because the pattern has an instance, and what a call adds to a set *)
(* is found at its end only because the set is numbered without a gap.     *)
(* CutInv adds to it how files and memory are cut out of the calls in and  *)
(* between dumps, and that what is dumped can be read back; MemInv adds    *)
(* the sum that the estimate of the memory is.                             *)
(***************************************************************************)
EXTENDS MemoryTracer, MemSets_proofs

IInv == TypeOK /\ SetsContiguous

Good(set) == set \in MemSet /\ ContiguousFrom(set, 0)

LEMMA EmptyIsGood == Good(<<>>) /\ Expand(<<>>) = <<>>
  BY DEF Good, MemSet, ContiguousFrom, Expand

(***************************************************************************)
(* One operand of a call, present or not.                                  *)
(***************************************************************************)
LEMMA RecordIsExact ==
  ASSUME NEW set, Good(set), NEW a \in Access
  PROVE  /\ Good(Record(set, a))
         /\ Expand(Record(set, a)) = Expand(set) \o IfPresent(a)
         /\ Expand(set) \in Seq(Access)
<1>1. set \in MemSet /\ ContiguousFrom(set, 0) /\ Expand(set) \in Seq(Access)
  BY ExpandLength DEF Good
<1>2. CASE a.len > 0
  <2>1. Record(set, a) = RecordMemoryReference(set, a) /\ IfPresent(a) = <<a>>
    BY <1>2 DEF Record, IfPresent
  <2>2. Append(Expand(set), a) = Expand(set) \o <<a>>
    BY <1>1, AppendIsConcat
  <2>3. QED
    BY <1>1, <2>1, <2>2, RecordAppends, RecordType, RecordContiguous DEF Good
<1>3. CASE ~ (a.len > 0)
  <2>1. Record(set, a) = set /\ IfPresent(a) = <<>>
    BY <1>3 DEF Record, IfPresent
  <2>2. QED
    BY <1>1, <2>1, ConcatEmptySeq DEF Good
<1>4. QED
  BY <1>2, <1>3

(***************************************************************************)
(* A whole call: every set stays good, only the calling instruction's sets *)
(* change, and each grows by exactly the accesses of its kind.             *)
(***************************************************************************)
LEMMA RecordedIsExact ==
  ASSUME IInv, NEW id \in Insts, NEW op \in Operands
  PROVE  LET sets == Recorded(id, op) IN
         /\ sets \in [Stream -> MemSet]
         /\ \A s \in Stream :
              /\ Good(sets[s])
              /\ sets[s] # <<>> => s[1] \in insts \cup {id}
              /\ Expand(sets[s]) =
                   Expand(memSet[s]) \o AccessesOf([id |-> id, op |-> op], s)
<1> DEFINE sets == Recorded(id, op)
           call == [id |-> id, op |-> op]
<1>1. op.r1 \in Access /\ op.r2 \in Access /\ op.w \in Access
  BY TracerAssumption
<1>2. memSet \in [Stream -> MemSet]
  BY DEF IInv, TypeOK
<1>3. \A s \in Stream : Good(memSet[s]) /\ (memSet[s] # <<>> => s[1] \in insts)
  BY <1>2 DEF IInv, SetsContiguous, Good
<1>4. <<id, "r">> \in Stream /\ <<id, "w">> \in Stream /\ <<id, "r">> # <<id, "w">>
  BY DEF Stream
<1> DEFINE rset == Record(Record(memSet[<<id, "r">>], op.r1), op.r2)
           wset == Record(memSet[<<id, "w">>], op.w)
<1>5. sets = [memSet EXCEPT ![<<id, "r">>] = rset, ![<<id, "w">>] = wset]
  BY <1>2, <1>4 DEF Recorded
<1>6. /\ Good(rset)
      /\ Expand(rset) = Expand(memSet[<<id, "r">>]) \o (IfPresent(op.r1) \o IfPresent(op.r2))
  <2> DEFINE mid == Record(memSet[<<id, "r">>], op.r1)
  <2>1. /\ Good(mid) /\ Expand(memSet[<<id, "r">>]) \in Seq(Access)
        /\ Expand(mid) = Expand(memSet[<<id, "r">>]) \o IfPresent(op.r1)
    BY <1>1, <1>3, <1>4, RecordIsExact
  <2> HIDE DEF mid
  <2>2. Good(rset) /\ Expand(rset) = Expand(mid) \o IfPresent(op.r2)
    BY <1>1, <2>1, RecordIsExact DEF mid
  <2>3. IfPresent(op.r1) \in Seq(Access) /\ IfPresent(op.r2) \in Seq(Access)
    BY <1>1 DEF IfPresent
  <2>4. QED
    BY <2>1, <2>2, <2>3, ConcatAssociative, SMTT(60)
<1>7. /\ Good(wset)
      /\ Expand(wset) = Expand(memSet[<<id, "w">>]) \o IfPresent(op.w)
  BY <1>1, <1>3, <1>4, RecordIsExact
<1> HIDE DEF rset, wset, sets
<1>8. sets[<<id, "r">>] = rset /\ sets[<<id, "w">>] = wset
  BY <1>2, <1>4, <1>5
<1>9. \A s \in Stream : s # <<id, "r">> /\ s # <<id, "w">> => sets[s] = memSet[s]
  BY <1>2, <1>5
<1>10. rset \in MemSet /\ wset \in MemSet
  BY <1>6, <1>7 DEF Good
<1>11. sets \in [Stream -> MemSet]
  BY <1>2, <1>5, <1>10
<1>12. ASSUME NEW s \in Stream
       PROVE  /\ Good(sets[s])
              /\ sets[s] # <<>> => s[1] \in insts \cup {id}
              /\ Expand(sets[s]) = Expand(memSet[s]) \o AccessesOf(call, s)
  <2>1. CASE s = <<id, "r">>
    <3>1. AccessesOf(call, s) = IfPresent(op.r1) \o IfPresent(op.r2)
      BY <2>1 DEF AccessesOf
    <3>2. QED
      BY <1>6, <1>8, <2>1, <3>1
  <2>2. CASE s = <<id, "w">>
    <3>1. AccessesOf(call, s) = IfPresent(op.w)
      BY <2>2 DEF AccessesOf
    <3>2. QED
      BY <1>7, <1>8, <2>2, <3>1
  <2>3. CASE s # <<id, "r">> /\ s # <<id, "w">>
    <3>1. s[1] # id
      BY <2>3 DEF Stream
    <3>2. AccessesOf(call, s) = <<>> /\ sets[s] = memSet[s]
      BY <1>9, <2>3, <3>1 DEF AccessesOf
    <3>3. Expand(memSet[s]) \in Seq(Access)
      BY <1>3, ExpandLength DEF Good
    <3>4. QED
      BY <1>3, <3>2, <3>3, ConcatEmptySeq
  <2>4. QED
    BY <2>1, <2>2, <2>3
<1>13. QED
  BY <1>11, <1>12 DEF sets

-----------------------------------------------------------------------------
(***************************************************************************)
(* What a dump writes has the types of a file.                             *)
(***************************************************************************)
LEMMA DumpSetType ==
  ASSUME NEW set, Good(set)
  PROVE  DumpSet(set) \in Seq(DumpedEntry)
<1>1. set \in MemSet /\ Len(set) \in Nat
  BY DEF Good, MemSet
<1>2. ASSUME NEW i \in 1 .. Len(set)
      PROVE  [base |-> DumpedBase(set, i), stride |-> set[i].stride,
              length |-> set[i].length, reps |-> NumInstances(set[i])] \in DumpedEntry
  <2>1. /\ set[i] \in MemSetEntry /\ set[i].start \in Nat /\ set[i].end \in Nat
        /\ set[i].start <= set[i].end
    BY EntryFacts DEF Good
  <2>2. NumInstances(set[i]) \in Nat
    BY <2>1 DEF NumInstances
  <2>3. DumpedBase(set, i) \in (-H) .. (M - 1)
    <3>1. CASE i = 1
      <4>1. DumpedBase(set, i) = set[i].base /\ set[i].base \in Word
        BY <2>1, <3>1 DEF DumpedBase, MemSetEntry
      <4>2. QED
        BY <4>1, HAssumption DEF Word, M
    <3>2. CASE i # 1
      <4>1. set[i].base \in Word /\ set[i - 1].base \in Word
        <5>1. i - 1 \in 1 .. Len(set)
          BY <1>1, <3>2
        <5>2. set[i - 1] \in MemSetEntry
          BY <5>1, EntryFacts DEF Good
        <5>3. QED
          BY <2>1, <5>2 DEF MemSetEntry
      <4>2. DumpedBase(set, i) \in SignedWord
        BY <3>2, <4>1, SignedDistance DEF DumpedBase
      <4>3. QED
        BY <4>2, HAssumption DEF SignedWord, M
    <3>3. QED
      BY <3>1, <3>2
  <2>4. set[i].stride \in SignedWord /\ set[i].length \in Nat
    BY <2>1 DEF MemSetEntry
  <2>5. QED
    BY <2>2, <2>3, <2>4 DEF DumpedEntry
<1>3. QED
  BY <1>1, <1>2 DEF DumpSet

LEMMA NoSetsAreGood ==
  /\ NoSets \in [Stream -> MemSet]
  /\ \A s \in Stream : NoSets[s] = <<>> /\ ContiguousFrom(NoSets[s], 0)
  BY EmptyIsGood DEF NoSets, Good

LEMMA IInvSets == IInv => \A s \in Stream : Good(memSet[s])
  BY DEF IInv, TypeOK, SetsContiguous, Good

LEMMA RecordOperationType ==
  ASSUME TypeOK, RecordOperation
  PROVE  timedOut' \in BOOLEAN /\ numOperations' \in Nat /\ numOperationsAtTimeout' \in Nat
<1>1. numOperations' \in Nat
  BY DEF TypeOK, RecordOperation
<1>2. CASE timedOut' = TRUE /\ numOperationsAtTimeout' = numOperations'
  BY <1>1, <1>2
<1>3. CASE UNCHANGED <<timedOut, numOperationsAtTimeout>>
  BY <1>1, <1>3 DEF TypeOK
<1>4. QED
  BY <1>2, <1>3 DEF RecordOperation

(***************************************************************************)
(* A recorded call leads to no phase but tracing or a dump.                *)
(***************************************************************************)
LEMMA RecordingGoesOn ==
  ASSUME IInv, NEW id \in Insts, NEW op \in Operands, RecordMemory(id, op), phase = "tracing"
  PROVE  /\ insts' = insts \cup {id} /\ memSet' = Recorded(id, op)
         /\ memUsed' = UsedAfter(id, Recorded(id, op))
         /\ unwritten' \subseteq Stream
         /\ \/ phase' = "tracing" /\ unwritten' = unwritten
               /\ ~ (memUsed' > DumpTraceMemUsage)
            \/ phase' = "dumping" /\ unwritten' = {s \in Stream : memSet'[s] # <<>>}
  BY DEF RecordMemory, StartDump, IInv, TypeOK

LEMMA CamMemKeepsIInv ==
  ASSUME IInv, NEW id \in Insts, NEW op \in Operands, CamMem(id, op)
  PROVE  IInv'
<1> DEFINE call == [id |-> id, op |-> op]
<1>1. /\ phase = "tracing" /\ clock' = clock /\ files' = files /\ torn' = torn
      /\ RecordOperation /\ calls' = Append(calls, call)
  BY DEF CamMem
<1>2. timedOut' \in BOOLEAN /\ numOperations' \in Nat /\ numOperationsAtTimeout' \in Nat
  BY <1>1, RecordOperationType DEF IInv
<1>3. calls' \in Seq([id : Insts, op : Operands])
  BY <1>1, AppendProperties DEF IInv, TypeOK
<1>4. /\ insts' \subseteq Insts
      /\ memSet' \in [Stream -> MemSet]
      /\ unwritten' \subseteq Stream
      /\ phase' \in {"tracing", "dumping"}
      /\ SetsContiguous'
  <2>1. CASE timedOut
    <3>1. insts' = insts /\ memSet' = memSet /\ unwritten' = unwritten /\ phase' = phase
      BY <2>1 DEF CamMem
    <3>2. QED
      BY <1>1, <3>1 DEF IInv, TypeOK, SetsContiguous
  <2>2. CASE ~ timedOut
    <3> DEFINE sets == Recorded(id, op)
    <3>1. RecordMemory(id, op)
      BY <2>2 DEF CamMem
    <3>2. /\ insts' = insts \cup {id} /\ memSet' = sets /\ unwritten' \subseteq Stream
          /\ phase' \in {"tracing", "dumping"}
      BY <1>1, <3>1, RecordingGoesOn
    <3>3. /\ sets \in [Stream -> MemSet]
          /\ \A s \in Stream : Good(sets[s]) /\ (sets[s] # <<>> => s[1] \in insts \cup {id})
      BY RecordedIsExact
    <3> HIDE DEF sets
    <3>4. SetsContiguous'
      BY <3>2, <3>3 DEF SetsContiguous, Good
    <3>5. insts \cup {id} \subseteq Insts
      BY DEF IInv, TypeOK
    <3>6. QED
      BY <3>2, <3>3, <3>4, <3>5
  <2>3. QED
    BY <2>1, <2>2
<1>5. QED
  BY <1>1, <1>2, <1>3, <1>4 DEF IInv, TypeOK

(***************************************************************************)
(* One file written keeps the invariant.                                   *)
(***************************************************************************)
LEMMA DumpFileKeepsIInv ==
  ASSUME IInv, NEW s \in Stream, DumpFile(s)
  PROVE  IInv'
<1>1. files[s] \in Seq(Seq(DumpedEntry)) /\ DumpSet(memSet[s]) \in Seq(DumpedEntry)
  BY IInvSets, DumpSetType DEF IInv, TypeOK
<1>2. Append(files[s], DumpSet(memSet[s])) \in Seq(Seq(DumpedEntry))
  BY <1>1, AppendProperties
<1>3. files' \in [Stream -> Seq(Seq(DumpedEntry))]
  BY <1>2 DEF DumpFile, IInv, TypeOK
<1>4. QED
  BY <1>3 DEF DumpFile, IInv, TypeOK, SetsContiguous

-----------------------------------------------------------------------------
LEMMA NoFiles == NoSets \in [Stream -> Seq(Seq(DumpedEntry))]
  BY DEF NoSets

LEMMA InitIInv == Init => IInv
<1>1. SUFFICES ASSUME Init PROVE IInv
  OBVIOUS
<1>2. TypeOK
  BY <1>1, NoSetsAreGood, NoFiles, EmptySeq DEF Init, TypeOK
<1>3. SetsContiguous
  BY <1>1, NoSetsAreGood DEF Init, SetsContiguous
<1>4. QED
  BY <1>2, <1>3 DEF IInv

LEMMA NextIInv == IInv /\ [Next]_vars => IInv'
<1>1. SUFFICES ASSUME IInv, [Next]_vars PROVE IInv'
  OBVIOUS
<1>2. CASE MemoryTraceInit
  <2>1. TypeOK'
    BY <1>2, NoSetsAreGood, NoFiles, EmptySeq DEF MemoryTraceInit, TypeOK
  <2>2. SetsContiguous'
    BY <1>2, NoSetsAreGood DEF MemoryTraceInit, SetsContiguous
  <2>3. QED
    BY <2>1, <2>2 DEF IInv
<1>3. ASSUME NEW id \in Insts, NEW op \in Operands, CamMem(id, op) PROVE IInv'
  BY <1>1, <1>3, CamMemKeepsIInv
<1>4. CASE ForceMemTraceDump \/ MemoryTraceShutdown
  <2>1. phase' \in {"dumping", "stopping"} /\ unwritten' \subseteq Stream
    BY <1>4 DEF ForceMemTraceDump, MemoryTraceShutdown, StartDump
  <2>2. UNCHANGED <<insts, memSet, clock, timedOut, numOperations,
                    numOperationsAtTimeout, files, torn, calls>>
    BY <1>4 DEF ForceMemTraceDump, MemoryTraceShutdown
  <2>3. QED
    BY <1>1, <2>1, <2>2 DEF IInv, TypeOK, SetsContiguous
<1>5. ASSUME NEW s \in Stream, DumpFile(s) PROVE IInv'
  BY <1>1, <1>5, DumpFileKeepsIInv
<1>6. CASE Clear \/ DeleteTrace
  <2>1. phase' \in {"tracing", "finished"} /\ insts' = {} /\ memSet' = NoSets
    BY <1>6 DEF Clear, DeleteTrace
  <2>2. UNCHANGED <<clock, timedOut, numOperations, numOperationsAtTimeout,
                    unwritten, files, torn, calls>>
    BY <1>6 DEF Clear, DeleteTrace
  <2>3. QED
    BY <1>1, <2>1, <2>2, NoSetsAreGood DEF IInv, TypeOK, SetsContiguous
<1>7. CASE Crash
  <2>1. torn' \subseteq Stream
    BY <1>7 DEF Crash
  <2>2. QED
    BY <1>1, <1>7, <2>1, NoSetsAreGood DEF Crash, IInv, TypeOK, SetsContiguous
<1>8. CASE ClockPassesTimeout
  BY <1>1, <1>8 DEF ClockPassesTimeout, IInv, TypeOK, SetsContiguous
<1>9. CASE UNCHANGED vars
  BY <1>1, <1>9 DEF vars, IInv, TypeOK, SetsContiguous
<1>10. QED
  BY <1>1, <1>2, <1>3, <1>4, <1>5, <1>6, <1>7, <1>8, <1>9 DEF Next

LEMMA Invariance == Spec => []IInv
  BY InitIInv, NextIInv, PTL DEF Spec

(***************************************************************************)
(* Whatever the instrumented program does, the fields of the tracer and    *)
(* what it writes keep their types: no stride or dumped distance leaves    *)
(* the signed words, and no pattern without an instance is written.        *)
(***************************************************************************)
THEOREM TypeCorrect == Spec => []TypeOK
<1>1. IInv => TypeOK
  BY DEF IInv
<1>2. QED
  BY <1>1, Invariance, PTL

(***************************************************************************)
(* Every set in memory numbers its accesses from 0 without a gap or an     *)
(* overlap, across any calls, dumps, timeouts and restarts.                *)
(***************************************************************************)
THEOREM AlwaysContiguous == Spec => []SetsContiguous
<1>1. IInv => SetsContiguous
  BY DEF IInv
<1>2. QED
  BY <1>1, Invariance, PTL

(***************************************************************************)
(* A recorded call adds exactly its own accesses at the end of what its    *)
(* instruction's patterns stand for, and nothing to any other instruction. *)
(***************************************************************************)
THEOREM RecordsExactlyAlways == Spec => RecordsExactly
<1> DEFINE Exact ==
      \A id \in Insts, op \in Operands : CamMem(id, op) /\ ~timedOut =>
         \A s \in Stream :
           Expand(memSet'[s]) =
             Expand(memSet[s]) \o AccessesOf([id |-> id, op |-> op], s)
<1>1. ASSUME IInv PROVE Exact
  <2>1. SUFFICES ASSUME NEW id \in Insts, NEW op \in Operands, CamMem(id, op), ~timedOut
                 PROVE  \A s \in Stream :
                          Expand(memSet'[s]) =
                            Expand(memSet[s]) \o AccessesOf([id |-> id, op |-> op], s)
    OBVIOUS
  <2>2. memSet' = Recorded(id, op)
    BY <2>1 DEF CamMem, RecordMemory
  <2>3. QED
    BY <1>1, <2>2, RecordedIsExact
<1>2. IInv /\ [Next]_vars => [Exact]_vars
  BY <1>1
<1>3. Spec => [][Exact]_vars
  BY <1>2, Invariance, PTL DEF Spec
<1>4. QED
  BY <1>3 DEF RecordsExactly

-----------------------------------------------------------------------------
(***************************************************************************)
(* What files and memory hold of the calls.  A set can be stored when the  *)
(* analysis will read its first base as it was; a file is readable when    *)
(* each of its segments stands for accesses.                               *)
(***************************************************************************)
Storable(set) == Good(set) /\ (set # <<>> => set[1].base < H)

Readable(file) ==
  /\ file \in Seq(Seq(DumpedEntry))
  /\ \A n \in 1 .. Len(file) : Expand(Undump(file[n], 0)) \in Seq(Access)

Calls == [id : Insts, op : Operands]

LEMMA SegmentStandsForSet ==
  ASSUME NEW set, Storable(set)
  PROVE  /\ Expand(Undump(DumpSet(set), 0)) = Expand(set)
         /\ Expand(set) \in Seq(Access)
<1>1. set \in MemSet /\ ContiguousFrom(set, 0) /\ (set # <<>> => set[1].base < H)
  BY DEF Storable, Good
<1>2. Undump(DumpSet(set), 0) = set
  BY <1>1, UndumpDump
<1>3. QED
  BY <1>1, <1>2, ExpandLength

LEMMA StoredType ==
  ASSUME NEW file, Readable(file)
  PROVE  StoredAccesses(file) \in Seq(Access)
<1> DEFINE parts == [n \in 1 .. Len(file) |-> Expand(Undump(file[n], 0))]
<1>1. Len(file) \in Nat
  BY DEF Readable
<1>2. parts \in Seq(Seq(Access))
  BY <1>1, IsASeq DEF Readable
<1>3. QED
  BY <1>2, FlattenType DEF StoredAccesses

LEMMA NoFileStores == Readable(<<>>) /\ StoredAccesses(<<>>) = <<>>
<1> DEFINE parts == [n \in 1 .. Len(<<>>) |-> Expand(Undump(<<>>[n], 0))]
<1>1. parts = <<>>
  OBVIOUS
<1>2. StoredAccesses(<<>>) = <<>>
  BY <1>1, FlattenEmpty DEF StoredAccesses
<1>3. QED
  BY <1>2 DEF Readable

(***************************************************************************)
(* A dumped set adds to its file exactly what it stands for.               *)
(***************************************************************************)
LEMMA SegmentAddsSet ==
  ASSUME NEW file, Readable(file), NEW set, Storable(set)
  PROVE  /\ Readable(Append(file, DumpSet(set)))
         /\ StoredAccesses(Append(file, DumpSet(set))) = StoredAccesses(file) \o Expand(set)
<1> DEFINE seg == DumpSet(set)
           f == Append(file, seg)
           Of(g) == [n \in 1 .. Len(g) |-> Expand(Undump(g[n], 0))]
           added == Expand(set)
<1>1. seg \in Seq(DumpedEntry)
  BY DumpSetType DEF Storable
<1>2. Expand(Undump(seg, 0)) = added /\ added \in Seq(Access)
  BY SegmentStandsForSet
<1>3. file \in Seq(Seq(DumpedEntry))
      /\ \A n \in 1 .. Len(file) : Expand(Undump(file[n], 0)) \in Seq(Access)
  BY DEF Readable
<1> HIDE DEF seg, added
<1>4. /\ f \in Seq(Seq(DumpedEntry)) /\ Len(f) = Len(file) + 1 /\ Len(file) \in Nat
      /\ \A n \in 1 .. Len(file) : f[n] = file[n]
      /\ f[Len(file) + 1] = seg
  BY <1>1, <1>3, AppendProperties
<1> HIDE DEF f
<1>5. Readable(f)
  <2>1. ASSUME NEW n \in 1 .. Len(f) PROVE Expand(Undump(f[n], 0)) \in Seq(Access)
    <3>1. CASE n = Len(file) + 1
      BY <1>2, <1>4, <3>1
    <3>2. CASE n # Len(file) + 1
      <4>1. n \in 1 .. Len(file)
        BY <1>4, <3>2
      <4>2. QED
        BY <1>3, <1>4, <4>1
    <3>3. QED
      BY <3>1, <3>2
  <2>2. QED
    BY <1>4, <2>1 DEF Readable
<1>6. /\ Of(file) \in [1 .. Len(file) -> Seq(Access)]
      /\ Of(f) \in [1 .. Len(file) + 1 -> Seq(Access)]
      /\ \A n \in 1 .. Len(file) : Of(f)[n] = Of(file)[n]
      /\ Of(f)[Len(file) + 1] = added
  <2>1. \A n \in 1 .. Len(file) + 1 : Expand(Undump(f[n], 0)) \in Seq(Access)
    BY <1>4, <1>5 DEF Readable
  <2>2. Len(file) + 1 \in 1 .. Len(file) + 1 /\ \A n \in 1 .. Len(file) : n \in 1 .. Len(file) + 1
    BY <1>4
  <2>3. QED
    BY <1>2, <1>3, <1>4, <2>1, <2>2
<1>7. StoredAccesses(f) = FlattenSeq(Of(f)) /\ StoredAccesses(file) = FlattenSeq(Of(file))
  BY DEF StoredAccesses
<1> HIDE DEF Of
<1>8. FlattenSeq(Of(f)) = FlattenSeq(Of(file)) \o Of(f)[Len(file) + 1]
  <2> DEFINE n == Len(file)
             p == Of(file)
             q == Of(f)
  <2>1. n \in Nat /\ p \in [1 .. n -> Seq(Access)] /\ q \in [1 .. n + 1 -> Seq(Access)]
        /\ \A i \in 1 .. n : q[i] = p[i]
    BY <1>4, <1>6
  <2> HIDE DEF n, p, q
  <2>2. FlattenSeq(q) = FlattenSeq(p) \o q[n + 1]
    BY <2>1, FlattenExtend
  <2>3. QED
    BY <2>2 DEF n, p, q
<1>9. QED
  BY <1>5, <1>6, <1>7, <1>8 DEF f, seg, added

LEMMA FirstBaseKept ==
  ASSUME NEW set, Storable(set), NEW a \in Access, a.addr < H
  PROVE  Storable(Record(set, a))
<1> DEFINE t == RecordMemoryReference(set, a)
<1>1. Good(Record(set, a))
  BY RecordIsExact DEF Storable
<1>2. set \in MemSet /\ (set # <<>> => set[1].base < H)
  BY DEF Storable, Good
<1>3. t # <<>> => t[1].base < H
  <2>1. CASE set = <<>>
    <3>1. t = Append(set, NewMemSetEntry(a, NextInstance(set)))
      BY <2>1 DEF RecordMemoryReference, JoinsPattern
    <3>2. t[1] = NewMemSetEntry(a, NextInstance(set))
      BY <2>1, <3>1
    <3>3. QED
      BY <3>2 DEF NewMemSetEntry
  <2>2. CASE set # <<>>
    <3>1. Len(set) \in 1 .. Len(set) /\ 1 \in 1 .. Len(set) /\ set[1] \in MemSetEntry
      BY <1>2, <2>2 DEF MemSet
    <3>2. CASE JoinsPattern(set, a)
      <4> DEFINE e == ExtendPattern(set[Len(set)], a)
      <4>1. t = [set EXCEPT ![Len(set)] = e]
        BY <3>2 DEF RecordMemoryReference
      <4>2. Len(set) = 1 => e.base = set[1].base
        BY <3>1 DEF ExtendPattern, MemSetEntry
      <4> HIDE DEF e, t
      <4>3. t[1] = IF Len(set) = 1 THEN e ELSE set[1]
        BY <1>2, <3>1, <4>1 DEF MemSet
      <4>4. QED
        BY <1>2, <2>2, <4>2, <4>3
    <3>3. CASE ~ JoinsPattern(set, a)
      <4>1. t = Append(set, NewMemSetEntry(a, NextInstance(set)))
        BY <3>3 DEF RecordMemoryReference
      <4>2. t[1] = set[1]
        BY <1>2, <3>1, <4>1 DEF MemSet
      <4>3. QED
        BY <1>2, <2>2, <4>2
    <3>4. QED
      BY <3>2, <3>3
  <2>3. QED
    BY <2>1, <2>2
<1>4. QED
  BY <1>1, <1>2, <1>3 DEF Record, Storable

AllStorable(sets) == \A s \in Stream : Storable(sets[s])

LEMMA RecordedStorable ==
  ASSUME UserAddresses, IInv, AllStorable(memSet), NEW id \in Insts, NEW op \in Operands
  PROVE  AllStorable(Recorded(id, op))
<1> DEFINE rset == Record(Record(memSet[<<id, "r">>], op.r1), op.r2)
           wset == Record(memSet[<<id, "w">>], op.w)
           sets == Recorded(id, op)
<1>1. /\ op.r1 \in Access /\ op.r2 \in Access /\ op.w \in Access
      /\ op.r1.addr < H /\ op.r2.addr < H /\ op.w.addr < H
  BY TracerAssumption DEF UserAddresses
<1>2. memSet \in [Stream -> MemSet]
  BY DEF IInv, TypeOK
<1>3. <<id, "r">> \in Stream /\ <<id, "w">> \in Stream /\ <<id, "r">> # <<id, "w">>
  BY DEF Stream
<1>4. Storable(rset)
  <2>1. Storable(Record(memSet[<<id, "r">>], op.r1))
    BY <1>1, <1>3, FirstBaseKept DEF AllStorable
  <2>2. QED
    BY <1>1, <2>1, FirstBaseKept
<1>5. Storable(wset)
  BY <1>1, <1>3, FirstBaseKept DEF AllStorable
<1>6. sets = [memSet EXCEPT ![<<id, "r">>] = rset, ![<<id, "w">>] = wset]
  BY <1>2, <1>3 DEF Recorded
<1> HIDE DEF rset, wset, sets
<1>7. \A s \in Stream : sets[s] \in {rset, wset, memSet[s]}
  BY <1>2, <1>6
<1>8. QED
  BY <1>4, <1>5, <1>7 DEF AllStorable, sets

AllReadable == \A s \in Stream : Readable(files[s])

(***************************************************************************)
(* The history: what the calls made of a stream, call by call.             *)
(***************************************************************************)
LEMMA AccessesOfType ==
  ASSUME NEW call \in Calls, NEW s
  PROVE  AccessesOf(call, s) \in Seq(Access)
<1>1. call.op.r1 \in Access /\ call.op.r2 \in Access /\ call.op.w \in Access
  BY TracerAssumption DEF Calls
<1>2. /\ IfPresent(call.op.r1) \in Seq(Access) /\ IfPresent(call.op.r2) \in Seq(Access)
      /\ IfPresent(call.op.w) \in Seq(Access)
  BY <1>1 DEF IfPresent
<1>3. QED
  BY <1>2, ConcatProperties DEF AccessesOf

LEMMA MadeOfNone == \A s : Made(<<>>, s) = <<>>
<1>1. ASSUME NEW s PROVE Made(<<>>, s) = <<>>
  <2>1. [n \in 1 .. Len(<<>>) |-> AccessesOf(<<>>[n], s)] = <<>>
    OBVIOUS
  <2>2. QED
    BY <2>1, FlattenEmpty DEF Made
<1>2. QED
  BY <1>1

LEMMA MadeOneMore ==
  ASSUME NEW cs \in Seq(Calls), NEW call \in Calls, NEW s
  PROVE  Made(Append(cs, call), s) = Made(cs, s) \o AccessesOf(call, s)
<1> DEFINE more == Append(cs, call)
           Of(c) == [n \in 1 .. Len(c) |-> AccessesOf(c[n], s)]
           k == Len(cs)
           p == Of(cs)
           q == Of(more)
<1>1. /\ k \in Nat /\ more \in Seq(Calls) /\ Len(more) = k + 1 /\ more[k + 1] = call
      /\ \A n \in 1 .. k : more[n] = cs[n]
  BY AppendProperties
<1> HIDE DEF more
<1>2. \A n \in 1 .. k + 1 : AccessesOf(more[n], s) \in Seq(Access)
  <2>1. \A n \in 1 .. k + 1 : more[n] \in Calls
    BY <1>1
  <2>2. QED
    BY <2>1, AccessesOfType
<1>3. \A n \in 1 .. k : AccessesOf(cs[n], s) \in Seq(Access)
  <2>1. \A n \in 1 .. k : cs[n] \in Calls
    OBVIOUS
  <2>2. QED
    BY <2>1, AccessesOfType
<1>4. p \in [1 .. k -> Seq(Access)]
  BY <1>3
<1>5. q \in [1 .. k + 1 -> Seq(Access)]
  BY <1>1, <1>2
<1>6. q[k + 1] = AccessesOf(call, s) /\ \A n \in 1 .. k : q[n] = p[n]
  BY <1>1
<1>7. Made(cs, s) = FlattenSeq(p) /\ Made(more, s) = FlattenSeq(q)
  BY DEF Made
<1> HIDE DEF p, q, k
<1>8. FlattenSeq(q) = FlattenSeq(p) \o q[k + 1]
  BY <1>1, <1>4, <1>5, <1>6, FlattenExtend
<1>9. QED
  BY <1>6, <1>7, <1>8 DEF more

-----------------------------------------------------------------------------
(***************************************************************************)
(* The order in which a dump writes.                                       *)
(***************************************************************************)
LEMMA DumpOrder ==
  /\ \A s \in Stream : ~ Precedes(s, s)
  /\ \A s, t, u \in Stream : Precedes(s, t) /\ Precedes(t, u) => Precedes(s, u)
<1>1. \A s \in Stream : s[1] \in Insts /\ s[2] \in {"r", "w"}
  BY DEF Stream
<1>2. \A i \in Insts : i \in Int
  BY TracerAssumption
<1>3. \A s \in Stream : s[1] \in Int
  BY <1>1, <1>2
<1>4. QED
  BY <1>3 DEF Precedes

(***************************************************************************)
(* The inductive invariant behind CutTogether.  The calls are counted; the *)
(* dump under way has written sets that come before those it has not; and, *)
(* while the program lives, every file that this dump has not written ends *)
(* at one and the same call, where the dump before it ended.               *)
(***************************************************************************)
InDump == phase \in {"dumping", "stopping"}

Written(s) == InDump /\ memSet[s] # <<>> /\ s \notin unwritten

CallsCounted ==
  /\ phase = "tracing" \/ InDump => numOperations = Len(calls)
  /\ timedOut => numOperationsAtTimeout \in 0 .. Len(calls)
  /\ ~ (phase = "tracing" \/ InDump) => memSet = NoSets

DumpInOrder ==
  /\ unwritten # {} => InDump
  /\ \A s \in unwritten : memSet[s] # <<>>
  /\ \A s \in Stream : Written(s) => \A u \in unwritten : Precedes(s, u)

FilesCut ==
  phase # "crashed" =>
    \E k \in 0 .. LastKept :
      \A s \in Stream : Written(s) \/ StoredAccesses(files[s]) = UpTo(k, s)

CutInv ==
  /\ IInv
  /\ AllStorable(memSet)
  /\ AllReadable
  /\ CallsCounted
  /\ DumpInOrder
  /\ FilesCut
  /\ CutTogether

LEMMA CallsFact ==
  ASSUME CutInv
  PROVE  /\ calls \in Seq(Calls) /\ Len(calls) \in Nat
         /\ LastKept \in 0 .. Len(calls)
         /\ SubSeq(calls, 1, Len(calls)) = calls
<1>1. calls \in Seq(Calls)
  BY DEF CutInv, IInv, TypeOK, Calls
<1>2. SubSeq(calls, 1, Len(calls)) = calls /\ Len(calls) \in Nat
  BY <1>1, SubSeqFull
<1>3. QED
  BY <1>1, <1>2 DEF CutInv, CallsCounted, LastKept

LEMMA OneMoreCall ==
  ASSUME CutInv, NEW call \in Calls, calls' = Append(calls, call)
  PROVE  /\ Len(calls') = Len(calls) + 1
         /\ \A k \in 0 .. Len(calls) : \A s : UpTo(k, s)' = UpTo(k, s)
         /\ \A s : UpTo(Len(calls), s)' = UpTo(Len(calls), s) \o AccessesOf(call, s)
<1>1. calls \in Seq(Calls) /\ Len(calls) \in Nat /\ SubSeq(calls, 1, Len(calls)) = calls
  BY CallsFact
<1>2. calls' \in Seq(Calls) /\ Len(calls') = Len(calls) + 1
  BY <1>1, AppendProperties
<1>3. SubSeq(calls', 1, Len(calls')) = calls'
  BY <1>2, SubSeqFull
<1>4. ASSUME NEW k \in 0 .. Len(calls) PROVE SubSeq(calls', 1, k) = SubSeq(calls, 1, k)
  BY <1>1, <1>2
<1>5. ASSUME NEW s PROVE UpTo(Len(calls), s)' = UpTo(Len(calls), s) \o AccessesOf(call, s)
  <2>1. UpTo(Len(calls), s) = Made(calls, s)
    BY <1>1 DEF UpTo
  <2>2. UpTo(Len(calls), s)' = Made(calls', s)
    BY <1>3 DEF UpTo
  <2>3. QED
    BY <1>1, <2>1, <2>2, MadeOneMore
<1>6. QED
  BY <1>2, <1>4, <1>5 DEF UpTo

LEMMA NoSetsStandForNothing ==
  /\ AllStorable(NoSets)
  /\ \A s \in Stream : Expand(NoSets[s]) = <<>>
  /\ \A s \in Stream : Readable(NoSets[s]) /\ StoredAccesses(NoSets[s]) = <<>>
  BY EmptyIsGood, NoFileStores DEF AllStorable, Storable, NoSets

LEMMA KeptType ==
  ASSUME CutInv, NEW s \in Stream
  PROVE  StoredAccesses(files[s]) \in Seq(Access) /\ Expand(memSet[s]) \in Seq(Access)
  BY StoredType, SegmentStandsForSet DEF CutInv, AllReadable, AllStorable

(***************************************************************************)
(* Outside a dump, and when one starts, all of memory is still unsaved; in *)
(* a dump that has written every set nothing is.                           *)
(***************************************************************************)
LEMMA NothingSavedYet ==
  ASSUME phase \in {"off", "tracing", "finished", "crashed"}
         \/ unwritten = {s \in Stream : memSet[s] # <<>>}
  PROVE  \A s \in Stream : Unsaved(s) = memSet[s] /\ ~ Written(s)
  BY DEF Unsaved, Written, InDump

LEMMA AllSaved ==
  ASSUME InDump, unwritten = {}
  PROVE  \A s \in Stream : Unsaved(s) = <<>>
  BY DEF InDump, Unsaved

LEMMA CamMemKeepsCut ==
  ASSUME UserAddresses, CutInv, NEW id \in Insts, NEW op \in Operands, CamMem(id, op)
  PROVE  CutInv'
<1> DEFINE call == [id |-> id, op |-> op]
           sets == Recorded(id, op)
<1>1. /\ phase = "tracing" /\ files' = files /\ torn' = torn /\ RecordOperation
      /\ calls' = Append(calls, call) /\ call \in Calls
  BY DEF CamMem, Calls
<1>2. /\ Len(calls) \in Nat /\ LastKept \in 0 .. Len(calls)
      /\ Len(calls') = Len(calls) + 1
      /\ \A k \in 0 .. Len(calls) : \A s : UpTo(k, s)' = UpTo(k, s)
      /\ \A s : UpTo(Len(calls), s)' = UpTo(Len(calls), s) \o AccessesOf(call, s)
  BY <1>1, CallsFact, OneMoreCall
<1>3. IInv'
  BY CamMemKeepsIInv DEF CutInv
<1>4. numOperations = Len(calls) /\ numOperations' = Len(calls')
  BY <1>1, <1>2 DEF CutInv, CallsCounted, RecordOperation
<1>5. \A s \in Stream : Unsaved(s) = memSet[s] /\ ~ Written(s)
  BY <1>1, NothingSavedYet
<1>6. unwritten = {} /\ torn = {}
  BY <1>1 DEF CutInv, DumpInOrder, InDump, CutTogether
<1>7. PICK k \in 0 .. LastKept : \A s \in Stream : StoredAccesses(files[s]) = UpTo(k, s)
  BY <1>1, <1>5 DEF CutInv, FilesCut
<1>8. /\ AllStorable(memSet)' /\ phase' \in {"tracing", "dumping"}
      /\ \A s \in Stream : Unsaved(s)' = memSet'[s] /\ ~ Written(s)'
      /\ LastKept' \in LastKept .. Len(calls')
      /\ timedOut' => numOperationsAtTimeout' \in 0 .. Len(calls')
      /\ \A s \in Stream : StoredAccesses(files[s]) \o Expand(memSet'[s]) = UpTo(LastKept, s)'
      /\ (unwritten' # {} => phase' = "dumping")
      /\ \A s \in unwritten' : memSet'[s] # <<>>
  <2>1. CASE timedOut
    <3>1. /\ memSet' = memSet /\ timedOut' = timedOut /\ phase' = phase
          /\ numOperationsAtTimeout' = numOperationsAtTimeout /\ unwritten' = unwritten
      BY <2>1 DEF CamMem, RecordOperation
    <3>2. LastKept' = LastKept /\ UpTo(LastKept, 0)' = UpTo(LastKept, 0)'
      BY <2>1, <3>1 DEF LastKept
    <3>3. \A s \in Stream : StoredAccesses(files[s]) \o Expand(memSet[s]) = UpTo(LastKept, s)
      BY <1>1, <1>5 DEF CutInv, CutTogether, Kept
    <3>4. \A s \in Stream : UpTo(LastKept, s)' = UpTo(LastKept, s)
      <4>1. \A s : UpTo(LastKept, s)' = Made(SubSeq(calls', 1, LastKept), s)
        BY <3>2 DEF UpTo
      <4>2. QED
        BY <1>2, <4>1 DEF UpTo
    <3>5. \A s \in Stream : Unsaved(s)' = memSet'[s] /\ ~ Written(s)'
      BY <1>1, <3>1 DEF Unsaved, Written, InDump
    <3>6. AllStorable(memSet)'
      BY <3>1 DEF CutInv, AllStorable
    <3>7. /\ LastKept' \in LastKept .. Len(calls')
          /\ timedOut' => numOperationsAtTimeout' \in 0 .. Len(calls')
      BY <1>2, <3>1, <3>2 DEF CutInv, CallsCounted
    <3>8. QED
      BY <1>1, <1>6, <3>1, <3>3, <3>4, <3>5, <3>6, <3>7
  <2>2. CASE ~ timedOut
    <3>1. RecordMemory(id, op)
      BY <2>2 DEF CamMem
    <3>2. /\ memSet' = sets /\ phase' \in {"tracing", "dumping"}
          /\ \/ phase' = "tracing" /\ unwritten' = unwritten
             \/ phase' = "dumping" /\ unwritten' = {s \in Stream : memSet'[s] # <<>>}
      BY <1>1, <3>1, RecordingGoesOn DEF CutInv
    <3>3. AllStorable(sets)
      BY RecordedStorable DEF CutInv
    <3>4. LastKept = Len(calls) /\ LastKept' = Len(calls')
      BY <1>4, <2>2 DEF LastKept, RecordOperation, CamMem
    <3>5. timedOut' => numOperationsAtTimeout' \in 0 .. Len(calls')
      <4>1. timedOut' => numOperationsAtTimeout' = numOperations'
        BY <1>1, <2>2 DEF RecordOperation
      <4>2. Len(calls') \in 0 .. Len(calls')
        BY <1>2
      <4>3. QED
        BY <1>4, <4>1, <4>2
    <3>6. \A s \in Stream : Unsaved(s)' = memSet'[s] /\ ~ Written(s)'
      BY <3>2 DEF Unsaved, Written, InDump
    <3>7. ASSUME NEW s \in Stream
          PROVE  StoredAccesses(files[s]) \o Expand(sets[s]) = UpTo(LastKept, s)'
      <4>1. Expand(sets[s]) = Expand(memSet[s]) \o AccessesOf(call, s)
        BY RecordedIsExact DEF CutInv
      <4>2. /\ StoredAccesses(files[s]) \in Seq(Access) /\ Expand(memSet[s]) \in Seq(Access)
            /\ AccessesOf(call, s) \in Seq(Access)
        BY <1>1, KeptType, AccessesOfType
      <4>3. StoredAccesses(files[s]) \o Expand(memSet[s]) = UpTo(Len(calls), s)
        BY <1>1, <1>5, <3>4 DEF CutInv, CutTogether, Kept
      <4>4. UpTo(LastKept, s)' = UpTo(Len(calls), s)'
        BY <3>4 DEF UpTo
      <4>5. UpTo(LastKept, s)' = (StoredAccesses(files[s]) \o Expand(memSet[s])) \o AccessesOf(call, s)
        BY <1>2, <4>3, <4>4
      <4>6. StoredAccesses(files[s]) \o (Expand(memSet[s]) \o AccessesOf(call, s))
              = (StoredAccesses(files[s]) \o Expand(memSet[s])) \o AccessesOf(call, s)
        BY <4>2, ConcatAssociative, SMTT(60)
      <4>7. QED
        BY <4>1, <4>5, <4>6
    <3>8. AllStorable(memSet)'
      BY <3>2, <3>3 DEF AllStorable
    <3>9. LastKept' \in LastKept .. Len(calls')
      BY <1>2, <3>4
    <3> HIDE DEF sets
    <3>10. QED
      BY <1>6, <3>2, <3>5, <3>6, <3>7, <3>8, <3>9
  <2>3. QED
    BY <2>1, <2>2
<1>9. AllReadable'
  BY <1>1 DEF CutInv, AllReadable
<1>10. CallsCounted' /\ DumpInOrder'
  BY <1>4, <1>8 DEF CallsCounted, DumpInOrder, InDump
<1>11. FilesCut'
  <2>1. k \in 0 .. LastKept' /\ k \in 0 .. Len(calls)
    BY <1>2, <1>7, <1>8
  <2>2. \A s \in Stream : StoredAccesses(files'[s]) = UpTo(k, s)'
    BY <1>1, <1>2, <1>7, <2>1
  <2>3. QED
    BY <2>1, <2>2 DEF FilesCut, UpTo
<1>12. CutTogether'
  BY <1>1, <1>6, <1>8 DEF CutTogether, Kept
<1>13. QED
  BY <1>3, <1>8, <1>9, <1>10, <1>11, <1>12 DEF CutInv

(***************************************************************************)
(* A dump that starts saves nothing yet.                                   *)
(***************************************************************************)
LEMMA StartKeepsCut ==
  ASSUME CutInv, ForceMemTraceDump \/ MemoryTraceShutdown, IInv'
  PROVE  CutInv'
<1>1. /\ phase = "tracing" /\ phase' \in {"dumping", "stopping"}
      /\ unwritten' = {s \in Stream : memSet[s] # <<>>}
      /\ UNCHANGED <<memSet, timedOut, numOperations, numOperationsAtTimeout, files, torn, calls>>
  BY DEF ForceMemTraceDump, MemoryTraceShutdown, StartDump
<1>2. \A s \in Stream : /\ Unsaved(s) = memSet[s] /\ ~ Written(s)
                        /\ Unsaved(s)' = memSet[s] /\ ~ Written(s)'
  BY <1>1, NothingSavedYet DEF Unsaved, Written, InDump
<1>3. LastKept' = LastKept /\ \A k, s : UpTo(k, s)' = UpTo(k, s)
  BY <1>1 DEF LastKept, UpTo
<1>4. AllStorable(memSet)' /\ AllReadable' /\ CallsCounted' /\ DumpInOrder'
  BY <1>1, <1>2 DEF CutInv, AllStorable, AllReadable, CallsCounted, DumpInOrder, InDump
<1>5. FilesCut'
  BY <1>1, <1>2, <1>3 DEF CutInv, FilesCut, UpTo
<1>6. CutTogether'
  <2>1. torn' = {} /\ \A s \in Stream : Kept(s)' = Kept(s)
    BY <1>1, <1>2 DEF CutInv, CutTogether, Kept
  <2>2. QED
    BY <1>1, <1>3, <2>1 DEF CutInv, CutTogether, UpTo
<1>7. QED
  BY <1>4, <1>5, <1>6 DEF CutInv

(***************************************************************************)
(* A file written takes from memory what it adds to the file, and the sets *)
(* written stay before those that are not.                                 *)
(***************************************************************************)
LEMMA DumpFileMoves ==
  ASSUME CutInv, NEW s \in Stream, DumpFile(s)
  PROVE  /\ InDump /\ s \in unwritten /\ Unsaved(s) = memSet[s]
         /\ Readable(files'[s])
         /\ StoredAccesses(files'[s]) = StoredAccesses(files[s]) \o Expand(memSet[s])
         /\ Unsaved(s)' = <<>>
         /\ \A t \in Stream \ {s} : files'[t] = files[t] /\ Unsaved(t)' = Unsaved(t)
<1>1. /\ NextFile(s) /\ s \in unwritten /\ unwritten' = unwritten \ {s}
      /\ phase' = phase /\ memSet' = memSet
  BY DEF DumpFile, NextFile
<1>2. InDump
  BY <1>1 DEF CutInv, DumpInOrder
<1>3. files'[s] = Append(files[s], DumpSet(memSet[s]))
      /\ \A t \in Stream \ {s} : files'[t] = files[t]
  BY DEF DumpFile, CutInv, IInv, TypeOK
<1>4. Readable(files'[s])
      /\ StoredAccesses(files'[s]) = StoredAccesses(files[s]) \o Expand(memSet[s])
  BY <1>3, SegmentAddsSet DEF CutInv, AllReadable, AllStorable
<1>5. Unsaved(s) = memSet[s] /\ Unsaved(s)' = <<>>
  BY <1>1, <1>2 DEF Unsaved, InDump
<1>6. \A t \in Stream \ {s} : Unsaved(t)' = Unsaved(t)
  BY <1>1 DEF Unsaved
<1>7. QED
  BY <1>1, <1>2, <1>3, <1>4, <1>5, <1>6

LEMMA DumpFileKeepsCut ==
  ASSUME CutInv, NEW s \in Stream, DumpFile(s), IInv'
  PROVE  CutInv'
<1>1. /\ NextFile(s) /\ unwritten' = unwritten \ {s}
      /\ UNCHANGED <<phase, memSet, timedOut, numOperations, numOperationsAtTimeout, torn, calls>>
  BY DEF DumpFile
<1>2. InDump /\ InDump' /\ phase # "crashed" /\ phase' # "crashed"
  BY <1>1, DumpFileMoves DEF InDump
<1>3. LastKept' = LastKept /\ \A k, t : UpTo(k, t)' = UpTo(k, t)
  BY <1>1 DEF LastKept, UpTo
<1>4. \A t \in Stream : Readable(files'[t])
  <2>1. ASSUME NEW t \in Stream PROVE Readable(files'[t])
    <3>1. CASE t = s
      BY <3>1, DumpFileMoves
    <3>2. CASE t # s
      BY <3>2, DumpFileMoves DEF CutInv, AllReadable
    <3>3. QED
      BY <3>1, <3>2
  <2>2. QED
    BY <2>1
<1>5. DumpInOrder'
  <2>1. ASSUME NEW t \in Stream, Written(t)', NEW u \in unwritten' PROVE Precedes(t, u)
    <3>1. u \in unwritten /\ u # s
      BY <1>1, <2>1
    <3>2. CASE t = s
      BY <1>1, <3>1, <3>2 DEF NextFile
    <3>3. CASE t # s
      <4>1. Written(t)
        BY <1>1, <2>1, <3>3 DEF Written, InDump
      <4>2. QED
        BY <3>1, <4>1 DEF CutInv, DumpInOrder
    <3>4. QED
      BY <3>2, <3>3
  <2>2. unwritten' # {} => InDump'
    BY <1>2
  <2>3. \A t \in unwritten' : memSet'[t] # <<>>
    BY <1>1 DEF CutInv, DumpInOrder
  <2>4. QED
    BY <2>1, <2>2, <2>3 DEF DumpInOrder
<1>6. FilesCut'
  <2>1. PICK k \in 0 .. LastKept :
          \A t \in Stream : Written(t) \/ StoredAccesses(files[t]) = UpTo(k, t)
    BY <1>2 DEF CutInv, FilesCut
  <2>2. ASSUME NEW t \in Stream PROVE Written(t)' \/ StoredAccesses(files'[t]) = UpTo(k, t)'
    <3>1. CASE t = s
      <4>1. memSet[s] # <<>> /\ s \in unwritten
        BY DumpFileMoves DEF CutInv, DumpInOrder
      <4>2. QED
        BY <1>1, <1>2, <3>1, <4>1 DEF Written
    <3>2. CASE t # s
      <4>1. files'[t] = files[t] /\ (Written(t) => Written(t)')
        BY <1>1, <3>2, DumpFileMoves DEF Written, InDump
      <4>2. QED
        BY <1>3, <2>1, <4>1
    <3>3. QED
      BY <3>1, <3>2
  <2>3. QED
    BY <1>3, <2>1, <2>2 DEF FilesCut
<1>7. CutTogether'
  <2>1. ASSUME NEW t \in Stream PROVE Kept(t)' = Kept(t)
    <3>1. CASE t = s
      <4>1. Kept(s) = StoredAccesses(files[s]) \o Expand(memSet[s])
        BY DumpFileMoves DEF Kept
      <4>2. Kept(s)' = (StoredAccesses(files[s]) \o Expand(memSet[s])) \o <<>>
        BY DumpFileMoves, EmptyIsGood DEF Kept
      <4>3. StoredAccesses(files[s]) \o Expand(memSet[s]) \in Seq(Access)
        BY KeptType, ConcatProperties
      <4>4. QED
        BY <3>1, <4>1, <4>2, <4>3, ConcatEmptySeq
    <3>2. CASE t # s
      BY <3>2, DumpFileMoves DEF Kept
    <3>3. QED
      BY <3>1, <3>2
  <2>2. torn' = {} /\ \A t \in Stream : Kept(t)' = UpTo(LastKept, t)
    BY <1>1, <1>2, <2>1 DEF CutInv, CutTogether
  <2>3. QED
    BY <1>2, <1>3, <2>2 DEF CutTogether
<1>8. AllStorable(memSet)' /\ AllReadable' /\ CallsCounted'
  BY <1>1, <1>2, <1>4 DEF CutInv, AllStorable, AllReadable, CallsCounted
<1>9. QED
  BY <1>5, <1>6, <1>7, <1>8 DEF CutInv

(***************************************************************************)
(* At the end of a dump the files hold what files and memory held.         *)
(***************************************************************************)
LEMMA EndKeepsCut ==
  ASSUME CutInv, Clear \/ DeleteTrace, IInv'
  PROVE  CutInv'
<1>1. /\ InDump /\ unwritten = {} /\ phase' \in {"tracing", "finished"} /\ memSet' = NoSets
      /\ UNCHANGED <<timedOut, numOperations, numOperationsAtTimeout, unwritten, files, torn, calls>>
  BY DEF Clear, DeleteTrace, InDump
<1>2. LastKept' = LastKept /\ LastKept \in 0 .. LastKept /\ \A k, s : UpTo(k, s)' = UpTo(k, s)
  BY <1>1, CallsFact DEF LastKept, UpTo
<1>3. ASSUME NEW s \in Stream
      PROVE  StoredAccesses(files[s]) = UpTo(LastKept, s) /\ Kept(s)' = StoredAccesses(files[s])
  <2>1. Unsaved(s) = <<>> /\ Unsaved(s)' = <<>>
    BY <1>1, AllSaved DEF Unsaved, NoSets
  <2>2. Kept(s) = StoredAccesses(files[s]) \o <<>> /\ Kept(s)' = StoredAccesses(files[s]) \o <<>>
    BY <1>1, <2>1, EmptyIsGood DEF Kept
  <2>3. Kept(s) = UpTo(LastKept, s)
    BY <1>1 DEF InDump, CutInv, CutTogether
  <2>4. QED
    BY <2>2, <2>3, KeptType, ConcatEmptySeq
<1>4. torn' = {} /\ phase' # "crashed"
  BY <1>1 DEF InDump, CutInv, CutTogether
<1>5. FilesCut' /\ CutTogether'
  <2>1. \A s \in Stream : StoredAccesses(files'[s]) = UpTo(LastKept, s)'
    BY <1>1, <1>2, <1>3
  <2>2. \A s \in Stream : Kept(s)' = UpTo(LastKept, s)'
    BY <1>2, <1>3
  <2>3. FilesCut'
    BY <1>2, <2>1 DEF FilesCut
  <2>4. QED
    BY <1>4, <2>2, <2>3 DEF CutTogether
<1>6. AllStorable(memSet)' /\ AllReadable' /\ CallsCounted' /\ DumpInOrder'
  BY <1>1, NoSetsStandForNothing
     DEF CutInv, AllStorable, AllReadable, CallsCounted, DumpInOrder, InDump, Written
<1>7. QED
  BY <1>5, <1>6 DEF CutInv

(***************************************************************************)
(* A crash leaves the files that the dump had written at the last call and *)
(* the others where the dump before had left them.                         *)
(***************************************************************************)
LEMMA CrashKeepsCut ==
  ASSUME CutInv, Crash, IInv'
  PROVE  CutInv'
<1>1. /\ phase \in {"tracing", "dumping", "stopping"} /\ phase' = "crashed"
      /\ memSet' = NoSets /\ unwritten' = {}
      /\ \/ torn' = {}
         \/ \E s \in Stream : NextFile(s) /\ torn' = {s}
      /\ UNCHANGED <<timedOut, numOperations, numOperationsAtTimeout, files, calls>>
  BY DEF Crash
<1>2. LastKept' = LastKept /\ LastKept \in Nat /\ \A k, s : UpTo(k, s)' = UpTo(k, s)
  BY <1>1, CallsFact DEF LastKept, UpTo
<1>3. PICK k \in 0 .. LastKept :
        \A s \in Stream : Written(s) \/ StoredAccesses(files[s]) = UpTo(k, s)
  BY <1>1 DEF CutInv, FilesCut
<1> PICK W \in SUBSET Stream :
           W = {s \in Stream : InDump /\ \A u \in unwritten : Precedes(s, u)}
  OBVIOUS
<1>4. \A s \in W, t \in Stream : Precedes(t, s) => t \in W
  <2>1. unwritten \subseteq Stream
    BY DEF CutInv, IInv, TypeOK
  <2>2. QED
    BY <2>1, DumpOrder
<1>5. ASSUME NEW s \in Stream
      PROVE  Kept(s)' = UpTo(IF s \in W THEN LastKept ELSE k, s)
  <2>1. Kept(s)' = StoredAccesses(files[s])
    <3>1. Unsaved(s)' = <<>>
      BY <1>1 DEF Unsaved, NoSets
    <3>2. Kept(s)' = StoredAccesses(files[s]) \o <<>>
      BY <1>1, <3>1, EmptyIsGood DEF Kept
    <3>3. QED
      BY <3>2, KeptType, ConcatEmptySeq
  <2>2. CASE s \in W
    <3>1. s \notin unwritten
      BY <2>2, DumpOrder
    <3>2. Unsaved(s) = <<>>
      BY <2>2, <3>1 DEF Unsaved, InDump
    <3>3. Kept(s) = StoredAccesses(files[s]) \o <<>>
      BY <3>2, EmptyIsGood DEF Kept
    <3>4. Kept(s) = UpTo(LastKept, s)
      BY <1>1 DEF CutInv, CutTogether
    <3>5. StoredAccesses(files[s]) = UpTo(LastKept, s)
      BY <3>3, <3>4, KeptType, ConcatEmptySeq
    <3>6. QED
      BY <2>1, <2>2, <3>5
  <2>3. CASE s \notin W
    <3>1. ~ Written(s)
      BY <2>3 DEF CutInv, DumpInOrder, Written
    <3>2. QED
      BY <1>3, <2>1, <2>3, <3>1
  <2>4. QED
    BY <2>2, <2>3
<1>6. \A s \in torn' : s \notin W /\ \A t \in Stream : Precedes(t, s) => t \in W
  <2>1. SUFFICES ASSUME NEW s \in Stream, NextFile(s)
                 PROVE  s \notin W /\ \A t \in Stream : Precedes(t, s) => t \in W
    BY <1>1
  <2>2. s \in unwritten /\ InDump /\ unwritten \subseteq Stream
        /\ \A u \in unwritten \ {s} : Precedes(s, u)
    BY <2>1 DEF NextFile, CutInv, DumpInOrder, IInv, TypeOK
  <2>3. s \notin W
    BY <2>2, DumpOrder
  <2>4. QED
    BY <2>2, <2>3, DumpOrder
<1>7. CutTogether'
  <2>1. \A s \in Stream : Kept(s)' = UpTo(IF s \in W THEN LastKept ELSE k, s)'
    BY <1>1, <1>2, <1>5 DEF UpTo
  <2>2. k \in 0 .. LastKept'
    BY <1>2
  <2>3. QED
    BY <1>1, <1>4, <1>6, <2>1, <2>2 DEF CutTogether
<1>8. AllStorable(memSet)' /\ AllReadable' /\ CallsCounted' /\ DumpInOrder' /\ FilesCut'
  BY <1>1, NoSetsStandForNothing
     DEF CutInv, AllStorable, AllReadable, CallsCounted, DumpInOrder, FilesCut, InDump, Written
<1>9. QED
  BY <1>7, <1>8 DEF CutInv

-----------------------------------------------------------------------------
LEMMA NothingKept ==
  \A s \in Stream : StoredAccesses(NoSets[s]) \o Expand(NoSets[s]) = <<>>
<1>1. <<>> \o <<>> = <<>>
  OBVIOUS
<1>2. QED
  BY <1>1, NoSetsStandForNothing

LEMMA NoCalls == \A s : Made(SubSeq(<<>>, 1, 0), s) = <<>>
<1>1. SubSeq(<<>>, 1, 0) = <<>>
  OBVIOUS
<1>2. QED
  BY <1>1, MadeOfNone

(***************************************************************************)
(* A tracer that has recorded nothing.                                     *)
(***************************************************************************)
LEMMA FreshCut ==
  ASSUME IInv, phase \in {"off", "tracing"}, memSet = NoSets, unwritten = {}, files = NoSets,
         torn = {}, calls = <<>>, ~ timedOut, numOperations = 0
  PROVE  CutInv
<1>1. LastKept = 0 /\ Len(calls) = 0
  BY DEF LastKept
<1>2. \A s \in Stream : Unsaved(s) = NoSets[s] /\ ~ Written(s)
  BY NothingSavedYet
<1>3. \A s \in Stream : StoredAccesses(files[s]) = UpTo(0, s) /\ Kept(s) = UpTo(0, s)
  BY <1>2, NoSetsStandForNothing, NothingKept, NoCalls DEF Kept, UpTo
<1>4. FilesCut /\ CutTogether
  BY <1>1, <1>3 DEF FilesCut, CutTogether
<1>5. AllStorable(memSet) /\ AllReadable
  BY NoSetsStandForNothing DEF AllStorable, AllReadable
<1>6. CallsCounted /\ DumpInOrder
  BY <1>1, <1>2 DEF CallsCounted, DumpInOrder
<1>7. QED
  BY <1>4, <1>5, <1>6 DEF CutInv

LEMMA InitCut == Init => CutInv
  BY InitIInv, FreshCut DEF Init

LEMMA NextCut == UserAddresses /\ CutInv /\ [Next]_vars => CutInv'
<1>1. SUFFICES ASSUME UserAddresses, CutInv, [Next]_vars PROVE CutInv'
  OBVIOUS
<1>2. IInv'
  BY <1>1, NextIInv DEF CutInv
<1>3. CASE MemoryTraceInit
  <2>1. /\ phase' = "tracing" /\ memSet' = NoSets /\ unwritten' = {} /\ files' = NoSets
        /\ torn' = {} /\ calls' = <<>> /\ ~ timedOut' /\ numOperations' = 0
    BY <1>3 DEF MemoryTraceInit
  <2>2. LastKept' = 0 /\ Len(calls') = 0
    BY <2>1 DEF LastKept
  <2>3. \A s \in Stream : Unsaved(s)' = NoSets[s] /\ ~ Written(s)'
    BY <2>1 DEF Unsaved, Written, InDump
  <2>4. \A s \in Stream : StoredAccesses(files'[s]) = UpTo(0, s)' /\ Kept(s)' = UpTo(0, s)'
    BY <2>1, <2>3, NoSetsStandForNothing, NothingKept, NoCalls DEF Kept, UpTo
  <2>5. FilesCut' /\ CutTogether'
    BY <2>1, <2>2, <2>4 DEF FilesCut, CutTogether, UpTo
  <2>6. AllStorable(memSet)' /\ AllReadable'
    BY <2>1, NoSetsStandForNothing DEF AllStorable, AllReadable
  <2>7. CallsCounted' /\ DumpInOrder'
    BY <2>1, <2>2, <2>3 DEF CallsCounted, DumpInOrder
  <2>8. QED
    BY <1>2, <2>5, <2>6, <2>7 DEF CutInv
<1>4. ASSUME NEW id \in Insts, NEW op \in Operands, CamMem(id, op) PROVE CutInv'
  BY <1>1, <1>4, CamMemKeepsCut
<1>5. CASE ForceMemTraceDump \/ MemoryTraceShutdown
  BY <1>1, <1>2, <1>5, StartKeepsCut
<1>6. ASSUME NEW s \in Stream, DumpFile(s) PROVE CutInv'
  BY <1>1, <1>2, <1>6, DumpFileKeepsCut
<1>7. CASE Clear \/ DeleteTrace
  BY <1>1, <1>2, <1>7, EndKeepsCut
<1>8. CASE Crash
  BY <1>1, <1>2, <1>8, CrashKeepsCut
<1>9. CASE ClockPassesTimeout \/ UNCHANGED vars
  <2>1. UNCHANGED <<phase, memSet, timedOut, numOperations, numOperationsAtTimeout,
                    unwritten, files, torn, calls>>
    BY <1>9 DEF ClockPassesTimeout, vars
  <2>2. AllStorable(memSet)' /\ AllReadable' /\ CallsCounted' /\ DumpInOrder'
    BY <1>1, <2>1
       DEF CutInv, AllStorable, AllReadable, CallsCounted, DumpInOrder, InDump, Written
  <2>3. /\ LastKept' = LastKept /\ \A k, s : UpTo(k, s)' = UpTo(k, s)
        /\ \A s : (Written(s)' <=> Written(s)) /\ Kept(s)' = Kept(s)
    BY <2>1 DEF LastKept, UpTo, Written, InDump, Kept, Unsaved
  <2>4. FilesCut'
    BY <1>1, <2>1, <2>3 DEF CutInv, FilesCut, UpTo
  <2>5. CutTogether'
    BY <1>1, <2>1, <2>3 DEF CutInv, CutTogether, UpTo
  <2>6. QED
    BY <1>2, <2>2, <2>4, <2>5 DEF CutInv
<1>10. QED
  BY <1>1, <1>3, <1>4, <1>5, <1>6, <1>7, <1>8, <1>9 DEF Next

LEMMA CutInvariance == ASSUME UserAddresses PROVE Spec => []CutInv
<1>1. CutInv /\ [Next]_vars => CutInv'
  BY NextCut
<1>2. QED
  BY <1>1, InitCut, PTL DEF Spec

(***************************************************************************)
(* For every program with user addresses, every width, limit and clock:    *)
(* while the program lives, and after it has ended, files and memory       *)
(* together hold the accesses of the first k calls, for one k for all      *)
(* instructions, all calls or those up to the timeout, also in the middle  *)
(* of a dump; after a crash the files that come first end there and the    *)
(* others at one earlier call.                                             *)
(***************************************************************************)
THEOREM CutTogetherAlways == ASSUME UserAddresses PROVE Spec => []CutTogether
<1>1. CutInv => CutTogether
  BY DEF CutInv
<1>2. QED
  BY <1>1, CutInvariance, PTL

-----------------------------------------------------------------------------
(***************************************************************************)
(* The tracer implements the abstract store: its sets are the pending      *)
(* logs, its files the stored ones.                                        *)
(***************************************************************************)
pend == [s \in Stream |-> Expand(Unsaved(s))]
stor == [s \in Stream |-> StoredAccesses(files[s])]

LEMMA NothingLogged ==
  /\ Store!Logs = Stream
  /\ [s \in Stream |-> Expand(NoSets[s])] = Store!NoLogs
  /\ [s \in Stream |-> StoredAccesses(NoSets[s])] = Store!NoLogs
  BY NoSetsStandForNothing DEF Store!Logs, Stream, Store!NoLogs

(***************************************************************************)
(* A set that has a pattern stands for an access: a log that a dump skips  *)
(* is empty.                                                               *)
(***************************************************************************)
LEMMA EmptyLog ==
  ASSUME NEW set, Good(set)
  PROVE  Expand(set) = <<>> <=> set = <<>>
<1>1. CASE set = <<>>
  BY <1>1, EmptyIsGood
<1>2. CASE set # <<>>
  <2>1. set \in MemSet /\ Len(set) \in 1 .. Len(set)
    BY <1>2 DEF Good, MemSet
  <2>2. NextInstance(set) = set[Len(set)].end + 1 /\ set[Len(set)].end \in Nat
    BY <1>2, <2>1, EntryFacts DEF NextInstance, Good
  <2>3. Len(Expand(set)) # 0
    BY <2>2, ExpandLength DEF Good
  <2>4. QED
    BY <1>2, <2>3
<1>3. QED
  BY <1>1, <1>2

LEMMA WaitingSets ==
  ASSUME NEW sets, AllStorable(sets)
  PROVE  Store!Waiting([s \in Stream |-> Expand(sets[s])]) = {s \in Stream : sets[s] # <<>>}
  BY EmptyLog, NothingLogged DEF AllStorable, Storable, Store!Waiting

LEMMA StartsEmpty == Init => Store!Start
<1>1. SUFFICES ASSUME Init PROVE Store!Start
  OBVIOUS
<1>2. phase = "off" /\ memSet = NoSets /\ files = NoSets /\ unwritten = {}
  BY <1>1 DEF Init
<1>3. pend = Store!NoLogs /\ stor = Store!NoLogs
  BY <1>2, NothingSavedYet, NothingLogged DEF pend, stor
<1>4. QED
  BY <1>2, <1>3 DEF Store!Start, pend, stor

LEMMA CallLogs ==
  ASSUME CutInv, phase = "tracing", NEW id \in Insts, NEW op \in Operands
  PROVE  [s \in Stream |-> Expand(Recorded(id, op)[s])] = Store!With(id, op)
<1> DEFINE call == [id |-> id, op |-> op]
           sets == Recorded(id, op)
           r == <<id, "r">>
           w == <<id, "w">>
<1>1. ASSUME NEW s \in Stream
      PROVE  /\ Expand(sets[s]) = pend[s] \o AccessesOf(call, s) /\ pend[s] \in Seq(Access)
  <2>1. pend[s] = Expand(memSet[s])
    BY NothingSavedYet DEF pend
  <2>2. Expand(sets[s]) = Expand(memSet[s]) \o AccessesOf(call, s)
    BY RecordedIsExact DEF CutInv
  <2>3. Expand(memSet[s]) \in Seq(Access)
    BY KeptType
  <2>4. QED
    BY <2>1, <2>2, <2>3
<1>2. r \in Stream /\ w \in Stream /\ r # w
  BY DEF Stream
<1>3. op.r1 \in Access /\ op.r2 \in Access /\ op.w \in Access
  BY TracerAssumption
<1>4. /\ Store!IfGiven(op.r1) = IfPresent(op.r1) /\ Store!IfGiven(op.r2) = IfPresent(op.r2)
      /\ Store!IfGiven(op.w) = IfPresent(op.w)
  BY DEF Store!IfGiven, IfPresent
<1>5. Expand(sets[r]) = pend[r] \o Store!IfGiven(op.r1) \o Store!IfGiven(op.r2)
  <2>1. AccessesOf(call, r) = IfPresent(op.r1) \o IfPresent(op.r2)
    BY DEF AccessesOf
  <2>2. IfPresent(op.r1) \in Seq(Access) /\ IfPresent(op.r2) \in Seq(Access)
    BY <1>3 DEF IfPresent
  <2>3. pend[r] \in Seq(Access) /\ Expand(sets[r]) = pend[r] \o AccessesOf(call, r)
    BY <1>1, <1>2
  <2>4. \A p, a, b \in Seq(Access) : p \o (a \o b) = (p \o a) \o b
    BY ConcatAssociative
  <2>5. Expand(sets[r]) = pend[r] \o (IfPresent(op.r1) \o IfPresent(op.r2))
    BY <2>1, <2>3
  <2> HIDE DEF r, sets
  <2>6. Expand(sets[r]) = (pend[r] \o IfPresent(op.r1)) \o IfPresent(op.r2)
    BY <2>2, <2>3, <2>4, <2>5
  <2>7. QED
    BY <1>4, <2>6
<1>6. Expand(sets[w]) = pend[w] \o Store!IfGiven(op.w)
  <2>1. AccessesOf(call, w) = IfPresent(op.w)
    BY DEF AccessesOf
  <2>2. QED
    BY <1>1, <1>2, <1>4, <2>1
<1>7. ASSUME NEW s \in Stream, s # r, s # w PROVE Expand(sets[s]) = pend[s]
  <2>1. s[1] # id
    BY <1>7 DEF Stream
  <2>2. AccessesOf(call, s) = <<>>
    BY <2>1 DEF AccessesOf
  <2>3. QED
    BY <1>1, <2>2, ConcatEmptySeq
<1> HIDE DEF sets
<1>8. Store!With(id, op) =
        [pend EXCEPT ![r] = pend[r] \o Store!IfGiven(op.r1) \o Store!IfGiven(op.r2),
                     ![w] = pend[w] \o Store!IfGiven(op.w)]
  BY <1>2 DEF Store!With, pend
<1>9. pend = [s \in Stream |-> pend[s]]
  BY DEF pend
<1> HIDE DEF r, w
<1>10. [s \in Stream |-> Expand(sets[s])] =
         [pend EXCEPT ![r] = pend[r] \o Store!IfGiven(op.r1) \o Store!IfGiven(op.r2),
                      ![w] = pend[w] \o Store!IfGiven(op.w)]
  BY <1>2, <1>5, <1>6, <1>7, <1>9
<1>11. QED
  BY <1>8, <1>10 DEF sets

LEMMA FileFlushed ==
  ASSUME CutInv, NEW s \in Stream, DumpFile(s)
  PROVE  Store!FlushLog(s)
<1>1. s \in unwritten /\ unwritten' = unwritten \ {s}
  BY DumpFileMoves DEF DumpFile
<1>2. stor' = [stor EXCEPT ![s] = stor[s] \o pend[s]]
  <2>1. stor'[s] = stor[s] \o pend[s] /\ \A t \in Stream \ {s} : stor'[t] = stor[t]
    BY DumpFileMoves DEF stor, pend
  <2>2. stor = [t \in Stream |-> stor[t]] /\ stor' = [t \in Stream |-> stor'[t]]
    BY DEF stor
  <2>3. QED
    BY <2>1, <2>2
<1>3. pend' = [pend EXCEPT ![s] = <<>>]
  <2>1. pend'[s] = <<>> /\ \A t \in Stream \ {s} : pend'[t] = pend[t]
    BY DumpFileMoves, EmptyIsGood DEF pend
  <2>2. pend = [t \in Stream |-> pend[t]] /\ pend' = [t \in Stream |-> pend'[t]]
    BY DEF pend
  <2>3. QED
    BY <2>1, <2>2
<1>4. QED
  BY <1>1, <1>2, <1>3 DEF Store!FlushLog, stor, pend

LEMMA StepImplements ==
  UserAddresses /\ CutInv /\ [Next]_vars => [Store!Step]_(Store!storeVars)
<1> DEFINE Stutter == pend' = pend /\ stor' = stor /\ unwritten' = unwritten
<1>1. SUFFICES ASSUME UserAddresses, CutInv, [Next]_vars
               PROVE  Store!Step \/ Stutter
  BY DEF Store!storeVars, pend, stor
<1>2. CASE MemoryTraceInit
  <2>1. /\ phase \in {"off", "finished", "crashed"} /\ phase' = "tracing"
        /\ memSet' = NoSets /\ files' = NoSets /\ unwritten' = {}
    BY <1>2 DEF MemoryTraceInit
  <2>2. unwritten = {}
    BY <1>1, <2>1 DEF CutInv, DumpInOrder, InDump
  <2>3. pend' = Store!NoLogs /\ stor' = Store!NoLogs
    BY <2>1, NothingLogged DEF pend, stor, Unsaved
  <2>4. Store!Restart
    BY <2>1, <2>2, <2>3 DEF Store!Restart, pend, stor
  <2>5. QED
    BY <2>4 DEF Store!Step
<1>3. ASSUME NEW id \in Insts, NEW op \in Operands, CamMem(id, op)
      PROVE  Store!Step \/ Stutter
  <2> DEFINE sets == Recorded(id, op)
  <2>1. phase = "tracing" /\ files' = files /\ unwritten = {}
    BY <1>1, <1>3 DEF CamMem, CutInv, DumpInOrder, InDump
  <2>2. CASE timedOut
    <3>1. memSet' = memSet /\ phase' = phase /\ unwritten' = unwritten
      BY <1>3, <2>2 DEF CamMem
    <3>2. QED
      BY <2>1, <3>1 DEF pend, stor, Unsaved
  <2>3. CASE ~ timedOut
    <3>1. RecordMemory(id, op)
      BY <1>3, <2>3 DEF CamMem
    <3>2. /\ memSet' = sets
          /\ \/ phase' = "tracing" /\ unwritten' = {}
             \/ phase' = "dumping" /\ unwritten' = {s \in Stream : sets[s] # <<>>}
      BY <1>1, <2>1, <3>1, RecordingGoesOn DEF CutInv
    <3>3. AllStorable(sets)
      BY <1>1, RecordedStorable DEF CutInv
    <3>4. [s \in Stream |-> Expand(sets[s])] = Store!With(id, op)
      BY <1>1, <2>1, CallLogs
    <3> HIDE DEF sets
    <3>5. \A s \in Stream : Unsaved(s)' = sets[s]
      BY <3>2 DEF Unsaved
    <3>6. pend' = Store!With(id, op)
      BY <3>4, <3>5 DEF pend
    <3>7. unwritten' \in {{}, Store!Waiting(Store!With(id, op))}
      BY <3>2, <3>3, <3>4, WaitingSets
    <3>8. Store!Log(id, op)
      BY <2>1, <3>6, <3>7 DEF Store!Log, pend, stor
    <3>9. QED
      BY <3>8 DEF Store!Step
  <2>4. QED
    BY <2>2, <2>3
<1>4. CASE ForceMemTraceDump \/ MemoryTraceShutdown
  <2>1. /\ phase = "tracing" /\ memSet' = memSet /\ files' = files
        /\ unwritten' = {s \in Stream : memSet[s] # <<>>}
    BY <1>4 DEF ForceMemTraceDump, MemoryTraceShutdown, StartDump
  <2>2. unwritten = {}
    BY <1>1, <2>1 DEF CutInv, DumpInOrder, InDump
  <2>3. \A s \in Stream : Unsaved(s) = memSet[s] /\ Unsaved(s)' = memSet[s]
    BY <2>1 DEF Unsaved
  <2>4. pend = [s \in Stream |-> Expand(memSet[s])] /\ pend' = pend /\ stor' = stor
    BY <2>1, <2>3 DEF pend, stor
  <2>5. unwritten' = Store!Waiting(pend)
    BY <1>1, <2>1, <2>4, WaitingSets DEF CutInv
  <2>6. Store!Flush
    BY <2>2, <2>4, <2>5 DEF Store!Flush, pend, stor
  <2>7. QED
    BY <2>6 DEF Store!Step
<1>5. ASSUME NEW s \in Stream, DumpFile(s) PROVE Store!Step \/ Stutter
  BY <1>1, <1>5, FileFlushed, NothingLogged DEF Store!Step
<1>6. CASE Clear \/ DeleteTrace
  <2>1. /\ InDump /\ unwritten = {} /\ unwritten' = {} /\ memSet' = NoSets
        /\ phase' \in {"tracing", "finished"} /\ files' = files
    BY <1>6 DEF Clear, DeleteTrace, InDump
  <2>2. \A s \in Stream : Unsaved(s) = <<>> /\ Unsaved(s)' = <<>>
    BY <2>1, AllSaved DEF Unsaved, NoSets
  <2>3. QED
    BY <2>1, <2>2 DEF pend, stor
<1>7. CASE Crash
  <2>1. /\ phase' = "crashed" /\ memSet' = NoSets /\ unwritten' = {} /\ files' = files
    BY <1>7 DEF Crash
  <2>2. pend' = Store!NoLogs /\ stor' = stor
    BY <2>1, NothingLogged DEF pend, stor, Unsaved
  <2>3. Store!Lose
    BY <2>1, <2>2 DEF Store!Lose, pend, stor
  <2>4. QED
    BY <2>3 DEF Store!Step
<1>8. CASE ClockPassesTimeout \/ UNCHANGED vars
  BY <1>8 DEF ClockPassesTimeout, vars, pend, stor, Unsaved
<1>9. QED
  BY <1>1, <1>2, <1>3, <1>4, <1>5, <1>6, <1>7, <1>8 DEF Next

(***************************************************************************)
(* Whatever the limit, the clock and the dumps, the tracer behaves as a    *)
(* store of access logs: every recorded call is one append, every file     *)
(* written moves one whole log to disk, nothing is logged while a dump has *)
(* files to write, and only a crash makes it forget, and then only what    *)
(* was not yet written.                                                    *)
(***************************************************************************)
THEOREM TracerStoresAccesses == ASSUME UserAddresses PROVE Spec => StoresAccesses
<1>1. CutInv /\ [Next]_vars => [Store!Step]_(Store!storeVars)
  BY StepImplements
<1>2. QED
  BY <1>1, StartsEmpty, CutInvariance, PTL DEF Spec, StoresAccesses, Store!Spec

-----------------------------------------------------------------------------
(***************************************************************************)
(* The memory estimate.                                                    *)
(***************************************************************************)
Live(keys, sets) == TraceSize + RecSize * Cardinality(keys) + EntrySize * Entries(sets)

MemInv == IInv /\ MemUsedExact

LEMMA EntriesCount ==
  /\ \A sets \in [Stream -> MemSet] : Entries(sets) \in Nat
  /\ Entries(NoSets) = 0
<1>1. IsFiniteSet(Stream)
  <2>1. IsFiniteSet({"r", "w"})
    <3>1. IsFiniteSet({"r"} \cup {"w"}) /\ {"r", "w"} = {"r"} \cup {"w"}
      BY FS_Singleton, FS_AddElement
    <3>2. QED
      BY <3>1
  <2>2. QED
    BY <2>1, FS_Product, TracerAssumption DEF Stream
<1>2. ASSUME NEW sets \in [Stream -> MemSet]
      PROVE  /\ Entries(sets) \in Nat
             /\ (\A s \in Stream : sets[s] = <<>>) => Entries(sets) = 0
  <2> DEFINE w == [s \in Stream |-> Len(sets[s])]
             Solves(g) == g = [T \in SUBSET Stream |->
                            IF T = {} THEN 0
                            ELSE Len(sets[AnyOf(T)]) + g[T \ {AnyOf(T)}]]
             iter == CHOOSE g : Solves(g)
  <2>1. w \in [Stream -> Nat] /\ \A s \in Stream : w[s] = Len(sets[s])
    BY DEF MemSet
  <2> HIDE DEF w
  <2>2. \A T \in SUBSET Stream : T # {} => w[AnyOf(T)] = Len(sets[AnyOf(T)])
    BY <2>1 DEF AnyOf
  <2>3. PICK g \in [SUBSET Stream -> Nat] : SumsUp(g, w, SUBSET Stream)
    BY <1>1, <2>1, SumExists
  <2>4. Solves(g)
    BY <2>2, <2>3 DEF SumsUp
  <2>5. Solves(iter)
    BY <2>4
  <2>6. Entries(sets) = iter[Stream]
    BY DEF Entries, MapThenSumSet, MapThenFoldSet, AnyOf
  <2> HIDE DEF iter
  <2>7. SumsUp(iter, w, SUBSET Stream)
    BY <2>2, <2>5 DEF SumsUp
  <2> HIDE DEF Solves
  <2>8. (\A s \in Stream : sets[s] = <<>>) => \A s \in Stream : w[s] = 0
    BY <2>1
  <2>9. QED
    BY <1>1, <2>1, <2>6, <2>7, <2>8, SumIsNatural
<1>3. Entries(NoSets) = 0
  BY <1>2, NoSetsAreGood
<1>4. QED
  BY <1>2, <1>3

LEMMA LiveFacts ==
  ASSUME IInv
  PROVE  /\ \A keys \in SUBSET Insts : IsFiniteSet(keys) /\ Cardinality(keys) \in Nat
         /\ Live({}, NoSets) = TraceSize
         /\ memSet \in [Stream -> MemSet] /\ insts \in SUBSET Insts
         /\ \A keys \in SUBSET Insts, sets \in [Stream -> MemSet] :
              Cleared(Live(keys, sets), keys, sets) = TraceSize
<1>1. \A keys \in SUBSET Insts : IsFiniteSet(keys) /\ Cardinality(keys) \in Nat
  BY TracerAssumption, FS_Subset, FS_CardinalityType
<1>2. TraceSize \in Int /\ RecSize \in Int /\ EntrySize \in Int
  BY TracerAssumption
<1>3. Live({}, NoSets) = TraceSize
  BY <1>2, FS_EmptySet, EntriesCount DEF Live
<1>4. ASSUME NEW keys \in SUBSET Insts, NEW sets \in [Stream -> MemSet]
      PROVE  Cleared(Live(keys, sets), keys, sets) = TraceSize
  <2> DEFINE c == RecSize * Cardinality(keys)
             d == EntrySize * Entries(sets)
  <2>1. c \in Int /\ d \in Int
    BY <1>1, <1>2, EntriesCount
  <2>2. Cleared(Live(keys, sets), keys, sets) = ((TraceSize + c + d) - c) - d
    BY DEF Cleared, Live
  <2> HIDE DEF c, d
  <2>3. QED
    BY <1>2, <2>1, <2>2
<1>5. QED
  BY <1>1, <1>3, <1>4 DEF IInv, TypeOK

LEMMA CallIsPaidFor ==
  ASSUME IInv, memUsed = Live(insts, memSet), NEW id \in Insts, NEW sets \in [Stream -> MemSet]
  PROVE  UsedAfter(id, sets) = Live(insts \cup {id}, sets)
<1> DEFINE n == Cardinality(insts)
           e == Entries(memSet)
           f == Entries(sets)
<1>1. n \in Nat /\ e \in Nat /\ f \in Nat
  BY LiveFacts, EntriesCount
<1>2. TraceSize \in Int /\ RecSize \in Int /\ EntrySize \in Int
  BY TracerAssumption
<1>3. Cardinality(insts \cup {id}) = n + (IF id \in insts THEN 0 ELSE 1)
  <2>1. IsFiniteSet(insts)
    BY LiveFacts
  <2>2. Cardinality(insts \cup {id}) = IF id \in insts THEN n ELSE n + 1
    BY <2>1, FS_AddElement
  <2> HIDE DEF n
  <2>3. QED
    BY <1>1, <2>2
<1>4. EntrySize * f = EntrySize * e + EntrySize * (f - e)
  BY <1>1, <1>2
<1>5. RecSize * (n + 1) = RecSize * n + RecSize /\ RecSize * (n + 0) = RecSize * n
  BY <1>1, <1>2
<1>6. UsedAfter(id, sets) = (TraceSize + RecSize * n + EntrySize * e)
                              + (IF id \in insts THEN 0 ELSE RecSize) + EntrySize * (f - e)
  BY DEF UsedAfter, Live
<1> DEFINE a == RecSize * n
           b == EntrySize * e
           c == EntrySize * (f - e)
<1>7. a \in Int /\ b \in Int /\ c \in Int
  BY <1>1, <1>2
<1>8. Live(insts \cup {id}, sets) = TraceSize + (a + (IF id \in insts THEN 0 ELSE RecSize)) + (b + c)
  <2>1. CASE id \in insts
    <3>1. Live(insts \cup {id}, sets) = TraceSize + RecSize * (n + 0) + EntrySize * f
      BY <1>3, <2>1 DEF Live
    <3>2. QED
      BY <1>2, <1>4, <1>5, <1>7, <2>1, <3>1
  <2>2. CASE id \notin insts
    <3>1. Live(insts \cup {id}, sets) = TraceSize + RecSize * (n + 1) + EntrySize * f
      BY <1>3, <2>2 DEF Live
    <3>2. QED
      BY <1>2, <1>4, <1>5, <1>7, <2>2, <3>1
  <2>3. QED
    BY <2>1, <2>2
<1> HIDE DEF a, b, c
<1>9. QED
  BY <1>2, <1>6, <1>7, <1>8 DEF a, b, c

LEMMA NextMem == MemInv /\ [Next]_vars => MemInv'
<1> DEFINE Alive == phase \in {"tracing", "dumping", "stopping"}
           Within == memUsed <= DumpTraceMemUsage \/ memUsed = TraceSize
<1>1. SUFFICES ASSUME MemInv, [Next]_vars PROVE MemUsedExact'
  BY NextIInv DEF MemInv
<1>2. IInv
  BY <1>1 DEF MemInv
<1>3. (Alive => memUsed = Live(insts, memSet)) /\ (phase = "tracing" => Within)
  BY <1>1 DEF MemInv, MemUsedExact, Live
<1>4. MemUsedExact' <=> /\ Alive' => memUsed' = Live(insts', memSet')
                        /\ phase' = "tracing" => Within'
  BY DEF MemUsedExact, Live
<1>5. CASE MemoryTraceInit
  BY <1>2, <1>4, <1>5, LiveFacts DEF MemoryTraceInit
<1>6. ASSUME NEW id \in Insts, NEW op \in Operands, CamMem(id, op) PROVE MemUsedExact'
  <2> DEFINE sets == Recorded(id, op)
             keys == insts \cup {id}
             used == UsedAfter(id, sets)
  <2>1. phase = "tracing" /\ memUsed = Live(insts, memSet) /\ Within
    BY <1>3, <1>6 DEF CamMem
  <2>2. CASE timedOut
    <3>1. insts' = insts /\ memSet' = memSet /\ memUsed' = memUsed
      BY <1>6, <2>2 DEF CamMem
    <3>2. QED
      BY <1>4, <2>1, <3>1
  <2>3. CASE ~ timedOut
    <3>1. RecordMemory(id, op)
      BY <1>6, <2>3 DEF CamMem
    <3>2. /\ insts' = keys /\ memSet' = sets /\ memUsed' = used
          /\ phase' = "tracing" => ~ (memUsed' > DumpTraceMemUsage)
      BY <1>2, <2>1, <3>1, RecordingGoesOn
    <3>3. sets \in [Stream -> MemSet] /\ keys \in SUBSET Insts
      BY <1>2, RecordedIsExact, LiveFacts
    <3>4. used = Live(keys, sets)
      BY <1>2, <2>1, <3>3, CallIsPaidFor
    <3>5. used \in Int /\ DumpTraceMemUsage \in Int
      BY <1>2, <3>3, <3>4, LiveFacts, EntriesCount, TracerAssumption DEF Live
    <3> HIDE DEF sets, keys, used
    <3>6. QED
      BY <1>4, <3>2, <3>4, <3>5
  <2>4. QED
    BY <2>2, <2>3
<1>7. CASE ForceMemTraceDump \/ MemoryTraceShutdown
  <2>1. /\ phase = "tracing" /\ phase' # "tracing"
        /\ insts' = insts /\ memSet' = memSet /\ memUsed' = memUsed
    BY <1>7 DEF ForceMemTraceDump, MemoryTraceShutdown, StartDump
  <2>2. QED
    BY <1>3, <1>4, <2>1
<1>8. ASSUME NEW s \in Stream, DumpFile(s) PROVE MemUsedExact'
  BY <1>3, <1>4, <1>8 DEF DumpFile
<1>9. CASE Clear
  <2>1. memUsed = Live(insts, memSet)
    BY <1>3, <1>9 DEF Clear
  <2>2. insts' = {} /\ memSet' = NoSets /\ memUsed' = Cleared(memUsed, insts, memSet)
    BY <1>9 DEF Clear
  <2>3. QED
    BY <1>2, <1>4, <2>1, <2>2, LiveFacts
<1>10. CASE DeleteTrace \/ Crash
  <2>1. phase' \in {"finished", "crashed"}
    BY <1>10 DEF DeleteTrace, Crash
  <2>2. QED
    BY <1>4, <2>1
<1>11. CASE ClockPassesTimeout \/ UNCHANGED vars
  BY <1>3, <1>4, <1>11 DEF ClockPassesTimeout, vars
<1>12. QED
  BY <1>1, <1>5, <1>6, <1>7, <1>8, <1>9, <1>10, <1>11 DEF Next

(***************************************************************************)
(* The allocator's estimate is what the live records and patterns take, to *)
(* the byte, through any calls and dumps, and after a call it is within    *)
(* the limit or back to the bare map.                                      *)
(***************************************************************************)
THEOREM MemUsedExactAlways == Spec => []MemUsedExact
<1>1. Init => MemInv
  BY InitIInv DEF Init, MemInv, MemUsedExact
<1>2. MemInv => MemUsedExact
  BY DEF MemInv
<1>3. QED
  BY <1>1, <1>2, NextMem, PTL DEF Spec
==============================================================================
