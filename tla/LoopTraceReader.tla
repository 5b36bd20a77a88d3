--------------------------- MODULE LoopTraceReader ---------------------------
(***************************************************************************)
(* How the analysis reads the loop trace: the record of an invocation made *)
(* of the entries of the streamer, which answers in which iteration an     *)
(* instance of an instruction was executed (StaticLoopRec.cpp).            *)
(***************************************************************************)
EXTENDS LoopTraceStreamer

-----------------------------------------------------------------------------
(* The record of an invocation: a look-up table of its iterations, and one *)
(* for each instruction that tells the iterations of its instances.        *)

\* RepetitionPatternLookup::buildLut
Lut(groups) ==
  SetToSortSeq(
    UNION {{[first |-> r[1], last |-> r[2], group |-> i] : r \in ToSet(groups[i].ranges)} :
             i \in DOMAIN groups},
    LAMBDA a, b : a.first < b.first \/ (a.first = b.first /\ a.last < b.last))

\* RepetitionPatternLookup::begin, next and end: an iterator is an entry of
\* the table and a number of its range; the one after the last entry has 0.
LutEnd(lut) == [entry |-> Len(lut) + 1, number |-> 0]

LutEntry(lut, j) ==
  IF j > Len(lut) THEN LutEnd(lut) ELSE [entry |-> j, number |-> lut[j].first]

LutNext(lut, it) ==
  IF it.number = lut[it.entry].last THEN LutEntry(lut, it.entry + 1)
                                    ELSE [it EXCEPT !.number = @ + 1]

\* getDataFromII
LutGroup(lut, it) == lut[it.entry].group

\* The iterators that begin and next give, until they give end.
RECURSIVE LutWalkFrom(_, _)
LutWalkFrom(lut, it) ==
  IF it = LutEnd(lut) THEN <<>> ELSE <<it>> \o LutWalkFrom(lut, LutNext(lut, it))

LutWalk(lut) == LutWalkFrom(lut, LutEntry(lut, 1))

\* numInstancesLut of a group: how often its control flow holds instruction i.
NumInstances(group, i) == Cardinality({k \in DOMAIN group.body : group.body[k] = i})

\* Mutant: iterations in which the instruction is not executed are not noticed.
AddIterations_IgnoresGaps(lut, e, perIteration) ==
  LET instances == perIteration * (e.last - e.first + 1)
      prev == Last(lut)
      from == IF lut = <<>> THEN 0 ELSE prev.to + 1
  IN IF lut # <<>> /\ prev.perIteration = perIteration
     THEN [lut EXCEPT ![Len(lut)].to = @ + instances]
     ELSE Append(lut, [from |-> from, to |-> from + instances - 1,
                       iteration |-> e.first, perIteration |-> perIteration])

\* buildInstructionInstanceLut, for instruction i: instances from .. to are
\* those of iterations from iteration on, perIteration in each of them.
AddIterations(lut, e, perIteration) ==
  LET instances == perIteration * (e.last - e.first + 1)
      prev == Last(lut)
      from == IF lut = <<>> THEN 0 ELSE prev.to + 1
  IN IF /\ lut # <<>>
        /\ prev.perIteration = perIteration
        /\ e.first = prev.iteration + (prev.to - prev.from + 1) \div prev.perIteration
     THEN [lut EXCEPT ![Len(lut)].to = @ + instances]
     ELSE Append(lut, [from |-> from, to |-> from + instances - 1,
                       iteration |-> e.first, perIteration |-> perIteration])

InstanceLut(groups, i) ==
  FoldLeft(LAMBDA lut, e :
             LET n == NumInstances(groups[e.group], i)
             IN IF n > 0 THEN AddIterations(lut, e, n) ELSE lut,
           <<>>, Lut(groups))

\* getIterationNumber
IterationNumber(lut, instance) ==
  LET e == lut[Min({j \in DOMAIN lut : lut[j].to >= instance})]
  IN e.iteration + (instance - e.from) \div e.perIteration

-----------------------------------------------------------------------------
(* StreamParseLoopRec: the walk over the invocations.  Entries are parsed  *)
(* when an invocation is not among those parsed before, and those passed   *)
(* are erased, which nobody notices: they hold no later invocation.        *)

\* RepetitionPatternSortedLookup: the ranges of the entries parsed so far,
\* and the entry whose range holds n, or 0 when there is none.
SortedLut(read, parsed) ==
  UNION {{[first |-> r[1], last |-> r[2], entry |-> j] : r \in ToSet(read[j].ranges)} :
           j \in 1 .. parsed}

LookupSorted(lut, n) ==
  LET after == {r \in lut : r.last >= n}
      found == CHOOSE r \in after : \A q \in after : r.last <= q.last
  IN IF after # {} /\ found.first <= n THEN found.entry ELSE 0

\* findLoopTraceEntry: the next entry is parsed without a look at its ranges.
FindEntry(read, parsed, n) ==
  LET known == LookupSorted(SortedLut(read, parsed), n)
  IN CASE known # 0 -> known
       [] known = 0 /\ parsed < Len(read) -> parsed + 1
       [] OTHER -> 0

RECURSIVE WalkFrom(_, _, _)
WalkFrom(read, parsed, n) ==
  LET j == FindEntry(read, parsed, n)
  IN IF j = 0 THEN <<>> ELSE <<j>> \o WalkFrom(read, Max({parsed, j}), n + 1)

\* The entries for invocations 0, 1, ...: ii_begin, ii_next.
Walk(read) == WalkFrom(read, 0, 0)

\* parseForInstructionList: the number of invocations found by the first pass.
NumInvocations(file) ==
  1 + Max({0} \cup UNION {UNION {{r[1], r[2]} : r \in ToSet(e.ranges)} :
                            e \in ToSet(Scanned(file).entries)})

-----------------------------------------------------------------------------
(* Properties                                                              *)

Occurrences(s, i) == Cardinality({k \in DOMAIN s : s[k] = i})

\* The iterations, from 0, of the executions of i, in their order.
Executions(iterations, i) ==
  FlattenSeq([k \in DOMAIN iterations |->
                [j \in 1 .. Occurrences(iterations[k], i) |-> k - 1]])

(***************************************************************************)
(* Unless it aborts, the analysis finds every invocation of the loop, with *)
(* all of its iterations in order, and counts in each iteration how often  *)
(* it executed each instruction, wherever dumps cut invocations and        *)
(* iterations, and whatever shared a group.                                *)
(***************************************************************************)
LoopReadsBack ==
  LET r == ReadLoop(globals.loopFile)
      walk == Walk(r.read)
      readsBack(groups, iterations) ==
        LET lut == Lut(groups)
            met == LutWalk(lut)
        IN /\ Len(met) = Len(iterations)
           /\ \A k \in DOMAIN met :
                /\ met[k].number = k - 1
                /\ \A i \in Instrs \cup Calls :
                     NumInstances(groups[LutGroup(lut, met[k])], i) = Occurrences(iterations[k], i)
  IN closed /\ r.status = "ok" =>
       /\ Len(walk) = Len(history)
       /\ NumInvocations(globals.loopFile) = Len(history)
       /\ \A n \in DOMAIN history : readsBack(r.read[walk[n]].body, history[n].iterations)

(***************************************************************************)
(* The analysis asks in which iteration an instance of an instruction was  *)
(* executed; the table that joins iterations with equal numbers of         *)
(* instances, over gaps and different groups, gives the right one.         *)
(***************************************************************************)
InstancesFindTheirIteration ==
  LET r == ReadLoop(globals.loopFile)
      walk == Walk(r.read)
  IN closed /\ r.status = "ok" =>
       \A n \in DOMAIN history, i \in Instrs \cup Calls :
         LET executions == Executions(history[n].iterations, i)
             lut == InstanceLut(r.read[walk[n]].body, i)
         IN \A k \in DOMAIN executions : IterationNumber(lut, k - 1) = executions[k]

=============================================================================
