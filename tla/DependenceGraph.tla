--------------------------- MODULE DependenceGraph ---------------------------
(***************************************************************************)
(* From dependence pairs to the dynamic dependence graph: the file in      *)
(* which the analysis leaves the pairs (outputDependencePairs), its        *)
(* scanner and that of the compiler's static graph, and produceStatistics  *)
(* (main.cpp), which takes out of the static graph what the loop did not   *)
(* show when it ran.                                                       *)
(*                                                                         *)
(* A file is the sequence of its numbers; lines mean nothing to the        *)
(* scanners.  A mask is the set of its bits.                               *)
(***************************************************************************)
EXTENDS Naturals, SequencesExt, FiniteSetsExt

CONSTANTS
  InstrList, CallList, SubInstrList,  (* what the first pass over the traces found *)
  Instructions,                       (* all that the memory tracer may have seen  *)
  RwPairs, WwPairs,                   (* bound: the pairs that may be found        *)
  StaticGraphs                        (* bound: the static graphs                  *)

VARIABLES
  found,    \* rw and ww: the pairs that the analysis recorded
  static,   \* the static graph, which the compiler wrote
  stage,    \* which file is read, or "done"
  unread,   \* the numbers of that file that are not scanned yet
  dpl,      \* DependencePairsLex, and the pairs it has inserted
  sdl,      \* StaticDDGLex, and the dependences it has pushed
  output    \* what produceStatistics writes

graphVars == <<found, static, stage, unread, dpl, sdl, output>>

ReadWriteBits == {"MRAW", "MWAR", "RAW", "WAR"}
WriteBits == {"MWAW", "WAW"}

-----------------------------------------------------------------------------
(* The two files                                                           *)

\* The pairs of a set, in its order, behind their number.
WrittenPairs(pairs) ==
  <<Cardinality(pairs)>> \o FlattenSeq(SetToSortSeq(pairs,
     LAMBDA a, b : a[1] < b[1] \/ (a[1] = b[1] /\ a[2] < b[2])))

\* outputDependencePairs
PairsFile == WrittenPairs(found.rw) \o WrittenPairs(found.ww)

\* External: ID ID mask.
StaticFile == FlattenSeq(static)

-----------------------------------------------------------------------------
(* The scanner of pairs: 0 and 3 before a number of pairs, 1 and 4 before  *)
(* a first instruction, 2 and 5 before a second, 6 at the end.             *)

NewPairsLex == [state |-> 0, firstEntry |-> 0, numEntries |-> 0, rw |-> {}, ww |-> {}]

NumPairs(n) ==
  dpl' = [dpl EXCEPT !.numEntries = n, !.state = IF n > 0 THEN @ + 1 ELSE @ + 3]

\* readPair
FirstEntry(n) == dpl' = [dpl EXCEPT !.firstEntry = n, !.state = @ + 1]

SecondEntry(n) ==
  LET pair == <<dpl.firstEntry, n>>
  IN dpl' = [dpl EXCEPT !.rw = IF dpl.state = 2 THEN @ \cup {pair} ELSE @,
                        !.ww = IF dpl.state = 5 THEN @ \cup {pair} ELSE @,
                        !.numEntries = @ - 1,
                        !.state = IF dpl.numEntries = 1 THEN @ + 1 ELSE @ - 1]

\* A number behind the last pair is an error.
ScanPairs ==
  /\ stage = "pairs" /\ unread # <<>>
  /\ unread' = Tail(unread)
  /\ LET n == Head(unread)
     IN IF dpl.state = 6 THEN stage' = "aborted" /\ UNCHANGED dpl
        ELSE /\ \/ dpl.state \in {0, 3} /\ NumPairs(n)
                \/ dpl.state \in {1, 4} /\ FirstEntry(n)
                \/ dpl.state \in {2, 5} /\ SecondEntry(n)
             /\ UNCHANGED stage
  /\ UNCHANGED <<found, static, sdl, output>>

PairsEnd ==
  /\ stage = "pairs" /\ unread = <<>>
  /\ stage' = "static" /\ unread' = StaticFile
  /\ UNCHANGED <<found, static, dpl, sdl, output>>

-----------------------------------------------------------------------------
(* The scanner of the static graph                                         *)

NewDDGLex == [state |-> 0, first |-> 0, second |-> 0, ddg |-> <<>>]

ScanStatic ==
  /\ stage = "static" /\ unread # <<>>
  /\ unread' = Tail(unread)
  /\ LET n == Head(unread)
     IN sdl' = CASE sdl.state = 0 -> [sdl EXCEPT !.first = n, !.state = 1]
                 [] sdl.state = 1 -> [sdl EXCEPT !.second = n, !.state = 2]
                 [] sdl.state = 2 -> [sdl EXCEPT !.state = 0,
                                                !.ddg = Append(@, <<sdl.first, sdl.second, n>>)]
  /\ UNCHANGED <<found, static, stage, dpl, output>>

-----------------------------------------------------------------------------
(* produceStatistics                                                       *)

PairMatch(a0, a1, b0, b1) == (a0 = b0 /\ a1 = b1) \/ (a0 = b1 /\ a1 = b0)

\* Mutant: the pair is only looked for in the order of the static dependence.
ContainsPair_OneWay(pairs, a, b) == <<a, b>> \in pairs

ContainsPair(pairs, a, b) == \E p \in pairs : PairMatch(p[1], p[2], a, b)

InLoop(dep) == dep[1] \in InstrList /\ dep[2] \in InstrList

LocalStaticDDG == SelectSeq(sdl.ddg, InLoop)

Seen(dep, pairs, bits) == dep[3] \cap bits # {} /\ ContainsPair(pairs, dep[1], dep[2])

LocalDynamicDDG ==
  {dep \in Range(LocalStaticDDG) :
     Seen(dep, dpl.rw, ReadWriteBits) \/ Seen(dep, dpl.ww, WriteBits)}

\* filterMask
FilterMask(dep) ==
  dep[3] \ ((IF ContainsPair(dpl.rw, dep[1], dep[2]) THEN {} ELSE ReadWriteBits)
              \cup (IF ContainsPair(dpl.ww, dep[1], dep[2]) THEN {} ELSE WriteBits))

\* Dependences that leave the loop stay as they are.
DynamicDDG ==
  LET filtered == [i \in DOMAIN sdl.ddg |->
        IF InLoop(sdl.ddg[i]) THEN [sdl.ddg[i] EXCEPT ![3] = FilterMask(sdl.ddg[i])] ELSE sdl.ddg[i]]
  IN SelectSeq(filtered, LAMBDA dep : InLoop(dep) => dep[3] # {})

\* checkDynamicDDGIsSubset, which the statistics count.  Masks are not looked at:
\* a write-write pair between two instructions of which the static graph has
\* only a read-write dependence is neither reported nor counted.
Extra(pairs) ==
  {p \in pairs : \A dep \in Range(LocalStaticDDG) : ~ PairMatch(p[1], p[2], dep[1], dep[2])}

\* doInstrumentationConsistencyCheck
Comments(reads, writes) ==
  {c \in {"memtrace > loop/calltrace", "calltrace > looptrace", "calltrace > memtrace"} :
     CASE c = "memtrace > loop/calltrace" -> ~ reads \cup writes \subseteq InstrList \cup SubInstrList
       [] c = "calltrace > looptrace" -> ~ CallList \subseteq InstrList
       [] c = "calltrace > memtrace" -> ~ SubInstrList \subseteq reads \cup writes}

\* reads and writes: the instructions of which there are memory traces.
ProduceStatistics(reads, writes) ==
  /\ stage = "static" /\ unread = <<>>
  /\ stage' = "done"
  /\ output' = [dynamicDDG |-> DynamicDDG,
                subset     |-> LocalDynamicDDG,
                numStatic  |-> Len(LocalStaticDDG),
                numDynamic |-> Cardinality(LocalDynamicDDG) + Cardinality(Extra(dpl.rw))
                                 + Cardinality(Extra(dpl.ww)),
                numInstr   |-> [read |-> Cardinality(reads \ writes), write |-> Cardinality(writes \ reads),
                                both |-> Cardinality(reads \cap writes)],
                comments   |-> Comments(reads, writes)]
  /\ UNCHANGED <<found, static, unread, dpl, sdl>>

-----------------------------------------------------------------------------
Init ==
  /\ found \in [rw : SUBSET RwPairs, ww : SUBSET WwPairs]
  /\ static \in StaticGraphs
  /\ stage = "pairs" /\ unread = PairsFile
  /\ dpl = NewPairsLex /\ sdl = NewDDGLex
  /\ output = <<>>

Next ==
  \/ ScanPairs \/ PairsEnd \/ ScanStatic
  \/ \E reads, writes \in SUBSET Instructions : ProduceStatistics(reads, writes)

Spec == Init /\ [][Next]_graphVars

-----------------------------------------------------------------------------
\* A kind of bits is in a dependence of the dynamic graph exactly if it was
\* in the static one and, between instructions of the loop, the loop showed it.
Shows(kind) ==
  LET pairs == IF kind = ReadWriteBits THEN found.rw ELSE found.ww
      Shown(dep) == ~ InLoop(dep) \/ {<<dep[1], dep[2]>>, <<dep[2], dep[1]>>} \cap pairs # {}
      BitsOf(graph) == UNION {{<<dep[1], dep[2], bit>> : bit \in dep[3] \cap kind} : dep \in graph}
  IN BitsOf(Range(output.dynamicDDG))
       = BitsOf({dep \in {static[i] : i \in DOMAIN static} : Shown(dep)})

(***************************************************************************)
(* The pairs come back from their file, none missing and none of the other *)
(* kind, whatever their numbers; the dynamic graph has every dependence of *)
(* the loop that was seen, in either direction, drops no other kind of     *)
(* dependence with those that were not, and agrees with the subset that is *)
(* written beside it, which is found another way.                          *)
(***************************************************************************)
DynamicGraphExact ==
  /\ stage # "aborted"
  /\ stage \notin {"pairs", "aborted"} =>
       dpl.rw = found.rw /\ dpl.ww = found.ww /\ dpl.state = 6
  /\ stage = "done" =>
       LET rest(dep) == dep[3] \ (ReadWriteBits \cup WriteBits)
       IN /\ Shows(ReadWriteBits) /\ Shows(WriteBits)
          /\ \A i \in DOMAIN static : rest(static[i]) # {} =>
               \E dep \in Range(output.dynamicDDG) :
                 <<dep[1], dep[2], rest(dep)>> = <<static[i][1], static[i][2], rest(static[i])>>
          /\ {<<dep[1], dep[2]>> : dep \in output.subset}
               = {<<dep[1], dep[2]>> : dep \in {d \in Range(output.dynamicDDG) :
                    InLoop(d) /\ d[3] # rest(d)}}
=============================================================================
