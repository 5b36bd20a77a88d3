----------------------------- MODULE TraceFormat -----------------------------
(***************************************************************************)
(* The written form of the two traces of the loop tracer (writeTraces in   *)
(* loop_trace.cpp) and the two scanners that read it, token by token, in   *)
(* the two passes of the analysis (loop_trace_cfc_parser.lex,              *)
(* call_trace_cfc_parser.lex).  What a number means is not written: it is  *)
(* told from the counts before it alone.                                   *)
(*                                                                         *)
(* A dump is a sequence of entries and the mark behind the last.  An entry *)
(* has the ranges of its invocations and its calls; that of a loop has one *)
(* call of no name, whose groups are those of the iterations.  Patterns in *)
(* the control flow, and their brackets, are CfcReader's; here a control   *)
(* flow is a sequence of instructions.  Characters that the scanners pass  *)
(* over ("{", space) are left out.                                         *)
(***************************************************************************)
EXTENDS Naturals, Sequences, SequencesExt, FiniteSetsExt

CONSTANTS
  LoopFiles, CallFiles   (* bound: the sequences of dumps that are written *)

VARIABLES
  file,         \* the trace that is read: "loop" or "call"
  dumps,        \* what was dumped into it
  unread,       \* its tokens that are not scanned yet
  pass,         \* 1: for lists of instructions and calls; 2: for entries
  scanner,      \* LoopTraceCfcLex, CallTraceCfcLex
  entry,        \* loopEntry, callEntry: the entry that is filled
  entriesRead,  \* the entries that the second pass returned
  lists         \* what the first pass collects

formatVars == <<file, dumps, unread, pass, scanner, entry, entriesRead, lists>>

Number(n) == [kind |-> "number", n |-> n]
Mark(c) == [kind |-> c, n |-> 0]

-----------------------------------------------------------------------------
(* Writing                                                                 *)

\* writeRangeToCompressedFile: a range of one is written as one number.
Ranges(ranges) ==
  LET Range1(r) == IF r[1] = r[2] THEN <<Number(r[1])>>
                   ELSE <<Number(r[1]), Mark("dash"), Number(r[2])>>
  IN FlattenSeq([i \in DOMAIN ranges |->
       (IF i = 1 THEN <<>> ELSE <<Mark("comma")>>) \o Range1(ranges[i])]) \o <<Mark("closebrace")>>

Cfc(cfc) == [i \in DOMAIN cfc |-> Number(cfc[i])]

\* The groups of a loop's entry, and of a call.
WrittenGroups(groups) ==
  FlattenSeq([i \in DOMAIN groups |->
    Ranges(groups[i].ranges) \o Cfc(groups[i].cfc) \o <<Mark("newline")>>])

\* ExecTrace::writeTraceToFile, of a call.
WrittenCall(c) ==
  IF c.groups = <<>> THEN <<>>
  ELSE <<Number(c.id), Number(Len(c.groups)), Mark("newline")>>
         \o WrittenGroups(c.groups) \o <<Mark("newline")>>

\* Mutant: calls are counted that have nothing to write.
NumTraces_All(e) == Len(e.calls)

NumTraces(e) == Cardinality({i \in DOMAIN e.calls : e.calls[i].groups # <<>>})

\* LoopTrace::writeInvocationToFile, PassGlobals::writeTraces.
WrittenEntry(f, e) ==
  IF f = "loop"
  THEN Ranges(e.ranges) \o <<Number(Len(e.calls[1].groups)), Mark("newline")>>
         \o WrittenGroups(e.calls[1].groups)
  ELSE Ranges(e.ranges) \o <<Number(NumTraces(e)), Mark("newline")>>
         \o FlattenSeq([i \in DOMAIN e.calls |-> WrittenCall(e.calls[i])])

WrittenMark(m) == <<Mark("newline"), Mark(m), Mark("newline")>>

IsLast(d, i) == i = Len(d.entries)
MarkOf(d, i) == IF IsLast(d, i) /\ ~ d.complete THEN "INCOMPLETE" ELSE "COMPLETE"

\* A loop's identifier is written, and never used: here it is 9.
WrittenDump(f, d) ==
  (IF f = "loop" THEN <<Number(9)>> ELSE <<>>) \o <<Number(Len(d.entries)), Mark("newline")>>
    \o FlattenSeq([i \in DOMAIN d.entries |->
         WrittenEntry(f, d.entries[i]) \o WrittenMark(MarkOf(d, i))])

Tokens(f, ds) == FlattenSeq([i \in DOMAIN ds |-> WrittenDump(f, ds[i])])

-----------------------------------------------------------------------------
(* Scanning                                                                *)

Start(f) == IF f = "loop" THEN "LOOP_ID" ELSE "NUM_INVOC"

NewScanner(f) ==
  [state |-> Start(f), reppatState |-> 0, invocNum |-> 0,
   invocs |-> 0, calls |-> 0, groups |-> 0, currCallID |-> 0]

NewEntry == [ranges |-> <<>>, groups |-> <<>>]

Init ==
  /\ \/ file = "loop" /\ dumps \in LoopFiles
     \/ file = "call" /\ dumps \in CallFiles
  /\ unread = Tokens(file, dumps)
  /\ pass = 1
  /\ scanner = NewScanner(file)
  /\ entry = NewEntry
  /\ entriesRead = <<>>
  /\ lists = [instructions |-> {}, calls |-> {}, numInvoc |-> 0]

Take(kind) ==
  /\ unread # <<>>
  /\ unread[1].kind = kind
  /\ unread' = Tail(unread)
  /\ UNCHANGED <<file, dumps, pass>>

InPattern == scanner.state \in {"INVOC_PATTERN", "INSTANCE_PATTERN"}

AfterPattern(state) ==
  CASE state = "INVOC_PATTERN" /\ file = "loop" -> "NUM_INSTANCES"
    [] state = "INVOC_PATTERN" /\ file = "call" -> "NUM_CALLS"
    [] state = "INSTANCE_PATTERN" -> "CFC"

\* addInvocationPattern, addIterationPattern and addCallPattern.
WithRange(e, from, to) ==
  IF scanner.state = "INVOC_PATTERN"
  THEN [e EXCEPT !.ranges = Append(@, <<from, to>>)]
  ELSE [e EXCEPT !.groups[Len(e.groups)].ranges = Append(@, <<from, to>>)]

\* addIterationGroup, addCallInstance; in the second pass only.
WithGroup(e, id) ==
  IF pass = 1 THEN e
  ELSE [e EXCEPT !.groups = Append(@, [id |-> id, ranges |-> <<>>, cfc |-> <<>>])]

Aborted == [scanner EXCEPT !.state = "aborted"]

\* An entry has no more groups, or a call has none: the mark comes next.
EntryEnds(s) == [s EXCEPT !.invocs = @ - 1, !.state = "DUMPEND"]

\* The number of invocation entries.  A call trace is not asked whether it is 0.
NumInvoc(n) ==
  /\ scanner' = IF file = "loop" /\ n = 0
                THEN [scanner EXCEPT !.invocs = n, !.state = Start(file)]
                ELSE [scanner EXCEPT !.invocs = n, !.state = "INVOC_PATTERN"]
  /\ UNCHANGED <<entry, lists>>

\* readRepetitionPattern, NUMBER_TOKEN
PatternNumber(n) ==
  \/ /\ pass = 1
     /\ lists' = IF file = "loop" /\ scanner.state = "INVOC_PATTERN"
                 THEN [lists EXCEPT !.numInvoc = Max({@, n})] ELSE lists
     /\ UNCHANGED <<scanner, entry>>
  \/ /\ pass = 2 /\ scanner.reppatState = 0
     /\ scanner' = [scanner EXCEPT !.invocNum = n, !.reppatState = 1]
     /\ UNCHANGED <<entry, lists>>
  \/ /\ pass = 2 /\ scanner.reppatState = 2
     /\ entry' = WithRange(entry, scanner.invocNum, n)
     /\ scanner' = [scanner EXCEPT !.reppatState = 0]
     /\ UNCHANGED lists

NumCalls(n) ==
  /\ scanner' = IF n > 0 THEN [scanner EXCEPT !.calls = n, !.state = "CALLID"]
                ELSE EntryEnds([scanner EXCEPT !.calls = n])
  /\ UNCHANGED <<entry, lists>>

CallID(n) ==
  /\ scanner' = [scanner EXCEPT !.currCallID = n, !.state = "NUM_INSTANCES"]
  /\ lists' = IF pass = 1 THEN [lists EXCEPT !.calls = @ \cup {n}] ELSE lists
  /\ UNCHANGED entry

NumInstances(n) ==
  /\ IF n > 0
     THEN /\ scanner' = [scanner EXCEPT !.groups = n, !.reppatState = 0,
                                        !.state = "INSTANCE_PATTERN"]
          /\ entry' = WithGroup(entry, scanner.currCallID)
     ELSE /\ scanner' = EntryEnds([scanner EXCEPT !.groups = n])
          /\ UNCHANGED entry
  /\ UNCHANGED lists

\* readCfc
CfcNumber(n) ==
  /\ entry' = IF pass = 1 THEN entry
              ELSE [entry EXCEPT !.groups[Len(entry.groups)].cfc = Append(@, n)]
  /\ lists' = IF pass = 1 THEN [lists EXCEPT !.instructions = @ \cup {n}] ELSE lists
  /\ UNCHANGED scanner

ScanNumber ==
  /\ Take("number")
  /\ UNCHANGED entriesRead
  /\ LET n == unread[1].n
         state == scanner.state
     IN IF state = "DUMPEND" THEN scanner' = Aborted /\ UNCHANGED <<entry, lists>>
        ELSE \/ /\ state = "LOOP_ID"
                /\ scanner' = [scanner EXCEPT !.state = "NUM_INVOC"]
                /\ UNCHANGED <<entry, lists>>
             \/ state = "NUM_INVOC" /\ NumInvoc(n)
             \/ InPattern /\ PatternNumber(n)
             \/ state = "NUM_CALLS" /\ NumCalls(n)
             \/ state = "CALLID" /\ CallID(n)
             \/ state = "NUM_INSTANCES" /\ NumInstances(n)
             \/ state = "CFC" /\ CfcNumber(n)

ScanDash ==
  /\ Take("dash")
  /\ scanner' = IF InPattern /\ pass = 2 THEN [scanner EXCEPT !.reppatState = @ + 1] ELSE scanner
  /\ UNCHANGED <<entry, entriesRead, lists>>

\* A comma or a closing brace ends a range, of one number unless it had a dash.
RangeEnds ==
  /\ pass = 2
  /\ entry' = IF scanner.reppatState = 1
              THEN WithRange(entry, scanner.invocNum, scanner.invocNum) ELSE entry

ScanComma ==
  /\ Take("comma")
  /\ IF InPattern /\ pass = 2
     THEN RangeEnds /\ scanner' = [scanner EXCEPT !.reppatState = 0]
     ELSE UNCHANGED <<scanner, entry>>
  /\ UNCHANGED <<entriesRead, lists>>

ScanCloseBrace ==
  /\ Take("closebrace")
  /\ scanner' = IF InPattern
                THEN [scanner EXCEPT !.reppatState = 0, !.state = AfterPattern(scanner.state)]
                ELSE scanner
  /\ IF InPattern /\ pass = 2 THEN RangeEnds ELSE UNCHANGED entry
  /\ UNCHANGED <<entriesRead, lists>>

\* A control flow, which may be empty, ends with its line.
ScanNewline ==
  /\ Take("newline")
  /\ LET rest == [scanner EXCEPT !.groups = @ - 1]
     IN \/ scanner.state # "CFC" /\ UNCHANGED <<scanner, entry>>
        \/ /\ scanner.state = "CFC" /\ rest.groups > 0
           /\ scanner' = [rest EXCEPT !.state = "INSTANCE_PATTERN"]
           /\ entry' = WithGroup(entry, scanner.currCallID)
        \/ /\ scanner.state = "CFC" /\ rest.groups = 0
           /\ scanner' = IF file = "call" /\ scanner.calls > 1
                         THEN [rest EXCEPT !.calls = @ - 1, !.state = "CALLID"]
                         ELSE EntryEnds([rest EXCEPT !.calls = IF file = "call" THEN 0 ELSE @])
           /\ UNCHANGED entry
  /\ UNCHANGED <<entriesRead, lists>>

\* The scanner returns; the streamer hands the entry out and brings a new one.
ScanMark(m) ==
  /\ Take(m)
  /\ IF scanner.state = "DUMPEND"
     THEN /\ scanner' = [scanner EXCEPT !.state = IF scanner.invocs > 0 THEN "INVOC_PATTERN"
                                                  ELSE Start(file)]
          /\ entriesRead' = IF pass = 1 THEN entriesRead
                            ELSE Append(entriesRead, [ranges |-> entry.ranges, groups |-> entry.groups,
                                                      complete |-> m = "COMPLETE"])
          /\ entry' = NewEntry
     ELSE scanner' = Aborted /\ UNCHANGED <<entry, entriesRead>>
  /\ UNCHANGED lists

\* parseForInstructionList(s) is done; the analysis opens the file again.
SecondPass ==
  /\ unread = <<>> /\ pass = 1
  /\ pass' = 2
  /\ unread' = Tokens(file, dumps)
  /\ scanner' = NewScanner(file)
  /\ UNCHANGED <<file, dumps, entry, entriesRead, lists>>

Next ==
  /\ scanner.state # "aborted"
  /\ \/ ScanNumber \/ ScanDash \/ ScanComma \/ ScanCloseBrace \/ ScanNewline
     \/ \E m \in {"COMPLETE", "INCOMPLETE"} : ScanMark(m)
     \/ SecondPass

Spec == Init /\ [][Next]_formatVars

-----------------------------------------------------------------------------
\* What was dumped, as the second pass ought to return it.
Groups(c) ==
  [i \in DOMAIN c.groups |-> [id |-> c.id, ranges |-> c.groups[i].ranges, cfc |-> c.groups[i].cfc]]

Dumped ==
  FlattenSeq([k \in DOMAIN dumps |-> [i \in DOMAIN dumps[k].entries |->
    LET e == dumps[k].entries[i]
    IN [ranges |-> e.ranges,
        groups |-> FlattenSeq([j \in DOMAIN e.calls |-> Groups(e.calls[j])]),
        complete |-> MarkOf(dumps[k], i) = "COMPLETE"]]])

AllGroups == UNION {Range(e.groups) : e \in Range(Dumped)}

(***************************************************************************)
(* Whatever was dumped, and however it falls into dumps, neither scanner   *)
(* takes a number for another, aborts or stops short: the first pass has   *)
(* collected the instructions, the calls and the last invocation's number, *)
(* and the second returns the entries one by one, as they were dumped and  *)
(* marked.                                                                 *)
(***************************************************************************)
FormatReadsBack ==
  /\ scanner.state # "aborted"
  /\ IsPrefix(entriesRead, Dumped)
  /\ unread = <<>> =>
       /\ scanner.state = Start(file)
       /\ lists.instructions = UNION {Range(g.cfc) : g \in AllGroups}
       /\ lists.calls = IF file = "call" THEN {g.id : g \in AllGroups} ELSE {}
       /\ lists.numInvoc = IF file = "call" THEN 0
                           ELSE Max({Last(e.ranges)[2] : e \in Range(Dumped)})
       /\ pass = 2 => entriesRead = Dumped
=============================================================================
