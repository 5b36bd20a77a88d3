--------------------------- MODULE LoopTraceStreamer ---------------------------
(***************************************************************************)
(* The entries of the loop trace: the scanner of the file                  *)
(* (loop_trace_cfc_parser.lex) and the streamer that joins what dumps tore *)
(* apart (LoopTraceStreamer).                                              *)
(***************************************************************************)
EXTENDS LoopTracer

-----------------------------------------------------------------------------
(* RepetitionPattern: a sequence of ranges                                 *)

FirstInstance(r) == r[1][1]
LastInstance(r) == Last(r)[2]

IsSingleton(r) == Len(r) = 1 /\ FirstInstance(r) = LastInstance(r)

RemoveFirstInstance(r) ==
  IF r[1][1] = r[1][2] THEN Tail(r) ELSE [r EXCEPT ![1][1] = @ + 1]

RemoveLastInstance(r) ==
  IF Last(r)[1] = Last(r)[2] THEN Front(r) ELSE [r EXCEPT ![Len(r)][2] = @ - 1]

-----------------------------------------------------------------------------
(* The scanner, line by line.  Its state is 0 before the number of entries,*)
(* 2 before an entry and 6 behind it.  It aborts on anything else.         *)

Aborted == -1

Scan(s, line) ==
  CASE s.state = 0 /\ line.kind = "count" ->
         [s EXCEPT !.state = 2, !.remaining = line.n]
    [] s.state = 2 /\ line.kind = "entry" ->
         [s EXCEPT !.state = 6, !.remaining = @ - 1, !.entry = line]
    [] s.state = 6 /\ line.kind \in {"COMPLETE", "INCOMPLETE"} ->
         [s EXCEPT !.state = IF s.remaining > 0 THEN 2 ELSE 0,
                   !.entries = Append(@, [ranges |-> s.entry.ranges,
                                          body |-> s.entry.body,
                                          complete |-> line.kind = "COMPLETE"])]
    [] OTHER -> [s EXCEPT !.state = Aborted]

Unread == [state |-> 0, remaining |-> 0, entry |-> <<>>, entries |-> <<>>]

Scanned(file) ==
  LET s[n \in 0 .. Len(file)] == IF n = 0 THEN Unread ELSE Scan(s[n - 1], file[n])
  IN s[Len(file)]

-----------------------------------------------------------------------------
(* Joining the groups a and b of two consecutive dumps.  If the last thing *)
(* in a is the first in b, it was running when a was dumped, and its       *)
(* control flow in b is the rest of that in a.                             *)

LastGroup(a) ==
  CHOOSE i \in DOMAIN a : \A j \in DOMAIN a : LastInstance(a[j].ranges) <= LastInstance(a[i].ranges)

FirstGroup(b) ==
  CHOOSE i \in DOMAIN b : \A j \in DOMAIN b : FirstInstance(b[i].ranges) <= FirstInstance(b[j].ranges)

Overlap(a, b) ==
  /\ a # <<>> /\ b # <<>>
  /\ LastInstance(a[LastGroup(a)].ranges) = FirstInstance(b[FirstGroup(b)].ranges)

\* Mutant: the joined iteration stays with its group as well.
Continued_KeepsLast(a, i, cf) ==
  IF IsSingleton(a[i].ranges)
  THEN [a EXCEPT ![i].body = @ \o cf]
  ELSE LET n == LastInstance(a[i].ranges)
       IN Append(a, [ranges |-> <<<<n, n>>>>, body |-> a[i].body \o cf])

\* a with the control flow cf added to the last iteration of its group i.
Continued(a, i, cf) ==
  IF IsSingleton(a[i].ranges)
  THEN [a EXCEPT ![i].body = @ \o cf]
  ELSE LET n == LastInstance(a[i].ranges)
       IN Append([a EXCEPT ![i].ranges = RemoveLastInstance(@)],
                 [ranges |-> <<<<n, n>>>>, body |-> a[i].body \o cf])

\* b without the first iteration of its group i.
WithoutFirst(b, i) ==
  IF IsSingleton(b[i].ranges)
  THEN RemoveAt(b, i)
  ELSE [b EXCEPT ![i].ranges = RemoveFirstInstance(@)]

\* InvocationGroupCfc::mergeIterationInfo
MergeGroups(a, b) ==
  IF Overlap(a, b)
  THEN LET i == FirstGroup(b)
       IN Continued(a, LastGroup(a), b[i].body) \o WithoutFirst(b, i)
  ELSE a \o b

-----------------------------------------------------------------------------
(* getNextEntry, for the whole file: entries are joined as long as they    *)
(* are incomplete; here their bodies are kept as parts, to be joined from  *)
(* the first to the last by those who read them.  An entry that follows an *)
(* incomplete one must go on with the same invocation, or the analysis     *)
(* aborts; if none follows, it reads the first range of an entry that has  *)
(* none.                                                                   *)

GoesOn(e, f) ==
  LastInstance(e.ranges) = FirstInstance(f.ranges) /\ IsSingleton(e.ranges) /\ IsSingleton(f.ranges)

Merged(e, f) == [e EXCEPT !.parts = Append(@, f.body), !.complete = f.complete]

NextEntry(r, e) ==
  LET open == r.read # <<>> /\ ~ Last(r.read).complete
  IN CASE ~ open -> [r EXCEPT !.read = Append(@, [ranges |-> e.ranges, parts |-> <<e.body>>,
                                             complete |-> e.complete])]
       [] open /\ GoesOn(Last(r.read), e) ->
            [r EXCEPT !.read[Len(r.read)] = Merged(@, e)]
       [] OTHER -> [r EXCEPT !.status = "abort"]

Nothing == [status |-> "ok", read |-> <<>>]

Joined(entries) ==
  LET r[n \in 0 .. Len(entries)] ==
        IF n = 0 THEN Nothing ELSE NextEntry(r[n - 1], entries[n])
  IN r[Len(entries)]

ReadEntries(file) ==
  LET s == Scanned(file)
      r == Joined(s.entries)
  IN CASE s.state = Aborted -> [status |-> "abort", read |-> <<>>]
       [] s.state # Aborted /\ r.status = "ok" /\ r.read # <<>> /\ ~ Last(r.read).complete ->
            [status |-> "undefined", read |-> <<>>]
       [] OTHER -> r

ReadLoop(file) ==
  LET r == ReadEntries(file)
  IN [r EXCEPT !.read = [j \in DOMAIN @ |->
        [ranges |-> @[j].ranges, body |-> FoldLeft(MergeGroups, <<>>, @[j].parts)]]]

-----------------------------------------------------------------------------
(* Properties                                                              *)

LoopTraceRead == ReadEntries(globals.loopFile).status = "ok"

(***************************************************************************)
(* A loop trace that was closed can be read to its end: every marker       *)
(* follows an entry, and every incomplete entry is followed by the rest of *)
(* its invocation, wherever dumps cut the invocations.                     *)
(***************************************************************************)
Readable == closed /\ ~ idleDump /\ ~ globals.timedOut => LoopTraceRead

(***************************************************************************)
(* The same with dumps between invocations: "Force the trace to write to   *)
(* disc and clear memory" (cam.h:86) is all a forced dump says it does.    *)
(***************************************************************************)
ReadableAfterIdleDump == closed /\ ~ globals.timedOut => LoopTraceRead

=============================================================================
