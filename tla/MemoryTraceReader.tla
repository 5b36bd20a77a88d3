--------------------------- MODULE MemoryTraceReader ---------------------------
(***************************************************************************)
(* The analysis' reader of one memory trace file (MemoryTraceStreamer,     *)
(* memory_trace_parser.lex and the block buffer of BZ2ParserState).  The   *)
(* analysis asks for an instruction's accesses invocation by invocation,   *)
(* n at a time; the reader decompresses and scans block by block, stops    *)
(* scanning as soon as it has enough, and keeps what it scanned too much   *)
(* for the next request.                                                   *)
(*                                                                         *)
(* A file is a sequence of compressed streams, one for each dump of the    *)
(* tracer; a stream is a sequence of tokens: numbers, except that the four *)
(* numbers of a pattern, which only together change the scanner's result,  *)
(* are one token.                                                          *)
(***************************************************************************)
EXTENDS MemSets, FiniteSets, FiniteSetsExt, SequencesExt

CONSTANTS
  Runs,        (* the accesses of each dump of a stream, for each log that *)
               (* may be read                                              *)
  ChunkSizes,  (* the numbers of instances the analysis may ask for        *)
  MaxChunks    (* bound: requests made of one file                         *)

ASSUME ReaderAssumption ==
  /\ Runs \subseteq Seq(Seq(Access) \ {<<>>}) \ {<<>>}
  /\ ChunkSizes \subseteq Nat
  /\ MaxChunks \in Nat

(***************************************************************************)
(* The first address of a dump is written unsigned and read by strtol,     *)
(* which keeps it when it is one of the lower half, as a program's are.    *)
(***************************************************************************)
UserAddresses ==
  \A rs \in Runs : \A i \in 1 .. Len(rs) : rs[i][1].addr < H

VARIABLES
  runs,       \* history: the accesses of each dump the file was made of
  file,       \* the file: the tokens of each of its streams
  stream,     \* BZ2ParserState: the number of streams opened,
  bzf,        \* whether the last of them is still open (bzf # NULL),
  pos,        \* the tokens of it that were scanned,
  blockEnd,   \* those that were decompressed into buf,
  activeParser,  \* and whether the scanner stopped before their end
  mtl,        \* MemoryTraceLex
  status,     \* FALSE once parseBlock has returned 0
  chunk,      \* the local chunk of getNextChunk, while it runs
  remainder,  \* MemoryTraceStreamer::remainder
  parsing,    \* getNextChunk is running
  delivered   \* history: the chunks returned

vars == <<runs, file, stream, bzf, pos, blockEnd, activeParser, mtl, status,
          chunk, remainder, parsing, delivered>>

-----------------------------------------------------------------------------
(* The file that the tracer writes.                                        *)

RecordAll(accesses) ==
  LET set[n \in 0 .. Len(accesses)] ==
        IF n = 0 THEN <<>> ELSE RecordMemoryReference(set[n - 1], accesses[n])
  IN set[Len(accesses)]

Tokens(kind, items) == [i \in 1 .. Len(items) |-> [kind |-> kind, is |-> items[i]]]

Number(n) == Tokens("number", <<n>>)

(***************************************************************************)
(* A stream starts with the instruction's identifier (0 here) and has both *)
(* of its sets, the one that the file is not for empty.                    *)
(***************************************************************************)
StreamOf(dumped, w) ==
  LET patterns == Number(Len(dumped)) \o Tokens("pattern", dumped)
  IN Number(0) \o IF w THEN Number(0) \o patterns ELSE patterns \o Number(0)

FileOf(rs, w) == [i \in 1 .. Len(rs) |-> StreamOf(DumpSet(RecordAll(rs[i])), w)]

-----------------------------------------------------------------------------
(* The scanner.                                                            *)

LexInit ==
  [state |-> 0, remainingGroups |-> 0, lastAccess |-> 0,
   numInstancesRequired |-> 0, startInstance |-> 0, nextExpectedInstance |-> 0]

(***************************************************************************)
(* addNumRepsToSet: the instances are numbered on from those of earlier    *)
(* streams, and a trivial pattern of two is entered as two entries.        *)
(***************************************************************************)
AddNumRepsToSet(lex, set, base, p) ==
  LET e == [base |-> base, stride |-> p.stride, length |-> p.length,
            start |-> lex.nextExpectedInstance,
            end |-> lex.nextExpectedInstance + p.reps - 1]
  IN IF IsTrivialPattern(e)
       THEN set \o <<SplitTrivial(e).kept, SplitTrivial(e).off>>
       ELSE Append(set, e)

\* Mutant: the base of the stream before is not forgotten.
LexNumber_KeepsLastAccess(s, n) ==
  LET next == CASE s.lex.state = 0 -> 1
                [] s.lex.state = 1 -> IF n > 0 THEN 2 ELSE 3
                [] s.lex.state = 3 -> IF n > 0 THEN 4 ELSE 0
  IN [s EXCEPT !.lex.state = next,
               !.lex.remainingGroups = IF s.lex.state = 0 THEN @ ELSE n]

(***************************************************************************)
(* One token.  States 1 and 3 read how many patterns the read set and the  *)
(* write set have, states 2 and 4 the patterns.                            *)
(***************************************************************************)
LexNumber(s, n) ==
  LET next == CASE s.lex.state = 0 -> 1
                [] s.lex.state = 1 -> IF n > 0 THEN 2 ELSE 3
                [] s.lex.state = 3 -> IF n > 0 THEN 4 ELSE 0
  IN [s EXCEPT !.lex.state = next,
               !.lex.lastAccess = IF s.lex.state = 0 THEN 0 ELSE @,
               !.lex.remainingGroups = IF s.lex.state = 0 THEN @ ELSE n]

ReadMemSetEntry(s, p) ==
  LET base == AbsoluteBase(s.lex.lastAccess, p.base)
      left == s.lex.remainingGroups - 1
  IN [lex |-> [s.lex EXCEPT !.lastAccess = base,
                            !.nextExpectedInstance = @ + p.reps,
                            !.remainingGroups = left,
                            !.state = IF left = 0 THEN (@ + 1) % 5 ELSE @],
      set |-> AddNumRepsToSet(s.lex, s.set, base, p)]

Lex(s, token) ==
  IF s.lex.state \in {2, 4} THEN ReadMemSetEntry(s, token.is) ELSE LexNumber(s, token.is)

\* Mutant: one instance more is needed.
Enough_OneMore(s) ==
  /\ s.set # <<>>
  /\ Last(s.set).end - s.lex.startInstance + 1 > s.lex.numInstancesRequired

(***************************************************************************)
(* The scanner returns early once the set reaches the last instance that   *)
(* the request needs.                                                      *)
(***************************************************************************)
Enough(s) ==
  /\ s.set # <<>>
  /\ Last(s.set).end - s.lex.startInstance + 1 >= s.lex.numInstancesRequired

(***************************************************************************)
(* The scanner's result after each number of tokens, and where it stops:   *)
(* the end of the block, or the first pattern that makes enough.           *)
(***************************************************************************)
Scanned(tokens, from, to) ==
  LET after[k \in from .. to] ==
        IF k = from THEN [lex |-> mtl, set |-> chunk] ELSE Lex(after[k - 1], tokens[k])
  IN after

EarlyReturns(tokens, from, to) ==
  {k \in from + 1 .. to : tokens[k].kind = "pattern" /\ Enough(Scanned(tokens, from, to)[k])}

(***************************************************************************)
(* doLexing, on the tokens of file[str] up to `to'.  parseBlock returns 0  *)
(* when the block was the last of the file.                                *)
(***************************************************************************)
DoLexing(str, from, to, open) ==
  LET early == EarlyReturns(file[str], from, to)
      stop  == IF early = {} THEN to ELSE Min(early)
      s     == Scanned(file[str], from, to)[stop]
  IN /\ pos' = stop
     /\ mtl' = s.lex
     /\ chunk' = s.set
     /\ activeParser' = (early # {})
     /\ status' = ~ (early = {} /\ str = Len(file) /\ ~open)

-----------------------------------------------------------------------------
(* The streamer.                                                           *)

NumBuffered(set) == IF set = <<>> THEN 0 ELSE Last(set).end - set[1].start + 1

Init ==
  /\ runs \in Runs
  /\ \E w \in BOOLEAN : file = FileOf(runs, w)
  /\ stream = 0
  /\ bzf = FALSE
  /\ pos = 0
  /\ blockEnd = 0
  /\ activeParser = FALSE
  /\ mtl = LexInit
  /\ status = TRUE
  /\ chunk = <<>>
  /\ remainder = <<>>
  /\ parsing = FALSE
  /\ delivered = <<>>

(***************************************************************************)
(* getNextChunk is called.  A request for no instance returns at once.     *)
(***************************************************************************)
AskForNone ==
  /\ ~parsing
  /\ 0 \in ChunkSizes
  /\ Len(delivered) < MaxChunks
  /\ delivered' = Append(delivered, <<>>)
  /\ UNCHANGED <<runs, file, stream, bzf, pos, blockEnd, activeParser, mtl,
                 status, chunk, remainder, parsing>>

AskForChunk(n) ==
  /\ ~parsing
  /\ n > 0
  /\ Len(delivered) < MaxChunks
  /\ parsing' = TRUE
  /\ chunk' = remainder
  /\ remainder' = <<>>
  /\ mtl' = [mtl EXCEPT !.numInstancesRequired = n]
  /\ UNCHANGED <<runs, file, stream, bzf, pos, blockEnd, activeParser, status, delivered>>

NeedsBlock == parsing /\ NumBuffered(chunk) < mtl.numInstancesRequired /\ status

(***************************************************************************)
(* parseBlock while the scanner has not used up the block before.          *)
(***************************************************************************)
ResumeBlock ==
  /\ NeedsBlock
  /\ activeParser
  /\ DoLexing(stream, pos, blockEnd, bzf)
  /\ UNCHANGED <<runs, file, stream, bzf, blockEnd, remainder, parsing, delivered>>

(***************************************************************************)
(* parseBlock otherwise: the next stream is opened if none is open, and    *)
(* more of it is decompressed, as many tokens as fit.  The stream ends     *)
(* with the read that returns its last token, or with the read after it.   *)
(***************************************************************************)
ParseBlock ==
  /\ NeedsBlock
  /\ ~activeParser
  /\ LET str  == IF bzf THEN stream ELSE stream + 1
         from == IF bzf THEN pos ELSE 0
         len  == Len(file[str])
     IN \E to \in from .. len, ends \in BOOLEAN :
          /\ IF ends THEN to = len ELSE to > from
          /\ stream' = str
          /\ bzf' = ~ends
          /\ blockEnd' = to
          /\ DoLexing(str, from, to, ~ends)
  /\ UNCHANGED <<runs, file, remainder, parsing, delivered>>

StraddleEntry(set, lastInstance) == {i \in 1 .. Len(set) : set[i].end >= lastInstance}

\* Mutant: only the split entry is kept, not the entries after it.
SplitAt_DropsAfter(set, lastInstance) ==
  LET i == Min(StraddleEntry(set, lastInstance))
      over == set[i].end - lastInstance
      split == SplitOffEnd(set[i], over)
  IN IF StraddleEntry(set, lastInstance) = {} THEN [chunk |-> set, rest |-> <<>>]
     ELSE IF over > 0
       THEN [chunk |-> Append(SubSeq(set, 1, i - 1), split.kept), rest |-> <<split.off>>]
       ELSE [chunk |-> SubSeq(set, 1, i), rest |-> <<>>]

(***************************************************************************)
(* The rest of getNextChunk: the entry that contains the last instance     *)
(* asked for is split, and what follows that instance is kept.             *)
(***************************************************************************)
SplitAt(set, lastInstance) ==
  LET i == Min(StraddleEntry(set, lastInstance))
      over == set[i].end - lastInstance
      split == SplitOffEnd(set[i], over)
      after == SubSeq(set, i + 1, Len(set))
  IN IF StraddleEntry(set, lastInstance) = {} THEN [chunk |-> set, rest |-> <<>>]
     ELSE IF over > 0
       THEN [chunk |-> Append(SubSeq(set, 1, i - 1), split.kept), rest |-> <<split.off>> \o after]
       ELSE [chunk |-> SubSeq(set, 1, i), rest |-> after]

StartAfter(set) == Last(set).end + 1

ReturnChunk ==
  /\ parsing
  /\ ~NeedsBlock
  /\ parsing' = FALSE
  /\ chunk' = <<>>
  /\ IF chunk = <<>>
       THEN delivered' = Append(delivered, <<>>) /\ UNCHANGED <<remainder, mtl>>
       ELSE LET parts == SplitAt(chunk, chunk[1].start + mtl.numInstancesRequired - 1)
            IN /\ delivered' = Append(delivered, parts.chunk)
               /\ remainder' = parts.rest
               /\ mtl' = [mtl EXCEPT !.startInstance = StartAfter(parts.chunk)]
  /\ UNCHANGED <<runs, file, stream, bzf, pos, blockEnd, activeParser, status>>

Next ==
  \/ AskForNone
  \/ \E n \in ChunkSizes : AskForChunk(n)
  \/ ResumeBlock
  \/ ParseBlock
  \/ ReturnChunk

(***************************************************************************)
(* getNextChunk is a sequential call: once made, it runs.                  *)
(***************************************************************************)
Spec ==
  /\ Init /\ [][Next]_vars
  /\ WF_vars(ResumeBlock) /\ WF_vars(ParseBlock) /\ WF_vars(ReturnChunk)

-----------------------------------------------------------------------------
Log == FlattenSeq(runs)

Got == FlattenSeq([i \in 1 .. Len(delivered) |-> Expand(delivered[i])])

(***************************************************************************)
(* Types, with the bounds that the scanner's five states and its place in  *)
(* the block and the file must keep.                                       *)
(***************************************************************************)
TypeOK ==
  /\ runs \in Runs
  /\ stream \in 0 .. Len(file) /\ bzf \in BOOLEAN
  /\ pos \in 0 .. blockEnd
  /\ blockEnd \in 0 .. (IF stream = 0 THEN 0 ELSE Len(file[stream]))
  /\ activeParser \in BOOLEAN
  /\ mtl \in [state : 0 .. 4, remainingGroups : Nat, lastAccess : Word,
              numInstancesRequired : Nat, startInstance : Nat,
              nextExpectedInstance : Nat]
  /\ status \in BOOLEAN
  /\ chunk \in MemSet /\ remainder \in MemSet /\ parsing \in BOOLEAN
  /\ delivered \in Seq(MemSet)

Buffered == FlattenSeq(delivered) \o chunk \o remainder

(***************************************************************************)
(* At every moment, what was returned, what is buffered and what is still  *)
(* to be scanned make up the log, and the instances are numbered through   *)
(* it from 0 without a gap, across chunks and streams: the chunks tile the *)
(* log, split patterns included, although each stream numbers its own      *)
(* accesses from 0 in the tracer.  The scanner counts from the first       *)
(* instance that has not been returned.  All this in well-typed states.    *)
(***************************************************************************)
NothingLost ==
  /\ TypeOK
  /\ ContiguousFrom(Buffered, 0)
  /\ IsPrefix(Expand(Buffered), Log)
  /\ ~status => Expand(Buffered) = Log
  /\ NextInstance(Buffered) = mtl.nextExpectedInstance
  /\ Len(Expand(FlattenSeq(delivered))) = mtl.startInstance

(***************************************************************************)
(* The reader never scans beyond the pattern that makes enough: between    *)
(* requests it keeps the rest of one pattern at most, so that a long trace *)
(* is never held in memory.                                                *)
(***************************************************************************)
KeepsLittle == Len(remainder) <= 1

(***************************************************************************)
(* Every request is answered with the next accesses of the log, all that   *)
(* were asked for as long as there are enough, and it is answered.         *)
(***************************************************************************)
Reader == INSTANCE LogReader WITH
            Sizes <- ChunkSizes,
            log   <- Log,
            got   <- Got,
            asked <- IF parsing THEN mtl.numInstancesRequired ELSE 0

ReadsLog == Reader!Spec
==============================================================================
