----------------------------- MODULE AccessStore -----------------------------
(***************************************************************************)
(* What a memory tracer promises: for every instruction, a log of its      *)
(* reads and a log of its writes that only grow at the end, first in       *)
(* memory and then on disk.  A flush moves the logs of memory to disk one  *)
(* after the other, each as a whole, and nothing is logged before all of   *)
(* them are there; only losing the process loses accesses, and only those  *)
(* still in memory.                                                        *)
(***************************************************************************)
EXTENDS Sequences, Naturals

CONSTANTS Insts, Operands

VARIABLES
  pending,    \* what is in memory only
  stored,     \* what is on disk
  flushing    \* the logs that the flush under way has still to move

storeVars == <<pending, stored, flushing>>

Logs == Insts \X {"r", "w"}
NoLogs == [s \in Logs |-> <<>>]

IfGiven(a) == IF a.len > 0 THEN <<a>> ELSE <<>>

With(id, op) ==
  [pending EXCEPT ![<<id, "r">>] = @ \o IfGiven(op.r1) \o IfGiven(op.r2),
                  ![<<id, "w">>] = @ \o IfGiven(op.w)]

Waiting(logs) == {s \in Logs : logs[s] # <<>>}

Start == pending = NoLogs /\ stored = NoLogs /\ flushing = {}

\* A log takes the accesses of a call; the store may then start to flush.
Log(id, op) ==
  /\ flushing = {}
  /\ LET logs == With(id, op)
     IN pending' = logs /\ flushing' \in {{}, Waiting(logs)}
  /\ UNCHANGED stored

Flush ==
  /\ flushing = {}
  /\ flushing' = Waiting(pending)
  /\ UNCHANGED <<pending, stored>>

FlushLog(s) ==
  /\ s \in flushing
  /\ stored' = [stored EXCEPT ![s] = @ \o pending[s]]
  /\ pending' = [pending EXCEPT ![s] = <<>>]
  /\ flushing' = flushing \ {s}

Lose == pending' = NoLogs /\ flushing' = {} /\ UNCHANGED stored

Restart == flushing = {} /\ flushing' = {} /\ pending' = NoLogs /\ stored' = NoLogs

Step ==
  \/ Lose
  \/ Restart
  \/ Flush
  \/ \E s \in Logs : FlushLog(s)
  \/ \E id \in Insts, op \in Operands : Log(id, op)

Spec == Start /\ [][Step]_storeVars
==============================================================================
