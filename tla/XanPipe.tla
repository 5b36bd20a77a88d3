------------------------------- MODULE XanPipe -------------------------------
(***************************************************************************)
(* The pipes of xanlib (xanpipe.c): a list behind a mutex, on which        *)
(* threads wait for data.  A put wakes all the threads that wait, but only *)
(* when the pipe was empty; a put at the end wakes one.                    *)
(*                                                                         *)
(* Everything a call does between locking and unlocking the mutex, or      *)
(* between locking it and waiting, is one step: the other calls cannot     *)
(* see what is in between.  A waiting thread may also wake up for nothing. *)
(* The data are numbered as they are put.  The unsynchronised calls are    *)
(* for a client that locks the pipe itself, and xanPipe_get, which unlocks *)
(* the pipe before it takes the data, for one that has no other thread.    *)
(***************************************************************************)
EXTENDS Naturals, SequencesExt

CONSTANTS
  Threads,
  MaxPuts   (* bound: the data that are put *)

PipeAssumption == MaxPuts \in Nat

VARIABLES
  items,     \* XanPipe::items, the oldest first
  thread,    \* what each thread does: "idle", "getting", or "asleep" in syncGet
  puts,      \* the number of data put so far
  putAtEnd   \* history: a datum was put at the end

pipeVars == <<items, thread, puts, putAtEnd>>

Asleep == {t \in Threads : thread[t] = "asleep"}

\* Mutant: the signal wakes one thread.
BroadcastCondVar_One ==
  LET woken == CHOOSE t \in Asleep : TRUE
  IN IF Asleep = {} THEN thread ELSE [thread EXCEPT ![woken] = "getting"]

BroadcastCondVar == [t \in Threads |-> IF t \in Asleep THEN "getting" ELSE thread[t]]

-----------------------------------------------------------------------------
Init ==
  /\ items = <<>>
  /\ thread = [t \in Threads |-> "idle"]
  /\ puts = 0 /\ putAtEnd = FALSE

CallSyncGet(t) ==
  /\ thread[t] = "idle"
  /\ thread' = [thread EXCEPT ![t] = "getting"]
  /\ UNCHANGED <<items, puts, putAtEnd>>

\* The loop of syncGet: it waits whenever it finds the pipe empty.
SyncGet(t) ==
  /\ thread[t] = "getting"
  /\ IF items = <<>>
       THEN thread' = [thread EXCEPT ![t] = "asleep"] /\ UNCHANGED items
       ELSE thread' = [thread EXCEPT ![t] = "idle"] /\ items' = Tail(items)
  /\ UNCHANGED <<puts, putAtEnd>>

SyncPut(t) ==
  /\ thread[t] = "idle" /\ puts < MaxPuts
  /\ puts' = puts + 1
  /\ items' = Append(items, puts')
  /\ thread' = IF Len(items') = 1 THEN BroadcastCondVar ELSE thread
  /\ UNCHANGED putAtEnd

\* pthread_cond_signal wakes one of the threads that sleep, if there is one.
SyncPutAtEnd(t) ==
  /\ thread[t] = "idle" /\ puts < MaxPuts
  /\ puts' = puts + 1
  /\ items' = <<puts'>> \o items
  /\ IF Asleep = {} THEN UNCHANGED thread
     ELSE \E u \in Asleep : thread' = [thread EXCEPT ![u] = "getting"]
  /\ putAtEnd' = TRUE

\* Data that are not in the pipe stay out of it.
SyncMoveToEnd(t) ==
  /\ thread[t] = "idle"
  /\ \E k \in DOMAIN items : items' = <<items[k]>> \o RemoveAt(items, k)
  /\ UNCHANGED <<thread, puts, putAtEnd>>

\* The handle is that of a datum that is still in the pipe.
SyncRemoveItem(t) ==
  /\ thread[t] = "idle"
  /\ \E k \in DOMAIN items : items' = RemoveAt(items, k)
  /\ UNCHANGED <<thread, puts, putAtEnd>>

SpuriousWakeup(t) ==
  /\ thread[t] = "asleep"
  /\ thread' = [thread EXCEPT ![t] = "getting"]
  /\ UNCHANGED <<items, puts, putAtEnd>>

Next ==
  \E t \in Threads :
    \/ CallSyncGet(t) \/ SyncGet(t) \/ SpuriousWakeup(t)
    \/ SyncPut(t) \/ SyncPutAtEnd(t) \/ SyncMoveToEnd(t) \/ SyncRemoveItem(t)

(***************************************************************************)
(* A thread that is awake in syncGet runs on: the scheduler gives it its   *)
(* turn and the others hold the mutex for a while only.  Nobody has to     *)
(* make a call, and nobody wakes up unless it is woken.                    *)
(***************************************************************************)
Fairness == \A t \in Threads : WF_pipeVars(SyncGet(t))

Spec == Init /\ [][Next]_pipeVars /\ Fairness

-----------------------------------------------------------------------------
Getting(t) == thread[t] # "idle"

TypeOK ==
  /\ items \in Seq(Nat) /\ puts \in Nat /\ putAtEnd \in BOOLEAN
  /\ thread \in [Threads -> {"idle", "getting", "asleep"}]

(***************************************************************************)
(* As long as data are only put in the usual way, a thread in syncGet does *)
(* not stay there for ever with data in the pipe, however many threads     *)
(* wait and whatever is moved, removed or put together with it.            *)
(***************************************************************************)
WaitersServedByPuts ==
  \A t \in Threads : []<>(~Getting(t) \/ items = <<>> \/ putAtEnd)

(***************************************************************************)
(* The same whichever way data are put: xanlib.h says of both puts that    *)
(* they signal to any waiting threads that there is data.                  *)
(***************************************************************************)
WaitersServed == \A t \in Threads : []<>(~Getting(t) \/ items = <<>>)

(***************************************************************************)
(* A thread sleeps next to data only when it overlooked them: never, while *)
(* data are only put in the usual way.                                     *)
(***************************************************************************)
NoLostWakeup == items # <<>> => Asleep = {} \/ putAtEnd
=============================================================================
