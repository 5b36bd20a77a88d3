----------------------------- MODULE XanQueueSync -----------------------------
(***************************************************************************)
(* Threads at one priority queue (xanqueue.c): syncGet waits while the     *)
(* queue is empty, and a put wakes all the threads that wait, but only     *)
(* when it finds the queue empty.  What a call does with the mutex locked  *)
(* is one step.                                                            *)
(***************************************************************************)
EXTENDS XanQueue

CONSTANT Threads

VARIABLE getter  \* of each thread: "idle", "getting", or "asleep" in syncGet

queueSyncVars == <<queueVars, getter>>

SyncInit == Init /\ getter = [t \in Threads |-> "idle"]

BroadcastCondVar == [t \in Threads |-> IF getter[t] = "asleep" THEN "getting" ELSE getter[t]]

CallSyncGet(t) ==
  /\ getter[t] = "idle"
  /\ getter' = [getter EXCEPT ![t] = "getting"]
  /\ UNCHANGED queueVars

SyncGet(t) ==
  /\ getter[t] = "getting"
  /\ \/ queue.size = 0 /\ getter' = [getter EXCEPT ![t] = "asleep"] /\ UNCHANGED queueVars
     \/ Get /\ getter' = [getter EXCEPT ![t] = "idle"]

\* Threads also wake up for nothing.
WaitCondVar(t) ==
  /\ getter[t] = "asleep"
  /\ getter' = [getter EXCEPT ![t] = "getting"]
  /\ UNCHANGED queueVars

SyncPut(priority) ==
  /\ PutItem(priority)
  /\ getter' = IF queue'.size = 1 THEN BroadcastCondVar ELSE getter

SyncRemoveItem(h) == RemoveItem(h) /\ UNCHANGED getter

SyncChangeItemPriority(h, priority) == ChangeItemPriority(h, priority) /\ UNCHANGED getter

SyncNext ==
  \/ \E t \in Threads : CallSyncGet(t) \/ SyncGet(t) \/ WaitCondVar(t)
  \/ \E priority \in Priorities : SyncPut(priority)
  \/ \E h \in DOMAIN handle :
       \/ SyncRemoveItem(h)
       \/ \E priority \in Priorities : SyncChangeItemPriority(h, priority)

SyncSpec == SyncInit /\ [][SyncNext]_queueSyncVars

-----------------------------------------------------------------------------
(***************************************************************************)
(* Whatever is put, taken, removed and moved in between, no thread sleeps  *)
(* in syncGet while the queue has an item: a put that finds the queue in   *)
(* use need not wake anybody.                                              *)
(***************************************************************************)
NobodySleepsNextToItems == queue.size > 0 => \A t \in Threads : getter[t] # "asleep"
===============================================================================
