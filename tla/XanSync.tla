-------------------------------- MODULE XanSync --------------------------------
(***************************************************************************)
(* The synchronised calls of xanlib (xanList_sync..., xanHashTable_sync... *)
(* and the like): a call locks the mutex of its container, works on it     *)
(* with the unsynchronised call, and unlocks it.  The comparison of two    *)
(* lists locks both, the list's before the other's: any two lists, and     *)
(* also a list with itself.  xanList_syncInsertAfter, with its mutex       *)
(* locked, calls itself instead of the unsynchronised call, and locks it   *)
(* once more.  The mutexes are not recursive.                              *)
(* A client that locks a container itself, to make several unsynchronised  *)
(* calls, does the same as a call.  The destructors, which free the mutex  *)
(* that they hold, are not called.                                         *)
(***************************************************************************)
EXTENDS Naturals, FiniteSets, SequencesExt

CONSTANTS
  Threads,
  Containers,   (* numbers: an order for LockedInOrder; the calls know of none *)
  NULL

SyncAssumption ==
  Containers \subseteq Nat /\ IsFiniteSet(Containers) /\ NULL \notin Threads

VARIABLES
  mutex,  \* for each container, the thread that has locked it, or NULL
  call    \* of each thread: the mutexes it takes, how many it has, what it does

syncVars == <<mutex, call>>

Idle == [locks |-> <<>>, held |-> 0, doing |-> "nothing"]

Init ==
  /\ mutex = [c \in Containers |-> NULL]
  /\ call = [t \in Threads |-> Idle]

\* The mutexes that a call takes: its container's own, also where it reads
\* another list (xanList_syncShareSomeElements) ...
OwnMutex(c) == <<c>>

\* ... those of both lists that it compares ...
BothMutexes(c, d) == <<c, d>>

\* ... or its own once more; it waits there, and its calls of itself end.
InsertAfterMutexes(c) == <<c, c>>

Call(t, locks) ==
  /\ call[t] = Idle
  /\ call' = [call EXCEPT ![t] = [locks |-> locks, held |-> 0, doing |-> "locking"]]
  /\ UNCHANGED mutex

Wanted(t) == call[t].locks[call[t].held + 1]

LockMutex(t) ==
  /\ call[t].doing = "locking" /\ mutex[Wanted(t)] = NULL
  /\ mutex' = [mutex EXCEPT ![Wanted(t)] = t]
  /\ call' = [call EXCEPT ![t].held = @ + 1,
                          ![t].doing = IF call[t].held + 1 = Len(call[t].locks)
                                         THEN "working" ELSE "locking"]

Work(t) ==
  /\ call[t].doing = "working"
  /\ call' = [call EXCEPT ![t].doing = "unlocking"]
  /\ UNCHANGED mutex

\* Mutant: the mutex of the other list is not unlocked.
Unlocked_First(t) == [mutex EXCEPT ![call[t].locks[1]] = NULL]

\* The last mutex that was locked is the first that is unlocked.
Unlocked(t) == [mutex EXCEPT ![call[t].locks[call[t].held]] = NULL]

UnlockMutex(t) ==
  /\ call[t].doing = "unlocking"
  /\ mutex' = Unlocked(t)
  /\ call' = [call EXCEPT ![t] = IF call[t].held = 1 THEN Idle
                                ELSE [call[t] EXCEPT !.held = call[t].held - 1]]

Next ==
  \E t \in Threads :
    \/ \E c \in Containers : Call(t, OwnMutex(c)) \/ Call(t, InsertAfterMutexes(c))
    \/ \E c, d \in Containers : Call(t, BothMutexes(c, d))
    \/ LockMutex(t) \/ Work(t) \/ UnlockMutex(t)

Spec == Init /\ [][Next]_syncVars

-----------------------------------------------------------------------------
Users(c) == {t \in Threads : call[t].doing = "working" /\ Contains(call[t].locks, c)}

WaitsFor(t) == IF call[t].doing = "locking" THEN mutex[Wanted(t)] ELSE NULL

\* Threads that wait for each other, so that none of them goes on any more.
Stuck(threads) == threads # {} /\ \A t \in threads : WaitsFor(t) \in threads

LockedInOrder(t) ==
  \A i, j \in DOMAIN call[t].locks : i < j => call[t].locks[i] < call[t].locks[j]

(***************************************************************************)
(* No two calls work on a container at the same time, a mutex that is      *)
(* locked belongs to a call that has not returned, and wherever threads    *)
(* wait for each other there is one of them whose call takes its mutexes   *)
(* out of the order of the containers: a comparison in which the list does *)
(* not come before the other, or the call that locks its own mutex twice   *)
(* (xanlist.c, the synchronised calls).                                    *)
(***************************************************************************)
CallsExclusive ==
  /\ \A c \in Containers : Cardinality(Users(c)) <= 1
  /\ \A c \in Containers : mutex[c] # NULL => call[mutex[c]] # Idle
  /\ \A threads \in SUBSET Threads :
       Stuck(threads) => \E t \in threads : ~LockedInOrder(t)

(***************************************************************************)
(* What the library promises of its synchronised form ("thread-safe",      *)
(* xanlib.h:40): its calls by themselves never wait for each other for     *)
(* ever.  A list that is compared with itself, two lists that two threads  *)
(* compare in both orders, and xanList_syncInsertAfter break it.           *)
(***************************************************************************)
NeverStuck == \A threads \in SUBSET Threads : ~Stuck(threads)
=============================================================================
