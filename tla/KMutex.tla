------------------------------- MODULE KMutex -------------------------------
(***************************************************************************)
(* The kernel mutex card_lock (K_MUTEX_DEFINE in card.c), as card.c uses   *)
(* it: recursive, always waited for with K_FOREVER, and handed over by     *)
(* k_mutex_unlock directly to the most urgent waiter, so that a thread     *)
(* that releases and immediately locks again does not overtake a waiter.   *)
(* The kernel is not in this repository: the module is external.           *)
(***************************************************************************)
EXTENDS Integers, FiniteSets

CONSTANTS
  Threads,    \* every thread that may call the module
  NoThread,   \* the owner of a free mutex
  Prio        \* [Threads -> Int], Zephyr's order: the smaller, the more urgent

ASSUME MutexAssumption ==
  /\ NoThread \notin Threads
  /\ Prio \in [Threads -> Int]

VARIABLES
  owner,      \* the thread that holds the mutex, or NoThread
  depth,      \* how many times the owner has locked it
  waiters     \* the threads pending on it

mutexVars == <<owner, depth, waiters>>

MutexTypeOK ==
  /\ owner \in Threads \union {NoThread}
  /\ depth \in Nat
  /\ waiters \subseteq Threads

MutexInit ==
  /\ owner = NoThread
  /\ depth = 0
  /\ waiters = {}

\* Whether t gets past k_mutex_lock: the mutex is free, or was handed to t.
Takeable(t) == owner \in {NoThread, t}

MutexTake(t) ==
  /\ Takeable(t)
  /\ owner' = t
  /\ depth' = 1
  /\ UNCHANGED waiters

\* k_mutex_lock on a mutex held by another thread: t pends.
MutexPend(t) ==
  /\ ~Takeable(t)
  /\ t \notin waiters
  /\ waiters' = waiters \union {t}
  /\ UNCHANGED <<owner, depth>>

\* k_mutex_lock by the owner: one more level, no waiting.
MutexRelock(t) ==
  /\ owner = t
  /\ depth' = depth + 1
  /\ UNCHANGED <<owner, waiters>>

MostUrgent(S) == {w \in S : \A v \in S : Prio[w] <= Prio[v]}

\* k_mutex_unlock by the owner at its outermost level.
MutexRelease(t) ==
  /\ owner = t
  /\ depth = 1
  /\ \/ /\ waiters = {}
        /\ owner' = NoThread
        /\ depth' = 0
        /\ UNCHANGED waiters
     \/ \E w \in MostUrgent(waiters) :
          /\ owner' = w
          /\ waiters' = waiters \ {w}
          /\ UNCHANGED depth

\* Defect: an unlock that does not look at how deep the owner is.
MutexUnnestAny(t) ==
  /\ owner = t
  /\ depth' = depth - 1
  /\ UNCHANGED <<owner, waiters>>

\* k_mutex_unlock by the owner at an inner level.
MutexUnnest(t) ==
  /\ owner = t
  /\ depth > 1
  /\ depth' = depth - 1
  /\ UNCHANGED <<owner, waiters>>
=============================================================================
