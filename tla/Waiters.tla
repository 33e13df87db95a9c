------------------------------ MODULE Waiters ------------------------------
(***************************************************************************)
(* What AsyncMutex and Semaphore share (src/kernel/src/sync): the tasks    *)
(* that use the object, the bounded queue of wakers, and a future's        *)
(* `registered` flag.                                                      *)
(*                                                                         *)
(* The tasks are driven by the scheduler of TaskSched: a ready task is     *)
(* polled and runs until its poll returns; waking a task makes it ready.   *)
(* The kernel polls one task at a time (one CPU); both types are declared  *)
(* Send and Sync, so `cpus` also ranges over more.                         *)
(***************************************************************************)
EXTENDS Integers, Sequences, FiniteSets

CONSTANTS
  Tasks,       \* the tasks that share the object
  MaxWaiters,  \* MAX_WAITERS
  CpuCounts    \* how many tasks can be in the middle of a poll at once

ASSUME WaitersAssumption ==
  /\ MaxWaiters \in Nat \ {0}
  /\ CpuCounts \subseteq Nat \ {0}

VARIABLES
  cpus,        \* parameter: an element of CpuCounts
  ready,       \* tasks that will be polled
  running,     \* tasks that are being polled
  waiters,     \* the queued wakers, as their tasks
  registered,  \* `registered` of t's latest future
  pc           \* pc[t]: where t is in its use of the object

schedVars == <<cpus, ready, running>>
waitVars == <<cpus, ready, running, waiters, registered, pc>>

WInit ==
  /\ cpus \in CpuCounts
  /\ ready = Tasks
  /\ running = {}
  /\ waiters = <<>>
  /\ registered = [t \in Tasks |-> FALSE]
  /\ pc = [t \in Tasks |-> "idle"]

At(t, s) == t \in running /\ pc[t] = s

Goto(t, s) == pc' = [pc EXCEPT ![t] = s]

InWaiters(t) == \E i \in 1..Len(waiters) : waiters[i] = t

\* The executor polls t; a task that is pending in a future polls that future.
Poll(t) ==
  /\ t \in ready \ running
  /\ Cardinality(running) < cpus
  /\ ready' = ready \ {t}
  /\ running' = running \cup {t}
  /\ Goto(t, IF pc[t] = "wait" THEN "fast" ELSE pc[t])
  /\ UNCHANGED <<cpus, waiters, registered>>

\* t's poll ends at an await of something else, with or without the object; t
\* is woken again right away (yield_now).
Yield(t) ==
  /\ At(t, "idle") \/ At(t, "hold")
  /\ ready' = ready \cup {t}
  /\ running' = running \ {t}
  /\ UNCHANGED <<cpus, waiters, registered, pc>>

\* lock() or acquire(): a new future, which is then polled.
NewFuture(t) ==
  /\ At(t, "idle")
  /\ registered' = [registered EXCEPT ![t] = FALSE]
  /\ Goto(t, "fast")
  /\ UNCHANGED <<schedVars, waiters>>

\* Mutant: the waker is pushed on a full queue.
RegisterUnbounded(t) ==
  /\ At(t, "register")
  /\ waiters' = IF ~registered[t] THEN Append(waiters, t) ELSE waiters
  /\ registered' = [registered EXCEPT ![t] = TRUE]
  /\ Goto(t, "recheck")
  /\ UNCHANGED schedVars

\* The slow path of poll: the waker is pushed once per future, and dropped if
\* the queue is full.
Register(t) ==
  /\ At(t, "register")
  /\ waiters' = IF ~registered[t] /\ Len(waiters) < MaxWaiters
                THEN Append(waiters, t) ELSE waiters
  /\ registered' = [registered EXCEPT ![t] = TRUE]
  /\ Goto(t, "recheck")
  /\ UNCHANGED schedVars

\* Poll::Pending.
Suspend(t) ==
  /\ Goto(t, "wait")
  /\ running' = running \ {t}
  /\ UNCHANGED <<cpus, ready, waiters, registered>>

\* Mutant: the first waiter is woken and stays in the queue.
WakeNextPeek(t) ==
  /\ At(t, "wake")
  /\ ready' = ready \cup (IF waiters = <<>> THEN {} ELSE {Head(waiters)})
  /\ Goto(t, "idle")
  /\ UNCHANGED <<cpus, running, waiters, registered>>

\* Pop a waiter, if there is one, and wake it.
WakeNext(t) ==
  /\ At(t, "wake")
  /\ \/ /\ waiters # <<>>
        /\ waiters' = Tail(waiters)
        /\ ready' = ready \cup {Head(waiters)}
     \/ /\ waiters = <<>>
        /\ UNCHANGED <<waiters, ready>>
  /\ Goto(t, "idle")
  /\ UNCHANGED <<cpus, running, registered>>

-----------------------------------------------------------------------------
\* The types of the shared part, for the program points `points`.
WTypeOK(points) ==
  /\ cpus \in CpuCounts
  /\ ready \subseteq Tasks
  /\ running \subseteq Tasks
  /\ waiters \in Seq(Tasks)
  /\ Len(waiters) <= MaxWaiters
  /\ registered \in [Tasks -> BOOLEAN]
  /\ pc \in [Tasks -> points]

\* No task has two wakers in the queue.
NoDuplicateWaiter ==
  \A i, j \in 1..Len(waiters) : waiters[i] = waiters[j] => i = j
=============================================================================
