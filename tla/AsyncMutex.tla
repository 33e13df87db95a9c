----------------------------- MODULE AsyncMutex -----------------------------
(***************************************************************************)
(* AsyncMutex (src/kernel/src/sync/mutex.rs) and the tasks that use it, at *)
(* the granularity of its atomic operations: compare_exchange and store on *)
(* `locked`, push and pop on `waiters`.                                    *)
(***************************************************************************)
EXTENDS Waiters

VARIABLE locked  \* AsyncMutex.locked

mvars == <<waitVars, locked>>

MInit == WInit /\ locked = FALSE

\* Mutant: a swap whose result is not looked at.
AcquireAlways(t) ==
  /\ locked' = TRUE
  /\ Goto(t, "hold")

\* compare_exchange(false, true) succeeds: t gets the guard.
Acquire(t) ==
  /\ ~locked
  /\ locked' = TRUE
  /\ Goto(t, "hold")

\* It fails, and t goes on at s.
Refused(t, s) ==
  /\ locked
  /\ Goto(t, s)
  /\ UNCHANGED locked

\* try_lock: one compare_exchange.
TryLock(t) ==
  /\ At(t, "idle")
  /\ Acquire(t) \/ Refused(t, "idle")
  /\ UNCHANGED <<schedVars, waiters, registered>>

\* The fast path of AsyncMutexLockFuture::poll.
LockFast(t) ==
  /\ At(t, "fast")
  /\ Acquire(t) \/ Refused(t, "register")
  /\ UNCHANGED <<schedVars, waiters, registered>>

\* The double-check after the registration succeeds.
LockRecheckFree(t) ==
  /\ At(t, "recheck")
  /\ Acquire(t)
  /\ UNCHANGED <<schedVars, waiters, registered>>

\* It fails: Poll::Pending.
LockPending(t) ==
  /\ At(t, "recheck")
  /\ locked
  /\ Suspend(t)
  /\ UNCHANGED locked

\* Mutant: the guard's drop does not call wake_next.
UnlockSilently(t) ==
  /\ At(t, "hold")
  /\ locked' = FALSE
  /\ Goto(t, "idle")
  /\ UNCHANGED <<schedVars, waiters, registered>>

\* The guard's drop stores false, then calls wake_next.
Unlock(t) ==
  /\ At(t, "hold")
  /\ locked' = FALSE
  /\ Goto(t, "wake")
  /\ UNCHANGED <<schedVars, waiters, registered>>

-----------------------------------------------------------------------------
\* The steps inside lock() and inside the guard's drop.
InCall(t) ==
  \/ LockFast(t)
  \/ Register(t) /\ UNCHANGED locked
  \/ LockRecheckFree(t)
  \/ LockPending(t)
  \/ WakeNext(t) /\ UNCHANGED locked

MStep(t) ==
  \/ Poll(t) /\ UNCHANGED locked
  \/ Yield(t) /\ UNCHANGED locked
  \/ NewFuture(t) /\ UNCHANGED locked
  \/ TryLock(t)
  \/ InCall(t)
  \/ Unlock(t)

MNext == \E t \in Tasks : MStep(t)

MSpec == MInit /\ [][MNext]_mvars

\* A call runs to its end; a task does not keep the CPU forever; a ready task
\* is eventually polled (the executor's run queue is FIFO and the tasks share
\* a priority level); a guard is eventually dropped.
MFairSpec ==
  /\ MSpec
  /\ \A t \in Tasks : /\ WF_mvars(InCall(t))
                      /\ SF_mvars(Yield(t) /\ UNCHANGED locked)
                      /\ SF_mvars(Poll(t) /\ UNCHANGED locked)
                      /\ SF_mvars(Unlock(t))
-----------------------------------------------------------------------------
(* Properties.                                                              *)

MPoints == {"idle", "fast", "register", "recheck", "wait", "hold", "wake"}

\* Every variable has its type; the waiter queue keeps its capacity.
MTypeOK == WTypeOK(MPoints) /\ locked \in BOOLEAN

Holds(t) == pc[t] = "hold"

\* "We hold the lock, so we have exclusive access": no two guards exist at the
\* same time, through any mix of try_lock, fast path and double-check, and the
\* flag is set exactly while a guard exists.
MutualExclusion ==
  /\ \A t, u \in Tasks : Holds(t) /\ Holds(u) => t = u
  /\ locked <=> \E t \in Tasks : Holds(t)

\* With one CPU the waiter queue holds only wakers of tasks that are pending in
\* lock(), each once: no wake of the mutex is spent on a task that does not
\* want it, and one future never takes two of the MAX_WAITERS places.
MWaitersArePending ==
  cpus = 1 =>
    /\ NoDuplicateWaiter
    /\ \A i \in 1..Len(waiters) : pc[waiters[i]] \in {"recheck", "wait"}

\* With one CPU, the mutex is never free with queued waiters and nobody on the
\* way to take it: some task is about to wake a waiter, or is inside lock(),
\* or has been woken for it.
MNoStall ==
  (cpus = 1 /\ ~locked /\ waiters # <<>>) =>
    \E t \in Tasks : \/ pc[t] = "wake"
                     \/ t \in running /\ pc[t] = "fast"
                     \/ t \in ready /\ pc[t] = "wait"

\* A task does not stay pending in lock() forever while the mutex is free: it
\* yields "until the lock becomes available", and the future double-checks
\* "after registration to avoid lost wakeup".
NoWaitOnFreeLock ==
  \A t \in Tasks : ~<>[](pc[t] = "wait" /\ ~locked)
=============================================================================
